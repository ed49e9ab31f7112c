-------------------------- MODULE RulesMonitorProofs --------------------------
(***************************************************************************)
(* The safety properties of RulesMonitor, for all rules, files, faults and   *)
(* acts of the administrator.  What MergeRules and DiffRules do to sound      *)
(* rules comes first, then what parsing, printing and the section of the file *)
(* do, then the inductive invariant.                                        *)
(***************************************************************************)
EXTENDS RulesMonitor, FiniteSetTheorems, SequenceTheorems, NaturalsInduction,
        WellFoundedInduction, TLAPS

-----------------------------------------------------------------------------
(* Numbers and sequences *)

\* A set of numbers that is not empty has a smallest one.
LEMMA SmallestOf ==
  ASSUME NEW S, S \subseteq Nat, S # {}
  PROVE  \E m \in S : \A k \in S : m <= k
<1> DEFINE Less == OpToRel(<, Nat)
<1>1. PICK m \in S : \A k \in S : ~(<<k, m>> \in Less)
  <2>1. IsWellFoundedOn(Less, Nat)
    BY NatLessThanWellFounded
  <2> HIDE DEF Less
  <2>2. QED
    BY <2>1, WFMin
<1>2. \A k \in S : ~(k < m)
  <2>1. ASSUME NEW k \in S PROVE ~(k < m)
    BY <1>1, <2>1 DEF OpToRel
  <2>2. QED
    BY <2>1
<1>3. QED
  BY <1>2

\* Induction up to n, about the values of a function.
LEMMA Climb ==
  ASSUME NEW n \in Nat, NEW f, NEW D,
         f[0] \in D[0],
         \A k \in 1 .. n : f[k - 1] \in D[k - 1] => f[k] \in D[k]
  PROVE  \A k \in 0 .. n : f[k] \in D[k]
<1> DEFINE Bad0 == {k \in 0 .. n : f[k] \notin D[k]}
<1>1. SUFFICES ASSUME Bad0 # {} PROVE FALSE
  OBVIOUS
<1>2. PICK m \in Bad0 : \A k \in Bad0 : m <= k
  <2>1. Bad0 \subseteq Nat
    OBVIOUS
  <2> HIDE DEF Bad0
  <2>2. QED
    BY <1>1, <2>1, SmallestOf
<1>3. m \in 1 .. n /\ m - 1 \in 0 .. n /\ ~(m <= m - 1)
  BY <1>2
<1>4. f[m - 1] \in D[m - 1]
  BY <1>2, <1>3
<1>5. QED
  BY <1>2, <1>3, <1>4

\* f begins with base and goes on with the steps; these stay in D.
Recurs(f, n, D, base, step) ==
  /\ f \in [0 .. n -> D]
  /\ f[0] = base
  /\ \A k \in 1 .. n : f[k] = step[k][f[k - 1]]

StaysIn(D, n, step) == \A k \in 1 .. n : \A y \in D : step[k][y] \in D

\* A function that is defined by recursion exists.
LEMMA Recursion ==
  ASSUME NEW n \in Nat, NEW D, NEW base \in D, NEW step, StaysIn(D, n, step)
  PROVE  \E f : Recurs(f, n, D, base, step)
<1> USE DEF StaysIn
<1> DEFINE Is(f, m) == /\ f \in [0 .. m -> D]
                       /\ f = [k \in 0 .. m |-> IF k = 0 THEN base ELSE step[k][f[k - 1]]]
           None == {m \in 0 .. n : ~\E f : Is(f, m)}
<1>1. None = {}
  <2>1. SUFFICES ASSUME None # {} PROVE FALSE
    OBVIOUS
  <2>2. PICK m \in None : \A k \in None : m <= k
    <3>1. None \subseteq Nat
      OBVIOUS
    <3> HIDE DEF None
    <3>2. QED
      BY <2>1, <3>1, SmallestOf
  <2>3. CASE m = 0
    <3>1. PICK f : f = [k \in 0 .. 0 |-> base]
      OBVIOUS
    <3>2. Is(f, m)
      BY <2>3, <3>1
    <3>3. QED
      BY <2>2, <3>2
  <2>4. CASE m # 0
    <3>1. m \in 1 .. n /\ m - 1 \in 0 .. n /\ ~(m <= m - 1)
      BY <2>2, <2>4
    <3>2. PICK f : Is(f, m - 1)
      BY <2>2, <3>1
    <3>3. PICK g : g = [k \in 0 .. m |-> IF k = m THEN step[m][f[m - 1]] ELSE f[k]]
      OBVIOUS
    <3>4. f[m - 1] \in D
      BY <3>1, <3>2
    <3>5. step[m][f[m - 1]] \in D
      BY <3>1, <3>4
    <3>6. g \in [0 .. m -> D]
      BY <3>1, <3>2, <3>3, <3>5
    <3>7. ASSUME NEW k \in 0 .. m
          PROVE  g[k] = IF k = 0 THEN base ELSE step[k][g[k - 1]]
      <4>1. CASE k = m
        <5>1. k \in 0 .. m /\ k # 0 /\ k - 1 \in 0 .. m /\ k - 1 # m
          BY <3>1, <4>1
        <5>2. g[k] = step[m][f[m - 1]] /\ g[k - 1] = f[m - 1]
          BY <3>3, <4>1, <5>1
        <5>3. QED
          BY <4>1, <5>1, <5>2
      <4>2. CASE k # m
        <5>1. k \in 0 .. m - 1 /\ (k # 0 => k - 1 \in 0 .. m /\ k - 1 # m)
          BY <3>1, <4>2
        <5>2. g[k] = f[k] /\ (k # 0 => g[k - 1] = f[k - 1])
          BY <3>3, <4>2, <5>1
        <5>3. f[k] = IF k = 0 THEN base ELSE step[k][f[k - 1]]
          BY <3>2, <5>1
        <5>4. QED
          BY <5>2, <5>3
      <4>3. QED
        BY <4>1, <4>2
    <3>8. g = [k \in 0 .. m |-> IF k = 0 THEN base ELSE step[k][g[k - 1]]]
      BY <3>3, <3>7
    <3>9. QED
      BY <2>2, <3>6, <3>8
  <2>5. QED
    BY <2>3, <2>4
<1>2. PICK f : Is(f, n)
  <2>1. n \in 0 .. n
    OBVIOUS
  <2>2. QED
    BY <1>1, <2>1
<1>3. 0 \in 0 .. n /\ \A k \in 1 .. n : k \in 0 .. n /\ k # 0
  OBVIOUS
<1>4. QED
  BY <1>2, <1>3 DEF Recurs

-----------------------------------------------------------------------------
(* KeepAt *)

\* f counts up what is kept of the first k elements.
IsKept(f, s, I) ==
  /\ f[0] = <<>>
  /\ \A k \in 1 .. Len(s) : f[k] = IF k \in I THEN Append(f[k - 1], s[k]) ELSE f[k - 1]

\* What KeepAt returns is what such a function says.
LEMMA KeptExists ==
  ASSUME NEW S, NEW s \in Seq(S), NEW I
  PROVE  \E f \in [0 .. Len(s) -> Seq(S)] : IsKept(f, s, I) /\ KeepAt(s, I) = f[Len(s)]
<1> DEFINE Next1(y, k) == IF k \in I THEN Append(y, s[k]) ELSE y
           Is(f) == f = [k \in 0 .. Len(s) |-> IF k = 0 THEN <<>> ELSE Next1(f[k - 1], k)]
           step == [k \in 1 .. Len(s) |-> [y \in Seq(S) |-> Next1(y, k)]]
           kept == CHOOSE f : Is(f)
<1>1. Len(s) \in Nat /\ <<>> \in Seq(S)
  OBVIOUS
<1>2. StaysIn(Seq(S), Len(s), step)
  BY DEF StaysIn
<1>3. \A k \in 1 .. Len(s) : \A y \in Seq(S) : step[k][y] = Next1(y, k)
  OBVIOUS
<1> HIDE DEF Next1, step
<1>4. PICK g : Recurs(g, Len(s), Seq(S), <<>>, step)
  BY <1>1, <1>2, Recursion
<1>5. ASSUME NEW k \in 0 .. Len(s)
      PROVE  g[k] = IF k = 0 THEN <<>> ELSE Next1(g[k - 1], k)
  <2>1. k # 0 => k \in 1 .. Len(s) /\ k - 1 \in 0 .. Len(s)
    OBVIOUS
  <2>2. k # 0 => g[k - 1] \in Seq(S)
    BY <1>4, <2>1 DEF Recurs
  <2>3. QED
    BY <1>3, <1>4, <2>1, <2>2 DEF Recurs
<1>6. Is(g)
  <2>1. g \in [0 .. Len(s) -> Seq(S)]
    BY <1>4 DEF Recurs
  <2>2. QED
    BY <1>5, <2>1
<1>7. Is(kept)
  BY <1>6
<1>8. \A k \in 0 .. Len(s) : kept[k] = IF k = 0 THEN <<>> ELSE Next1(kept[k - 1], k)
  <2> HIDE DEF kept
  <2>1. QED
    BY <1>7
<1>9. KeepAt(s, I) = kept[Len(s)]
  BY DEF KeepAt, Next1
<1> HIDE DEF kept
<1>10. \A k \in 0 .. Len(s) : kept[k] \in Seq(S)
  <2> DEFINE D == [k \in 0 .. Len(s) |-> Seq(S)]
  <2>1. 0 \in 0 .. Len(s) /\ \A k \in 1 .. Len(s) : k \in 0 .. Len(s) /\ k - 1 \in 0 .. Len(s)
    OBVIOUS
  <2>2. kept[0] \in D[0]
    BY <1>1, <1>8, <2>1
  <2>3. ASSUME NEW k \in 1 .. Len(s), kept[k - 1] \in D[k - 1]
        PROVE  kept[k] \in D[k]
    <3>1. kept[k - 1] \in Seq(S) /\ s[k] \in S
      BY <2>1, <2>3
    <3>2. kept[k] = Next1(kept[k - 1], k)
      BY <1>8, <2>1
    <3>3. kept[k] \in Seq(S)
      BY <3>1, <3>2 DEF Next1
    <3>4. QED
      BY <2>1, <3>3
  <2> HIDE DEF D
  <2>4. \A k \in 0 .. Len(s) : kept[k] \in D[k]
    BY <1>1, <2>2, <2>3, Climb
  <2>5. QED
    BY <2>4 DEF D
<1>11. kept \in [0 .. Len(s) -> Seq(S)]
  BY <1>7, <1>10
<1>12. IsKept(kept, s, I)
  <2>1. 0 \in 0 .. Len(s) /\ \A k \in 1 .. Len(s) : k \in 0 .. Len(s) /\ k # 0
    OBVIOUS
  <2>2. QED
    BY <1>8, <2>1 DEF IsKept, Next1
<1>13. QED
  BY <1>9, <1>11, <1>12

\* It is the only one.
LEMMA KeptUnique ==
  ASSUME NEW S, NEW s \in Seq(S), NEW I, NEW f, IsKept(f, s, I)
  PROVE  f[Len(s)] = KeepAt(s, I)
<1>1. PICK g \in [0 .. Len(s) -> Seq(S)] : IsKept(g, s, I) /\ KeepAt(s, I) = g[Len(s)]
  BY KeptExists
<1> DEFINE D == [k \in 0 .. Len(s) |-> {g[k]}]
<1>2. Len(s) \in Nat /\ 0 \in 0 .. Len(s) /\ Len(s) \in 0 .. Len(s)
      /\ \A k \in 1 .. Len(s) : k \in 0 .. Len(s) /\ k - 1 \in 0 .. Len(s)
  OBVIOUS
<1>3. f[0] \in D[0]
  BY <1>1, <1>2 DEF IsKept
<1>4. ASSUME NEW k \in 1 .. Len(s), f[k - 1] \in D[k - 1]
      PROVE  f[k] \in D[k]
  BY <1>1, <1>2, <1>4 DEF IsKept
<1> HIDE DEF D
<1>5. f[Len(s)] \in D[Len(s)]
  BY <1>2, <1>3, <1>4, Climb
<1>6. QED
  BY <1>1, <1>2, <1>5 DEF D

LEMMA ConcatAppend ==
  ASSUME NEW S, NEW s \in Seq(S), NEW t \in Seq(S), NEW x \in S
  PROVE  s \o Append(t, x) = Append(s \o t, x)
OBVIOUS

\* What is kept is a sequence of the same elements.
LEMMA KeepType ==
  ASSUME NEW S, NEW s \in Seq(S), NEW I
  PROVE  KeepAt(s, I) \in Seq(S)
<1>1. PICK f \in [0 .. Len(s) -> Seq(S)] : KeepAt(s, I) = f[Len(s)]
  BY KeptExists
<1>2. Len(s) \in 0 .. Len(s)
  OBVIOUS
<1>3. QED
  BY <1>1, <1>2

\* Of nothing nothing is kept.
LEMMA KeepNone ==
  ASSUME NEW I
  PROVE  KeepAt(<<>>, I) = <<>>
<1> DEFINE f == [k \in {0} |-> <<>>]
           S == {}
<1>1. <<>> \in Seq(S) /\ Len(<<>>) = 0 /\ f[0] = <<>>
  OBVIOUS
<1>2. IsKept(f, <<>>, I)
  BY <1>1 DEF IsKept
<1> HIDE DEF f, S
<1>3. f[Len(<<>>)] = KeepAt(<<>>, I)
  BY <1>1, <1>2, KeptUnique
<1>4. QED
  BY <1>1, <1>3

\* The sequences may differ where nothing is kept.
LEMMA KeepSame ==
  ASSUME NEW S, NEW s \in Seq(S), NEW t \in Seq(S), Len(s) = Len(t), NEW I, NEW J,
         \A k \in 1 .. Len(s) : (k \in I <=> k \in J) /\ (k \in I => s[k] = t[k])
  PROVE  KeepAt(s, I) = KeepAt(t, J)
<1>1. PICK f \in [0 .. Len(s) -> Seq(S)] : IsKept(f, s, I) /\ KeepAt(s, I) = f[Len(s)]
  BY KeptExists
<1>2. IsKept(f, t, J)
  BY <1>1 DEF IsKept
<1>3. QED
  BY <1>1, <1>2, KeptUnique

\* What is kept of two parts is what is kept of each.
LEMMA KeepConcat ==
  ASSUME NEW S, NEW s \in Seq(S), NEW t \in Seq(S), NEW I, NEW J,
         \A k \in 1 .. Len(t) : k \in J <=> Len(s) + k \in I
  PROVE  KeepAt(s \o t, I) = KeepAt(s, I) \o KeepAt(t, J)
<1>1. PICK f \in [0 .. Len(s) -> Seq(S)] : IsKept(f, s, I) /\ KeepAt(s, I) = f[Len(s)]
  BY KeptExists
<1>2. PICK g \in [0 .. Len(t) -> Seq(S)] : IsKept(g, t, J) /\ KeepAt(t, J) = g[Len(t)]
  BY KeptExists
<1>3. /\ s \o t \in Seq(S) /\ Len(s \o t) = Len(s) + Len(t)
      /\ Len(s) \in Nat /\ Len(t) \in Nat
      /\ \A k \in 1 .. Len(s) : (s \o t)[k] = s[k]
      /\ \A k \in 1 .. Len(t) : (s \o t)[Len(s) + k] = t[k]
  OBVIOUS
<1> DEFINE h == [k \in 0 .. Len(s) + Len(t) |->
                   IF k <= Len(s) THEN f[k] ELSE f[Len(s)] \o g[k - Len(s)]]
<1>4. \A k \in 0 .. Len(s) : h[k] = f[k]
  BY <1>3
<1>5. \A k \in 0 .. Len(t) : h[Len(s) + k] = f[Len(s)] \o g[k]
  <2>1. ASSUME NEW k \in 0 .. Len(t) PROVE h[Len(s) + k] = f[Len(s)] \o g[k]
    <3>1. CASE k = 0
      <4>1. Len(s) \in 0 .. Len(s) /\ Len(s) + k = Len(s) /\ Len(s) \in 0 .. Len(s) + Len(t)
        BY <1>3, <3>1
      <4>2. f[Len(s)] \in Seq(S)
        BY <4>1
      <4>3. h[Len(s) + k] = f[Len(s)]
        BY <1>4, <4>1
      <4>4. g[0] = <<>>
        BY <1>2 DEF IsKept
      <4>5. f[Len(s)] \o <<>> = f[Len(s)]
        BY <4>2
      <4>6. QED
        BY <3>1, <4>3, <4>4, <4>5
    <3>2. CASE k # 0
      BY <1>3, <3>2
    <3>3. QED
      BY <3>1, <3>2
  <2>2. QED
    BY <2>1
<1> HIDE DEF h
<1>6. IsKept(h, s \o t, I)
  <2>1. h[0] = <<>>
    BY <1>1, <1>3, <1>4 DEF IsKept
  <2>2. ASSUME NEW k \in 1 .. Len(s)
        PROVE  h[k] = IF k \in I THEN Append(h[k - 1], (s \o t)[k]) ELSE h[k - 1]
    <3>1. k \in 0 .. Len(s) /\ k - 1 \in 0 .. Len(s)
      OBVIOUS
    <3>2. QED
      BY <1>1, <1>3, <1>4, <3>1 DEF IsKept
  <2>3. ASSUME NEW k \in 1 .. Len(t)
        PROVE  h[Len(s) + k] = IF Len(s) + k \in I
                               THEN Append(h[Len(s) + k - 1], (s \o t)[Len(s) + k])
                               ELSE h[Len(s) + k - 1]
    <3>1. k \in 0 .. Len(t) /\ k - 1 \in 0 .. Len(t) /\ Len(s) + k - 1 = Len(s) + (k - 1)
          /\ Len(s) \in 0 .. Len(s)
      BY <1>3
    <3>2. h[Len(s) + k] = f[Len(s)] \o g[k] /\ h[Len(s) + k - 1] = f[Len(s)] \o g[k - 1]
      BY <1>5, <3>1
    <3>3. f[Len(s)] \in Seq(S) /\ g[k - 1] \in Seq(S) /\ t[k] \in S
      <4>1. t[k] \in S
        OBVIOUS
      <4>2. QED
        BY <3>1, <4>1
    <3>4. f[Len(s)] \o Append(g[k - 1], t[k]) = Append(f[Len(s)] \o g[k - 1], t[k])
      <4>1. \A a \in Seq(S) : \A b \in Seq(S) : \A x \in S :
                a \o Append(b, x) = Append(a \o b, x)
        BY ConcatAppend
      <4> HIDE DEF h
      <4>2. QED
        BY <3>3, <4>1, Zenon
    <3>5. g[k] = IF k \in J THEN Append(g[k - 1], t[k]) ELSE g[k - 1]
      BY <1>2 DEF IsKept
    <3>6. QED
      BY <1>3, <3>2, <3>4, <3>5
  <2>4. ASSUME NEW k \in 1 .. Len(s \o t)
        PROVE  h[k] = IF k \in I THEN Append(h[k - 1], (s \o t)[k]) ELSE h[k - 1]
    <3>1. CASE k <= Len(s)
      BY <1>3, <2>2, <3>1
    <3>2. CASE ~(k <= Len(s))
      <4>1. k - Len(s) \in 1 .. Len(t) /\ Len(s) + (k - Len(s)) = k
        BY <1>3, <3>2
      <4>2. PICK j \in 1 .. Len(t) : Len(s) + j = k
        BY <4>1
      <4>3. k - 1 = Len(s) + j - 1
        BY <1>3, <4>2
      <4>4. h[Len(s) + j] = IF Len(s) + j \in I
                            THEN Append(h[Len(s) + j - 1], (s \o t)[Len(s) + j])
                            ELSE h[Len(s) + j - 1]
        BY <2>3
      <4>5. QED
        BY <4>2, <4>3, <4>4, Zenon
    <3>3. QED
      BY <3>1, <3>2
  <2>5. QED
    BY <2>1, <2>4 DEF IsKept
<1>7. h[Len(s \o t)] = f[Len(s)] \o g[Len(t)]
  BY <1>3, <1>5
<1>8. QED
  BY <1>1, <1>2, <1>3, <1>6, <1>7, KeptUnique

\* One element is kept or not.
LEMMA KeepOne ==
  ASSUME NEW x, NEW I
  PROVE  KeepAt(<<x>>, I) = IF 1 \in I THEN <<x>> ELSE <<>>
<1> DEFINE f == [k \in {0, 1} |-> IF k = 1 /\ 1 \in I THEN <<x>> ELSE <<>>]
           S == {x}
<1>1. <<x>> \in Seq(S) /\ Len(<<x>>) = 1 /\ f[0] = <<>>
      /\ f[1] = (IF 1 \in I THEN <<x>> ELSE <<>>) /\ <<x>>[1] = x /\ Append(<<>>, x) = <<x>>
  OBVIOUS
<1> HIDE DEF f, S
<1>2. IsKept(f, <<x>>, I)
  <2>1. \A k \in 1 .. 1 : k = 1 /\ k - 1 = 0
    OBVIOUS
  <2>2. QED
    BY <1>1, <2>1 DEF IsKept
<1>3. f[Len(<<x>>)] = KeepAt(<<x>>, I)
  BY <1>1, <1>2, KeptUnique
<1>4. QED
  BY <1>1, <1>3

\* When every position is kept the sequence is.
LEMMA KeepAll ==
  ASSUME NEW S, NEW s \in Seq(S), NEW I, 1 .. Len(s) \subseteq I
  PROVE  KeepAt(s, I) = s
<1> DEFINE f == [k \in 0 .. Len(s) |-> SubSeq(s, 1, k)]
<1>1. Len(s) \in Nat /\ 0 \in 0 .. Len(s) /\ Len(s) \in 0 .. Len(s)
  OBVIOUS
<1>2. f[0] = <<>> /\ f[Len(s)] = s
  BY <1>1
<1>3. ASSUME NEW k \in 1 .. Len(s)
      PROVE  f[k] = Append(f[k - 1], s[k])
  <2>1. k \in 0 .. Len(s) /\ k - 1 \in 0 .. Len(s) /\ k \in Int /\ k - 1 \in Int
    OBVIOUS
  <2>2. SubSeq(s, 1, k) = Append(SubSeq(s, 1, k - 1), s[k])
    <3>1. /\ SubSeq(s, 1, k) \in Seq(S) /\ Len(SubSeq(s, 1, k)) = k
          /\ \A i \in 1 .. k : SubSeq(s, 1, k)[i] = s[i]
      BY <2>1
    <3>2. /\ SubSeq(s, 1, k - 1) \in Seq(S) /\ Len(SubSeq(s, 1, k - 1)) = k - 1
          /\ \A i \in 1 .. k - 1 : SubSeq(s, 1, k - 1)[i] = s[i]
      BY <2>1
    <3>3. s[k] \in S
      OBVIOUS
    <3>4. QED
      BY <2>1, <3>1, <3>2, <3>3
  <2>3. QED
    BY <2>1, <2>2
<1> HIDE DEF f
<1>4. IsKept(f, s, I)
  BY <1>2, <1>3 DEF IsKept
<1>5. QED
  BY <1>2, <1>4, KeptUnique

\* The elements that are kept are those at the positions.
LEMMA KeepSet ==
  ASSUME NEW S, NEW s \in Seq(S), NEW I
  PROVE  ToSet(KeepAt(s, I)) = {s[k] : k \in I \cap 1 .. Len(s)}
<1>1. PICK f \in [0 .. Len(s) -> Seq(S)] : IsKept(f, s, I) /\ KeepAt(s, I) = f[Len(s)]
  BY KeptExists
<1> DEFINE D == [n \in 0 .. Len(s) |-> {y \in Seq(S) : ToSet(y) = {s[k] : k \in I \cap 1 .. n}}]
<1>2. Len(s) \in Nat /\ 0 \in 0 .. Len(s) /\ Len(s) \in 0 .. Len(s)
      /\ \A n \in 1 .. Len(s) : n \in 0 .. Len(s) /\ n - 1 \in 0 .. Len(s)
  OBVIOUS
<1>3. f[0] \in D[0]
  <2>1. f[0] = <<>> /\ ToSet(<<>>) = {} /\ 1 .. 0 = {}
    BY <1>1 DEF IsKept, ToSet
  <2>2. QED
    BY <1>2, <2>1
<1>4. ASSUME NEW n \in 1 .. Len(s), f[n - 1] \in D[n - 1]
      PROVE  f[n] \in D[n]
  <2>1. f[n - 1] \in Seq(S) /\ ToSet(f[n - 1]) = {s[k] : k \in I \cap 1 .. n - 1}
    BY <1>2, <1>4
  <2>2. s[n] \in S /\ 1 .. n = (1 .. n - 1) \cup {n}
    OBVIOUS
  <2>3. CASE n \in I
    <3>1. f[n] = Append(f[n - 1], s[n])
      BY <1>1, <2>3 DEF IsKept
    <3>2. ToSet(f[n]) = ToSet(f[n - 1]) \cup {s[n]}
      <4>1. /\ DOMAIN f[n] = 1 .. Len(f[n - 1]) + 1 /\ DOMAIN f[n - 1] = 1 .. Len(f[n - 1])
            /\ Len(f[n - 1]) \in Nat
            /\ \A i \in 1 .. Len(f[n - 1]) : f[n][i] = f[n - 1][i]
            /\ f[n][Len(f[n - 1]) + 1] = s[n]
        BY <2>1, <2>2, <3>1
      <4>2. \A i \in DOMAIN f[n] : i \in DOMAIN f[n - 1] \/ i = Len(f[n - 1]) + 1
        BY <4>1
      <4>3. \A i \in DOMAIN f[n - 1] : i \in DOMAIN f[n]
        BY <4>1
      <4>4. Len(f[n - 1]) + 1 \in DOMAIN f[n]
        BY <4>1
      <4>5. QED
        BY <4>1, <4>2, <4>3, <4>4 DEF ToSet
    <3>3. f[n] \in Seq(S)
      BY <2>1, <2>2, <3>1
    <3>4. QED
      BY <1>2, <2>1, <2>2, <2>3, <3>2, <3>3
  <2>4. CASE n \notin I
    <3>1. f[n] = f[n - 1]
      BY <1>1, <2>4 DEF IsKept
    <3>2. I \cap 1 .. n = I \cap 1 .. n - 1
      BY <2>2, <2>4
    <3>3. QED
      BY <1>2, <2>1, <3>1, <3>2
  <2>5. QED
    BY <2>3, <2>4
<1> HIDE DEF D
<1>5. f[Len(s)] \in D[Len(s)]
  BY <1>2, <1>3, <1>4, Climb
<1>6. QED
  BY <1>1, <1>2, <1>5 DEF D

\* The elements of two sequences together.
LEMMA SetOfConcat ==
  ASSUME NEW S, NEW s \in Seq(S), NEW t \in Seq(S)
  PROVE  ToSet(s \o t) = ToSet(s) \cup ToSet(t)
<1>1. /\ s \o t \in Seq(S) /\ Len(s \o t) = Len(s) + Len(t)
      /\ Len(s) \in Nat /\ Len(t) \in Nat
      /\ DOMAIN s = 1 .. Len(s) /\ DOMAIN t = 1 .. Len(t) /\ DOMAIN (s \o t) = 1 .. Len(s) + Len(t)
      /\ \A k \in 1 .. Len(s) : (s \o t)[k] = s[k]
      /\ \A k \in 1 .. Len(t) : (s \o t)[Len(s) + k] = t[k]
  OBVIOUS
<1>2. ASSUME NEW k \in DOMAIN (s \o t)
      PROVE  (s \o t)[k] \in ToSet(s) \cup ToSet(t)
  <2>1. CASE k \in DOMAIN s
    BY <1>1, <2>1 DEF ToSet
  <2>2. CASE k \notin DOMAIN s
    <3>1. PICK j \in 1 .. Len(t) : k = Len(s) + j
      <4>1. k - Len(s) \in 1 .. Len(t) /\ k = Len(s) + (k - Len(s))
        BY <1>1, <2>2
      <4>2. QED
        BY <4>1
    <3>2. QED
      BY <1>1, <3>1 DEF ToSet
  <2>3. QED
    BY <2>1, <2>2
<1>3. ASSUME NEW k \in DOMAIN s PROVE s[k] \in ToSet(s \o t)
  <2>1. k \in DOMAIN (s \o t) /\ (s \o t)[k] = s[k]
    BY <1>1
  <2>2. QED
    BY <2>1 DEF ToSet
<1>4. ASSUME NEW k \in DOMAIN t PROVE t[k] \in ToSet(s \o t)
  <2>1. Len(s) + k \in DOMAIN (s \o t) /\ (s \o t)[Len(s) + k] = t[k]
    BY <1>1
  <2>2. QED
    BY <2>1 DEF ToSet
<1>5. QED
  BY <1>2, <1>3, <1>4 DEF ToSet

LEMMA SetOfAppend ==
  ASSUME NEW S, NEW s \in Seq(S), NEW x \in S
  PROVE  ToSet(Append(s, x)) = ToSet(s) \cup {x}
<1>1. Append(s, x) = s \o <<x>> /\ <<x>> \in Seq(S)
  OBVIOUS
<1>2. ToSet(<<x>>) = {x}
  BY DEF ToSet
<1>3. ToSet(s \o <<x>>) = ToSet(s) \cup ToSet(<<x>>)
  BY <1>1, SetOfConcat
<1>4. QED
  BY <1>1, <1>2, <1>3

\* Only the empty sequence has no elements.
LEMMA SetOfNone ==
  ASSUME NEW S, NEW s \in Seq(S)
  PROVE  ToSet(s) = {} <=> s = <<>>
<1>1. s # <<>> => 1 \in DOMAIN s
  OBVIOUS
<1>2. ToSet(<<>>) = {}
  BY DEF ToSet
<1>3. QED
  BY <1>1, <1>2 DEF ToSet

LEMMA SetOfType ==
  ASSUME NEW S, NEW s \in Seq(S)
  PROVE  ToSet(s) \subseteq S
BY DEF ToSet

\* What Each makes of a function: its values in their order.
LEMMA EachType ==
  ASSUME NEW T, NEW n \in Nat, NEW m \in [1 .. n -> T]
  PROVE  <<>> \o m = m /\ m \in Seq(T) /\ Len(m) = n /\ DOMAIN m = 1 .. n
<1>1. m \in Seq(T) /\ Len(m) = n
  BY SeqDef
<1>2. QED
  BY <1>1

\* FlattenSeq joins the sequences one after the other.
LEMMA FlatExists ==
  ASSUME NEW S, NEW ss \in Seq(Seq(S)), ss # <<>>
  PROVE  \E f : /\ f \in [1 .. Len(ss) -> Seq(S)]
                /\ f[1] = ss[1]
                /\ \A k \in 2 .. Len(ss) : f[k] = f[k - 1] \o ss[k]
                /\ FlattenSeq(ss) = f[Len(ss)]
<1> DEFINE Is(f) == f = [k \in 1 .. Len(ss) |-> IF k = 1 THEN ss[k] ELSE f[k - 1] \o ss[k]]
           n == Len(ss) - 1
           step == [k \in 1 .. n |-> [y \in Seq(S) |-> y \o ss[k + 1]]]
           kept == CHOOSE f : Is(f)
<1>1. /\ Len(ss) \in Nat /\ Len(ss) # 0 /\ n \in Nat /\ n + 1 = Len(ss)
      /\ \A k \in 1 .. Len(ss) : ss[k] \in Seq(S)
      /\ ss[1] \in Seq(S)
  OBVIOUS
<1>2. \A k \in 1 .. n : k + 1 \in 1 .. Len(ss)
  BY <1>1
<1>3. \A k \in 1 .. n : \A y \in Seq(S) : step[k][y] = y \o ss[k + 1]
  OBVIOUS
<1>4. StaysIn(Seq(S), n, step)
  <2>1. ASSUME NEW k \in 1 .. n, NEW y \in Seq(S) PROVE step[k][y] \in Seq(S)
    <3>1. ss[k + 1] \in Seq(S)
      BY <1>1, <1>2
    <3>2. y \o ss[k + 1] \in Seq(S)
      BY <3>1
    <3>3. QED
      BY <1>3, <3>2
  <2>2. QED
    BY <2>1 DEF StaysIn
<1> HIDE DEF step
<1>5. PICK g : Recurs(g, n, Seq(S), ss[1], step)
  BY <1>1, <1>4, Recursion
<1> DEFINE h == [k \in 1 .. Len(ss) |-> g[k - 1]]
<1>6. ASSUME NEW k \in 1 .. Len(ss)
      PROVE  /\ h[k] = IF k = 1 THEN ss[k] ELSE h[k - 1] \o ss[k]
             /\ h[k] \in Seq(S)
  <2>1. k - 1 \in 0 .. n
    BY <1>1
  <2>2. g[k - 1] \in Seq(S)
    BY <1>5, <2>1 DEF Recurs
  <2>3. CASE k = 1
    <3>1. k - 1 = 0
      BY <2>3
    <3>2. QED
      BY <1>5, <2>2, <2>3, <3>1 DEF Recurs
  <2>4. CASE k # 1
    <3>1. k - 1 \in 1 .. n /\ k - 1 \in 1 .. Len(ss) /\ (k - 1) - 1 \in 0 .. n /\ (k - 1) + 1 = k
      BY <1>1, <2>4
    <3>2. g[(k - 1) - 1] \in Seq(S)
      BY <1>5, <3>1 DEF Recurs
    <3>3. g[k - 1] = step[k - 1][g[(k - 1) - 1]]
      BY <1>5, <3>1 DEF Recurs
    <3>4. g[k - 1] = g[(k - 1) - 1] \o ss[(k - 1) + 1]
      BY <1>3, <3>1, <3>2, <3>3
    <3>5. h[k - 1] = g[(k - 1) - 1]
      BY <3>1
    <3>6. QED
      BY <2>2, <2>4, <3>1, <3>4, <3>5
  <2>5. QED
    BY <2>3, <2>4
<1>7. Is(h)
  <2>1. \A k \in 1 .. Len(ss) : h[k] = IF k = 1 THEN ss[k] ELSE h[k - 1] \o ss[k]
    BY <1>6
  <2>2. DOMAIN h = 1 .. Len(ss) /\ h = [k \in 1 .. Len(ss) |-> h[k]]
    OBVIOUS
  <2> HIDE DEF h
  <2>3. QED
    BY <2>1, <2>2
<1> HIDE DEF h
<1>8. Is(kept)
  BY <1>7
<1>9. FlattenSeq(ss) = kept[Len(ss)]
  BY <1>1 DEF FlattenSeq
<1> HIDE DEF kept
<1>10. \A k \in 1 .. Len(ss) : kept[k] = IF k = 1 THEN ss[k] ELSE kept[k - 1] \o ss[k]
  BY <1>8
<1> HIDE DEF Is
<1>11. kept[1] = ss[1] /\ \A k \in 2 .. Len(ss) : kept[k] = kept[k - 1] \o ss[k]
  <2>1. 1 \in 1 .. Len(ss) /\ \A k \in 2 .. Len(ss) : k \in 1 .. Len(ss) /\ k # 1
    BY <1>1
  <2>2. QED
    BY <1>10, <2>1
<1>12. \A k \in 1 .. Len(ss) : kept[k] \in Seq(S)
  <2> DEFINE c == [k \in 0 .. n |-> kept[k + 1]]
             D == [k \in 0 .. n |-> Seq(S)]
  <2>1. c[0] \in D[0]
    BY <1>1, <1>11
  <2>2. ASSUME NEW k \in 1 .. n, c[k - 1] \in D[k - 1] PROVE c[k] \in D[k]
    <3>1. k \in 0 .. n /\ k - 1 \in 0 .. n /\ k + 1 \in 2 .. Len(ss) /\ (k + 1) - 1 = k
          /\ (k - 1) + 1 = k /\ k + 1 \in 1 .. Len(ss)
      BY <1>1
    <3>2. kept[k] \in Seq(S)
      BY <2>2, <3>1
    <3>3. kept[k + 1] = kept[(k + 1) - 1] \o ss[k + 1]
      BY <1>11, <3>1
    <3>4. kept[k] \o ss[k + 1] \in Seq(S)
      BY <1>1, <3>1, <3>2
    <3>5. QED
      BY <3>1, <3>3, <3>4
  <2>3. \A k \in 0 .. n : c[k] \in D[k]
    <3> HIDE DEF c, D
    <3>1. QED
      BY <1>1, <2>1, <2>2, Climb
  <2>4. ASSUME NEW k \in 1 .. Len(ss) PROVE kept[k] \in Seq(S)
    <3>1. k - 1 \in 0 .. n /\ (k - 1) + 1 = k
      BY <1>1
    <3>2. QED
      BY <2>3, <3>1
  <2>5. QED
    BY <2>4
<1>13. kept \in [1 .. Len(ss) -> Seq(S)]
  <2>1. kept = [k \in 1 .. Len(ss) |-> IF k = 1 THEN ss[k] ELSE kept[k - 1] \o ss[k]]
    BY <1>8 DEF Is
  <2>2. QED
    BY <1>12, <2>1
<1>14. QED
  BY <1>9, <1>11, <1>13

\* What FlattenSeq returns has the elements of all of them.
LEMMA Flat ==
  ASSUME NEW S, NEW ss \in Seq(Seq(S))
  PROVE  /\ FlattenSeq(ss) \in Seq(S)
         /\ ToSet(FlattenSeq(ss)) = UNION {ToSet(ss[k]) : k \in 1 .. Len(ss)}
<1>1. CASE ss = <<>>
  <2>1. FlattenSeq(ss) = <<>>
    BY <1>1 DEF FlattenSeq
  <2>2. ToSet(<<>>) = {} /\ 1 .. Len(ss) = {}
    BY <1>1 DEF ToSet
  <2>3. QED
    BY <2>1, <2>2
<1>2. CASE ss # <<>>
  <2>1. PICK f : /\ f \in [1 .. Len(ss) -> Seq(S)]
                 /\ f[1] = ss[1]
                 /\ \A k \in 2 .. Len(ss) : f[k] = f[k - 1] \o ss[k]
                 /\ FlattenSeq(ss) = f[Len(ss)]
    BY <1>2, FlatExists
  <2> DEFINE n == Len(ss) - 1
             U(m) == UNION {ToSet(ss[k]) : k \in 1 .. m}
             c == [k \in 0 .. n |-> f[k + 1]]
             D == [k \in 0 .. n |-> {y \in Seq(S) : ToSet(y) = U(k + 1)}]
  <2>2. n \in Nat /\ n + 1 = Len(ss) /\ 0 \in 0 .. n /\ n \in 0 .. n
        /\ \A k \in 1 .. Len(ss) : ss[k] \in Seq(S)
    BY <1>2
  <2>3. c[0] \in D[0]
    <3>1. U(1) = ToSet(ss[1])
      <4>1. 1 .. 1 = {1}
        OBVIOUS
      <4>2. QED
        BY <4>1
    <3>2. c[0] = ss[1] /\ ss[1] \in Seq(S)
      BY <2>1, <2>2
    <3>3. D[0] = {y \in Seq(S) : ToSet(y) = U(1)}
      <4>1. 0 + 1 = 1
        OBVIOUS
      <4>2. D[0] = {y \in Seq(S) : ToSet(y) = U(0 + 1)}
        BY <2>2
      <4> HIDE DEF D, U
      <4>3. QED
        BY <4>1, <4>2
    <3> HIDE DEF c, D, U
    <3>4. QED
      BY <3>1, <3>2, <3>3
  <2>4. ASSUME NEW k \in 1 .. n, c[k - 1] \in D[k - 1] PROVE c[k] \in D[k]
    <3>1. k \in 0 .. n /\ k - 1 \in 0 .. n /\ k + 1 \in 2 .. Len(ss) /\ (k + 1) - 1 = k
          /\ (k - 1) + 1 = k /\ k + 1 \in 1 .. Len(ss) /\ 1 .. k + 1 = (1 .. k) \cup {k + 1}
      BY <2>2
    <3>2. f[k] \in Seq(S) /\ ToSet(f[k]) = U(k)
      BY <2>4, <3>1
    <3>3. f[k + 1] = f[k] \o ss[k + 1]
      BY <2>1, <3>1
    <3>4. ss[k + 1] \in Seq(S)
      BY <2>2, <3>1
    <3>5. f[k] \o ss[k + 1] \in Seq(S)
      BY <3>2, <3>4
    <3>6. ToSet(f[k] \o ss[k + 1]) = U(k) \cup ToSet(ss[k + 1])
      BY <3>2, <3>4, SetOfConcat
    <3>7. U(k + 1) = U(k) \cup ToSet(ss[k + 1])
      BY <3>1
    <3>8. QED
      BY <3>1, <3>3, <3>5, <3>6, <3>7
  <2>5. c[n] \in D[n]
    <3> HIDE DEF c, D
    <3>1. \A k \in 0 .. n : c[k] \in D[k]
      BY <2>2, <2>3, <2>4, Climb
    <3>2. QED
      BY <2>2, <3>1
  <2>6. f[Len(ss)] \in Seq(S) /\ ToSet(f[Len(ss)]) = U(Len(ss))
    BY <2>2, <2>5
  <2>7. QED
    BY <2>1, <2>6
<1>3. QED
  BY <1>1, <1>2

\* What SelectInSeq returns.
LEMMA MinOf ==
  ASSUME NEW n \in Nat, NEW I, I \subseteq 1 .. n, I # {}
  PROVE  Min(I) \in I /\ \A k \in I : Min(I) <= k
<1>1. I \subseteq Nat
  OBVIOUS
<1>2. \E m \in I : \A k \in I : m <= k
  BY <1>1, SmallestOf
<1>3. QED
  BY <1>2 DEF Min

\* A finite set as a sequence.
LEMMA SetSeq ==
  ASSUME NEW S, IsFiniteSet(S)
  PROVE  SetToSeq(S) \in Seq(S)
<1>1. Cardinality(S) \in Nat /\ ExistsBijection(1 .. Cardinality(S), S)
  BY FS_CardinalityType
<1>2. PICK f : f \in Bijection(1 .. Cardinality(S), S)
  BY <1>1 DEF ExistsBijection
<1>3. f \in [1 .. Cardinality(S) -> S] /\ IsInjective(f)
  BY <1>2 DEF Bijection, Injection, IsInjective
<1>4. SetToSeq(S) \in [1 .. Cardinality(S) -> S]
  BY <1>3 DEF SetToSeq
<1>5. QED
  BY <1>1, <1>4, EachType

(* The elements of a sequence that are in T, in their order *)

Those(s, T) == KeepAt(s, {i \in DOMAIN s : s[i] \in T})

\* Those are the elements of s that are in T.
LEMMA ThoseSet ==
  ASSUME NEW S, NEW s \in Seq(S), NEW T
  PROVE  /\ Those(s, T) \in Seq(S)
         /\ ToSet(Those(s, T)) = ToSet(s) \cap T
         /\ Those(s, T) = <<>> <=> ToSet(s) \cap T = {}
<1> DEFINE I == {i \in DOMAIN s : s[i] \in T}
<1>1. KeepAt(s, I) \in Seq(S)
  BY KeepType
<1>2. ToSet(KeepAt(s, I)) = {s[k] : k \in I \cap 1 .. Len(s)}
  BY KeepSet
<1>3. DOMAIN s = 1 .. Len(s)
  OBVIOUS
<1>4. {s[k] : k \in I \cap 1 .. Len(s)} = ToSet(s) \cap T
  BY <1>3 DEF ToSet
<1>5. QED
  BY <1>1, <1>2, <1>4, SetOfNone DEF Those

LEMMA ThoseConcat ==
  ASSUME NEW S, NEW s \in Seq(S), NEW t \in Seq(S), NEW T
  PROVE  Those(s \o t, T) = Those(s, T) \o Those(t, T)
<1> DEFINE I == {i \in DOMAIN (s \o t) : (s \o t)[i] \in T}
           J == {i \in DOMAIN t : t[i] \in T}
           K == {i \in DOMAIN s : s[i] \in T}
<1>1. /\ s \o t \in Seq(S) /\ Len(s \o t) = Len(s) + Len(t)
      /\ Len(s) \in Nat /\ Len(t) \in Nat
      /\ DOMAIN s = 1 .. Len(s) /\ DOMAIN t = 1 .. Len(t) /\ DOMAIN (s \o t) = 1 .. Len(s) + Len(t)
      /\ \A k \in 1 .. Len(s) : (s \o t)[k] = s[k]
      /\ \A k \in 1 .. Len(t) : (s \o t)[Len(s) + k] = t[k]
  OBVIOUS
<1>2. \A k \in 1 .. Len(t) : k \in J <=> Len(s) + k \in I
  <2>1. \A k \in 1 .. Len(t) : Len(s) + k \in DOMAIN (s \o t)
    BY <1>1
  <2>2. QED
    BY <1>1, <2>1
<1>3. \A k \in 1 .. Len(s) : k \in K <=> k \in I
  <2>1. \A k \in 1 .. Len(s) : k \in DOMAIN (s \o t)
    BY <1>1
  <2>2. QED
    BY <1>1, <2>1
<1> HIDE DEF I, J, K
<1>4. KeepAt(s, I) = KeepAt(s, K)
  BY <1>3, KeepSame
<1>5. KeepAt(s \o t, I) = KeepAt(s, I) \o KeepAt(t, J)
  BY <1>2, KeepConcat
<1>6. QED
  BY <1>4, <1>5 DEF Those, I, J, K

LEMMA ThoseSame ==
  ASSUME NEW S, NEW s \in Seq(S), NEW t \in Seq(S), NEW T, Len(s) = Len(t),
         \A k \in 1 .. Len(s) : s[k] = t[k] \/ (s[k] \notin T /\ t[k] \notin T)
  PROVE  Those(s, T) = Those(t, T)
<1> DEFINE I == {i \in DOMAIN s : s[i] \in T}
           J == {i \in DOMAIN t : t[i] \in T}
<1>1. \A k \in 1 .. Len(s) : (k \in I <=> k \in J) /\ (k \in I => s[k] = t[k])
  <2>1. DOMAIN s = 1 .. Len(s) /\ DOMAIN t = 1 .. Len(s)
    OBVIOUS
  <2>2. QED
    BY <2>1
<1> HIDE DEF I, J
<1>2. KeepAt(s, I) = KeepAt(t, J)
  BY <1>1, KeepSame
<1>3. QED
  BY <1>2 DEF Those, I, J

LEMMA ThoseAll ==
  ASSUME NEW S, NEW s \in Seq(S), NEW T, ToSet(s) \subseteq T
  PROVE  Those(s, T) = s
<1> DEFINE I == {i \in DOMAIN s : s[i] \in T}
<1>1. 1 .. Len(s) \subseteq I
  BY DEF ToSet
<1> HIDE DEF I
<1>2. KeepAt(s, I) = s
  BY <1>1, KeepAll
<1>3. QED
  BY <1>2 DEF Those, I

(* A sequence of one element and the concatenation of two, by a name *)

\* A sequence of one element, named so that its parts can be cited.
LEMMA Single ==
  ASSUME NEW S, NEW x \in S
  PROVE  \E c \in Seq(S) : /\ c = <<x>> /\ Len(c) = 1 /\ c[1] = x /\ ToSet(c) = {x}
                           /\ \A T : x \notin T => Those(c, T) = <<>>
<1> DEFINE c == <<x>>
<1>1. c \in Seq(S) /\ c = <<x>> /\ Len(c) = 1 /\ c[1] = x
  OBVIOUS
<1>2. ToSet(c) = {x}
  BY DEF ToSet
<1> HIDE DEF c
<1>3. ASSUME NEW T, x \notin T PROVE Those(c, T) = <<>>
  <2>1. ToSet(c) \cap T = {}
    BY <1>2, <1>3
  <2>2. QED
    BY <1>1, <2>1, ThoseSet
<1>4. QED
  BY <1>1, <1>2, <1>3

\* Two sequences joined, named so that the parts can be cited.
LEMMA Joined ==
  ASSUME NEW S, NEW s \in Seq(S), NEW t \in Seq(S)
  PROVE  \E u \in Seq(S) : /\ u = s \o t /\ Len(u) = Len(s) + Len(t)
                           /\ \A k \in 1 .. Len(s) : u[k] = s[k]
                           /\ \A k \in 1 .. Len(t) : u[Len(s) + k] = t[k]
                           /\ ToSet(u) = ToSet(s) \cup ToSet(t)
                           /\ \A T : Those(u, T) = Those(s, T) \o Those(t, T)
<1> DEFINE u == s \o t
<1>1. /\ u \in Seq(S) /\ u = s \o t /\ Len(u) = Len(s) + Len(t)
      /\ \A k \in 1 .. Len(s) : u[k] = s[k]
      /\ \A k \in 1 .. Len(t) : u[Len(s) + k] = t[k]
  OBVIOUS
<1>2. ToSet(u) = ToSet(s) \cup ToSet(t)
  BY SetOfConcat
<1>3. \A T : Those(u, T) = Those(s, T) \o Those(t, T)
  BY ThoseConcat
<1> HIDE DEF u
<1>4. QED
  BY <1>1, <1>2, <1>3

-----------------------------------------------------------------------------
(* The fields of a rule *)

Named(names) == {x \in Fields : x.f \in names}

Unnamed(names) == {x \in Fields : x.f \notin names}

\* The fields of a rule.
LEMMA RuleType ==
  ASSUME NEW rule \in Rules
  PROVE  /\ rule.fields \in Seq(Fields) /\ DOMAIN rule.fields = 1 .. Len(rule.fields)
         /\ Len(rule.fields) \in Nat
         /\ \A i \in DOMAIN rule.fields : rule.fields[i] \in Fields
BY DEF Rules

LEMMA FieldIs ==
  ASSUME NEW f \in Words, NEW op \in Words, NEW v \in SUBSET Data
  PROVE  /\ Field(f, op, v) \in Fields
         /\ Field(f, op, v).f = f /\ Field(f, op, v).op = op /\ Field(f, op, v).v = v
BY DEF Field, Fields

\* The fields of a rule that have one of these names.
LEMMA FieldsAre ==
  ASSUME NEW rule \in Rules, NEW names
  PROVE  /\ FieldsOf(rule, names) = Those(rule.fields, Named(names))
         /\ FieldsOf(rule, names) \in Seq(Fields)
         /\ ToSet(FieldsOf(rule, names)) = ToSet(rule.fields) \cap Named(names)
<1>1. FieldsOf(rule, names)
        = KeepAt(rule.fields, {i \in DOMAIN rule.fields : rule.fields[i].f \in names})
  BY DEF FieldsOf, Keep, Once
<1>2. {i \in DOMAIN rule.fields : rule.fields[i].f \in names}
        = {i \in DOMAIN rule.fields : rule.fields[i] \in Named(names)}
  BY RuleType DEF Named
<1>3. FieldsOf(rule, names) = Those(rule.fields, Named(names))
  BY <1>1, <1>2 DEF Those
<1>4. QED
  BY <1>3, RuleType, ThoseSet

LEMMA NotFieldsAre ==
  ASSUME NEW rule \in Rules, NEW names
  PROVE  KeepAt(rule.fields, {i \in DOMAIN rule.fields : rule.fields[i].f \notin names})
            = Those(rule.fields, Unnamed(names))
<1>1. {i \in DOMAIN rule.fields : rule.fields[i].f \notin names}
        = {i \in DOMAIN rule.fields : rule.fields[i] \in Unnamed(names)}
  BY RuleType DEF Unnamed
<1>2. QED
  BY <1>1 DEF Those

\* A rule has a field when one of its fields has the name.
LEMMA HasFieldIs ==
  ASSUME NEW rule \in Rules, NEW name
  PROVE  /\ HasField(rule, name) <=> \E x \in ToSet(rule.fields) : x.f = name
         /\ HasField(rule, name) <=> Those(rule.fields, Named({name})) # <<>>
<1>1. FieldsOf(rule, {name}) # <<>> <=> ToSet(rule.fields) \cap Named({name}) # {}
  BY FieldsAre, SetOfNone
<1>2. ToSet(rule.fields) \subseteq Fields
  BY RuleType, SetOfType
<1>3. QED
  BY <1>1, <1>2, FieldsAre DEF HasField, Named

\* The values of the fields that have the name.
LEMMA ValuesAre ==
  ASSUME NEW rule \in Rules, NEW name
  PROVE  /\ Values(rule, name) = UNION {x.v : x \in ToSet(rule.fields) \cap Named({name})}
         /\ Values(rule, name) \subseteq Data
<1>1. Values(rule, name) = UNION {x.v : x \in ToSet(rule.fields) \cap Named({name})}
  BY FieldsAre DEF Values
<1>2. \A x \in ToSet(rule.fields) \cap Named({name}) : x.v \subseteq Data
  BY DEF Named, Fields
<1>3. QED
  BY <1>1, <1>2

LEMMA ThoseAppend ==
  ASSUME NEW S, NEW s \in Seq(S), NEW x \in S, NEW T, x \notin T
  PROVE  Those(Append(s, x), T) = Those(s, T)
<1>1. PICK c \in Seq(S) : c = <<x>> /\ \A U : x \notin U => Those(c, U) = <<>>
  BY Single
<1>2. Append(s, x) = s \o c
  BY <1>1
<1>3. Those(s \o c, T) = Those(s, T) \o Those(c, T)
  BY ThoseConcat
<1>4. Those(s, T) \o <<>> = Those(s, T)
  BY ThoseSet, ConcatEmptySeq
<1>5. QED
  BY <1>1, <1>2, <1>3, <1>4

\* A sequence without one of its elements.
LEMMA RemoveOne ==
  ASSUME NEW S, NEW s \in Seq(S), NEW i \in 1 .. Len(s)
  PROVE  /\ RemoveAt(s, i) \in Seq(S)
         /\ ToSet(s) = ToSet(RemoveAt(s, i)) \cup {s[i]}
         /\ \A T : s[i] \notin T => Those(RemoveAt(s, i), T) = Those(s, T)
<1> DEFINE a == SubSeq(s, 1, i - 1)
           b == SubSeq(s, i + 1, Len(s))
           d == SubSeq(s, 1, i)
           x == s[i]
<1>1. x \in S /\ a \in Seq(S) /\ b \in Seq(S) /\ d \in Seq(S)
  OBVIOUS
<1>2. d = Append(a, x)
  <2>1. Len(d) = i /\ \A k \in 1 .. i : d[k] = s[k]
    OBVIOUS
  <2>2. Len(a) = i - 1 /\ \A k \in 1 .. i - 1 : a[k] = s[k]
    OBVIOUS
  <2>3. i \in 1 .. i /\ i \in Nat
    OBVIOUS
  <2> HIDE DEF a, d
  <2>4. QED
    BY <1>1, <2>1, <2>2, <2>3
<1>3. d \o b = s
  <2>1. SubSeq(s, 1, i) \o SubSeq(s, i + 1, Len(s)) = SubSeq(s, 1, Len(s))
    <3>1. 1 \in 1 .. Len(s) + 1 /\ i \in 1 - 1 .. Len(s) /\ Len(s) \in i .. Len(s)
      OBVIOUS
    <3>2. QED
      BY <3>1, ConcatAdjacentSubSeq
  <2>2. QED
    BY <2>1, SubSeqFull
<1>4. RemoveAt(s, i) = a \o b
  BY DEF RemoveAt
<1> HIDE DEF a, b, d, x
<1>5. a \o b \in Seq(S) /\ ToSet(a \o b) = ToSet(a) \cup ToSet(b)
  BY <1>1, SetOfConcat
<1>6. ToSet(s) = (ToSet(a) \cup {x}) \cup ToSet(b)
  <2>1. ToSet(d \o b) = ToSet(d) \cup ToSet(b)
    BY <1>1, SetOfConcat
  <2>2. ToSet(d) = ToSet(a) \cup {x}
    BY <1>1, <1>2, SetOfAppend
  <2>3. QED
    BY <1>3, <2>1, <2>2
<1>7. ASSUME NEW T, x \notin T PROVE Those(a \o b, T) = Those(s, T)
  <2>1. Those(a \o b, T) = Those(a, T) \o Those(b, T)
    BY <1>1, ThoseConcat
  <2>2. Those(d \o b, T) = Those(d, T) \o Those(b, T)
    BY <1>1, ThoseConcat
  <2>3. Those(d, T) = Those(a, T)
    BY <1>1, <1>2, <1>7, ThoseAppend
  <2>4. QED
    BY <1>3, <2>1, <2>2, <2>3
<1>8. QED
  BY <1>4, <1>5, <1>6, <1>7 DEF x
-----------------------------------------------------------------------------
(* Rules that differ in their permissions, keys and system calls at most *)

Besides == Unnamed({"perm", "key"})

Like(a, b) ==
  /\ a.del = b.del /\ a.prepend = b.prepend /\ a.filter = b.filter /\ a.action = b.action
  /\ \A T \in SUBSET Besides : Those(a.fields, T) = Those(b.fields, T)

LEMMA LikeChain ==
  ASSUME NEW a, NEW b, NEW c, Like(a, b), Like(b, c)
  PROVE  Like(a, c)
BY DEF Like

\* SetKeys replaces the keys and leaves everything else.
LEMMA SetKeysIs ==
  ASSUME NEW rule \in Rules, NEW keys \in SUBSET Data, NEW r, r = SetKeys(rule, keys)
  PROVE  /\ r \in Rules /\ Like(rule, r) /\ r.calls = rule.calls
         /\ HasField(r, "perm") <=> HasField(rule, "perm")
         /\ GetPerms(r) = GetPerms(rule)
         /\ GetKeys(rule) \subseteq keys => GetKeys(r) = keys
<1> DEFINE I == {j \in 1 .. Len(rule.fields) : rule.fields[j].f = "key"}
           i == IF I # {} THEN Min(I) ELSE 0
           rest == IF i = 0 THEN rule ELSE RemoveField(rule, i)
           K == Field("key", "=", keys)
           Same(fs) == \A T \in SUBSET Unnamed({"key"}) : Those(fs, T) = Those(rule.fields, T)
<1>1. r = IF keys = {} THEN rest ELSE AddField(rest, "key", "=", keys)
  BY DEF SetKeys, SelectInSeq
<1>2. PICK fs \in Seq(Fields) : /\ rest = [rule EXCEPT !.fields = fs]
                               /\ ToSet(fs) \subseteq ToSet(rule.fields) /\ Same(fs)
  <2>1. CASE I = {}
    <3>1. rest = [rule EXCEPT !.fields = rule.fields]
      BY <2>1 DEF Rules
    <3>2. QED
      BY <3>1, RuleType
  <2>2. CASE I # {}
    <3>1. i \in I /\ i # 0
      <4>1. I \subseteq 1 .. Len(rule.fields)
        OBVIOUS
      <4>2. Min(I) \in I
        <5> HIDE DEF I
        <5>1. QED
          BY <2>2, <4>1, RuleType, MinOf
      <4>3. QED
        BY <2>2, <4>2
    <3>2. i \in 1 .. Len(rule.fields) /\ rule.fields[i].f = "key"
      BY <3>1
    <3> HIDE DEF i, I
    <3>3. rest = [rule EXCEPT !.fields = RemoveAt(rule.fields, i)]
      BY <3>1 DEF RemoveField
    <3>4. \A T \in SUBSET Unnamed({"key"}) : rule.fields[i] \notin T
      BY <3>2 DEF Unnamed
    <3>5. /\ RemoveAt(rule.fields, i) \in Seq(Fields)
          /\ ToSet(rule.fields) = ToSet(RemoveAt(rule.fields, i)) \cup {rule.fields[i]}
          /\ \A T : rule.fields[i] \notin T
                => Those(RemoveAt(rule.fields, i), T) = Those(rule.fields, T)
      BY <3>2, RuleType, RemoveOne
    <3>6. Same(RemoveAt(rule.fields, i))
      BY <3>4, <3>5
    <3> HIDE DEF rest
    <3>7. QED
      BY <3>3, <3>5, <3>6
  <2>3. QED
    BY <2>1, <2>2
<1> HIDE DEF rest, i, I
<1>3. K \in Fields /\ K.f = "key" /\ K.v = keys
  <2>1. "key" \in Words /\ "=" \in Words
    BY UsedWords
  <2>2. QED
    BY <2>1, FieldIs
<1> HIDE DEF K
<1>4. PICK gs \in Seq(Fields) : /\ r = [rule EXCEPT !.fields = gs]
                               /\ Same(gs)
                               /\ ToSet(gs) = ToSet(fs) \cup (IF keys = {} THEN {} ELSE {K})
  <2>1. CASE keys = {}
    BY <1>1, <1>2, <2>1
  <2>2. CASE keys # {}
    <3>1. r = [rule EXCEPT !.fields = Append(fs, K)]
      BY <1>1, <1>2, <2>2 DEF AddField, K, Rules
    <3>2. ASSUME NEW T \in SUBSET Unnamed({"key"})
          PROVE  Those(Append(fs, K), T) = Those(rule.fields, T)
      <4>1. K \notin T
        BY <1>3 DEF Unnamed
      <4>2. Those(Append(fs, K), T) = Those(fs, T)
        BY <1>3, <4>1, ThoseAppend
      <4>3. QED
        BY <1>2, <4>2
    <3>3. Append(fs, K) \in Seq(Fields) /\ ToSet(Append(fs, K)) = ToSet(fs) \cup {K}
      BY <1>3, SetOfAppend
    <3>4. QED
      BY <2>2, <3>1, <3>2, <3>3
  <2>3. QED
    BY <2>1, <2>2
<1>5. /\ r \in Rules /\ r.fields = gs /\ r.calls = rule.calls
      /\ r.del = rule.del /\ r.prepend = rule.prepend /\ r.filter = rule.filter
      /\ r.action = rule.action
  BY <1>4 DEF Rules
<1>6. Like(rule, r)
  <2>1. Besides \subseteq Unnamed({"key"})
    BY DEF Besides, Unnamed
  <2>2. QED
    BY <1>4, <1>5, <2>1 DEF Like
<1>7. Those(gs, Named({"perm"})) = Those(rule.fields, Named({"perm"}))
  <2>1. Named({"perm"}) \in SUBSET Unnamed({"key"})
    BY DEF Named, Unnamed
  <2>2. QED
    BY <1>4, <2>1
<1>8. HasField(r, "perm") <=> HasField(rule, "perm")
  BY <1>5, <1>7, HasFieldIs
<1>9. GetPerms(r) = GetPerms(rule)
  BY <1>5, <1>7, FieldsAre DEF GetPerms, Values
<1>10. ASSUME GetKeys(rule) \subseteq keys PROVE GetKeys(r) = keys
  <2>1. GetKeys(rule) = UNION {x.v : x \in ToSet(rule.fields) \cap Named({"key"})}
    BY ValuesAre DEF GetKeys
  <2>2. GetKeys(r) = UNION {x.v : x \in ToSet(gs) \cap Named({"key"})}
    BY <1>5, ValuesAre DEF GetKeys
  <2>3. \A x \in ToSet(gs) \cap Named({"key"}) : x.v \subseteq keys
    BY <1>2, <1>3, <1>4, <1>10, <2>1
  <2>4. keys # {} => K \in ToSet(gs) \cap Named({"key"})
    BY <1>3, <1>4 DEF Named
  <2>5. QED
    BY <1>3, <2>2, <2>3, <2>4
<1>11. QED
  BY <1>5, <1>6, <1>8, <1>9, <1>10

\* AddKeys adds the keys and leaves everything else.
LEMMA AddKeysIs ==
  ASSUME NEW rule \in Rules, NEW keys \in SUBSET Data, NEW r, r = AddKeys(rule, keys)
  PROVE  /\ r \in Rules /\ Like(rule, r) /\ r.calls = rule.calls
         /\ HasField(r, "perm") <=> HasField(rule, "perm")
         /\ GetPerms(r) = GetPerms(rule)
         /\ GetKeys(r) = GetKeys(rule) \cup keys
<1>1. GetKeys(rule) \subseteq Data
  BY ValuesAre DEF GetKeys
<1>2. CASE keys \subseteq GetKeys(rule)
  BY <1>2 DEF AddKeys, Like
<1>3. CASE ~(keys \subseteq GetKeys(rule))
  <2>1. r = SetKeys(rule, GetKeys(rule) \cup keys)
    BY <1>3 DEF AddKeys
  <2>2. GetKeys(rule) \cup keys \in SUBSET Data /\ GetKeys(rule) \subseteq GetKeys(rule) \cup keys
    BY <1>1
  <2>3. QED
    BY <2>1, <2>2, SetKeysIs
<1>4. QED
  BY <1>2, <1>3

\* The permissions of the i-th field become h[i].
LEMMA PermsIs ==
  ASSUME NEW rule \in Rules, NEW h \in [1 .. Len(rule.fields) -> SUBSET Data], NEW r,
         r = [rule EXCEPT !.fields = <<>> \o [i \in DOMAIN rule.fields |->
                 IF rule.fields[i].f = "perm" THEN [rule.fields[i] EXCEPT !.v = h[i]]
                 ELSE rule.fields[i]]]
  PROVE  /\ r \in Rules /\ Like(rule, r) /\ r.calls = rule.calls
         /\ HasField(r, "perm") <=> HasField(rule, "perm")
         /\ GetPerms(r) = UNION {h[i] : i \in {j \in DOMAIN rule.fields : rule.fields[j].f = "perm"}}
         /\ GetKeys(r) = GetKeys(rule)
<1> DEFINE n == Len(rule.fields)
           gs == [i \in 1 .. n |-> IF rule.fields[i].f = "perm" THEN [rule.fields[i] EXCEPT !.v = h[i]]
                                   ELSE rule.fields[i]]
<1>1. n \in Nat /\ DOMAIN rule.fields = 1 .. n /\ \A i \in 1 .. n : rule.fields[i] \in Fields
  BY RuleType
<1>2. \A i \in 1 .. n : gs[i] \in Fields
  BY <1>1 DEF Fields
<1>3. gs \in [1 .. n -> Fields]
  BY <1>2
<1>4. r = [rule EXCEPT !.fields = <<>> \o gs]
  BY <1>1
<1>5. \A i \in 1 .. n : IF rule.fields[i].f = "perm" THEN gs[i].f = "perm" /\ gs[i].v = h[i]
                        ELSE gs[i] = rule.fields[i]
  BY <1>1 DEF Fields
<1> HIDE DEF gs
<1>6. <<>> \o gs = gs /\ gs \in Seq(Fields) /\ Len(gs) = n /\ DOMAIN gs = 1 .. n
  BY <1>1, <1>3, EachType
<1>7. /\ r \in Rules /\ r.fields = gs /\ r.calls = rule.calls
      /\ r.del = rule.del /\ r.prepend = rule.prepend /\ r.filter = rule.filter
      /\ r.action = rule.action
  BY <1>4, <1>6 DEF Rules
<1>8. ASSUME NEW T \in SUBSET Unnamed({"perm"})
      PROVE  Those(rule.fields, T) = Those(gs, T)
  <2>1. \A k \in 1 .. n : rule.fields[k] = gs[k] \/ (rule.fields[k] \notin T /\ gs[k] \notin T)
    BY <1>5 DEF Unnamed
  <2>2. QED
    BY <1>6, <2>1, RuleType, ThoseSame
<1>9. Like(rule, r)
  <2>1. Besides \subseteq Unnamed({"perm"})
    BY DEF Besides, Unnamed
  <2>2. QED
    BY <1>7, <1>8, <2>1 DEF Like
<1>10. GetKeys(r) = GetKeys(rule)
  <2>1. Named({"key"}) \in SUBSET Unnamed({"perm"})
    BY DEF Named, Unnamed
  <2>2. Those(rule.fields, Named({"key"})) = Those(gs, Named({"key"}))
    BY <1>8, <2>1
  <2>3. QED
    BY <1>7, <2>2, FieldsAre DEF GetKeys, Values
<1>11. HasField(r, "perm") <=> HasField(rule, "perm")
  <2>1. ToSet(gs) = {gs[i] : i \in 1 .. n} /\ ToSet(rule.fields) = {rule.fields[i] : i \in 1 .. n}
    BY <1>1, <1>6 DEF ToSet
  <2>2. \A i \in 1 .. n : gs[i].f = "perm" <=> rule.fields[i].f = "perm"
    BY <1>5
  <2>3. HasField(r, "perm") <=> \E x \in ToSet(gs) : x.f = "perm"
    BY <1>7, HasFieldIs
  <2>4. HasField(rule, "perm") <=> \E x \in ToSet(rule.fields) : x.f = "perm"
    BY HasFieldIs
  <2> HIDE DEF n
  <2>5. QED
    BY <2>1, <2>2, <2>3, <2>4
<1>12. GetPerms(r) = UNION {h[i] : i \in {j \in DOMAIN rule.fields : rule.fields[j].f = "perm"}}
  <2>1. GetPerms(r) = UNION {x.v : x \in ToSet(gs) \cap Named({"perm"})}
    BY <1>7, ValuesAre DEF GetPerms
  <2>2. ASSUME NEW x \in ToSet(gs) \cap Named({"perm"})
        PROVE  \E i \in 1 .. n : rule.fields[i].f = "perm" /\ x.v = h[i]
    BY <1>5, <1>6 DEF ToSet, Named
  <2>3. ASSUME NEW i \in 1 .. n, rule.fields[i].f = "perm"
        PROVE  gs[i] \in ToSet(gs) \cap Named({"perm"}) /\ gs[i].v = h[i]
    <3>1. gs[i] \in Fields
      BY <1>3
    <3>2. QED
      BY <1>5, <1>6, <2>3, <3>1 DEF ToSet, Named
  <2>4. {j \in DOMAIN rule.fields : rule.fields[j].f = "perm"}
            = {j \in 1 .. n : rule.fields[j].f = "perm"}
    BY <1>1
  <2> DEFINE J == {j \in 1 .. n : rule.fields[j].f = "perm"}
             P == ToSet(gs) \cap Named({"perm"})
  <2>5. \A i \in J : gs[i] \in P /\ gs[i].v = h[i]
    BY <2>3
  <2>6. \A x \in P : \E i \in J : x.v = h[i]
    BY <2>2
  <2>7. UNION {x.v : x \in P} = UNION {h[i] : i \in J}
    <3> HIDE DEF J, P
    <3>1. QED
      BY <2>5, <2>6
  <2>8. QED
    BY <2>1, <2>4, <2>7
<1>13. QED
  BY <1>7, <1>9, <1>10, <1>11, <1>12
\* AddPerms adds the permissions of the fields that a rule has for them.
LEMMA AddPermsIs ==
  ASSUME NEW rule \in Rules, NEW perms \in SUBSET Data, NEW r, r = AddPerms(rule, perms)
  PROVE  /\ r \in Rules /\ Like(rule, r) /\ r.calls = rule.calls
         /\ HasField(r, "perm") <=> HasField(rule, "perm")
         /\ HasField(rule, "perm") => GetPerms(r) = GetPerms(rule) \cup perms
         /\ GetKeys(r) = GetKeys(rule)
<1> DEFINE n == Len(rule.fields)
           h == [i \in 1 .. n |-> rule.fields[i].v \cup perms]
           J == {j \in DOMAIN rule.fields : rule.fields[j].f = "perm"}
<1>1. DOMAIN rule.fields = 1 .. n /\ \A i \in 1 .. n : rule.fields[i] \in Fields
  BY RuleType
<1>2. h \in [1 .. n -> SUBSET Data] /\ \A i \in 1 .. n : h[i] = rule.fields[i].v \cup perms
  BY <1>1 DEF Fields
<1>3. r = [rule EXCEPT !.fields = <<>> \o [i \in DOMAIN rule.fields |->
                 IF rule.fields[i].f = "perm" THEN [rule.fields[i] EXCEPT !.v = h[i]]
                 ELSE rule.fields[i]]]
  <2>1. AddPerms(rule, perms)
          = [rule EXCEPT !.fields = <<>> \o [i \in DOMAIN rule.fields |->
                 IF rule.fields[i].f = "perm"
                 THEN [rule.fields[i] EXCEPT !.v = rule.fields[i].v \cup perms]
                 ELSE rule.fields[i]]]
    BY DEF AddPerms, MapPerms, Each, Once, Rules
  <2>2. [i \in DOMAIN rule.fields |->
                 IF rule.fields[i].f = "perm"
                 THEN [rule.fields[i] EXCEPT !.v = rule.fields[i].v \cup perms]
                 ELSE rule.fields[i]]
        = [i \in DOMAIN rule.fields |->
                 IF rule.fields[i].f = "perm" THEN [rule.fields[i] EXCEPT !.v = h[i]]
                 ELSE rule.fields[i]]
    BY <1>1, <1>2
  <2>3. QED
    BY <2>1, <2>2
<1> HIDE DEF h
<1>4. /\ r \in Rules /\ Like(rule, r) /\ r.calls = rule.calls
      /\ HasField(r, "perm") <=> HasField(rule, "perm")
      /\ GetPerms(r) = UNION {h[i] : i \in J}
      /\ GetKeys(r) = GetKeys(rule)
  BY <1>2, <1>3, PermsIs
<1>5. ASSUME HasField(rule, "perm") PROVE GetPerms(r) = GetPerms(rule) \cup perms
  <2>1. GetPerms(rule) = UNION {x.v : x \in ToSet(rule.fields) \cap Named({"perm"})}
    BY ValuesAre DEF GetPerms
  <2>2. ToSet(rule.fields) \cap Named({"perm"}) = {rule.fields[i] : i \in J}
    BY <1>1 DEF ToSet, Named
  <2>3. J # {}
    <3>1. PICK x \in ToSet(rule.fields) : x.f = "perm"
      BY <1>5, HasFieldIs
    <3>2. PICK i \in DOMAIN rule.fields : x = rule.fields[i]
      BY DEF ToSet
    <3>3. QED
      BY <3>1, <3>2
  <2>4. \A i \in J : h[i] = rule.fields[i].v \cup perms
    BY <1>1, <1>2
  <2> HIDE DEF J
  <2>5. GetPerms(rule) = UNION {rule.fields[i].v : i \in J}
    BY <2>1, <2>2
  <2>6. QED
    BY <1>4, <2>3, <2>4, <2>5
<1>6. QED
  BY <1>4, <1>5

\* SetPerms replaces them.
LEMMA SetPermsIs ==
  ASSUME NEW rule \in Rules, NEW perms \in SUBSET Data, NEW r, r = SetPerms(rule, perms)
  PROVE  /\ r \in Rules /\ Like(rule, r) /\ r.calls = rule.calls
         /\ HasField(r, "perm") <=> HasField(rule, "perm")
         /\ HasField(rule, "perm") => GetPerms(r) = perms
         /\ GetKeys(r) = GetKeys(rule)
<1> DEFINE n == Len(rule.fields)
           h == [i \in 1 .. n |-> perms]
           J == {j \in DOMAIN rule.fields : rule.fields[j].f = "perm"}
<1>1. DOMAIN rule.fields = 1 .. n /\ \A i \in 1 .. n : rule.fields[i] \in Fields
  BY RuleType
<1>2. h \in [1 .. n -> SUBSET Data] /\ \A i \in 1 .. n : h[i] = perms
  OBVIOUS
<1>3. r = [rule EXCEPT !.fields = <<>> \o [i \in DOMAIN rule.fields |->
                 IF rule.fields[i].f = "perm" THEN [rule.fields[i] EXCEPT !.v = h[i]]
                 ELSE rule.fields[i]]]
  <2>1. SetPerms(rule, perms)
          = [rule EXCEPT !.fields = <<>> \o [i \in DOMAIN rule.fields |->
                 IF rule.fields[i].f = "perm" THEN [rule.fields[i] EXCEPT !.v = perms]
                 ELSE rule.fields[i]]]
    BY DEF SetPerms, MapPerms, Each, Once, Rules
  <2>2. [i \in DOMAIN rule.fields |->
                 IF rule.fields[i].f = "perm" THEN [rule.fields[i] EXCEPT !.v = perms]
                 ELSE rule.fields[i]]
        = [i \in DOMAIN rule.fields |->
                 IF rule.fields[i].f = "perm" THEN [rule.fields[i] EXCEPT !.v = h[i]]
                 ELSE rule.fields[i]]
    BY <1>1, <1>2
  <2>3. QED
    BY <2>1, <2>2
<1> HIDE DEF h
<1>4. /\ r \in Rules /\ Like(rule, r) /\ r.calls = rule.calls
      /\ HasField(r, "perm") <=> HasField(rule, "perm")
      /\ GetPerms(r) = UNION {h[i] : i \in J}
      /\ GetKeys(r) = GetKeys(rule)
  BY <1>2, <1>3, PermsIs
<1>5. ASSUME HasField(rule, "perm") PROVE GetPerms(r) = perms
  <2>1. J # {}
    <3>1. PICK x \in ToSet(rule.fields) : x.f = "perm"
      BY <1>5, HasFieldIs
    <3>2. PICK i \in DOMAIN rule.fields : x = rule.fields[i]
      BY DEF ToSet
    <3>3. QED
      BY <3>1, <3>2
  <2>2. \A i \in J : h[i] = perms
    BY <1>1, <1>2
  <2> HIDE DEF J
  <2>3. QED
    BY <1>4, <2>1, <2>2
<1>6. QED
  BY <1>4, <1>5

\* Other system calls, and the rest as it was.
LEMMA CallsIs ==
  ASSUME NEW rule \in Rules, NEW calls, NEW r, r = [rule EXCEPT !.calls = calls],
         calls \subseteq Calls
  PROVE  /\ r \in Rules /\ Like(rule, r) /\ r.calls = calls
         /\ HasField(r, "perm") <=> HasField(rule, "perm")
         /\ GetPerms(r) = GetPerms(rule)
         /\ GetKeys(r) = GetKeys(rule)
<1>1. /\ r \in Rules /\ r.fields = rule.fields /\ r.calls = calls
      /\ r.del = rule.del /\ r.prepend = rule.prepend /\ r.filter = rule.filter
      /\ r.action = rule.action
  BY DEF Rules
<1>2. QED
  BY <1>1 DEF Like, HasField, GetPerms, GetKeys, Values, FieldsOf

\* Merging changes a rule in its keys and in its permissions or system calls only.
LEMMA MergeRuleIs ==
  ASSUME NEW a \in Rules, NEW b \in Rules, NEW r, r = MergeRule(a, b)
  PROVE  /\ r \in Rules /\ Like(a, r)
         /\ r.calls = IF IsWatch(a) THEN a.calls ELSE a.calls \cup b.calls
         /\ HasField(r, "perm") <=> HasField(a, "perm")
         /\ IsWatch(a) => GetPerms(r) = GetPerms(a) \cup GetPerms(b)
         /\ GetKeys(r) = GetKeys(a) \cup GetKeys(b)
<1> DEFINE m == IF IsWatch(a) THEN AddPerms(a, GetPerms(b)) ELSE AddSyscalls(a, b.calls)
<1>1. /\ m \in Rules /\ Like(a, m)
      /\ m.calls = IF IsWatch(a) THEN a.calls ELSE a.calls \cup b.calls
      /\ HasField(m, "perm") <=> HasField(a, "perm")
      /\ IsWatch(a) => GetPerms(m) = GetPerms(a) \cup GetPerms(b)
      /\ GetKeys(m) = GetKeys(a)
  <2>1. CASE IsWatch(a)
    <3>1. GetPerms(b) \in SUBSET Data
      BY ValuesAre DEF GetPerms
    <3>2. HasField(a, "perm")
      BY <2>1 DEF IsWatch
    <3>3. m = AddPerms(a, GetPerms(b))
      BY <2>1
    <3> HIDE DEF m
    <3>4. QED
      BY <2>1, <3>1, <3>2, <3>3, AddPermsIs
  <2>2. CASE ~IsWatch(a)
    <3>1. a.calls \cup b.calls \subseteq Calls /\ b.calls \cap Calls = b.calls
      BY DEF Rules
    <3>2. m = [a EXCEPT !.calls = a.calls \cup b.calls]
      BY <2>2, <3>1 DEF AddSyscalls, Rules
    <3> HIDE DEF m
    <3>3. QED
      BY <2>2, <3>1, <3>2, CallsIs
  <2>3. QED
    BY <2>1, <2>2
<1>2. r = AddKeys(m, GetKeys(b))
  BY DEF MergeRule
<1> HIDE DEF m
<1>3. GetKeys(b) \in SUBSET Data
  BY ValuesAre DEF GetKeys
<1>4. /\ r \in Rules /\ Like(m, r) /\ r.calls = m.calls
      /\ HasField(r, "perm") <=> HasField(m, "perm")
      /\ GetPerms(r) = GetPerms(m)
      /\ GetKeys(r) = GetKeys(m) \cup GetKeys(b)
  BY <1>1, <1>2, <1>3, AddKeysIs
<1>5. Like(a, r)
  BY <1>1, <1>4, LikeChain
<1>6. QED
  BY <1>1, <1>4, <1>5

\* So does the difference of two rules.
LEMMA DiffRuleIs ==
  ASSUME NEW a \in Rules, NEW b \in Rules, NEW r, r = DiffRule(a, b)
  PROVE  /\ r \in Rules /\ Like(a, r)
         /\ r.calls = IF IsWatch(a) THEN a.calls ELSE b.calls \ a.calls
         /\ HasField(r, "perm") <=> HasField(a, "perm")
         /\ IsWatch(a) => GetPerms(r) = GetPerms(b) \ GetPerms(a)
<1> DEFINE m == IF IsWatch(a) THEN SetPerms(a, GetPerms(b) \ GetPerms(a))
                ELSE SetSyscalls(a, b.calls \ a.calls)
<1>1. /\ m \in Rules /\ Like(a, m)
      /\ m.calls = IF IsWatch(a) THEN a.calls ELSE b.calls \ a.calls
      /\ HasField(m, "perm") <=> HasField(a, "perm")
      /\ IsWatch(a) => GetPerms(m) = GetPerms(b) \ GetPerms(a)
  <2>1. CASE IsWatch(a)
    <3>1. GetPerms(b) \ GetPerms(a) \in SUBSET Data
      BY ValuesAre DEF GetPerms
    <3>2. HasField(a, "perm")
      BY <2>1 DEF IsWatch
    <3>3. m = SetPerms(a, GetPerms(b) \ GetPerms(a))
      BY <2>1
    <3> HIDE DEF m
    <3>4. QED
      BY <2>1, <3>1, <3>2, <3>3, SetPermsIs
  <2>2. CASE ~IsWatch(a)
    <3>1. b.calls \ a.calls \subseteq Calls /\ (b.calls \ a.calls) \cap Calls = b.calls \ a.calls
      BY DEF Rules
    <3>2. m = [a EXCEPT !.calls = b.calls \ a.calls]
      BY <2>2, <3>1 DEF SetSyscalls, Rules
    <3> HIDE DEF m
    <3>3. QED
      BY <2>2, <3>1, <3>2, CallsIs
  <2>3. QED
    BY <2>1, <2>2
<1>2. r = SetKeys(m, GetKeys(b))
  BY DEF DiffRule
<1> HIDE DEF m
<1>3. GetKeys(b) \in SUBSET Data
  BY ValuesAre DEF GetKeys
<1>4. /\ r \in Rules /\ Like(m, r) /\ r.calls = m.calls
      /\ HasField(r, "perm") <=> HasField(m, "perm")
      /\ GetPerms(r) = GetPerms(m)
  BY <1>1, <1>2, <1>3, SetKeysIs
<1>5. Like(a, r)
  BY <1>1, <1>4, LikeChain
<1>6. QED
  BY <1>1, <1>4, <1>5

LEMMA LikeSet ==
  ASSUME NEW a \in Rules, NEW b \in Rules, Like(a, b), NEW T \in SUBSET Besides
  PROVE  ToSet(a.fields) \cap T = ToSet(b.fields) \cap T
<1>1. Those(a.fields, T) = Those(b.fields, T)
  BY DEF Like
<1>2. QED
  BY <1>1, RuleType, ThoseSet

\* Alike rules are both watches or neither is one.
LEMMA WatchAlike ==
  ASSUME NEW a \in Rules, NEW b \in Rules, Like(a, b), a.calls = b.calls,
         HasField(b, "perm") <=> HasField(a, "perm")
  PROVE  IsWatch(a) <=> IsWatch(b)
<1> DEFINE W == {"perm", "path", "dir", "key"}
           T == Unnamed(W)
<1>1. T \in SUBSET Besides
  BY DEF Besides, Unnamed
<1>2. ToSet(a.fields) \cap T = ToSet(b.fields) \cap T
  BY <1>1, LikeSet
<1>3. ToSet(a.fields) \subseteq Fields /\ ToSet(b.fields) \subseteq Fields
  BY RuleType, SetOfType
<1>4. (\A x \in ToSet(a.fields) : x.f \in W) <=> (\A x \in ToSet(b.fields) : x.f \in W)
  BY <1>2, <1>3 DEF Unnamed
<1>5. a.filter = b.filter
  BY DEF Like
<1>6. QED
  BY <1>4, <1>5 DEF IsWatch, IsSyscallAll

\* The merge key in terms of the fields it is made of.
LEMMA MergeKeyIs ==
  ASSUME NEW a \in Rules
  PROVE  CanonicalMergeKey(a) =
           IF IsWatch(a)
           THEN <<FieldTexts(a, Those(a.fields, Unnamed({"arch", "perm", "key"})), TRUE)>>
           ELSE <<Head1(a), Each(Those(a.fields, Named({"arch"})), ArchText)
                               \o Those(a.fields, Unnamed({"arch", "perm", "key"}))>>
<1>1. Keep(a.fields, LAMBDA x : x.f \notin {"arch", "perm", "key"})
        = KeepAt(a.fields, {i \in DOMAIN a.fields : a.fields[i].f \notin {"arch", "perm", "key"}})
  BY DEF Keep, Once
<1>2. Keep(a.fields, LAMBDA x : x.f \notin {"arch", "perm", "key"})
        = Those(a.fields, Unnamed({"arch", "perm", "key"}))
  BY <1>1, NotFieldsAre
<1>3. FieldsOf(a, {"arch"}) = Those(a.fields, Named({"arch"}))
  BY FieldsAre
<1>4. QED
  BY <1>2, <1>3 DEF CanonicalMergeKey

\* Alike rules have the same merge key.
LEMMA KeyAlike ==
  ASSUME NEW a \in Rules, NEW b \in Rules, Like(a, b), IsWatch(a) <=> IsWatch(b)
  PROVE  CanonicalMergeKey(a) = CanonicalMergeKey(b)
<1>1. Unnamed({"arch", "perm", "key"}) \in SUBSET Besides /\ Named({"arch"}) \in SUBSET Besides
  BY DEF Besides, Named, Unnamed
<1>2. /\ Those(a.fields, Unnamed({"arch", "perm", "key"}))
            = Those(b.fields, Unnamed({"arch", "perm", "key"}))
      /\ Those(a.fields, Named({"arch"})) = Those(b.fields, Named({"arch"}))
  BY <1>1 DEF Like
<1>3. Head1(a) = Head1(b)
  BY DEF Head1, Like
<1>4. ASSUME NEW o PROVE FieldTexts(a, o, TRUE) = FieldTexts(b, o, TRUE)
  <2>1. a.del = b.del
    BY DEF Like
  <2>2. QED
    BY <2>1 DEF FieldTexts, FieldText, Each, Once
<1>5. QED
  BY <1>2, <1>3, <1>4, MergeKeyIs

-----------------------------------------------------------------------------
(* What the merge key says of sound rules *)

\* What is merged of rules with the same key.
Part(rule) == IF IsWatch(rule) THEN GetPerms(rule) ELSE rule.calls

\* A sound rule has permissions only when it is a watch.
LEMMA SoundWatch ==
  ASSUME NEW rule \in Rules, Sound(rule)
  PROVE  HasField(rule, "perm") <=> IsWatch(rule)
BY DEF Sound, IsWatch

\* A rule like a sound one is sound too and has the same key.
LEMMA LikeSound ==
  ASSUME NEW a \in Rules, NEW b \in Rules, Sound(a), Like(a, b),
         HasField(b, "perm") <=> HasField(a, "perm"), IsWatch(a) => a.calls = b.calls
  PROVE  /\ Sound(b) /\ (IsWatch(b) <=> IsWatch(a))
         /\ CanonicalMergeKey(b) = CanonicalMergeKey(a)
<1>1. IsWatch(b) <=> IsWatch(a)
  <2>1. CASE IsWatch(a)
    BY <2>1, WatchAlike
  <2>2. CASE ~IsWatch(a)
    <3>1. ~HasField(b, "perm")
      BY <2>2, SoundWatch
    <3>2. QED
      BY <2>2, <3>1 DEF IsWatch
  <2>3. QED
    BY <2>1, <2>2
<1>2. CanonicalMergeKey(b) = CanonicalMergeKey(a)
  BY <1>1, KeyAlike
<1>3. ToSet(a.fields) \subseteq Fields /\ ToSet(b.fields) \subseteq Fields
  BY RuleType, SetOfType
<1>4. ASSUME NEW x \in ToSet(b.fields), x.f \in {"filetype", "arch", "path", "dir"}
      PROVE  x \in ToSet(a.fields)
  <2>1. Besides \in SUBSET Besides /\ x \in Besides
    BY <1>3, <1>4 DEF Besides, Unnamed
  <2>2. ToSet(a.fields) \cap Besides = ToSet(b.fields) \cap Besides
    BY <2>1, LikeSet
  <2>3. QED
    BY <2>1, <2>2
<1>5. ~HasField(b, "filetype")
  <2>1. ~ \E x \in ToSet(a.fields) : x.f = "filetype"
    BY HasFieldIs DEF Sound
  <2>2. ~ \E x \in ToSet(b.fields) : x.f = "filetype"
    BY <1>4, <2>1
  <2>3. QED
    BY <2>2, HasFieldIs
<1>6. ~b.del /\ ~b.prepend /\ a.action = b.action /\ a.filter = b.filter
  BY DEF Sound, Like
<1>7. \A x \in ToSet(b.fields) : x.f = "arch" => x.v # {Bad}
  BY <1>4 DEF Sound
<1>8. ASSUME HasField(b, "perm")
      PROVE  /\ IsWatch(b) /\ b.action = "always" /\ b.filter = "exit"
             /\ \A x \in ToSet(b.fields) :
                   x.f \in {"path", "dir"} => x.f = WatchField(x.v) /\ x.op = "="
  BY <1>1, <1>4, <1>6, <1>8 DEF Sound
<1>9. QED
  BY <1>1, <1>2, <1>5, <1>6, <1>7, <1>8 DEF Sound

\* A watch is printed by its paths.
LEMMA WatchTexts ==
  ASSUME NEW rule \in Rules, ~rule.del, NEW o \in Seq(Fields),
         \A x \in ToSet(o) : x.f \in {"path", "dir"}
  PROVE  ToSet(FieldTexts(rule, o, TRUE)) = {Option("w", x.v) : x \in ToSet(o)}
<1> DEFINE S == {Option("w", x.v) : x \in Fields}
           n == Len(o)
           m == [i \in 1 .. n |-> FieldText(rule, o[i], TRUE)]
<1>1. n \in Nat /\ DOMAIN o = 1 .. n /\ \A i \in 1 .. n : o[i] \in Fields /\ o[i] \in ToSet(o)
  BY DEF ToSet
<1>2. FieldTexts(rule, o, TRUE) = FlattenSeq(<<>> \o m)
  BY <1>1 DEF FieldTexts, Each, Once
<1>3. \A i \in 1 .. n : m[i] = <<Option("w", o[i].v)>>
  <2>1. ASSUME NEW i \in 1 .. n PROVE m[i] = <<Option("w", o[i].v)>>
    <3>1. o[i].f \in {"path", "dir"}
      BY <1>1
    <3>2. QED
      BY <3>1 DEF FieldText
  <2>2. QED
    BY <2>1
<1> HIDE DEF m
<1>4. \A i \in 1 .. n : Option("w", o[i].v) \in S
  BY <1>1
<1>5. \A i \in 1 .. n : m[i] \in Seq(S) /\ ToSet(m[i]) = {Option("w", o[i].v)}
  <2> HIDE DEF S
  <2>1. ASSUME NEW i \in 1 .. n
        PROVE  m[i] \in Seq(S) /\ ToSet(m[i]) = {Option("w", o[i].v)}
    <3>1. PICK c \in Seq(S) : c = <<Option("w", o[i].v)>> /\ ToSet(c) = {Option("w", o[i].v)}
      BY <1>4, Single
    <3>2. QED
      BY <1>3, <3>1
  <2>2. QED
    BY <2>1
<1>6. m \in [1 .. n -> Seq(S)]
  BY <1>5 DEF m
<1>7. <<>> \o m = m /\ m \in Seq(Seq(S)) /\ Len(m) = n
  BY <1>1, <1>6, EachType
<1>8. ToSet(FlattenSeq(m)) = UNION {ToSet(m[i]) : i \in 1 .. n}
  BY <1>7, Flat
<1>9. UNION {ToSet(m[i]) : i \in 1 .. n} = {Option("w", o[i].v) : i \in 1 .. n}
  <2>1. \A i \in 1 .. n : ToSet(m[i]) = {Option("w", o[i].v)}
    BY <1>5
  <2>2. UNION {ToSet(m[i]) : i \in 1 .. n} = UNION {{Option("w", o[i].v)} : i \in 1 .. n}
    BY <2>1
  <2>3. QED
    BY <2>2, Zenon
<1>10. ToSet(o) = {o[i] : i \in 1 .. n}
  BY <1>1 DEF ToSet
<1>11. QED
  BY <1>2, <1>7, <1>8, <1>9, <1>10

\* The key of a watch says what it watches.
LEMMA WatchKey ==
  ASSUME NEW a \in Rules, Sound(a), IsWatch(a)
  PROVE  \E k : /\ CanonicalMergeKey(a) = <<k>>
                /\ ToSet(k) = {Option("w", x.v) : x \in ToSet(a.fields) \cap Besides}
                /\ \A x \in ToSet(a.fields) \cap Besides : x = Field(WatchField(x.v), "=", x.v)
<1> DEFINE o == Those(a.fields, Unnamed({"arch", "perm", "key"}))
<1>1. CanonicalMergeKey(a) = <<FieldTexts(a, o, TRUE)>>
  BY MergeKeyIs
<1>2. o \in Seq(Fields) /\ ToSet(o) = ToSet(a.fields) \cap Unnamed({"arch", "perm", "key"})
  BY RuleType, ThoseSet
<1>3. \A x \in ToSet(a.fields) : x \in Fields /\ x.f \in {"perm", "path", "dir", "key"}
  BY RuleType, SetOfType DEF IsWatch
<1>4. ToSet(o) = ToSet(a.fields) \cap Besides
  BY <1>2, <1>3 DEF Unnamed, Besides
<1>5. \A x \in ToSet(o) : x.f \in {"path", "dir"}
  BY <1>3, <1>4 DEF Unnamed, Besides
<1> HIDE DEF o
<1>6. ToSet(FieldTexts(a, o, TRUE)) = {Option("w", x.v) : x \in ToSet(o)}
  BY <1>2, <1>5, WatchTexts DEF Sound
<1>7. ASSUME NEW x \in ToSet(a.fields) \cap Besides PROVE x = Field(WatchField(x.v), "=", x.v)
  <2>1. x.f = WatchField(x.v) /\ x.op = "="
    BY <1>4, <1>5, SoundWatch DEF Sound
  <2>2. x \in Fields
    BY <1>3
  <2>3. QED
    BY <2>1, <2>2 DEF Field, Fields
<1>8. QED
  BY <1>1, <1>4, <1>6, <1>7

\* The key of any other rule says its head and its fields.
LEMMA RuleKey ==
  ASSUME NEW a \in Rules, Sound(a), ~IsWatch(a)
  PROVE  \E k : /\ CanonicalMergeKey(a) = <<Head1(a), k>>
                /\ ToSet(k) = ToSet(a.fields) \cap Besides
<1> DEFINE o == Those(a.fields, Unnamed({"arch", "perm", "key"}))
           r == Those(a.fields, Named({"arch"}))
<1>1. CanonicalMergeKey(a) = <<Head1(a), Each(r, ArchText) \o o>>
  BY MergeKeyIs
<1>2. /\ o \in Seq(Fields) /\ ToSet(o) = ToSet(a.fields) \cap Unnamed({"arch", "perm", "key"})
      /\ r \in Seq(Fields) /\ ToSet(r) = ToSet(a.fields) \cap Named({"arch"})
  BY RuleType, ThoseSet
<1>3. \A x \in ToSet(r) : x.v # {Bad}
  BY <1>2 DEF Sound, Named
<1> HIDE DEF o, r
<1>4. Each(r, ArchText) = r
  <2>1. Each(r, ArchText) = <<>> \o [i \in DOMAIN r |-> ArchText(r[i])]
    BY DEF Each, Once
  <2>2. ASSUME NEW i \in DOMAIN r PROVE ArchText(r[i]) = r[i]
    <3>1. r[i] \in ToSet(r) /\ r[i] \in Fields
      BY <1>2 DEF ToSet
    <3>2. r[i].v # {Bad}
      BY <1>3, <3>1
    <3>3. QED
      BY <3>1, <3>2 DEF ArchText, Fields
  <2>3. [i \in DOMAIN r |-> ArchText(r[i])] = r
    BY <1>2, <2>2
  <2>4. QED
    BY <1>2, <2>1, <2>3, ConcatEmptySeq
<1>5. ToSet(r \o o) = ToSet(r) \cup ToSet(o)
  BY <1>2, SetOfConcat
<1>6. ToSet(a.fields) \subseteq Fields
  BY RuleType, SetOfType
<1>7. ToSet(r \o o) = ToSet(a.fields) \cap Besides
  BY <1>2, <1>5, <1>6 DEF Besides, Named, Unnamed
<1>8. QED
  BY <1>1, <1>4, <1>7

\* Sound rules with the same key differ in their keys, permissions and
\* system calls only.
LEMMA KeySays ==
  ASSUME NEW a \in Rules, NEW b \in Rules, Sound(a), Sound(b),
         CanonicalMergeKey(a) = CanonicalMergeKey(b)
  PROVE  /\ IsWatch(a) <=> IsWatch(b)
         /\ a.action = b.action /\ a.filter = b.filter
         /\ ToSet(a.fields) \cap Besides = ToSet(b.fields) \cap Besides
<1>1. IsWatch(a) <=> IsWatch(b)
  <2>1. ASSUME IsWatch(a), ~IsWatch(b) PROVE FALSE
    BY <2>1, WatchKey, RuleKey
  <2>2. ASSUME ~IsWatch(a), IsWatch(b) PROVE FALSE
    BY <2>2, WatchKey, RuleKey
  <2>3. QED
    BY <2>1, <2>2
<1>2. CASE IsWatch(a)
  <2>1. a.action = b.action /\ a.filter = b.filter
    BY <1>1, <1>2, SoundWatch DEF Sound
  <2> DEFINE A == ToSet(a.fields) \cap Besides
             B == ToSet(b.fields) \cap Besides
  <2>2. {Option("w", x.v) : x \in A} = {Option("w", x.v) : x \in B}
    <3>1. PICK k : CanonicalMergeKey(a) = <<k>> /\ ToSet(k) = {Option("w", x.v) : x \in A}
      BY <1>2, WatchKey
    <3>2. PICK l : CanonicalMergeKey(b) = <<l>> /\ ToSet(l) = {Option("w", x.v) : x \in B}
      BY <1>1, <1>2, WatchKey
    <3>3. k = l
      <4>1. <<k>> = <<l>>
        BY <3>1, <3>2
      <4>2. QED
        BY <4>1
    <3>4. QED
      BY <3>1, <3>2, <3>3
  <2>3. /\ \A x \in A : x = Field(WatchField(x.v), "=", x.v)
        /\ \A x \in B : x = Field(WatchField(x.v), "=", x.v)
    BY <1>1, <1>2, WatchKey
  <2> HIDE DEF A, B
  <2>4. \A x, y : Option("w", x) = Option("w", y) => x = y
    BY DEF Option
  <2>5. ASSUME NEW x \in A PROVE x \in B
    <3>1. Option("w", x.v) \in {Option("w", y.v) : y \in B}
      BY <2>2
    <3>2. PICK y \in B : Option("w", x.v) = Option("w", y.v)
      BY <3>1
    <3>3. x.v = y.v
      BY <2>4, <3>2
    <3>4. QED
      BY <2>3, <3>3
  <2>6. ASSUME NEW x \in B PROVE x \in A
    <3>1. Option("w", x.v) \in {Option("w", y.v) : y \in A}
      BY <2>2
    <3>2. PICK y \in A : Option("w", x.v) = Option("w", y.v)
      BY <3>1
    <3>3. x.v = y.v
      BY <2>4, <3>2
    <3>4. QED
      BY <2>3, <3>3
  <2>8. A = B
    BY <2>5, <2>6
  <2>9. QED
    BY <1>1, <2>1, <2>8 DEF A, B
<1>3. CASE ~IsWatch(a)
  <2>1. PICK k : CanonicalMergeKey(a) = <<Head1(a), k>> /\ ToSet(k) = ToSet(a.fields) \cap Besides
    BY <1>3, RuleKey
  <2>2. PICK l : CanonicalMergeKey(b) = <<Head1(b), l>> /\ ToSet(l) = ToSet(b.fields) \cap Besides
    BY <1>1, <1>3, RuleKey
  <2>3. Head1(a) = Head1(b) /\ k = l
    <3>1. <<Head1(a), k>> = <<Head1(b), l>>
      BY <2>1, <2>2
    <3>2. QED
      BY <3>1
  <2>4. a.action = b.action /\ a.filter = b.filter
    BY <2>3 DEF Head1, Option
  <2>5. QED
    BY <1>1, <2>1, <2>2, <2>3, <2>4
<1>4. QED
  BY <1>2, <1>3
-----------------------------------------------------------------------------
(* What sound rules select *)

Header(rule) == [del |-> rule.del, action |-> rule.action, filter |-> rule.filter,
                 fields |-> ToSet(rule.fields) \cap Besides]

\* What a sound rule selects, in terms of the part that is merged.
LEMMA PointsAre ==
  ASSUME NEW rule \in Rules, Sound(rule)
  PROVE  \A p : p \in Points(rule) <=>
           \E m, c : /\ p = <<Header(rule), m, c>>
                     /\ IF IsWatch(rule) THEN m \in Part(rule) ELSE m \in Perms
                     /\ IF IsWatch(rule) THEN c \in Calls
                        ELSE c \in Part(rule) \/ (rule.filter # "exit" /\ c = "none")
<1> DEFINE M == IF ~HasField(rule, "perm") THEN Perms ELSE GetPerms(rule)
           C == rule.calls \cup IF rule.filter = "exit" THEN {} ELSE {"none"}
<1>1. Keep(rule.fields, LAMBDA x : x.f \notin {"perm", "key"}) = Those(rule.fields, Besides)
  <2>1. Keep(rule.fields, LAMBDA x : x.f \notin {"perm", "key"})
        = KeepAt(rule.fields, {i \in DOMAIN rule.fields : rule.fields[i].f \notin {"perm", "key"}})
    BY DEF Keep, Once
  <2>2. QED
    BY <2>1, NotFieldsAre DEF Besides
<1>2. ToSet(Those(rule.fields, Besides)) = ToSet(rule.fields) \cap Besides
  BY RuleType, ThoseSet
<1>3. Points(rule) = {Header(rule)} \X M \X C
  BY <1>1, <1>2 DEF Points, Header
<1>4. HasField(rule, "perm") <=> IsWatch(rule)
  BY SoundWatch
<1>5. \A m : m \in M <=> IF IsWatch(rule) THEN m \in Part(rule) ELSE m \in Perms
  BY <1>4 DEF Part
<1>6. \A c : c \in C <=> IF IsWatch(rule) THEN c \in Calls
                         ELSE c \in Part(rule) \/ (rule.filter # "exit" /\ c = "none")
  <2>1. CASE IsWatch(rule)
    <3>1. rule.filter = "exit" /\ rule.calls = Calls
      BY <1>4, <2>1 DEF Sound, IsWatch, IsSyscallAll
    <3>2. QED
      BY <2>1, <3>1
  <2>2. CASE ~IsWatch(rule)
    BY <2>2 DEF Part
  <2>3. QED
    BY <2>1, <2>2
<1> HIDE DEF M, C
<1>7. \A p : p \in {Header(rule)} \X M \X C <=>
                 \E m, c : p = <<Header(rule), m, c>> /\ m \in M /\ c \in C
  BY SMT
<1>8. QED
  BY <1>3, <1>5, <1>6, <1>7

\* The rules of R with the merge key of the rule, and whether they have all of it.
Alikes(R, rule) == {x \in R : CanonicalMergeKey(x) = CanonicalMergeKey(rule)}

Has(R, rule) == /\ Alikes(R, rule) # {}
                /\ Part(rule) \subseteq UNION {Part(x) : x \in Alikes(R, rule)}

HasAll(R, list) == \A rule \in ToSet(list) : Has(R, rule)

\* A rule that the rules R have selects nothing that they do not.
LEMMA HasSelects ==
  ASSUME NEW R, R \subseteq Rules, \A x \in R : Sound(x),
         NEW rule \in Rules, Sound(rule), Has(R, rule),
         NEW p \in Points(rule)
  PROVE  \E x \in R : p \in Points(x)
<1>1. PICK m, c : /\ p = <<Header(rule), m, c>>
                  /\ IF IsWatch(rule) THEN m \in Part(rule) ELSE m \in Perms
                  /\ IF IsWatch(rule) THEN c \in Calls
                     ELSE c \in Part(rule) \/ (rule.filter # "exit" /\ c = "none")
  BY PointsAre
<1>2. ASSUME NEW x \in Alikes(R, rule)
      PROVE  /\ x \in R /\ x \in Rules /\ Sound(x) /\ Header(x) = Header(rule)
             /\ IsWatch(x) <=> IsWatch(rule)
             /\ x.filter = rule.filter
  <2>1. x \in R /\ x \in Rules /\ Sound(x) /\ CanonicalMergeKey(x) = CanonicalMergeKey(rule)
    BY DEF Alikes
  <2>2. /\ IsWatch(x) <=> IsWatch(rule)
        /\ x.action = rule.action /\ x.filter = rule.filter
        /\ ToSet(x.fields) \cap Besides = ToSet(rule.fields) \cap Besides
    BY <2>1, KeySays
  <2>3. x.del = rule.del
    BY <2>1 DEF Sound, Rules
  <2>4. QED
    BY <2>1, <2>2, <2>3 DEF Header
<1>3. \A y \in Part(rule) : \E x \in Alikes(R, rule) : y \in Part(x)
  BY DEF Has
<1>4. CASE IsWatch(rule)
  <2>1. PICK x \in Alikes(R, rule) : m \in Part(x)
    BY <1>1, <1>3, <1>4
  <2>2. p \in Points(x)
    BY <1>1, <1>2, <1>4, <2>1, PointsAre
  <2>3. QED
    BY <1>2, <2>2
<1>5. CASE ~IsWatch(rule)
  <2>1. PICK x \in Alikes(R, rule) : c \in Part(x) \/ (rule.filter # "exit" /\ c = "none")
    BY <1>1, <1>3, <1>5 DEF Has
  <2>2. p \in Points(x)
    BY <1>1, <1>2, <1>5, <2>1, PointsAre
  <2>3. QED
    BY <1>2, <2>2
<1>6. QED
  BY <1>4, <1>5

\* When a list has all the wanted rules it selects what they select.
LEMMA HasAllCovers ==
  ASSUME NEW list \in Seq(Rules), NEW wanted \in Seq(Rules), AllSound(list), AllSound(wanted),
         HasAll(ToSet(list), wanted)
  PROVE  Covered(wanted) \subseteq Covered(list)
<1>1. ToSet(list) \subseteq Rules /\ ToSet(wanted) \subseteq Rules
  BY SetOfType
<1>2. ASSUME NEW p \in Covered(wanted) PROVE p \in Covered(list)
  <2>1. PICK rule \in ToSet(wanted) : p \in Points(rule)
    BY DEF Covered
  <2>2. rule \in Rules /\ Sound(rule) /\ Has(ToSet(list), rule)
    BY <1>1 DEF AllSound, HasAll
  <2>3. PICK x \in ToSet(list) : p \in Points(x)
    BY <1>1, <2>1, <2>2, HasSelects DEF AllSound
  <2>4. QED
    BY <2>3 DEF Covered
<1>3. QED
  BY <1>2

\* Of two rules with the same key the one with the larger part selects more.
LEMMA Subsumed ==
  ASSUME NEW a \in Rules, NEW b \in Rules, Sound(a), Sound(b),
         CanonicalMergeKey(a) = CanonicalMergeKey(b), Part(a) \subseteq Part(b)
  PROVE  Points(a) \subseteq Points(b)
<1>1. Alikes({b}, a) = {b}
  BY DEF Alikes
<1>2. UNION {Part(x) : x \in {b}} = Part(b)
  OBVIOUS
<1>3. Has({b}, a)
  BY <1>1, <1>2 DEF Has
<1>4. ASSUME NEW p \in Points(a) PROVE p \in Points(b)
  <2>1. \E x \in {b} : p \in Points(x)
    <3>1. {b} \subseteq Rules /\ \A x \in {b} : Sound(x)
      OBVIOUS
    <3>2. QED
      BY <1>3, <3>1, HasSelects
  <2>2. QED
    BY <2>1
<1>5. QED
  BY <1>4
-----------------------------------------------------------------------------
(* Merging and comparing two sound rules with the same key *)

\* Two sound rules merged: a sound one with the parts of both.
LEMMA MergeSound ==
  ASSUME NEW a \in Rules, NEW b \in Rules, Sound(a), Sound(b),
         CanonicalMergeKey(a) = CanonicalMergeKey(b), NEW r, r = MergeRule(a, b)
  PROVE  /\ r \in Rules /\ Sound(r) /\ CanonicalMergeKey(r) = CanonicalMergeKey(a)
         /\ Part(r) = Part(a) \cup Part(b)
<1>1. /\ r \in Rules /\ Like(a, r)
      /\ r.calls = IF IsWatch(a) THEN a.calls ELSE a.calls \cup b.calls
      /\ HasField(r, "perm") <=> HasField(a, "perm")
      /\ IsWatch(a) => GetPerms(r) = GetPerms(a) \cup GetPerms(b)
  BY MergeRuleIs
<1>2. /\ Sound(r) /\ (IsWatch(r) <=> IsWatch(a))
      /\ CanonicalMergeKey(r) = CanonicalMergeKey(a)
  BY <1>1, LikeSound
<1>3. IsWatch(a) <=> IsWatch(b)
  BY KeySays
<1>4. QED
  BY <1>1, <1>2, <1>3 DEF Part

\* Their difference: a sound one with the part that is missing.
LEMMA DiffSound ==
  ASSUME NEW a \in Rules, NEW b \in Rules, Sound(a), Sound(b),
         CanonicalMergeKey(a) = CanonicalMergeKey(b), NEW r, r = DiffRule(a, b)
  PROVE  /\ r \in Rules /\ Sound(r) /\ CanonicalMergeKey(r) = CanonicalMergeKey(a)
         /\ Part(r) = Part(b) \ Part(a)
<1>1. /\ r \in Rules /\ Like(a, r)
      /\ r.calls = IF IsWatch(a) THEN a.calls ELSE b.calls \ a.calls
      /\ HasField(r, "perm") <=> HasField(a, "perm")
      /\ IsWatch(a) => GetPerms(r) = GetPerms(b) \ GetPerms(a)
  BY DiffRuleIs
<1>2. /\ Sound(r) /\ (IsWatch(r) <=> IsWatch(a))
      /\ CanonicalMergeKey(r) = CanonicalMergeKey(a)
  BY <1>1, LikeSound
<1>3. IsWatch(a) <=> IsWatch(b)
  BY KeySays
<1>4. QED
  BY <1>1, <1>2, <1>3 DEF Part

\* IsSubset compares the parts.
LEMMA SubsetSays ==
  ASSUME NEW a \in Rules, NEW b \in Rules, Sound(a), Sound(b),
         CanonicalMergeKey(a) = CanonicalMergeKey(b)
  PROVE  IsSubset(a, b) <=> Part(b) \subseteq Part(a)
<1>1. IsWatch(a) <=> IsWatch(b)
  BY KeySays
<1>2. QED
  BY <1>1 DEF IsSubset, Part
-----------------------------------------------------------------------------
(* Merging a sequence of rules *)

MergeKeys == {CanonicalMergeKey(rule) : rule \in Rules}

Entries == [key : MergeKeys, rule : Rules]

\* z has an entry more than y, for a rule with a new key.
Extends(y, key, rule, z) ==
  /\ \A i \in DOMAIN y : y[i].key # key
  /\ z = Append(y, [key |-> key, rule |-> rule])

\* z has the rule merged into entry i of y, the one with its key.
Replaces(y, key, rule, z, i) ==
  /\ i \in DOMAIN y /\ y[i].key = key
  /\ DOMAIN z = DOMAIN y
  /\ z[i] = [key |-> y[i].key, rule |-> MergeRule(y[i].rule, rule)]
  /\ \A j \in DOMAIN y : j # i => z[j] = y[j]

\* MergeIn appends an entry or changes the one that has the key.
LEMMA MergeInIs ==
  ASSUME NEW y \in Seq(Entries), NEW rule \in Rules, NEW z, z = MergeIn(y, rule)
  PROVE  /\ z \in Seq(Entries)
         /\ \/ Extends(y, CanonicalMergeKey(rule), rule, z)
            \/ \E i : Replaces(y, CanonicalMergeKey(rule), rule, z, i)
<1> DEFINE key == CanonicalMergeKey(rule)
           I == {i \in 1 .. Len(y) : y[i].key = key}
           i == IF I # {} THEN Min(I) ELSE 0
<1>1. z = IF i = 0 THEN Append(y, [key |-> key, rule |-> rule])
          ELSE [y EXCEPT ![i].rule = MergeRule(@, rule)]
  <2>1. MergeIn(y, rule) = Merge(y, key, rule)
    BY DEF MergeIn, Once
  <2> HIDE DEF key
  <2>3. Merge(y, key, rule) = IF i = 0 THEN Append(y, [key |-> key, rule |-> rule])
                              ELSE [y EXCEPT ![i].rule = MergeRule(@, rule)]
    <3> DEFINE body(v) == IF v = 0 THEN Append(y, [key |-> key, rule |-> rule])
                          ELSE [y EXCEPT ![v].rule = MergeRule(@, rule)]
    <3>1. Merge(y, key, rule) = CHOOSE x \in {body(v) : v \in {i}} : TRUE
      BY DEF Merge, Once, SelectInSeq
    <3> HIDE DEF i
    <3>2. {body(v) : v \in {i}} = {body(i)}
      <4> HIDE DEF body
      <4>1. QED
        OBVIOUS
    <3>3. QED
      BY <3>1, <3>2
  <2>4. QED
    BY <2>1, <2>3
<1>2. DOMAIN y = 1 .. Len(y) /\ Len(y) \in Nat /\ \A j \in DOMAIN y : y[j] \in Entries
  OBVIOUS
<1>3. CASE I = {}
  <2>1. z = Append(y, [key |-> key, rule |-> rule])
    BY <1>1, <1>3
  <2>2. [key |-> key, rule |-> rule] \in Entries
    BY DEF Entries, MergeKeys
  <2>3. z \in Seq(Entries)
    BY <2>1, <2>2
  <2>4. \A j \in DOMAIN y : y[j].key # key
    BY <1>2, <1>3
  <2>5. QED
    BY <2>1, <2>3, <2>4 DEF Extends
<1>4. CASE I # {}
  <2>1. Min(I) \in I
    <3>1. I \subseteq 1 .. Len(y)
      OBVIOUS
    <3> HIDE DEF I
    <3>2. QED
      BY <1>2, <1>4, <3>1, MinOf
  <2>2. i \in 1 .. Len(y) /\ y[i].key = key /\ i # 0
    BY <1>2, <1>4, <2>1
  <2> HIDE DEF i, I, key
  <2>3. z = [y EXCEPT ![i].rule = MergeRule(@, rule)]
    BY <1>1, <2>2
  <2> DEFINE e == [key |-> y[i].key, rule |-> MergeRule(y[i].rule, rule)]
  <2>4. y[i] \in Entries
    BY <1>2, <2>2
  <2>5. e \in Entries
    <3>1. MergeRule(y[i].rule, rule) \in Rules
      BY <2>4, MergeRuleIs DEF Entries
    <3>2. QED
      BY <2>4, <3>1 DEF Entries
  <2>6. z = [y EXCEPT ![i] = e]
    <3>1. [y[i] EXCEPT !.rule = MergeRule(@, rule)] = e
      BY <2>4 DEF Entries
    <3>2. QED
      BY <2>3, <3>1
  <2> HIDE DEF e
  <2>7. z \in Seq(Entries) /\ Len(z) = Len(y) /\ DOMAIN z = DOMAIN y
        /\ z[i] = e /\ \A j \in DOMAIN y : j # i => z[j] = y[j]
    BY <1>2, <2>2, <2>5, <2>6, ExceptSeq
  <2>8. i \in DOMAIN y /\ y[i].key = CanonicalMergeKey(rule)
    BY <1>2, <2>2 DEF key
  <2>9. Replaces(y, CanonicalMergeKey(rule), rule, z, i)
    BY <2>7, <2>8 DEF e, Replaces
  <2>10. QED
    BY <2>7, <2>9
<1>5. QED
  BY <1>3, <1>4

IsMerging(f, list) ==
  /\ f \in [0 .. Len(list) -> Seq(Entries)]
  /\ f[0] = <<>>
  /\ \A k \in 1 .. Len(list) : f[k] = MergeIn(f[k - 1], list[k])

\* The fold of MergeIn, as a function on the positions.
LEMMA MergeFold ==
  ASSUME NEW s \in Seq(Rules)
  PROVE  \E f : IsMerging(f, s) /\ Fold(MergeIn, <<>>, s) = f[Len(s)]
<1> DEFINE Is(f) == f = [n \in 0 .. Len(s) |->
                           IF n = 0 THEN <<>> ELSE Once(f[n - 1], LAMBDA y : MergeIn(y, s[n]))]
           step == [k \in 1 .. Len(s) |-> [y \in Seq(Entries) |-> MergeIn(y, s[k])]]
           kept == CHOOSE f : Is(f)
<1>1. Len(s) \in Nat /\ <<>> \in Seq(Entries) /\ \A k \in 1 .. Len(s) : s[k] \in Rules
  OBVIOUS
<1>2. \A k \in 1 .. Len(s) : \A y \in Seq(Entries) : step[k][y] = MergeIn(y, s[k])
  OBVIOUS
<1> HIDE DEF step
<1>3. StaysIn(Seq(Entries), Len(s), step)
  BY <1>1, <1>2, MergeInIs DEF StaysIn
<1>4. PICK g : Recurs(g, Len(s), Seq(Entries), <<>>, step)
  BY <1>1, <1>3, Recursion
<1>5. \A y, k : Once(y, LAMBDA v : MergeIn(v, s[k])) = MergeIn(y, s[k])
  BY DEF Once
<1>6. ASSUME NEW n \in 0 .. Len(s)
      PROVE  g[n] = IF n = 0 THEN <<>> ELSE Once(g[n - 1], LAMBDA y : MergeIn(y, s[n]))
  <2>1. n # 0 => n \in 1 .. Len(s) /\ n - 1 \in 0 .. Len(s)
    OBVIOUS
  <2>2. n # 0 => g[n - 1] \in Seq(Entries)
    BY <1>4, <2>1 DEF Recurs
  <2>3. g[n] = IF n = 0 THEN <<>> ELSE MergeIn(g[n - 1], s[n])
    BY <1>2, <1>4, <2>1, <2>2 DEF Recurs
  <2>4. Once(g[n - 1], LAMBDA y : MergeIn(y, s[n])) = MergeIn(g[n - 1], s[n])
    BY DEF Once
  <2>5. QED
    BY <2>3, <2>4
<1>7. Is(g)
  <2>1. g \in [0 .. Len(s) -> Seq(Entries)]
    BY <1>4 DEF Recurs
  <2>2. QED
    BY <1>6, <2>1
<1>8. Is(kept)
  BY <1>7
<1>9. Fold(MergeIn, <<>>, s) = kept[Len(s)]
  BY DEF Fold, Once
<1> HIDE DEF kept
<1>10. \A n \in 0 .. Len(s) : kept[n] = IF n = 0 THEN <<>> ELSE MergeIn(kept[n - 1], s[n])
  <2>1. ASSUME NEW n \in 0 .. Len(s)
        PROVE  kept[n] = IF n = 0 THEN <<>> ELSE MergeIn(kept[n - 1], s[n])
    <3>1. kept[n] = IF n = 0 THEN <<>> ELSE Once(kept[n - 1], LAMBDA y : MergeIn(y, s[n]))
      BY <1>8
    <3>2. Once(kept[n - 1], LAMBDA y : MergeIn(y, s[n])) = MergeIn(kept[n - 1], s[n])
      BY DEF Once
    <3>3. QED
      BY <3>1, <3>2
  <2>2. QED
    BY <2>1
<1>11. \A n \in 0 .. Len(s) : kept[n] \in Seq(Entries)
  <2> DEFINE D == [n \in 0 .. Len(s) |-> Seq(Entries)]
  <2>1. 0 \in 0 .. Len(s) /\ \A n \in 1 .. Len(s) : n \in 0 .. Len(s) /\ n - 1 \in 0 .. Len(s)
    OBVIOUS
  <2>2. kept[0] \in D[0]
    BY <1>1, <1>10, <2>1
  <2>3. ASSUME NEW n \in 1 .. Len(s), kept[n - 1] \in D[n - 1] PROVE kept[n] \in D[n]
    <3>1. kept[n - 1] \in Seq(Entries) /\ s[n] \in Rules
      BY <2>1, <2>3
    <3>2. kept[n] = MergeIn(kept[n - 1], s[n])
      BY <1>10, <2>1
    <3>3. QED
      BY <2>1, <3>1, <3>2, MergeInIs
  <2> HIDE DEF D
  <2>4. \A n \in 0 .. Len(s) : kept[n] \in D[n]
    BY <1>1, <2>2, <2>3, Climb
  <2>5. QED
    BY <2>4 DEF D
<1>12. kept \in [0 .. Len(s) -> Seq(Entries)]
  <2>1. kept = [n \in 0 .. Len(s) |->
                  IF n = 0 THEN <<>> ELSE Once(kept[n - 1], LAMBDA y : MergeIn(y, s[n]))]
    BY <1>8
  <2> HIDE DEF Is
  <2>2. DOMAIN kept = 0 .. Len(s)
    BY <2>1
  <2>3. kept = [n \in 0 .. Len(s) |-> kept[n]]
    BY <2>1, <2>2
  <2>4. QED
    BY <1>11, <2>3
<1>13. IsMerging(kept, s)
  <2>1. 0 \in 0 .. Len(s) /\ \A k \in 1 .. Len(s) : k \in 0 .. Len(s) /\ k # 0
    OBVIOUS
  <2>2. QED
    BY <1>10, <1>12, <2>1 DEF IsMerging
<1>14. QED
  BY <1>9, <1>13

\* MergeRules returns the rules of the entries.
LEMMA MergedAre ==
  ASSUME NEW s \in Seq(Rules), NEW y \in Seq(Entries), y = Fold(MergeIn, <<>>, s)
  PROVE  /\ MergeRules(s) \in Seq(Rules) /\ Len(MergeRules(s)) = Len(y)
         /\ DOMAIN MergeRules(s) = 1 .. Len(y) /\ DOMAIN y = 1 .. Len(y)
         /\ \A i \in 1 .. Len(y) : MergeRules(s)[i] = y[i].rule
<1> DEFINE m == [i \in 1 .. Len(y) |-> y[i].rule]
<1>1. Len(y) \in Nat /\ DOMAIN y = 1 .. Len(y) /\ \A i \in 1 .. Len(y) : y[i].rule \in Rules
  <2>1. Len(y) \in Nat /\ DOMAIN y = 1 .. Len(y) /\ \A i \in 1 .. Len(y) : y[i] \in Entries
    OBVIOUS
  <2>2. \A e \in Entries : e.rule \in Rules
    BY DEF Entries
  <2>3. QED
    BY <2>1, <2>2
<1>2. MergeRules(s) = <<>> \o m
  BY <1>1 DEF MergeRules, Each, Once
<1>3. m \in [1 .. Len(y) -> Rules] /\ \A i \in 1 .. Len(y) : m[i] = y[i].rule
  BY <1>1
<1> HIDE DEF m
<1>4. QED
  BY <1>1, <1>2, <1>3, EachType

\* What the rules of R with the merge key of the rule have together.
PartIn(R, rule) == UNION {Part(x) : x \in Alikes(R, rule)}

LEMMA AlikesWith ==
  ASSUME NEW R, NEW r, NEW a, CanonicalMergeKey(r) = CanonicalMergeKey(a)
  PROVE  /\ Alikes(R \cup {r}, a) = Alikes(R, a) \cup {r}
         /\ PartIn(R \cup {r}, a) = PartIn(R, a) \cup Part(r)
<1>1. Alikes(R \cup {r}, a) = Alikes(R, a) \cup {r}
  BY DEF Alikes
<1>2. \A A : UNION {Part(x) : x \in A \cup {r}} = (UNION {Part(x) : x \in A}) \cup Part(r)
  OBVIOUS
<1>3. QED
  BY <1>1, <1>2 DEF PartIn

LEMMA AlikesWithout ==
  ASSUME NEW R, NEW r, NEW a, CanonicalMergeKey(r) # CanonicalMergeKey(a)
  PROVE  /\ Alikes(R \cup {r}, a) = Alikes(R, a)
         /\ PartIn(R \cup {r}, a) = PartIn(R, a)
<1>1. Alikes(R \cup {r}, a) = Alikes(R, a)
  BY DEF Alikes
<1>2. QED
  BY <1>1 DEF PartIn

LEMMA AlikesSame ==
  ASSUME NEW R, NEW a, NEW b, CanonicalMergeKey(a) = CanonicalMergeKey(b)
  PROVE  Alikes(R, a) = Alikes(R, b) /\ PartIn(R, a) = PartIn(R, b)
BY DEF Alikes, PartIn

\* y is what merging the rules of R may give, in one order or another.
Merged(y, R) ==
  /\ y \in Seq(Entries)
  /\ \A i \in DOMAIN y : /\ Sound(y[i].rule) /\ y[i].key = CanonicalMergeKey(y[i].rule)
                         /\ Alikes(R, y[i].rule) # {}
                         /\ Part(y[i].rule) = PartIn(R, y[i].rule)
  /\ \A i, j \in DOMAIN y : y[i].key = y[j].key => i = j
  /\ \A x \in R : \E i \in DOMAIN y : y[i].key = CanonicalMergeKey(x)

\* One more rule is merged in.
LEMMA MergeStep ==
  ASSUME NEW y, NEW R, Merged(y, R), NEW rule \in Rules, Sound(rule),
         NEW z, z = MergeIn(y, rule)
  PROVE  Merged(z, R \cup {rule})
<1> DEFINE key == CanonicalMergeKey(rule)
<1>1. y \in Seq(Entries) /\ z \in Seq(Entries)
  BY MergeInIs DEF Merged
<1>2. \A i \in DOMAIN y : y[i].rule \in Rules
  <2>1. \A i \in DOMAIN y : y[i] \in Entries
    BY <1>1
  <2>2. \A e \in Entries : e.rule \in Rules
    BY DEF Entries
  <2>3. QED
    BY <2>1, <2>2
<1>3. CASE Extends(y, key, rule, z)
  <2> DEFINE n == Len(y) + 1
  <2>1. /\ DOMAIN z = DOMAIN y \cup {n} /\ n \notin DOMAIN y
        /\ \A j \in DOMAIN y : z[j] = y[j]
        /\ z[n] = [key |-> key, rule |-> rule]
    BY <1>1, <1>3 DEF Extends
  <2> HIDE DEF n, key
  <2>2. z[n].key = key /\ z[n].rule = rule
    BY <2>1
  <2>3. Alikes(R, rule) = {}
    <3>1. ASSUME NEW x \in Alikes(R, rule) PROVE FALSE
      <4>1. x \in R /\ CanonicalMergeKey(x) = key
        BY DEF Alikes, key
      <4>2. QED
        BY <1>3, <4>1 DEF Merged, Extends
    <3>2. QED
      BY <3>1
  <2>4. /\ Alikes(R \cup {rule}, rule) # {}
        /\ PartIn(R \cup {rule}, rule) = Part(rule)
    <3>1. PartIn(R, rule) = {}
      BY <2>3 DEF PartIn
    <3>2. /\ Alikes(R \cup {rule}, rule) = Alikes(R, rule) \cup {rule}
          /\ PartIn(R \cup {rule}, rule) = PartIn(R, rule) \cup Part(rule)
      BY AlikesWith
    <3>3. QED
      BY <3>1, <3>2
  <2>5. ASSUME NEW i \in DOMAIN z
        PROVE  /\ Sound(z[i].rule) /\ z[i].key = CanonicalMergeKey(z[i].rule)
               /\ Alikes(R \cup {rule}, z[i].rule) # {}
               /\ Part(z[i].rule) = PartIn(R \cup {rule}, z[i].rule)
    <3>1. CASE i = n
      BY <2>2, <2>4, <3>1 DEF key
    <3>2. CASE i \in DOMAIN y
      <4>1. z[i] = y[i] /\ CanonicalMergeKey(y[i].rule) # CanonicalMergeKey(rule)
        BY <1>3, <2>1, <3>2 DEF Merged, Extends, key
      <4>2. /\ Alikes(R \cup {rule}, y[i].rule) = Alikes(R, y[i].rule)
            /\ PartIn(R \cup {rule}, y[i].rule) = PartIn(R, y[i].rule)
        BY <4>1, AlikesWithout
      <4>3. QED
        BY <3>2, <4>1, <4>2 DEF Merged
    <3>3. QED
      BY <2>1, <3>1, <3>2
  <2>6. \A i, j \in DOMAIN z : z[i].key = z[j].key => i = j
    BY <1>3, <2>1, <2>2 DEF Merged, Extends
  <2>7. \A x \in R \cup {rule} : \E i \in DOMAIN z : z[i].key = CanonicalMergeKey(x)
    BY <2>1, <2>2 DEF Merged, key
  <2>8. QED
    BY <1>1, <2>5, <2>6, <2>7 DEF Merged
<1>4. CASE \E i : Replaces(y, key, rule, z, i)
  <2> HIDE DEF key
  <2>1. PICK i \in DOMAIN y : /\ y[i].key = key
                              /\ DOMAIN z = DOMAIN y
                              /\ z[i] = [key |-> y[i].key, rule |-> MergeRule(y[i].rule, rule)]
                              /\ \A j \in DOMAIN y : j # i => z[j] = y[j]
    BY <1>4 DEF Replaces
  <2>2. z[i].key = y[i].key /\ z[i].rule = MergeRule(y[i].rule, rule)
    BY <2>1
  <2>3. Sound(y[i].rule) /\ key = CanonicalMergeKey(y[i].rule) /\ Part(y[i].rule) = PartIn(R, y[i].rule)
    BY <2>1 DEF Merged
  <2>4. /\ z[i].rule \in Rules /\ Sound(z[i].rule) /\ CanonicalMergeKey(z[i].rule) = key
        /\ Part(z[i].rule) = Part(y[i].rule) \cup Part(rule)
    BY <1>2, <2>2, <2>3, MergeSound DEF key
  <2>5. /\ Alikes(R \cup {rule}, z[i].rule) # {}
        /\ Part(z[i].rule) = PartIn(R \cup {rule}, z[i].rule)
    <3>1. PartIn(R, y[i].rule) = PartIn(R, z[i].rule)
      BY <2>3, <2>4, AlikesSame
    <3>2. CanonicalMergeKey(rule) = CanonicalMergeKey(z[i].rule)
      BY <2>4 DEF key
    <3>3. /\ Alikes(R \cup {rule}, z[i].rule) = Alikes(R, z[i].rule) \cup {rule}
          /\ PartIn(R \cup {rule}, z[i].rule) = PartIn(R, z[i].rule) \cup Part(rule)
      BY <3>2, AlikesWith
    <3>4. QED
      BY <2>3, <2>4, <3>1, <3>3
  <2>6. ASSUME NEW j \in DOMAIN y, j # i
        PROVE  /\ Sound(z[j].rule) /\ z[j].key = CanonicalMergeKey(z[j].rule)
               /\ Alikes(R \cup {rule}, z[j].rule) # {}
               /\ Part(z[j].rule) = PartIn(R \cup {rule}, z[j].rule)
    <3>1. z[j] = y[j] /\ CanonicalMergeKey(y[j].rule) # CanonicalMergeKey(rule)
      BY <2>1, <2>6 DEF Merged, key
    <3>2. /\ Alikes(R \cup {rule}, y[j].rule) = Alikes(R, y[j].rule)
          /\ PartIn(R \cup {rule}, y[j].rule) = PartIn(R, y[j].rule)
      BY <3>1, AlikesWithout
    <3>3. QED
      BY <3>1, <3>2 DEF Merged
  <2>7. \A j \in DOMAIN y : z[j].key = y[j].key
    BY <2>1, <2>2
  <2>8. \A j, k \in DOMAIN z : z[j].key = z[k].key => j = k
    BY <2>1, <2>7 DEF Merged
  <2>9. \A x \in R \cup {rule} : \E j \in DOMAIN z : z[j].key = CanonicalMergeKey(x)
    BY <2>1, <2>7 DEF Merged, key
  <2>10. \A j \in DOMAIN z : /\ Sound(z[j].rule) /\ z[j].key = CanonicalMergeKey(z[j].rule)
                             /\ Alikes(R \cup {rule}, z[j].rule) # {}
                             /\ Part(z[j].rule) = PartIn(R \cup {rule}, z[j].rule)
    <3>1. z[i].key = CanonicalMergeKey(z[i].rule)
      BY <2>1, <2>2, <2>4
    <3>2. QED
      BY <2>1, <2>4, <2>5, <2>6, <3>1
  <2>11. QED
    BY <1>1, <2>8, <2>9, <2>10 DEF Merged
<1>5. QED
  <2>1. Extends(y, key, rule, z) \/ \E i : Replaces(y, key, rule, z, i)
    BY <1>1, MergeInIs
  <2>2. QED
    BY <1>3, <1>4, <2>1

\* MergeRules has for each key one rule, with the parts of all that have it.
LEMMA MergedSays ==
  ASSUME NEW s \in Seq(Rules), AllSound(s), NEW m, m = MergeRules(s)
  PROVE  /\ m \in Seq(Rules) /\ AllSound(m)
         /\ \A i \in DOMAIN m : /\ Alikes(ToSet(s), m[i]) # {}
                                /\ Part(m[i]) = PartIn(ToSet(s), m[i])
         /\ \A x \in ToSet(s) : \E i \in DOMAIN m : CanonicalMergeKey(m[i]) = CanonicalMergeKey(x)
<1> DEFINE n == Len(s)
           D == [k \in 0 .. n |-> {y \in Seq(Entries) : Merged(y, {s[j] : j \in 1 .. k})}]
<1>1. PICK f : IsMerging(f, s) /\ Fold(MergeIn, <<>>, s) = f[Len(s)]
  BY MergeFold
<1>2. /\ n \in Nat /\ 0 \in 0 .. n /\ n \in 0 .. n /\ DOMAIN s = 1 .. n
      /\ \A k \in 1 .. n : k \in 0 .. n /\ k - 1 \in 0 .. n /\ s[k] \in Rules /\ Sound(s[k])
  BY DEF AllSound, ToSet
<1>3. f[0] \in D[0]
  <2>1. <<>> \in Seq(Entries) /\ DOMAIN <<>> = {}
    OBVIOUS
  <2>2. Merged(<<>>, {s[j] : j \in 1 .. 0})
    BY <2>1 DEF Merged
  <2>3. QED
    BY <1>1, <1>2, <2>1, <2>2 DEF IsMerging
<1>4. ASSUME NEW k \in 1 .. n, f[k - 1] \in D[k - 1] PROVE f[k] \in D[k]
  <2>1. Merged(f[k - 1], {s[j] : j \in 1 .. k - 1})
    BY <1>2, <1>4
  <2>2. f[k] = MergeIn(f[k - 1], s[k])
    BY <1>1 DEF IsMerging
  <2>3. Merged(f[k], {s[j] : j \in 1 .. k - 1} \cup {s[k]})
    BY <1>2, <2>1, <2>2, MergeStep
  <2>4. {s[j] : j \in 1 .. k - 1} \cup {s[k]} = {s[j] : j \in 1 .. k}
    BY <1>2
  <2>5. Merged(f[k], {s[j] : j \in 1 .. k})
    BY <2>3, <2>4
  <2>6. QED
    BY <1>2, <2>5 DEF Merged
<1> HIDE DEF D, n
<1>5. f[n] \in D[n]
  BY <1>2, <1>3, <1>4, Climb
<1> DEFINE y == f[n]
<1>6. y \in Seq(Entries) /\ Merged(y, ToSet(s)) /\ y = Fold(MergeIn, <<>>, s)
  <2>1. Merged(y, {s[j] : j \in 1 .. n})
    BY <1>2, <1>5 DEF D
  <2>2. {s[j] : j \in 1 .. n} = ToSet(s)
    BY <1>2 DEF ToSet
  <2>3. QED
    BY <1>1, <2>1, <2>2 DEF Merged, n
<1> HIDE DEF y
<1>7. /\ m \in Seq(Rules) /\ DOMAIN m = DOMAIN y
      /\ \A i \in DOMAIN y : m[i] = y[i].rule
  BY <1>6, MergedAre
<1>8. AllSound(m)
  <2>1. \A i \in DOMAIN m : Sound(m[i])
    BY <1>6, <1>7 DEF Merged
  <2>2. QED
    BY <2>1 DEF AllSound, ToSet
<1>9. QED
  BY <1>6, <1>7, <1>8 DEF Merged

\* A merged rule has the keys of both.
LEMMA MergeRuleKeys ==
  ASSUME NEW a \in Rules, NEW b \in Rules
  PROVE  GetKeys(MergeRule(a, b)) = GetKeys(a) \cup GetKeys(b)
<1> DEFINE r == MergeRule(a, b)
<1>1. /\ r \in Rules /\ Like(a, r)
      /\ r.calls = IF IsWatch(a) THEN a.calls ELSE a.calls \cup b.calls
      /\ HasField(r, "perm") <=> HasField(a, "perm")
      /\ IsWatch(a) => GetPerms(r) = GetPerms(a) \cup GetPerms(b)
      /\ GetKeys(r) = GetKeys(a) \cup GetKeys(b)
  BY MergeRuleIs
<1>2. QED
  BY <1>1

\* A key of auoms is not lost when rules are merged.
LEMMA MergedKeys ==
  ASSUME NEW s \in Seq(Rules), NEW x \in ToSet(s), IsAuoms(x)
  PROVE  \E r \in ToSet(MergeRules(s)) : IsAuoms(r)
<1> DEFINE n == Len(s)
           Some(y) == \E i \in DOMAIN y : IsAuoms(y[i].rule)
<1>1. PICK f : IsMerging(f, s) /\ Fold(MergeIn, <<>>, s) = f[Len(s)]
  BY MergeFold
<1>2. PICK at \in 1 .. n : s[at] = x
  BY DEF ToSet
<1>3. /\ n \in Nat /\ 0 \in 0 .. n /\ n \in 0 .. n
      /\ \A k \in 1 .. n : k \in 0 .. n /\ k - 1 \in 0 .. n /\ s[k] \in Rules
      /\ \A k \in 0 .. n : f[k] \in Seq(Entries)
      /\ \A k \in 1 .. n : f[k] = MergeIn(f[k - 1], s[k])
  <2>1. n \in Nat /\ \A k \in 1 .. n : s[k] \in Rules
    OBVIOUS
  <2>2. /\ \A k \in 0 .. n : f[k] \in Seq(Entries)
        /\ \A k \in 1 .. n : f[k] = MergeIn(f[k - 1], s[k])
    BY <1>1 DEF IsMerging
  <2> HIDE DEF n
  <2>3. 0 \in 0 .. n /\ n \in 0 .. n /\ \A k \in 1 .. n : k \in 0 .. n /\ k - 1 \in 0 .. n
    BY <2>1
  <2>4. QED
    BY <2>1, <2>2, <2>3
<1> DEFINE D == [k \in 0 .. n |-> {y \in Seq(Entries) : k >= at => Some(y)}]
<1>4. f[0] \in D[0]
  BY <1>2, <1>3
<1>5. ASSUME NEW k \in 1 .. n, f[k - 1] \in D[k - 1] PROVE f[k] \in D[k]
  <2> DEFINE y == f[k - 1]
             z == f[k]
             key == CanonicalMergeKey(s[k])
  <2>1. y \in Seq(Entries) /\ z \in Seq(Entries) /\ z = MergeIn(y, s[k]) /\ s[k] \in Rules
    BY <1>3
  <2>2. k > at => Some(y)
    <3>1. k - 1 \in 0 .. n /\ (k > at => k - 1 >= at)
      BY <1>3
    <3> HIDE DEF Some
    <3>2. QED
      BY <1>5, <3>1
  <2>3. \A i \in DOMAIN y : y[i].rule \in Rules
    <3>1. \A i \in DOMAIN y : y[i] \in Entries
      BY <2>1
    <3>2. \A e \in Entries : e.rule \in Rules
      BY DEF Entries
    <3>3. QED
      BY <3>1, <3>2
  <2> HIDE DEF y, z, key, D
  <2>4. (Some(y) \/ IsAuoms(s[k])) => Some(z)
    <3>1. CASE Extends(y, key, s[k], z)
      <4>1. /\ DOMAIN z = DOMAIN y \cup {Len(y) + 1}
            /\ \A j \in DOMAIN y : z[j] = y[j]
            /\ z[Len(y) + 1] = [key |-> key, rule |-> s[k]]
        BY <2>1, <3>1 DEF Extends
      <4>2. z[Len(y) + 1].rule = s[k]
        BY <4>1
      <4>3. QED
        BY <4>1, <4>2
    <3>2. CASE \E i : Replaces(y, key, s[k], z, i)
      <4>1. PICK i : Replaces(y, key, s[k], z, i)
        BY <3>2
      <4>2. /\ i \in DOMAIN y /\ DOMAIN z = DOMAIN y /\ z[i].rule = MergeRule(y[i].rule, s[k])
            /\ \A j \in DOMAIN y : j # i => z[j] = y[j]
        BY <4>1 DEF Replaces
      <4>3. GetKeys(z[i].rule) = GetKeys(y[i].rule) \cup GetKeys(s[k])
        <5>1. y[i].rule \in Rules /\ s[k] \in Rules /\ z[i].rule = MergeRule(y[i].rule, s[k])
          BY <2>1, <2>3, <4>2
        <5>2. QED
          BY <5>1, MergeRuleKeys
      <4>4. QED
        BY <4>2, <4>3 DEF IsAuoms
    <3>3. QED
      BY <2>1, <3>1, <3>2, MergeInIs DEF key
  <2>5. k = at => IsAuoms(s[k])
    BY <1>2
  <2>6. k >= at => Some(z)
    BY <2>2, <2>4, <2>5
  <2>7. QED
    BY <1>3, <2>1, <2>6 DEF D, z
<1> HIDE DEF D, n
<1>6. f[n] \in D[n]
  BY <1>3, <1>4, <1>5, Climb
<1> DEFINE y == f[n]
<1>7. y \in Seq(Entries) /\ Some(y) /\ y = Fold(MergeIn, <<>>, s)
  <2>1. n >= at
    BY <1>2, <1>3
  <2>2. QED
    BY <1>1, <1>3, <1>6, <2>1 DEF D, n
<1> HIDE DEF y
<1>8. PICK i \in DOMAIN y : IsAuoms(y[i].rule)
  BY <1>7
<1>9. MergeRules(s)[i] = y[i].rule /\ i \in DOMAIN MergeRules(s)
  BY <1>7, <1>8, MergedAre
<1>10. QED
  BY <1>8, <1>9 DEF ToSet

-----------------------------------------------------------------------------
(* Comparing two sequences of rules *)

LackingOf(a, rule) == Lacking(a, <<>> \o [j \in DOMAIN a |-> CanonicalMergeKey(a[j])], rule)

\* What is missing of a rule: all of it, or the difference to one with its key.
LEMMA LackingIs ==
  ASSUME NEW a \in Seq(Rules), NEW rule \in Rules
  PROVE  \/ /\ LackingOf(a, rule) = <<rule>>
            /\ \A i \in DOMAIN a : CanonicalMergeKey(a[i]) # CanonicalMergeKey(rule)
         \/ \E i \in DOMAIN a :
               /\ CanonicalMergeKey(a[i]) = CanonicalMergeKey(rule)
               /\ LackingOf(a, rule) = IF IsSubset(a[i], rule) THEN <<>> ELSE <<DiffRule(a[i], rule)>>
<1> DEFINE keys == [j \in 1 .. Len(a) |-> CanonicalMergeKey(a[j])]
           key == CanonicalMergeKey(rule)
           I == {i \in 1 .. Len(keys) : keys[i] = key}
           i == IF I # {} THEN Min(I) ELSE 0
           body(v) == IF v = 0 THEN <<rule>>
                      ELSE IF IsSubset(a[v], rule) THEN <<>> ELSE <<DiffRule(a[v], rule)>>
<1>1. /\ Len(a) \in Nat /\ DOMAIN a = 1 .. Len(a) /\ \A j \in DOMAIN a : a[j] \in Rules
      /\ \A j \in 1 .. Len(a) : keys[j] = CanonicalMergeKey(a[j])
  OBVIOUS
<1>2. keys \in [1 .. Len(a) -> MergeKeys]
  BY <1>1 DEF MergeKeys
<1>3. LackingOf(a, rule) = Lacking(a, <<>> \o keys, rule)
  BY <1>1 DEF LackingOf
<1> HIDE DEF keys
<1>4. <<>> \o keys = keys /\ Len(keys) = Len(a)
  BY <1>1, <1>2, EachType
<1>5. LackingOf(a, rule) = body(i)
  <2>1. Lacking(a, keys, rule) = CHOOSE x \in {body(v) : v \in {i}} : TRUE
    BY DEF Lacking, Once, SelectInSeq
  <2> HIDE DEF i
  <2>2. {body(v) : v \in {i}} = {body(i)}
    <3> HIDE DEF body
    <3>1. QED
      OBVIOUS
  <2>3. QED
    BY <1>3, <1>4, <2>1, <2>2
<1>6. CASE I = {}
  BY <1>1, <1>4, <1>5, <1>6
<1>7. CASE I # {}
  <2>1. Min(I) \in I
    <3>1. I \subseteq 1 .. Len(a)
      BY <1>4
    <3> HIDE DEF I
    <3>2. QED
      BY <1>1, <1>7, <3>1, MinOf
  <2>2. i \in DOMAIN a /\ CanonicalMergeKey(a[i]) = key /\ i # 0
    BY <1>1, <1>4, <1>7, <2>1
  <2>3. QED
    BY <1>5, <2>2
<1>8. QED
  BY <1>6, <1>7

\* DiffRules returns what is missing of any of the wanted rules.
LEMMA DiffRulesIs ==
  ASSUME NEW a \in Seq(Rules), NEW t \in Seq(Rules), NEW d, d = DiffRules(a, t)
  PROVE  /\ d \in Seq(Rules)
         /\ ToSet(d) = UNION {ToSet(LackingOf(a, x)) : x \in ToSet(t)}
         /\ d = <<>> <=> ToSet(d) = {}
<1> DEFINE m == [k \in 1 .. Len(t) |-> LackingOf(a, t[k])]
<1>1. /\ Len(t) \in Nat /\ DOMAIN t = 1 .. Len(t) /\ \A k \in 1 .. Len(t) : t[k] \in Rules
      /\ \A k \in 1 .. Len(t) : m[k] = LackingOf(a, t[k])
  OBVIOUS
<1>2. DiffRules(a, t) = FlattenSeq(<<>> \o [k \in DOMAIN t |-> LackingOf(a, t[k])])
  BY DEF Each, Once, DiffRules, LackingOf
<1>3. DiffRules(a, t) = FlattenSeq(<<>> \o m)
  BY <1>1, <1>2
<1> HIDE DEF m
<1>4. ASSUME NEW x \in Rules PROVE LackingOf(a, x) \in Seq(Rules)
  <2>1. \A i \in DOMAIN a : DiffRule(a[i], x) \in Rules
    <3>1. \A i \in DOMAIN a : a[i] \in Rules
      OBVIOUS
    <3>2. QED
      BY <3>1, DiffRuleIs
  <2>2. \A y \in Rules : <<y>> \in Seq(Rules)
    OBVIOUS
  <2>3. <<>> \in Seq(Rules)
    OBVIOUS
  <2>4. QED
    BY <2>1, <2>2, <2>3, LackingIs
<1>5. m \in [1 .. Len(t) -> Seq(Rules)]
  BY <1>1, <1>4 DEF m
<1>6. <<>> \o m = m /\ m \in Seq(Seq(Rules)) /\ Len(m) = Len(t)
  BY <1>1, <1>5, EachType
<1>7. d \in Seq(Rules) /\ ToSet(d) = UNION {ToSet(m[k]) : k \in 1 .. Len(t)}
  BY <1>3, <1>6, Flat
<1>8. UNION {ToSet(m[k]) : k \in 1 .. Len(t)} = UNION {ToSet(LackingOf(a, x)) : x \in ToSet(t)}
  <2>1. {ToSet(m[k]) : k \in 1 .. Len(t)} = {ToSet(LackingOf(a, t[k])) : k \in 1 .. Len(t)}
    BY <1>1
  <2>2. {ToSet(LackingOf(a, t[k])) : k \in 1 .. Len(t)} = {ToSet(LackingOf(a, x)) : x \in ToSet(t)}
    <3>1. ToSet(t) = {t[k] : k \in 1 .. Len(t)}
      BY <1>1 DEF ToSet
    <3> HIDE DEF LackingOf
    <3>2. QED
      BY <3>1, Zenon
  <2>3. QED
    BY <2>1, <2>2
<1>9. QED
  BY <1>7, <1>8, SetOfNone

LEMMA HasMore ==
  ASSUME NEW R, NEW S, R \subseteq S, NEW rule, Has(R, rule)
  PROVE  Has(S, rule)
BY DEF Has, Alikes

\* Together with the difference a list has all that is wanted, and the difference
\* is empty only when the list had it before.
LEMMA DiffSays ==
  ASSUME NEW s \in Seq(Rules), NEW wanted \in Seq(Rules), AllSound(s), AllSound(wanted),
         NEW d, d = DiffRules(MergeRules(s), wanted)
  PROVE  /\ d \in Seq(Rules) /\ AllSound(d)
         /\ HasAll(ToSet(s) \cup ToSet(d), wanted)
         /\ d = <<>> <=> HasAll(ToSet(s), wanted)
<1> DEFINE m == MergeRules(s)
           R == ToSet(s)
<1>1. /\ m \in Seq(Rules) /\ AllSound(m)
      /\ \A i \in DOMAIN m : Alikes(R, m[i]) # {} /\ Part(m[i]) = PartIn(R, m[i])
      /\ \A x \in R : \E i \in DOMAIN m : CanonicalMergeKey(m[i]) = CanonicalMergeKey(x)
  BY MergedSays
<1> HIDE DEF m
<1>2. /\ d \in Seq(Rules)
      /\ ToSet(d) = UNION {ToSet(LackingOf(m, x)) : x \in ToSet(wanted)}
      /\ d = <<>> <=> ToSet(d) = {}
  BY <1>1, DiffRulesIs DEF m
<1>3. \A i \in DOMAIN m : m[i] \in Rules /\ Sound(m[i])
  BY <1>1 DEF AllSound, ToSet
<1>4. ToSet(wanted) \subseteq Rules /\ \A x \in ToSet(wanted) : x \in Rules /\ Sound(x)
  BY SetOfType DEF AllSound
<1> HIDE DEF R
<1>5. ASSUME NEW x \in Rules, Sound(x)
      PROVE  /\ \A y \in ToSet(LackingOf(m, x)) : Sound(y)
             /\ Has(R \cup ToSet(LackingOf(m, x)), x)
             /\ ToSet(LackingOf(m, x)) = {} <=> Has(R, x)
  <2> DEFINE L == LackingOf(m, x)
  <2>1. CASE /\ L = <<x>>
             /\ \A i \in DOMAIN m : CanonicalMergeKey(m[i]) # CanonicalMergeKey(x)
    <3>1. ToSet(L) = {x}
      BY <2>1, Single
    <3>2. Alikes(R, x) = {}
      BY <1>1, <2>1 DEF Alikes
    <3>3. ~Has(R, x)
      BY <3>2 DEF Has
    <3>4. Alikes(R \cup {x}, x) = Alikes(R, x) \cup {x} /\ PartIn(R \cup {x}, x) = PartIn(R, x) \cup Part(x)
      BY AlikesWith
    <3>5. Has(R \cup {x}, x)
      BY <3>4 DEF Has, PartIn
    <3>6. QED
      BY <1>5, <3>1, <3>3, <3>5
  <2>2. CASE \E i \in DOMAIN m :
                /\ CanonicalMergeKey(m[i]) = CanonicalMergeKey(x)
                /\ L = IF IsSubset(m[i], x) THEN <<>> ELSE <<DiffRule(m[i], x)>>
    <3>1. PICK i \in DOMAIN m :
                /\ CanonicalMergeKey(m[i]) = CanonicalMergeKey(x)
                /\ L = IF IsSubset(m[i], x) THEN <<>> ELSE <<DiffRule(m[i], x)>>
      BY <2>2
    <3>2. m[i] \in Rules /\ Sound(m[i]) /\ Alikes(R, m[i]) # {} /\ Part(m[i]) = PartIn(R, m[i])
      BY <1>1, <1>3
    <3>3. Alikes(R, x) # {} /\ Part(m[i]) = PartIn(R, x)
      BY <3>1, <3>2, AlikesSame
    <3>4. Has(R, x) <=> Part(x) \subseteq Part(m[i])
      BY <3>3 DEF Has, PartIn
    <3>5. IsSubset(m[i], x) <=> Part(x) \subseteq Part(m[i])
      BY <1>5, <3>1, <3>2, SubsetSays
    <3>6. CASE IsSubset(m[i], x)
      <4>1. ToSet(L) = {}
        <5>1. L = <<>> /\ <<>> \in Seq(Rules)
          BY <3>1, <3>6
        <5>2. QED
          BY <5>1, SetOfNone
      <4>2. Has(R, x)
        BY <3>4, <3>5, <3>6
      <4>3. R \cup ToSet(L) = R
        BY <4>1
      <4>4. QED
        BY <4>1, <4>2, <4>3
    <3>7. CASE ~IsSubset(m[i], x)
      <4> DEFINE r == DiffRule(m[i], x)
      <4>1. /\ r \in Rules /\ Sound(r) /\ CanonicalMergeKey(r) = CanonicalMergeKey(m[i])
            /\ Part(r) = Part(x) \ Part(m[i])
        BY <1>5, <3>1, <3>2, DiffSound
      <4>2. L = <<r>>
        BY <3>1, <3>7
      <4> HIDE DEF r
      <4>3. ToSet(L) = {r}
        BY <4>2, Single
      <4>4. /\ Alikes(R \cup {r}, x) = Alikes(R, x) \cup {r}
            /\ PartIn(R \cup {r}, x) = PartIn(R, x) \cup Part(r)
        <5>1. CanonicalMergeKey(r) = CanonicalMergeKey(x)
          BY <3>1, <4>1
        <5>2. QED
          BY <5>1, AlikesWith
      <4>5. Has(R \cup {r}, x)
        BY <3>3, <4>1, <4>4 DEF Has, PartIn
      <4>6. ~Has(R, x)
        BY <3>4, <3>5, <3>7
      <4>7. QED
        BY <4>1, <4>3, <4>5, <4>6
    <3>8. QED
      BY <3>6, <3>7
  <2>3. (L = <<x>> /\ \A i \in DOMAIN m : CanonicalMergeKey(m[i]) # CanonicalMergeKey(x))
        \/ \E i \in DOMAIN m :
                /\ CanonicalMergeKey(m[i]) = CanonicalMergeKey(x)
                /\ L = IF IsSubset(m[i], x) THEN <<>> ELSE <<DiffRule(m[i], x)>>
    BY <1>1, <1>5, LackingIs
  <2>4. QED
    BY <2>1, <2>2, <2>3
<1>6. AllSound(d)
  BY <1>2, <1>4, <1>5 DEF AllSound
<1>7. HasAll(R \cup ToSet(d), wanted)
  <2>1. ASSUME NEW x \in ToSet(wanted) PROVE Has(R \cup ToSet(d), x)
    <3>1. Has(R \cup ToSet(LackingOf(m, x)), x)
      BY <1>4, <1>5
    <3>2. ToSet(LackingOf(m, x)) \subseteq ToSet(d)
      BY <1>2
    <3>3. R \cup ToSet(LackingOf(m, x)) \subseteq R \cup ToSet(d)
      BY <3>2
    <3>4. QED
      BY <3>1, <3>3, HasMore
  <2>2. QED
    BY <2>1 DEF HasAll
<1>8. ToSet(d) = {} <=> HasAll(R, wanted)
  <2>1. ToSet(d) = {} <=> \A x \in ToSet(wanted) : ToSet(LackingOf(m, x)) = {}
    <3> HIDE DEF LackingOf
    <3> DEFINE S(x) == ToSet(LackingOf(m, x))
    <3>1. ToSet(d) = UNION {S(x) : x \in ToSet(wanted)}
      BY <1>2
    <3> HIDE DEF S
    <3>2. ToSet(d) = {} <=> \A x \in ToSet(wanted) : S(x) = {}
      BY <3>1
    <3>3. QED
      BY <3>2 DEF S
  <2>2. \A x \in ToSet(wanted) : ToSet(LackingOf(m, x)) = {} <=> Has(R, x)
    BY <1>4, <1>5
  <2>3. QED
    BY <2>1, <2>2 DEF HasAll
<1>9. QED
  BY <1>2, <1>6, <1>7, <1>8 DEF R

-----------------------------------------------------------------------------
(* Parsing *)

ParseStates == [is : {"rule", "error", "none"}, rule : Rules]

LEMMA StartRule ==
  /\ NewRule \in Rules /\ PassedOver \in ParseStates /\ Failed \in ParseStates
  /\ \A rule \in Rules : Parsed(rule) \in ParseStates
<1>1. NewRule \in Rules
  BY UsedWords DEF NewRule, Rules
<1>2. QED
  BY <1>1 DEF PassedOver, Failed, Parsed, ParseStates

LEMMA AddFieldIs ==
  ASSUME NEW rule \in Rules, NEW f \in Words, NEW op \in Words, NEW v \in SUBSET Data
  PROVE  AddField(rule, f, op, v) \in Rules
<1>1. Field(f, op, v) \in Fields
  BY FieldIs
<1>2. Append(rule.fields, Field(f, op, v)) \in Seq(Fields)
  BY <1>1, RuleType
<1>3. QED
  BY <1>2 DEF AddField, Rules

LEMMA AllCallsIs ==
  ASSUME NEW rule \in Rules
  PROVE  SetSyscallAll(rule) \in Rules
<1>1. Calls \cap Calls \subseteq Calls
  OBVIOUS
<1>2. QED
  BY <1>1 DEF SetSyscallAll, SetSyscalls, Rules

\* The values that options have.
LEMMA OptionIs ==
  ASSUME NEW o \in Options
  PROVE  /\ o.o \in {"w", "W", "p"} /\ o.v # Bad => o.v \in SUBSET Data
         /\ o.o = "k" => o.v \in Data
         /\ o.o \in {"F", "C"} /\ o.v # Bad => o.v \in Fields
         /\ o.o \in {"a", "A", "d"} /\ o.v # Bad => o.v.action \in Words /\ o.v.filter \in Words
<1>1. CASE o \in [o : Words, v : {Bad}]
  <2>1. o.v = Bad
    BY <1>1
  <2>2. QED
    BY <2>1, FiniteData
<1>2. CASE o \in [o : {"w", "W", "p"}, v : SUBSET Data]
  BY <1>2
<1>3. CASE o \in [o : {"k"}, v : Data]
  BY <1>3
<1>4. CASE o \in [o : {"S"}, v : {AllCalls} \cup SUBSET (Calls \cup Words)]
  BY <1>4
<1>5. CASE o \in [o : {"F", "C"}, v : Fields]
  BY <1>5
<1>6. CASE o \in [o : {"a", "A", "d"}, v : [action : Words, filter : Words]]
  BY <1>6
<1>7. QED
  BY <1>1, <1>2, <1>3, <1>4, <1>5, <1>6 DEF Options

LEMMA ParseHeadIs ==
  ASSUME NEW o \in Options
  PROVE  ParseHead(o) \in ParseStates
<1>1. CASE o.o \notin {"w", "W", "a", "A", "d"}
  BY <1>1, StartRule DEF ParseHead
<1>2. CASE o.o \in {"w", "W", "a", "A", "d"} /\ o.v = Bad
  BY <1>2, StartRule DEF ParseHead
<1>3. CASE o.o \in {"w", "W"} /\ o.v # Bad
  <2> DEFINE r == [NewRule EXCEPT !.del = (o.o = "W"), !.filter = "exit", !.action = "always"]
  <2>1. r \in Rules
    BY StartRule, UsedWords DEF Rules
  <2> HIDE DEF r
  <2>2. SetSyscallAll(r) \in Rules
    BY <2>1, AllCallsIs
  <2>3. o.v \in SUBSET Data /\ WatchField(o.v) \in Words /\ "=" \in Words
    BY <1>3, OptionIs, UsedWords DEF WatchField
  <2>4. AddField(SetSyscallAll(r), WatchField(o.v), "=", o.v) \in Rules
    BY <2>2, <2>3, AddFieldIs
  <2>5. ParseHead(o) = Parsed(AddField(SetSyscallAll(r), WatchField(o.v), "=", o.v))
    BY <1>3 DEF ParseHead, r
  <2>6. QED
    BY <2>4, <2>5, StartRule
<1>4. CASE o.o \in {"a", "A", "d"} /\ o.v # Bad
  <2> DEFINE r == [NewRule EXCEPT !.del = (o.o = "d"), !.prepend = (o.o = "A"),
                     !.action = o.v.action, !.filter = o.v.filter]
  <2>1. o.v.action \in Words /\ o.v.filter \in Words
    BY <1>4, OptionIs
  <2>2. r \in Rules
    BY <2>1, StartRule DEF Rules
  <2>3. ParseHead(o) = Parsed(r)
    BY <1>4 DEF ParseHead
  <2>4. QED
    BY <2>2, <2>3, StartRule
<1>5. QED
  BY <1>1, <1>2, <1>3, <1>4

LEMMA ParseOptionIs ==
  ASSUME NEW st \in ParseStates, NEW o \in Options, NEW watch
  PROVE  ParseOption(st, o, watch) \in ParseStates
<1> DEFINE rule == st.rule
<1>1. rule \in Rules
  BY DEF ParseStates
<1> HIDE DEF rule
<1>2. CASE st.is # "rule"
  BY <1>2 DEF ParseOption
<1>3. CASE st.is = "rule" /\ (o.o \notin Allowed(rule, watch) \/ o.v = Bad)
  BY <1>3, StartRule DEF ParseOption, rule
<1>4. CASE st.is = "rule" /\ o.o \in Allowed(rule, watch) /\ o.v # Bad
  <2>1. o.o \in {"p", "k", "S", "F", "C"}
    BY <1>4 DEF Allowed
  <2>2. CASE o.o = "p"
    <3>1. ParseOption(st, o, watch) = Parsed(AddField(rule, "perm", "=", o.v))
      BY <1>4, <2>2 DEF ParseOption, rule
    <3>2. AddField(rule, "perm", "=", o.v) \in Rules
      BY <1>1, <1>4, <2>2, OptionIs, UsedWords, AddFieldIs
    <3>3. QED
      BY <3>1, <3>2, StartRule
  <2>3. CASE o.o = "k"
    <3>1. ParseOption(st, o, watch) = Parsed(AddKeys(rule, {o.v}))
      BY <1>4, <2>3 DEF ParseOption, rule
    <3>2. {o.v} \in SUBSET Data
      BY <2>3, OptionIs
    <3>3. AddKeys(rule, {o.v}) \in Rules
      BY <1>1, <3>2, AddKeysIs
    <3>4. QED
      BY <3>1, <3>3, StartRule
  <2>4. CASE o.o = "S"
    <3> DEFINE S == o.v \cup (IF o.v \subseteq Calls THEN {} ELSE Shifted)
    <3>1. ParseOption(st, o, watch) = ParseS(rule, o.v)
      BY <1>4, <2>4 DEF ParseOption, rule
    <3>2. rule.calls \cup (S \cap Calls) \subseteq Calls
      BY <1>1 DEF Rules
    <3> HIDE DEF S
    <3>3. AddSyscalls(rule, S) \in Rules
      BY <1>1, <3>2 DEF AddSyscalls, Rules
    <3>4. SetSyscallAll(rule) \in Rules
      BY <1>1, AllCallsIs
    <3>5. ParseS(rule, o.v) \in {Parsed(SetSyscallAll(rule)), Failed,
                                 Parsed(AddSyscalls(rule, S))}
      BY DEF ParseS, S
    <3>6. QED
      BY <3>1, <3>3, <3>4, <3>5, StartRule
  <2>5. CASE o.o = "F"
    <3>1. ParseOption(st, o, watch) = ParseF(rule, o.v)
      BY <1>4, <2>5 DEF ParseOption, rule
    <3>2. o.v \in Fields
      BY <1>4, <2>5, OptionIs
    <3>3. o.v.f \in Words /\ o.v.op \in Words /\ o.v.v \in SUBSET Data
      BY <3>2 DEF Fields
    <3>4. AddField(rule, o.v.f, o.v.op, o.v.v) \in Rules
      BY <1>1, <3>3, AddFieldIs
    <3>5. AddKeys(rule, o.v.v) \in Rules
      BY <1>1, <3>3, AddKeysIs
    <3>6. QED
      BY <3>1, <3>4, <3>5, StartRule DEF ParseF
  <2>6. CASE o.o = "C"
    <3>1. ParseOption(st, o, watch) = Parsed(AddField(rule, "compare", o.v.op, o.v.v))
      BY <1>4, <2>6 DEF ParseOption, ParseC, rule
    <3>2. o.v \in Fields
      BY <1>4, <2>6, OptionIs
    <3>3. o.v.op \in Words /\ o.v.v \in SUBSET Data /\ "compare" \in Words
      BY <3>2, UsedWords DEF Fields
    <3>4. AddField(rule, "compare", o.v.op, o.v.v) \in Rules
      BY <1>1, <3>3, AddFieldIs
    <3>5. QED
      BY <3>1, <3>4, StartRule
  <2>7. QED
    BY <2>1, <2>2, <2>3, <2>4, <2>5, <2>6
<1>5. QED
  BY <1>2, <1>3, <1>4

\* Parsing a line ends with a rule, an error or neither.
LEMMA ParseIs ==
  ASSUME NEW line \in Lines
  PROVE  Parse(line) \in ParseStates
<1> DEFINE watch == line[1].o \in {"w", "W"}
           s == Tail(line)
           first == ParseHead(line[1])
           Step(st, o) == ParseOption(st, o, watch)
           Is(f) == f = [n \in 0 .. Len(s) |->
                           IF n = 0 THEN first ELSE Once(f[n - 1], LAMBDA y : Step(y, s[n]))]
           step == [k \in 1 .. Len(s) |-> [y \in ParseStates |-> ParseOption(y, s[k], watch)]]
           kept == CHOOSE f : Is(f)
<1>1. CASE line = <<>>
  BY <1>1, StartRule DEF Parse
<1>2. CASE line # <<>>
  <2>1. Parse(line) = Fold(Step, first, s)
    BY <1>2 DEF Parse
  <2>2. s \in Seq(Options) /\ line[1] \in Options
    BY <1>2 DEF Lines
  <2>3. first \in ParseStates
    BY <2>2, ParseHeadIs
  <2> HIDE DEF first, s, watch
  <2>4. Fold(Step, first, s) = kept[Len(s)]
    BY DEF Fold, Once
  <2>5. Len(s) \in Nat /\ \A k \in 1 .. Len(s) : s[k] \in Options
    BY <2>2
  <2>6. \A k \in 1 .. Len(s) : \A y \in ParseStates : step[k][y] = ParseOption(y, s[k], watch)
    OBVIOUS
  <2> HIDE DEF step
  <2>7. StaysIn(ParseStates, Len(s), step)
    BY <2>5, <2>6, ParseOptionIs DEF StaysIn
  <2>8. PICK g : Recurs(g, Len(s), ParseStates, first, step)
    BY <2>3, <2>5, <2>7, Recursion
  <2>9. ASSUME NEW n \in 0 .. Len(s)
        PROVE  g[n] = IF n = 0 THEN first ELSE Once(g[n - 1], LAMBDA y : Step(y, s[n]))
    <3>1. n # 0 => n \in 1 .. Len(s) /\ n - 1 \in 0 .. Len(s)
      BY <2>5
    <3>2. n # 0 => g[n - 1] \in ParseStates
      BY <2>8, <3>1 DEF Recurs
    <3>3. g[n] = IF n = 0 THEN first ELSE ParseOption(g[n - 1], s[n], watch)
      BY <2>6, <2>8, <3>1, <3>2 DEF Recurs
    <3>4. Once(g[n - 1], LAMBDA y : Step(y, s[n])) = ParseOption(g[n - 1], s[n], watch)
      BY DEF Once
    <3>5. QED
      BY <3>3, <3>4
  <2>10. Is(g)
    <3>1. g \in [0 .. Len(s) -> ParseStates]
      BY <2>8 DEF Recurs
    <3>2. QED
      BY <2>9, <3>1
  <2>11. Is(kept)
    BY <2>10
  <2> HIDE DEF kept
  <2>12. \A n \in 0 .. Len(s) : kept[n] = IF n = 0 THEN first ELSE ParseOption(kept[n - 1], s[n], watch)
    <3>1. ASSUME NEW n \in 0 .. Len(s)
          PROVE  kept[n] = IF n = 0 THEN first ELSE ParseOption(kept[n - 1], s[n], watch)
      <4>1. kept[n] = IF n = 0 THEN first ELSE Once(kept[n - 1], LAMBDA y : Step(y, s[n]))
        BY <2>11
      <4>2. Once(kept[n - 1], LAMBDA y : Step(y, s[n])) = ParseOption(kept[n - 1], s[n], watch)
        BY DEF Once
      <4>3. QED
        BY <4>1, <4>2
    <3>2. QED
      BY <3>1
  <2> DEFINE D == [n \in 0 .. Len(s) |-> ParseStates]
  <2>13. 0 \in 0 .. Len(s) /\ Len(s) \in 0 .. Len(s)
         /\ \A n \in 1 .. Len(s) : n \in 0 .. Len(s) /\ n - 1 \in 0 .. Len(s)
    BY <2>5
  <2>14. kept[0] \in D[0]
    BY <2>3, <2>12, <2>13
  <2>15. ASSUME NEW n \in 1 .. Len(s), kept[n - 1] \in D[n - 1] PROVE kept[n] \in D[n]
    <3>1. kept[n - 1] \in ParseStates /\ s[n] \in Options
      BY <2>5, <2>13, <2>15
    <3>2. kept[n] = ParseOption(kept[n - 1], s[n], watch)
      BY <2>12, <2>13
    <3>3. QED
      BY <2>13, <3>1, <3>2, ParseOptionIs
  <2> HIDE DEF D
  <2>16. \A n \in 0 .. Len(s) : kept[n] \in D[n]
    BY <2>5, <2>14, <2>15, Climb
  <2>17. QED
    BY <2>1, <2>4, <2>13, <2>16 DEF D
<1>3. QED
  BY <1>1, <1>2

\* The rules of some lines: those that their lines give.
LEMMA ParseRulesIs ==
  ASSUME NEW lines \in Seq(Lines)
  PROVE  /\ ParseRules(lines) \in Seq(Rules)
         /\ ToSet(ParseRules(lines))
              = {Parse(line).rule : line \in {l \in ToSet(lines) : Parse(l).is = "rule"}}
<1> DEFINE e == [i \in 1 .. Len(lines) |-> Parse(lines[i])]
           T == {p \in ParseStates : p.is = "rule"}
           k == Those(e, T)
           m == [i \in 1 .. Len(k) |-> k[i].rule]
<1>1. Len(lines) \in Nat /\ DOMAIN lines = 1 .. Len(lines) /\ \A i \in 1 .. Len(lines) : lines[i] \in Lines
  OBVIOUS
<1>2. e \in [1 .. Len(lines) -> ParseStates]
  BY <1>1, ParseIs
<1>3. /\ <<>> \o e = e /\ e \in Seq(ParseStates) /\ Len(e) = Len(lines) /\ DOMAIN e = 1 .. Len(lines)
  BY <1>1, <1>2, EachType
<1>4. Each(lines, Parse) = e
  <2>1. Each(lines, Parse) = <<>> \o [i \in DOMAIN lines |-> Parse(lines[i])]
    BY DEF Each, Once
  <2>2. [i \in DOMAIN lines |-> Parse(lines[i])] = e
    BY <1>1
  <2>3. QED
    BY <1>3, <2>1, <2>2
<1>5. \A i \in 1 .. Len(lines) : e[i] = Parse(lines[i]) /\ e[i] \in ParseStates
  BY <1>2
<1> HIDE DEF e
<1>6. Keep(e, LAMBDA p : p.is = "rule") = k
  <2>1. Keep(e, LAMBDA p : p.is = "rule") = KeepAt(e, {i \in DOMAIN e : e[i].is = "rule"})
    BY DEF Keep, Once
  <2>2. {i \in DOMAIN e : e[i].is = "rule"} = {i \in DOMAIN e : e[i] \in T}
    BY <1>3, <1>5
  <2>3. QED
    BY <2>1, <2>2 DEF Those
<1>7. k \in Seq(ParseStates) /\ ToSet(k) = ToSet(e) \cap T
  BY <1>3, ThoseSet
<1> HIDE DEF k
<1>8. Len(k) \in Nat /\ DOMAIN k = 1 .. Len(k) /\ \A i \in 1 .. Len(k) : k[i] \in ParseStates
  BY <1>7
<1>9. m \in [1 .. Len(k) -> Rules]
  BY <1>8 DEF ParseStates
<1>10. <<>> \o m = m /\ m \in Seq(Rules) /\ Len(m) = Len(k) /\ DOMAIN m = 1 .. Len(k)
  BY <1>8, <1>9, EachType
<1>11. ParseRules(lines) = m
  <2>1. ParseRules(lines) = Each(Keep(Each(lines, Parse), LAMBDA p : p.is = "rule"), LAMBDA p : p.rule)
    BY DEF ParseRules
  <2>2. ParseRules(lines) = Each(k, LAMBDA p : p.rule)
    BY <1>4, <1>6, <2>1
  <2>3. Each(k, LAMBDA p : p.rule) = <<>> \o [i \in DOMAIN k |-> k[i].rule]
    BY DEF Each, Once
  <2>4. [i \in DOMAIN k |-> k[i].rule] = m
    BY <1>8
  <2>5. QED
    BY <1>10, <2>2, <2>3, <2>4
<1>12. ToSet(m) = {p.rule : p \in ToSet(k)}
  <2>1. ToSet(m) = {m[i] : i \in 1 .. Len(k)}
    BY <1>10 DEF ToSet
  <2>2. ToSet(k) = {k[i] : i \in 1 .. Len(k)}
    BY <1>8 DEF ToSet
  <2>3. QED
    BY <2>1, <2>2
<1>13. ToSet(e) = {Parse(line) : line \in ToSet(lines)}
  <2>1. ToSet(e) = {e[i] : i \in 1 .. Len(lines)}
    BY <1>3 DEF ToSet
  <2>2. ToSet(lines) = {lines[i] : i \in 1 .. Len(lines)}
    BY <1>1 DEF ToSet
  <2>3. {e[i] : i \in 1 .. Len(lines)} = {Parse(lines[i]) : i \in 1 .. Len(lines)}
    BY <1>5
  <2>4. QED
    BY <2>1, <2>2, <2>3, Zenon
<1>14. \A line \in ToSet(lines) : Parse(line) \in ParseStates
  BY <1>1, ParseIs DEF ToSet
<1> DEFINE P == {Parse(line).rule : line \in {l \in ToSet(lines) : Parse(l).is = "rule"}}
<1>15. {p.rule : p \in ToSet(k)} = P
  <2>1. ASSUME NEW p \in ToSet(k) PROVE p.rule \in P
    BY <1>7, <1>13
  <2>2. ASSUME NEW line \in ToSet(lines), Parse(line).is = "rule"
        PROVE  Parse(line).rule \in {p.rule : p \in ToSet(k)}
    <3>1. Parse(line) \in ToSet(k)
      BY <1>7, <1>13, <1>14, <2>2
    <3>2. QED
      BY <3>1
  <2>3. QED
    BY <2>1, <2>2
<1>16. QED
  BY <1>10, <1>11, <1>12, <1>15

MarkerNames == {"augenrules", "start", "end"}

\* A marker is a comment: it is passed over.
LEMMA MarkerIs ==
  ASSUME NEW name \in MarkerNames
  PROVE  Marker(name) \in Lines /\ Marker(name) \in Markers /\ Parse(Marker(name)) = PassedOver
<1> DEFINE o == Option(name, Bad)
           line == <<o>>
<1>1. name \in Words
  BY UsedWords DEF MarkerNames
<1>2. o \in Options /\ o.o = name
  BY <1>1 DEF Option, Options
<1>3. Marker(name) = line /\ Marker(name) \in Markers
  BY DEF Marker, Markers, MarkerNames
<1> HIDE DEF o
<1>4. line \in Lines
  BY <1>2 DEF Lines
<1>5. line # <<>> /\ line[1] = o /\ Tail(line) = <<>>
  OBVIOUS
<1>6. ParseHead(o) = PassedOver
  BY <1>2 DEF ParseHead, MarkerNames
<1> DEFINE watch == line[1].o \in {"w", "W"}
           s == Tail(line)
           first == ParseHead(line[1])
           Step(st, x) == ParseOption(st, x, watch)
           Is(f) == f = [n \in 0 .. Len(s) |->
                           IF n = 0 THEN first ELSE Once(f[n - 1], LAMBDA y : Step(y, s[n]))]
           kept == CHOOSE f : Is(f)
<1>7. Parse(line) = Fold(Step, first, s)
  BY <1>5 DEF Parse
<1>8. s = <<>> /\ first = PassedOver
  BY <1>5, <1>6
<1> HIDE DEF watch, s, first, line
<1>9. Fold(Step, first, s) = kept[Len(s)]
  BY DEF Fold, Once
<1>10. Len(s) = 0
  BY <1>8
<1>11. Is([n \in 0 .. Len(s) |-> first])
  BY <1>10
<1>12. Is(kept)
  BY <1>11
<1>13. kept[0] = first
  <2> HIDE DEF kept
  <2>1. QED
    BY <1>10, <1>12
<1>14. QED
  BY <1>3, <1>4, <1>7, <1>8, <1>9, <1>10, <1>13

LEMMA StartIsNot == Marker("start") # Marker("end") /\ Marker("augenrules") # Marker("start")
<1>1. Option("start", Bad) # Option("end", Bad) /\ Option("augenrules", Bad) # Option("start", Bad)
  BY DEF Option
<1>2. \A a, b : <<a>> = <<b>> => a = b
  OBVIOUS
<1>3. QED
  BY <1>1, <1>2 DEF Marker
-----------------------------------------------------------------------------
(* Printing *)

\* The options that a rule is printed as; a marker is none of them.
TextOptions == {o \in Options : o.o \notin MarkerNames}

Plain == Seq(TextOptions)

\* The options that a rule is printed with; none is a marker.
LEMMA OptionsPrinted ==
  /\ \A v \in SUBSET Data : \A o \in {"w", "W", "p"} : Option(o, v) \in TextOptions
  /\ \A v \in Data : Option("k", v) \in TextOptions
  /\ \A x \in Fields : \A o \in {"F", "C"} : Option(o, x) \in TextOptions
  /\ \A v \in {AllCalls} \cup SUBSET Calls : Option("S", v) \in TextOptions
  /\ \A x \in [action : Words, filter : Words] : \A o \in {"a", "A", "d"} :
        Option(o, x) \in TextOptions
<1>1. \A v \in SUBSET Data : \A o \in {"w", "W", "p"} : Option(o, v) \in TextOptions
  BY DEF TextOptions, Options, Option, MarkerNames
<1>2. \A v \in Data : Option("k", v) \in TextOptions
  BY DEF TextOptions, Options, Option, MarkerNames
<1>3. \A x \in Fields : \A o \in {"F", "C"} : Option(o, x) \in TextOptions
  <2>1. \A x \in Fields : \A o \in {"F", "C"} : Option(o, x) \in [o : {"F", "C"}, v : Fields]
    BY DEF Option
  <2>2. \A x : \A o \in {"F", "C"} : Option(o, x).o \notin MarkerNames
    BY DEF Option, MarkerNames
  <2>3. QED
    BY <2>1, <2>2 DEF TextOptions, Options
<1>4. \A v \in {AllCalls} \cup SUBSET Calls : Option("S", v) \in TextOptions
  <2>1. ASSUME NEW v \in {AllCalls} \cup SUBSET Calls PROVE Option("S", v) \in TextOptions
    <3>1. v \in {AllCalls} \cup SUBSET (Calls \cup Words)
      OBVIOUS
    <3>2. Option("S", v) \in [o : {"S"}, v : {AllCalls} \cup SUBSET (Calls \cup Words)]
      BY <3>1 DEF Option
    <3>3. Option("S", v).o \notin MarkerNames
      BY DEF Option, MarkerNames
    <3>4. QED
      BY <3>2, <3>3 DEF TextOptions, Options
  <2>2. QED
    BY <2>1
<1>5. \A x \in [action : Words, filter : Words] : \A o \in {"a", "A", "d"} : Option(o, x) \in TextOptions
  <2>1. \A x \in [action : Words, filter : Words] : \A o \in {"a", "A", "d"} :
            Option(o, x) \in [o : {"a", "A", "d"}, v : [action : Words, filter : Words]]
    BY DEF Option
  <2>2. \A x : \A o \in {"a", "A", "d"} : Option(o, x).o \notin MarkerNames
    BY DEF Option, MarkerNames
  <2>3. QED
    BY <2>1, <2>2 DEF TextOptions, Options
<1>6. QED
  BY <1>1, <1>2, <1>3, <1>4, <1>5

LEMMA OneOption ==
  ASSUME NEW x \in TextOptions
  PROVE  <<x>> \in Plain
BY DEF Plain

LEMMA FieldTextIs ==
  ASSUME NEW rule \in Rules, NEW x \in Fields, NEW watch \in BOOLEAN
  PROVE  FieldText(rule, x, watch) \in Plain
<1>1. x.v \in SUBSET Data /\ x.f \in Words /\ x.op \in Words
  BY DEF Fields
<1>2. CASE x.f \in {"path", "dir"} /\ watch
  <2>1. FieldText(rule, x, watch) = <<Option(IF rule.del THEN "W" ELSE "w", x.v)>>
    BY <1>2 DEF FieldText
  <2>2. Option(IF rule.del THEN "W" ELSE "w", x.v) \in TextOptions
    BY <1>1, OptionsPrinted
  <2>3. QED
    BY <2>1, <2>2, OneOption
<1>3. CASE x.f = "perm" /\ watch
  <2>1. FieldText(rule, x, watch) = <<Option("p", x.v)>>
    BY <1>3 DEF FieldText
  <2>2. Option("p", x.v) \in TextOptions
    BY <1>1, OptionsPrinted
  <2>3. QED
    BY <2>1, <2>2, OneOption
<1>4. CASE x.f = "key"
  <2> DEFINE s == SetToSeq(x.v)
             F(k) == IF watch THEN Option("k", k) ELSE Option("F", Field("key", "=", {k}))
             m == [i \in 1 .. Len(s) |-> F(s[i])]
  <2>1. IsFiniteSet(x.v)
    BY <1>1, FiniteData, FS_Subset
  <2>2. s \in Seq(x.v)
    BY <2>1, SetSeq
  <2> HIDE DEF s
  <2>3. \A k \in Data : F(k) \in TextOptions
    <3>1. ASSUME NEW k \in Data PROVE F(k) \in TextOptions
      <4>1. "key" \in Words /\ "=" \in Words /\ {k} \in SUBSET Data
        BY UsedWords
      <4>2. Field("key", "=", {k}) \in Fields
        BY <4>1, FieldIs
      <4>3. QED
        BY <4>2, OptionsPrinted
    <3>2. QED
      BY <3>1
  <2> HIDE DEF F
  <2>4. Len(s) \in Nat /\ DOMAIN s = 1 .. Len(s) /\ \A i \in 1 .. Len(s) : s[i] \in Data
    BY <1>1, <2>2
  <2>5. m \in [1 .. Len(s) -> TextOptions]
    BY <2>3, <2>4
  <2>6. <<>> \o m = m /\ m \in Seq(TextOptions)
    BY <2>4, <2>5, EachType
  <2>7. FieldText(rule, x, watch) = Each(s, F)
    BY <1>4 DEF FieldText, s, F
  <2>8. Each(s, F) = <<>> \o [i \in DOMAIN s |-> F(s[i])]
    BY DEF Each, Once
  <2>9. QED
    BY <2>4, <2>6, <2>7, <2>8 DEF Plain
<1>5. CASE x.f = "compare"
  <2>1. FieldText(rule, x, watch) = <<Option("C", x)>>
    BY <1>5 DEF FieldText
  <2>2. Option("C", x) \in TextOptions
    BY OptionsPrinted
  <2>3. QED
    BY <2>1, <2>2, OneOption
<1>6. CASE x.f = "arch"
  <2>1. FieldText(rule, x, watch) = <<Option("F", ArchText(x))>>
    BY <1>6 DEF FieldText
  <2>2. {"b32"} \in SUBSET Data
    BY FiniteData
  <2>3. ArchText(x) \in Fields
    BY <2>2 DEF ArchText, Fields
  <2>4. Option("F", ArchText(x)) \in TextOptions
    BY <2>3, OptionsPrinted
  <2>5. QED
    BY <2>1, <2>4, OneOption
<1>7. CASE x.f = "filetype"
  <2> DEFINE y == [x EXCEPT !.v = {Bad}]
  <2>1. FieldText(rule, x, watch) = <<Option("F", y)>>
    BY <1>7 DEF FieldText
  <2>2. {Bad} \in SUBSET Data
    BY FiniteData
  <2>3. y \in Fields
    BY <2>2 DEF Fields
  <2> HIDE DEF y
  <2>4. Option("F", y) \in TextOptions
    BY <2>3, OptionsPrinted
  <2>5. QED
    BY <2>1, <2>4, OneOption
<1>8. CASE /\ ~(x.f \in {"path", "dir"} /\ watch) /\ ~(x.f = "perm" /\ watch)
           /\ x.f \notin {"key", "compare", "arch", "filetype"}
  <2>1. FieldText(rule, x, watch) = <<Option("F", x)>>
    BY <1>8 DEF FieldText
  <2>2. Option("F", x) \in TextOptions
    BY OptionsPrinted
  <2>3. QED
    BY <2>1, <2>2, OneOption
<1>9. QED
  BY <1>2, <1>3, <1>4, <1>5, <1>6, <1>7, <1>8

LEMMA FieldTextsAre ==
  ASSUME NEW rule \in Rules, NEW s \in Seq(Fields), NEW watch \in BOOLEAN
  PROVE  FieldTexts(rule, s, watch) \in Plain
<1> DEFINE m == [i \in 1 .. Len(s) |-> FieldText(rule, s[i], watch)]
<1>1. Len(s) \in Nat /\ DOMAIN s = 1 .. Len(s) /\ \A i \in 1 .. Len(s) : s[i] \in Fields
  OBVIOUS
<1>2. FieldTexts(rule, s, watch) = FlattenSeq(<<>> \o [i \in DOMAIN s |-> FieldText(rule, s[i], watch)])
  BY DEF FieldTexts, Each, Once
<1>3. FieldTexts(rule, s, watch) = FlattenSeq(<<>> \o m)
  BY <1>1, <1>2
<1>4. m \in [1 .. Len(s) -> Seq(TextOptions)]
  BY <1>1, FieldTextIs DEF Plain
<1> HIDE DEF m
<1>5. <<>> \o m = m /\ m \in Seq(Seq(TextOptions))
  BY <1>1, <1>4, EachType
<1>6. QED
  BY <1>3, <1>5, Flat DEF Plain

\* A rule is printed in such options.
LEMMA CanonicalTextIs ==
  ASSUME NEW rule \in Rules
  PROVE  CanonicalText(rule) \in Plain
<1> DEFINE others == Those(rule.fields, Unnamed({"arch"}))
           archs == FieldsOf(rule, {"arch"})
<1>1. Keep(rule.fields, LAMBDA x : x.f # "arch") = others
  <2>1. Keep(rule.fields, LAMBDA x : x.f # "arch")
        = KeepAt(rule.fields, {i \in DOMAIN rule.fields : rule.fields[i].f # "arch"})
    BY DEF Keep, Once
  <2>2. {i \in DOMAIN rule.fields : rule.fields[i].f # "arch"}
        = {i \in DOMAIN rule.fields : rule.fields[i].f \notin {"arch"}}
    OBVIOUS
  <2>3. QED
    BY <2>1, <2>2, NotFieldsAre
<1>2. CanonicalText(rule) =
        IF IsWatch(rule) THEN FieldTexts(rule, others, TRUE)
        ELSE <<Head1(rule)>> \o FieldTexts(rule, archs, FALSE)
                \o SyscallText(rule) \o FieldTexts(rule, others, FALSE)
  BY <1>1 DEF CanonicalText
<1>3. others \in Seq(Fields) /\ archs \in Seq(Fields)
  BY RuleType, ThoseSet, FieldsAre
<1> HIDE DEF others, archs
<1>4. /\ FieldTexts(rule, others, TRUE) \in Plain /\ FieldTexts(rule, others, FALSE) \in Plain
      /\ FieldTexts(rule, archs, FALSE) \in Plain
  BY <1>3, FieldTextsAre
<1>5. <<Head1(rule)>> \in Plain
  <2>1. [action |-> rule.action, filter |-> rule.filter] \in [action : Words, filter : Words]
    BY DEF Rules
  <2>2. Head1(rule) \in TextOptions
    BY <2>1, OptionsPrinted DEF Head1
  <2>3. QED
    BY <2>2, OneOption
<1>6. SyscallText(rule) \in Plain
  <2>1. rule.calls \in SUBSET Calls
    BY DEF Rules
  <2>2. Option("S", AllCalls) \in TextOptions /\ Option("S", rule.calls) \in TextOptions
    BY <2>1, OptionsPrinted
  <2>3. <<Option("S", AllCalls)>> \in Plain /\ <<Option("S", rule.calls)>> \in Plain /\ <<>> \in Plain
    BY <2>2, OneOption DEF Plain
  <2>4. QED
    BY <2>3 DEF SyscallText
<1>7. \A s, t \in Plain : s \o t \in Plain
  BY DEF Plain
<1>8. <<Head1(rule)>> \o FieldTexts(rule, archs, FALSE) \in Plain
  BY <1>4, <1>5, <1>7
<1>9. <<Head1(rule)>> \o FieldTexts(rule, archs, FALSE) \o SyscallText(rule) \in Plain
  BY <1>6, <1>7, <1>8
<1>10. <<Head1(rule)>> \o FieldTexts(rule, archs, FALSE) \o SyscallText(rule)
          \o FieldTexts(rule, others, FALSE) \in Plain
  BY <1>4, <1>7, <1>9
<1>11. QED
  BY <1>2, <1>4, <1>10

\* What auoms writes are lines, none of them a marker.
LEMMA TextsAre ==
  ASSUME NEW list \in Seq(Rules)
  PROVE  Texts(list) \in Seq(Lines \ Markers)
<1> DEFINE m == [i \in 1 .. Len(list) |-> CanonicalText(list[i])]
<1>1. Len(list) \in Nat /\ DOMAIN list = 1 .. Len(list) /\ \A i \in 1 .. Len(list) : list[i] \in Rules
  OBVIOUS
<1>2. Texts(list) = <<>> \o [i \in DOMAIN list |-> CanonicalText(list[i])]
  BY DEF Texts, Each, Once
<1>3. \A s \in Plain : s \in Lines \ Markers
  <2>1. ASSUME NEW s \in Plain PROVE s \in Lines /\ s \notin Markers
    <3>1. s \in Seq(TextOptions) /\ \A x \in TextOptions : x \in Options /\ x.o \notin MarkerNames
      BY <2>1 DEF Plain, TextOptions
    <3>2. s \in Lines
      BY <3>1 DEF Lines
    <3>3. \A name \in MarkerNames : s # Marker(name)
      <4>1. ASSUME NEW name \in MarkerNames, s = Marker(name) PROVE FALSE
        <5>1. s = <<Option(name, Bad)>>
          BY <4>1 DEF Marker
        <5>2. Option(name, Bad) \in TextOptions
          <6>1. Len(s) = 1 /\ s[1] = Option(name, Bad)
            BY <5>1
          <6>2. QED
            BY <3>1, <6>1
        <5>3. Option(name, Bad).o = name
          BY DEF Option
        <5>4. QED
          BY <3>1, <5>2, <5>3
      <4>2. QED
        BY <4>1
    <3>4. QED
      BY <3>2, <3>3 DEF Markers, MarkerNames
  <2>2. QED
    BY <2>1
<1>4. m \in [1 .. Len(list) -> Lines \ Markers]
  BY <1>1, <1>3, CanonicalTextIs
<1>5. <<>> \o m = m /\ m \in Seq(Lines \ Markers)
  BY <1>1, <1>4, EachType
<1>6. QED
  BY <1>1, <1>2, <1>5

-----------------------------------------------------------------------------
(* The kernel's rules *)

\* The rules that are kept by a test.
LEMMA KeepRules ==
  ASSUME NEW s \in Seq(Rules), NEW T \in SUBSET Rules, NEW I,
         \A i \in DOMAIN s : i \in I <=> s[i] \in T, I \subseteq DOMAIN s
  PROVE  KeepAt(s, I) \in Seq(Rules) /\ ToSet(KeepAt(s, I)) = ToSet(s) \cap T
         /\ (ToSet(s) \subseteq T => KeepAt(s, I) = s)
<1>1. I = {i \in DOMAIN s : s[i] \in T}
  OBVIOUS
<1>2. KeepAt(s, I) = Those(s, T)
  BY <1>1 DEF Those
<1>3. QED
  BY <1>2, ThoseSet, ThoseAll

LEMMA InRules ==
  ASSUME NEW s \in Seq(Rules)
  PROVE  (\A i \in DOMAIN s : s[i] \in Rules) /\ ToSet(s) \subseteq Rules
BY SetOfType

\* NotAuoms leaves the rules that are not of auoms, in their order.
LEMMA NotAuomsIs ==
  ASSUME NEW s \in Seq(Rules)
  PROVE  /\ NotAuoms(s) \in Seq(Rules)
         /\ ToSet(NotAuoms(s)) = {r \in ToSet(s) : ~IsAuoms(r)}
         /\ (\A r \in ToSet(s) : ~IsAuoms(r)) => NotAuoms(s) = s
<1> DEFINE I == {i \in DOMAIN s : ~IsAuoms(s[i])}
           T == {r \in Rules : ~IsAuoms(r)}
<1>1. NotAuoms(s) = KeepAt(s, I)
  BY DEF NotAuoms, Keep, Once
<1>2. I \subseteq DOMAIN s /\ \A i \in DOMAIN s : i \in I <=> s[i] \in T
  BY InRules
<1>3. T \in SUBSET Rules
  OBVIOUS
<1> HIDE DEF I
<1>4. /\ KeepAt(s, I) \in Seq(Rules) /\ ToSet(KeepAt(s, I)) = ToSet(s) \cap T
      /\ (ToSet(s) \subseteq T => KeepAt(s, I) = s)
  BY <1>2, <1>3, KeepRules
<1>5. QED
  BY <1>1, <1>4, InRules

Others(list) == Keep(NotAuoms(list), Sound)

\* The administrator's sound rules.
LEMMA OthersAre ==
  ASSUME NEW s \in Seq(Rules)
  PROVE  /\ Others(s) \in Seq(Rules)
         /\ ToSet(Others(s)) = {r \in ToSet(s) : ~IsAuoms(r) /\ Sound(r)}
<1> DEFINE n == NotAuoms(s)
           I == {i \in DOMAIN n : Sound(n[i])}
           T == {r \in Rules : Sound(r)}
<1>1. n \in Seq(Rules) /\ ToSet(n) = {r \in ToSet(s) : ~IsAuoms(r)}
  BY NotAuomsIs
<1>2. Others(s) = KeepAt(n, I)
  BY DEF Others, Keep, Once
<1> HIDE DEF n
<1>3. I \subseteq DOMAIN n /\ \A i \in DOMAIN n : i \in I <=> n[i] \in T
  BY <1>1, InRules
<1>4. T \in SUBSET Rules
  OBVIOUS
<1> HIDE DEF I
<1>5. KeepAt(n, I) \in Seq(Rules) /\ ToSet(KeepAt(n, I)) = ToSet(n) \cap T
  BY <1>1, <1>3, <1>4, KeepRules
<1>6. QED
  BY <1>1, <1>2, <1>5, InRules

\* Without a rule.
LEMMA WithoutIs ==
  ASSUME NEW s \in Seq(Rules), NEW rule \in Rules
  PROVE  /\ Without(s, rule) \in Seq(Rules)
         /\ ToSet(Without(s, rule)) = ToSet(s) \ {rule}
<1> DEFINE I == {i \in DOMAIN s : s[i] # rule}
           T == Rules \ {rule}
<1>1. Without(s, rule) = KeepAt(s, I)
  BY DEF Without, Keep, Once
<1>2. I \subseteq DOMAIN s /\ \A i \in DOMAIN s : i \in I <=> s[i] \in T
  BY InRules
<1>3. T \in SUBSET Rules
  OBVIOUS
<1> HIDE DEF I
<1>4. KeepAt(s, I) \in Seq(Rules) /\ ToSet(KeepAt(s, I)) = ToSet(s) \cap T
  BY <1>2, <1>3, KeepRules
<1>5. QED
  BY <1>1, <1>4, InRules

\* The rules that are to be deleted.
LEMMA ToDelete ==
  ASSUME NEW s \in Seq(Rules), NEW wanted
  PROVE  /\ Keep(s, LAMBDA rule : DeleteIt(rule, wanted)) \in Seq(Rules)
         /\ ToSet(Keep(s, LAMBDA rule : DeleteIt(rule, wanted)))
              = {r \in ToSet(s) : DeleteIt(r, wanted)}
<1> DEFINE I == {i \in DOMAIN s : DeleteIt(s[i], wanted)}
           T == {r \in Rules : DeleteIt(r, wanted)}
<1>1. Keep(s, LAMBDA rule : DeleteIt(rule, wanted)) = KeepAt(s, I)
  BY DEF Keep, Once
<1>2. I \subseteq DOMAIN s /\ \A i \in DOMAIN s : i \in I <=> s[i] \in T
  BY InRules
<1>3. T \in SUBSET Rules
  OBVIOUS
<1> HIDE DEF I
<1>4. KeepAt(s, I) \in Seq(Rules) /\ ToSet(KeepAt(s, I)) = ToSet(s) \cap T
  BY <1>2, <1>3, KeepRules
<1>5. QED
  BY <1>1, <1>4, InRules

LEMMA MergeType ==
  ASSUME NEW s \in Seq(Rules)
  PROVE  MergeRules(s) \in Seq(Rules)
<1>1. PICK f : IsMerging(f, s) /\ Fold(MergeIn, <<>>, s) = f[Len(s)]
  BY MergeFold
<1>2. f[Len(s)] \in Seq(Entries)
  BY <1>1 DEF IsMerging
<1>3. QED
  BY <1>1, <1>2, MergedAre

\* The desired rules are rules.
LEMMA DesiredIs ==
  ASSUME NEW lines \in Seq(Lines)
  PROVE  DesiredOf(lines) \in Seq(Rules)
<1> DEFINE s == MergeRules(ParseRules(lines))
           k == Keep(s, IsLoadable)
           m == [i \in 1 .. Len(k) |-> AddKeys(k[i], {AuomsKey})]
<1>1. s \in Seq(Rules)
  BY ParseRulesIs, MergeType
<1>2. k = KeepAt(s, {i \in DOMAIN s : IsLoadable(s[i])})
  BY DEF Keep, Once
<1> HIDE DEF s
<1>3. k \in Seq(Rules)
  BY <1>1, <1>2, KeepType
<1>4. DesiredOf(lines) = Each(k, LAMBDA rule : AddKeys(rule, {AuomsKey}))
  BY DEF DesiredOf, s
<1> HIDE DEF k
<1>5. Len(k) \in Nat /\ DOMAIN k = 1 .. Len(k) /\ \A i \in 1 .. Len(k) : k[i] \in Rules
  BY <1>3
<1>6. DesiredOf(lines) = <<>> \o [i \in DOMAIN k |-> AddKeys(k[i], {AuomsKey})]
  BY <1>4 DEF Each, Once
<1>7. m \in [1 .. Len(k) -> Rules]
  <2>1. {AuomsKey} \in SUBSET Data
    BY FiniteData
  <2>2. ASSUME NEW rule \in Rules PROVE AddKeys(rule, {AuomsKey}) \in Rules
    BY <2>1, AddKeysIs
  <2>3. QED
    BY <1>5, <2>2
<1>8. DesiredOf(lines) = <<>> \o m
  BY <1>5, <1>6
<1> HIDE DEF m
<1>9. <<>> \o m = m /\ m \in Seq(Rules)
  BY <1>5, <1>7, EachType
<1>10. QED
  BY <1>8, <1>9

\* The kernel keeps a sound rule as it is.
LEMMA StoredIs ==
  ASSUME NEW rule \in Rules
  PROVE  Stored(rule) \in Rules /\ (Sound(rule) => Stored(rule) = rule)
BY DEF Stored, Rules, Sound

\* A rule is added to the kernel.
LEMMA AddToIs ==
  ASSUME NEW s \in Seq(Rules), NEW rule \in Rules
  PROVE  /\ AddTo(s, rule) \in Seq(Rules)
         /\ ToSet(AddTo(s, rule)) = ToSet(s) \cup {Stored(rule)}
<1> DEFINE r == Stored(rule)
<1>1. r \in Rules
  BY StoredIs
<1> HIDE DEF r
<1>2. CASE r \in ToSet(s)
  BY <1>2 DEF AddTo, r
<1>3. CASE r \notin ToSet(s) /\ rule.prepend
  <2>1. AddTo(s, rule) = <<r>> \o s
    BY <1>3 DEF AddTo, r
  <2>2. PICK c \in Seq(Rules) : c = <<r>> /\ ToSet(c) = {r}
    BY <1>1, Single
  <2>3. ToSet(c \o s) = ToSet(c) \cup ToSet(s) /\ c \o s \in Seq(Rules)
    BY SetOfConcat
  <2>4. QED
    BY <2>1, <2>2, <2>3 DEF r
<1>4. CASE r \notin ToSet(s) /\ ~rule.prepend
  <2>1. AddTo(s, rule) = Append(s, r)
    BY <1>4 DEF AddTo, r
  <2>2. Append(s, r) \in Seq(Rules) /\ ToSet(Append(s, r)) = ToSet(s) \cup {r}
    BY <1>1, SetOfAppend
  <2>3. QED
    BY <2>1, <2>2 DEF r
<1>5. QED
  BY <1>2, <1>3, <1>4

\* All rules of a list are.
LEMMA AddAll ==
  ASSUME NEW first \in Seq(Rules), NEW s \in Seq(Rules)
  PROVE  Fold(AddTo, first, s) \in Seq(Rules)
<1> DEFINE Is(f) == f = [n \in 0 .. Len(s) |->
                           IF n = 0 THEN first ELSE Once(f[n - 1], LAMBDA y : AddTo(y, s[n]))]
           step == [k \in 1 .. Len(s) |-> [y \in Seq(Rules) |-> AddTo(y, s[k])]]
           kept == CHOOSE f : Is(f)
<1>1. Len(s) \in Nat /\ \A k \in 1 .. Len(s) : s[k] \in Rules
  OBVIOUS
<1>2. \A k \in 1 .. Len(s) : \A y \in Seq(Rules) : step[k][y] = AddTo(y, s[k])
  OBVIOUS
<1> HIDE DEF step
<1>3. StaysIn(Seq(Rules), Len(s), step)
  BY <1>1, <1>2, AddToIs DEF StaysIn
<1>4. PICK g : Recurs(g, Len(s), Seq(Rules), first, step)
  BY <1>1, <1>3, Recursion
<1>5. ASSUME NEW n \in 0 .. Len(s)
      PROVE  g[n] = IF n = 0 THEN first ELSE Once(g[n - 1], LAMBDA y : AddTo(y, s[n]))
  <2>1. n # 0 => n \in 1 .. Len(s) /\ n - 1 \in 0 .. Len(s)
    OBVIOUS
  <2>2. n # 0 => g[n - 1] \in Seq(Rules)
    BY <1>4, <2>1 DEF Recurs
  <2>3. g[n] = IF n = 0 THEN first ELSE AddTo(g[n - 1], s[n])
    BY <1>2, <1>4, <2>1, <2>2 DEF Recurs
  <2>4. Once(g[n - 1], LAMBDA y : AddTo(y, s[n])) = AddTo(g[n - 1], s[n])
    BY DEF Once
  <2>5. QED
    BY <2>3, <2>4
<1>6. Is(g)
  <2>1. g \in [0 .. Len(s) -> Seq(Rules)]
    BY <1>4 DEF Recurs
  <2>2. QED
    BY <1>5, <2>1
<1>7. Is(kept)
  BY <1>6
<1>8. Fold(AddTo, first, s) = kept[Len(s)]
  BY DEF Fold, Once
<1> HIDE DEF kept
<1>9. \A n \in 0 .. Len(s) : kept[n] = IF n = 0 THEN first ELSE AddTo(kept[n - 1], s[n])
  <2>1. ASSUME NEW n \in 0 .. Len(s)
        PROVE  kept[n] = IF n = 0 THEN first ELSE AddTo(kept[n - 1], s[n])
    <3>1. kept[n] = IF n = 0 THEN first ELSE Once(kept[n - 1], LAMBDA y : AddTo(y, s[n]))
      BY <1>7
    <3>2. Once(kept[n - 1], LAMBDA y : AddTo(y, s[n])) = AddTo(kept[n - 1], s[n])
      BY DEF Once
    <3>3. QED
      BY <3>1, <3>2
  <2>2. QED
    BY <2>1
<1> DEFINE D == [n \in 0 .. Len(s) |-> Seq(Rules)]
<1>10. 0 \in 0 .. Len(s) /\ Len(s) \in 0 .. Len(s)
       /\ \A n \in 1 .. Len(s) : n \in 0 .. Len(s) /\ n - 1 \in 0 .. Len(s)
  BY <1>1
<1>11. kept[0] \in D[0]
  BY <1>9, <1>10
<1>12. ASSUME NEW n \in 1 .. Len(s), kept[n - 1] \in D[n - 1] PROVE kept[n] \in D[n]
  <2>1. kept[n - 1] \in Seq(Rules) /\ s[n] \in Rules
    BY <1>1, <1>10, <1>12
  <2>2. kept[n] = AddTo(kept[n - 1], s[n])
    BY <1>9, <1>10
  <2>3. QED
    BY <1>10, <2>1, <2>2, AddToIs
<1> HIDE DEF D
<1>13. \A n \in 0 .. Len(s) : kept[n] \in D[n]
  BY <1>1, <1>11, <1>12, Climb
<1>14. QED
  BY <1>8, <1>10, <1>13 DEF D

-----------------------------------------------------------------------------
(* The rules files *)

\* Lines of the administrator are no markers.
LEMMA AdminLinesAre ==
  ASSUME NEW s \in Seq(AdminLines)
  PROVE  /\ s \in Seq(Lines) /\ s \in Seq(Lines \ Markers)
         /\ \A k \in 1 .. Len(s) : s[k] \in AdminLines /\ s[k] \in Lines /\ s[k] \notin Markers
<1>1. AdminLines \subseteq Lines \ Markers
  BY WellFormed, OthersLines
<1>2. QED
  BY <1>1

\* The position of a line that occurs once.
LEMMA IndexOfIs ==
  ASSUME NEW s \in Seq(Lines), NEW line, NEW n \in 1 .. Len(s), s[n] = line,
         \A k \in 1 .. Len(s) : s[k] = line => k = n
  PROVE  IndexOf(s, line) = n
<1> DEFINE I == {i \in 1 .. Len(s) : s[i] = line}
<1>1. IndexOf(s, line) = IF I # {} THEN Min(I) ELSE 0
  BY DEF IndexOf, SelectInSeq
<1>2. I = {n}
  OBVIOUS
<1>3. Min(I) \in I
  <2>1. I \subseteq 1 .. Len(s) /\ Len(s) \in Nat
    OBVIOUS
  <2>2. I # {}
    BY <1>2
  <2> HIDE DEF I
  <2>3. QED
    BY <2>1, <2>2, MinOf
<1>4. QED
  BY <1>1, <1>2, <1>3

\* A line that does not occur has none.
LEMMA NoIndex ==
  ASSUME NEW s \in Seq(Lines), NEW line, \A k \in 1 .. Len(s) : s[k] # line
  PROVE  IndexOf(s, line) = 0
<1> DEFINE I == {i \in 1 .. Len(s) : s[i] = line}
<1>1. IndexOf(s, line) = IF I # {} THEN Min(I) ELSE 0
  BY DEF IndexOf, SelectInSeq
<1>2. I = {}
  OBVIOUS
<1>3. QED
  BY <1>1, <1>2

\* The last part is dropped.
LEMMA KeepDrop ==
  ASSUME NEW S, NEW s \in Seq(S), NEW t \in Seq(S), NEW I,
         \A k \in 1 .. Len(t) : Len(s) + k \notin I
  PROVE  KeepAt(s \o t, I) = KeepAt(s, I)
<1>1. KeepAt(s \o t, I) = KeepAt(s, I) \o KeepAt(t, {})
  BY KeepConcat
<1>2. KeepAt(t, {}) = <<>>
  <2>1. KeepAt(t, {}) \in Seq(S) /\ ToSet(KeepAt(t, {})) = {t[k] : k \in {} \cap 1 .. Len(t)}
    BY KeepType, KeepSet
  <2>2. ToSet(KeepAt(t, {})) = {}
    BY <2>1
  <2>3. QED
    BY <2>1, <2>2, SetOfNone
<1>3. KeepAt(s, I) \in Seq(S)
  BY KeepType
<1>4. QED
  BY <1>1, <1>2, <1>3

\* The last part is kept whole.
LEMMA KeepRest ==
  ASSUME NEW S, NEW s \in Seq(S), NEW t \in Seq(S), NEW I,
         \A k \in 1 .. Len(t) : Len(s) + k \in I
  PROVE  KeepAt(s \o t, I) = KeepAt(s, I) \o t
<1>1. \A k \in 1 .. Len(t) : k \in Nat <=> Len(s) + k \in I
  OBVIOUS
<1>2. KeepAt(s \o t, I) = KeepAt(s, I) \o KeepAt(t, Nat)
  BY <1>1, KeepConcat
<1>3. 1 .. Len(t) \subseteq Nat
  OBVIOUS
<1>4. KeepAt(t, Nat) = t
  BY <1>3, KeepAll
<1>5. QED
  BY <1>2, <1>4

\* A file with a section, between the lines P and Q.
Sectioned(P, T, Q) == P \o <<Marker("start")>> \o T \o <<Marker("end")>> \o Q

Unmarked == Seq(Lines \ Markers)

LEMMA MarkersAre ==
  /\ Marker("start") \in Lines /\ Marker("end") \in Lines /\ Marker("augenrules") \in Lines
  /\ Marker("start") \in Markers /\ Marker("end") \in Markers /\ Marker("augenrules") \in Markers
BY MarkerIs DEF MarkerNames

\* What is where in such a file.
Layout(u, P, T, Q) ==
  /\ u \in Seq(Lines) /\ Len(u) = Len(P) + Len(T) + Len(Q) + 2
  /\ \A k \in 1 .. Len(P) : u[k] = P[k]
  /\ u[Len(P) + 1] = Marker("start")
  /\ \A k \in 1 .. Len(T) : u[Len(P) + 1 + k] = T[k]
  /\ u[Len(P) + Len(T) + 2] = Marker("end")
  /\ \A k \in 1 .. Len(Q) : u[Len(P) + Len(T) + 2 + k] = Q[k]

Spliced(u, S, s, t) ==
  /\ u \in Seq(S) /\ Len(u) = Len(s) + Len(t)
  /\ \A k \in 1 .. Len(s) : u[k] = s[k]
  /\ \A k \in 1 .. Len(t) : u[Len(s) + k] = t[k]

\* Two sequences joined, position by position.
LEMMA ConcatIs ==
  ASSUME NEW S, NEW s \in Seq(S), NEW t \in Seq(S)
  PROVE  Spliced(s \o t, S, s, t)
BY DEF Spliced

\* A file with a section, position by position.
LEMMA SectionIs ==
  ASSUME NEW P \in Unmarked, NEW T \in Unmarked, NEW Q \in Unmarked
  PROVE  Layout(Sectioned(P, T, Q), P, T, Q)
<1> DEFINE s == <<Marker("start")>>
           e == <<Marker("end")>>
           a == P \o s
           b == a \o T
           c == b \o e
           d == c \o Q
<1>1. P \in Seq(Lines) /\ T \in Seq(Lines) /\ Q \in Seq(Lines)
  BY DEF Unmarked
<1>2. Len(P) \in Nat /\ Len(T) \in Nat /\ Len(Q) \in Nat
  BY <1>1
<1>3. s \in Seq(Lines) /\ Len(s) = 1 /\ s[1] = Marker("start")
  BY MarkersAre
<1>4. e \in Seq(Lines) /\ Len(e) = 1 /\ e[1] = Marker("end")
  BY MarkersAre
<1>9. Sectioned(P, T, Q) = d
  BY DEF Sectioned
<1> HIDE DEF s, e
<1>5. a \in Seq(Lines) /\ Spliced(a, Lines, P, s)
  <2>1. Spliced(a, Lines, P, s)
    BY <1>1, <1>3, ConcatIs
  <2>2. QED
    BY <2>1 DEF Spliced
<1> HIDE DEF a
<1>6. b \in Seq(Lines) /\ Spliced(b, Lines, a, T)
  <2>1. Spliced(b, Lines, a, T)
    BY <1>1, <1>5, ConcatIs
  <2>2. QED
    BY <2>1 DEF Spliced
<1> HIDE DEF b
<1>7. c \in Seq(Lines) /\ Spliced(c, Lines, b, e)
  <2>1. Spliced(c, Lines, b, e)
    BY <1>4, <1>6, ConcatIs
  <2>2. QED
    BY <2>1 DEF Spliced
<1> HIDE DEF c
<1>8. d \in Seq(Lines) /\ Spliced(d, Lines, c, Q)
  <2>1. Spliced(d, Lines, c, Q)
    BY <1>1, <1>7, ConcatIs
  <2>2. QED
    BY <2>1 DEF Spliced
<1> HIDE DEF d
<1>10. Len(a) = Len(P) + 1 /\ Len(b) = Len(P) + 1 + Len(T) /\ Len(c) = Len(P) + Len(T) + 2
  BY <1>2, <1>3, <1>4, <1>5, <1>6, <1>7 DEF Spliced
<1>11. Len(d) = Len(P) + Len(T) + Len(Q) + 2
  BY <1>2, <1>8, <1>10 DEF Spliced
<1>12. \A k \in 1 .. Len(a) : d[k] = a[k]
  BY <1>2, <1>6, <1>7, <1>8, <1>10 DEF Spliced
<1>13. \A k \in 1 .. Len(P) : d[k] = P[k]
  BY <1>2, <1>5, <1>10, <1>12 DEF Spliced
<1>14. d[Len(P) + 1] = Marker("start")
  BY <1>2, <1>3, <1>5, <1>10, <1>12 DEF Spliced
<1>15. \A k \in 1 .. Len(b) : d[k] = b[k]
  BY <1>2, <1>7, <1>8, <1>10 DEF Spliced
<1>16. \A k \in 1 .. Len(T) : d[Len(P) + 1 + k] = T[k]
  BY <1>2, <1>6, <1>10, <1>15 DEF Spliced
<1>17. d[Len(P) + Len(T) + 2] = Marker("end")
  BY <1>2, <1>4, <1>7, <1>8, <1>10 DEF Spliced
<1>18. \A k \in 1 .. Len(Q) : d[Len(P) + Len(T) + 2 + k] = Q[k]
  BY <1>2, <1>8, <1>10 DEF Spliced
<1>19. QED
  BY <1>8, <1>9, <1>11, <1>13, <1>14, <1>16, <1>17, <1>18 DEF Layout

\* Each marker is there once.
LEMMA SectionMarks ==
  ASSUME NEW P \in Unmarked, NEW T \in Unmarked, NEW Q \in Unmarked, NEW u, u = Sectioned(P, T, Q)
  PROVE  /\ \A k \in 1 .. Len(u) : u[k] = Marker("start") <=> k = Len(P) + 1
         /\ \A k \in 1 .. Len(u) : u[k] = Marker("end") <=> k = Len(P) + Len(T) + 2
         /\ \A k \in 1 .. Len(u) : u[k] # Marker("augenrules")
<1>1. /\ u \in Seq(Lines) /\ Len(u) = Len(P) + Len(T) + Len(Q) + 2
      /\ \A k \in 1 .. Len(P) : u[k] = P[k]
      /\ u[Len(P) + 1] = Marker("start")
      /\ \A k \in 1 .. Len(T) : u[Len(P) + 1 + k] = T[k]
      /\ u[Len(P) + Len(T) + 2] = Marker("end")
      /\ \A k \in 1 .. Len(Q) : u[Len(P) + Len(T) + 2 + k] = Q[k]
  <2>1. Layout(u, P, T, Q)
    BY SectionIs
  <2>2. QED
    BY <2>1 DEF Layout
<1>2. /\ \A k \in 1 .. Len(P) : P[k] \notin Markers
      /\ \A k \in 1 .. Len(T) : T[k] \notin Markers
      /\ \A k \in 1 .. Len(Q) : Q[k] \notin Markers
      /\ Len(P) \in Nat /\ Len(T) \in Nat /\ Len(Q) \in Nat
  BY DEF Unmarked
<1>3. ASSUME NEW k \in 1 .. Len(u), k # Len(P) + 1, k # Len(P) + Len(T) + 2 PROVE u[k] \notin Markers
  <2>1. CASE k <= Len(P)
    BY <1>1, <1>2, <2>1
  <2>2. CASE k > Len(P) + 1 /\ k < Len(P) + Len(T) + 2
    <3> DEFINE j == k - Len(P) - 1
    <3>1. j \in 1 .. Len(T) /\ k = Len(P) + 1 + j
      BY <1>2, <2>2
    <3> HIDE DEF j
    <3>2. QED
      BY <1>1, <1>2, <3>1
  <2>3. CASE k > Len(P) + Len(T) + 2
    <3> DEFINE j == k - Len(P) - Len(T) - 2
    <3>1. j \in 1 .. Len(Q) /\ k = Len(P) + Len(T) + 2 + j
      BY <1>1, <1>2, <2>3
    <3> HIDE DEF j
    <3>2. QED
      BY <1>1, <1>2, <3>1
  <2>4. QED
    BY <1>2, <1>3, <2>1, <2>2, <2>3
<1>4. Marker("augenrules") # Marker("end")
  <2>1. Option("augenrules", Bad) # Option("end", Bad)
    BY DEF Option
  <2>2. \A a, b : <<a>> = <<b>> => a = b
    OBVIOUS
  <2>3. QED
    BY <2>1, <2>2 DEF Marker
<1>5. QED
  BY <1>1, <1>2, <1>3, <1>4, MarkersAre, StartIsNot

\* A part of a sequence that equals another one.
LEMMA Slice ==
  ASSUME NEW S, NEW s \in Seq(S), NEW t \in Seq(S), NEW m \in Nat, NEW n \in Nat,
         m >= 1, n = m - 1 + Len(t), n <= Len(s), \A k \in 1 .. Len(t) : s[m - 1 + k] = t[k]
  PROVE  SubSeq(s, m, n) = t
<1> DEFINE u == SubSeq(s, m, n)
<1>1. Len(t) \in Nat /\ Len(s) \in Nat
  OBVIOUS
<1>2. \A i \in m .. n : s[i] \in S
  BY <1>1
<1>3. /\ u \in Seq(S) /\ Len(u) = (IF m <= n THEN n - m + 1 ELSE 0)
      /\ \A i \in 1 .. n - m + 1 : u[i] = s[m + i - 1]
  BY <1>2, SubSeqProperties
<1> HIDE DEF u
<1>4. Len(u) = Len(t) /\ n - m + 1 = Len(t)
  BY <1>1, <1>3
<1>5. \A k \in 1 .. Len(u) : u[k] = t[k]
  <2>1. ASSUME NEW k \in 1 .. Len(u) PROVE u[k] = t[k]
    <3>1. u[k] = s[m + k - 1] /\ m + k - 1 = m - 1 + k
      BY <1>1, <1>3, <1>4
    <3>2. QED
      BY <1>4, <3>1
  <2>2. QED
    BY <2>1
<1>6. u = t
  BY <1>3, <1>4, <1>5, SeqEqual
<1>7. QED
  BY <1>6 DEF u

\* The lines of a file that auoms has not generated: those of the administrator,
\* with at most one section of auoms.
Around(lines, P, Q) ==
  /\ P \in Seq(AdminLines) /\ Q \in Seq(AdminLines)
  /\ \/ lines = P /\ Q = <<>>
     \/ \E T \in Unmarked : lines = Sectioned(P, T, Q)

\* A file without a section.
LEMMA PlainLines ==
  ASSUME NEW P \in Seq(AdminLines)
  PROVE  /\ ~HasSection(P) /\ RemoveSection(P) = P /\ Outside(P) = P
         /\ \A k \in 1 .. Len(P) : P[k] # Marker("augenrules")
<1>1. /\ P \in Seq(Lines)
      /\ \A k \in 1 .. Len(P) : P[k] \notin Markers
  BY AdminLinesAre
<1>2. \A k \in 1 .. Len(P) : P[k] # Marker("start") /\ P[k] # Marker("augenrules")
  BY <1>1, MarkersAre
<1>3. IndexOf(P, Marker("start")) = 0
  BY <1>1, <1>2, NoIndex
<1>4. ~HasSection(P) /\ RemoveSection(P) = P
  BY <1>3 DEF HasSection, RemoveSection
<1> DEFINE In(i) == /\ \E j \in 1 .. i : P[j] = Marker("start")
                    /\ \E j \in i .. Len(P) : P[j] = Marker("end")
           I == {i \in DOMAIN P : ~In(i)}
<1>5. Outside(P) = KeepAt(P, I)
  BY DEF Outside
<1>6. 1 .. Len(P) \subseteq I
  <2>1. DOMAIN P = 1 .. Len(P) /\ Len(P) \in Nat
    BY <1>1
  <2>2. ASSUME NEW i \in 1 .. Len(P) PROVE ~In(i)
    <3>1. \A j \in 1 .. i : j \in 1 .. Len(P)
      BY <2>1
    <3>2. QED
      BY <1>2, <3>1
  <2>3. QED
    BY <2>1, <2>2
<1> HIDE DEF I
<1>7. KeepAt(P, I) = P
  BY <1>1, <1>6, KeepAll
<1>8. QED
  BY <1>2, <1>4, <1>5, <1>7

LEMMA UnmarkedAre ==
  ASSUME NEW P \in Seq(AdminLines)
  PROVE  P \in Unmarked /\ P \in Seq(Lines)
BY AdminLinesAre DEF Unmarked

\* RemoveSection finds the markers and leaves what is around them.
LEMMA SectionLines ==
  ASSUME NEW P \in Unmarked, NEW T \in Unmarked, NEW Q \in Unmarked, NEW u, u = Sectioned(P, T, Q)
  PROVE  /\ IndexOf(u, Marker("start")) = Len(P) + 1
         /\ RemoveSection(u) = P \o Q
<1>1. Layout(u, P, T, Q)
  BY SectionIs
<1>2. u \in Seq(Lines) /\ Len(u) = Len(P) + Len(T) + Len(Q) + 2
  BY <1>1 DEF Layout
<1>3. P \in Seq(Lines) /\ T \in Seq(Lines) /\ Q \in Seq(Lines)
  BY DEF Unmarked
<1>4. Len(P) \in Nat /\ Len(T) \in Nat /\ Len(Q) \in Nat
  BY <1>3
<1>5. /\ \A k \in 1 .. Len(u) : u[k] = Marker("start") <=> k = Len(P) + 1
      /\ \A k \in 1 .. Len(u) : u[k] = Marker("end") <=> k = Len(P) + Len(T) + 2
      /\ \A k \in 1 .. Len(u) : u[k] # Marker("augenrules")
  BY SectionMarks
<1> DEFINE n == Len(P) + 1
           m == Len(P) + Len(T) + 2
<1>6. n \in 1 .. Len(u) /\ m \in 1 .. Len(u)
  BY <1>2, <1>4
<1>7. /\ u[n] = Marker("start") /\ \A k \in 1 .. Len(u) : u[k] = Marker("start") => k = n
      /\ u[m] = Marker("end") /\ \A k \in 1 .. Len(u) : u[k] = Marker("end") => k = m
  BY <1>5, <1>6
<1> HIDE DEF n, m
<1>8. IndexOf(u, Marker("start")) = n
  BY <1>2, <1>6, <1>7, IndexOfIs
<1>9. IndexOf(u, Marker("end")) = m
  BY <1>2, <1>6, <1>7, IndexOfIs
<1>10. SubSeq(u, 1, n - 1) = P
  <2>1. n - 1 = 1 - 1 + Len(P) /\ n - 1 <= Len(u) /\ n - 1 \in Nat
    BY <1>2, <1>4 DEF n
  <2>2. \A k \in 1 .. Len(P) : u[1 - 1 + k] = P[k]
    BY <1>1 DEF Layout
  <2>3. QED
    BY <1>2, <1>3, <2>1, <2>2, Slice
<1>11. SubSeq(u, m + 1, Len(u)) = Q
  <2> DEFINE f == m + 1
             l == Len(u)
  <2>1. l = f - 1 + Len(Q) /\ f \in Nat /\ f >= 1 /\ l \in Nat /\ l <= Len(u)
    BY <1>2, <1>4 DEF m
  <2>2. \A k \in 1 .. Len(Q) : u[f - 1 + k] = Q[k]
    BY <1>1, <1>4 DEF Layout, m
  <2> HIDE DEF f, l
  <2>3. SubSeq(u, f, l) = Q
    BY <1>2, <1>3, <2>1, <2>2, Slice
  <2>4. QED
    BY <2>3 DEF f, l
<1>12. HasSection(u)
  BY <1>6, <1>8 DEF HasSection
<1>13. QED
  BY <1>8, <1>9, <1>10, <1>11, <1>12 DEF RemoveSection, n

\* What is outside of the section is what is around it.
LEMMA SectionOutside ==
  ASSUME NEW P \in Unmarked, NEW T \in Unmarked, NEW Q \in Unmarked, NEW u, u = Sectioned(P, T, Q)
  PROVE  Outside(u) = P \o Q
<1> DEFINE In(i) == /\ \E j \in 1 .. i : u[j] = Marker("start")
                    /\ \E j \in i .. Len(u) : u[j] = Marker("end")
           I == {i \in DOMAIN u : ~In(i)}
           s == <<Marker("start")>>
           e == <<Marker("end")>>
           a == P \o s
           b == a \o T
           c == b \o e
<1>1. Layout(u, P, T, Q)
  BY SectionIs
<1>2. u \in Seq(Lines) /\ Len(u) = Len(P) + Len(T) + Len(Q) + 2 /\ DOMAIN u = 1 .. Len(u)
  BY <1>1 DEF Layout
<1>3. P \in Seq(Lines) /\ T \in Seq(Lines) /\ Q \in Seq(Lines)
  BY DEF Unmarked
<1>4. Len(P) \in Nat /\ Len(T) \in Nat /\ Len(Q) \in Nat
  BY <1>3
<1>5. /\ \A k \in 1 .. Len(u) : u[k] = Marker("start") <=> k = Len(P) + 1
      /\ \A k \in 1 .. Len(u) : u[k] = Marker("end") <=> k = Len(P) + Len(T) + 2
      /\ \A k \in 1 .. Len(u) : u[k] # Marker("augenrules")
  BY SectionMarks
<1>6. Outside(u) = KeepAt(u, I)
  BY DEF Outside
<1>7. \A i \in 1 .. Len(u) : In(i) <=> Len(P) + 1 <= i /\ i <= Len(P) + Len(T) + 2
  <2>1. ASSUME NEW i \in 1 .. Len(u) PROVE (\E j \in 1 .. i : u[j] = Marker("start")) <=> Len(P) + 1 <= i
    <3>1. \A j \in 1 .. i : j \in 1 .. Len(u)
      BY <1>2, <1>4
    <3>2. Len(P) + 1 <= i => Len(P) + 1 \in 1 .. i
      BY <1>2, <1>4
    <3>3. QED
      BY <1>4, <1>5, <3>1, <3>2
  <2>2. ASSUME NEW i \in 1 .. Len(u)
        PROVE  (\E j \in i .. Len(u) : u[j] = Marker("end")) <=> i <= Len(P) + Len(T) + 2
    <3>1. \A j \in i .. Len(u) : j \in 1 .. Len(u)
      BY <1>2, <1>4
    <3>2. i <= Len(P) + Len(T) + 2 => Len(P) + Len(T) + 2 \in i .. Len(u)
      BY <1>2, <1>4
    <3>3. QED
      BY <1>4, <1>5, <3>1, <3>2
  <2>3. QED
    BY <2>1, <2>2
<1>8. \A i \in 1 .. Len(u) : i \in I <=> i < Len(P) + 1 \/ i > Len(P) + Len(T) + 2
  <2> HIDE DEF In
  <2>1. \A i \in 1 .. Len(u) : i \in I <=> ~In(i)
    BY <1>2
  <2>2. QED
    BY <1>2, <1>4, <1>7, <2>1
<1>9. u = c \o Q
  BY DEF Sectioned
<1>10. s \in Seq(Lines) /\ Len(s) = 1 /\ e \in Seq(Lines) /\ Len(e) = 1
  BY MarkersAre
<1> HIDE DEF I, s, e
<1>11. a \in Seq(Lines) /\ Len(a) = Len(P) + 1
  <2>1. Spliced(a, Lines, P, s)
    BY <1>3, <1>10, ConcatIs
  <2>2. QED
    BY <1>10, <2>1 DEF Spliced
<1> HIDE DEF a
<1>12. b \in Seq(Lines) /\ Len(b) = Len(P) + Len(T) + 1
  <2>1. Spliced(b, Lines, a, T)
    BY <1>3, <1>11, ConcatIs
  <2>2. Len(b) = Len(a) + Len(T) /\ b \in Seq(Lines)
    BY <2>1 DEF Spliced
  <2>3. QED
    BY <1>4, <1>11, <2>2
<1> HIDE DEF b
<1>13. c \in Seq(Lines) /\ Len(c) = Len(P) + Len(T) + 2
  <2>1. Spliced(c, Lines, b, e)
    BY <1>10, <1>12, ConcatIs
  <2>2. Len(c) = Len(b) + Len(e) /\ c \in Seq(Lines)
    BY <2>1 DEF Spliced
  <2>3. QED
    BY <1>4, <1>10, <1>12, <2>2
<1> HIDE DEF c
<1>14. \A k \in 1 .. Len(Q) : Len(c) + k \in I
  BY <1>2, <1>4, <1>8, <1>13
<1>15. KeepAt(c \o Q, I) = KeepAt(c, I) \o Q
  BY <1>3, <1>13, <1>14, KeepRest
<1>16. KeepAt(c, I) = KeepAt(b, I)
  <2>1. \A k \in 1 .. Len(e) : Len(b) + k \notin I
    <3>1. ASSUME NEW k \in 1 .. Len(e) PROVE Len(b) + k \notin I
      <4>1. Len(b) + k = Len(P) + Len(T) + 2 /\ Len(b) + k \in 1 .. Len(u)
        BY <1>2, <1>4, <1>10, <1>12
      <4>2. QED
        BY <1>4, <1>8, <4>1
    <3>2. QED
      BY <3>1
  <2>2. KeepAt(b \o e, I) = KeepAt(b, I)
    BY <1>10, <1>12, <2>1, KeepDrop
  <2>3. QED
    BY <2>2 DEF c
<1>17. KeepAt(b, I) = KeepAt(a, I)
  <2>1. \A k \in 1 .. Len(T) : Len(a) + k \notin I
    BY <1>2, <1>4, <1>8, <1>11
  <2>2. KeepAt(a \o T, I) = KeepAt(a, I)
    BY <1>3, <1>11, <2>1, KeepDrop
  <2>3. QED
    BY <2>2 DEF b
<1>18. KeepAt(a, I) = KeepAt(P, I)
  <2>1. \A k \in 1 .. Len(s) : Len(P) + k \notin I
    BY <1>2, <1>4, <1>8, <1>10
  <2>2. KeepAt(P \o s, I) = KeepAt(P, I)
    BY <1>3, <1>10, <2>1, KeepDrop
  <2>3. QED
    BY <2>2 DEF a
<1>19. KeepAt(P, I) = P
  <2>1. 1 .. Len(P) \subseteq I
    BY <1>2, <1>4, <1>8
  <2>2. QED
    BY <1>3, <2>1, KeepAll
<1>20. QED
  BY <1>6, <1>9, <1>15, <1>16, <1>17, <1>18, <1>19

\* What RemoveSection and ReplaceSection leave of the administrator's lines.
LEMMA AroundIs ==
  ASSUME NEW lines, NEW P, NEW Q, Around(lines, P, Q)
  PROVE  /\ P \in Seq(AdminLines) /\ Q \in Seq(AdminLines) /\ P \o Q \in Seq(AdminLines)
         /\ lines \in Seq(Lines)
         /\ RemoveSection(lines) = P \o Q /\ Outside(lines) = P \o Q
         /\ lines # <<>> => lines[1] # Marker("augenrules")
<1>1. P \in Seq(AdminLines) /\ Q \in Seq(AdminLines)
  BY DEF Around
<1>2. P \o Q \in Seq(AdminLines)
  BY <1>1
<1>3. P \in Unmarked /\ Q \in Unmarked /\ P \in Seq(Lines)
  BY <1>1, UnmarkedAre
<1>4. CASE lines = P /\ Q = <<>>
  <2>1. P \o Q = P
    BY <1>1, <1>4
  <2>2. /\ RemoveSection(P) = P /\ Outside(P) = P
        /\ \A k \in 1 .. Len(P) : P[k] # Marker("augenrules")
    BY <1>1, PlainLines
  <2>3. P # <<>> => 1 \in 1 .. Len(P)
    BY <1>1
  <2>4. QED
    BY <1>1, <1>2, <1>3, <1>4, <2>1, <2>2, <2>3
<1>5. ASSUME NEW T \in Unmarked, lines = Sectioned(P, T, Q)
      PROVE  /\ lines \in Seq(Lines)
             /\ RemoveSection(lines) = P \o Q /\ Outside(lines) = P \o Q
             /\ lines[1] # Marker("augenrules")
  <2>1. RemoveSection(lines) = P \o Q
    BY <1>3, <1>5, SectionLines
  <2>2. Outside(lines) = P \o Q
    BY <1>3, <1>5, SectionOutside
  <2>3. Layout(lines, P, T, Q)
    BY <1>3, <1>5, SectionIs
  <2>4. lines \in Seq(Lines) /\ Len(lines) = Len(P) + Len(T) + Len(Q) + 2
    BY <2>3 DEF Layout
  <2>5. Len(P) \in Nat /\ Len(T) \in Nat /\ Len(Q) \in Nat
    BY <1>3, <1>5 DEF Unmarked
  <2>6. 1 \in 1 .. Len(lines)
    BY <2>4, <2>5
  <2>7. /\ \A k \in 1 .. Len(lines) : lines[k] = Marker("start") <=> k = Len(P) + 1
        /\ \A k \in 1 .. Len(lines) : lines[k] = Marker("end") <=> k = Len(P) + Len(T) + 2
        /\ \A k \in 1 .. Len(lines) : lines[k] # Marker("augenrules")
    BY <1>3, <1>5, SectionMarks
  <2>8. QED
    BY <2>1, <2>2, <2>4, <2>6, <2>7
<1>6. QED
  BY <1>1, <1>2, <1>4, <1>5 DEF Around

\* A file without a section.
LEMMA PlainAround ==
  ASSUME NEW P \in Seq(AdminLines)
  PROVE  Around(P, P, <<>>) /\ P \o <<>> = P
BY DEF Around

\* A file with at most one section, and these lines outside of it.
Leaves(u, lines) == \E p, q : Around(u, p, q) /\ p \o q = lines

\* A file with at most one section.
Tidy(u) == \E p, q : Around(u, p, q)

\* The section is written, replaced or removed: the other lines stay.
LEMMA ReplaceAround ==
  ASSUME NEW lines, NEW P, NEW Q, Around(lines, P, Q), NEW texts \in Unmarked
  PROVE  Leaves(ReplaceSection(lines, texts), P \o Q)
<1>1. /\ P \in Seq(AdminLines) /\ Q \in Seq(AdminLines) /\ P \o Q \in Seq(AdminLines)
      /\ lines \in Seq(Lines) /\ RemoveSection(lines) = P \o Q
  BY AroundIs
<1>2. P \in Unmarked /\ Q \in Unmarked /\ P \in Seq(Lines) /\ Q \in Seq(Lines) /\ P \o Q \in Seq(Lines)
  BY <1>1, UnmarkedAre
<1> DEFINE at == IF HasSection(lines) THEN IndexOf(lines, Marker("start")) - 1 ELSE Len(lines)
           rest == P \o Q
<1>3. CASE texts = <<>>
  <2>1. ReplaceSection(lines, texts) = P \o Q
    BY <1>1, <1>3 DEF ReplaceSection
  <2>2. Around(P \o Q, P \o Q, <<>>) /\ (P \o Q) \o <<>> = P \o Q
    BY <1>1, PlainAround
  <2>3. QED
    BY <2>1, <2>2 DEF Leaves
<1>4. CASE texts # <<>>
  <2>1. ReplaceSection(lines, texts) =
          SubSeq(rest, 1, at) \o <<Marker("start")>> \o texts \o <<Marker("end")>>
             \o SubSeq(rest, at + 1, Len(rest))
    BY <1>1, <1>4 DEF ReplaceSection
  <2> HIDE DEF at, rest
  <2>2. Len(P) \in Nat /\ Len(Q) \in Nat /\ Spliced(rest, Lines, P, Q)
    BY <1>2, ConcatIs DEF rest
  <2>3. /\ rest \in Seq(Lines) /\ Len(rest) = Len(P) + Len(Q)
        /\ \A k \in 1 .. Len(P) : rest[k] = P[k]
        /\ \A k \in 1 .. Len(Q) : rest[Len(P) + k] = Q[k]
    BY <2>2 DEF Spliced
  <2>4. at = Len(P)
    <3>1. CASE lines = P /\ Q = <<>>
      <4>1. ~HasSection(P)
        BY <1>1, PlainLines
      <4>2. QED
        BY <3>1, <4>1 DEF at
    <3>2. CASE \E T \in Unmarked : lines = Sectioned(P, T, Q)
      <4>1. PICK T \in Unmarked : lines = Sectioned(P, T, Q)
        BY <3>2
      <4>2. IndexOf(lines, Marker("start")) = Len(P) + 1
        BY <1>2, <4>1, SectionLines
      <4>3. QED
        BY <2>2, <4>2 DEF at, HasSection
    <3>3. QED
      BY <3>1, <3>2 DEF Around
  <2>5. SubSeq(rest, 1, at) = P
    <3>1. at = 1 - 1 + Len(P) /\ at <= Len(rest) /\ at \in Nat
      BY <2>2, <2>3, <2>4
    <3>2. \A k \in 1 .. Len(P) : rest[1 - 1 + k] = P[k]
      BY <2>3
    <3>3. QED
      BY <1>2, <2>3, <3>1, <3>2, Slice
  <2>6. SubSeq(rest, at + 1, Len(rest)) = Q
    <3> DEFINE f == at + 1
               l == Len(rest)
    <3>1. l = f - 1 + Len(Q) /\ f \in Nat /\ f >= 1 /\ l \in Nat /\ l <= Len(rest)
      BY <2>2, <2>3, <2>4
    <3>2. \A k \in 1 .. Len(Q) : rest[f - 1 + k] = Q[k]
      BY <2>2, <2>3, <2>4
    <3> HIDE DEF f, l
    <3>3. SubSeq(rest, f, l) = Q
      BY <1>2, <2>3, <3>1, <3>2, Slice
    <3>4. QED
      BY <3>3 DEF f, l
  <2>7. ReplaceSection(lines, texts) = Sectioned(P, texts, Q)
    BY <2>1, <2>5, <2>6 DEF Sectioned
  <2>8. Around(ReplaceSection(lines, texts), P, Q)
    BY <1>1, <2>7 DEF Around
  <2>9. QED
    BY <2>8 DEF Leaves
<1>5. QED
  BY <1>3, <1>4

\* The administrator adds a line at the end.
LEMMA AppendAround ==
  ASSUME NEW lines, NEW P, NEW Q, Around(lines, P, Q), NEW line \in AdminLines
  PROVE  Tidy(Append(lines, line))
<1>1. P \in Seq(AdminLines) /\ Q \in Seq(AdminLines)
  BY DEF Around
<1>2. CASE lines = P /\ Q = <<>>
  <2>1. Append(P, line) \in Seq(AdminLines)
    BY <1>1
  <2>2. Around(Append(P, line), Append(P, line), <<>>) /\ Append(P, line) \o <<>> = Append(P, line)
    BY <2>1, PlainAround
  <2>3. QED
    BY <1>2, <2>2 DEF Tidy
<1>3. ASSUME NEW T \in Unmarked, lines = Sectioned(P, T, Q)
      PROVE  Tidy(Append(lines, line))
  <2> DEFINE c == P \o <<Marker("start")>> \o T \o <<Marker("end")>>
  <2>1. P \in Seq(Lines) /\ T \in Seq(Lines) /\ Q \in Seq(Lines) /\ line \in Lines
    BY <1>1, UnmarkedAre, WellFormed DEF Unmarked
  <2>2. c \in Seq(Lines)
    BY <2>1, MarkersAre
  <2>3. lines = c \o Q
    BY <1>3 DEF Sectioned
  <2> HIDE DEF c
  <2>4. c \o Append(Q, line) = Append(c \o Q, line)
    BY <2>1, <2>2, ConcatAppend
  <2>5. Append(Q, line) \in Seq(AdminLines)
    BY <1>1
  <2>6. Append(lines, line) = Sectioned(P, T, Append(Q, line))
    BY <2>3, <2>4 DEF Sectioned, c
  <2>7. Around(Append(lines, line), P, Append(Q, line))
    BY <1>1, <1>3, <2>5, <2>6 DEF Around
  <2>8. QED
    BY <2>7 DEF Tidy
<1>4. QED
  BY <1>2, <1>3 DEF Around

-----------------------------------------------------------------------------
(* The inductive invariant *)

Types ==
  /\ conf \in Confs
  /\ kernel \in Seq(Rules) /\ desired \in Seq(Rules) /\ rules \in Seq(Rules) /\ todo \in Seq(Rules)
  /\ main \in Seq(Lines) /\ dir \in Seq(AdminLines) /\ own \in Unmarked
  /\ locked \in BOOLEAN /\ calm \in BOOLEAN /\ stuck \in BOOLEAN

\* The file is the administrator's with at most one section, or augenrules wrote it.
Section == Generated \/ Tidy(main)

\* What augenrules wrote is what is in rules.d, unless that has changed since.
Current ==
  /\ Generated /\ ~stuck => main = <<Marker("augenrules")>> \o dir \o own
  /\ pc = "augenrules" => Generated

\* The desired rules do not change once they are read.
Steady ==
  /\ calm => ~locked /\ desired # <<>>
  /\ desired # <<>> => desired = DesiredOf(conf)

\* What the administrator's rules selected when the check began is still
\* selected by one of them, or is desired.
Keeps == calm /\ AllSound(desired) => before \subseteq Covered(desired) \cup Covered(Others(kernel))

Quiet == calm /\ AllSound(desired) /\ AllSound(kernel)

\* What the list of the check says of the kernel's rules at each point of it.
Check ==
  /\ pc = "status" /\ calm => rules = kernel
  /\ pc = "delete" => \A rule \in ToSet(todo) : DeleteIt(rule, desired)
  /\ pc = "add" /\ Quiet => AllSound(todo) /\ HasAll(ToSet(kernel) \cup ToSet(todo), desired)
  /\ pc \in {"sleep", "files", "write", "augenrules", "list"} /\ Quiet => HasAll(ToSet(kernel), desired)
  /\ pc \in {"sleep", "files", "write", "augenrules", "list", "status", "delete", "add",
             "ended", "disabled"}

IInv == Types /\ Section /\ Current /\ Steady /\ Keeps /\ Check

\* What hardly any step changes.
LEMMA FilesStay ==
  ASSUME IInv, UNCHANGED <<files, stuck>>, pc' = "augenrules" => pc = "augenrules"
  PROVE  Section' /\ Current'
BY DEF IInv, Section, Current, Generated, files

\* After a fault or somebody's change the check promises nothing any more.
LEMMA Uncalm ==
  ASSUME IInv, UNCHANGED <<conf, desired>>, calm' = FALSE,
         pc' = "delete" => pc = "delete" /\ ToSet(todo') \subseteq ToSet(todo),
         pc' \in {"sleep", "files", "write", "augenrules", "list", "status", "delete", "add",
                  "ended", "disabled"}
  PROVE  Steady' /\ Keeps' /\ Check'
<1>1. Steady'
  BY DEF IInv, Steady
<1>2. Keeps'
  BY DEF Keeps
<1>3. Check'
  BY DEF IInv, Check, Quiet
<1>4. QED
  BY <1>1, <1>2, <1>3

\* A step between two points at which no check of the kernel's rules runs.
LEMMA Idles ==
  ASSUME IInv, UNCHANGED <<conf, kernel, locked, desired, calm, before>>,
         pc \in {"sleep", "files", "write", "augenrules", "list"},
         pc' \in {"sleep", "files", "write", "augenrules", "list"}
  PROVE  Steady' /\ Keeps' /\ Check'
<1>1. Steady'
  BY DEF IInv, Steady
<1>2. Keeps'
  BY DEF IInv, Keeps
<1>3. Check'
  BY DEF IInv, Check, Quiet
<1>4. QED
  BY <1>1, <1>2, <1>3

LEMMA HeadTail ==
  ASSUME NEW s \in Seq(Rules), s # <<>>
  PROVE  /\ Head(s) \in Rules /\ Tail(s) \in Seq(Rules)
         /\ ToSet(s) = {Head(s)} \cup ToSet(Tail(s))
<1>1. /\ Len(s) \in Nat /\ Len(s) >= 1 /\ DOMAIN s = 1 .. Len(s) /\ Head(s) = s[1]
      /\ Head(s) \in Rules /\ Tail(s) \in Seq(Rules) /\ Len(Tail(s)) = Len(s) - 1
      /\ DOMAIN Tail(s) = 1 .. Len(s) - 1
      /\ \A i \in 1 .. Len(s) - 1 : Tail(s)[i] = s[i + 1]
  OBVIOUS
<1>2. ASSUME NEW x \in ToSet(s) PROVE x \in {Head(s)} \cup ToSet(Tail(s))
  <2>1. PICK i \in 1 .. Len(s) : x = s[i]
    BY <1>1 DEF ToSet
  <2>2. CASE i = 1
    BY <1>1, <2>1, <2>2
  <2>3. CASE i # 1
    <3>1. i - 1 \in 1 .. Len(s) - 1 /\ i - 1 + 1 = i
      BY <1>1, <2>3
    <3>2. Tail(s)[i - 1] = x
      BY <1>1, <2>1, <3>1
    <3>3. QED
      BY <1>1, <3>1, <3>2 DEF ToSet
  <2>4. QED
    BY <2>2, <2>3
<1>3. Head(s) \in ToSet(s)
  <2>1. 1 \in DOMAIN s
    BY <1>1
  <2>2. QED
    BY <1>1, <2>1 DEF ToSet
<1>4. ASSUME NEW x \in ToSet(Tail(s)) PROVE x \in ToSet(s)
  <2>1. PICK i \in 1 .. Len(s) - 1 : x = s[i + 1]
    BY <1>1 DEF ToSet
  <2>2. i + 1 \in DOMAIN s
    BY <1>1
  <2>3. QED
    BY <2>1, <2>2 DEF ToSet
<1>5. QED
  BY <1>1, <1>2, <1>3, <1>4

\* What is read from the files.
LEMMA ActualIs ==
  ASSUME Types, Section, NEW x \in BOOLEAN
  PROVE  /\ ActualLines(x) \in Seq(Lines)
         /\ ParseRules(ActualLines(x)) \in Seq(Rules)
         /\ ReadActualAuditdRules(x) \in Seq(Rules)
<1>1. dir \o own \in Seq(Lines)
  <2>1. dir \in Seq(Lines) /\ own \in Seq(Lines)
    BY UnmarkedAre DEF Types, Unmarked
  <2>2. QED
    BY <2>1
<1>2. ~Generated => RemoveSection(main) \in Seq(Lines)
  <2>1. ASSUME ~Generated PROVE RemoveSection(main) \in Seq(Lines)
    <3>1. PICK P, Q : Around(main, P, Q)
      BY <2>1 DEF Section, Tidy
    <3>2. RemoveSection(main) \in Seq(AdminLines)
      <4>1. P \o Q \in Seq(AdminLines) /\ RemoveSection(main) = P \o Q
        BY <3>1, AroundIs
      <4>2. QED
        BY <4>1
    <3>3. QED
      BY <3>2, UnmarkedAre
  <2>2. QED
    BY <2>1
<1>3. ActualLines(x) \in Seq(Lines)
  BY <1>1, <1>2 DEF ActualLines, Types
<1>4. ParseRules(ActualLines(x)) \in Seq(Rules)
  BY <1>3, ParseRulesIs
<1>5. NotAuoms(ParseRules(ActualLines(x))) \in Seq(Rules)
  BY <1>4, NotAuomsIs
<1>6. QED
  BY <1>3, <1>4, <1>5, MergeType DEF ReadActualAuditdRules

\* What auoms writes, of the rules that the files lack.
LEMMA WrittenIs ==
  ASSUME Types, Section, NEW wanted \in Seq(Rules)
  PROVE  Texts(DiffRules(ReadActualAuditdRules(TRUE), wanted)) \in Unmarked
<1>1. ReadActualAuditdRules(TRUE) \in Seq(Rules)
  BY ActualIs
<1>2. DiffRules(ReadActualAuditdRules(TRUE), wanted) \in Seq(Rules)
  BY <1>1, DiffRulesIs
<1>3. QED
  BY <1>2, TextsAre DEF Unmarked

\* What augenrules writes begins with its header.
LEMMA HeaderIs ==
  ASSUME NEW d \in Seq(Lines), NEW o \in Seq(Lines), NEW m, m = <<Marker("augenrules")>> \o d \o o
  PROVE  m \in Seq(Lines) /\ m # <<>> /\ m[1] = Marker("augenrules")
<1> DEFINE h == <<Marker("augenrules")>>
<1>1. h \in Seq(Lines) /\ Len(h) = 1 /\ h[1] = Marker("augenrules")
  BY MarkersAre
<1>2. m = h \o d \o o
  OBVIOUS
<1> HIDE DEF h
<1>3. Spliced(h \o d, Lines, h, d)
  BY <1>1, ConcatIs
<1>4. h \o d \in Seq(Lines) /\ Len(h \o d) = 1 + Len(d) /\ (h \o d)[1] = Marker("augenrules")
  <2>1. 1 \in 1 .. Len(h)
    BY <1>1
  <2>2. QED
    BY <1>1, <1>3, <2>1 DEF Spliced
<1> DEFINE a == h \o d
<1> HIDE DEF a
<1>5. a \in Seq(Lines) /\ Len(a) = 1 + Len(d) /\ a[1] = Marker("augenrules") /\ m = a \o o
  BY <1>2, <1>4 DEF a
<1>6. Spliced(a \o o, Lines, a, o)
  BY <1>5, ConcatIs
<1>7. Len(d) \in Nat /\ Len(o) \in Nat
  OBVIOUS
<1>8. 1 \in 1 .. Len(a)
  BY <1>5, <1>7
<1>9. m \in Seq(Lines) /\ Len(m) = 1 + Len(d) + Len(o) /\ m[1] = Marker("augenrules")
  BY <1>5, <1>6, <1>8 DEF Spliced
<1>10. m # <<>>
  BY <1>7, <1>9
<1>11. QED
  BY <1>9, <1>10

\* The invariant holds at first.
LEMMA Begins ==
  ASSUME Init
  PROVE  IInv
<1>1. conf \in Confs /\ main \in {<<>>, <<Marker("augenrules")>>}
  BY DEF Init
<1>2. /\ kernel = <<>> /\ desired = <<>> /\ rules = <<>> /\ todo = <<>> /\ dir = <<>> /\ own = <<>>
      /\ locked = FALSE /\ calm = FALSE /\ stuck = FALSE /\ pc = "sleep"
  BY DEF Init
<1>3. Types
  <2>1. <<>> \in Seq(Lines) /\ <<Marker("augenrules")>> \in Seq(Lines)
    BY MarkersAre
  <2>2. /\ kernel \in Seq(Rules) /\ desired \in Seq(Rules) /\ rules \in Seq(Rules)
        /\ todo \in Seq(Rules) /\ dir \in Seq(AdminLines)
    BY <1>2
  <2>3. own \in Unmarked
    BY <1>2 DEF Unmarked
  <2>4. main \in Seq(Lines)
    BY <1>1, <2>1
  <2>5. QED
    BY <1>1, <1>2, <2>2, <2>3, <2>4 DEF Types
<1>4. Section
  <2>1. CASE main = <<>>
    <3>1. Around(<<>>, <<>>, <<>>) /\ <<>> \o <<>> = <<>>
      <4>1. <<>> \in Seq(AdminLines)
        OBVIOUS
      <4>2. QED
        BY <4>1, PlainAround
    <3>2. QED
      BY <2>1, <3>1 DEF Section, Tidy
  <2>2. CASE main = <<Marker("augenrules")>>
    BY <2>2 DEF Section, Generated
  <2>3. QED
    BY <1>1, <2>1, <2>2
<1>5. Current
  <2>1. Generated => main = <<Marker("augenrules")>>
    BY <1>1 DEF Generated
  <2>2. <<Marker("augenrules")>> \o <<>> \o <<>> = <<Marker("augenrules")>>
    OBVIOUS
  <2>3. QED
    BY <1>2, <2>1, <2>2 DEF Current
<1>6. Steady /\ Keeps /\ Check
  BY <1>2 DEF Steady, Keeps, Check, Quiet
<1>7. QED
  BY <1>3, <1>4, <1>5, <1>6 DEF IInv

LEMMA ConfLines ==
  ASSUME conf \in Confs
  PROVE  DesiredOf(conf) \in Seq(Rules)
BY DesiredIs, WellFormed

\* Each step of the monitor preserves the invariant.
LEMMA WakeKeeps ==
  ASSUME IInv, Wake
  PROVE  IInv'
<1>1. Types'
  BY DEF IInv, Types, Wake, files, local
<1>2. Section' /\ Current'
  BY FilesStay DEF Wake
<1>3. Steady' /\ Keeps' /\ Check'
  <2>1. /\ UNCHANGED <<conf, kernel, locked, desired, calm, before>>
        /\ pc = "sleep" /\ pc' \in {"files", "list"}
    BY DEF Wake
  <2>2. QED
    BY <2>1, Idles
<1>4. QED
  BY <1>1, <1>2, <1>3 DEF IInv

LEMMA GetDesiredRulesKeeps ==
  ASSUME IInv, GetDesiredRules
  PROVE  IInv'
<1>1. /\ UNCHANGED <<conf, kernel, locked, rules, todo, calm, before, stuck, files>>
      /\ desired' = DesiredOf(conf) /\ pc = "sleep" /\ pc' \in {"files", "list"}
  BY DEF GetDesiredRules, local
<1>2. Types'
  BY <1>1, ConfLines DEF IInv, Types, files
<1>3. Section' /\ Current'
  BY <1>1, FilesStay
<1>4. calm => desired' = desired
  BY <1>1 DEF IInv, Steady
<1>5. Steady'
  BY <1>1, <1>4 DEF IInv, Steady
<1>6. Keeps' /\ Check'
  BY <1>1, <1>4 DEF IInv, Keeps, Check, Quiet
<1>7. QED
  BY <1>2, <1>3, <1>5, <1>6 DEF IInv

LEMMA CheckFilesKeeps ==
  ASSUME IInv, CheckFiles
  PROVE  IInv'
<1>1. /\ UNCHANGED <<conf, kernel, locked, desired, rules, todo, calm, before, stuck, files>>
      /\ pc = "files" /\ pc' \in {"list", "write"}
  BY DEF CheckFiles, local
<1>2. Types'
  BY <1>1 DEF IInv, Types, files
<1>3. Section' /\ Current'
  BY <1>1, FilesStay
<1>4. Steady' /\ Keeps' /\ Check'
  BY <1>1, Idles
<1>5. QED
  BY <1>2, <1>3, <1>4 DEF IInv

\* The file of auoms and its section are written; augenrules has not run yet.
LEMMA Written ==
  ASSUME Types, Section, NEW wanted \in Seq(Rules), NEW texts,
         texts = Texts(DiffRules(ReadActualAuditdRules(TRUE), wanted)),
         own' = texts, main' = (IF Generated THEN main ELSE ReplaceSection(main, texts)),
         dir' = dir
  PROVE  /\ own' \in Unmarked /\ main' \in Seq(Lines) /\ dir' \in Seq(AdminLines)
         /\ Generated' <=> Generated
         /\ Section'
         /\ ~Generated => Outside(main') = Outside(main)
<1>1. texts \in Unmarked
  BY WrittenIs
<1>2. CASE Generated
  <2>1. main' = main
    BY <1>2
  <2>2. QED
    BY <1>1, <1>2, <2>1 DEF Types, Section, Generated
<1>3. CASE ~Generated
  <2>1. PICK P, Q : Around(main, P, Q)
    BY <1>3 DEF Section, Tidy
  <2>2. main' = ReplaceSection(main, texts)
    BY <1>3
  <2>3. Leaves(ReplaceSection(main, texts), P \o Q)
    BY <1>1, <2>1, ReplaceAround
  <2>4. PICK p, q : Around(main', p, q) /\ p \o q = P \o Q
    BY <2>2, <2>3 DEF Leaves
  <2>5. main' \in Seq(Lines) /\ Outside(main') = p \o q /\ (main' # <<>> => main'[1] # Marker("augenrules"))
    BY <2>4, AroundIs
  <2>6. Outside(main) = P \o Q
    BY <2>1, AroundIs
  <2>7. Section'
    BY <2>4 DEF Section, Tidy
  <2>8. ~Generated'
    BY <2>5 DEF Generated
  <2>9. QED
    BY <1>1, <1>3, <2>4, <2>5, <2>6, <2>7, <2>8 DEF Types
<1>4. QED
  BY <1>2, <1>3

LEMMA WriteFilesKeeps ==
  ASSUME IInv, WriteFiles
  PROVE  IInv'
<1> DEFINE texts == Texts(DiffRules(ReadActualAuditdRules(TRUE), desired))
<1>1. /\ UNCHANGED <<conf, kernel, locked, desired, rules, todo, calm, before>>
      /\ pc = "write" /\ pc' = (IF Generated THEN "augenrules" ELSE "list")
      /\ stuck' = (stuck \/ Generated)
      /\ WriteAuditdRules(DiffRules(ReadActualAuditdRules(TRUE), desired))
  BY DEF WriteFiles, local
<1>2. /\ own' = texts /\ main' = (IF Generated THEN main ELSE ReplaceSection(main, texts))
      /\ dir' = dir
  BY <1>1 DEF WriteAuditdRules
<1> HIDE DEF texts
<1>3. Types /\ Section /\ desired \in Seq(Rules)
  BY DEF IInv, Types
<1>4. /\ own' \in Unmarked /\ main' \in Seq(Lines) /\ dir' \in Seq(AdminLines)
      /\ Generated' <=> Generated
      /\ Section'
  <2>1. texts = Texts(DiffRules(ReadActualAuditdRules(TRUE), desired))
    BY DEF texts
  <2>2. QED
    BY <1>2, <1>3, <2>1, Written
<1>5. Types'
  BY <1>1, <1>3, <1>4 DEF Types
<1>6. Current'
  BY <1>1, <1>4 DEF Current
<1>7. Steady' /\ Keeps' /\ Check'
  BY <1>1, Idles
<1>8. QED
  BY <1>4, <1>5, <1>6, <1>7 DEF IInv

LEMMA RunAugenrulesKeeps ==
  ASSUME IInv, RunAugenrules
  PROVE  IInv'
<1>1. /\ UNCHANGED <<conf, kernel, locked, desired, rules, todo, calm, before>>
      /\ pc = "augenrules" /\ pc' = "list"
      /\ \/ Augenrules /\ stuck' = FALSE
         \/ UNCHANGED <<files, stuck>>
  BY DEF RunAugenrules, local
<1>2. Generated
  BY <1>1 DEF IInv, Current
<1>3. Steady' /\ Keeps' /\ Check'
  BY <1>1, Idles
<1>4. CASE UNCHANGED <<files, stuck>>
  <2>1. Types'
    BY <1>1, <1>4 DEF IInv, Types, files
  <2>2. Section' /\ Current'
    BY <1>1, <1>4, FilesStay
  <2>3. QED
    BY <1>3, <2>1, <2>2 DEF IInv
<1>5. CASE Augenrules /\ stuck' = FALSE
  <2>1. main' = <<Marker("augenrules")>> \o dir \o own /\ dir' = dir /\ own' = own
    BY <1>5 DEF Augenrules
  <2>2. dir \in Seq(Lines) /\ own \in Seq(Lines)
    BY UnmarkedAre DEF IInv, Types, Unmarked
  <2>3. main' \in Seq(Lines) /\ main' # <<>> /\ main'[1] = Marker("augenrules")
    BY <2>1, <2>2, HeaderIs
  <2>4. Types'
    BY <1>1, <1>5, <2>1, <2>3 DEF IInv, Types
  <2>5. Section' /\ Current'
    BY <1>1, <2>1, <2>3 DEF Section, Current, Generated
  <2>6. QED
    BY <1>3, <2>4, <2>5 DEF IInv
<1>6. QED
  BY <1>1, <1>4, <1>5

\* A request that fails for good ends the thread.
LEMMA GivesUpKeeps ==
  ASSUME IInv, GivesUp
  PROVE  IInv'
<1>1. /\ UNCHANGED <<conf, kernel, locked, desired, rules, todo, before, stuck, files>>
      /\ calm' = FALSE /\ pc' = "ended"
  BY DEF GivesUp, local
<1>2. Types'
  BY <1>1 DEF IInv, Types, files
<1>3. Section' /\ Current'
  BY <1>1, FilesStay
<1>4. Steady' /\ Keeps' /\ Check'
  BY <1>1, Uncalm
<1>5. QED
  BY <1>2, <1>3, <1>4 DEF IInv

\* What a check finds missing, of the rules that it lists.
LEMMA DiffIs ==
  ASSUME NEW s \in Seq(Rules), NEW wanted \in Seq(Rules), NEW d, d = DiffRules(MergeRules(s), wanted)
  PROVE  /\ d \in Seq(Rules)
         /\ AllSound(s) /\ AllSound(wanted) =>
               /\ AllSound(d) /\ HasAll(ToSet(s) \cup ToSet(d), wanted)
               /\ d = <<>> <=> HasAll(ToSet(s), wanted)
<1>1. d \in Seq(Rules)
  BY MergeType, DiffRulesIs
<1>2. AllSound(s) /\ AllSound(wanted) =>
               /\ AllSound(d) /\ HasAll(ToSet(s) \cup ToSet(d), wanted)
               /\ d = <<>> <=> HasAll(ToSet(s), wanted)
  BY DiffSays
<1>3. QED
  BY <1>1, <1>2

LEMMA ListRulesKeeps ==
  ASSUME IInv, ListRules
  PROVE  IInv'
<1>1. CASE GivesUp
  BY <1>1, GivesUpKeeps
<1>2. CASE /\ desired = <<>> /\ pc' = "sleep" /\ pc = "list"
           /\ UNCHANGED <<conf, kernel, locked, files, desired, rules, todo, calm, before, stuck>>
  <2>1. Types'
    BY <1>2 DEF IInv, Types, files
  <2>2. Section' /\ Current'
    BY <1>2, FilesStay
  <2>3. Steady' /\ Keeps' /\ Check'
    BY <1>2, Idles
  <2>4. QED
    BY <2>1, <2>2, <2>3 DEF IInv
<1>3. CASE /\ desired # <<>> /\ rules' = kernel /\ calm' = ~locked
           /\ before' = Covered(Others(kernel))
           /\ pc' = "status" \/ (pc' = "sleep" /\ Diff(kernel) = <<>>)
           /\ UNCHANGED <<conf, kernel, locked, files, desired, todo, stuck>>
  <2>1. Types'
    BY <1>3 DEF IInv, Types, files
  <2>2. Section' /\ Current'
    BY <1>3, FilesStay
  <2>3. Steady' /\ Keeps'
    BY <1>3 DEF IInv, Steady, Keeps
  <2>4. kernel \in Seq(Rules) /\ desired \in Seq(Rules)
    BY DEF IInv, Types
  <2>5. pc' = "sleep" /\ AllSound(kernel) /\ AllSound(desired) => HasAll(ToSet(kernel), desired)
    <3>1. Diff(kernel) = DiffRules(MergeRules(kernel), desired)
      BY DEF Diff
    <3>2. AllSound(kernel) /\ AllSound(desired) =>
             (Diff(kernel) = <<>> <=> HasAll(ToSet(kernel), desired))
      BY <2>4, <3>1, DiffIs
    <3>3. QED
      BY <1>3, <3>2
  <2>6. Check'
    BY <1>3, <2>5 DEF Check, Quiet
  <2>7. QED
    BY <2>1, <2>2, <2>3, <2>6 DEF IInv
<1>4. QED
  BY <1>1, <1>2, <1>3 DEF ListRules, local, Others

LEMMA GetEnabledKeeps ==
  ASSUME IInv, GetEnabled
  PROVE  IInv'
<1>1. CASE GivesUp
  BY <1>1, GivesUpKeeps
<1>2. CASE /\ locked /\ pc' = "sleep"
           /\ UNCHANGED <<conf, kernel, locked, files, desired, rules, todo, calm, before, stuck>>
  <2>1. Types'
    BY <1>2 DEF IInv, Types, files
  <2>2. Section' /\ Current'
    BY <1>2, FilesStay
  <2>3. ~calm'
    BY <1>2 DEF IInv, Steady
  <2>4. Steady' /\ Keeps' /\ Check'
    BY <1>2, <2>3 DEF IInv, Steady, Keeps, Check, Quiet
  <2>5. QED
    BY <2>1, <2>2, <2>4 DEF IInv
<1>3. CASE /\ todo' = Keep(rules, LAMBDA rule : DeleteIt(rule, desired))
           /\ pc' = "delete"
           /\ UNCHANGED <<conf, kernel, locked, files, desired, rules, calm, before, stuck>>
  <2>1. rules \in Seq(Rules)
    BY DEF IInv, Types
  <2>2. /\ Keep(rules, LAMBDA rule : DeleteIt(rule, desired)) \in Seq(Rules)
        /\ ToSet(Keep(rules, LAMBDA rule : DeleteIt(rule, desired)))
              = {r \in ToSet(rules) : DeleteIt(r, desired)}
    BY <2>1, ToDelete
  <2>3. todo' \in Seq(Rules) /\ \A r \in ToSet(todo') : DeleteIt(r, desired)
    BY <1>3, <2>2
  <2>4. Types'
    BY <1>3, <2>3 DEF IInv, Types, files
  <2>5. Section' /\ Current'
    BY <1>3, FilesStay
  <2>6. Steady' /\ Keeps'
    BY <1>3 DEF IInv, Steady, Keeps
  <2>7. \A r \in ToSet(todo') : DeleteIt(r, desired')
    BY <1>3, <2>3
  <2>8. Check'
    BY <1>3, <2>7 DEF Check
  <2>9. QED
    BY <2>4, <2>5, <2>6, <2>8 DEF IInv
<1>4. QED
  BY <1>1, <1>2, <1>3 DEF GetEnabled, local

\* More rules select more.
LEMMA CoveredMore ==
  ASSUME NEW s, NEW t, ToSet(s) \subseteq ToSet(t)
  PROVE  Covered(s) \subseteq Covered(t)
BY DEF Covered

\* A rule is deleted: what it selected is still selected, or is desired.
LEMMA DeletedIs ==
  ASSUME NEW s \in Seq(Rules), NEW wanted \in Seq(Rules), AllSound(wanted),
         NEW h \in Rules, DeleteIt(h, wanted)
  PROVE  Covered(Others(s)) \subseteq Covered(wanted) \cup Covered(Others(Without(s, h)))
<1> DEFINE t == Without(s, h)
<1>1. t \in Seq(Rules) /\ ToSet(t) = ToSet(s) \ {h}
  BY WithoutIs
<1> HIDE DEF t
<1>2. ToSet(Others(s)) = {r \in ToSet(s) : ~IsAuoms(r) /\ Sound(r)}
  BY OthersAre
<1>3. ToSet(Others(t)) = {r \in ToSet(t) : ~IsAuoms(r) /\ Sound(r)}
  BY <1>1, OthersAre
<1>4. ASSUME NEW p \in Covered(Others(s)) PROVE p \in Covered(wanted) \cup Covered(Others(t))
  <2>1. PICK r \in ToSet(Others(s)) : p \in Points(r)
    BY DEF Covered
  <2>2. r \in ToSet(s) /\ ~IsAuoms(r) /\ Sound(r)
    BY <1>2, <2>1
  <2>3. CASE r # h
    <3>1. r \in ToSet(Others(t))
      BY <1>1, <1>3, <2>2, <2>3
    <3>2. QED
      BY <2>1, <3>1 DEF Covered
  <2>4. CASE r = h
    <3>1. PICK d \in ToSet(wanted) :
              /\ CanonicalMergeKey(d) = CanonicalMergeKey(h)
              /\ IF IsWatch(h) THEN GetPerms(h) \subseteq GetPerms(d) ELSE h.calls \subseteq d.calls
      BY <2>2, <2>4 DEF DeleteIt
    <3>2. d \in Rules /\ Sound(d)
      BY InRules DEF AllSound
    <3>3. IsWatch(d) <=> IsWatch(h)
      BY <2>2, <2>4, <3>1, <3>2, KeySays
    <3>4. Part(h) \subseteq Part(d)
      BY <3>1, <3>3 DEF Part
    <3>5. Points(h) \subseteq Points(d)
      BY <2>2, <2>4, <3>1, <3>2, <3>4, Subsumed
    <3>6. p \in Points(d)
      BY <2>1, <2>4, <3>5
    <3>7. QED
      BY <3>6 DEF Covered
  <2>5. QED
    BY <2>3, <2>4
<1>5. QED
  BY <1>4 DEF t

\* The kernel does what it is asked, or does not and the check has met a fault.
LEMMA RequestIs ==
  ASSUME Types, NEW refused, NEW done \in Seq(Rules), Request(refused, done)
  PROVE  /\ kernel' \in Seq(Rules) /\ calm' \in BOOLEAN
         /\ calm' = FALSE \/ (kernel' = done /\ calm' = calm)
<1>1. kernel \in Seq(Rules) /\ calm \in BOOLEAN
  BY DEF Types
<1>2. \/ kernel' = kernel /\ calm' = FALSE
      \/ kernel' = done /\ calm' = calm
      \/ kernel' \in {kernel, done} /\ calm' = FALSE
  BY DEF Request
<1>3. QED
  BY <1>1, <1>2

LEMMA DeleteRuleKeeps ==
  ASSUME IInv, DeleteRule
  PROVE  IInv'
<1> DEFINE h == Head(todo)
<1>1. /\ UNCHANGED <<conf, locked, files, desired, pc, rules, before, stuck>>
      /\ pc = "delete" /\ todo # <<>> /\ todo' = Tail(todo)
      /\ Request(locked \/ h \notin ToSet(kernel), Without(kernel, h))
  BY DEF DeleteRule
<1>2. Types /\ kernel \in Seq(Rules) /\ desired \in Seq(Rules) /\ todo \in Seq(Rules)
  BY DEF IInv, Types
<1>3. h \in Rules /\ Tail(todo) \in Seq(Rules) /\ ToSet(todo) = {h} \cup ToSet(Tail(todo))
  BY <1>1, <1>2, HeadTail
<1> HIDE DEF h
<1>4. Without(kernel, h) \in Seq(Rules)
  <2>1. Without(kernel, h) \in Seq(Rules) /\ ToSet(Without(kernel, h)) = ToSet(kernel) \ {h}
    BY <1>2, <1>3, WithoutIs
  <2>2. QED
    BY <2>1
<1>5. /\ kernel' \in Seq(Rules) /\ calm' \in BOOLEAN
      /\ calm' = FALSE \/ (kernel' = Without(kernel, h) /\ calm' = calm)
  BY <1>1, <1>2, <1>4, RequestIs
<1>6. Types'
  BY <1>1, <1>2, <1>3, <1>5 DEF Types, files
<1>7. Section' /\ Current'
  BY <1>1, FilesStay
<1>8. CASE calm' = FALSE
  <2>1. Steady' /\ Keeps' /\ Check'
    BY <1>1, <1>3, <1>8, Uncalm
  <2>2. QED
    BY <1>6, <1>7, <2>1 DEF IInv
<1>9. CASE kernel' = Without(kernel, h) /\ calm' = calm
  <2>1. DeleteIt(h, desired) /\ \A r \in ToSet(todo') : DeleteIt(r, desired)
    BY <1>1, <1>3 DEF IInv, Check
  <2>2. AllSound(desired) =>
           Covered(Others(kernel)) \subseteq Covered(desired) \cup Covered(Others(Without(kernel, h)))
    BY <1>2, <1>3, <2>1, DeletedIs
  <2>3. Keeps'
    BY <1>1, <1>9, <2>2 DEF IInv, Keeps
  <2>4. Steady'
    BY <1>1, <1>9 DEF IInv, Steady
  <2>5. \A r \in ToSet(todo') : DeleteIt(r, desired')
    BY <1>1, <2>1
  <2>6. Check'
    BY <1>1, <2>5 DEF Check
  <2>7. QED
    BY <1>6, <1>7, <2>3, <2>4, <2>6 DEF IInv
<1>10. QED
  BY <1>5, <1>8, <1>9

LEMMA RelistKeeps ==
  ASSUME IInv, Relist
  PROVE  IInv'
<1>1. CASE GivesUp
  BY <1>1, GivesUpKeeps
<1>2. CASE /\ todo' = Diff(kernel) /\ rules' = kernel
           /\ (pc' = "sleep" /\ todo' = <<>>) \/ pc' = "add"
           /\ UNCHANGED <<conf, kernel, locked, files, desired, calm, before, stuck>>
  <2>1. kernel \in Seq(Rules) /\ desired \in Seq(Rules)
    BY DEF IInv, Types
  <2>2. todo' = DiffRules(MergeRules(kernel), desired)
    BY <1>2 DEF Diff
  <2>3. /\ todo' \in Seq(Rules)
        /\ AllSound(kernel) /\ AllSound(desired) =>
              /\ AllSound(todo') /\ HasAll(ToSet(kernel) \cup ToSet(todo'), desired)
              /\ todo' = <<>> <=> HasAll(ToSet(kernel), desired)
    BY <2>1, <2>2, DiffIs
  <2>4. Types'
    BY <1>2, <2>3 DEF IInv, Types, files
  <2>5. Section' /\ Current'
    BY <1>2, FilesStay
  <2>6. Steady' /\ Keeps'
    BY <1>2 DEF IInv, Steady, Keeps
  <2>7. AllSound(kernel') /\ AllSound(desired') =>
              /\ AllSound(todo') /\ HasAll(ToSet(kernel') \cup ToSet(todo'), desired')
              /\ todo' = <<>> => HasAll(ToSet(kernel'), desired')
    BY <1>2, <2>3
  <2>8. Check'
    BY <1>2, <2>7 DEF Check, Quiet
  <2>9. QED
    BY <2>4, <2>5, <2>6, <2>8 DEF IInv
<1>3. QED
  BY <1>1, <1>2 DEF Relist

\* A rule is added: it is one of those that are missing.
LEMMA AddRuleKeeps ==
  ASSUME IInv, AddRule
  PROVE  IInv'
<1> DEFINE h == Head(todo)
<1>1. /\ UNCHANGED <<conf, locked, files, desired, pc, rules, before, stuck>>
      /\ pc = "add" /\ todo # <<>> /\ todo' = Tail(todo)
      /\ Request(locked \/ Stored(h) \in ToSet(kernel), AddTo(kernel, h))
  BY DEF AddRule
<1>2. Types /\ kernel \in Seq(Rules) /\ desired \in Seq(Rules) /\ todo \in Seq(Rules)
  BY DEF IInv, Types
<1>3. h \in Rules /\ Tail(todo) \in Seq(Rules) /\ ToSet(todo) = {h} \cup ToSet(Tail(todo))
  BY <1>1, <1>2, HeadTail
<1> HIDE DEF h
<1>4. /\ AddTo(kernel, h) \in Seq(Rules)
      /\ ToSet(AddTo(kernel, h)) = ToSet(kernel) \cup {Stored(h)}
  BY <1>2, <1>3, AddToIs
<1>5. /\ kernel' \in Seq(Rules) /\ calm' \in BOOLEAN
      /\ calm' = FALSE \/ (kernel' = AddTo(kernel, h) /\ calm' = calm)
  BY <1>1, <1>2, <1>4, RequestIs
<1>6. Types'
  BY <1>1, <1>2, <1>3, <1>5 DEF Types, files
<1>7. Section' /\ Current'
  BY <1>1, FilesStay
<1>8. CASE calm' = FALSE
  <2>1. Steady' /\ Keeps' /\ Check'
    BY <1>1, <1>8, Uncalm
  <2>2. QED
    BY <1>6, <1>7, <2>1 DEF IInv
<1>9. CASE kernel' = AddTo(kernel, h) /\ calm' = calm
  <2>1. ToSet(kernel') = ToSet(kernel) \cup {Stored(h)}
    BY <1>4, <1>9
  <2>2. Covered(Others(kernel)) \subseteq Covered(Others(kernel'))
    <3>1. ToSet(Others(kernel)) = {r \in ToSet(kernel) : ~IsAuoms(r) /\ Sound(r)}
      BY <1>2, OthersAre
    <3>2. ToSet(Others(kernel')) = {r \in ToSet(kernel') : ~IsAuoms(r) /\ Sound(r)}
      BY <1>5, OthersAre
    <3>3. ToSet(Others(kernel)) \subseteq ToSet(Others(kernel'))
      BY <2>1, <3>1, <3>2
    <3>4. QED
      BY <3>3, CoveredMore
  <2>3. Keeps'
    BY <1>1, <1>9, <2>2 DEF IInv, Keeps
  <2>4. Steady'
    BY <1>1, <1>9 DEF IInv, Steady
  <2>5. ASSUME Quiet'
        PROVE  AllSound(todo') /\ HasAll(ToSet(kernel') \cup ToSet(todo'), desired')
    <3>1. AllSound(kernel)
      BY <2>1, <2>5 DEF Quiet, AllSound
    <3>2. AllSound(todo) /\ HasAll(ToSet(kernel) \cup ToSet(todo), desired)
      BY <1>1, <1>9, <2>5, <3>1 DEF IInv, Check, Quiet
    <3>3. Sound(h) /\ AllSound(todo')
      BY <1>1, <1>3, <3>2 DEF AllSound
    <3>4. Stored(h) = h
      BY <1>3, <3>3, StoredIs
    <3>5. ToSet(kernel') \cup ToSet(todo') = ToSet(kernel) \cup ToSet(todo)
      BY <1>1, <1>3, <2>1, <3>4
    <3>6. QED
      BY <1>1, <3>2, <3>3, <3>5
  <2>6. Check'
    BY <1>1, <2>5 DEF Check
  <2>7. QED
    BY <1>6, <1>7, <2>3, <2>4, <2>6 DEF IInv
<1>10. QED
  BY <1>5, <1>8, <1>9

\* Nothing is missing any more.
LEMMA CheckDoneKeeps ==
  ASSUME IInv, CheckDone
  PROVE  IInv'
<1>1. /\ UNCHANGED <<conf, kernel, locked, files, desired, rules, todo, calm, before, stuck>>
      /\ pc = "add" /\ pc' = "sleep" /\ todo = <<>>
  BY DEF CheckDone, local
<1>2. Types'
  BY <1>1 DEF IInv, Types, files
<1>3. Section' /\ Current'
  BY <1>1, FilesStay
<1>4. Steady' /\ Keeps'
  BY <1>1 DEF IInv, Steady, Keeps
<1>5. ToSet(kernel) \cup ToSet(todo) = ToSet(kernel)
  <2>1. ToSet(<<>>) = {}
    BY DEF ToSet
  <2>2. QED
    BY <1>1, <2>1
<1>6. Quiet => HasAll(ToSet(kernel), desired)
  BY <1>1, <1>5 DEF IInv, Check
<1>7. Check'
  BY <1>1, <1>6 DEF Check, Quiet
<1>8. QED
  BY <1>2, <1>3, <1>4, <1>7 DEF IInv

LEMMA MonitorKeeps ==
  ASSUME IInv, Monitor
  PROVE  IInv'
BY WakeKeeps, GetDesiredRulesKeeps, CheckFilesKeeps, WriteFilesKeeps, RunAugenrulesKeeps,
   ListRulesKeeps, GetEnabledKeeps, DeleteRuleKeeps, RelistKeeps, AddRuleKeeps, CheckDoneKeeps
   DEF Monitor

-----------------------------------------------------------------------------
(* The administrator *)

\* A step that changes nothing but the files.
LEMMA OnlyFiles ==
  ASSUME IInv, UNCHANGED <<conf, kernel, locked, desired, rules, todo, calm, before, pc>>
  PROVE  Steady' /\ Keeps' /\ Check'
<1>1. Steady'
  BY DEF IInv, Steady
<1>2. Keeps'
  BY DEF IInv, Keeps
<1>3. Check'
  BY DEF IInv, Check, Quiet
<1>4. QED
  BY <1>1, <1>2, <1>3

\* A step that changes the kernel's rules or locks them.
LEMMA OnlyKernel ==
  ASSUME IInv, UNCHANGED <<conf, files, desired, rules, todo, before, pc, stuck>>,
         kernel' \in Seq(Rules), locked' \in BOOLEAN, calm' = FALSE
  PROVE  IInv'
<1>1. Types'
  BY DEF IInv, Types, files
<1>2. Section' /\ Current'
  BY FilesStay
<1>3. pc' \in {"sleep", "files", "write", "augenrules", "list", "status", "delete", "add",
               "ended", "disabled"}
  BY DEF IInv, Check
<1>4. Steady' /\ Keeps' /\ Check'
  BY <1>3, Uncalm
<1>5. QED
  BY <1>1, <1>2, <1>4 DEF IInv

\* The administrator changes the rules in the kernel or locks them.
LEMMA KernelChanges ==
  ASSUME IInv, AdminAdds \/ LoadsFile \/ Locks \/ LoadRules
  PROVE  IInv'
<1>1. kernel \in Seq(Rules) /\ main \in Seq(Lines) /\ locked \in BOOLEAN /\ conf \in Confs
  BY DEF IInv, Types
<1>2. CASE AdminAdds
  <2>1. PICK rule \in AdminRules : kernel' = AddTo(kernel, rule)
    BY <1>2 DEF AdminAdds
  <2>2. rule \in Rules
    BY WellFormed
  <2>3. AddTo(kernel, rule) \in Seq(Rules) /\ ToSet(AddTo(kernel, rule)) = ToSet(kernel) \cup {Stored(rule)}
    BY <1>1, <2>2, AddToIs
  <2>4. kernel' \in Seq(Rules)
    BY <2>1, <2>3
  <2>5. QED
    BY <1>1, <1>2, <2>4, OnlyKernel DEF AdminAdds, Rests, local
<1>3. CASE LoadsFile
  <2>1. ParseRules(main) \in Seq(Rules)
    BY <1>1, ParseRulesIs
  <2>2. Fold(AddTo, <<>>, ParseRules(main)) \in Seq(Rules)
    <3>1. <<>> \in Seq(Rules)
      OBVIOUS
    <3>2. QED
      BY <2>1, <3>1, AddAll
  <2>3. kernel' \in Seq(Rules)
    BY <1>3, <2>2 DEF LoadsFile
  <2>4. QED
    BY <1>1, <1>3, <2>3, OnlyKernel DEF LoadsFile, Rests, local
<1>4. CASE Locks
  BY <1>1, <1>4, OnlyKernel DEF Locks, Rests, local
<1>5. CASE LoadRules
  <2>0. PICK wanted \in {DesiredOf(conf)} :
            \E left \in {Keep(kernel, LAMBDA rule : ~DeleteIt(rule, wanted))} :
               kernel' = Fold(AddTo, left, DiffRules(MergeRules(left), wanted))
    BY <1>5 DEF LoadRules
  <2>1. Keep(kernel, LAMBDA rule : ~DeleteIt(rule, wanted)) \in Seq(Rules)
    <3>1. Keep(kernel, LAMBDA rule : ~DeleteIt(rule, wanted))
             = KeepAt(kernel, {i \in DOMAIN kernel : ~DeleteIt(kernel[i], wanted)})
      BY DEF Keep, Once
    <3>2. QED
      BY <1>1, <3>1, KeepType
  <2>2. PICK left \in {Keep(kernel, LAMBDA rule : ~DeleteIt(rule, wanted))} :
            left \in Seq(Rules) /\ kernel' = Fold(AddTo, left, DiffRules(MergeRules(left), wanted))
    BY <2>0, <2>1
  <2>3. DiffRules(MergeRules(left), wanted) \in Seq(Rules)
    <3>1. wanted \in Seq(Rules)
      BY <1>1, ConfLines
    <3>2. QED
      BY <2>2, <3>1, DiffIs
  <2>4. kernel' \in Seq(Rules)
    BY <2>2, <2>3, AddAll
  <2>5. QED
    BY <1>1, <1>5, <2>4, OnlyKernel DEF LoadRules, Rests, local
<1>6. QED
  BY <1>2, <1>3, <1>4, <1>5

LEMMA AdminEditsKeeps ==
  ASSUME IInv, AdminEdits
  PROVE  IInv'
<1>1. PICK line \in AdminLines :
          IF Generated THEN dir' = Append(dir, line) /\ UNCHANGED main
          ELSE main' = Append(main, line) /\ UNCHANGED dir
  BY DEF AdminEdits
<1>2. /\ UNCHANGED <<conf, kernel, locked, desired, rules, todo, calm, before, pc, own>>
      /\ stuck' = (stuck \/ Generated)
  BY DEF AdminEdits, Rests, local
<1>3. Types /\ Section /\ dir \in Seq(AdminLines)
  BY DEF IInv, Types
<1>4. Steady' /\ Keeps' /\ Check'
  BY <1>2, OnlyFiles
<1>5. CASE Generated
  <2>1. dir' \in Seq(AdminLines) /\ main' = main
    BY <1>1, <1>3, <1>5
  <2>2. Types'
    BY <1>2, <1>3, <2>1 DEF Types
  <2>3. Section' /\ Current'
    BY <1>2, <1>5, <2>1 DEF Section, Current, Generated
  <2>4. QED
    BY <1>4, <2>2, <2>3 DEF IInv
<1>6. CASE ~Generated
  <2>1. main' = Append(main, line) /\ dir' = dir
    BY <1>1, <1>6
  <2>2. PICK P, Q : Around(main, P, Q)
    BY <1>3, <1>6 DEF Section, Tidy
  <2>3. Tidy(Append(main, line))
    BY <2>2, AppendAround
  <2>4. PICK p, q : Around(main', p, q)
    BY <2>1, <2>3 DEF Tidy
  <2>5. main' \in Seq(Lines) /\ (main' # <<>> => main'[1] # Marker("augenrules"))
    BY <2>4, AroundIs
  <2>6. Types'
    BY <1>2, <1>3, <2>1, <2>5 DEF Types
  <2>7. Section'
    BY <2>4 DEF Section, Tidy
  <2>8. Current'
    BY <1>2, <1>6, <2>5 DEF IInv, Current, Generated
  <2>9. QED
    BY <1>4, <2>6, <2>7, <2>8 DEF IInv
<1>7. QED
  BY <1>5, <1>6

\* What setrules leaves in the files.
LEMMA SetRulesFiles ==
  ASSUME IInv, SetRules
  PROVE  /\ own' \in Unmarked /\ main' \in Seq(Lines) /\ dir' = dir
         /\ Generated' <=> Generated
         /\ Section'
         /\ Generated' => main' = <<Marker("augenrules")>> \o dir' \o own'
         /\ ~Generated => Outside(main') = Outside(main)
<1> DEFINE texts == Texts(DiffRules(ReadActualAuditdRules(TRUE), DesiredOf(conf)))
<1>1. Types /\ Section /\ DesiredOf(conf) \in Seq(Rules) /\ dir \in Seq(AdminLines)
  BY ConfLines DEF IInv, Types
<1>2. texts \in Unmarked
  BY <1>1, WrittenIs
<1>3. CASE Generated
  <2>1. own' = texts /\ main' = <<Marker("augenrules")>> \o dir \o own' /\ dir' = dir
    BY <1>3 DEF SetRules
  <2> HIDE DEF texts
  <2>2. dir \in Seq(Lines) /\ own' \in Seq(Lines)
    BY <1>1, <1>2, <2>1, UnmarkedAre DEF Unmarked
  <2>3. main' \in Seq(Lines) /\ main' # <<>> /\ main'[1] = Marker("augenrules")
    BY <2>1, <2>2, HeaderIs
  <2>4. QED
    BY <1>2, <1>3, <2>1, <2>3 DEF Section, Generated
<1>4. CASE ~Generated
  <2>1. /\ own' = texts /\ main' = (IF Generated THEN main ELSE ReplaceSection(main, texts))
        /\ dir' = dir
    BY <1>4 DEF SetRules, WriteAuditdRules
  <2>2. texts = Texts(DiffRules(ReadActualAuditdRules(TRUE), DesiredOf(conf)))
    OBVIOUS
  <2> HIDE DEF texts
  <2>3. /\ own' \in Unmarked /\ main' \in Seq(Lines) /\ dir' \in Seq(AdminLines)
        /\ Generated' <=> Generated
        /\ Section'
        /\ ~Generated => Outside(main') = Outside(main)
    BY <1>1, <2>1, <2>2, Written
  <2>4. QED
    BY <1>4, <2>1, <2>3
<1>5. QED
  BY <1>3, <1>4

LEMMA SetRulesKeeps ==
  ASSUME IInv, SetRules
  PROVE  IInv'
<1>1. /\ UNCHANGED <<conf, kernel, locked, desired, rules, todo, calm, before, pc>>
      /\ stuck' = FALSE
  BY DEF SetRules, Rests, local
<1>2. /\ own' \in Unmarked /\ main' \in Seq(Lines) /\ dir' = dir
      /\ Generated' <=> Generated
      /\ Section'
      /\ Generated' => main' = <<Marker("augenrules")>> \o dir' \o own'
  BY SetRulesFiles
<1>3. Types'
  BY <1>1, <1>2 DEF IInv, Types
<1>4. Current'
  BY <1>1, <1>2 DEF IInv, Current
<1>5. Steady' /\ Keeps' /\ Check'
  BY <1>1, OnlyFiles
<1>6. QED
  BY <1>2, <1>3, <1>4, <1>5 DEF IInv

\* What disable leaves in the files when it finds a rule of auoms there.
LEMMA DisabledFiles ==
  ASSUME Types, Section, own' = <<>>, dir' = dir,
         main' = (IF Generated THEN <<Marker("augenrules")>> \o dir ELSE RemoveSection(main))
  PROVE  /\ own' \in Unmarked /\ main' \in Seq(Lines)
         /\ Generated' <=> Generated
         /\ Section'
         /\ Generated' => main' = <<Marker("augenrules")>> \o dir' \o own'
         /\ ~Generated => main' \in Seq(AdminLines) /\ Outside(main') = Outside(main)
<1>1. dir \in Seq(AdminLines) /\ dir \in Seq(Lines)
  BY UnmarkedAre DEF Types
<1>2. own' \in Unmarked
  BY DEF Unmarked
<1>3. CASE Generated
  <2> DEFINE h == <<Marker("augenrules")>>
  <2>1. h \in Seq(Lines)
    BY MarkersAre
  <2>2. main' = h \o dir
    BY <1>3
  <2> HIDE DEF h
  <2>3. (h \o dir) \o <<>> = h \o dir
    BY <1>1, <2>1
  <2>4. main' = <<Marker("augenrules")>> \o dir' \o own'
    BY <2>2, <2>3 DEF h
  <2>5. <<>> \in Seq(Lines) /\ main' = <<Marker("augenrules")>> \o dir \o <<>>
    BY <2>4
  <2>6. main' \in Seq(Lines) /\ main' # <<>> /\ main'[1] = Marker("augenrules")
    BY <1>1, <2>5, HeaderIs
  <2>7. QED
    BY <1>2, <1>3, <2>4, <2>6 DEF Section, Generated
<1>4. CASE ~Generated
  <2>1. PICK P, Q : Around(main, P, Q)
    BY <1>4 DEF Section, Tidy
  <2>2. P \o Q \in Seq(AdminLines) /\ RemoveSection(main) = P \o Q /\ Outside(main) = P \o Q
    BY <2>1, AroundIs
  <2>3. main' = P \o Q
    BY <1>4, <2>2
  <2>4. Around(P \o Q, P \o Q, <<>>) /\ (P \o Q) \o <<>> = P \o Q
    BY <2>2, PlainAround
  <2>5. Around(main', P \o Q, <<>>)
    BY <2>3, <2>4
  <2>6. /\ main' \in Seq(Lines) /\ Outside(main') = (P \o Q) \o <<>>
        /\ main' # <<>> => main'[1] # Marker("augenrules")
    BY <2>5, AroundIs
  <2>7. Section'
    BY <2>5 DEF Section, Tidy
  <2>8. ~Generated'
    BY <2>6 DEF Generated
  <2>9. QED
    BY <1>2, <1>4, <2>2, <2>3, <2>4, <2>6, <2>7, <2>8
<1>5. QED
  BY <1>3, <1>4

LEMMA DisableKeeps ==
  ASSUME IInv, Disable
  PROVE  IInv'
<1>1. /\ UNCHANGED <<conf, locked, desired, rules, todo, before>>
      /\ pc' = "disabled" /\ calm' = FALSE
      /\ kernel' = (IF locked THEN kernel ELSE NotAuoms(kernel))
  BY DEF Disable, DeleteRules, Rests, local
<1>2. Types /\ Section /\ kernel \in Seq(Rules) /\ stuck \in BOOLEAN
  BY DEF IInv, Types
<1>3. kernel' \in Seq(Rules)
  <2>1. NotAuoms(kernel) \in Seq(Rules)
    BY <1>2, NotAuomsIs
  <2>2. QED
    BY <1>1, <1>2, <2>1
<1>4. Steady' /\ Keeps' /\ Check'
  BY <1>1, Uncalm
<1>5. CASE UNCHANGED <<files, stuck>>
  <2>1. Types'
    BY <1>1, <1>2, <1>3, <1>5 DEF Types, files
  <2>2. Section' /\ Current'
    BY <1>1, <1>5, FilesStay
  <2>3. QED
    BY <1>4, <2>1, <2>2 DEF IInv
<1>6. CASE /\ own' = <<>> /\ dir' = dir /\ stuck' = FALSE
           /\ main' = IF Generated THEN <<Marker("augenrules")>> \o dir ELSE RemoveSection(main)
  <2>1. /\ own' \in Unmarked /\ main' \in Seq(Lines)
        /\ Section'
        /\ Generated' => main' = <<Marker("augenrules")>> \o dir' \o own'
    BY <1>2, <1>6, DisabledFiles
  <2>2. Types'
    BY <1>1, <1>2, <1>3, <1>6, <2>1 DEF Types
  <2>3. Current'
    BY <1>1, <2>1 DEF Current
  <2>4. QED
    BY <1>4, <2>1, <2>2, <2>3 DEF IInv
<1>7. QED
  BY <1>5, <1>6 DEF Disable

LEMMA AdminKeeps ==
  ASSUME IInv, Admin
  PROVE  IInv'
BY KernelChanges, AdminEditsKeeps, SetRulesKeeps, DisableKeeps DEF Admin

\* Every reachable state satisfies the inductive invariant.
THEOREM Inductive == Spec => []IInv
<1>1. Init => IInv
  BY Begins
<1>2. IInv /\ [Next]_vars => IInv'
  <2>1. ASSUME IInv, UNCHANGED vars PROVE IInv'
    <3>1. /\ UNCHANGED <<conf, kernel, locked, desired, rules, todo, calm, before, pc>>
          /\ UNCHANGED <<files, stuck>>
      BY <2>1 DEF vars, files
    <3>2. Types'
      BY <2>1, <3>1 DEF IInv, Types, files
    <3>3. Section' /\ Current'
      BY <2>1, <3>1, FilesStay
    <3>4. Steady' /\ Keeps' /\ Check'
      BY <2>1, <3>1, OnlyFiles
    <3>5. QED
      BY <3>2, <3>3, <3>4 DEF IInv
  <2>2. QED
    BY <2>1, MonitorKeeps, AdminKeeps DEF Next
<1>3. QED
  BY <1>1, <1>2, PTL DEF Spec

-----------------------------------------------------------------------------
(* What the check of the kernel's rules promises *)

\* CheckCovers: a check that met no fault and no change leaves a kernel that
\* selects all that the desired rules and the administrator's own rules select
\* (AuditRulesMonitor.cpp:159-284).
THEOREM ChecksCover == Spec => []CheckCovers
<1>1. IInv => CheckCovers
  <2>1. SUFFICES ASSUME IInv, pc = "sleep", calm, AllSound(desired), AllSound(kernel)
                 PROVE  Covered(desired) \cup before \subseteq Covered(kernel)
    BY DEF CheckCovers
  <2>2. kernel \in Seq(Rules) /\ desired \in Seq(Rules)
    BY <2>1 DEF IInv, Types
  <2>3. HasAll(ToSet(kernel), desired)
    BY <2>1 DEF IInv, Check, Quiet
  <2>4. Covered(desired) \subseteq Covered(kernel)
    BY <2>1, <2>2, <2>3, HasAllCovers
  <2>5. before \subseteq Covered(desired) \cup Covered(Others(kernel))
    BY <2>1 DEF IInv, Keeps
  <2>6. Covered(Others(kernel)) \subseteq Covered(kernel)
    <3>1. ToSet(Others(kernel)) = {r \in ToSet(kernel) : ~IsAuoms(r) /\ Sound(r)}
      BY <2>2, OthersAre
    <3>2. ToSet(Others(kernel)) \subseteq ToSet(kernel)
      BY <3>1
    <3>3. QED
      BY <3>2, CoveredMore
  <2>7. QED
    BY <2>4, <2>5, <2>6
<1>2. QED
  BY <1>1, Inductive, PTL

\* NoChurn: the next check finds nothing to do, whatever the kernel lists and
\* however it was merged (AuditRulesMonitor.cpp:172-181).
THEOREM ChecksRest == Spec => NoChurn
<1>1. ASSUME IInv, Next, pc = "list", calm, AllSound(desired), AllSound(kernel)
      PROVE  pc' # "status"
  <2>1. CASE ListRules
    <3>1. kernel \in Seq(Rules) /\ desired \in Seq(Rules)
      BY <1>1 DEF IInv, Types
    <3>2. HasAll(ToSet(kernel), desired)
      BY <1>1 DEF IInv, Check, Quiet
    <3>3. Diff(kernel) = DiffRules(MergeRules(kernel), desired)
      BY DEF Diff
    <3>4. Diff(kernel) = <<>> <=> HasAll(ToSet(kernel), desired)
      BY <1>1, <3>1, <3>3, DiffIs
    <3>5. Diff(kernel) = <<>>
      BY <3>2, <3>4
    <3>6. QED
      BY <2>1, <3>5 DEF ListRules, GivesUp
  <2>2. CASE Monitor /\ ~ListRules
    BY <1>1, <2>2 DEF Monitor, Wake, GetDesiredRules, CheckFiles, WriteFiles, RunAugenrules,
       GetEnabled, DeleteRule, Relist, AddRule, CheckDone
  <2>3. CASE Admin
    BY <1>1, <2>3 DEF Admin, AdminAdds, LoadsFile, Locks, AdminEdits, SetRules, LoadRules, Disable
  <2>4. QED
    BY <1>1, <2>1, <2>2, <2>3 DEF Next
<1>2. IInv /\ [Next]_vars =>
        [pc = "list" /\ calm /\ AllSound(desired) /\ AllSound(kernel) => pc' # "status"]_vars
  BY <1>1
<1>3. QED
  BY <1>2, Inductive, PTL DEF Spec, NoChurn
-----------------------------------------------------------------------------
(* What becomes of the files *)

\* AdminLinesKept: writing, replacing and removing the section leaves the lines
\* around it (AuditRules.cpp, ReplaceSection and RemoveSection).
THEOREM AdminLinesStay == Spec => AdminLinesKept
<1>1. ASSUME IInv, Next, ~Generated, ~AdminEdits
      PROVE  Outside(main') = Outside(main) /\ dir' = dir
  <2>1. Types /\ Section /\ desired \in Seq(Rules)
    BY <1>1 DEF IInv, Types
  <2>2. CASE UNCHANGED files
    BY <2>2 DEF files
  <2>3. CASE WriteFiles
    <3> DEFINE texts == Texts(DiffRules(ReadActualAuditdRules(TRUE), desired))
    <3>1. /\ own' = texts /\ main' = (IF Generated THEN main ELSE ReplaceSection(main, texts))
          /\ dir' = dir
      BY <2>3 DEF WriteFiles, WriteAuditdRules
    <3>2. texts = Texts(DiffRules(ReadActualAuditdRules(TRUE), desired))
      OBVIOUS
    <3> HIDE DEF texts
    <3>3. ~Generated => Outside(main') = Outside(main)
      BY <2>1, <3>1, <3>2, Written
    <3>4. QED
      BY <1>1, <3>1, <3>3
  <2>4. ~RunAugenrules
    BY <1>1 DEF IInv, Current, RunAugenrules
  <2>5. CASE SetRules
    <3>1. dir' = dir /\ (~Generated => Outside(main') = Outside(main))
      BY <1>1, <2>5, SetRulesFiles
    <3>2. QED
      BY <1>1, <3>1
  <2>6. CASE /\ own' = <<>> /\ dir' = dir
             /\ main' = IF Generated THEN <<Marker("augenrules")>> \o dir ELSE RemoveSection(main)
    <3>1. ~Generated => main' \in Seq(AdminLines) /\ Outside(main') = Outside(main)
      BY <2>1, <2>6, DisabledFiles
    <3>2. QED
      BY <1>1, <2>6, <3>1
  <2>7. Disable => \/ UNCHANGED files
                   \/ /\ own' = <<>> /\ dir' = dir
                      /\ main' = IF Generated THEN <<Marker("augenrules")>> \o dir
                                 ELSE RemoveSection(main)
    BY DEF Disable, files
  <2>8. Monitor => UNCHANGED files \/ WriteFiles \/ RunAugenrules
    BY DEF Monitor, Wake, GetDesiredRules, CheckFiles, ListRules, GivesUp, GetEnabled,
       DeleteRule, Relist, AddRule, CheckDone, files
  <2>9. Admin => UNCHANGED files \/ AdminEdits \/ SetRules \/ Disable
    BY DEF Admin, AdminAdds, LoadsFile, Locks, LoadRules, files
  <2>10. QED
    BY <1>1, <2>2, <2>3, <2>4, <2>5, <2>6, <2>7, <2>8, <2>9 DEF Next
<1>2. IInv /\ [Next]_vars =>
        [~Generated /\ ~AdminEdits => Outside(main') = Outside(main) /\ dir' = dir]_vars
  BY <1>1
<1>3. QED
  BY <1>2, Inductive, PTL DEF Spec, AdminLinesKept

OnlyThese(m, d, o) == ToSet(m) = {Marker("augenrules")} \cup ToSet(d) \cup ToSet(o)

\* The header of augenrules is no rule.
LEMMA HeaderParses ==
  ASSUME NEW d \in Seq(Lines), NEW o \in Seq(Lines), NEW m, m = <<Marker("augenrules")>> \o d \o o
  PROVE  /\ m \in Seq(Lines) /\ d \o o \in Seq(Lines)
         /\ OnlyThese(m, d, o)
         /\ ToSet(ParseRules(m)) = ToSet(ParseRules(d \o o))
<1> DEFINE h == <<Marker("augenrules")>>
           x == Marker("augenrules")
           IsRule(lines) == {l \in ToSet(lines) : Parse(l).is = "rule"}
<1>1. h \in Seq(Lines) /\ ToSet(h) = {x}
  BY MarkersAre DEF ToSet
<1>2. d \o o \in Seq(Lines) /\ h \o d \in Seq(Lines) /\ m = h \o d \o o
  BY <1>1
<1> HIDE DEF h
<1>3. m \in Seq(Lines)
  BY <1>2
<1>4. ToSet(m) = {x} \cup ToSet(d) \cup ToSet(o)
  <2>1. ToSet((h \o d) \o o) = ToSet(h \o d) \cup ToSet(o)
    BY <1>2, SetOfConcat
  <2>2. ToSet(h \o d) = ToSet(h) \cup ToSet(d)
    BY <1>1, SetOfConcat
  <2>3. QED
    BY <1>1, <1>2, <2>1, <2>2
<1>5. ToSet(d \o o) = ToSet(d) \cup ToSet(o)
  BY SetOfConcat
<1>6. Parse(x).is # "rule"
  <2>1. "augenrules" \in MarkerNames
    BY DEF MarkerNames
  <2>2. Marker("augenrules") \in Lines /\ Marker("augenrules") \in Markers
        /\ Parse(Marker("augenrules")) = PassedOver
    BY <2>1, MarkerIs
  <2>3. PassedOver.is = "none"
    BY DEF PassedOver
  <2>4. QED
    BY <2>2, <2>3
<1> HIDE DEF x
<1>7. IsRule(m) = IsRule(d \o o)
  BY <1>4, <1>5, <1>6
<1>8. ToSet(ParseRules(m)) = {Parse(l).rule : l \in IsRule(m)}
  BY <1>3, ParseRulesIs
<1>9. ToSet(ParseRules(d \o o)) = {Parse(l).rule : l \in IsRule(d \o o)}
  BY <1>2, ParseRulesIs
<1>10. ToSet(ParseRules(m)) = ToSet(ParseRules(d \o o))
  BY <1>7, <1>8, <1>9
<1>11. QED
  BY <1>2, <1>3, <1>4, <1>10 DEF x, OnlyThese

\* The rules in the files that the check reads are those that a boot loads.
LEMMA ReadIsLoaded ==
  ASSUME IInv, ~stuck
  PROVE  /\ ParseRules(main) \in Seq(Rules)
         /\ ParseRules(ActualLines(FALSE)) \in Seq(Rules)
         /\ ToSet(ParseRules(ActualLines(FALSE))) = ToSet(ParseRules(main))
         /\ ReadActualAuditdRules(FALSE) = MergeRules(ParseRules(ActualLines(FALSE)))
<1>1. Types /\ Section /\ main \in Seq(Lines)
  BY DEF IInv, Types
<1>2. ParseRules(main) \in Seq(Rules)
  BY <1>1, ParseRulesIs
<1>3. ParseRules(ActualLines(FALSE)) \in Seq(Rules)
  BY <1>1, ActualIs
<1>4. ReadActualAuditdRules(FALSE) = MergeRules(ParseRules(ActualLines(FALSE)))
  BY DEF ReadActualAuditdRules
<1>5. CASE Generated
  <2>1. main = <<Marker("augenrules")>> \o dir \o own
    BY <1>5 DEF IInv, Current
  <2>2. dir \in Seq(Lines) /\ own \in Seq(Lines)
    BY <1>1, UnmarkedAre DEF Types, Unmarked
  <2>3. ToSet(ParseRules(main)) = ToSet(ParseRules(dir \o own))
    BY <2>1, <2>2, HeaderParses
  <2>4. ActualLines(FALSE) = dir \o own
    BY <1>5 DEF ActualLines
  <2>5. QED
    BY <1>2, <1>3, <1>4, <2>3, <2>4
<1>6. CASE ~Generated
  <2>1. ActualLines(FALSE) = main
    BY <1>6 DEF ActualLines
  <2>2. QED
    BY <1>2, <1>3, <1>4, <2>1
<1>7. QED
  BY <1>5, <1>6

\* BootCovered: when the check of the files has nothing to do, a boot loads all
\* that is desired (AuditRulesMonitor.cpp:84-101).
THEOREM BootCovers == Spec => BootCovered
<1>1. ASSUME IInv, Next, pc = "files", pc' = "list", ~stuck,
             AllSound(desired), AllSound(ParseRules(main))
      PROVE  Covered(desired) \subseteq Covered(ParseRules(main))
  <2>1. CheckFiles
    BY <1>1 DEF Next, Monitor, Wake, GetDesiredRules, WriteFiles, RunAugenrules, ListRules,
       GetEnabled, DeleteRule, Relist, AddRule, CheckDone,
       Admin, AdminAdds, LoadsFile, Locks, AdminEdits, SetRules, LoadRules, Disable
  <2>2. desired = <<>> \/ DiffRules(ReadActualAuditdRules(FALSE), desired) = <<>>
    BY <1>1, <2>1 DEF CheckFiles
  <2>3. CASE desired = <<>>
    <3>1. ToSet(<<>>) = {}
      BY DEF ToSet
    <3>2. Covered(desired) = {}
      BY <2>3, <3>1 DEF Covered
    <3>3. QED
      BY <3>2
  <2>4. CASE DiffRules(ReadActualAuditdRules(FALSE), desired) = <<>>
    <3> DEFINE found == ParseRules(ActualLines(FALSE))
               load == ParseRules(main)
    <3>1. /\ load \in Seq(Rules) /\ found \in Seq(Rules) /\ ToSet(found) = ToSet(load)
          /\ ReadActualAuditdRules(FALSE) = MergeRules(found)
      BY <1>1, ReadIsLoaded
    <3>2. AllSound(load) /\ AllSound(desired) /\ desired \in Seq(Rules)
      BY <1>1 DEF IInv, Types
    <3> HIDE DEF found, load
    <3>3. AllSound(found)
      BY <3>1, <3>2 DEF AllSound
    <3>4. DiffRules(MergeRules(found), desired) = <<>>
      BY <2>4, <3>1
    <3>5. DiffRules(MergeRules(found), desired) = <<>> <=> HasAll(ToSet(found), desired)
      BY <3>1, <3>2, <3>3, DiffIs
    <3>6. HasAll(ToSet(load), desired)
      BY <3>1, <3>4, <3>5
    <3>7. Covered(desired) \subseteq Covered(load)
      BY <3>1, <3>2, <3>6, HasAllCovers
    <3>8. QED
      BY <3>7 DEF load
  <2>5. QED
    BY <2>2, <2>3, <2>4
<1>2. IInv /\ [Next]_vars =>
        [pc = "files" /\ pc' = "list" /\ ~stuck
          /\ AllSound(desired) /\ AllSound(ParseRules(main))
          => Covered(desired) \subseteq Covered(ParseRules(main))]_vars
  BY <1>1
<1>3. QED
  BY <1>2, Inductive, PTL DEF Spec, BootCovered

\* No line of the administrator or marker makes a rule of auoms.
LEMMA OthersOnly ==
  ASSUME NEW s \in Seq(Lines), ToSet(s) \subseteq AdminLines \cup {Marker("augenrules")}
  PROVE  NotAuoms(ParseRules(s)) = ParseRules(s)
<1>1. /\ ParseRules(s) \in Seq(Rules)
      /\ ToSet(ParseRules(s)) = {Parse(l).rule : l \in {l \in ToSet(s) : Parse(l).is = "rule"}}
  BY ParseRulesIs
<1>2. Parse(Marker("augenrules")).is # "rule"
  <2>1. "augenrules" \in MarkerNames
    BY DEF MarkerNames
  <2>2. Marker("augenrules") \in Lines /\ Marker("augenrules") \in Markers
        /\ Parse(Marker("augenrules")) = PassedOver
    BY <2>1, MarkerIs
  <2>3. PassedOver.is = "none"
    BY DEF PassedOver
  <2>4. QED
    BY <2>2, <2>3
<1>3. ASSUME NEW r \in ToSet(ParseRules(s)) PROVE ~IsAuoms(r)
  <2>1. PICK l \in ToSet(s) : Parse(l).is = "rule" /\ r = Parse(l).rule
    BY <1>1
  <2>2. l \in AdminLines
    BY <1>2, <2>1
  <2>3. QED
    BY <2>1, <2>2, OthersLines DEF IsAuoms
<1>4. QED
  BY <1>1, <1>3, NotAuomsIs

\* DisableCleans: auomsctl disable leaves no rule of auoms (auomsctl.cpp:728-765).
THEOREM DisablingCleans == Spec => DisableCleans
<1>1. ASSUME IInv, Next, pc' = "disabled"
      PROVE  Disable
  <2>1. ~Monitor
    BY <1>1 DEF Monitor, Wake, GetDesiredRules, CheckFiles, WriteFiles, RunAugenrules, ListRules,
       GivesUp, GetEnabled, DeleteRule, Relist, AddRule, CheckDone
  <2>2. QED
    BY <1>1, <2>1 DEF Next, Admin, AdminAdds, LoadsFile, Locks, AdminEdits, SetRules, LoadRules
<1>2. ASSUME IInv, Disable
      PROVE  locked \/ NotAuoms(kernel') = kernel'
  <2>1. locked \/ kernel' = NotAuoms(kernel)
    BY <1>2 DEF Disable, DeleteRules
  <2>2. kernel \in Seq(Rules)
    BY <1>2 DEF IInv, Types
  <2> DEFINE left == NotAuoms(kernel)
  <2>3. left \in Seq(Rules) /\ ToSet(left) = {r \in ToSet(kernel) : ~IsAuoms(r)}
    BY <2>2, NotAuomsIs
  <2> HIDE DEF left
  <2>4. \A r \in ToSet(left) : ~IsAuoms(r)
    BY <2>3
  <2>5. NotAuoms(left) = left
    BY <2>3, <2>4, NotAuomsIs
  <2>6. QED
    BY <2>1, <2>5 DEF left
<1>3. ASSUME IInv, Disable, ~stuck
      PROVE  NotAuoms(ParseRules(main')) = ParseRules(main')
  <2>1. Types /\ Section /\ dir \in Seq(AdminLines) /\ dir \in Seq(Lines)
    BY <1>3, UnmarkedAre DEF IInv, Types
  <2>2. CASE /\ \E rule \in ToSet(ReadActualAuditdRules(FALSE)) : IsAuoms(rule)
             /\ own' = <<>> /\ dir' = dir
             /\ main' = IF Generated THEN <<Marker("augenrules")>> \o dir ELSE RemoveSection(main)
    <3>1. /\ main' \in Seq(Lines)
          /\ Generated' <=> Generated
          /\ Generated' => main' = <<Marker("augenrules")>> \o dir' \o own'
          /\ ~Generated => main' \in Seq(AdminLines) /\ Outside(main') = Outside(main)
      BY <2>1, <2>2, DisabledFiles
    <3>2. ToSet(dir) \subseteq AdminLines
      BY <2>1, SetOfType
    <3>3. CASE Generated
      <4>1. main' = <<Marker("augenrules")>> \o dir \o own'
        BY <2>2, <3>1, <3>3
      <4>2. <<>> \in Seq(Lines) /\ ToSet(<<>>) = {}
        BY DEF ToSet
      <4>3. ToSet(main') = {Marker("augenrules")} \cup ToSet(dir) \cup ToSet(own')
        <5>1. dir \in Seq(Lines) /\ own' \in Seq(Lines)
          BY <2>1, <2>2, <4>2
        <5>2. OnlyThese(main', dir, own')
          BY <4>1, <5>1, HeaderParses
        <5>3. QED
          BY <5>2 DEF OnlyThese
      <4>4. ToSet(main') \subseteq AdminLines \cup {Marker("augenrules")}
        BY <2>2, <3>2, <4>2, <4>3
      <4>5. QED
        BY <3>1, <4>4, OthersOnly
    <3>4. CASE ~Generated
      <4>1. ToSet(main') \subseteq AdminLines
        BY <3>1, <3>4, SetOfType
      <4>2. ToSet(main') \subseteq AdminLines \cup {Marker("augenrules")}
        BY <4>1
      <4>3. QED
        BY <3>1, <4>2, OthersOnly
    <3>5. QED
      BY <3>3, <3>4
  <2>3. CASE /\ ~\E rule \in ToSet(ReadActualAuditdRules(FALSE)) : IsAuoms(rule)
             /\ main' = main
    <3> DEFINE found == ParseRules(ActualLines(FALSE))
               load == ParseRules(main)
    <3>1. /\ load \in Seq(Rules) /\ found \in Seq(Rules) /\ ToSet(found) = ToSet(load)
          /\ ReadActualAuditdRules(FALSE) = MergeRules(found)
      BY <1>3, ReadIsLoaded
    <3> HIDE DEF found, load
    <3>2. \A x \in ToSet(found) : ~IsAuoms(x)
      <4>1. ASSUME NEW x \in ToSet(found), IsAuoms(x) PROVE FALSE
        <5>1. \E r \in ToSet(MergeRules(found)) : IsAuoms(r)
          BY <3>1, <4>1, MergedKeys
        <5>2. QED
          BY <2>3, <3>1, <5>1
      <4>2. QED
        BY <4>1
    <3>3. \A x \in ToSet(load) : ~IsAuoms(x)
      BY <3>1, <3>2
    <3>4. NotAuoms(load) = load
      BY <3>1, <3>3, NotAuomsIs
    <3>5. QED
      BY <2>3, <3>4 DEF load
  <2>4. QED
    BY <1>3, <2>2, <2>3 DEF Disable, files
<1>4. IInv /\ [Next]_vars =>
        [pc' = "disabled" /\ ~stuck
          => /\ locked \/ NotAuoms(kernel') = kernel'
             /\ NotAuoms(ParseRules(main')) = ParseRules(main')]_vars
  BY <1>1, <1>2, <1>3
<1>5. QED
  BY <1>4, Inductive, PTL DEF Spec, DisableCleans
===============================================================================
