-------------------------- MODULE QueueSaveProofs --------------------------
(***************************************************************************)
(* Proofs about module QueueSave, for any sizes of buffer, header and      *)
(* items: the queue file can be opened at any moment, keeps what was saved *)
(* and has everything after Close.                                         *)
(*                                                                         *)
(* Cells are measured by their distance from where the saved part of the   *)
(* ring begins.                                                            *)
(***************************************************************************)
EXTENDS QueueSave, QueueProofs, SequenceTheorems, WellFoundedInduction

\* How many cells lie from a on before j.
Dist(a, j) == IF a <= j THEN j - a ELSE j + DataSize - a

\* saved_size counts from here: _tail, before a running Put gives up items.
Start == IF put.busy THEN put.orig_tail ELSE tail

\* What the running Put has given up, and what is saved when the save is over.
Gap == Dist(Start, tail)
Full == saved_size + Len(save.cells)

Headers == [tail : Index, head : Index, next_id : Nat]
Saves ==
  [pc : {"idle", "before", "data", "after", "end"},
   before : [tail : Nat, head : Nat, next_id : Nat],
   after : [tail : Nat, head : Nat, next_id : Nat],
   cells : Seq(Nat), done : Nat]
FileCells == [state : States \cup {"JUNK"}, size : Nat, id : Nat]

FileType ==
  /\ hdr \in Headers /\ disk \in [Index -> FileCells]
  /\ save \in [pc : {"idle", "before", "data", "after", "end"}, before : Headers,
               after : Headers, cells : Seq(Index), done : Nat]
  /\ closer \in {"none", "waits", "done"} /\ overrun \in BOOLEAN /\ late \in BOOLEAN

\* A running Put moves _tail no further than _head.
PutOK ==
  put.busy => put.orig_tail \in Index /\ Dist(put.orig_tail, tail) <= Dist(put.orig_tail, head)

-----------------------------------------------------------------------------
(* The plan of a save *)

Steps ==
  /\ save.done <= Len(save.cells)
  /\ save.pc = "idle" => save.cells = <<>>
  /\ save.pc = "before" => save.done = 0 /\ save.cells # <<>>
  /\ save.pc = "data" => save.done < Len(save.cells)
  /\ save.pc \in {"after", "end"} => save.done = Len(save.cells)

\* The cells follow the saved part, in order, and are in the ring.
Plan ==
  /\ Full <= Dist(Start, head)
  /\ \A k \in 1 .. Len(save.cells) : Dist(Start, save.cells[k]) = saved_size + k - 1

\* What is saved, and what this save has written so far, is in the file.
InDisk == \A j \in Index : Dist(Start, j) < saved_size + save.done => disk[j] = mem[j]

\* The saved part ends where an item ends, now and when the save is over.
Boundary ==
  \A m \in {saved_size, Full} : m > Gap => \E n \in Live : Dist(Start, ItemEnd(n)) = m

\* The part of the file that header h names goes m cells beyond Start.
Covers(h, m) == m # 0 => Dist(h.tail, Start) + m = Dist(h.tail, h.head)

Names ==
  /\ save.pc = "data" => hdr = save.before
  /\ save.pc = "end" => hdr = save.after
  /\ Covers(hdr, IF save.pc = "end" THEN Full ELSE saved_size)
  /\ save.pc = "before" => Covers(save.before, saved_size)
  /\ SaveActive => Covers(save.after, Full)

\* As long as nothing was put since, the file will have the whole ring.
Newest ==
  SaveActive =>
    /\ save.after.next_id <= next_id
    /\ next_id = save.after.next_id =>
         save.after.tail = Start /\ save.after.head = head /\ Full = Dist(Start, head)

-----------------------------------------------------------------------------
(* The chain of items in the file *)

EndIn(d, p) == p + Hdr + d[p].size

InPart(h, j) == j \in Index /\ Dist(h.tail, j) < Dist(h.tail, h.head)

\* Block p of d is item n, and the next block is at q.
LinkIn(d, h, p, n) ==
  /\ d[p].state = "ITEM" /\ d[p].id = n
  /\ \A j \in p .. EndIn(d, p) - 1 : InPart(h, j) /\ (j = p \/ d[j] = Payload(n))

LeadsIn(d, h, p, q) ==
  \/ q = EndIn(d, p)
  \/ q = 0 /\ InPart(h, EndIn(d, p)) /\ d[EndIn(d, p)].state = "WRAP"

\* d has the items lo .. hi - 1 at P between the tail and the head of h.
Chain(d, h, lo, hi, P) ==
  /\ IF lo = hi THEN h.tail = h.head ELSE P[lo] = h.tail /\ EndIn(d, P[hi - 1]) = h.head
  /\ \A n \in lo .. hi - 1 : /\ LinkIn(d, h, P[n], n)
                             /\ n - lo <= Dist(h.tail, P[n])
                             /\ n # hi - 1 => LeadsIn(d, h, P[n], P[n + 1])

Loads(d, h) ==
  \E lo, hi \in Nat : /\ lo <= hi /\ hi <= h.next_id
                      /\ \E P \in [lo .. hi - 1 -> Index] : Chain(d, h, lo, hi, P)

\* The data part of the file when the save is over.
Final ==
  [j \in Index |-> IF \E k \in save.done + 1 .. Len(save.cells) : save.cells[k] = j
                   THEN mem[j] ELSE disk[j]]

Loadable ==
  /\ Loads(disk, hdr)
  /\ save.pc = "before" => Loads(disk, save.before)
  /\ save.pc \in {"before", "data", "after"} => Loads(Final, save.after)
  /\ save.pc \in {"before", "data"} =>
       \A k \in 1 .. Len(save.cells) :
         Dist(save.before.tail, save.before.head) <= Dist(save.before.tail, save.cells[k])

-----------------------------------------------------------------------------
ClosedOK ==
  /\ closer # "none" <=> closed
  /\ closed => ~put.busy
  /\ closer = "done" => ~SaveActive

\* After Close the save that it waits for is the last one.
LastSave ==
  closed /\ ~late =>
    /\ SaveActive => next_id = save.after.next_id
    /\ ~SaveActive => hdr = FileHeader(tail, head, next_id) /\ saved_size = Dist(tail, head)

Sound == Plan /\ InDisk /\ Boundary /\ Names /\ Newest /\ Loadable /\ LastSave

FileInv ==
  /\ IInv /\ ClosedOK
  /\ save \in Saves
  /\ overrun \/ (FileType /\ PutOK /\ Steps /\ Sound)

-----------------------------------------------------------------------------
\* A set of numbers that is not empty has a smallest one.
LEMMA SmallestOf ==
  ASSUME NEW S, S \subseteq Nat, S # {}
  PROVE  \E m \in S : \A k \in S : m <= k
<1> DEFINE Less == OpToRel(<, Nat)
<1>1. PICK m \in S : \A k \in S : ~(<<k, m>> \in Less)
  <2>1. IsWellFoundedOn(Less, Nat)
    BY NatLessThanWellFounded
  <2> HIDE DEF Less
  <2>2. QED
    BY <2>1, WFMin
<1>2. \A k \in S : ~(k < m)
  <2>1. ASSUME NEW k \in S PROVE ~(k < m)
    BY <1>1, <2>1 DEF OpToRel
  <2>2. QED
    BY <2>1
<1>3. QED
  BY <1>2

-----------------------------------------------------------------------------
(* Distances *)

LEMMA DistType ==
  ASSUME NEW a \in Index, NEW j \in Index
  PROVE  Dist(a, j) \in Nat /\ Dist(a, j) < DataSize /\ Dist(a, a) = 0
BY QueueConstants DEF Dist, Index

LEMMA DistSame ==
  ASSUME NEW a \in Index, NEW i \in Index, NEW j \in Index, Dist(a, i) = Dist(a, j)
  PROVE  i = j
BY QueueConstants DEF Dist, Index

\* b lies on the way from a to j.
LEMMA DistVia ==
  ASSUME NEW a \in Index, NEW b \in Index, NEW j \in Index,
         Dist(a, b) <= Dist(a, j) \/ Dist(a, b) + Dist(b, j) < DataSize
  PROVE  Dist(a, j) = Dist(a, b) + Dist(b, j)
BY QueueConstants DEF Dist, Index

-----------------------------------------------------------------------------
(* The ring, by the distance from the tail *)

LEMMA ItemDist ==
  ASSUME IInv, NEW n \in Live
  PROVE  /\ pos[n] \in Index /\ ItemEnd(n) \in Index /\ pos[n] < ItemEnd(n)
         /\ \A j \in pos[n] .. ItemEnd(n) : /\ j \in Index
                                            /\ Dist(tail, j) = Dist(tail, pos[n]) + j - pos[n]
         /\ Dist(tail, ItemEnd(n)) <= Dist(tail, head)
<1> USE QueueConstants
<1>1. /\ head \in Nat /\ tail \in Nat /\ head < DataSize /\ tail < DataSize
      /\ pos[n] \in Nat /\ ItemEnd(n) \in Nat /\ pos[n] < ItemEnd(n)
      /\ pos[n] \in Index /\ ItemEnd(n) < DataSize
  BY EndFacts, ItemFacts DEF Index
<1>2. IF head < tail /\ Lap(n) = 0
      THEN ItemEnd(n) + Hdr <= DataSize
      ELSE (Lap(n) = 0 => tail <= pos[n]) /\ ItemEnd(n) <= head
  BY DEF IInv, RingInv, Placed, ItemEnd
<1>3. \/ tail <= pos[n] /\ (head < tail \/ ItemEnd(n) <= head)
      \/ head < tail /\ ItemEnd(n) <= head
  BY <1>1, <1>2 DEF Lap
<1>4. QED
  BY <1>1, <1>3 DEF Dist, Index

LEMMA ItemOrder ==
  ASSUME IInv, NEW m \in Live, NEW n \in Live, m < n
  PROVE  /\ Dist(tail, ItemEnd(m)) <= Dist(tail, pos[n])
         /\ Dist(tail, pos[m]) < Dist(tail, pos[n])
         /\ Dist(tail, ItemEnd(m)) < Dist(tail, ItemEnd(n))
<1> USE QueueConstants
<1>1. /\ head \in Nat /\ tail \in Nat /\ head < DataSize /\ tail < DataSize
      /\ pos[n] \in Nat /\ ItemEnd(n) \in Nat /\ pos[n] < ItemEnd(n)
      /\ pos[m] \in Nat /\ ItemEnd(m) \in Nat /\ pos[m] < ItemEnd(m)
      /\ ItemEnd(n) < DataSize /\ ItemEnd(m) < DataSize
  BY EndFacts, ItemFacts DEF Index
<1>2. \/ Lap(m) < Lap(n)
      \/ Lap(m) = Lap(n) /\ ItemEnd(m) <= pos[n]
  BY DEF IInv, RingInv, Placed, ItemEnd
<1>3. /\ \/ tail <= pos[n] /\ (head < tail \/ ItemEnd(n) <= head)
         \/ head < tail /\ ItemEnd(n) <= head
      /\ \/ tail <= pos[m] /\ (head < tail \/ ItemEnd(m) <= head)
         \/ head < tail /\ ItemEnd(m) <= head
  <2>1. /\ IF head < tail /\ Lap(n) = 0
           THEN ItemEnd(n) + Hdr <= DataSize
           ELSE (Lap(n) = 0 => tail <= pos[n]) /\ ItemEnd(n) <= head
        /\ IF head < tail /\ Lap(m) = 0
           THEN ItemEnd(m) + Hdr <= DataSize
           ELSE (Lap(m) = 0 => tail <= pos[m]) /\ ItemEnd(m) <= head
    BY DEF IInv, RingInv, Placed, ItemEnd
  <2>2. QED
    BY <1>1, <2>1 DEF Lap
<1>4. QED
  BY <1>1, <1>2, <1>3 DEF Dist, Lap

\* Each item before item n takes a cell at least.
LEMMA ItemCount ==
  ASSUME IInv, NEW n \in Live
  PROVE  n - first <= Dist(tail, pos[n])
<1> USE QueueConstants
<1> DEFINE Bad == {m \in Live : Dist(tail, pos[m]) < m - first}
<1>1. /\ first \in Nat /\ next_id \in Nat /\ tail \in Index
      /\ \A m \in Live : m \in Nat /\ first <= m /\ m < next_id /\ pos[m] \in Index
      /\ \A m \in Live : Dist(tail, pos[m]) \in Nat
  BY EndFacts, ItemFacts, DistType
<1>2. Bad = {}
  <2>1. SUFFICES ASSUME Bad # {} PROVE FALSE
    OBVIOUS
  <2>2. PICK m \in Bad : \A k \in Bad : m <= k
    BY <1>1, <2>1, SmallestOf
  <2>3. m # first
    BY <1>1, <2>2 DEF Live
  <2>4. m - 1 \in Live /\ m - 1 < m
    BY <1>1, <2>2, <2>3 DEF Live
  <2>5. Dist(tail, pos[m - 1]) < Dist(tail, pos[m])
    BY <2>2, <2>4, ItemOrder
  <2>6. m - 1 \in Bad
    BY <1>1, <2>2, <2>4, <2>5
  <2>7. QED
    BY <1>1, <2>2, <2>4, <2>6
<1>3. QED
  BY <1>1, <1>2

-----------------------------------------------------------------------------
(* Chains in the file *)

LEMMA EmptyChain ==
  ASSUME NEW d, NEW h \in Headers, h.tail = h.head
  PROVE  Loads(d, h)
<1>1. PICK lo \in Nat : lo = 0
  OBVIOUS
<1>2. lo .. lo - 1 = {} /\ lo <= h.next_id
  BY <1>1 DEF Headers
<1>3. PICK P : P = [n \in lo .. lo - 1 |-> 0]
  OBVIOUS
<1>4. P \in [lo .. lo - 1 -> Index] /\ Chain(d, h, lo, lo, P)
  BY <1>2, <1>3 DEF Chain
<1>5. QED
  BY <1>2, <1>4 DEF Loads

\* Only the cells that the header names count.
LEMMA ChainStays ==
  ASSUME NEW d \in [Index -> FileCells], NEW e \in [Index -> FileCells], NEW h \in Headers,
         \A j \in Index : Dist(h.tail, j) < Dist(h.tail, h.head) => e[j] = d[j],
         Loads(d, h)
  PROVE  Loads(e, h)
<1>1. PICK lo \in Nat, hi \in Nat : /\ lo <= hi /\ hi <= h.next_id
                                    /\ \E P \in [lo .. hi - 1 -> Index] : Chain(d, h, lo, hi, P)
  BY DEF Loads
<1>2. PICK P \in [lo .. hi - 1 -> Index] : Chain(d, h, lo, hi, P)
  BY <1>1
<1>3. ASSUME NEW n \in lo .. hi - 1
      PROVE  /\ e[P[n]] = d[P[n]] /\ EndIn(e, P[n]) = EndIn(d, P[n])
             /\ LinkIn(e, h, P[n], n) /\ n - lo <= Dist(h.tail, P[n])
             /\ n # hi - 1 => LeadsIn(e, h, P[n], P[n + 1])
  <2>1. P[n] \in Index /\ P[n] \in Nat
    BY DEF Index
  <2>2. d[P[n]] \in FileCells
    BY <2>1
  <2>3. d[P[n]].size \in Nat
    BY <2>2 DEF FileCells
  <2>4. P[n] \in P[n] .. EndIn(d, P[n]) - 1
    BY <2>1, <2>3, QueueConstants DEF EndIn
  <2>5. /\ LinkIn(d, h, P[n], n) /\ n - lo <= Dist(h.tail, P[n])
        /\ n # hi - 1 => LeadsIn(d, h, P[n], P[n + 1])
    BY <1>2 DEF Chain
  <2>6. InPart(h, P[n])
    BY <2>4, <2>5 DEF LinkIn
  <2>7. e[P[n]] = d[P[n]]
    BY <2>6 DEF InPart
  <2>8. EndIn(e, P[n]) = EndIn(d, P[n])
    BY <2>7 DEF EndIn
  <2>9. \A j : InPart(h, j) => e[j] = d[j]
    BY DEF InPart
  <2>10. LinkIn(e, h, P[n], n)
    BY <2>5, <2>7, <2>8, <2>9 DEF LinkIn
  <2>11. n # hi - 1 => LeadsIn(e, h, P[n], P[n + 1])
    BY <2>5, <2>8, <2>9 DEF LeadsIn
  <2>12. QED
    BY <2>5, <2>7, <2>8, <2>10, <2>11
<1>4. IF lo = hi THEN h.tail = h.head ELSE P[lo] = h.tail /\ EndIn(e, P[hi - 1]) = h.head
  BY <1>1, <1>2, <1>3 DEF Chain
<1>5. Chain(e, h, lo, hi, P)
  BY <1>3, <1>4 DEF Chain
<1>6. \E Q \in [lo .. hi - 1 -> Index] : Chain(e, h, lo, hi, Q)
  BY <1>5
<1>7. QED
  BY <1>1, <1>6 DEF Loads

\* A file with the ring up to the end of item n can be opened.
LEMMA RingChain ==
  ASSUME IInv, NEW n \in Live, NEW d \in [Index -> FileCells],
         \A j \in Index : Dist(tail, j) < Dist(tail, ItemEnd(n)) => d[j] = mem[j],
         NEW h \in Headers, h = FileHeader(tail, ItemEnd(n), next_id)
  PROVE  Loads(d, h)
<1> DEFINE P == [m \in first .. n |-> pos[m]]
<1>1. /\ h.tail = tail /\ h.head = ItemEnd(n) /\ h.next_id = next_id
      /\ first \in Nat /\ next_id \in Nat /\ n \in Nat /\ first <= n /\ n < next_id
      /\ tail \in Index
  BY EndFacts, ItemFacts DEF FileHeader
<1>2. ASSUME NEW m \in first .. n
      PROVE  /\ m \in Live /\ P[m] = pos[m] /\ pos[m] \in Nat
             /\ d[pos[m]] = Block("ITEM", mem[pos[m]].size, m)
             /\ EndIn(d, pos[m]) = ItemEnd(m)
             /\ \A j \in pos[m] .. ItemEnd(m) - 1 : InPart(h, j) /\ d[j] = mem[j]
             /\ \A j \in pos[m] + 1 .. ItemEnd(m) - 1 : mem[j] = Payload(m)
  <2>1. m \in Live /\ P[m] = pos[m]
    BY <1>1 DEF Live
  <2>2. /\ pos[m] \in Index /\ pos[m] \in Nat /\ ItemEnd(m) \in Nat /\ pos[m] < ItemEnd(m)
        /\ mem[pos[m]] = Block("ITEM", mem[pos[m]].size, m)
        /\ ItemEnd(m) = pos[m] + Hdr + mem[pos[m]].size
        /\ \A j \in pos[m] .. ItemEnd(m) :
             j \in Index /\ Dist(tail, j) = Dist(tail, pos[m]) + j - pos[m]
    BY <2>1, ItemFacts, ItemDist
  <2>3. Dist(tail, ItemEnd(m)) <= Dist(tail, ItemEnd(n))
    <3>1. CASE m < n
      BY <2>1, <3>1, ItemOrder, ItemDist, DistType, <1>1
    <3>2. CASE m = n
      BY <3>2, ItemDist, DistType, <1>1
    <3>3. QED
      BY <1>1, <3>1, <3>2
  <2>4. ASSUME NEW j \in pos[m] .. ItemEnd(m) - 1
        PROVE  InPart(h, j) /\ d[j] = mem[j]
    <3>1. /\ j \in Index /\ Dist(tail, j) = Dist(tail, pos[m]) + j - pos[m]
          /\ Dist(tail, ItemEnd(m)) = Dist(tail, pos[m]) + ItemEnd(m) - pos[m]
      BY <2>2
    <3>2. Dist(tail, j) < Dist(tail, ItemEnd(n))
      <4>1. /\ Dist(tail, pos[m]) \in Nat /\ Dist(tail, ItemEnd(m)) \in Nat
            /\ Dist(tail, ItemEnd(n)) \in Nat /\ j < ItemEnd(m) /\ j \in Nat
        BY <1>1, <2>1, <2>2, DistType, ItemDist
      <4>2. QED
        BY <2>2, <2>3, <3>1, <4>1
    <3>3. QED
      BY <1>1, <3>1, <3>2 DEF InPart
  <2>5. pos[m] \in pos[m] .. ItemEnd(m) - 1
    BY <2>2
  <2>6. d[pos[m]] = mem[pos[m]]
    BY <2>4, <2>5
  <2>7. EndIn(d, pos[m]) = ItemEnd(m)
    BY <2>2, <2>6 DEF EndIn
  <2>8. \A j \in pos[m] + 1 .. ItemEnd(m) - 1 : mem[j] = Payload(m)
    BY <2>1 DEF IInv, RingInv, ItemsIntact, Holds, ItemEnd
  <2> HIDE DEF P
  <2>9. QED
    BY <2>1, <2>2, <2>4, <2>6, <2>7, <2>8
<1>3. P \in [first .. n + 1 - 1 -> Index]
  <2>1. first .. n + 1 - 1 = first .. n
    BY <1>1
  <2>2. \A m \in first .. n : pos[m] \in Index
    BY <1>2, ItemDist
  <2>3. QED
    BY <2>1, <2>2
<1>4. P[first] = h.tail /\ EndIn(d, P[n + 1 - 1]) = h.head
  <2>1. first \in first .. n /\ n \in first .. n /\ n + 1 - 1 = n
    BY <1>1
  <2>2. tail = pos[first]
    BY <1>1 DEF IInv, RingInv, Chained
  <2>3. P[first] = pos[first] /\ P[n] = pos[n] /\ EndIn(d, pos[n]) = ItemEnd(n)
    BY <1>2, <2>1
  <2>4. QED
    BY <1>1, <2>1, <2>2, <2>3
<1>5. ASSUME NEW m \in first .. n
      PROVE  /\ LinkIn(d, h, P[m], m)
             /\ m - first <= Dist(h.tail, P[m])
             /\ m # n => LeadsIn(d, h, P[m], P[m + 1])
  <2> HIDE DEF P
  <2>1. m - first <= Dist(h.tail, P[m])
    BY <1>1, <1>2, ItemCount
  <2>2. LinkIn(d, h, P[m], m)
    <3>1. d[P[m]].state = "ITEM" /\ d[P[m]].id = m
      <4>1. P[m] = pos[m] /\ d[pos[m]] = Block("ITEM", mem[pos[m]].size, m)
        BY <1>2
      <4>2. QED
        BY <4>1 DEF Block
    <3>2. ASSUME NEW j \in pos[m] .. ItemEnd(m) - 1
          PROVE  InPart(h, j) /\ (j = pos[m] \/ d[j] = Payload(m))
      <4>1. j # pos[m] => j \in pos[m] + 1 .. ItemEnd(m) - 1
        BY <1>2, ItemFacts
      <4>2. QED
        BY <1>2, <4>1
    <3>3. QED
      BY <1>2, <3>1, <3>2 DEF LinkIn
  <2>3. ASSUME m # n, P[m + 1] # ItemEnd(m)
        PROVE  P[m + 1] = 0 /\ InPart(h, ItemEnd(m)) /\ d[ItemEnd(m)].state = "WRAP"
    <3>1. m + 1 \in first .. n /\ m \in Nat /\ m < n
      BY <1>1, <2>3
    <3>2. P[m + 1] = pos[m + 1] /\ m \in Live
      BY <1>2, <3>1
    <3>3. m # next_id - 1
      BY <1>1, <3>1
    <3>4. pos[m + 1] = 0 /\ ItemEnd(m) \in Index /\ mem[ItemEnd(m)].state = "WRAP"
      BY <2>3, <3>2, <3>3 DEF IInv, RingInv, Chained, ItemEnd
    <3>5. Dist(tail, ItemEnd(m)) < Dist(tail, ItemEnd(n))
      BY <3>1, <3>2, ItemOrder
    <3>6. InPart(h, ItemEnd(m)) /\ d[ItemEnd(m)] = mem[ItemEnd(m)]
      BY <1>1, <3>4, <3>5 DEF InPart
    <3>7. QED
      BY <3>2, <3>4, <3>6
  <2>4. EndIn(d, P[m]) = ItemEnd(m)
    BY <1>2
  <2>5. QED
    BY <2>1, <2>2, <2>3, <2>4 DEF LeadsIn
<1>6. PICK hi \in Nat : hi = n + 1
  BY <1>1
<1>7. hi - 1 = n /\ first # hi /\ first \in Nat /\ first <= hi /\ hi <= h.next_id
  BY <1>1, <1>6
<1> HIDE DEF P
<1>8. P \in [first .. hi - 1 -> Index] /\ Chain(d, h, first, hi, P)
  BY <1>3, <1>4, <1>5, <1>6, <1>7 DEF Chain
<1>9. QED
  BY <1>7, <1>8 DEF Loads

-----------------------------------------------------------------------------
(* The plan of save_locked *)

LEMMA SpanFacts ==
  ASSUME NEW from \in 0 .. DataSize, NEW to \in 0 .. DataSize
  PROVE  /\ Span(from, to) \in Seq(Index)
         /\ Len(Span(from, to)) = (IF to > from THEN to - from ELSE 0)
         /\ \A k \in 1 .. Len(Span(from, to)) : Span(from, to)[k] = from + k - 1
<1> USE QueueConstants
<1> DEFINE n == IF to > from THEN to - from ELSE 0
<1>1. n \in Nat /\ DataSize \in Nat /\ from \in Nat /\ to \in Nat
  OBVIOUS
<1>2. Span(from, to) = [k \in 1 .. n |-> from + k - 1]
  BY DEF Span
<1>3. \A k \in 1 .. n : from + k - 1 \in Index
  BY <1>1 DEF Index
<1> HIDE DEF n
<1>4. Span(from, to) \in [1 .. n -> Index]
  BY <1>2, <1>3
<1>5. Span(from, to) \in Seq(Index)
  BY <1>1, <1>4
<1>6. Len(Span(from, to)) = n
  BY <1>1, <1>2, <1>5
<1>7. \A k \in 1 .. n : Span(from, to)[k] = from + k - 1
  BY <1>2
<1>8. QED
  BY <1>5, <1>6, <1>7 DEF n

LEMMA UnsavedFacts ==
  ASSUME IInv, saved_size <= Dist(tail, head)
  PROVE  /\ Unsaved \in Seq(Index) /\ Len(Unsaved) = Dist(tail, head) - saved_size
         /\ \A k \in 1 .. Len(Unsaved) : Dist(tail, Unsaved[k]) = saved_size + k - 1
         /\ SavedEnd \in Index /\ Dist(tail, SavedEnd) = saved_size
<1> USE QueueConstants
<1>1. /\ saved_size \in Nat /\ head \in Nat /\ tail \in Nat
      /\ head < DataSize /\ tail < DataSize /\ DataSize \in Nat
  BY EndFacts DEF IInv, TypeOK, Index
<1>2. SavedEnd \in Index /\ Dist(tail, SavedEnd) = saved_size
  BY <1>1 DEF SavedEnd, Dist, Index
<1>3. CASE tail <= head
  <2>1. Unsaved = Span(tail + saved_size, head)
    BY <1>3 DEF Unsaved
  <2>2. tail + saved_size \in 0 .. DataSize /\ head \in 0 .. DataSize
    BY <1>1, <1>3 DEF Dist
  <2>3. Len(Unsaved) = Dist(tail, head) - saved_size
    BY <1>1, <1>3, <2>1, <2>2, SpanFacts DEF Dist
  <2>4. ASSUME NEW k \in 1 .. Len(Unsaved)
        PROVE  Dist(tail, Unsaved[k]) = saved_size + k - 1
    <3>1. Unsaved[k] = tail + saved_size + k - 1
      BY <2>1, <2>2, SpanFacts
    <3>2. k \in Nat /\ 1 <= k
      BY <1>1, <1>3, <2>3 DEF Dist
    <3>3. QED
      BY <1>1, <3>1, <3>2 DEF Dist
  <2>5. QED
    BY <1>2, <2>1, <2>2, <2>3, <2>4, SpanFacts
<1>4. CASE head < tail /\ DataSize - tail > saved_size
  <2> DEFINE a == Span(tail + saved_size, DataSize)
             b == Span(0, head)
  <2>1. Unsaved = a \o b
    BY <1>1, <1>4 DEF Unsaved
  <2>2. PICK from \in 0 .. DataSize, to \in 0 .. DataSize, zero \in 0 .. DataSize :
          from = tail + saved_size /\ to = DataSize /\ zero = 0
    BY <1>1, <1>4
  <2>3. /\ a \in Seq(Index) /\ Len(a) = DataSize - tail - saved_size
        /\ \A k \in 1 .. Len(a) : a[k] = tail + saved_size + k - 1
    <3>1. a = Span(from, to) /\ (IF to > from THEN to - from ELSE 0) = DataSize - tail - saved_size
      BY <1>1, <1>4, <2>2
    <3> HIDE DEF a
    <3>2. QED
      BY <2>2, <3>1, SpanFacts
  <2>4. /\ b \in Seq(Index) /\ Len(b) = head
        /\ \A k \in 1 .. Len(b) : b[k] = k - 1
    <3>1. /\ b = Span(zero, head) /\ head \in 0 .. DataSize
          /\ (IF head > zero THEN head - zero ELSE 0) = head
      BY <1>1, <2>2
    <3> HIDE DEF b
    <3>2. \A k \in 1 .. Len(b) : b[k] = zero + k - 1
      BY <3>1, SpanFacts
    <3>3. Len(b) = head /\ b \in Seq(Index)
      BY <3>1, SpanFacts
    <3>4. QED
      BY <1>1, <2>2, <3>2, <3>3
  <2> HIDE DEF a, b
  <2>5. /\ Unsaved \in Seq(Index) /\ Len(Unsaved) = Len(a) + Len(b)
        /\ \A k \in 1 .. Len(a) + Len(b) :
             Unsaved[k] = IF k <= Len(a) THEN a[k] ELSE b[k - Len(a)]
    BY <2>1, <2>3, <2>4, ConcatProperties
  <2>6. Len(Unsaved) = Dist(tail, head) - saved_size
    BY <1>1, <1>4, <2>3, <2>4, <2>5 DEF Dist
  <2>7. ASSUME NEW k \in 1 .. Len(Unsaved)
        PROVE  Dist(tail, Unsaved[k]) = saved_size + k - 1
    <3>1. k \in Nat /\ 1 <= k /\ k <= Len(a) + Len(b)
      BY <1>1, <1>4, <2>3, <2>4, <2>5
    <3>2. CASE k <= Len(a)
      <4>1. Unsaved[k] = tail + saved_size + k - 1
        BY <1>1, <1>4, <2>3, <2>4, <2>5, <3>1, <3>2
      <4>2. QED
        BY <1>1, <2>3, <3>1, <3>2, <4>1 DEF Dist
    <3>3. CASE k > Len(a)
      <4>1. k - Len(a) \in 1 .. Len(b)
        BY <1>1, <1>4, <2>3, <2>4, <3>1, <3>3
      <4>2. Unsaved[k] = k - Len(a) - 1
        BY <1>1, <1>4, <2>3, <2>4, <2>5, <3>1, <3>3, <4>1
      <4>3. QED
        BY <1>1, <1>4, <2>3, <2>4, <3>1, <3>3, <4>2 DEF Dist
    <3>4. QED
      BY <1>1, <1>4, <2>3, <3>1, <3>2, <3>3
  <2>8. QED
    BY <1>2, <2>5, <2>6, <2>7
<1>5. CASE head < tail /\ DataSize - tail <= saved_size
  <2>1. PICK from \in 0 .. DataSize : from = saved_size - (DataSize - tail)
    BY <1>1, <1>5 DEF Dist
  <2>2. Unsaved = Span(from, head) /\ head \in 0 .. DataSize
    BY <1>1, <1>5, <2>1 DEF Unsaved
  <2>3. (IF head > from THEN head - from ELSE 0) = Dist(tail, head) - saved_size
    BY <1>1, <1>5, <2>1 DEF Dist
  <2>4. Len(Unsaved) = Dist(tail, head) - saved_size
    BY <2>2, <2>3, SpanFacts
  <2>5. ASSUME NEW k \in 1 .. Len(Unsaved)
        PROVE  Dist(tail, Unsaved[k]) = saved_size + k - 1
    <3>1. Unsaved[k] = saved_size - (DataSize - tail) + k - 1
      BY <2>1, <2>2, SpanFacts
    <3>2. k \in Nat /\ 1 <= k /\ k <= Dist(tail, head) - saved_size
      BY <1>1, <1>5, <2>4 DEF Dist
    <3>3. QED
      BY <1>1, <1>5, <3>1, <3>2 DEF Dist
  <2>6. QED
    BY <1>2, <2>2, <2>4, <2>5, SpanFacts
<1>6. QED
  BY <1>1, <1>3, <1>4, <1>5

LEMMA CellTypes ==
  ASSUME IInv
  PROVE  mem \in [Index -> FileCells]
BY DEF IInv, TypeOK, FileCells

-----------------------------------------------------------------------------
(* A save begins *)

LEMMA BeginKeeps ==
  ASSUME IInv, FileType, Steps, Sound, ~put.busy, SaveBegin,
         UNCHANGED <<ring, put, hdr, disk>>
  PROVE  /\ save'.pc \in {"before", "after"}
         /\ save' \in [pc : {"idle", "before", "data", "after", "end"}, before : Headers,
                       after : Headers, cells : Seq(Index), done : Nat]
         /\ (Steps /\ Plan /\ InDisk /\ Boundary /\ Names /\ Newest /\ Loadable)'
         /\ save'.after = FileHeader(tail, head, next_id)
<1> USE QueueConstants
<1> DEFINE u == Unsaved
           before == FileHeader(tail, SavedEnd, next_id)
           after == FileHeader(tail, head, next_id)
<1>1. /\ Start = tail /\ Gap = 0 /\ save.cells = <<>> /\ save.done = 0
      /\ Len(save.cells) = 0 /\ Full = saved_size
      /\ saved_size \in Nat /\ saved_size <= Dist(tail, head)
      /\ tail \in Index /\ head \in Index /\ next_id \in Nat /\ first \in Nat
      /\ Dist(tail, tail) = 0
  <2>1. save.pc = "idle" /\ save.cells = <<>>
    BY DEF SaveBegin, SaveActive, Steps
  <2>2. Len(save.cells) = 0 /\ save.done \in Nat
    BY <2>1 DEF FileType
  <2>3. save.done = 0
    BY <2>2 DEF Steps
  <2>4. saved_size \in Nat /\ tail \in Index /\ head \in Index /\ next_id \in Nat /\ first \in Nat
    BY EndFacts DEF IInv, TypeOK
  <2>5. Start = tail /\ Gap = 0 /\ Dist(tail, tail) = 0
    BY <2>4, DistType DEF Start, Gap
  <2>6. QED
    BY <2>1, <2>2, <2>3, <2>4, <2>5 DEF Full, Sound, Plan
<1>2. /\ u \in Seq(Index) /\ Len(u) \in Nat /\ Len(u) = Dist(tail, head) - saved_size
      /\ \A k \in 1 .. Len(u) : u[k] \in Index /\ Dist(tail, u[k]) = saved_size + k - 1
      /\ SavedEnd \in Index /\ Dist(tail, SavedEnd) = saved_size
  BY <1>1, UnsavedFacts
<1>3. before \in Headers /\ after \in Headers
  BY <1>1, <1>2 DEF Headers, FileHeader
<1>4. /\ before.tail = tail /\ before.head = SavedEnd /\ before.next_id = next_id
      /\ after.tail = tail /\ after.head = head /\ after.next_id = next_id
  BY DEF FileHeader
<1>5. /\ save'.before = before /\ save'.after = after /\ save'.cells = u /\ save'.done = 0
      /\ save'.pc = IF u = <<>> THEN "after" ELSE "before"
      /\ save' \in [pc : {"idle", "before", "data", "after", "end"}, before : Headers,
                    after : Headers, cells : Seq(Index), done : Nat]
  <2>1. save' = [pc |-> IF u = <<>> THEN "after" ELSE "before", before |-> before,
                 after |-> after, cells |-> u, done |-> 0]
    BY DEF SaveBegin
  <2> HIDE DEF u, before, after
  <2>2. QED
    BY <1>2, <1>3, <2>1
<1>6. /\ Start' = tail /\ Gap' = 0 /\ Live' = Live /\ \A n : ItemEnd(n)' = ItemEnd(n)
      /\ mem' = mem /\ head' = head /\ tail' = tail /\ next_id' = next_id
      /\ saved_size' = saved_size /\ disk' = disk /\ hdr' = hdr /\ put' = put
  BY <1>1 DEF Start, Gap, Live, ItemEnd, EndOf, ring
<1>7. Full' = Dist(tail, head)
  BY <1>1, <1>2, <1>5, <1>6, DistType DEF Full
<1>8. \A j \in Index : Dist(tail, j) < saved_size => disk[j] = mem[j]
  BY <1>1 DEF Sound, InDisk
<1>9. ASSUME saved_size # 0
      PROVE  \E n \in Live : ItemEnd(n) = SavedEnd
  <2>1. PICK n \in Live : Dist(tail, ItemEnd(n)) = saved_size
    BY <1>1, <1>9 DEF Sound, Boundary
  <2>2. ItemEnd(n) = SavedEnd
    BY <1>1, <1>2, <2>1, ItemDist, DistSame
  <2>3. QED
    BY <2>2
<1>10. ASSUME Dist(tail, head) # 0
       PROVE  \E n \in Live : ItemEnd(n) = head
  <2>1. first # next_id
    BY <1>1, <1>10 DEF IInv, RingInv, Chained
  <2>2. first < next_id /\ next_id - 1 \in Live
    BY <1>1, <2>1, EndFacts DEF Live
  <2>3. ItemEnd(next_id - 1) = head
    BY <2>2 DEF IInv, RingInv, Chained, ItemEnd
  <2>4. QED
    BY <2>2, <2>3
<1>11. Steps'
  <2>1. Len(u) = 0 => u = <<>>
    BY <1>2
  <2>2. u = <<>> => Len(u) = 0
    OBVIOUS
  <2> HIDE DEF u
  <2>3. QED
    BY <1>2, <1>5, <2>1, <2>2 DEF Steps
<1>12. Plan'
  <2> HIDE DEF u
  <2>1. Plan' <=> /\ Full' <= Dist(tail, head)
                  /\ \A k \in 1 .. Len(u) : Dist(tail, u[k]) = saved_size + k - 1
    BY <1>5, <1>6 DEF Plan, Dist
  <2>2. QED
    BY <1>1, <1>2, <1>7, <2>1, DistType
<1>13. InDisk'
  <2> HIDE DEF u
  <2>1. saved_size + 0 = saved_size
    BY <1>1
  <2>2. QED
    BY <1>5, <1>6, <1>8, <2>1 DEF InDisk, Dist
<1>14. Boundary'
  <2>1. ASSUME NEW m \in {saved_size, Dist(tail, head)}, m > 0
        PROVE  \E n \in Live : Dist(tail, ItemEnd(n)) = m
    <3>1. CASE m = saved_size
      BY <1>2, <1>9, <2>1, <3>1
    <3>2. CASE m = Dist(tail, head)
      BY <1>10, <2>1, <3>2
    <3>3. QED
      BY <2>1, <3>1, <3>2
  <2>2. QED
    BY <1>6, <1>7, <2>1 DEF Boundary, Dist
<1>15. Covers(before, saved_size) /\ Covers(after, Dist(tail, head))
  <2> HIDE DEF before, after
  <2>1. QED
    BY <1>1, <1>2, <1>4, DistType DEF Covers
<1>16. Names'
  <2> HIDE DEF before, after, u
  <2>1. Covers(hdr, saved_size)
    BY <1>1 DEF Sound, Names, SaveBegin, SaveActive
  <2>2. save'.pc \notin {"data", "end"}
    BY <1>5
  <2>3. QED
    BY <1>1, <1>5, <1>6, <1>7, <1>15, <2>1, <2>2 DEF Names, Covers, Dist
<1>17. Newest'
  <2> HIDE DEF before, after, u
  <2>1. QED
    BY <1>1, <1>4, <1>5, <1>6, <1>7 DEF Newest, Dist
<1>18. Loads(disk, hdr)
  BY DEF Sound, Loadable
<1>19. Loads(disk, before)
  <2>1. CASE saved_size = 0
    <3>1. SavedEnd = tail
      BY <1>1, <1>2, <2>1, DistSame
    <3> HIDE DEF before
    <3>2. QED
      BY <1>3, <1>4, <3>1, EmptyChain
  <2>2. CASE saved_size # 0
    <3>1. PICK n \in Live : ItemEnd(n) = SavedEnd
      BY <1>9, <2>2
    <3>2. disk \in [Index -> FileCells]
      BY DEF FileType
    <3>3. \A j \in Index : Dist(tail, j) < Dist(tail, ItemEnd(n)) => disk[j] = mem[j]
      BY <1>2, <1>8, <3>1
    <3>4. before = FileHeader(tail, ItemEnd(n), next_id)
      BY <3>1
    <3> HIDE DEF before
    <3>5. QED
      BY <1>3, <3>2, <3>3, <3>4, RingChain
  <2>3. QED
    BY <2>1, <2>2
<1>20. Loads(Final', after)
  <2> DEFINE final == Final'
  <2>1. final = [j \in Index |-> IF \E k \in 1 .. Len(u) : u[k] = j THEN mem[j] ELSE disk[j]]
    <3> HIDE DEF u
    <3>1. QED
      BY <1>5, <1>6 DEF Final
  <2>2. final \in [Index -> FileCells]
    BY <2>1, CellTypes DEF FileType
  <2>3. ASSUME NEW j \in Index, Dist(tail, j) < Dist(tail, head)
        PROVE  final[j] = mem[j]
    <3>1. CASE Dist(tail, j) < saved_size
      BY <1>8, <2>1, <3>1
    <3>2. CASE saved_size <= Dist(tail, j)
      <4> HIDE DEF u, final
      <4>1. Dist(tail, j) \in Nat /\ Dist(tail, head) \in Nat
        BY <1>1, DistType
      <4> HIDE QueueConstants
      <4>2. PICK k \in 1 .. Len(u) : k = Dist(tail, j) - saved_size + 1
        BY <1>1, <1>2, <2>3, <3>2, <4>1
      <4>3. u[k] \in Index /\ Dist(tail, u[k]) = Dist(tail, j)
        BY <1>1, <1>2, <4>1, <4>2
      <4>4. u[k] = j
        BY <1>1, <4>3, DistSame
      <4>5. QED
        BY <2>1, <4>4
    <3>3. QED
      BY <1>1, <3>1, <3>2, DistType
  <2>4. CASE Dist(tail, head) = 0
    <3>1. head = tail
      BY <1>1, <2>4, DistSame
    <3> HIDE DEF after, final
    <3>2. QED
      BY <1>3, <1>4, <3>1, EmptyChain DEF final
  <2>5. CASE Dist(tail, head) # 0
    <3>1. PICK n \in Live : ItemEnd(n) = head
      BY <1>10, <2>5
    <3>2. after = FileHeader(tail, ItemEnd(n), next_id)
      BY <3>1
    <3>3. \A j \in Index : Dist(tail, j) < Dist(tail, ItemEnd(n)) => final[j] = mem[j]
      BY <2>3, <3>1
    <3> HIDE DEF after, final
    <3>4. Loads(final, after)
      BY <1>3, <2>2, <3>2, <3>3, RingChain
    <3>5. QED
      BY <3>4 DEF final
  <2>6. QED
    BY <2>4, <2>5
<1>21. Loadable'
  <2> HIDE DEF before, after, u
  <2>1. \A k \in 1 .. Len(u) : Dist(before.tail, before.head) <= Dist(before.tail, u[k])
    BY <1>1, <1>2, <1>4
  <2>2. QED
    BY <1>5, <1>6, <1>18, <1>19, <1>20, <2>1 DEF Loadable
<1>22. QED
  BY <1>5, <1>11, <1>12, <1>13, <1>14, <1>16, <1>17, <1>21

-----------------------------------------------------------------------------
(* The save writes *)

LEMMA SameRing ==
  ASSUME UNCHANGED <<ring, put>>, save'.cells = save.cells
  PROVE  /\ Start' = Start /\ Gap' = Gap /\ Full' = Full /\ Live' = Live
         /\ mem' = mem /\ head' = head /\ tail' = tail /\ next_id' = next_id
         /\ saved_size' = saved_size
         /\ \A n : ItemEnd(n)' = ItemEnd(n)
BY DEF ring, Start, Gap, Dist, Full, Live, ItemEnd, EndOf

LEMMA WriteBeforeKeeps ==
  ASSUME IInv, FileType, Steps, Sound, WriteBefore
  PROVE  FileType' /\ Steps' /\ Sound'
<1>1. /\ save.pc = "before" /\ save'.pc = "data" /\ save'.before = save.before
      /\ save'.after = save.after /\ save'.cells = save.cells /\ save'.done = save.done
      /\ hdr' = save.before /\ disk' = disk /\ closed' = closed /\ late' = late
      /\ save.before \in Headers /\ UNCHANGED <<ring, put>>
  BY DEF WriteBefore, FileType, qvars
<1>2. FileType'
  BY <1>1 DEF WriteBefore, FileType
<1>3. Len(save.cells) > 0
  BY <1>1 DEF Steps, FileType
<1>4. Steps'
  BY <1>1, <1>3 DEF Steps
<1>5. Plan' /\ InDisk' /\ Boundary'
  BY <1>1, SameRing DEF Sound, Plan, InDisk, Boundary, Dist
<1>6. Names' /\ Newest'
  BY <1>1, SameRing DEF Sound, Names, Covers, Newest, Dist, SaveActive
<1>7. Loads(disk', hdr')
  BY <1>1 DEF Sound, Loadable
<1>8. Final' = Final
  BY <1>1, SameRing DEF Final
<1>9. Loads(Final', save'.after)
  BY <1>1, <1>8 DEF Sound, Loadable
<1>10. Loadable'
  BY <1>1, <1>7, <1>9 DEF Sound, Loadable
<1>11. LastSave'
  BY <1>1, SameRing DEF Sound, LastSave, SaveActive, Dist
<1>12. QED
  BY <1>2, <1>4, <1>5, <1>6, <1>10, <1>11 DEF Sound

LEMMA WriteAfterKeeps ==
  ASSUME IInv, FileType, Steps, Sound, WriteAfter
  PROVE  FileType' /\ Steps' /\ Sound'
<1>1. /\ save.pc = "after" /\ save'.pc = "end" /\ save'.before = save.before
      /\ save'.after = save.after /\ save'.cells = save.cells /\ save'.done = save.done
      /\ hdr' = save.after /\ disk' = disk /\ closed' = closed /\ late' = late
      /\ save.after \in Headers /\ UNCHANGED <<ring, put>>
  BY DEF WriteAfter, FileType, qvars
<1>2. FileType'
  BY <1>1 DEF WriteAfter, FileType
<1>3. Steps'
  BY <1>1 DEF Steps
<1>4. Plan' /\ InDisk' /\ Boundary'
  BY <1>1, SameRing DEF Sound, Plan, InDisk, Boundary, Dist
<1>5. Names' /\ Newest'
  BY <1>1, SameRing DEF Sound, Names, Covers, Newest, Dist, SaveActive
<1>6. Final = disk
  <2>1. save.done = Len(save.cells) /\ Len(save.cells) \in Nat
    BY <1>1 DEF Steps, FileType
  <2>2. save.done + 1 .. Len(save.cells) = {}
    BY <2>1
  <2>3. QED
    BY <2>2 DEF Final, FileType
<1>7. Loads(disk', hdr')
  BY <1>1, <1>6 DEF Sound, Loadable
<1>8. Loadable'
  BY <1>1, <1>7 DEF Loadable
<1>9. LastSave'
  BY <1>1, SameRing DEF Sound, LastSave, SaveActive, Dist
<1>10. QED
  BY <1>2, <1>3, <1>4, <1>5, <1>8, <1>9 DEF Sound

\* The next cell of a save.
LEMMA NextCell ==
  ASSUME IInv, FileType, PutOK, Steps, Sound, save.pc = "data"
  PROVE  /\ save.done + 1 \in 1 .. Len(save.cells) /\ save.cells[save.done + 1] \in Index
         /\ Start \in Index /\ save.done \in Nat /\ saved_size \in Nat
         /\ Dist(Start, save.cells[save.done + 1]) = saved_size + save.done
<1>1. save.done \in Nat /\ save.cells \in Seq(Index) /\ saved_size \in Nat
  BY DEF FileType, IInv, TypeOK
<1>2. PICK k \in 1 .. Len(save.cells) : k = save.done + 1
  BY <1>1 DEF Steps
<1>3. save.cells[k] \in Index
  BY <1>1, <1>2, ElementOfSeq
<1>4. Dist(Start, save.cells[k]) = saved_size + save.done
  BY <1>1, <1>2 DEF Sound, Plan
<1>5. Start \in Index
  BY EndFacts DEF Start, PutOK
<1>6. QED
  BY <1>1, <1>2, <1>3, <1>4, <1>5

LEMMA WriteCellKeeps ==
  ASSUME IInv, FileType, PutOK, Steps, WriteCell
  PROVE  FileType' /\ Steps' /\ (Sound => Sound')
<1> DEFINE c == save.cells[save.done + 1]
<1>1. /\ save.pc = "data" /\ save'.pc \in {"data", "after"} /\ save'.before = save.before
      /\ save'.after = save.after /\ save'.cells = save.cells /\ save'.done = save.done + 1
      /\ hdr' = hdr /\ disk' = [disk EXCEPT ![c] = mem[c]] /\ closed' = closed /\ late' = late
      /\ UNCHANGED <<ring, put>>
      /\ save'.pc = IF save.done + 1 = Len(save.cells) THEN "after" ELSE "data"
      /\ save' = [save EXCEPT !.done = save'.done, !.pc = save'.pc]
      /\ UNCHANGED <<closer, overrun, late>>
  BY DEF WriteCell, FileType, qvars
<1>2. /\ save.done \in Nat /\ save.cells \in Seq(Index) /\ Len(save.cells) \in Nat
      /\ save.done + 1 \in 1 .. Len(save.cells)
  BY <1>1 DEF FileType, Steps
<1>3. c \in Index
  BY <1>2, ElementOfSeq
<1>4. mem \in [Index -> FileCells] /\ disk \in [Index -> FileCells]
  BY CellTypes DEF FileType
<1> HIDE DEF c
<1>5. disk' \in [Index -> FileCells] /\ disk'[c] = mem[c]
      /\ \A j \in Index : j # c => disk'[j] = disk[j]
  BY <1>1, <1>3, <1>4
<1>6. FileType'
  <2>1. save' \in [pc : {"idle", "before", "data", "after", "end"}, before : Headers,
                   after : Headers, cells : Seq(Index), done : Nat]
    BY <1>1, <1>2 DEF FileType
  <2>2. QED
    BY <1>1, <1>5, <2>1 DEF FileType
<1>7. Steps'
  BY <1>1, <1>2 DEF Steps
<1>8. ASSUME Sound
      PROVE  Sound'
  <2>1. Start \in Index /\ saved_size \in Nat /\ Dist(Start, c) = saved_size + save.done
    BY <1>1, <1>8, NextCell DEF c
  <2>2. Plan' /\ Boundary'
    BY <1>1, <1>8, SameRing DEF Sound, Plan, Boundary, Dist
  <2>3. InDisk'
    <3>1. ASSUME NEW j \in Index, Dist(Start, j) < saved_size + (save.done + 1)
          PROVE  disk'[j] = mem[j]
      <4>1. CASE Dist(Start, j) < saved_size + save.done
        BY <1>5, <1>8, <3>1, <4>1 DEF Sound, InDisk
      <4>2. CASE ~(Dist(Start, j) < saved_size + save.done)
        <5>1. Dist(Start, j) = Dist(Start, c)
          BY <1>2, <2>1, <3>1, <4>2, DistType
        <5>2. j = c
          BY <1>3, <2>1, <5>1, DistSame
        <5>3. QED
          BY <1>5, <5>2
      <4>3. QED
        BY <4>1, <4>2
    <3>2. QED
      BY <1>1, <3>1, SameRing DEF InDisk, Dist
  <2>4. Names' /\ Newest'
    BY <1>1, <1>8, SameRing DEF Sound, Names, Covers, Newest, Dist, SaveActive
  <2>5. Final' = Final
    <3>1. ASSUME NEW j \in Index
          PROVE  (IF \E k \in save.done + 1 + 1 .. Len(save.cells) : save.cells[k] = j
                  THEN mem[j] ELSE disk'[j])
                 = IF \E k \in save.done + 1 .. Len(save.cells) : save.cells[k] = j
                   THEN mem[j] ELSE disk[j]
      <4>1. CASE j = c
        BY <1>2, <1>5, <4>1 DEF c
      <4>2. CASE j # c
        <5>1. disk'[j] = disk[j]
          BY <1>5, <4>2
        <5>2. \A k \in save.done + 1 .. Len(save.cells) :
                save.cells[k] = j => k \in save.done + 1 + 1 .. Len(save.cells)
          BY <1>2, <4>2 DEF c
        <5>3. save.done + 1 + 1 .. Len(save.cells) \subseteq save.done + 1 .. Len(save.cells)
          BY <1>2
        <5>4. QED
          BY <5>1, <5>2, <5>3
      <4>3. QED
        BY <4>1, <4>2
    <3>2. QED
      BY <1>1, <3>1, SameRing DEF Final
  <2>6. ASSUME NEW k \in 1 .. Len(save.cells)
        PROVE  Dist(save.before.tail, save.before.head) <= Dist(save.before.tail, save.cells[k])
    BY <1>1, <1>8 DEF Sound, Loadable
  <2>7. Loads(disk', hdr)
    <3>1. hdr = save.before /\ hdr \in Headers
      BY <1>1, <1>8 DEF Sound, Names, FileType
    <3>2. Dist(hdr.tail, hdr.head) <= Dist(hdr.tail, c)
      BY <1>2, <2>6, <3>1 DEF c
    <3>3. hdr.tail \in Index /\ hdr.head \in Index
      BY <3>1 DEF Headers
    <3>4. \A j \in Index : Dist(hdr.tail, j) < Dist(hdr.tail, hdr.head) => disk'[j] = disk[j]
      BY <1>3, <1>5, <3>2, <3>3, DistType
    <3>5. Loads(disk, hdr)
      BY <1>8 DEF Sound, Loadable
    <3>6. QED
      BY <1>4, <1>5, <3>1, <3>4, <3>5, ChainStays
  <2>8. Loads(Final', save.after)
    BY <1>1, <1>8, <2>5 DEF Sound, Loadable
  <2>9. Loadable'
    BY <1>1, <2>6, <2>7, <2>8 DEF Loadable
  <2>10. LastSave'
    BY <1>1, <1>8, SameRing DEF Sound, LastSave, SaveActive, Dist
  <2>11. QED
    BY <2>2, <2>3, <2>4, <2>9, <2>10 DEF Sound
<1>9. QED
  BY <1>6, <1>7, <1>8

LEMMA SaveEndRing ==
  ASSUME IInv, save \in Saves, SaveEnd
  PROVE  IInv'
<1>1. saved_size' \in Nat
  BY DEF SaveEnd, IInv, TypeOK, Saves
<1>2. TypeOK'
  BY <1>1 DEF SaveEnd, IInv, TypeOK, Live
<1>3. RingInv'
  BY DEF SaveEnd, IInv, RingInv, ItemsIntact, Holds, Chained, Placed, ItemsUnique, Live, Lap,
         EndOf
<1>4. QED
  BY <1>2, <1>3 DEF IInv

LEMMA SaveEndKeeps ==
  ASSUME IInv, FileType, PutOK, Steps, SaveEnd
  PROVE  FileType' /\ Steps' /\ (Sound => Sound')
<1> USE QueueConstants
<1>1. /\ save.pc = "end" /\ ~put.busy /\ save.cells \in Seq(Index) /\ Len(save.cells) \in Nat
      /\ saved_size \in Nat /\ save.done = Len(save.cells)
      /\ saved_size' = Full /\ save' = NoSave
      /\ save'.pc = "idle" /\ save'.cells = <<>> /\ save'.done = 0 /\ Len(save'.cells) = 0
  BY DEF SaveEnd, FileType, Steps, IInv, TypeOK, Full, NoSave
<1>2. /\ mem' = mem /\ head' = head /\ tail' = tail /\ next_id' = next_id /\ first' = first
      /\ pos' = pos /\ put' = put /\ hdr' = hdr /\ disk' = disk /\ closed' = closed
      /\ late' = late
  BY DEF SaveEnd
<1>3. Full \in Nat /\ Full = saved_size + save.done
  BY <1>1 DEF Full
<1>5. tail \in Index /\ 0 \in Index
  BY EndFacts DEF Index
<1>6. FileType'
  <2>1. NoSave.before \in Headers /\ NoSave.after \in Headers
    BY <1>5 DEF NoSave, Headers, FileHeader
  <2>2. <<>> \in Seq(Index)
    OBVIOUS
  <2>3. save' \in [pc : {"idle", "before", "data", "after", "end"}, before : Headers,
                   after : Headers, cells : Seq(Index), done : Nat]
    BY <1>1, <2>1, <2>2 DEF NoSave
  <2>4. QED
    BY <1>2, <2>3 DEF FileType, SaveEnd
<1>7. Steps'
  BY <1>1 DEF Steps
<1>8. ASSUME Sound
      PROVE  Sound'
  <2>1. /\ Start = tail /\ Start' = tail /\ Gap = 0 /\ Gap' = 0 /\ Full' = Full
        /\ Live' = Live /\ \A n : ItemEnd(n)' = ItemEnd(n)
    BY <1>1, <1>2, <1>3, <1>5, DistType DEF Start, Gap, Dist, Full, Live, ItemEnd, EndOf
  <2>2. Plan' /\ InDisk' /\ Boundary'
    <3>1. Plan'
      BY <1>1, <1>2, <1>8, <2>1 DEF Sound, Plan, Dist
    <3>2. InDisk'
      BY <1>1, <1>2, <1>3, <1>8, <2>1 DEF Sound, InDisk, Dist
    <3>3. Boundary'
      BY <1>1, <1>2, <1>8, <2>1 DEF Sound, Boundary, Dist
    <3>4. QED
      BY <3>1, <3>2, <3>3
  <2>3. Names' /\ Newest'
    BY <1>1, <1>2, <1>8, <2>1 DEF Sound, Names, Covers, Newest, Dist, SaveActive
  <2>4. Loadable'
    BY <1>1, <1>2, <1>8 DEF Sound, Loadable
  <2>5. LastSave'
    <3>1. SUFFICES ASSUME closed, ~late
                   PROVE  hdr = FileHeader(tail, head, next_id) /\ Full = Dist(tail, head)
      BY <1>1, <1>2 DEF LastSave, SaveActive, Dist
    <3>2. next_id = save.after.next_id
      BY <1>1, <1>8, <3>1 DEF Sound, LastSave, SaveActive
    <3>3. save.after.tail = tail /\ save.after.head = head /\ Full = Dist(tail, head)
      BY <1>1, <1>8, <2>1, <3>2 DEF Sound, Newest, SaveActive
    <3>4. hdr = save.after /\ hdr \in Headers
      BY <1>1, <1>8 DEF Sound, Names, FileType
    <3>5. hdr = FileHeader(tail, head, next_id)
      BY <3>2, <3>3, <3>4 DEF Headers, FileHeader
    <3>6. QED
      BY <3>3, <3>5
  <2>6. QED
    BY <2>2, <2>3, <2>4, <2>5 DEF Sound
<1>9. QED
  BY <1>6, <1>7, <1>8

-----------------------------------------------------------------------------
(* Put, as the save sees it *)

\* Steps that leave the ring, the save and the file alone.
LEMMA QuietKeeps ==
  ASSUME Steps, Start' = Start, UNCHANGED <<ring, save, hdr, disk, closed, late>>
  PROVE  Steps' /\ (Sound => Sound')
<1>1. /\ Gap' = Gap /\ Full' = Full /\ Live' = Live
      /\ mem' = mem /\ head' = head /\ tail' = tail /\ next_id' = next_id
      /\ saved_size' = saved_size /\ save' = save /\ hdr' = hdr /\ disk' = disk
      /\ closed' = closed /\ late' = late
      /\ \A n : ItemEnd(n)' = ItemEnd(n)
  BY DEF ring, Gap, Dist, Full, Live, ItemEnd, EndOf
<1>2. Steps'
  BY <1>1 DEF Steps
<1>3. ASSUME Sound
      PROVE  Sound'
  <2>1. Plan' /\ InDisk' /\ Boundary'
    BY <1>1, <1>3 DEF Sound, Plan, InDisk, Boundary, Dist
  <2>2. Names' /\ Newest'
    BY <1>1, <1>3 DEF Sound, Names, Covers, Newest, Dist, SaveActive
  <2>3. Final' = Final
    BY <1>1 DEF Final
  <2>4. Loadable'
    BY <1>1, <1>3, <2>3 DEF Sound, Loadable, Dist
  <2>5. LastSave'
    BY <1>1, <1>3 DEF Sound, LastSave, SaveActive, Dist
  <2>6. QED
    BY <2>1, <2>2, <2>4, <2>5 DEF Sound
<1>4. QED
  BY <1>2, <1>3

\* Where the kept part of the ring is, seen from where the saved part begins.
LEMMA GapFacts ==
  ASSUME IInv, PutOK, put.busy
  PROVE  /\ Start \in Index /\ tail \in Index /\ head \in Index /\ Gap \in Nat
         /\ Dist(tail, head) \in Nat /\ Dist(Start, head) = Gap + Dist(tail, head)
         /\ Dist(Start, head) < DataSize
         /\ \A j \in Index : /\ Dist(Start, j) \in Nat /\ Dist(tail, j) \in Nat
                             /\ Gap <= Dist(Start, j) \/ Dist(tail, j) <= Dist(tail, head)
                                  => Dist(Start, j) = Gap + Dist(tail, j)
<1>1. Start \in Index /\ tail \in Index /\ head \in Index
  BY EndFacts DEF Start, PutOK
<1>2. \A j \in Index : Dist(Start, j) \in Nat /\ Dist(tail, j) \in Nat
  BY <1>1, DistType
<1>3. Gap \in Nat /\ Gap <= Dist(Start, head)
  BY <1>1, DistType DEF Gap, PutOK, Start
<1>4. Dist(Start, head) = Gap + Dist(tail, head) /\ Dist(Start, head) < DataSize
  BY <1>1, <1>3, DistVia, DistType DEF Gap
<1>5. ASSUME NEW j \in Index, Gap <= Dist(Start, j) \/ Dist(tail, j) <= Dist(tail, head)
      PROVE  Dist(Start, j) = Gap + Dist(tail, j)
  <2>1. Gap <= Dist(Start, j) \/ Gap + Dist(tail, j) < DataSize
    BY <1>1, <1>2, <1>3, <1>4, <1>5, QueueConstants
  <2>2. QED
    BY <1>1, <2>1, DistVia DEF Gap
<1>6. QED
  BY <1>1, <1>2, <1>3, <1>4, <1>5

LEMMA DropKeeps ==
  ASSUME RoomForThree, IInv, FileType, PutOK, Steps, PutDrop, ~closed,
         UNCHANGED <<save, hdr, disk, late>>
  PROVE  PutOK' /\ Steps' /\ (Sound => Sound')
<1> USE QueueConstants
<1>1. /\ put.busy /\ put' = put /\ mem' = mem /\ head' = head /\ next_id' = next_id
      /\ saved_size' = saved_size /\ closed' = closed /\ save' = save /\ hdr' = hdr
      /\ disk' = disk /\ late' = late /\ first' = first + 1
      /\ pos' = [n \in first + 1 .. next_id - 1 |-> pos[n]]
  BY DEF PutDrop
<1>2. /\ first \in Nat /\ next_id \in Nat /\ first + 1 < next_id
      /\ first \in Live /\ first + 1 \in Live /\ first + 1 \in Live' /\ Live' = Live \ {first}
  <2>1. first + 1 < next_id
    BY LoopLeavesOne DEF PutDrop
  <2>2. QED
    BY <1>1, <2>1, EndFacts DEF Live
<1>3. \A n \in Live' : n \in Live /\ pos'[n] = pos[n] /\ ItemEnd(n)' = ItemEnd(n)
  BY <1>1, <1>2 DEF Live, ItemEnd, EndOf
<1>4. tail' = pos[first + 1] /\ tail' \in Index
  <2>1. IInv'
    BY DropStep
  <2>2. tail' = pos'[first + 1]
    BY <1>1, <1>2, <2>1 DEF IInv, RingInv, Chained
  <2>3. QED
    BY <1>2, <1>3, <2>2, ItemDist
<1>5. Start' = Start /\ Full' = Full
  BY <1>1 DEF Start, Full
<1>6. /\ Start \in Index /\ tail \in Index /\ head \in Index /\ Gap \in Nat
      /\ Dist(tail, head) \in Nat /\ Dist(Start, head) = Gap + Dist(tail, head)
      /\ \A j \in Index : /\ Dist(Start, j) \in Nat /\ Dist(tail, j) \in Nat
                          /\ Dist(tail, j) <= Dist(tail, head)
                               => Dist(Start, j) = Gap + Dist(tail, j)
  BY <1>1, GapFacts
<1>7. /\ ItemEnd(first) \in Index /\ ItemEnd(first + 1) \in Index
      /\ Dist(tail, ItemEnd(first)) <= Dist(tail, tail')
      /\ Dist(tail, tail') <= Dist(tail, head)
      /\ Dist(tail, ItemEnd(first)) <= Dist(tail, head)
  <2>1. Dist(tail, ItemEnd(first)) <= Dist(tail, pos[first + 1])
    BY <1>2, ItemOrder
  <2>2. /\ ItemEnd(first) \in Index /\ ItemEnd(first + 1) \in Index
        /\ pos[first + 1] < ItemEnd(first + 1) /\ pos[first + 1] \in Nat
        /\ Dist(tail, ItemEnd(first + 1))
             = Dist(tail, pos[first + 1]) + ItemEnd(first + 1) - pos[first + 1]
        /\ Dist(tail, ItemEnd(first + 1)) <= Dist(tail, head)
    <3>1. /\ ItemEnd(first) \in Index /\ ItemEnd(first + 1) \in Index
          /\ pos[first + 1] < ItemEnd(first + 1) /\ pos[first + 1] \in Index
      BY <1>2, ItemDist
    <3>2. ItemEnd(first + 1) \in pos[first + 1] .. ItemEnd(first + 1)
      BY <3>1 DEF Index
    <3>3. QED
      BY <1>2, <3>1, <3>2, ItemDist DEF Index
  <2>3. Dist(tail, pos[first + 1]) \in Nat /\ ItemEnd(first + 1) \in Nat
    BY <1>4, <1>6, <2>2 DEF Index
  <2>4. QED
    BY <1>4, <1>6, <2>1, <2>2, <2>3
<1>8. Gap' = Gap + Dist(tail, tail') /\ Gap' <= Dist(Start, head)
  <2>1. Gap' = Dist(Start, tail')
    BY <1>5 DEF Gap, Dist
  <2>2. QED
    BY <1>4, <1>6, <1>7, <2>1
<1>9. PutOK'
  <2>1. PutOK' <=> (put.busy => put.orig_tail \in Index /\ Gap' <= Dist(Start, head))
    BY <1>1, <1>5 DEF PutOK, Gap, Start, Dist
  <2>2. QED
    BY <1>8, <2>1 DEF PutOK
<1>10. Steps'
  BY <1>1 DEF Steps
<1>11. ASSUME Sound
       PROVE  Sound'
  <2>1. Plan' /\ InDisk'
    BY <1>1, <1>5, <1>11 DEF Sound, Plan, InDisk, Dist
  <2>2. Boundary'
    <3>1. ASSUME NEW m \in {saved_size, Full}, m > Gap'
          PROVE  \E n \in Live' : Dist(Start, ItemEnd(n)) = m
      <4>1. m \in Nat
        <5>1. saved_size \in Nat /\ Len(save.cells) \in Nat
          BY DEF IInv, TypeOK, FileType
        <5>2. QED
          BY <3>1, <5>1 DEF Full
      <4>2. m > Gap
        BY <1>4, <1>6, <1>8, <3>1, <4>1
      <4>3. PICK n \in Live : Dist(Start, ItemEnd(n)) = m
        BY <1>11, <3>1, <4>2 DEF Sound, Boundary
      <4>4. Dist(Start, ItemEnd(first)) # m
        BY <1>4, <1>6, <1>7, <1>8, <3>1, <4>1
      <4>5. QED
        BY <1>2, <4>3, <4>4
    <3>2. QED
      BY <1>1, <1>3, <1>5, <3>1 DEF Boundary, Dist
  <2>3. Names' /\ Newest'
    BY <1>1, <1>5, <1>11 DEF Sound, Names, Covers, Newest, Dist, SaveActive
  <2>4. Final' = Final
    BY <1>1 DEF Final
  <2>5. Loadable'
    BY <1>1, <1>11, <2>4 DEF Sound, Loadable, Dist
  <2>6. LastSave'
    BY <1>1 DEF LastSave
  <2>7. QED
    BY <2>1, <2>2, <2>3, <2>5, <2>6 DEF Sound
<1>12. QED
  BY <1>9, <1>10, <1>11

\* The cells of the kept part of the ring stay as they are.
LEMMA CommitDist ==
  ASSUME IInv, PutCommit
  PROVE  /\ Dist(tail, head) <= Dist(tail, NewHead)
         /\ \A j \in Index : Dist(tail, j) < Dist(tail, head) => mem'[j] = mem[j]
         /\ \A n \in Live : n \in Live' /\ pos'[n] = pos[n] /\ ItemEnd(n)' = ItemEnd(n)
<1> USE QueueConstants
<1>1. /\ head \in Nat /\ tail \in Nat /\ head < DataSize /\ tail < DataSize
      /\ Base \in Nat /\ NewHead \in Nat /\ NewHead + Hdr <= DataSize
      /\ NewHead = Base + Hdr + put.size /\ put.size \in Nat
      /\ Wraps => Base = 0 /\ NewHead + Hdr < tail /\ tail <= head
      /\ ~Wraps /\ head < tail => Base = head /\ NewHead + Hdr <= tail
      /\ ~Wraps /\ tail <= head => Base = head
  BY CommitPlace, EndFacts DEF Index
<1>2. Dist(tail, head) <= Dist(tail, NewHead)
  BY <1>1 DEF Dist
<1>3. ASSUME NEW j \in Index, Dist(tail, j) < Dist(tail, head)
      PROVE  mem'[j] = mem[j]
  <2>1. ~Touched(j)
    BY <1>1, <1>3 DEF Touched, Dist, Index
  <2>2. QED
    BY <2>1, CommitCells
<1>4. ASSUME NEW n \in Live
      PROVE  n \in Live' /\ pos'[n] = pos[n] /\ ItemEnd(n)' = ItemEnd(n)
  <2>1. n \in Nat /\ first <= n /\ n < next_id /\ first \in Nat /\ next_id \in Nat
    BY ItemFacts, EndFacts
  <2>2. n \in Live' /\ pos'[n] = pos[n]
    BY <2>1 DEF PutCommit, Live
  <2>3. pos[n] \in Index /\ pos[n] \in pos[n] .. ItemEnd(n) - 1
    BY ItemFacts
  <2>4. mem'[pos[n]] = mem[pos[n]]
    BY <2>3, CommitSpares, CommitCells
  <2>5. QED
    BY <2>2, <2>4 DEF ItemEnd, EndOf
<1>5. QED
  BY <1>2, <1>3, <1>4

\* What a header names beyond _tail moves with the saved part.
LEMMA CoversShift ==
  ASSUME IInv, PutOK, put.busy, NEW h \in Headers, NEW m \in Nat, m > Gap, Covers(h, m)
  PROVE  Dist(h.tail, tail) + (m - Gap) = Dist(h.tail, h.head)
<1>1. /\ Start \in Index /\ tail \in Index /\ Gap \in Nat
      /\ h.tail \in Index /\ h.head \in Index
  BY GapFacts DEF Headers
<1>2. Dist(h.tail, Start) \in Nat /\ Dist(h.tail, h.head) \in Nat /\ Dist(h.tail, h.head) < DataSize
  BY <1>1, DistType
<1>3. Dist(h.tail, Start) + m = Dist(h.tail, h.head)
  BY <1>1 DEF Covers
<1>4. Dist(h.tail, tail) = Dist(h.tail, Start) + Gap
  <2>1. Dist(h.tail, Start) + Dist(Start, tail) < DataSize
    BY <1>1, <1>2, <1>3, QueueConstants DEF Gap
  <2>2. QED
    BY <1>1, <2>1, DistVia DEF Gap
<1>5. QED
  BY <1>1, <1>2, <1>3, <1>4

LEMMA CommitKeeps ==
  ASSUME IInv, FileType, PutOK, Steps, PutCommit, ~closed,
         UNCHANGED <<save, hdr, disk, late>>
  PROVE  /\ Overwritten = Gap /\ Steps'
         /\ Sound /\ (SaveActive => Gap <= saved_size) => Sound'
<1>1. /\ put.busy /\ put' = NoPut /\ put'.busy = FALSE /\ head' = NewHead
      /\ tail' = tail /\ first' = first
      /\ next_id' = next_id + 1 /\ next_id \in Nat
      /\ saved_size' = IF saved_size > Overwritten THEN saved_size - Overwritten ELSE 0
      /\ closed' = closed /\ save' = save /\ hdr' = hdr /\ disk' = disk /\ late' = late
  BY DEF PutCommit, NoPut, IInv, TypeOK
<1>2. /\ Start \in Index /\ tail \in Index /\ head \in Index /\ Gap \in Nat
      /\ Dist(tail, head) \in Nat /\ Dist(Start, head) = Gap + Dist(tail, head)
      /\ Dist(Start, head) < DataSize
  BY <1>1, GapFacts
<1>11. ASSUME NEW j \in Index
       PROVE  /\ Dist(Start, j) \in Nat /\ Dist(tail, j) \in Nat
              /\ Gap <= Dist(Start, j) \/ Dist(tail, j) <= Dist(tail, head)
                   => Dist(Start, j) = Gap + Dist(tail, j)
  BY <1>1, GapFacts
<1>3. /\ Dist(tail, head) <= Dist(tail, NewHead)
      /\ \A j \in Index : Dist(tail, j) < Dist(tail, head) => mem'[j] = mem[j]
      /\ \A n \in Live : n \in Live' /\ ItemEnd(n)' = ItemEnd(n)
  BY CommitDist
<1>4. NewHead \in Index /\ Dist(tail, NewHead) \in Nat
  BY <1>11, CommitPlace
<1>5. Overwritten = Gap
  BY <1>1, EndFacts DEF Overwritten, Gap, Start, Dist, PutOK, Index
<1>6. Start' = tail /\ Gap' = 0
  BY <1>1, <1>2, DistType DEF Start, Gap, Dist
<1>7. /\ saved_size \in Nat /\ save.cells \in Seq(Index) /\ Len(save.cells) \in Nat
      /\ save.done \in Nat /\ save.done <= Len(save.cells)
      /\ save.before \in Headers /\ save.after \in Headers /\ hdr \in Headers
      /\ Full \in Nat /\ Full = saved_size + Len(save.cells)
      /\ saved_size <= Full /\ saved_size + save.done <= Full
  <2>1. /\ saved_size \in Nat /\ save.cells \in Seq(Index) /\ Len(save.cells) \in Nat
        /\ save.done \in Nat /\ save.done <= Len(save.cells)
        /\ save.before \in Headers /\ save.after \in Headers /\ hdr \in Headers
    BY DEF IInv, TypeOK, FileType, Steps
  <2>2. QED
    BY <2>1 DEF Full
<1>8. Steps'
  BY <1>1 DEF Steps
<1>9. ASSUME Sound, SaveActive => Gap <= saved_size
      PROVE  Sound'
  <2>1. /\ saved_size' \in Nat /\ Full' = saved_size' + Len(save.cells)
        /\ Full <= Dist(Start, head)
        /\ ~SaveActive => Len(save.cells) = 0
        /\ Gap <= saved_size => saved_size' = saved_size - Gap /\ Full' = Full - Gap
        /\ ~(Gap <= saved_size) => saved_size' = 0 /\ Full' = 0 /\ save.done = 0
                                   /\ Len(save.cells) = 0 /\ ~SaveActive
    <3>1. ~SaveActive => Len(save.cells) = 0
      BY DEF SaveActive, Steps
    <3>2. Full' = saved_size' + Len(save.cells)
      BY <1>1 DEF Full
    <3>3. Full <= Dist(Start, head)
      BY <1>9 DEF Sound, Plan
    <3>4. saved_size' = IF saved_size > Gap THEN saved_size - Gap ELSE 0
      BY <1>1, <1>5
    <3>5. CASE Gap <= saved_size
      <4>1. saved_size' = saved_size - Gap
        BY <1>2, <1>7, <3>4, <3>5
      <4>2. saved_size' \in Nat /\ Full' = Full - Gap
        BY <1>2, <1>7, <3>2, <3>5, <4>1
      <4>3. QED
        BY <3>1, <3>2, <3>3, <3>5, <4>1, <4>2
    <3>6. CASE ~(Gap <= saved_size)
      <4>1. saved_size' = 0 /\ ~SaveActive
        BY <1>2, <1>7, <1>9, <3>4, <3>6
      <4>2. Full' = 0 /\ save.done = 0
        BY <1>7, <3>1, <3>2, <4>1
      <4>3. QED
        BY <3>1, <3>2, <3>3, <3>6, <4>1, <4>2
    <3>7. QED
      BY <3>5, <3>6
  <2>2. ASSUME NEW k \in 1 .. Len(save.cells)
        PROVE  /\ save.cells[k] \in Index
               /\ Dist(tail, save.cells[k]) = saved_size' + k - 1
               /\ mem'[save.cells[k]] = mem[save.cells[k]]
    <3>1. save.cells[k] \in Index /\ Gap <= saved_size
      BY <1>7, <2>1, ElementOfSeq
    <3>2. Dist(Start, save.cells[k]) = saved_size + k - 1
      BY <1>9 DEF Sound, Plan
    <3>3. Dist(Start, save.cells[k]) = Gap + Dist(tail, save.cells[k])
      <4>1. Gap <= Dist(Start, save.cells[k])
        BY <1>2, <1>7, <3>1, <3>2
      <4>2. QED
        BY <1>11, <3>1, <4>1
    <3>4. /\ Dist(tail, save.cells[k]) \in Nat /\ k \in Nat /\ k <= Len(save.cells)
          /\ saved_size' = saved_size - Gap /\ Full <= Dist(Start, head)
      BY <1>7, <1>11, <2>1, <3>1
    <3>5. Dist(tail, save.cells[k]) = saved_size' + k - 1
      <4>1. Dist(tail, save.cells[k]) = (saved_size - Gap) + k - 1
        BY <1>2, <1>7, <3>2, <3>3, <3>4
      <4>2. QED
        BY <3>4, <4>1
    <3>6. Dist(tail, save.cells[k]) < Dist(tail, head)
      BY <1>2, <1>7, <3>2, <3>3, <3>4
    <3>7. QED
      BY <1>3, <3>1, <3>5, <3>6
  <2>3. Plan'
    <3>1. Full' <= Dist(tail, NewHead)
      BY <1>2, <1>3, <1>4, <1>7, <2>1
    <3>2. Plan' <=> /\ Full' <= Dist(tail, NewHead)
                    /\ \A k \in 1 .. Len(save.cells) :
                         Dist(tail, save.cells[k]) = saved_size' + k - 1
      BY <1>1, <1>6 DEF Plan, Dist
    <3>3. QED
      BY <2>2, <3>1, <3>2
  <2>4. InDisk'
    <3>1. ASSUME NEW j \in Index, Dist(tail, j) < saved_size' + save.done
          PROVE  disk[j] = mem'[j]
      <4>1. Dist(tail, j) \in Nat /\ Gap <= saved_size
        BY <1>2, <1>11, <2>1, <3>1
      <4>2. Dist(tail, j) < Dist(tail, head) /\ Gap + Dist(tail, j) < saved_size + save.done
        <5>1. saved_size' = saved_size - Gap /\ Full <= Dist(Start, head)
          BY <2>1, <4>1
        <5>2. QED
          BY <1>2, <1>7, <3>1, <4>1, <5>1
      <4>3. Dist(Start, j) < saved_size + save.done
        BY <1>2, <1>11, <4>1, <4>2
      <4>4. disk[j] = mem[j]
        BY <1>9, <4>3 DEF Sound, InDisk
      <4>5. QED
        BY <1>3, <4>2, <4>4
    <3>2. InDisk' <=> \A j \in Index : Dist(tail, j) < saved_size' + save.done => disk[j] = mem'[j]
      BY <1>1, <1>6 DEF InDisk, Dist
    <3>3. QED
      BY <3>1, <3>2
  <2>5. Boundary'
    <3>1. ASSUME NEW m \in {saved_size', Full'}, m > 0
          PROVE  \E n \in Live' : Dist(tail, ItemEnd(n)') = m
      <4>1. m \in Nat /\ m + Gap \in {saved_size, Full} /\ m + Gap > Gap
        <5>1. CASE Gap <= saved_size
          <6>1. m \in {saved_size - Gap, Full - Gap}
            BY <2>1, <3>1, <5>1
          <6>2. QED
            BY <1>2, <1>7, <3>1, <6>1
        <5>2. CASE ~(Gap <= saved_size)
          BY <2>1, <3>1, <5>2
        <5>3. QED
          BY <5>1, <5>2
      <4>2. PICK n \in Live : Dist(Start, ItemEnd(n)) = m + Gap
        BY <1>9, <4>1 DEF Sound, Boundary
      <4>3. ItemEnd(n) \in Index
        BY ItemDist
      <4>4. Dist(tail, ItemEnd(n)) = m
        BY <1>2, <1>11, <4>1, <4>2, <4>3
      <4>5. QED
        BY <1>3, <4>4
    <3>2. Boundary' <=> \A m \in {saved_size', Full'} :
                          m > 0 => \E n \in Live' : Dist(tail, ItemEnd(n)') = m
      BY <1>1, <1>6 DEF Boundary, Dist
    <3>3. QED
      BY <3>1, <3>2
  <2>6. ASSUME NEW h \in Headers
        PROVE  /\ Covers(h, saved_size) =>
                    (saved_size' # 0 => Dist(h.tail, tail) + saved_size' = Dist(h.tail, h.head))
               /\ Covers(h, Full) =>
                    (Full' # 0 => Dist(h.tail, tail) + Full' = Dist(h.tail, h.head))
    <3>1. CASE Gap <= saved_size
      <4>1. saved_size' # 0 => saved_size > Gap
        BY <1>2, <1>7, <2>1, <3>1
      <4>2. Full' # 0 => Full > Gap
        BY <1>2, <1>7, <2>1, <3>1
      <4>3. QED
        BY <1>1, <1>7, <2>1, <3>1, <4>1, <4>2, CoversShift
    <3>2. CASE ~(Gap <= saved_size)
      BY <2>1, <3>2
    <3>3. QED
      BY <3>1, <3>2
  <2>7. Names'
    <3>1. ASSUME NEW h \in Headers
          PROVE  /\ Covers(h, saved_size) =>
                      (saved_size' # 0 => Dist(h.tail, Start') + saved_size' = Dist(h.tail, h.head))
                 /\ Covers(h, Full) =>
                      (Full' # 0 => Dist(h.tail, Start') + Full' = Dist(h.tail, h.head))
      BY <1>6, <2>6
    <3>2. /\ save.pc = "data" => hdr = save.before
          /\ save.pc = "end" => hdr = save.after
          /\ Covers(hdr, IF save.pc = "end" THEN Full ELSE saved_size)
          /\ save.pc = "before" => Covers(save.before, saved_size)
          /\ SaveActive => Covers(save.after, Full)
      BY <1>9 DEF Sound, Names
    <3>3. /\ (IF save.pc = "end" THEN Full' ELSE saved_size') # 0 =>
               Dist(hdr.tail, Start') + (IF save.pc = "end" THEN Full' ELSE saved_size')
                 = Dist(hdr.tail, hdr.head)
          /\ save.pc = "before" /\ saved_size' # 0 =>
               Dist(save.before.tail, Start') + saved_size' = Dist(save.before.tail, save.before.head)
          /\ SaveActive /\ Full' # 0 =>
               Dist(save.after.tail, Start') + Full' = Dist(save.after.tail, save.after.head)
      BY <1>7, <3>1, <3>2
    <3>4. QED
      BY <1>1, <3>2, <3>3 DEF Names, Covers, Dist, SaveActive
  <2>8. Newest'
    <3>1. SaveActive => save.after.next_id <= next_id /\ save.after.next_id \in Nat
      BY <1>7, <1>9 DEF Sound, Newest, Headers
    <3>2. SaveActive => save.after.next_id <= next_id + 1 /\ next_id + 1 # save.after.next_id
      BY <1>1, <3>1
    <3>3. QED
      BY <1>1, <3>2 DEF Newest, SaveActive
  <2>9. Final' = Final
    <3>1. save.done + 1 .. Len(save.cells) \subseteq 1 .. Len(save.cells)
      BY <1>7
    <3>2. ASSUME NEW j \in Index
          PROVE  (IF \E k \in save.done + 1 .. Len(save.cells) : save.cells[k] = j
                  THEN mem'[j] ELSE disk[j])
                 = IF \E k \in save.done + 1 .. Len(save.cells) : save.cells[k] = j
                   THEN mem[j] ELSE disk[j]
      BY <2>2, <3>1
    <3>3. QED
      BY <1>1, <3>2 DEF Final
  <2>10. Loadable'
    BY <1>1, <1>9, <2>9 DEF Sound, Loadable, Dist
  <2>11. LastSave'
    BY <1>1 DEF LastSave
  <2>12. QED
    BY <2>3, <2>4, <2>5, <2>7, <2>8, <2>10, <2>11 DEF Sound
<1>10. QED
  BY <1>5, <1>8, <1>9

-----------------------------------------------------------------------------
(* The invariant *)

LEMMA NoSaveType == NoSave \in Saves
<1>1. <<>> \in Seq(Nat)
  OBVIOUS
<1>2. QED
  BY <1>1 DEF NoSave, FileHeader, Saves

LEMMA FileInit ==
  ASSUME RoomForThree, InitSave
  PROVE  FileInv
<1> USE QueueConstants
<1>1. IInv
  BY InitStep DEF InitSave
<1>2. /\ head = 0 /\ tail = 0 /\ next_id = 1 /\ saved_size = 0 /\ closed = FALSE
      /\ put.busy = FALSE /\ hdr = FileHeader(0, 0, 1) /\ disk = [j \in Index |-> Zero]
      /\ save = NoSave /\ closer = "none" /\ overrun = FALSE /\ late = FALSE
  BY DEF InitSave, Init, NoPut
<1>3. 0 \in Index /\ Dist(0, 0) = 0 /\ Start = 0
  BY <1>1, <1>2, EndFacts, DistType DEF Start
<1>4. FileHeader(0, 0, 1) \in Headers
  BY <1>3 DEF Headers, FileHeader
<1>5. /\ save.pc = "idle" /\ save.cells = <<>> /\ save.done = 0 /\ Len(save.cells) = 0
      /\ ~SaveActive
  BY <1>2 DEF NoSave, SaveActive
<1>6. FileType
  <2>1. Zero \in FileCells
    BY DEF Zero, Block, FileCells, States
  <2>2. <<>> \in Seq(Index)
    OBVIOUS
  <2>3. save \in [pc : {"idle", "before", "data", "after", "end"}, before : Headers,
                  after : Headers, cells : Seq(Index), done : Nat]
    BY <1>2, <1>4, <2>2 DEF NoSave
  <2>4. QED
    BY <1>2, <1>4, <2>1, <2>3 DEF FileType
<1>7. PutOK /\ ClosedOK /\ Steps
  BY <1>2, <1>5 DEF PutOK, ClosedOK, Steps
<1>8. Full = 0 /\ Gap = 0
  BY <1>2, <1>3, <1>5 DEF Full, Gap
<1>9. Plan
  BY <1>2, <1>3, <1>5, <1>8 DEF Plan
<1>10. InDisk
  <2>1. ASSUME NEW j \in Index
        PROVE  ~(Dist(Start, j) < saved_size + save.done)
    BY <1>2, <1>3, <1>5, DistType
  <2>2. QED
    BY <2>1 DEF InDisk
<1>11. Boundary
  BY <1>2, <1>8 DEF Boundary
<1>12. Names /\ Newest
  BY <1>2, <1>5 DEF Names, Newest, Covers
<1>13. Loadable
  <2>1. hdr.tail = hdr.head /\ hdr \in Headers
    BY <1>2, <1>4 DEF FileHeader
  <2>2. QED
    BY <1>5, <2>1, EmptyChain DEF Loadable
<1>14. LastSave
  BY <1>2 DEF LastSave
<1>15. save \in Saves
  BY <1>2, NoSaveType
<1>16. QED
  BY <1>1, <1>6, <1>7, <1>9, <1>10, <1>11, <1>12, <1>13, <1>14, <1>15
     DEF FileInv, Sound

LEMMA ResetKeeps ==
  ASSUME IInv, FileType, Steps, ResetFile, ~overrun'
  PROVE  FileType' /\ Steps' /\ Sound'
<1> USE QueueConstants, PastConstant
<1>1. /\ head' = 0 /\ tail' = 0 /\ saved_size' = 0 /\ put' = put /\ ~put.busy
      /\ next_id \in Nat /\ save' = save /\ closed' = closed /\ closed = FALSE
      /\ hdr' = FileHeader(0, 0, next_id)
      /\ overrun' = (overrun \/ SaveActive)
      /\ UNCHANGED <<closer, late>>
  BY DEF ResetFile, Reset, IInv, TypeOK
<1>2. 0 \in Index
  BY EndFacts DEF Index
<1>3. hdr' \in Headers /\ hdr'.tail = 0 /\ hdr'.head = 0
  BY <1>1, <1>2 DEF Headers, FileHeader
<1>4. FileType'
  <2>1. Zero \in FileCells /\ Junk \in FileCells
    BY DEF Zero, Junk, Block, FileCells, States
  <2>2. disk' \in [Index -> FileCells]
    BY <2>1 DEF ResetFile
  <2>3. overrun' \in BOOLEAN
    BY <1>1 DEF FileType, SaveActive
  <2>4. QED
    BY <1>1, <1>3, <2>2, <2>3 DEF FileType
<1>5. Steps'
  BY <1>1 DEF Steps
<1>6. Sound'
  <2>1. /\ save.pc = "idle" /\ save.cells = <<>> /\ save.done = 0 /\ Len(save.cells) = 0
    <3>1. save.pc = "idle" /\ save.cells = <<>>
      BY <1>1 DEF SaveActive, Steps
    <3>2. Len(save.cells) = 0 /\ save.done \in Nat
      BY <3>1 DEF FileType
    <3>3. QED
      BY <3>1, <3>2 DEF Steps
  <2>2. Start' = 0 /\ Full' = 0 /\ Dist(0, 0) = 0
    BY <1>1, <1>2, <2>1, DistType DEF Start, Full
  <2>3. Gap' = 0
    BY <1>1, <2>2 DEF Gap, Dist
  <2>4. Plan'
    BY <1>1, <2>1, <2>2 DEF Plan, Dist
  <2>5. InDisk'
    <3>1. ASSUME NEW j \in Index
          PROVE  ~(Dist(0, j) < 0)
      BY <1>2, DistType
    <3>2. QED
      BY <1>1, <2>1, <2>2, <3>1 DEF InDisk, Dist
  <2>6. Boundary'
    BY <1>1, <2>2, <2>3 DEF Boundary
  <2>7. Names' /\ Newest'
    BY <1>1, <2>1 DEF Names, Newest, Covers, SaveActive
  <2>8. Loadable'
    BY <1>1, <1>3, <2>1, EmptyChain DEF Loadable
  <2>9. LastSave'
    BY <1>1 DEF LastSave
  <2>10. QED
    BY <2>4, <2>5, <2>6, <2>7, <2>8, <2>9 DEF Sound
<1>7. QED
  BY <1>4, <1>5, <1>6

\* What the cells of a save are, whatever saved_size.
LEMMA UnsavedSeq ==
  ASSUME IInv
  PROVE  Unsaved \in Seq(Nat)
<1> USE QueueConstants
<1>1. /\ saved_size \in Nat /\ head \in Nat /\ tail \in Nat /\ tail < DataSize
      /\ DataSize \in Nat
  BY EndFacts DEF IInv, TypeOK, Index
<1>2. ASSUME NEW from \in Nat, NEW to \in Nat
      PROVE  Span(from, to) \in Seq(Nat)
  <2> DEFINE n == IF to > from THEN to - from ELSE 0
  <2>1. n \in Nat
    OBVIOUS
  <2>2. \A k \in 1 .. n : from + k - 1 \in Nat
    BY <2>1
  <2>3. Span(from, to) = [k \in 1 .. n |-> from + k - 1]
    BY DEF Span
  <2> HIDE DEF n
  <2>4. Span(from, to) \in [1 .. n -> Nat]
    BY <2>2, <2>3
  <2>5. QED
    BY <2>1, <2>4
<1>3. PICK zero \in Nat : zero = 0
  OBVIOUS
<1>4. CASE tail <= head
  <2>1. Unsaved = Span(tail + saved_size, head) /\ tail + saved_size \in Nat
    BY <1>1, <1>4 DEF Unsaved
  <2>2. QED
    BY <1>1, <1>2, <2>1
<1>5. CASE ~(tail <= head) /\ DataSize - tail > saved_size
  <2>1. Unsaved = Span(tail + saved_size, DataSize) \o Span(zero, head)
    BY <1>3, <1>5 DEF Unsaved
  <2>2. tail + saved_size \in Nat
    BY <1>1
  <2>3. /\ Span(tail + saved_size, DataSize) \in Seq(Nat)
        /\ Span(zero, head) \in Seq(Nat)
    BY <1>1, <1>2, <1>3, <2>2
  <2>4. QED
    BY <2>1, <2>3, ConcatProperties
<1>6. CASE ~(tail <= head) /\ ~(DataSize - tail > saved_size)
  <2>1. /\ Unsaved = Span(saved_size - (DataSize - tail), head)
        /\ saved_size - (DataSize - tail) \in Nat
    BY <1>1, <1>6 DEF Unsaved
  <2>2. QED
    BY <1>1, <1>2, <2>1
<1>7. QED
  BY <1>4, <1>5, <1>6

LEMMA BeginType ==
  ASSUME IInv, SaveBegin
  PROVE  save' \in Saves
<1>1. tail \in Nat /\ head \in Nat /\ next_id \in Nat /\ saved_size \in Nat
  BY EndFacts DEF IInv, TypeOK
<1>2. SavedEnd \in Nat
  BY <1>1, QueueConstants DEF SavedEnd
<1>3. Unsaved \in Seq(Nat)
  BY UnsavedSeq
<1>4. QED
  BY <1>1, <1>2, <1>3 DEF SaveBegin, FileHeader, Saves

LEMMA PutFileStep ==
  ASSUME RoomForThree, FileInv, PutRuns
  PROVE  FileInv'
<1>1. /\ IInv /\ ClosedOK /\ save' = save /\ closer' = closer /\ hdr' = hdr /\ disk' = disk
      /\ late' = late /\ closed' = closed /\ save \in Saves
      /\ overrun' = (overrun \/ (SaveActive /\ Overwritten > saved_size /\ ~put'.busy))
  BY DEF FileInv, PutRuns, Put, PutBegin, PutDrop, PutCommit
<1>2. IInv'
  BY <1>1, NextStep DEF PutRuns, Next
<1>3. ~closed
  BY <1>1 DEF ClosedOK, PutRuns, Put, PutBegin, PutDrop, PutCommit
<1>4. ClosedOK'
  BY <1>1, <1>3 DEF ClosedOK, SaveActive
<1>5. ASSUME ~overrun'
      PROVE  (FileType /\ PutOK /\ Steps /\ Sound)'
  <2>1. FileType /\ PutOK /\ Steps /\ Sound
    BY <1>1, <1>5 DEF FileInv
  <2>2. FileType'
    BY <1>1, <1>5, <2>1 DEF FileType
  <2>3. ASSUME NEW size \in ItemSizes, PutBegin(size)
        PROVE  (PutOK /\ Steps /\ Sound)'
    <3>1. put' = [busy |-> TRUE, size |-> size, orig_tail |-> tail] /\ ~put.busy
          /\ UNCHANGED ring
      BY <2>3 DEF PutBegin
    <3>2. tail' = tail /\ head' = head /\ put'.busy /\ put'.orig_tail = tail
      BY <3>1 DEF ring
    <3>3. Start' = Start
      BY <3>1, <3>2 DEF Start
    <3>4. PutOK'
      <4>1. tail \in Index /\ head \in Index
        BY <1>1, EndFacts
      <4>2. Dist(tail, tail) = 0 /\ Dist(tail, head) \in Nat
        BY <4>1, DistType
      <4>3. Dist(tail, tail) <= Dist(tail, head)
        BY <4>2
      <4>4. QED
        BY <3>2, <4>1, <4>3 DEF PutOK, Dist
    <3>5. QED
      BY <1>1, <2>1, <3>1, <3>3, <3>4, QuietKeeps
  <2>4. CASE PutDrop
    BY <1>1, <1>3, <2>1, <2>2, <2>4, DropKeeps
  <2>5. CASE PutCommit
    <3>1. ~put'.busy
      BY <2>5 DEF PutCommit, NoPut
    <3>2. Overwritten = Gap /\ Steps'
      BY <1>1, <1>3, <2>1, <2>5, CommitKeeps
    <3>3. SaveActive => Gap <= saved_size
      <4>1. SaveActive => ~(Gap > saved_size)
        BY <1>1, <1>5, <3>1, <3>2
      <4>2. Gap \in Nat /\ saved_size \in Nat
        BY <1>1, <2>1, <2>5, GapFacts DEF PutCommit, IInv, TypeOK
      <4>3. QED
        BY <4>1, <4>2
    <3>4. PutOK'
      BY <3>1 DEF PutOK
    <3>5. QED
      BY <1>1, <1>3, <2>1, <2>2, <2>5, <3>2, <3>3, <3>4, CommitKeeps
  <2>6. QED
    BY <2>2, <2>3, <2>4, <2>5 DEF PutRuns, Put
<1>6. QED
  BY <1>1, <1>2, <1>4, <1>5 DEF FileInv

LEMMA BeginFileStep ==
  ASSUME RoomForThree, FileInv, Save \/ CloseCall
  PROVE  FileInv'
<1>1. /\ IInv /\ ClosedOK /\ hdr' = hdr /\ disk' = disk /\ overrun' = overrun
      /\ save \in Saves /\ ~put.busy /\ ~closed /\ UNCHANGED <<ring, put>>
      /\ SaveBegin \/ (SaveActive /\ save' = save)
  BY DEF FileInv, Save, CloseCall, Close, qvars
<1>2. IInv'
  <2>1. CASE Save
    BY <1>1, <2>1, NextStep DEF Save
  <2>2. CASE CloseCall
    BY <1>1, <2>2, NextStep DEF CloseCall, Next
  <2>3. QED
    BY <2>1, <2>2
<1>3. ClosedOK'
  BY <1>1 DEF ClosedOK, SaveActive, Save, CloseCall, Close, qvars, ring
<1>4. save' \in Saves
  BY <1>1, BeginType DEF SaveBegin
<1>5. overrun \/ (closer' \in {"none", "waits", "done"} /\ late' \in BOOLEAN)
  <2>1. CASE Save
    BY <2>1 DEF Save, FileInv, FileType
  <2>2. CASE CloseCall
    BY <2>2 DEF CloseCall, SaveActive
  <2>3. QED
    BY <2>1, <2>2
<1>6. ASSUME ~overrun'
      PROVE  (FileType /\ PutOK /\ Steps /\ Sound)'
  <2>1. FileType /\ PutOK /\ Steps /\ Sound
    BY <1>1, <1>6 DEF FileInv
  <2>2. ~put'.busy /\ PutOK' /\ Start' = Start
    BY <1>1 DEF PutOK, Start, ring
  <2>3. CASE SaveBegin
    <3>1. /\ save'.pc \in {"before", "after"}
          /\ save' \in [pc : {"idle", "before", "data", "after", "end"}, before : Headers,
                        after : Headers, cells : Seq(Index), done : Nat]
          /\ (Steps /\ Plan /\ InDisk /\ Boundary /\ Names /\ Newest /\ Loadable)'
          /\ save'.after = FileHeader(tail, head, next_id)
      BY <1>1, <2>1, <2>3, BeginKeeps
    <3>2. FileType'
      BY <1>1, <1>5, <1>6, <2>1, <3>1 DEF FileType
    <3>3. LastSave'
      <4>1. save'.after.next_id = next_id /\ next_id' = next_id
        BY <1>1, <3>1 DEF FileHeader, ring
      <4>2. QED
        BY <3>1, <4>1 DEF LastSave, SaveActive
    <3>4. QED
      BY <2>2, <3>1, <3>2, <3>3 DEF Sound
  <2>4. CASE SaveActive /\ save' = save
    <3>1. FileType'
      BY <1>1, <1>5, <1>6, <2>1, <2>4 DEF FileType
    <3>2. /\ Gap' = Gap /\ Full' = Full /\ Live' = Live
          /\ mem' = mem /\ head' = head /\ tail' = tail /\ next_id' = next_id
          /\ saved_size' = saved_size /\ \A n : ItemEnd(n)' = ItemEnd(n)
      BY <1>1, <2>4, SameRing
    <3>3. Steps'
      BY <2>1, <2>4 DEF Steps
    <3>4. Plan' /\ InDisk' /\ Boundary'
      BY <1>1, <2>1, <2>2, <2>4, <3>2 DEF Sound, Plan, InDisk, Boundary, Dist
    <3>5. Names' /\ Newest'
      BY <1>1, <2>1, <2>2, <2>4, <3>2 DEF Sound, Names, Covers, Newest, Dist, SaveActive
    <3>6. Final' = Final
      BY <1>1, <2>4, <3>2 DEF Final
    <3>7. Loadable'
      BY <1>1, <2>1, <2>4, <3>6 DEF Sound, Loadable, Dist
    <3>8. LastSave'
      <4>1. CloseCall
        BY <2>4 DEF Save, SaveBegin
      <4>2. late' = (next_id # save.after.next_id)
        BY <2>4, <4>1 DEF CloseCall
      <4>3. QED
        BY <2>4, <3>2, <4>2 DEF LastSave, SaveActive
    <3>9. QED
      BY <2>2, <3>1, <3>3, <3>4, <3>5, <3>7, <3>8 DEF Sound
  <2>5. QED
    BY <1>1, <2>3, <2>4
<1>7. QED
  BY <1>1, <1>2, <1>3, <1>4, <1>6 DEF FileInv

LEMMA WriteFileStep ==
  ASSUME RoomForThree, FileInv, WriteBefore \/ WriteCell \/ WriteAfter \/ SaveEnd
  PROVE  FileInv'
<1>1. /\ IInv /\ ClosedOK /\ save \in Saves /\ overrun' = overrun
      /\ closer' = closer /\ closed' = closed /\ put' = put /\ SaveActive
  BY DEF FileInv, WriteBefore, WriteCell, WriteAfter, SaveEnd, qvars, SaveActive
<1>2. IInv'
  <2>1. CASE UNCHANGED qvars
    BY <1>1, <2>1, NextStep
  <2>2. CASE SaveEnd
    BY <1>1, <2>2, SaveEndRing
  <2>3. QED
    BY <2>1, <2>2 DEF WriteBefore, WriteCell, WriteAfter
<1>3. ClosedOK'
  BY <1>1 DEF ClosedOK
<1>4. save' \in Saves
  <2>1. CASE SaveEnd
    BY <2>1, NoSaveType DEF SaveEnd
  <2>2. CASE WriteBefore \/ WriteCell \/ WriteAfter
    <3>1. \E p \in {"data", "after", "end"}, d \in Nat : save' = [save EXCEPT !.pc = p, !.done = d]
      <4>1. save.done \in Nat /\ save.done + 1 \in Nat
        BY <1>1 DEF Saves
      <4>2. CASE WriteBefore
        BY <1>1, <4>1, <4>2 DEF WriteBefore, Saves
      <4>3. CASE WriteAfter
        BY <1>1, <4>1, <4>3 DEF WriteAfter, Saves
      <4>4. ASSUME WriteCell
            PROVE  save' = [save EXCEPT !.pc = IF save.done + 1 = Len(save.cells)
                                               THEN "after" ELSE "data",
                                        !.done = save.done + 1]
        BY <1>1, <4>1, <4>4 DEF WriteCell, Saves
      <4>5. QED
        BY <2>2, <4>1, <4>2, <4>3, <4>4
    <3>2. QED
      BY <1>1, <3>1 DEF Saves
  <2>3. QED
    BY <2>1, <2>2
<1>5. ASSUME ~overrun'
      PROVE  (FileType /\ PutOK /\ Steps /\ Sound)'
  <2>1. FileType /\ PutOK /\ Steps /\ Sound
    BY <1>1, <1>5 DEF FileInv
  <2>2. PutOK'
    BY <1>1, <2>1 DEF PutOK, Dist, WriteBefore, WriteCell, WriteAfter, SaveEnd, qvars, ring
  <2>3. QED
    BY <1>1, <2>1, <2>2, WriteBeforeKeeps, WriteCellKeeps, WriteAfterKeeps, SaveEndKeeps
<1>6. QED
  BY <1>2, <1>3, <1>4, <1>5 DEF FileInv

LEMMA FileStep ==
  ASSUME RoomForThree, FileInv, [NextSave]_vars
  PROVE  FileInv'
<1>1. IInv /\ ClosedOK /\ save \in Saves
  BY DEF FileInv
<1>2. CASE PutRuns
  BY <1>2, PutFileStep
<1>3. CASE Save \/ CloseCall
  BY <1>3, BeginFileStep
<1>4. CASE WriteBefore \/ WriteCell \/ WriteAfter \/ SaveEnd
  BY <1>4, WriteFileStep
<1>5. CASE ResetFile
  <2>1. IInv'
    BY <1>1, <1>5, ResetStep DEF ResetFile
  <2>2. /\ closed' = closed /\ put' = put /\ ~put.busy /\ save' = save /\ closer' = closer
        /\ overrun' = (overrun \/ SaveActive)
    BY <1>5 DEF ResetFile, Reset
  <2>3. ClosedOK' /\ save' \in Saves /\ PutOK'
    BY <1>1, <2>2 DEF ClosedOK, SaveActive, PutOK
  <2>4. ASSUME ~overrun'
        PROVE  (FileType /\ Steps /\ Sound)'
    <3>1. FileType /\ Steps
      BY <2>2, <2>4 DEF FileInv
    <3>2. QED
      BY <1>1, <1>5, <2>4, <3>1, ResetKeeps
  <2>5. QED
    BY <2>1, <2>3, <2>4 DEF FileInv
<1>6. CASE CloseReturn \/ UNCHANGED vars
  <2>1. /\ UNCHANGED qvars /\ UNCHANGED <<ring, put, save, hdr, disk, closed, late, overrun>>
        /\ \/ closer' = closer
           \/ closer = "waits" /\ closer' = "done" /\ ~SaveActive
    BY <1>6 DEF CloseReturn, vars, fvars, qvars
  <2>2. IInv'
    BY <1>1, <2>1, NextStep
  <2>3. ClosedOK' /\ save' \in Saves
    BY <1>1, <2>1 DEF ClosedOK, SaveActive
  <2>4. ASSUME ~overrun'
        PROVE  (FileType /\ PutOK /\ Steps /\ Sound)'
    <3>1. FileType /\ PutOK /\ Steps /\ Sound
      BY <2>1, <2>4 DEF FileInv
    <3>2. FileType' /\ PutOK' /\ Start' = Start
      BY <2>1, <3>1 DEF FileType, PutOK, Dist, Start, ring
    <3>3. QED
      BY <2>1, <3>1, <3>2, QuietKeeps
  <2>5. QED
    BY <2>2, <2>3, <2>4 DEF FileInv
<1>7. QED
  BY <1>2, <1>3, <1>4, <1>5, <1>6 DEF NextSave

\* What the queue and its file are at every moment, in the middle of a save too.
LEMMA FileInductive ==
  ASSUME RoomForThree
  PROVE  SpecSave => []FileInv
<1>1. InitSave => FileInv
  BY FileInit
<1>2. FileInv /\ [NextSave]_vars => FileInv'
  BY FileStep
<1>3. QED
  BY <1>1, <1>2, PTL DEF SpecSave

-----------------------------------------------------------------------------
(* The properties *)

\* What Open reads of the cells that the header names, and at _head.
LEMMA OpenedCells ==
  ASSUME hdr \in Headers, hdr.tail # hdr.head
  PROVE  /\ Opened.tail = hdr.tail /\ Opened.head = hdr.head
         /\ Opened.mem[hdr.head] = Block("HEAD", 0, 0)
         /\ \A j : InPart(hdr, j) => Opened.mem[j] = disk[j]
<1> USE QueueConstants
<1>1. /\ Opened.tail = hdr.tail /\ Opened.head = hdr.head
      /\ Opened.mem = [j \in Index |-> IF j = hdr.head THEN Block("HEAD", 0, 0)
                                       ELSE IF InFile(j) THEN disk[j] ELSE Zero]
  BY DEF Opened
<1>2. hdr.tail \in Index /\ hdr.head \in Index
  BY DEF Headers
<1>3. ASSUME NEW j, InPart(hdr, j)
      PROVE  j \in Index /\ j # hdr.head /\ InFile(j)
  BY <1>2, <1>3 DEF InPart, InFile, Dist, Index
<1>4. QED
  BY <1>1, <1>2, <1>3

\* An item that lies within the saved part is whole in the file.
LEMMA SavedInFile ==
  ASSUME FileInv, ~overrun, ~put.busy, NEW n \in Live,
         Dist(tail, ItemEnd(n)) <= saved_size
  PROVE  Whole(Opened.mem, pos[n], n)
<1> USE QueueConstants
<1>1. IInv /\ FileType /\ Steps /\ Plan /\ InDisk /\ Names
  BY DEF FileInv, Sound
<1>2. /\ pos[n] \in Index /\ pos[n] \in Nat /\ ItemEnd(n) \in Nat /\ pos[n] < ItemEnd(n)
      /\ mem[pos[n]] = Block("ITEM", mem[pos[n]].size, n)
      /\ ItemEnd(n) = pos[n] + Hdr + mem[pos[n]].size
      /\ \A j \in pos[n] .. ItemEnd(n) :
           j \in Index /\ Dist(tail, j) = Dist(tail, pos[n]) + j - pos[n]
  BY <1>1, ItemFacts, ItemDist
<1>3. /\ tail \in Index /\ Start = tail /\ saved_size \in Nat /\ save.done \in Nat
      /\ Len(save.cells) \in Nat /\ hdr \in Headers
      /\ hdr.tail \in Index /\ hdr.head \in Index
  <2>1. tail \in Index /\ Start = tail
    BY <1>1, EndFacts DEF Start
  <2>2. saved_size \in Nat
    BY <1>1 DEF IInv, TypeOK
  <2>3. save.done \in Nat /\ Len(save.cells) \in Nat /\ hdr \in Headers
    BY <1>1 DEF FileType
  <2>4. QED
    BY <2>1, <2>2, <2>3 DEF Headers
<1>4. PICK m \in Nat : Covers(hdr, m) /\ saved_size <= m
  <2>1. Full \in Nat /\ saved_size <= Full
    BY <1>3 DEF Full
  <2>2. QED
    BY <1>1, <1>3, <2>1 DEF Names
<1>5. ASSUME NEW j \in pos[n] .. ItemEnd(n) - 1
      PROVE  j \in Index /\ Dist(tail, j) < saved_size
  <2>1. j \in Nat /\ j < ItemEnd(n) /\ j \in pos[n] .. ItemEnd(n)
        /\ ItemEnd(n) \in pos[n] .. ItemEnd(n) /\ pos[n] \in Index
    BY <1>2
  <2>2. j \in Index /\ Dist(tail, j) = Dist(tail, pos[n]) + j - pos[n]
        /\ Dist(tail, ItemEnd(n)) = Dist(tail, pos[n]) + ItemEnd(n) - pos[n]
    BY <1>2, <2>1
  <2>3. Dist(tail, pos[n]) \in Nat
    BY <1>3, <2>1, DistType
  <2>4. QED
    BY <1>2, <1>3, <2>1, <2>2, <2>3
<1>6. ASSUME NEW j \in pos[n] .. ItemEnd(n) - 1
      PROVE  InPart(hdr, j) /\ disk[j] = mem[j]
  <2>1. j \in Index /\ Dist(tail, j) < saved_size /\ Dist(tail, j) \in Nat
    BY <1>3, <1>5, DistType
  <2>2. disk[j] = mem[j]
    BY <1>1, <1>3, <2>1 DEF InDisk
  <2>3. Dist(hdr.tail, tail) + m = Dist(hdr.tail, hdr.head)
    BY <1>3, <1>4, <2>1 DEF Covers
  <2>4. /\ Dist(hdr.tail, tail) \in Nat /\ Dist(hdr.tail, hdr.head) \in Nat
        /\ Dist(hdr.tail, hdr.head) < DataSize
    BY <1>3, DistType
  <2>5. Dist(hdr.tail, tail) + Dist(tail, j) < Dist(hdr.tail, hdr.head)
    BY <1>3, <1>4, <2>1, <2>3, <2>4
  <2>6. Dist(hdr.tail, j) = Dist(hdr.tail, tail) + Dist(tail, j)
    <3>1. Dist(hdr.tail, tail) + Dist(tail, j) < DataSize
      BY <2>1, <2>4, <2>5
    <3>2. QED
      BY <1>3, <2>1, <3>1, DistVia
  <2>7. QED
    BY <2>1, <2>2, <2>5, <2>6 DEF InPart
<1>7. pos[n] \in pos[n] .. ItemEnd(n) - 1
  BY <1>2
<1>8. hdr.tail # hdr.head
  <2>1. InPart(hdr, pos[n])
    BY <1>6, <1>7
  <2>2. ~(Dist(hdr.tail, pos[n]) < 0)
    BY <1>2, <1>3, DistType
  <2>3. QED
    BY <1>3, <2>1, <2>2, DistType DEF InPart
<1>9. \A j \in pos[n] .. ItemEnd(n) - 1 : Opened.mem[j] = mem[j]
  BY <1>3, <1>6, <1>8, OpenedCells
<1>10. EndOf(Opened.mem, pos[n]) = ItemEnd(n)
  BY <1>2, <1>7, <1>9 DEF EndOf
<1>11. Opened.mem[pos[n]].state = "ITEM" /\ Opened.mem[pos[n]].id = n
  <2>1. Opened.mem[pos[n]] = Block("ITEM", mem[pos[n]].size, n)
    BY <1>2, <1>7, <1>9
  <2>2. QED
    BY <2>1 DEF Block
<1>12. ASSUME NEW j \in pos[n] + 1 .. ItemEnd(n) - 1
       PROVE  j \in Index /\ Opened.mem[j] = Payload(n)
  <2>1. j \in pos[n] .. ItemEnd(n) - 1
    BY <1>2
  <2>2. mem[j] = Payload(n)
    BY <1>1 DEF IInv, RingInv, ItemsIntact, Holds, ItemEnd
  <2>3. QED
    BY <1>5, <1>9, <2>1, <2>2
<1>13. QED
  BY <1>2, <1>10, <1>11, <1>12 DEF Whole

\* save_locked and Put: what one save has brought to the file stays readable
\* there until Put gives it up, whatever later saves do.
THEOREM SavedCorrect ==
  ASSUME RoomForThree
  PROVE  SpecSave => []SavedStays
<1>1. FileInv => SavedStays
  <2>1. SUFFICES ASSUME FileInv, ~overrun, ~put.busy, NEW n \in SavedItems
                 PROVE  Whole(Opened.mem, pos[n], n)
    BY DEF SavedStays
  <2>2. IInv /\ n \in Live
    BY <2>1 DEF FileInv, SavedItems
  <2>3. Dist(tail, pos[n]) + Hdr + mem[pos[n]].size <= saved_size
    BY <2>1, <2>2, EndFacts, ItemFacts, QueueConstants DEF SavedItems, Dist
  <2>4. /\ pos[n] \in Nat /\ ItemEnd(n) = pos[n] + Hdr + mem[pos[n]].size
        /\ mem[pos[n]].size \in Nat /\ tail \in Index /\ pos[n] \in Index
        /\ ItemEnd(n) \in pos[n] .. ItemEnd(n)
    BY <2>2, EndFacts, ItemFacts, QueueConstants
  <2>5. Dist(tail, ItemEnd(n)) = Dist(tail, pos[n]) + ItemEnd(n) - pos[n]
    BY <2>2, <2>4, ItemDist
  <2>6. Dist(tail, pos[n]) \in Nat
    BY <2>4, DistType
  <2>7. Dist(tail, ItemEnd(n)) <= saved_size
    BY <2>3, <2>4, <2>5, <2>6, QueueConstants
  <2>8. QED
    BY <2>1, <2>2, <2>7, SavedInFile
<1>2. QED
  BY <1>1, FileInductive, PTL

\* Close: unless a save had begun before the last Put, the file then has every
\* item and the id that the next session continues with.
THEOREM CloseCorrect ==
  ASSUME RoomForThree
  PROVE  SpecSave => []CloseKeepsAll
<1>1. FileInv => CloseKeepsAll
  <2>1. SUFFICES ASSUME FileInv, closer = "done", ~overrun, ~late
                 PROVE  /\ hdr = FileHeader(tail, head, next_id)
                        /\ \A n \in Live : Whole(Opened.mem, pos[n], n)
    BY DEF CloseKeepsAll
  <2>2. closed /\ ~put.busy /\ ~SaveActive
    BY <2>1 DEF FileInv, ClosedOK
  <2>3. hdr = FileHeader(tail, head, next_id) /\ saved_size = Dist(tail, head)
    BY <2>1, <2>2 DEF FileInv, Sound, LastSave
  <2>4. ASSUME NEW n \in Live
        PROVE  Dist(tail, ItemEnd(n)) <= saved_size
    BY <2>1, <2>3, ItemDist DEF FileInv
  <2>5. QED
    BY <2>1, <2>2, <2>3, <2>4, SavedInFile
<1>2. QED
  BY <1>1, FileInductive, PTL

\* The walk over the blocks of q exists, and each step is what Walk says.
LEMMA WalkFacts ==
  ASSUME NEW q, NEW at, at = Walk(q)
  PROVE  /\ at[0] = SkipWrap(q.mem, q.tail)
         /\ \A k \in 0 .. DataSize : k # 0 =>
              at[k] = LET p == at[k - 1]
                      IN  IF q.mem[p].state = "ITEM" /\ EndOf(q.mem, p) \in Index
                          THEN SkipWrap(q.mem, EndOf(q.mem, p)) ELSE p
<1> USE QueueConstants
<1> DEFINE Step(p) == IF q.mem[p].state = "ITEM" /\ EndOf(q.mem, p) \in Index
                      THEN SkipWrap(q.mem, EndOf(q.mem, p)) ELSE p
           Base0 == SkipWrap(q.mem, q.tail)
           Is(f, n) == f = [k \in 0 .. n |-> IF k = 0 THEN Base0 ELSE Step(f[k - 1])]
           None == {n \in Nat : ~\E f : Is(f, n)}
<1>1. Walk(q) = CHOOSE f : Is(f, DataSize)
  BY DEF Walk
<1> HIDE DEF Step, Base0
<1>2. None = {}
  <2>1. SUFFICES ASSUME None # {} PROVE FALSE
    OBVIOUS
  <2>2. PICK n \in None : \A m \in None : n <= m
    BY <2>1, SmallestOf
  <2>3. CASE n = 0
    <3>1. PICK f : f = [k \in 0 .. 0 |-> Base0]
      OBVIOUS
    <3>2. f = [k \in 0 .. n |-> IF k = 0 THEN Base0 ELSE Step(f[k - 1])]
      BY <2>3, <3>1
    <3>3. QED
      BY <2>2, <3>2
  <2>4. CASE n # 0
    <3>1. n \in Nat /\ n - 1 \in Nat /\ n - 1 < n
      BY <2>2, <2>4
    <3>2. n - 1 \notin None
      <4> HIDE DEF None
      <4>1. n - 1 \in None => n <= n - 1
        BY <2>2
      <4>2. QED
        BY <3>1, <4>1
    <3>3. PICK f : f = [k \in 0 .. n - 1 |-> IF k = 0 THEN Base0 ELSE Step(f[k - 1])]
      BY <3>1, <3>2
    <3>4. PICK g : g = [k \in 0 .. n |-> IF k = n THEN Step(f[n - 1]) ELSE f[k]]
      OBVIOUS
    <3>5. ASSUME NEW k \in 0 .. n
          PROVE  g[k] = IF k = 0 THEN Base0 ELSE Step(g[k - 1])
      <4>1. CASE k = n
        <5>1. g[k] = Step(f[n - 1]) /\ g[n - 1] = f[n - 1]
          BY <3>1, <3>4, <4>1
        <5>2. QED
          BY <2>4, <4>1, <5>1
      <4>2. CASE k # n
        <5>1. k \in 0 .. n - 1 /\ (k # 0 => k - 1 \in 0 .. n /\ k - 1 # n)
          BY <3>1, <4>2
        <5>2. g[k] = f[k] /\ (k # 0 => g[k - 1] = f[k - 1])
          BY <3>4, <4>2, <5>1
        <5>3. f[k] = IF k = 0 THEN Base0 ELSE Step(f[k - 1])
          BY <3>3, <5>1
        <5>4. QED
          BY <5>2, <5>3
      <4>3. QED
        BY <4>1, <4>2
    <3>6. g = [k \in 0 .. n |-> IF k = 0 THEN Base0 ELSE Step(g[k - 1])]
      BY <3>4, <3>5
    <3>7. QED
      BY <2>2, <3>6
  <2>5. QED
    BY <2>3, <2>4
<1>3. \E f : Is(f, DataSize)
  BY <1>2
<1>4. Is(at, DataSize)
  <2> HIDE DEF Is
  <2>1. QED
    BY <1>1, <1>3
<1>5. 0 \in 0 .. DataSize
  OBVIOUS
<1>6. at[0] = Base0 /\ \A k \in 0 .. DataSize : k # 0 => at[k] = Step(at[k - 1])
  BY <1>4, <1>5
<1>7. QED
  BY <1>6 DEF Step, Base0

\* A file with a chain of items loads.
LEMMA ChainLoads ==
  ASSUME FileType, Loads(disk, hdr), NEW q, q = Opened
  PROVE  LET at == Walk(q)
         IN  \E k \in 0 .. DataSize :
               /\ at[k] = q.head
               /\ \A j \in 0 .. k - 1 : Whole(q.mem, at[j], q.mem[at[0]].id + j)
               /\ k > 0 => q.mem[at[0]].id + k - 1 < hdr.next_id
<1> USE QueueConstants
<1>1. /\ hdr \in Headers /\ hdr.tail \in Index /\ hdr.head \in Index /\ hdr.next_id \in Nat
      /\ disk \in [Index -> FileCells]
  BY DEF FileType, Headers
<1>2. PICK at : at = Walk(q)
  OBVIOUS
<1>3. /\ at[0] = SkipWrap(q.mem, q.tail)
      /\ \A k \in 0 .. DataSize : k # 0 =>
           at[k] = LET p == at[k - 1]
                   IN  IF q.mem[p].state = "ITEM" /\ EndOf(q.mem, p) \in Index
                       THEN SkipWrap(q.mem, EndOf(q.mem, p)) ELSE p
  BY <1>2, WalkFacts
<1>4. SUFFICES \E k \in 0 .. DataSize :
                 /\ at[k] = q.head
                 /\ \A j \in 0 .. k - 1 : Whole(q.mem, at[j], q.mem[at[0]].id + j)
                 /\ k > 0 => q.mem[at[0]].id + k - 1 < hdr.next_id
  BY <1>2
<1>5. CASE hdr.tail = hdr.head
  <2>1. q.tail = 0 /\ q.head = 0 /\ q.mem = [j \in Index |-> Zero] /\ 0 \in Index
    BY <1>1, <1>5 DEF Opened, Index
  <2>2. at[0] = q.head
    BY <1>3, <2>1 DEF SkipWrap, Zero, Block
  <2>3. 0 .. 0 - 1 = {} /\ 0 \in 0 .. DataSize
    OBVIOUS
  <2>4. QED
    BY <2>2, <2>3
<1>6. CASE hdr.tail # hdr.head
  <2>1. /\ q.tail = hdr.tail /\ q.head = hdr.head
        /\ q.mem[hdr.head] = Block("HEAD", 0, 0)
        /\ \A j : InPart(hdr, j) => j \in Index /\ q.mem[j] = disk[j]
    BY <1>1, <1>6, OpenedCells DEF InPart
  <2>2. PICK lo \in Nat, hi \in Nat :
          /\ lo <= hi /\ hi <= hdr.next_id
          /\ \E P \in [lo .. hi - 1 -> Index] : Chain(disk, hdr, lo, hi, P)
    BY DEF Loads
  <2>3. PICK P \in [lo .. hi - 1 -> Index] : Chain(disk, hdr, lo, hi, P)
    BY <2>2
  <2>4. lo < hi /\ P[lo] = hdr.tail /\ EndIn(disk, P[hi - 1]) = hdr.head
    BY <1>6, <2>2, <2>3 DEF Chain
  <2>5. ASSUME NEW n \in lo .. hi - 1
        PROVE  /\ q.mem[P[n]].state = "ITEM" /\ q.mem[P[n]].id = n
               /\ EndOf(q.mem, P[n]) = EndIn(disk, P[n])
               /\ SkipWrap(q.mem, P[n]) = P[n]
               /\ Whole(q.mem, P[n], n)
               /\ n - lo <= Dist(hdr.tail, P[n])
               /\ n # hi - 1 => LeadsIn(disk, hdr, P[n], P[n + 1])
    <3>1. /\ LinkIn(disk, hdr, P[n], n) /\ n - lo <= Dist(hdr.tail, P[n])
          /\ n # hi - 1 => LeadsIn(disk, hdr, P[n], P[n + 1])
      BY <2>3 DEF Chain
    <3>2. P[n] \in Index /\ P[n] \in Nat /\ disk[P[n]].size \in Nat
      <4>1. P[n] \in Index /\ disk[P[n]] \in FileCells
        BY <1>1
      <4>2. QED
        BY <4>1 DEF Index, FileCells
    <3>3. P[n] \in P[n] .. EndIn(disk, P[n]) - 1
      BY <3>2 DEF EndIn
    <3>4. /\ disk[P[n]].state = "ITEM" /\ disk[P[n]].id = n
          /\ \A j \in P[n] .. EndIn(disk, P[n]) - 1 :
               /\ j \in Index /\ q.mem[j] = disk[j]
               /\ j = P[n] \/ disk[j] = Payload(n)
      BY <2>1, <3>1 DEF LinkIn
    <3>5. q.mem[P[n]] = disk[P[n]]
      BY <3>3, <3>4
    <3>6. EndOf(q.mem, P[n]) = EndIn(disk, P[n])
      BY <3>5 DEF EndOf, EndIn
    <3>7. ASSUME NEW j \in P[n] + 1 .. EndIn(disk, P[n]) - 1
          PROVE  j \in Index /\ q.mem[j] = Payload(n)
      <4>1. j \in P[n] .. EndIn(disk, P[n]) - 1 /\ j # P[n]
        BY <3>2
      <4>2. QED
        BY <3>4, <4>1
    <3>8. Whole(q.mem, P[n], n)
      BY <3>2, <3>4, <3>5, <3>6, <3>7 DEF Whole
    <3>9. SkipWrap(q.mem, P[n]) = P[n]
      BY <3>4, <3>5 DEF SkipWrap
    <3>10. QED
      BY <3>1, <3>4, <3>5, <3>6, <3>8, <3>9
  <2>6. hi - lo \in 0 .. DataSize /\ \A k \in 0 .. hi - lo : k \in 0 .. DataSize
    <3>1. hi - 1 \in lo .. hi - 1
      BY <2>2, <2>4
    <3>2. hi - 1 - lo <= Dist(hdr.tail, P[hi - 1]) /\ P[hi - 1] \in Index
      BY <2>5, <3>1
    <3>3. Dist(hdr.tail, P[hi - 1]) \in Nat /\ Dist(hdr.tail, P[hi - 1]) < DataSize
      BY <1>1, <3>2, DistType
    <3>4. hi - lo <= DataSize
      BY <2>2, <3>2, <3>3
    <3>5. QED
      BY <2>2, <2>4, <3>4
  <2>7. ASSUME NEW n \in lo .. hi - 1, NEW k \in 1 .. hi - lo, at[k - 1] = P[n]
        PROVE  at[k] = IF n = hi - 1 THEN hdr.head ELSE P[n + 1]
    <3>1. at[k] = IF EndIn(disk, P[n]) \in Index
                  THEN SkipWrap(q.mem, EndIn(disk, P[n])) ELSE P[n]
      <4>1. k \in 0 .. DataSize /\ k # 0
        BY <2>2, <2>6
      <4>2. at[k] = IF q.mem[P[n]].state = "ITEM" /\ EndOf(q.mem, P[n]) \in Index
                    THEN SkipWrap(q.mem, EndOf(q.mem, P[n])) ELSE P[n]
        BY <1>3, <2>7, <4>1
      <4>3. QED
        BY <2>5, <4>2
    <3>2. CASE n = hi - 1
      <4>1. SkipWrap(q.mem, hdr.head) = hdr.head
        BY <2>1 DEF SkipWrap, Block
      <4>2. QED
        BY <1>1, <2>4, <3>1, <3>2, <4>1
    <3>3. CASE n # hi - 1
      <4>1. n + 1 \in lo .. hi - 1
        BY <2>2, <3>3
      <4>2. P[n + 1] \in Index /\ SkipWrap(q.mem, P[n + 1]) = P[n + 1]
        BY <2>5, <4>1
      <4>3. CASE P[n + 1] = EndIn(disk, P[n])
        BY <3>1, <3>3, <4>2, <4>3
      <4>4. CASE P[n + 1] = 0 /\ InPart(hdr, EndIn(disk, P[n]))
                 /\ disk[EndIn(disk, P[n])].state = "WRAP"
        <5>1. SkipWrap(q.mem, EndIn(disk, P[n])) = 0
          BY <2>1, <4>4 DEF SkipWrap
        <5>2. QED
          BY <2>1, <3>1, <3>3, <4>4, <5>1
      <4>5. QED
        BY <2>5, <3>3, <4>3, <4>4 DEF LeadsIn
    <3>4. QED
      BY <3>2, <3>3
  <2>8. \A k \in 0 .. hi - lo : at[k] = IF k = hi - lo THEN hdr.head ELSE P[lo + k]
    <3> DEFINE Off == {k \in 0 .. hi - lo :
                         at[k] # IF k = hi - lo THEN hdr.head ELSE P[lo + k]}
    <3>1. SUFFICES ASSUME Off # {} PROVE FALSE
      OBVIOUS
    <3>2. Off \subseteq Nat
      OBVIOUS
    <3>3. PICK k \in Off : \A m \in Off : k <= m
      <4> HIDE DEF Off
      <4>1. QED
        BY <3>1, <3>2, SmallestOf
    <3>4. k \in 0 .. hi - lo /\ at[k] # IF k = hi - lo THEN hdr.head ELSE P[lo + k]
      BY <3>3
    <3>5. k # 0
      <4>1. ASSUME k = 0
            PROVE  at[k] = P[lo + k] /\ k # hi - lo
        <5>1. lo + k = lo /\ lo \in lo .. hi - 1 /\ k # hi - lo
          BY <2>2, <2>4, <4>1
        <5>2. at[0] = SkipWrap(q.mem, P[lo])
          BY <1>3, <2>1, <2>4
        <5>3. QED
          BY <2>5, <4>1, <5>1, <5>2
      <4>2. QED
        BY <3>4, <4>1
    <3>6. /\ k - 1 \in 0 .. hi - lo /\ k - 1 # hi - lo /\ k \in 1 .. hi - lo /\ ~(k <= k - 1)
          /\ lo + (k - 1) \in lo .. hi - 1 /\ lo + (k - 1) + 1 = lo + k
          /\ (lo + (k - 1) = hi - 1) <=> (k = hi - lo)
      BY <2>2, <3>4, <3>5
    <3>7. k - 1 \notin Off
      <4> HIDE DEF Off
      <4>1. QED
        BY <3>3, <3>6
    <3>8. at[k - 1] = P[lo + (k - 1)]
      BY <3>6, <3>7
    <3>9. at[k] = IF k = hi - lo THEN hdr.head ELSE P[lo + k]
      BY <2>7, <3>6, <3>8
    <3>10. QED
      BY <3>4, <3>9
  <2>9. at[0] = P[lo] /\ q.mem[at[0]].id = lo
    <3>1. 0 \in 0 .. hi - lo /\ 0 # hi - lo /\ lo + 0 = lo /\ lo \in lo .. hi - 1
      BY <2>2, <2>4
    <3>2. at[0] = P[lo]
      BY <2>8, <3>1
    <3>3. QED
      BY <2>5, <3>1, <3>2
  <2>10. ASSUME NEW j \in 0 .. hi - lo - 1
         PROVE  Whole(q.mem, at[j], q.mem[at[0]].id + j)
    <3>1. j \in 0 .. hi - lo /\ j # hi - lo /\ lo + j \in lo .. hi - 1
      BY <2>2
    <3>2. at[j] = P[lo + j]
      BY <2>8, <3>1
    <3>3. QED
      BY <2>5, <2>9, <3>1, <3>2
  <2>11. at[hi - lo] = q.head
    <3>1. hi - lo \in 0 .. hi - lo
      BY <2>2, <2>4
    <3>2. QED
      BY <2>1, <2>8, <3>1
  <2>12. q.mem[at[0]].id + (hi - lo) - 1 < hdr.next_id
    BY <1>1, <2>2, <2>9
  <2>13. QED
    BY <2>6, <2>10, <2>11, <2>12
<1>7. QED
  BY <1>5, <1>6

\* save_locked and Open: the file can be opened after every write, and holds
\* whole items with consecutive ids below its next_id.
THEOREM LoadsCorrect ==
  ASSUME RoomForThree
  PROVE  SpecSave => []FileLoads
<1>1. FileInv => FileLoads
  <2>1. SUFFICES ASSUME FileInv, ~overrun
                 PROVE  FileLoads
    BY DEF FileLoads
  <2>2. FileType /\ Loads(disk, hdr)
    BY <2>1 DEF FileInv, Sound, Loadable
  <2>3. QED
    BY <2>2, ChainLoads DEF FileLoads
<1>2. QED
  BY <1>1, FileInductive, PTL
=============================================================================
