---------------------------- MODULE ReaderProofs ----------------------------
(***************************************************************************)
(* Proofs about the readers of module Queue: Get hands out every kept item *)
(* in order, and the ring buffer implements the event log.                 *)
(*                                                                         *)
(* A Get that waits keeps an index into the buffer while the lock is free, *)
(* so the inductive invariant says where that index leads as the ring goes *)
(* round, and how far the ring has come when it runs over the index.       *)
(***************************************************************************)
EXTENDS QueueProofs, WellFoundedInduction

\* Output calls Get first with a cursor for one of the ends of the queue.
StartAtAnEnd == FirstCursors \subseteq {HeadCursor, TailCursor}

\* The id of the item that Get hands out next for cursor c.
DueItem(c) ==
  IF c = HeadCursor THEN next_id
  ELSE IF c.id + 1 < first THEN first ELSE c.id + 1

\* A cursor that Get returned still names its block, unless that was given up.
CursorOK(c) ==
  \/ c \in {HeadCursor, TailCursor}
  \/ /\ c.id \in 1 .. next_id - 1
     /\ first <= c.id => pos[c.id] = c.index

\* Nothing that is kept lies between cursor c and item n.
NoneBetween(c, n) ==
  c # HeadCursor => c.id < n /\ \A i \in c.id + 1 .. n - 1 : i < first

\* The index p kept by a waiting Get leads to block q.  That block is item n,
\* and the next Put may write over it, or over the WRAP block at p, only from
\* _head on.
LeadsTo(p, n) ==
  LET q == SkipWrap(mem, p) IN
  /\ Holds(q, n)
  /\ head + Hdr <= q \/ EndOf(mem, q) <= head
  /\ q # p => EndOf(mem, q) <= head /\ head + Hdr <= p

\* The largest block, and what is left of the buffer when one more of them and
\* the headers around it no longer fit.
MaxBlock == MaxItem + Hdr
LapRoom == DataSize - MaxItem - 3 * Hdr

\* Where _head can be, at h, when it came from p and the blocks put since then
\* have at most `moved` cells; it skips less than a block when it wraps.
Travel(h, p, moved) ==
  \/ moved > LapRoom
  \/ p <= h /\ h <= p + moved
  \/ h < p /\ h <= moved /\ moved + p - h > LapRoom + Hdr

\* A Get that waits with record w of `get` and was not interrupted.
WaiterOK(w) ==
  LET moved == (next_id - w.want) * MaxBlock IN
  /\ w.want = next_id => w.index = head /\ ~w.lapped
  /\ w.want < next_id /\ ~w.lapped => LeadsTo(w.index, w.want)
  /\ w.lapped => moved > LapRoom
  /\ Travel(head, w.index, moved)

ReaderOK(g) ==
  /\ g \notin astray => CursorOK(cur[g])
  /\ get[g].int_id <= int_id
  /\ get[g].waits =>
       /\ get[g].want \in 1 .. next_id
       /\ g \notin astray => NoneBetween(cur[g], get[g].want)
       /\ get[g].int_id = int_id => WaiterOK(get[g])

ReadersOK == \A g \in Getters : ReaderOK(g)

-----------------------------------------------------------------------------
(* The largest item. *)

LEMMA LargestItem ==
  ASSUME RoomForThree
  PROVE  /\ MaxItem \in ItemSizes /\ MaxItem \in Nat
         /\ \A s \in ItemSizes : s \in Nat /\ s <= MaxItem
         /\ 3 * MaxItem + 5 * Hdr <= DataSize
<1> USE QueueConstants
<1> DEFINE Bounds == {n \in Nat : \A s \in ItemSizes : s <= n}
           Less == OpToRel(<, Nat)
<1>1. DataSize \in Bounds
  <2>1. ASSUME NEW s \in ItemSizes
        PROVE  s <= DataSize
    <3>1. s \in Nat /\ 3 * (s + Hdr) + 2 * Hdr <= DataSize
      BY DEF RoomForThree
    <3>2. QED
      BY <3>1
  <2>2. QED
    BY <2>1
<1>2. PICK m \in Bounds : \A n \in Bounds : ~(<<n, m>> \in Less)
  <2>1. Bounds \subseteq Nat /\ Bounds # {}
    BY <1>1
  <2>2. IsWellFoundedOn(Less, Nat)
    BY NatLessThanWellFounded
  <2> HIDE DEF Bounds, Less
  <2>3. QED
    BY <2>1, <2>2, WFMin
<1>3. \A n \in Bounds : ~(n < m)
  BY <1>2 DEF OpToRel
<1>4. m \in ItemSizes
  <2>1. SUFFICES ASSUME m \notin ItemSizes
                 PROVE  FALSE
    OBVIOUS
  <2>2. PICK s \in ItemSizes : TRUE
    OBVIOUS
  <2>3. m - 1 \in Nat
    BY <2>1, <2>2
  <2>4. \A t \in ItemSizes : t <= m - 1
    BY <2>1, <2>3
  <2>5. QED
    BY <1>3, <2>3, <2>4
<1>5. \E s \in ItemSizes : \A t \in ItemSizes : t <= s
  BY <1>4
<1>6. MaxItem \in ItemSizes /\ \A t \in ItemSizes : t <= MaxItem
  BY <1>5 DEF MaxItem
<1>7. MaxItem \in Nat /\ 3 * (MaxItem + Hdr) + 2 * Hdr <= DataSize
  BY <1>6 DEF RoomForThree
<1>8. QED
  BY <1>6, <1>7

-----------------------------------------------------------------------------
(* Where Get looks. *)

\* No WRAP block stands at _head or in the place of an item, and _head is not
\* the place of an item.
LEMMA Places ==
  ASSUME IInv
  PROVE  /\ SkipWrap(mem, head) = head
         /\ \A n \in Live : SkipWrap(mem, pos[n]) = pos[n] /\ pos[n] # head
         /\ first # next_id => first \in Live /\ tail = pos[first] /\ mem[tail].id = first
         /\ first = next_id => tail = head /\ mem = [j \in Index |-> Zero]
<1>1. mem[head].state \notin {"ITEM", "WRAP"}
  BY DEF IInv, RingInv, Chained
<1>2. \A n \in Live : mem[pos[n]].state = "ITEM" /\ mem[pos[n]].id = n
  BY DEF IInv, RingInv, ItemsIntact, Holds
<1>3. ASSUME first # next_id
      PROVE  first \in Live /\ tail = pos[first] /\ mem[tail].id = first
  BY <1>2, <1>3, EndFacts DEF Live, IInv, RingInv, Chained
<1>4. ASSUME first = next_id
      PROVE  tail = head /\ mem = [j \in Index |-> Zero]
  BY <1>4, EndFacts DEF IInv, RingInv, Chained
<1>5. QED
  BY <1>1, <1>2, <1>3, <1>4 DEF SkipWrap

\* Get follows a cursor to the item that is due: the one after it, or the
\* oldest, or _head if there is none.
LEMMA FollowDue ==
  ASSUME IInv, NEW c \in [id : Int, index : Int], CursorOK(c)
  PROVE  /\ DueItem(c) \in first .. next_id
         /\ SkipWrap(mem, Follow(c)) = Follow(c)
         /\ DueItem(c) = next_id => Follow(c) = head
         /\ DueItem(c) # next_id => /\ DueItem(c) \in Live
                                    /\ Follow(c) = pos[DueItem(c)] /\ Follow(c) # head
<1> USE QueueConstants
<1> DEFINE Goal(n, p) == /\ DueItem(c) = n /\ n \in first .. next_id
                         /\ Follow(c) = p /\ SkipWrap(mem, p) = p
                         /\ n = next_id => p = head
                         /\ n # next_id => n \in Live /\ p = pos[n] /\ p # head
<1>1. SUFFICES \E n, p : Goal(n, p)
  OBVIOUS
<1>2. /\ first \in Nat /\ next_id \in Nat /\ 1 <= first /\ first <= next_id
      /\ head \in Nat /\ tail \in Nat /\ head + Hdr <= DataSize
  BY EndFacts
<1>3. CASE c = HeadCursor
  <2>1. Follow(c) = head /\ DueItem(c) = next_id
    BY <1>3, Places DEF Follow, AtEnd, DueItem
  <2>2. Goal(next_id, head)
    BY <1>2, <2>1, Places
  <2>3. QED
    BY <2>2
<1>4. ASSUME c # HeadCursor, ~AtEnd(c), ~AtItem(c), c.id < first
      PROVE  Goal(first, tail)
  <2>1. SkipWrap(mem, tail) = tail
    BY Places
  <2>2. Follow(c) = tail
    BY <1>4, <2>1 DEF Follow
  <2>3. DueItem(c) = first
    BY <1>2, <1>4 DEF DueItem
  <2>4. QED
    BY <1>2, <2>1, <2>2, <2>3, Places
<1>5. CASE c = TailCursor
  <2>1. c # HeadCursor /\ c.id = 0 /\ c.index = DataSize
    BY <1>5 DEF TailCursor, HeadCursor, Cursor
  <2>2. ~AtEnd(c) /\ ~AtItem(c)
    BY <2>1 DEF AtEnd, AtItem
  <2>3. QED
    BY <1>2, <1>4, <2>1, <2>2
<1>6. CASE /\ c.id \in 1 .. next_id - 1
           /\ first <= c.id => pos[c.id] = c.index
  <2>1. c # HeadCursor /\ ~AtEnd(c)
    BY <1>2, <1>6 DEF AtEnd, HeadCursor, Cursor
  <2>2. CASE c.id < first
    <3>1. ~AtItem(c)
      <4>1. CASE first # next_id
        BY <1>2, <1>6, <2>2, <4>1, Places DEF AtItem
      <4>2. CASE first = next_id
        <5>1. c.index \in Index => mem[c.index].id = 0
          BY <4>2, Places DEF Zero, Block
        <5>2. QED
          BY <1>6, <5>1 DEF AtItem, Index
      <4>3. QED
        BY <4>1, <4>2
    <3>2. QED
      BY <1>4, <2>1, <2>2, <3>1
  <2>3. CASE first <= c.id
    <3> DEFINE n == c.id + 1
    <3>1. c.id \in Live /\ pos[c.id] = c.index /\ mem[tail].id = first
      BY <1>2, <1>6, <2>3, Places DEF Live
    <3>2. AtItem(c)
      <4>1. mem[c.index].id = c.id /\ mem[c.index].state = "ITEM"
        BY <3>1 DEF IInv, RingInv, ItemsIntact, Holds
      <4>2. c.index \in Nat /\ c.index + Hdr <= DataSize
        BY <3>1, ItemFacts
      <4>3. QED
        BY <1>2, <1>6, <2>3, <3>1, <4>1, <4>2 DEF AtItem
    <3>3. Follow(c) = SkipWrap(mem, ItemEnd(c.id)) /\ DueItem(c) = n
      BY <1>2, <2>1, <2>3, <3>1, <3>2 DEF Follow, ItemEnd, DueItem
    <3>4. CASE n = next_id
      <4>1. ItemEnd(c.id) = head
        BY <1>2, <1>6, <2>3, <3>4 DEF ItemEnd, IInv, RingInv, Chained
      <4>2. Goal(n, head)
        BY <1>2, <3>3, <3>4, <4>1, Places
      <4>3. QED
        BY <4>2
    <3>5. CASE n # next_id
      <4>1. n \in Live /\ c.id # next_id - 1
        BY <1>2, <1>6, <2>3, <3>5 DEF Live
      <4>2. SkipWrap(mem, ItemEnd(c.id)) = pos[n]
        BY <3>1, <4>1, Places DEF ItemEnd, SkipWrap, IInv, RingInv, Chained
      <4>3. Goal(n, pos[n])
        BY <1>2, <3>3, <3>5, <4>1, <4>2, Places DEF Live
      <4>4. QED
        BY <4>3
    <3>6. QED
      BY <3>4, <3>5
  <2>4. QED
    BY <1>2, <1>6, <2>2, <2>3
<1>7. QED
  BY <1>3, <1>5, <1>6 DEF CursorOK

-----------------------------------------------------------------------------
(* A Get waits while an item is put. *)

LEMMA CommitTravel ==
  ASSUME RoomForThree, IInv, PutCommit,
         NEW p \in Nat, NEW moved \in Nat, Travel(head, p, moved)
  PROVE  /\ MaxBlock \in Nat /\ LapRoom \in Nat
         /\ Travel(NewHead, p, moved + MaxBlock)
         /\ p # head /\ p \in Base .. NewHead + Hdr - 1 => moved + MaxBlock > LapRoom
         /\ Wraps /\ head < p => moved + MaxBlock > LapRoom
<1> USE QueueConstants
<1>1. /\ put.size \in Nat /\ put.size <= MaxItem /\ MaxItem \in Nat
      /\ 3 * MaxItem + 5 * Hdr <= DataSize
  BY CommitPlace, LargestItem
<1>2. /\ MaxBlock = MaxItem + Hdr /\ LapRoom = DataSize - MaxItem - 3 * Hdr
      /\ MaxBlock \in Nat /\ LapRoom \in Nat
  BY <1>1 DEF MaxBlock, LapRoom
<1>3. head \in Nat /\ NewHead \in Nat /\ Base \in Nat /\ NewHead = Base + Hdr + put.size
  BY EndFacts, CommitPlace
<1>4. CASE Wraps
  <2>1. Base = 0 /\ NewHead < head /\ DataSize - head < put.size + 2 * Hdr
    BY <1>3, <1>4, EndFacts, CommitPlace DEF Wraps, WouldWrap
  <2>2. QED
    BY <1>1, <1>2, <1>3, <2>1 DEF Travel
<1>5. CASE ~Wraps
  <2>1. Base = head
    BY <1>5, CommitPlace, EndFacts
  <2>2. QED
    BY <1>1, <1>2, <1>3, <1>5, <2>1 DEF Travel
<1>6. QED
  BY <1>4, <1>5

\* The item for which a Get waits from its own index on is put there.
LEMMA CommitFirst ==
  ASSUME IInv, PutCommit, NEW p, p = head, NEW n, n = next_id
  PROVE  LeadsTo(p, n)'
<1> USE QueueConstants
<1> PICK b : b = Base
  OBVIOUS
<1>1. /\ p \in Nat /\ b \in Index /\ b \in Nat /\ NewHead \in Nat
      /\ NewHead = b + Hdr + put.size /\ put.size \in Nat
      /\ head' = NewHead
  BY EndFacts, CommitPlace DEF PutCommit
<1>2. SkipWrap(mem', p) = b
  <2>1. CASE Wraps
    BY <2>1, CommitCells, CommitPlace DEF SkipWrap, Block
  <2>2. CASE ~Wraps
    BY <2>2, CommitCells, CommitPlace, EndFacts DEF SkipWrap, Block
  <2>3. QED
    BY <2>1, <2>2
<1>3. EndOf(mem', b) = NewHead
  BY <1>1, CommitCells DEF EndOf, Block
<1>4. Holds(b, n)'
  <2>1. mem'[b].state = "ITEM" /\ mem'[b].id = n
    BY CommitCells DEF Block
  <2>2. \A j \in b + 1 .. NewHead - 1 : j \in Index /\ mem'[j] = Payload(n)
    BY CommitCells
  <2>3. QED
    BY <1>1, <1>3, <2>1, <2>2 DEF Holds
<1>5. b # p => NewHead <= NewHead /\ NewHead + Hdr <= p
  BY <1>1, CommitPlace, EndFacts
<1>6. QED
  BY <1>1, <1>2, <1>3, <1>4, <1>5 DEF LeadsTo

\* A later Put leaves the way from index p to item n alone, or runs into it.
LEMMA CommitLater ==
  ASSUME IInv, PutCommit, NEW p \in Index, NEW n, LeadsTo(p, n), ~RunsInto(p)
  PROVE  LeadsTo(p, n)'
<1> USE QueueConstants
<1> PICK q : q = SkipWrap(mem, p)
  OBVIOUS
<1> PICK e : e = EndOf(mem, q)
  OBVIOUS
<1>1. /\ head \in Nat /\ Base \in Nat /\ NewHead \in Nat /\ tail \in Nat
      /\ NewHead = Base + Hdr + put.size /\ put.size \in Nat
      /\ head' = NewHead
      /\ ~Wraps => Base = head
      /\ Wraps => Base = 0 /\ NewHead + Hdr < head
  BY EndFacts, CommitPlace DEF PutCommit
<1>2. /\ p \in Nat /\ q \in Nat /\ q \in Index /\ e \in Nat /\ q + Hdr <= e
      /\ q # p => q = 0
  <2>1. mem[q].size \in Nat
    BY DEF LeadsTo, Holds, IInv, TypeOK
  <2>2. q \in Index
    BY DEF LeadsTo, Holds
  <2>3. QED
    BY <2>1, <2>2 DEF Index, EndOf, SkipWrap
<1>3. /\ mem[q].state = "ITEM" /\ mem[q].id = n
      /\ \A j \in q + 1 .. e - 1 : j \in Index /\ mem[j] = Payload(n)
  BY DEF LeadsTo, Holds
<1>4. /\ head + Hdr <= q \/ e <= head
      /\ q # p => e <= head /\ head + Hdr <= p
  BY DEF LeadsTo
<1>5. /\ q \notin Base .. NewHead + Hdr - 1 /\ p \notin Base .. NewHead + Hdr - 1
      /\ ~(Wraps /\ q = head) /\ ~(Wraps /\ p = head)
  BY DEF RunsInto
<1>6. /\ \A j \in q .. e - 1 : ~Touched(j)
      /\ NewHead + Hdr <= q \/ e <= NewHead
      /\ q # p => e <= NewHead /\ NewHead + Hdr <= p /\ ~Touched(p)
  <2>1. CASE ~Wraps
    BY <1>1, <1>2, <1>4, <1>5, <2>1 DEF Touched
  <2>2. CASE Wraps
    <3>1. NewHead + Hdr <= q /\ q = p
      BY <1>1, <1>2, <1>5, <2>2
    <3>2. QED
      BY <1>1, <1>2, <1>4, <2>2, <3>1 DEF Touched
  <2>3. QED
    BY <2>1, <2>2
<1>7. \A j \in q .. e - 1 : j \in Index /\ mem'[j] = mem[j]
  BY <1>2, <1>3, <1>6, CommitCells
<1>8. mem'[q] = mem[q] /\ mem'[p] = mem[p]
  <2>1. q \in q .. e - 1
    BY <1>2
  <2>2. q # p => mem'[p] = mem[p]
    BY <1>6, CommitCells
  <2>3. QED
    BY <1>7, <2>1, <2>2
<1>9. SkipWrap(mem', p) = q /\ EndOf(mem', q) = e
  BY <1>8 DEF SkipWrap, EndOf
<1>10. Holds(q, n)'
  BY <1>2, <1>3, <1>7, <1>8, <1>9 DEF Holds
<1>11. QED
  BY <1>1, <1>6, <1>9, <1>10 DEF LeadsTo

\* What a getter's record of its wait holds.
LEMMA GetFacts ==
  ASSUME TypeOK, NEW g \in Getters
  PROVE  /\ get[g] = [waits |-> get[g].waits, index |-> get[g].index,
                      int_id |-> get[g].int_id, want |-> get[g].want,
                      lapped |-> get[g].lapped]
         /\ get[g].waits \in BOOLEAN /\ get[g].lapped \in BOOLEAN
         /\ get[g].index \in Index /\ get[g].index \in Nat
         /\ get[g].int_id \in Nat /\ get[g].want \in Nat
<1>1. get[g] \in [waits : BOOLEAN, index : Index, int_id : Nat, want : Nat,
                  lapped : BOOLEAN]
  BY DEF TypeOK
<1>2. QED
  BY <1>1 DEF Index

LEMMA CommitWaiter ==
  ASSUME RoomForThree, IInv, PutCommit, NEW g \in Getters,
         get[g].waits, get[g].want \in 1 .. next_id, WaiterOK(get[g])
  PROVE  WaiterOK(get[g])'
<1> USE QueueConstants
<1> PICK p : p = get[g].index
  OBVIOUS
<1> PICK n : n = get[g].want
  OBVIOUS
<1> PICK moved : moved = (next_id - n) * MaxBlock
  OBVIOUS
<1>1. /\ p \in Index /\ p \in Nat /\ n \in Nat /\ n <= next_id /\ next_id \in Nat
      /\ head' = NewHead /\ next_id' = next_id + 1 /\ head \in Nat
      /\ get[g].lapped \in BOOLEAN
  <2>1. TypeOK
    BY DEF IInv
  <2>2. p \in Index /\ p \in Nat /\ n \in Nat /\ get[g].lapped \in BOOLEAN
    BY <2>1, GetFacts
  <2>3. n <= next_id /\ next_id \in Nat /\ head \in Nat
    BY <2>2, EndFacts
  <2>4. head' = NewHead /\ next_id' = next_id + 1
    BY DEF PutCommit
  <2>5. QED
    BY <2>2, <2>3, <2>4
<1>2. /\ get'[g].index = p /\ get'[g].want = n
      /\ get'[g].lapped = (get[g].lapped \/ (n < next_id /\ RunsInto(p)))
  <2>1. get'[g] = [get[g] EXCEPT !.lapped =
                     @ \/ (get[g].waits /\ get[g].want < next_id /\ RunsInto(get[g].index))]
    BY DEF PutCommit
  <2>2. TypeOK
    BY DEF IInv
  <2>3. QED
    BY <2>1, <2>2, GetFacts
<1>3. MaxBlock \in Nat /\ LapRoom \in Nat
  BY LargestItem DEF MaxBlock, LapRoom
<1>4. moved \in Nat /\ (next_id' - n) * MaxBlock = moved + MaxBlock
  <2>1. next_id - n \in Nat /\ next_id' - n = (next_id - n) + 1
    BY <1>1
  <2>2. \A a, k \in Nat : a * k \in Nat /\ (a + 1) * k = a * k + k
    OBVIOUS
  <2>3. QED
    BY <1>3, <2>1, <2>2
<1>5. /\ n = next_id => p = head /\ ~get[g].lapped
      /\ n < next_id /\ ~get[g].lapped => LeadsTo(p, n)
      /\ get[g].lapped => moved > LapRoom
      /\ Travel(head, p, moved)
  BY DEF WaiterOK
<1>6. /\ Travel(NewHead, p, moved + MaxBlock)
      /\ p # head /\ p \in Base .. NewHead + Hdr - 1 => moved + MaxBlock > LapRoom
      /\ Wraps /\ head < p => moved + MaxBlock > LapRoom
  BY <1>1, <1>4, <1>5, CommitTravel
<1>7. get'[g].lapped => moved + MaxBlock > LapRoom
  <2>1. CASE get[g].lapped
    BY <1>3, <1>4, <1>5, <2>1
  <2>2. CASE ~get[g].lapped /\ n < next_id /\ RunsInto(p)
    <3> PICK q : q = SkipWrap(mem, p)
      OBVIOUS
    <3>1. /\ q \in Index /\ EndOf(mem, q) \in Nat /\ q + Hdr <= EndOf(mem, q)
          /\ head + Hdr <= q \/ EndOf(mem, q) <= head
          /\ q # p => EndOf(mem, q) <= head /\ head + Hdr <= p
      <4>1. q \in Index
        BY <1>5, <2>2 DEF LeadsTo, Holds
      <4>2. mem[q].size \in Nat
        BY <4>1 DEF IInv, TypeOK
      <4>3. EndOf(mem, q) \in Nat /\ q + Hdr <= EndOf(mem, q)
        BY <4>1, <4>2 DEF Index, EndOf
      <4>4. QED
        BY <1>5, <2>2, <4>1, <4>3 DEF LeadsTo
    <3>2. q # p => q = 0
      BY DEF SkipWrap
    <3>3. p # head
      BY <1>1, <3>1 DEF Index
    <3>4. \/ p \in Base .. NewHead + Hdr - 1
          \/ q # p /\ q \in Base .. NewHead + Hdr - 1
          \/ q # p /\ Wraps /\ q = head
      BY <2>2, <3>3 DEF RunsInto
    <3>5. q # p => head < p /\ head > 0
      BY <1>1, <3>1, <3>2 DEF Index
    <3>6. q # p /\ q \in Base .. NewHead + Hdr - 1 => Wraps
      BY <1>1, <3>2, <3>5, CommitPlace, EndFacts
    <3>7. QED
      BY <1>6, <3>2, <3>3, <3>4, <3>5, <3>6
  <2>3. QED
    BY <1>2, <2>1, <2>2
<1>8. ~get'[g].lapped => LeadsTo(p, n)'
  <2>1. SUFFICES ASSUME ~get'[g].lapped
                 PROVE  LeadsTo(p, n)'
    OBVIOUS
  <2>2. CASE n = next_id
    BY <1>5, <2>2, CommitFirst
  <2>3. CASE n < next_id
    <3>1. ~get[g].lapped /\ ~RunsInto(p)
      BY <1>2, <2>1, <2>3
    <3>2. LeadsTo(p, n)
      BY <1>5, <2>3, <3>1
    <3>3. QED
      BY <1>1, <3>1, <3>2, CommitLater
  <2>4. QED
    BY <1>1, <2>2, <2>3
<1>9. n < next_id'
  BY <1>1
<1>10. QED
  BY <1>1, <1>2, <1>4, <1>6, <1>7, <1>8, <1>9 DEF WaiterOK, LeadsTo, Holds

-----------------------------------------------------------------------------
(* What a Get returns. *)

LEMMA CurFacts ==
  ASSUME TypeOK, NEW g \in Getters
  PROVE  cur[g] \in [id : Int, index : Int] /\ cur[g].id \in Int
BY DEF TypeOK

\* A Get that does not wait returns the item that is due.
LEMMA NowGets ==
  ASSUME IInv, NEW g \in Getters, CursorOK(cur[g]), GetNow(g)
  PROVE  \E n \in Live : /\ n = DueItem(cur[g]) /\ n < next_id /\ n \in Nat
                         /\ cur'[g] = Cursor(n, pos[n]) /\ Holds(pos[n], n)
                         /\ NoneBetween(cur[g], n)
<1>1. TypeOK
  BY DEF IInv
<1>2. cur[g] \in [id : Int, index : Int] /\ cur[g].id \in Int /\ cur \in [Getters -> [id : Int, index : Int]]
  BY <1>1, CurFacts DEF TypeOK
<1> DEFINE n == DueItem(cur[g])
<1>3. Follow(cur[g]) # head
  BY <1>2, FollowDue DEF GetNow, HaveData
<1>4. n \in Live /\ Follow(cur[g]) = pos[n] /\ SkipWrap(mem, Follow(cur[g])) = pos[n]
  BY <1>2, <1>3, FollowDue
<1>5. Holds(pos[n], n) /\ mem[pos[n]].id = n
  BY <1>4 DEF IInv, RingInv, ItemsIntact, Holds
<1>6. cur'[g] = Cursor(n, pos[n])
  BY <1>2, <1>4, <1>5 DEF GetNow, Deliver
<1>7. NoneBetween(cur[g], n) /\ n < next_id /\ n \in Nat
  BY <1>2, <1>4, EndFacts DEF NoneBetween, DueItem, Live
<1>8. QED
  BY <1>4, <1>5, <1>6, <1>7

\* A Get that waits had nothing to return: the next item put is due.
LEMMA WaitsForNext ==
  ASSUME IInv, NEW g \in Getters, GetWait(g)
  PROVE  /\ Follow(cur[g]) = head
         /\ CursorOK(cur[g]) => DueItem(cur[g]) = next_id /\ NoneBetween(cur[g], next_id)
<1>1. TypeOK
  BY DEF IInv
<1>2. cur[g] \in [id : Int, index : Int] /\ cur[g].id \in Int
  BY <1>1, CurFacts
<1>3. \A p : SkipWrap(mem, SkipWrap(mem, p)) = SkipWrap(mem, p)
  BY DEF SkipWrap
<1>4. SkipWrap(mem, Follow(cur[g])) = head
  BY DEF GetWait, HaveData
<1>5. Follow(cur[g]) = head
  BY <1>3, <1>4 DEF Follow
<1>6. ASSUME CursorOK(cur[g])
      PROVE  DueItem(cur[g]) = next_id /\ NoneBetween(cur[g], next_id)
  <2>1. DueItem(cur[g]) = next_id
    BY <1>2, <1>5, <1>6, FollowDue
  <2>2. QED
    BY <1>2, <2>1, EndFacts DEF DueItem, NoneBetween
<1>7. QED
  BY <1>5, <1>6

\* A Get that waited returns the item it waited for, unless it was run over; then
\* more was put than the buffer holds.
LEMMA WakeGets ==
  ASSUME IInv, NEW g \in Getters, ReaderOK(g), GetWake(g)
  PROVE  /\ get[g].want \in 1 .. next_id - 1
         /\ get[g].lapped => (next_id - get[g].want) * MaxBlock > LapRoom
         /\ ~get[g].lapped =>
              \E p \in Index : /\ cur'[g] = Cursor(get[g].want, p)
                               /\ Holds(p, get[g].want)
                               /\ first <= get[g].want => pos[get[g].want] = p
<1> DEFINE n == get[g].want
<1>1. TypeOK
  BY DEF IInv
<1>2. cur \in [Getters -> [id : Int, index : Int]] /\ n \in Nat
      /\ get[g].index \in Index /\ next_id \in Nat /\ first \in Nat
  BY <1>1, GetFacts, EndFacts DEF TypeOK
<1>3. n \in 1 .. next_id /\ WaiterOK(get[g])
  BY DEF ReaderOK, GetWake
<1>4. n # next_id
  <2>1. SkipWrap(mem, get[g].index) # head
    BY DEF GetWake, HaveData
  <2>2. QED
    BY <1>3, <2>1, Places DEF WaiterOK
<1>5. ASSUME ~get[g].lapped
      PROVE  \E p \in Index : /\ cur'[g] = Cursor(n, p) /\ Holds(p, n)
                              /\ first <= n => pos[n] = p
  <2> DEFINE p == SkipWrap(mem, get[g].index)
  <2>1. LeadsTo(get[g].index, n)
    BY <1>2, <1>3, <1>4, <1>5 DEF WaiterOK
  <2>2. Holds(p, n) /\ p \in Index /\ mem[p].id = n /\ mem[p].state = "ITEM"
    BY <2>1 DEF LeadsTo, Holds
  <2>3. cur'[g] = Cursor(n, p)
    BY <1>2, <2>2 DEF GetWake, Deliver
  <2>4. first <= n => pos[n] = p
    BY <2>2 DEF IInv, RingInv, ItemsUnique
  <2>5. QED
    BY <2>2, <2>3, <2>4
<1>6. get[g].lapped => (next_id - n) * MaxBlock > LapRoom
  BY <1>3 DEF WaiterOK
<1>7. QED
  BY <1>2, <1>3, <1>4, <1>5, <1>6

-----------------------------------------------------------------------------
(* The invariant of the readers is inductive. *)

LEMMA OtherReader ==
  ASSUME IInv, NEW g \in Getters, ReaderOK(g), UNCHANGED ring, int_id' \in {int_id, int_id + 1},
         cur'[g] = cur[g], get'[g] = get[g], g \in astray' <=> g \in astray
  PROVE  ReaderOK(g)'
<1>1. TypeOK
  BY DEF IInv
<1>2. get[g].int_id \in Nat /\ int_id \in Nat
  BY <1>1, GetFacts DEF TypeOK
<1>3. /\ mem' = mem /\ head' = head /\ next_id' = next_id /\ first' = first /\ pos' = pos
  BY DEF ring
<1>4. g \notin astray' => CursorOK(cur[g])'
  BY <1>3 DEF ReaderOK, CursorOK
<1>5. get'[g].int_id <= int_id'
  BY <1>2 DEF ReaderOK
<1>6. ASSUME get'[g].waits
      PROVE  /\ get'[g].want \in 1 .. next_id'
             /\ g \notin astray' => NoneBetween(cur[g], get[g].want)'
             /\ get'[g].int_id = int_id' => WaiterOK(get[g])'
  <2>1. get'[g].int_id = int_id' => WaiterOK(get[g])'
    <3>1. get'[g].int_id = int_id' => get[g].int_id = int_id
      BY <1>2 DEF ReaderOK
    <3>2. QED
      BY <1>3, <1>6, <3>1 DEF ReaderOK, WaiterOK, LeadsTo, Holds
  <2>2. QED
    BY <1>3, <1>6, <2>1 DEF ReaderOK, NoneBetween
<1>7. QED
  BY <1>4, <1>5, <1>6 DEF ReaderOK

LEMMA DropReader ==
  ASSUME RoomForThree, IInv, NEW g \in Getters, ReaderOK(g), PutDrop
  PROVE  ReaderOK(g)'
<1>1. /\ mem' = mem /\ head' = head /\ next_id' = next_id /\ int_id' = int_id
      /\ get' = get /\ cur' = cur /\ astray' = astray /\ first' = first + 1
      /\ pos' = [n \in first + 1 .. next_id - 1 |-> pos[n]]
  BY DEF PutDrop
<1>2. TypeOK /\ first \in Nat /\ next_id \in Nat
  BY EndFacts DEF IInv
<1>3. cur[g].id \in Int
  BY <1>2, CurFacts
<1>4. g \notin astray' => CursorOK(cur[g])'
  BY <1>1, <1>2, <1>3 DEF ReaderOK, CursorOK
<1>5. NoneBetween(cur[g], get[g].want) => NoneBetween(cur[g], get[g].want)'
  <2>1. \A i \in Int : i < first => i < first'
    BY <1>1, <1>2
  <2>2. get[g].want \in Nat
    BY <1>2, GetFacts
  <2>3. QED
    BY <1>1, <1>3, <2>1, <2>2 DEF NoneBetween
<1>6. WaiterOK(get[g]) => WaiterOK(get[g])'
  BY <1>1 DEF WaiterOK, LeadsTo, Holds
<1>7. QED
  BY <1>1, <1>4, <1>5, <1>6 DEF ReaderOK

LEMMA CommitReader ==
  ASSUME RoomForThree, IInv, NEW g \in Getters, ReaderOK(g), PutCommit
  PROVE  ReaderOK(g)'
<1>1. /\ next_id' = next_id + 1 /\ int_id' = int_id
      /\ cur' = cur /\ astray' = astray /\ first' = first
      /\ pos' = [k \in first .. next_id |-> IF k = next_id THEN Base ELSE pos[k]]
  BY DEF PutCommit
<1>2. TypeOK /\ first \in Nat /\ next_id \in Nat
  BY EndFacts DEF IInv
<1>3. cur[g].id \in Int /\ get[g].want \in Nat
  BY <1>2, CurFacts, GetFacts
<1>4. /\ get'[g].waits = get[g].waits /\ get'[g].want = get[g].want
      /\ get'[g].int_id = get[g].int_id
  <2>1. get'[g] = [get[g] EXCEPT !.lapped =
                     @ \/ (get[g].waits /\ get[g].want < next_id /\ RunsInto(get[g].index))]
    BY DEF PutCommit
  <2>2. QED
    BY <1>2, <2>1, GetFacts
<1>5. g \notin astray' => CursorOK(cur[g])'
  BY <1>1, <1>2, <1>3 DEF ReaderOK, CursorOK
<1>6. NoneBetween(cur[g], get[g].want) => NoneBetween(cur[g], get[g].want)'
  BY <1>1, <1>4 DEF NoneBetween
<1>7. get[g].waits /\ get[g].int_id = int_id => WaiterOK(get[g])'
  BY CommitWaiter DEF ReaderOK
<1>8. get[g].waits => get[g].want \in 1 .. next_id'
  BY <1>1, <1>2 DEF ReaderOK
<1>9. QED
  BY <1>1, <1>4, <1>5, <1>6, <1>7, <1>8 DEF ReaderOK

LEMMA ResetReader ==
  ASSUME IInv, NEW g \in Getters, ReaderOK(g), Reset
  PROVE  ReaderOK(g)'
<1>1. /\ next_id' = next_id /\ int_id' = int_id + 1 /\ first' = next_id
      /\ get' = get /\ cur' = cur /\ astray' = astray
  BY DEF Reset
<1>2. TypeOK /\ first \in Nat /\ next_id \in Nat /\ first <= next_id
  BY EndFacts DEF IInv
<1>3. cur[g].id \in Int /\ get[g].want \in Nat /\ get[g].int_id \in Nat /\ int_id \in Nat
  BY <1>2, CurFacts, GetFacts DEF TypeOK
<1>4. g \notin astray' => CursorOK(cur[g])'
  BY <1>1, <1>2, <1>3 DEF ReaderOK, CursorOK
<1>5. NoneBetween(cur[g], get[g].want) => NoneBetween(cur[g], get[g].want)'
  <2>1. \A i \in Int : i < first => i < first'
    BY <1>1, <1>2
  <2>2. QED
    BY <1>1, <1>3, <2>1 DEF NoneBetween
<1>6. get[g].int_id <= int_id' /\ get[g].int_id # int_id'
  BY <1>1, <1>3 DEF ReaderOK
<1>7. QED
  BY <1>1, <1>4, <1>5, <1>6 DEF ReaderOK

\* The step of a getter's own Get.
LEMMA GetReader ==
  ASSUME RoomForThree, IInv, NEW g \in Getters, ReaderOK(g), Get(g)
  PROVE  ReaderOK(g)'
<1>1. /\ mem' = mem /\ head' = head /\ next_id' = next_id /\ int_id' = int_id
      /\ first' = first /\ pos' = pos
  BY DEF Get, GetNow, GetWait, GetWake, GetFail, Deliver, ring
<1>2. TypeOK /\ first \in Nat /\ next_id \in Nat /\ 1 <= first /\ first <= next_id
      /\ int_id \in Nat /\ head \in Nat
  BY EndFacts DEF IInv, TypeOK
<1>3. get \in [Getters -> [waits : BOOLEAN, index : Index, int_id : Nat, want : Nat,
                           lapped : BOOLEAN]]
  BY <1>2 DEF TypeOK
<1>4. ASSUME get'[g] = NoGet, g \notin astray' => CursorOK(cur[g])'
      PROVE  ReaderOK(g)'
  BY <1>2, <1>1, <1>4 DEF ReaderOK, NoGet
<1>5. ASSUME NEW n \in Nat, NEW p, cur'[g] = Cursor(n, p), n \in 1 .. next_id - 1,
             first <= n => pos[n] = p
      PROVE  CursorOK(cur[g])'
  BY <1>1, <1>5 DEF CursorOK, Cursor
<1>6. CASE GetNow(g)
  <2>1. get'[g] = NoGet /\ astray' = astray
    BY <1>3, <1>6 DEF GetNow, Deliver
  <2>2. ASSUME g \notin astray
        PROVE  CursorOK(cur[g])'
    <3>1. PICK n \in Live : n < next_id /\ n \in Nat /\ cur'[g] = Cursor(n, pos[n])
      BY <1>6, <2>2, NowGets DEF ReaderOK
    <3>2. n \in 1 .. next_id - 1
      BY <1>2, <3>1 DEF Live
    <3>3. QED
      BY <1>5, <3>1, <3>2
  <2>3. QED
    BY <1>4, <2>1, <2>2
<1>7. CASE GetWait(g)
  <2>1. /\ cur' = cur /\ astray' = astray
        /\ get'[g] = [waits |-> TRUE, index |-> Follow(cur[g]), int_id |-> int_id,
                      want |-> next_id, lapped |-> FALSE]
    BY <1>3, <1>7 DEF GetWait
  <2>2. Follow(cur[g]) = head /\ (CursorOK(cur[g]) => NoneBetween(cur[g], next_id))
    BY <1>7, WaitsForNext
  <2>3. g \notin astray' => CursorOK(cur[g])' /\ NoneBetween(cur[g], get[g].want)'
    BY <1>1, <2>1, <2>2 DEF ReaderOK, CursorOK, NoneBetween
  <2>4. WaiterOK(get[g])'
    <3>1. (next_id' - get'[g].want) * MaxBlock = 0 /\ LapRoom \in Nat
      <4>1. \A k \in Nat : 0 * k = 0
        OBVIOUS
      <4>2. MaxBlock \in Nat /\ LapRoom \in Nat
        BY LargestItem, QueueConstants DEF MaxBlock, LapRoom
      <4>3. next_id' - get'[g].want = 0
        BY <1>1, <1>2, <2>1
      <4>4. QED
        BY <4>1, <4>2, <4>3
    <3>2. Travel(head, head, 0)
      BY <1>2 DEF Travel
    <3>3. QED
      BY <1>1, <1>2, <2>1, <2>2, <3>1, <3>2 DEF WaiterOK
  <2>5. get'[g].want \in 1 .. next_id' /\ get'[g].int_id <= int_id'
    BY <1>1, <1>2, <2>1
  <2>6. QED
    BY <2>3, <2>4, <2>5 DEF ReaderOK
<1>8. CASE GetWake(g)
  <2>1. /\ get'[g] = NoGet
        /\ g \notin astray' => g \notin astray /\ ~get[g].lapped
    BY <1>3, <1>8 DEF GetWake, Deliver
  <2>2. ASSUME ~get[g].lapped
        PROVE  CursorOK(cur[g])'
    <3>1. PICK p \in Index : /\ cur'[g] = Cursor(get[g].want, p)
                             /\ first <= get[g].want => pos[get[g].want] = p
      BY <1>8, <2>2, WakeGets
    <3>2. get[g].want \in 1 .. next_id - 1 /\ get[g].want \in Nat
      BY <1>2, <1>8, WakeGets, GetFacts
    <3>3. QED
      BY <1>5, <3>1, <3>2
  <2>3. QED
    BY <1>4, <2>1, <2>2
<1>9. CASE GetFail(g)
  <2>1. get'[g] = NoGet /\ cur' = cur /\ astray' = astray
    BY <1>3, <1>9 DEF GetFail
  <2>2. g \notin astray' => CursorOK(cur[g])'
    BY <1>1, <2>1 DEF ReaderOK, CursorOK
  <2>3. QED
    BY <1>4, <2>1, <2>2
<1>10. QED
  BY <1>6, <1>7, <1>8, <1>9 DEF Get

LEMMA ReadersStep ==
  ASSUME RoomForThree, IInv, ReadersOK, [Next]_qvars
  PROVE  ReadersOK'
<1>1. SUFFICES ASSUME NEW g \in Getters
               PROVE  ReaderOK(g)'
  BY DEF ReadersOK
<1>2. ReaderOK(g)
  BY DEF ReadersOK
<1>3. CASE PutDrop
  BY <1>2, <1>3, DropReader
<1>4. CASE PutCommit
  BY <1>2, <1>4, CommitReader
<1>5. CASE Reset
  BY <1>2, <1>5, ResetReader
<1>6. CASE Get(g)
  BY <1>2, <1>6, GetReader
<1>7. ASSUME NEW h \in Getters, h # g, Get(h)
      PROVE  ReaderOK(g)'
  <2>1. get \in [Getters -> [waits : BOOLEAN, index : Index, int_id : Nat, want : Nat,
                             lapped : BOOLEAN]]
        /\ cur \in [Getters -> [id : Int, index : Int]]
    BY DEF IInv, TypeOK
  <2>2. /\ UNCHANGED ring /\ int_id' = int_id /\ cur'[g] = cur[g] /\ get'[g] = get[g]
        /\ g \in astray' <=> g \in astray
    BY <1>7, <2>1 DEF Get, GetNow, GetWait, GetWake, GetFail, Deliver
  <2>3. QED
    BY <1>2, <2>2, OtherReader
<1>8. CASE (\E size \in ItemSizes : PutBegin(size)) \/ Interrupt \/ Close \/ UNCHANGED qvars
  <2>1. /\ UNCHANGED ring /\ int_id' \in {int_id, int_id + 1} /\ cur' = cur /\ get' = get
        /\ astray' = astray
    BY <1>8 DEF PutBegin, Interrupt, Close, qvars
  <2>2. QED
    BY <1>2, <2>1, OtherReader
<1>9. QED
  BY <1>3, <1>4, <1>5, <1>6, <1>7, <1>8 DEF Next, Put

LEMMA ReadersInit ==
  ASSUME StartAtAnEnd, Init
  PROVE  ReadersOK
BY DEF StartAtAnEnd, Init, ReadersOK, ReaderOK, CursorOK, NoGet

LEMMA ReadersInductive ==
  ASSUME RoomForThree, StartAtAnEnd
  PROVE  Spec => [](IInv /\ ReadersOK)
<1>1. Init => ReadersOK
  BY ReadersInit
<1>2. IInv /\ ReadersOK /\ [Next]_qvars => ReadersOK'
  BY ReadersStep
<1>3. QED
  BY <1>1, <1>2, Inductive, PTL DEF Spec

\* What a Get returns is a whole item, later than the one before, and only items
\* already given up are skipped, unless the ring ran over the index where the
\* getter waited.
THEOREM GetsCorrect ==
  ASSUME RoomForThree, StartAtAnEnd
  PROVE  Spec => GetsNextItem
<1> DEFINE Gets == \A g \in Getters : cur'[g] # cur[g] => g \in astray' \/ Follows(g)
<1>1. IInv /\ ReadersOK /\ [Next]_qvars => [Gets]_qvars
  <2> SUFFICES ASSUME IInv, ReadersOK, [Next]_qvars,
                      NEW g \in Getters, cur'[g] # cur[g], g \notin astray'
               PROVE  Follows(g)
    OBVIOUS
  <2>1. ReaderOK(g) /\ TypeOK
    BY DEF ReadersOK, IInv
  <2>2. /\ cur \in [Getters -> [id : Int, index : Int]] /\ next_id \in Nat
        /\ get \in [Getters -> [waits : BOOLEAN, index : Index, int_id : Nat, want : Nat,
                                lapped : BOOLEAN]]
    BY <2>1 DEF TypeOK
  <2>3. ASSUME NEW n, NEW p, cur'[g] = Cursor(n, p), Holds(p, n), NoneBetween(cur[g], n)
        PROVE  Follows(g)
    BY <2>3 DEF Follows, NoneBetween, Cursor
  <2>4. CASE GetNow(g)
    <3>1. CursorOK(cur[g])
      BY <2>1, <2>4 DEF ReaderOK, GetNow
    <3>2. QED
      BY <2>3, <2>4, <3>1, NowGets
  <2>5. CASE GetWake(g)
    <3>1. ~get[g].lapped /\ g \notin astray
      BY <2>5 DEF GetWake
    <3>2. NoneBetween(cur[g], get[g].want)
      BY <2>1, <2>5, <3>1 DEF ReaderOK, GetWake
    <3>3. QED
      BY <2>1, <2>3, <2>5, <3>1, <3>2, WakeGets
  <2>6. ~GetWait(g) /\ ~GetFail(g)
    BY DEF GetWait, GetFail
  <2>7. \A h \in Getters : Get(h) => h = g
    BY <2>2 DEF Get, GetNow, GetWait, GetWake, GetFail, Deliver
  <2>8. ~(Put \/ Interrupt \/ Reset \/ Close \/ UNCHANGED qvars)
    BY DEF Put, PutBegin, PutDrop, PutCommit, Interrupt, Reset, Close, qvars
  <2>9. QED
    BY <2>4, <2>5, <2>6, <2>7, <2>8 DEF Next, Get
<1>2. QED
  BY <1>1, ReadersInductive, PTL DEF Spec, GetsNextItem

-----------------------------------------------------------------------------
(* The ring buffer implements the event log. *)

\* The variables of the log, as Queue substitutes them.
LogAt == [g \in Getters |-> IF g \in astray THEN -2 ELSE cur[g].id]
LogAwaits == [g \in Getters |-> IF get[g].waits /\ g \notin astray THEN get[g].want ELSE 0]
LogSlack == (DataSize - MaxItem - 3 * Hdr) \div (MaxItem + Hdr)

\* A quotient is exceeded by what exceeds the dividend when multiplied.
LEMMA Exceeds ==
  ASSUME NEW j \in Nat, NEW k \in Nat \ {0}, NEW x \in Nat, j * k > x
  PROVE  j > x \div k
<1> PICK q : q = x \div k
  OBVIOUS
<1>1. q \in Nat /\ q * k <= x
  OBVIOUS
<1>2. SUFFICES ASSUME j <= q
               PROVE  FALSE
  BY <1>1
<1>3. j * k <= q * k
  BY <1>1, <1>2
<1>4. QED
  BY <1>1, <1>3

\* The step of one reader in the log.
LEMMA LogReader ==
  ASSUME RoomForThree, IInv, NEW g \in Getters, ReaderOK(g), g \notin astray, Get(g)
  PROVE  /\ first' = first /\ next_id' = next_id
         /\ \/ Log!Read(g) \/ Log!Await(g) \/ Log!GiveUp(g) \/ Log!Awake(g)
<1>1. first' = first /\ next_id' = next_id
  BY DEF Get, GetNow, GetWait, GetWake, GetFail, Deliver, ring
<1>2. TypeOK /\ next_id \in Nat /\ first \in Nat /\ 1 <= first
  BY EndFacts DEF IInv
<1>3. /\ cur \in [Getters -> [id : Int, index : Int]]
      /\ get \in [Getters -> [waits : BOOLEAN, index : Index, int_id : Nat, want : Nat,
                              lapped : BOOLEAN]]
      /\ get[g].waits \in BOOLEAN /\ get[g].want \in Nat
  BY <1>2, GetFacts DEF TypeOK
<1>4. LogAt[g] = cur[g].id /\ LogAwaits[g] = IF get[g].waits THEN get[g].want ELSE 0
  BY DEF LogAt, LogAwaits
<1>5. CursorOK(cur[g])
  BY DEF ReaderOK
<1>6. cur[g].id # -2 /\ DueItem(cur[g]) = IF LogAt[g] = -1 THEN next_id
                                          ELSE IF LogAt[g] + 1 < first THEN first
                                          ELSE LogAt[g] + 1
  BY <1>2, <1>4, <1>5 DEF CursorOK, DueItem, HeadCursor, TailCursor, Cursor
<1>7. CASE GetNow(g)
  <2>1. PICK n \in Live : /\ n = DueItem(cur[g]) /\ n < next_id
                          /\ cur'[g] = Cursor(n, pos[n])
    BY <1>5, <1>7, NowGets
  <2>2. LogAt' = [LogAt EXCEPT ![g] = n]
    BY <1>3, <1>7, <2>1 DEF LogAt, GetNow, Deliver, Cursor
  <2>3. LogAwaits' = LogAwaits /\ LogAwaits[g] = 0
    BY <1>3, <1>7 DEF LogAwaits, GetNow, CanGet, Deliver, NoGet
  <2>4. Log!Read(g)
    BY <1>1, <1>4, <1>6, <2>1, <2>2, <2>3
       DEF Log!Read, Log!Due, Log!Overtaken, Log!AtEnd, LogAt, LogAwaits
  <2>5. QED
    BY <1>1, <2>4
<1>8. CASE GetWait(g)
  <2>1. DueItem(cur[g]) = next_id
    BY <1>5, <1>8, WaitsForNext
  <2>2. LogAt' = LogAt
    BY <1>3, <1>8 DEF LogAt, GetWait
  <2>3. LogAwaits' = [LogAwaits EXCEPT ![g] = next_id] /\ LogAwaits[g] = 0
    BY <1>3, <1>8 DEF LogAwaits, GetWait, CanGet
  <2>4. Log!Await(g)
    BY <1>1, <1>4, <1>6, <2>1, <2>2, <2>3
       DEF Log!Await, Log!Due, Log!Overtaken, Log!AtEnd, LogAt, LogAwaits
  <2>5. QED
    BY <1>1, <2>4
<1>9. CASE GetFail(g)
  <2>1. LogAt' = LogAt
    BY <1>3, <1>9 DEF LogAt, GetFail
  <2>2. LogAwaits' = [LogAwaits EXCEPT ![g] = 0]
    BY <1>3, <1>9 DEF LogAwaits, GetFail, NoGet
  <2>3. LogAwaits[g] # 0
    BY <1>2, <1>3, <1>4, <1>9 DEF ReaderOK, GetFail
  <2>4. Log!GiveUp(g)
    BY <1>1, <2>1, <2>2, <2>3 DEF Log!GiveUp, LogAt, LogAwaits
  <2>5. QED
    BY <1>1, <2>4
<1>10. CASE GetWake(g)
  <2>1. /\ get[g].want \in 1 .. next_id - 1
        /\ get[g].lapped => (next_id - get[g].want) * MaxBlock > LapRoom
    BY <1>10, WakeGets
  <2>2. LogAwaits[g] = get[g].want /\ LogAwaits[g] # 0 /\ LogAwaits[g] < next_id
    BY <1>2, <1>3, <1>4, <1>10, <2>1 DEF GetWake
  <2>3. LogAwaits' = [LogAwaits EXCEPT ![g] = 0]
    BY <1>3, <1>10 DEF LogAwaits, GetWake, Deliver, NoGet
  <2>4. \/ LogAt' = [LogAt EXCEPT ![g] = LogAwaits[g]]
        \/ next_id - LogAwaits[g] > LogSlack /\ LogAt' = [LogAt EXCEPT ![g] = -2]
    <3>1. CASE get[g].lapped
      <4>1. LogAt' = [LogAt EXCEPT ![g] = -2]
        BY <1>3, <1>10, <3>1 DEF LogAt, GetWake, Deliver
      <4>2. MaxBlock \in Nat \ {0} /\ LapRoom \in Nat /\ LogSlack = LapRoom \div MaxBlock
        BY LargestItem, QueueConstants DEF MaxBlock, LapRoom, LogSlack
      <4>3. next_id - get[g].want \in Nat
        BY <1>2, <1>3, <2>1
      <4>4. next_id - get[g].want > LogSlack
        BY <2>1, <3>1, <4>2, <4>3, Exceeds
      <4>5. QED
        BY <2>2, <4>1, <4>4
    <3>2. CASE ~get[g].lapped
      <4>1. PICK p \in Index : cur'[g] = Cursor(get[g].want, p)
        BY <1>10, <3>2, WakeGets
      <4>2. LogAt' = [LogAt EXCEPT ![g] = get[g].want]
        BY <1>3, <1>10, <3>2, <4>1 DEF LogAt, GetWake, Deliver, Cursor
      <4>3. QED
        BY <2>2, <4>2
    <3>3. QED
      BY <3>1, <3>2
  <2>5. Log!Awake(g)
    BY <1>1, <2>2, <2>3, <2>4 DEF Log!Awake, Log!Overtaken, LogAt, LogAwaits, LogSlack
  <2>6. QED
    BY <1>1, <2>5
<1>11. QED
  BY <1>7, <1>8, <1>9, <1>10 DEF Get

LEMMA LogInit ==
  ASSUME StartAtAnEnd, Init
  PROVE  Log!Init
<1>1. LogAt \in [Getters -> {0, -1}]
  <2>1. cur \in [Getters -> {HeadCursor, TailCursor}] /\ astray = {}
    BY DEF Init, StartAtAnEnd
  <2>2. QED
    BY <2>1 DEF LogAt, HeadCursor, TailCursor, Cursor
<1>2. LogAwaits = [g \in Getters |-> 0]
  BY DEF Init, LogAwaits, NoGet
<1>3. first = 1 /\ next_id = 1
  BY DEF Init
<1>4. QED
  BY <1>1, <1>2, <1>3 DEF Log!Init, Log!AtEnd, LogAt, LogAwaits

LEMMA LogStep ==
  ASSUME RoomForThree, IInv, ReadersOK, [Next]_qvars
  PROVE  [Log!Next]_Log!vars
<1>1. TypeOK /\ next_id \in Nat /\ first \in Nat /\ first <= next_id
  BY EndFacts DEF IInv
<1>2. /\ cur \in [Getters -> [id : Int, index : Int]]
      /\ get \in [Getters -> [waits : BOOLEAN, index : Index, int_id : Nat, want : Nat,
                              lapped : BOOLEAN]]
  BY <1>1 DEF TypeOK
<1>3. ASSUME UNCHANGED <<cur, astray>>, \A g \in Getters : /\ get'[g].waits = get[g].waits
                                                           /\ get'[g].want = get[g].want
      PROVE  LogAt' = LogAt /\ LogAwaits' = LogAwaits
  BY <1>3 DEF LogAt, LogAwaits
<1>4. ASSUME first' = first, next_id' = next_id, LogAt' = LogAt, LogAwaits' = LogAwaits
      PROVE  UNCHANGED Log!vars
  BY <1>4 DEF Log!vars, LogAt, LogAwaits
<1>5. CASE PutDrop
  <2>1. first < next_id
    BY <1>1, <1>5, LoopLeavesOne DEF PutDrop
  <2>2. LogAt' = LogAt /\ LogAwaits' = LogAwaits
    BY <1>3, <1>5 DEF PutDrop
  <2>3. Log!Drop
    BY <1>5, <2>1, <2>2 DEF PutDrop, Log!Drop, LogAt, LogAwaits
  <2>4. QED
    BY <2>3 DEF Log!Next
<1>6. CASE PutCommit
  <2>1. \A g \in Getters : get'[g].waits = get[g].waits /\ get'[g].want = get[g].want
    BY <1>2, <1>6 DEF PutCommit
  <2>2. LogAt' = LogAt /\ LogAwaits' = LogAwaits
    BY <1>3, <1>6, <2>1 DEF PutCommit
  <2>3. Log!PutEvent
    BY <1>6, <2>2 DEF PutCommit, Log!PutEvent, LogAt, LogAwaits
  <2>4. QED
    BY <2>3 DEF Log!Next
<1>7. CASE Reset
  <2>1. LogAt' = LogAt /\ LogAwaits' = LogAwaits
    BY <1>3, <1>7 DEF Reset
  <2>2. Log!Clear
    BY <1>7, <2>1 DEF Reset, Log!Clear, LogAt, LogAwaits
  <2>3. QED
    BY <2>2 DEF Log!Next
<1>8. ASSUME NEW g \in Getters, Get(g)
      PROVE  [Log!Next]_Log!vars
  <2>1. CASE g \notin astray
    BY <1>8, <2>1, LogReader DEF ReadersOK, Log!Next
  <2>2. CASE g \in astray
    <3>1. /\ first' = first /\ next_id' = next_id /\ g \in astray'
          /\ \A h \in Getters : h \in astray' <=> h \in astray
          /\ \A h \in Getters \ {g} : cur'[h] = cur[h] /\ get'[h] = get[h]
      BY <1>2, <1>8, <2>2 DEF Get, GetNow, GetWait, GetWake, GetFail, Deliver, ring
    <3>2. LogAt' = LogAt /\ LogAwaits' = LogAwaits
      BY <2>2, <3>1 DEF LogAt, LogAwaits
    <3>3. QED
      BY <1>4, <3>1, <3>2
  <2>3. QED
    BY <2>1, <2>2
<1>9. CASE (\E size \in ItemSizes : PutBegin(size)) \/ Interrupt \/ Close \/ UNCHANGED qvars
  <2>1. /\ first' = first /\ next_id' = next_id /\ get' = get /\ cur' = cur
        /\ astray' = astray
    BY <1>9 DEF PutBegin, Interrupt, Close, qvars, ring
  <2>2. QED
    BY <1>3, <1>4, <2>1
<1>10. QED
  BY <1>5, <1>6, <1>7, <1>8, <1>9 DEF Next, Put

\* The queue implements EventLog: its consumers see a log of numbered events,
\* each getter reads them in order and misses only those given up, and a promise
\* to a waiting getter ends only after more than Slack puts.
THEOREM LogImplemented ==
  ASSUME RoomForThree, StartAtAnEnd
  PROVE  Spec => ImplementsLog
<1>1. Init => Log!Init
  BY LogInit
<1>2. IInv /\ ReadersOK /\ [Next]_qvars => [Log!Next]_Log!vars
  BY LogStep
<1>3. QED
  BY <1>1, <1>2, ReadersInductive, PTL DEF Spec, ImplementsLog, Log!Spec

=============================================================================
