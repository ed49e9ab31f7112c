---------------------------- MODULE QueueProofs ----------------------------
(***************************************************************************)
(* Proofs about module Queue, for every buffer size, header size and set   *)
(* of item sizes: a buffer with room for three blocks keeps its ring.      *)
(*                                                                         *)
(* RingInv is inductive together with TypeOK.  The two steps that need     *)
(* work are PutDrop, where RoomForThree shows that the loop stops before   *)
(* the last item, and PutCommit, where Placed shows that the blocks        *)
(* written lie outside every item that is kept.                            *)
(***************************************************************************)
EXTENDS Queue, TLAPS

Cells == [state : States, size : Nat, id : Nat]

IInv == TypeOK /\ RingInv

\* The end of item n's block.
ItemEnd(n) == EndOf(mem, pos[n])

-----------------------------------------------------------------------------
(* Facts about the numbers in the state. *)

\* The sizes that a Put compares with the room in the buffer.
LEMMA Sizes ==
  ASSUME TypeOK, RoomForThree, NEW s \in ItemSizes
  PROVE  s \in Nat /\ 3 * s + 5 * Hdr <= DataSize
BY QueueConstants DEF RoomForThree

\* The places of the items kept, as numbers.
LEMMA ItemFacts ==
  ASSUME IInv, NEW n \in Live
  PROVE  /\ n \in Nat /\ first <= n /\ n < next_id
         /\ pos[n] \in Index /\ pos[n] \in Nat
         /\ mem[pos[n]] = Block("ITEM", mem[pos[n]].size, n)
         /\ mem[pos[n]].size \in Nat
         /\ mem[pos[n]].size \in ItemSizes
         /\ ItemEnd(n) = pos[n] + Hdr + mem[pos[n]].size
         /\ ItemEnd(n) \in Nat
         /\ ItemEnd(n) + Hdr <= DataSize
<1> USE QueueConstants
<1>1. n \in Nat /\ first <= n /\ n < next_id
  BY DEF IInv, TypeOK, Live
<1>2. pos[n] \in Index /\ pos[n] \in Nat
  BY DEF IInv, TypeOK, Index
<1>3. mem[pos[n]] \in Cells /\ mem[pos[n]].state = "ITEM" /\ mem[pos[n]].id = n
      /\ mem[pos[n]].size \in ItemSizes
  BY <1>2 DEF IInv, TypeOK, RingInv, ItemsIntact, Holds, Cells
<1>4. mem[pos[n]] = Block("ITEM", mem[pos[n]].size, n) /\ mem[pos[n]].size \in Nat
  BY <1>3 DEF Cells, Block
<1>5. ItemEnd(n) = pos[n] + Hdr + mem[pos[n]].size /\ ItemEnd(n) \in Nat
  BY <1>2, <1>4 DEF ItemEnd, EndOf
<1>6. ItemEnd(n) + Hdr <= DataSize
  BY <1>5 DEF IInv, TypeOK, RingInv, Placed, ItemEnd
<1>7. QED
  BY <1>1, <1>2, <1>3, <1>4, <1>5, <1>6

\* _head and _tail are places for a header.
LEMMA EndFacts ==
  ASSUME IInv
  PROVE  /\ head \in Index /\ head \in Nat /\ head + Hdr <= DataSize
         /\ tail \in Index /\ tail \in Nat
         /\ first \in Nat /\ next_id \in Nat /\ 1 <= first /\ first <= next_id
<1> USE QueueConstants
<1>1. head \in Index /\ head \in Nat /\ head + Hdr <= DataSize
  BY DEF IInv, TypeOK, RingInv, Placed, Index
<1>2. first \in Nat /\ next_id \in Nat /\ 1 <= first /\ first <= next_id
  BY DEF IInv, TypeOK
<1>3. tail \in Index /\ tail \in Nat
  <2>1. CASE first < next_id
    <3>1. first \in Live
      BY <1>2, <2>1 DEF Live
    <3>2. QED
      BY <2>1, <3>1, ItemFacts DEF IInv, RingInv, Chained
  <2>2. CASE first = next_id
    BY <1>1, <1>2, <2>2 DEF IInv, RingInv, Chained
  <2>3. QED
    BY <1>2, <2>1, <2>2
<1>4. QED
  BY <1>1, <1>2, <1>3

-----------------------------------------------------------------------------
(* The steps that leave the ring alone. *)

LEMMA RingKept ==
  ASSUME RingInv, UNCHANGED ring
  PROVE  RingInv'
BY DEF RingInv, ItemsIntact, Holds, Chained, Placed, ItemsUnique, Live, Lap,
       EndOf, ring

\* Wherever Get looks, it finds a header inside the buffer.
LEMMA SkipWrapIndex ==
  ASSUME IInv, NEW p \in Index
  PROVE  SkipWrap(mem, p) \in Index
BY EndFacts, QueueConstants DEF SkipWrap, Index

LEMMA FollowIndex ==
  ASSUME IInv, NEW c \in [id : Int, index : Int]
  PROVE  Follow(c) \in Index
<1> USE QueueConstants
<1>1. ASSUME AtItem(c)
      PROVE  EndOf(mem, c.index) \in Index
  <2>1. c.index \in Index /\ c.id \in Int /\ mem[c.index].state = "ITEM"
        /\ mem[c.index].id = c.id /\ c.id < next_id /\ mem[tail].id <= c.id
    BY <1>1, EndFacts DEF AtItem, Index, IInv, TypeOK
  <2>2. first < next_id
    <3>1. first # next_id
      BY <2>1 DEF IInv, RingInv, Chained, Zero, Block
    <3>2. QED
      BY <3>1, EndFacts
  <2>3. mem[tail].id = first
    <3>1. first \in Live /\ tail = pos[first]
      BY <2>2, EndFacts DEF Live, IInv, RingInv, Chained
    <3>2. QED
      BY <3>1 DEF IInv, RingInv, ItemsIntact, Holds
  <2>4. c.id \in Live /\ pos[c.id] = c.index
    BY <2>1, <2>3, EndFacts DEF Live, IInv, RingInv, ItemsUnique
  <2>5. QED
    BY <2>4, ItemFacts DEF ItemEnd, Index
<1>2. (CASE AtEnd(c) -> head
         [] ~AtEnd(c) /\ AtItem(c) -> EndOf(mem, c.index)
         [] OTHER -> tail) \in Index
  BY <1>1, EndFacts
<1>3. QED
  BY <1>2, SkipWrapIndex DEF Follow

LEMMA OtherSteps ==
  ASSUME IInv,
         \/ \E size \in ItemSizes : PutBegin(size)
         \/ \E g \in Getters : Get(g)
         \/ Interrupt
         \/ Close
         \/ UNCHANGED qvars
  PROVE  IInv'
<1> USE QueueConstants
<1>1. ASSUME UNCHANGED ring, UNCHANGED <<put>> \/ \E size \in ItemSizes : PutBegin(size),
             int_id' \in Nat, closed' \in BOOLEAN,
             get' \in [Getters -> [waits : BOOLEAN, index : Index, int_id : Nat,
                                   want : Nat, lapped : BOOLEAN]],
             cur' \in [Getters -> [id : Int, index : Int]],
             astray' \subseteq Getters
      PROVE  IInv'
  <2>1. RingInv'
    BY <1>1, RingKept DEF IInv
  <2>2. /\ put' \in [busy : BOOLEAN, size : Nat, orig_tail : 0 .. DataSize]
        /\ put'.busy => put'.size \in ItemSizes /\ put'.size + 2 * Hdr <= DataSize
    <3>1. CASE UNCHANGED <<put>>
      BY <3>1 DEF IInv, TypeOK
    <3>2. ASSUME NEW size \in ItemSizes, PutBegin(size)
          PROVE  /\ put' \in [busy : BOOLEAN, size : Nat, orig_tail : 0 .. DataSize]
                 /\ put'.size \in ItemSizes /\ put'.size + 2 * Hdr <= DataSize
      BY <3>2, EndFacts DEF PutBegin, IInv, TypeOK, Index
    <3>3. QED
      BY <1>1, <3>1, <3>2
  <2>3. TypeOK'
    BY <1>1, <2>2 DEF IInv, TypeOK, ring, Live
  <2>4. QED
    BY <2>1, <2>3 DEF IInv
<1> DEFINE GetType == [waits : BOOLEAN, index : Index, int_id : Nat,
                       want : Nat, lapped : BOOLEAN]
           CurType == [id : Int, index : Int]
<1>2. /\ int_id \in Nat /\ closed \in BOOLEAN /\ get \in [Getters -> GetType]
      /\ cur \in [Getters -> CurType] /\ astray \subseteq Getters
  BY DEF IInv, TypeOK
<1>3. NoGet \in GetType
  BY EndFacts DEF NoGet, Index
<1>4. ASSUME NEW size \in ItemSizes, PutBegin(size)
      PROVE  IInv'
  BY <1>1, <1>2, <1>4 DEF PutBegin
<1>5. ASSUME NEW g \in Getters, NEW p \in Index, Deliver(g, p), astray' \subseteq Getters
      PROVE  IInv'
  <2>1. cur' \in [Getters -> CurType]
    <3>1. Cursor(mem[p].id, p) \in CurType
      BY DEF Cursor, IInv, TypeOK, Index
    <3>2. QED
      BY <1>2, <1>5, <3>1 DEF Deliver
  <2>2. get' \in [Getters -> GetType]
    BY <1>2, <1>3, <1>5 DEF Deliver
  <2>3. QED
    BY <1>1, <1>2, <1>5, <2>1, <2>2 DEF Deliver
<1>6. ASSUME NEW g \in Getters, GetNow(g)
      PROVE  IInv'
  <2>1. SkipWrap(mem, Follow(cur[g])) \in Index
    BY <1>2, FollowIndex, SkipWrapIndex
  <2>2. QED
    BY <1>2, <1>5, <1>6, <2>1 DEF GetNow
<1>7. ASSUME NEW g \in Getters, GetWait(g)
      PROVE  IInv'
  <2>1. Follow(cur[g]) \in Index
    BY <1>2, FollowIndex
  <2>2. get' \in [Getters -> GetType]
    BY <1>2, <1>7, <2>1, EndFacts DEF GetWait
  <2>3. QED
    BY <1>1, <1>2, <1>7, <2>2 DEF GetWait
<1>8. ASSUME NEW g \in Getters, GetWake(g)
      PROVE  IInv'
  <2>1. SkipWrap(mem, get[g].index) \in Index
    BY <1>2, SkipWrapIndex
  <2>2. QED
    BY <1>2, <1>5, <1>8, <2>1 DEF GetWake
<1>9. ASSUME NEW g \in Getters, GetFail(g)
      PROVE  IInv'
  <2>1. get' \in [Getters -> GetType]
    BY <1>2, <1>3, <1>9 DEF GetFail
  <2>2. QED
    BY <1>1, <1>2, <1>9, <2>1 DEF GetFail
<1>10. CASE Interrupt
  BY <1>1, <1>2, <1>10 DEF Interrupt
<1>11. CASE Close
  BY <1>1, <1>2, <1>11 DEF Close
<1>12. CASE UNCHANGED qvars
  BY <1>1, <1>2, <1>12 DEF qvars
<1>13. QED
  BY <1>4, <1>6, <1>7, <1>8, <1>9, <1>10, <1>11, <1>12 DEF Get

-----------------------------------------------------------------------------
(* Initially and after Reset the queue is empty. *)

LEMMA EmptyRing ==
  ASSUME DataSize >= Hdr,
         mem = [j \in Index |-> Zero], head = 0, tail = 0, first = next_id,
         next_id \in Nat \ {0}, pos \in [Live -> Index]
  PROVE  RingInv
<1> USE QueueConstants
<1>1. Live = {}
  BY DEF Live
<1>2. 0 \in Index
  BY DEF Index
<1>3. QED
  BY <1>1, <1>2 DEF RingInv, ItemsIntact, Chained, Placed, ItemsUnique, Zero, Block

LEMMA InitStep ==
  ASSUME RoomForThree, Init
  PROVE  IInv
<1> USE QueueConstants
<1>1. DataSize >= Hdr
  <2>1. PICK s \in ItemSizes : 3 * (s + Hdr) + 2 * Hdr <= DataSize
    BY DEF RoomForThree
  <2>2. s \in Nat
    OBVIOUS
  <2>3. QED
    BY <2>1, <2>2
<1>2. 0 \in Index /\ Zero \in Cells
  BY <1>1 DEF Index, Zero, Block, Cells, States
<1>3. TypeOK
  <2>1. mem \in [Index -> Cells] /\ pos \in [Live -> Index]
    BY <1>2 DEF Init, Live
  <2>2. get \in [Getters -> [waits : BOOLEAN, index : Index, int_id : Nat,
                             want : Nat, lapped : BOOLEAN]]
    BY <1>2 DEF Init, NoGet
  <2>3. put \in [busy : BOOLEAN, size : Nat, orig_tail : 0 .. DataSize] /\ ~put.busy
    BY DEF Init, NoPut
  <2>4. cur \in [Getters -> [id : Int, index : Int]]
    BY DEF Init
  <2>5. /\ head \in Nat /\ tail \in Nat /\ saved_size \in Nat /\ next_id \in Nat \ {0}
        /\ first \in 1 .. next_id /\ int_id \in Nat
    BY DEF Init
  <2>6. closed \in BOOLEAN /\ astray \subseteq Getters
    BY DEF Init
  <2>7. QED
    BY <2>1, <2>2, <2>3, <2>4, <2>5, <2>6 DEF TypeOK, Cells
<1>4. QED
  BY <1>1, <1>3, EmptyRing DEF Init, IInv, TypeOK

LEMMA ResetStep ==
  ASSUME IInv, Reset
  PROVE  IInv'
<1> USE QueueConstants
<1>1. DataSize >= Hdr /\ Zero \in Cells
  BY EndFacts DEF Zero, Block, Cells, States
<1>2. Live' = {} /\ pos' \in [Live' -> Index]
  BY EndFacts DEF Live, Reset
<1>3. TypeOK'
  <2>1. mem' \in [Index -> Cells]
    BY <1>1 DEF Reset
  <2>2. head' = 0 /\ tail' = 0 /\ saved_size' = 0 /\ 0 \in Index
    BY <1>1 DEF Reset, Index
  <2>3. next_id' = next_id /\ first' = next_id /\ int_id' = int_id + 1 /\ closed' = closed
        /\ put' = put /\ get' = get /\ cur' = cur /\ astray' = astray
    BY DEF Reset
  <2>4. next_id \in Nat \ {0} /\ int_id + 1 \in Nat
    BY DEF IInv, TypeOK
  <2>5. /\ mem' \in [Index -> Cells]
        /\ head' \in Nat /\ tail' \in Nat /\ saved_size' \in Nat
        /\ next_id' \in Nat \ {0} /\ first' \in 1 .. next_id' /\ int_id' \in Nat
    BY <2>1, <2>2, <2>3, <2>4
  <2>6. QED
    BY <1>2, <2>3, <2>5 DEF IInv, TypeOK, Cells
<1>4. RingInv'
  <2>1. 0 \in Index
    BY <1>1 DEF Index
  <2>2. mem' = [j \in Index |-> Zero] /\ head' = 0 /\ tail' = 0 /\ first' = next_id'
    BY DEF Reset
  <2>3. QED
    BY <1>1, <1>2, <2>1, <2>2
       DEF RingInv, ItemsIntact, Chained, Placed, ItemsUnique, Zero, Block
<1>5. QED
  BY <1>3, <1>4 DEF IInv

-----------------------------------------------------------------------------
(* Giving up the oldest item. *)

\* The loop stops while an item is left: if the new one does not fit, the queue
\* holds two items at least.
LEMMA LoopLeavesOne ==
  ASSUME RoomForThree, IInv, put.busy, ~CheckFit(put.size)
  PROVE  first + 1 < next_id
<1> USE QueueConstants
<1>1. put.size \in ItemSizes /\ put.size \in Nat /\ put.size + 2 * Hdr <= DataSize
      /\ 3 * put.size + 5 * Hdr <= DataSize
  BY Sizes DEF IInv, TypeOK
<1>2. first < next_id
  <2>1. SUFFICES ASSUME first = next_id
                 PROVE  FALSE
    BY EndFacts
  <2>2. head = 0 /\ tail = 0
    BY <2>1, EndFacts DEF IInv, RingInv, Chained
  <2>3. QED
    BY <1>1, <2>2 DEF CheckFit, WouldWrap
<1>3. SUFFICES ASSUME first = next_id - 1
               PROVE  FALSE
  BY <1>2, EndFacts
<1>4. first \in Live /\ tail = pos[first] /\ head = ItemEnd(first)
  BY <1>2, <1>3, EndFacts DEF Live, IInv, RingInv, Chained, ItemEnd
<1>5. PICK s \in ItemSizes : head = tail + Hdr + s
  BY <1>4, ItemFacts
<1>6. s \in Nat /\ 3 * s + 5 * Hdr <= DataSize
  BY <1>5, Sizes DEF IInv
<1>7. QED
  BY <1>1, <1>5, <1>6, EndFacts DEF CheckFit, WouldWrap

LEMMA DropStep ==
  ASSUME RoomForThree, IInv, PutDrop
  PROVE  IInv'
<1> USE QueueConstants
<1> DEFINE second == first + 1
<1>1. /\ first \in Live /\ second \in Live
      /\ first \in Nat /\ next_id \in Nat /\ second < next_id
      /\ Live' = Live \ {first}
  <2>1. second < next_id
    BY LoopLeavesOne DEF PutDrop
  <2>2. QED
    BY <2>1, EndFacts DEF PutDrop, Live
<1>2. \A n \in Live' : n \in Live /\ n # first /\ second <= n /\ n \in Nat /\ pos'[n] = pos[n]
  BY <1>1 DEF PutDrop, Live
<1>3. mem' = mem /\ head' = head /\ next_id' = next_id /\ first' = second
  BY DEF PutDrop
<1>4. tail = pos[first]
  BY <1>1, EndFacts DEF IInv, RingInv, Chained, Live
<1>5. tail' = pos[second]
  <2>1. tail' = SkipWrap(mem, ItemEnd(first))
    BY <1>4 DEF PutDrop, ItemEnd
  <2>2. \/ pos[second] = ItemEnd(first)
        \/ pos[second] = 0 /\ mem[ItemEnd(first)].state = "WRAP"
    <3>1. first \in Live \ {next_id - 1}
      BY <1>1
    <3>2. QED
      BY <3>1 DEF IInv, RingInv, Chained, ItemEnd
  <2>3. mem[pos[second]].state = "ITEM"
    BY <1>1 DEF IInv, RingInv, ItemsIntact, Holds
  <2>4. QED
    BY <2>1, <2>2, <2>3 DEF SkipWrap
<1>6. TypeOK'
  <2>1. pos' \in [Live' -> Index]
    BY <1>1, <1>2 DEF PutDrop, Live, IInv, TypeOK
  <2>2. tail' \in Nat
    BY <1>1, <1>5, ItemFacts
  <2>3. first' \in 1 .. next_id'
    BY <1>1, <1>3, EndFacts
  <2>4. QED
    BY <2>1, <2>2, <2>3 DEF PutDrop, IInv, TypeOK
<1>7. ItemsIntact'
  BY <1>1, <1>2, <1>3 DEF IInv, RingInv, ItemsIntact, Holds, EndOf
<1>8. Chained'
  <2>1. tail' = pos'[first'] /\ first' < next_id'
    BY <1>1, <1>2, <1>3, <1>5
  <2>2. head' = EndOf(mem', pos'[next_id' - 1])
    <3>1. next_id - 1 \in Live'
      BY <1>1 DEF Live
    <3>2. QED
      BY <1>1, <1>2, <1>3, <3>1 DEF IInv, RingInv, Chained, EndOf
  <2>3. ASSUME NEW n \in Live' \ {next_id' - 1}
        PROVE  LET e == EndOf(mem', pos'[n])
               IN  \/ pos'[n + 1] = e
                   \/ pos'[n + 1] = 0 /\ e \in Index /\ mem'[e].state = "WRAP"
    <3>1. n \in Live \ {next_id - 1} /\ n + 1 \in Live' /\ pos'[n] = pos[n]
          /\ pos'[n + 1] = pos[n + 1]
      BY <1>1, <1>2, <1>3, <2>3 DEF Live
    <3>2. QED
      BY <1>3, <3>1 DEF IInv, RingInv, Chained, EndOf
  <2>4. mem'[head'].state \notin {"ITEM", "WRAP"}
    BY <1>3 DEF IInv, RingInv, Chained
  <2>5. QED
    BY <1>1, <1>3, <2>1, <2>2, <2>3, <2>4 DEF Chained
<1>9. ItemsUnique'
  <2>1. SUFFICES ASSUME NEW j \in Index, mem[j].state = "ITEM"
                 PROVE  /\ mem[j].id < next_id
                        /\ second <= mem[j].id => pos'[mem[j].id] = j
    BY <1>3 DEF ItemsUnique
  <2>2. /\ mem[j].id \in Nat /\ mem[j].id < next_id
        /\ first <= mem[j].id => pos[mem[j].id] = j
    BY <2>1 DEF IInv, RingInv, ItemsUnique, TypeOK
  <2>3. second <= mem[j].id => mem[j].id \in Live'
    BY <1>1, <2>2 DEF Live
  <2>4. QED
    BY <1>1, <1>2, <2>2, <2>3
<1>10. Placed'
  <2>1. /\ pos[first] \in Nat /\ pos[second] \in Nat /\ head \in Nat
        /\ ItemEnd(first) = pos[first] + Hdr + mem[pos[first]].size
        /\ mem[pos[first]].size \in Nat
    BY <1>1, EndFacts, ItemFacts
  <2>2. \A m, n \in Live : m < n => \/ Lap(m) < Lap(n)
                                    \/ Lap(m) = Lap(n) /\ ItemEnd(m) <= pos[n]
    BY DEF IInv, RingInv, Placed, ItemEnd
  <2>3. \A n \in Live : IF head < tail /\ Lap(n) = 0
                        THEN ItemEnd(n) + Hdr <= DataSize
                        ELSE (Lap(n) = 0 => tail <= pos[n]) /\ ItemEnd(n) <= head
    BY DEF IInv, RingInv, Placed, ItemEnd
  <2>4. \A n \in Live' : EndOf(mem', pos'[n]) = ItemEnd(n) /\ pos'[n] = pos[n]
                         /\ pos[n] \in Nat /\ ItemEnd(n) \in Nat /\ pos[n] < ItemEnd(n)
                         /\ ItemEnd(n) + Hdr <= DataSize
    BY <1>2, <1>3, ItemFacts DEF ItemEnd, EndOf
  <2>5. ItemEnd(first) <= pos[second] \/ (head < tail /\ pos[second] < tail)
    BY <1>1, <2>2 DEF Lap
  <2>6. \A n \in Live' : Lap(n)' = IF head < tail' /\ pos[n] < tail' THEN 1 ELSE 0
    BY <1>3, <2>4 DEF Lap
  <2>7. CASE head < tail /\ pos[second] < tail
    <3>1. ItemEnd(second) <= head /\ tail' <= head
      <4>1. Lap(second) = 1
        BY <2>7 DEF Lap
      <4>2. ItemEnd(second) <= head
        BY <1>1, <2>3, <4>1
      <4>3. pos[second] < ItemEnd(second) /\ ItemEnd(second) \in Nat
        BY <1>1, <2>4
      <4>4. QED
        BY <1>5, <2>1, <4>2, <4>3
    <3>2. tail' = 0
      <4>1. pos[second] = ItemEnd(first) \/ pos[second] = 0
        BY <1>1 DEF IInv, RingInv, Chained, ItemEnd, Live
      <4>2. QED
        BY <1>4, <1>5, <2>1, <2>7, <4>1
    <3>3. \A n \in Live' : Lap(n) = 1
      BY <1>1, <1>2, <2>2, <2>7 DEF Lap
    <3>4. \A n \in Live' : ItemEnd(n) <= head /\ Lap(n)' = 0
      <4>1. ~(head < tail')
        BY <2>1, <3>2
      <4>2. QED
        BY <1>2, <2>3, <2>6, <3>3, <4>1
    <3>5. \A m, n \in Live' : m < n => ItemEnd(m) <= pos[n]
      BY <1>2, <2>2, <3>3
    <3>6. QED
      BY <1>3, <2>1, <2>4, <3>1, <3>2, <3>4, <3>5, EndFacts DEF Placed
  <2>8. CASE ItemEnd(first) <= pos[second] /\ ~(head < tail /\ pos[second] < tail)
    <3>1. tail < tail' /\ tail' \in Nat /\ tail \in Nat
      BY <1>4, <1>5, <2>1, <2>8
    <3>2. head < tail => head < tail' /\ head + Hdr <= tail'
      BY <2>1, <3>1 DEF IInv, RingInv, Placed
    <3>3. head < tail' => head < tail
      <4>1. ASSUME tail <= head
            PROVE  tail' <= head
        <5>1. ItemEnd(second) <= head
          BY <1>1, <2>1, <2>3, <3>1, <4>1
        <5>2. QED
          BY <1>1, <1>5, <2>4, <5>1, <2>1
      <4>2. QED
        BY <2>1, <3>1, <4>1
    <3>4. \A n \in Live' : Lap(n)' = Lap(n)
      <4>1. SUFFICES ASSUME NEW n \in Live', head < tail, head < tail'
                     PROVE  pos[n] < tail' <=> pos[n] < tail
        BY <2>1, <2>6, <3>1, <3>2, <3>3 DEF Lap
      <4>2. CASE n = second
        BY <1>5, <2>1, <2>8, <3>1, <4>1, <4>2
      <4>3. CASE second < n
        <5>1. Lap(second) < Lap(n) \/ (Lap(second) = Lap(n) /\ ItemEnd(second) <= pos[n])
          BY <1>1, <1>2, <2>2, <4>3
        <5>2. second \in Live'
          BY <1>1
        <5>3. QED
          BY <1>5, <2>4, <2>8, <3>1, <4>1, <5>1, <5>2 DEF Lap
      <4>4. QED
        BY <1>1, <1>2, <4>2, <4>3
    <3>5. \A n \in Live' : Lap(n) = 0 /\ tail <= head => tail' <= pos[n]
      <4>1. SUFFICES ASSUME NEW n \in Live', Lap(n) = 0, tail <= head
                     PROVE  tail' <= pos[n]
        OBVIOUS
      <4>2. CASE n = second
        BY <1>5, <2>1, <4>2
      <4>3. CASE second < n
        BY <1>1, <1>2, <1>5, <2>1, <2>2, <2>4, <3>1, <4>1, <4>3 DEF Lap
      <4>4. QED
        BY <1>1, <1>2, <4>2, <4>3
    <3>6. \A n \in Live' :
            IF head < tail' /\ Lap(n)' = 0
            THEN ItemEnd(n) + Hdr <= DataSize
            ELSE (Lap(n)' = 0 => tail' <= pos[n]) /\ ItemEnd(n) <= head
      BY <1>2, <2>1, <2>3, <2>4, <3>1, <3>2, <3>3, <3>4, <3>5
    <3>7. \A m, n \in Live' : m < n => \/ Lap(m)' < Lap(n)'
                                       \/ Lap(m)' = Lap(n)' /\ ItemEnd(m) <= pos[n]
      BY <1>2, <2>2, <3>4
    <3>8. head' < tail' => head' + Hdr <= tail'
      BY <1>3, <3>2, <3>3
    <3>9. QED
      BY <1>3, <2>4, <3>6, <3>7, <3>8, EndFacts DEF Placed
  <2>9. QED
    BY <2>5, <2>7, <2>8
<1>11. QED
  BY <1>6, <1>7, <1>8, <1>9, <1>10 DEF IInv, RingInv

-----------------------------------------------------------------------------
(* Writing the new item. *)

\* The cells that PutCommit writes: the new block, the header behind it and,
\* when it wraps, the WRAP header.
Touched(j) ==
  j \in Base .. NewHead + Hdr - 1 \/ (Wraps /\ j \in head .. head + Hdr - 1)

LEMMA CommitPlace ==
  ASSUME IInv, PutCommit
  PROVE  /\ put.size \in Nat /\ put.size \in ItemSizes
         /\ Base \in Index /\ Base \in Nat
         /\ NewHead \in Index /\ NewHead \in Nat /\ NewHead = Base + Hdr + put.size
         /\ NewHead + Hdr <= DataSize
         /\ Wraps => Base = 0 /\ NewHead + Hdr < tail /\ tail <= head /\ first < next_id
         /\ ~Wraps /\ head < tail => Base = head /\ NewHead + Hdr <= tail
         /\ ~Wraps /\ tail <= head => Base = head
<1> USE QueueConstants
<1>1. put.size \in Nat /\ put.size \in ItemSizes
  BY DEF IInv, TypeOK, PutCommit
<1>2. CASE Wraps
  <2>1. Base = 0 /\ NewHead = Hdr + put.size /\ put.size + 2 * Hdr < tail /\ tail <= head
    BY <1>1, <1>2 DEF Wraps, Base, NewHead, PutCommit, CheckFit
  <2>2. first # next_id
    BY <1>1, <2>1, EndFacts DEF IInv, RingInv, Chained
  <2>3. QED
    BY <1>1, <1>2, <2>1, <2>2, EndFacts DEF Index, NewHead
<1>3. CASE ~Wraps
  <2>1. Base = head /\ NewHead = head + Hdr + put.size
    BY <1>1, <1>3, EndFacts DEF Base, NewHead
  <2>2. IF tail <= head THEN head + put.size + 2 * Hdr <= DataSize
                        ELSE head + put.size + 3 * Hdr <= tail
    BY <1>1, <1>3, EndFacts DEF Wraps, WouldWrap, PutCommit, CheckFit
  <2>3. tail < DataSize
    BY EndFacts DEF Index
  <2>4. QED
    BY <1>1, <1>3, <2>1, <2>2, <2>3, EndFacts DEF Index, NewHead
<1>4. QED
  BY <1>2, <1>3

LEMMA CommitCells ==
  ASSUME IInv, PutCommit
  PROVE  /\ mem' \in [Index -> Cells]
         /\ mem'[Base] = Block("ITEM", put.size, next_id)
         /\ \A j \in Base + 1 .. NewHead - 1 : j \in Index /\ mem'[j] = Payload(next_id)
         /\ mem'[NewHead] = Block("HEAD", 0, 0)
         /\ Wraps => mem'[head] = Block("WRAP", 0, 0)
         /\ \A j \in Index : ~Touched(j) => mem'[j] = mem[j]
         /\ \A j \in Index : Touched(j) /\ j # Base => mem'[j].state # "ITEM"
<1> USE QueueConstants
<1> DEFINE two == WriteBlock(Wrapped, Base, "ITEM", put.size, next_id)
<1>1. /\ Base \in Nat /\ NewHead \in Nat /\ put.size \in Nat /\ next_id \in Nat
      /\ Base \in Index /\ NewHead \in Index /\ head \in Index /\ head \in Nat
      /\ NewHead = Base + Hdr + put.size
      /\ tail \in Nat
      /\ Wraps => NewHead + Hdr < head
  BY CommitPlace, EndFacts
<1>2. mem \in [Index -> Cells] /\ "ITEM" \in States /\ "WRAP" \in States /\ "HEAD" \in States
  BY DEF IInv, TypeOK, Cells, States
<1>3. /\ Wrapped \in [Index -> Cells]
      /\ Wraps => Wrapped[head] = Block("WRAP", 0, 0)
      /\ \A j \in Index : Wraps /\ head < j /\ j < head + Hdr => Wrapped[j] = Payload(0)
      /\ \A j \in Index : ~Wraps \/ j < head \/ head + Hdr <= j => Wrapped[j] = mem[j]
  <2>1. CASE Wraps
    <3>1. Wrapped = [j \in Index |->
                       IF j = head THEN Block("WRAP", 0, 0)
                       ELSE IF head < j /\ j < head + Hdr THEN Payload(0) ELSE mem[j]]
      BY <1>1, <2>1 DEF Wrapped, WriteBlock, Index
    <3>2. Block("WRAP", 0, 0) \in Cells /\ Payload(0) \in Cells
      BY DEF Block, Payload, Cells, States
    <3>3. QED
      BY <1>1, <1>2, <2>1, <3>1, <3>2
  <2>2. CASE ~Wraps
    BY <1>2, <2>2 DEF Wrapped
  <2>3. QED
    BY <2>1, <2>2
<1>4. /\ two \in [Index -> Cells]
      /\ two[Base] = Block("ITEM", put.size, next_id)
      /\ \A j \in Index : Base < j /\ j < NewHead => two[j] = Payload(next_id)
      /\ \A j \in Index : (j < Base \/ NewHead <= j) => two[j] = Wrapped[j]
  <2>1. Block("ITEM", put.size, next_id) \in Cells /\ Payload(next_id) \in Cells
    BY <1>1, <1>2 DEF Block, Payload, Cells, States
  <2>2. two = [j \in Index |->
                IF j = Base THEN Block("ITEM", put.size, next_id)
                ELSE IF Base < j /\ j < NewHead THEN Payload(next_id) ELSE Wrapped[j]]
    BY <1>1 DEF WriteBlock, Index
  <2>3. QED
    BY <1>1, <1>3, <2>1, <2>2
<1> HIDE DEF two
<1>5. /\ mem' \in [Index -> Cells]
      /\ mem'[NewHead] = Block("HEAD", 0, 0)
      /\ \A j \in Index : NewHead < j /\ j < NewHead + Hdr => mem'[j] = Payload(0)
      /\ \A j \in Index : (j < NewHead \/ NewHead + Hdr <= j) => mem'[j] = two[j]
  <2>1. mem' = [j \in Index |->
                 IF j = NewHead THEN Block("HEAD", 0, 0)
                 ELSE IF NewHead < j /\ j < NewHead + Hdr THEN Payload(0) ELSE two[j]]
    <3>1. mem' = WriteBlock(two, NewHead, "HEAD", 0, 0)
      BY DEF PutCommit, two
    <3>2. QED
      BY <1>1, <3>1 DEF WriteBlock, Index
  <2>2. Block("HEAD", 0, 0) \in Cells /\ Payload(0) \in Cells
    BY DEF Block, Payload, Cells, States
  <2>3. QED
    BY <1>1, <1>4, <2>1, <2>2 DEF Index
<1>6. mem'[Base] = Block("ITEM", put.size, next_id)
  BY <1>1, <1>4, <1>5
<1>7. \A j \in Base + 1 .. NewHead - 1 : j \in Index /\ mem'[j] = Payload(next_id)
  BY <1>1, <1>4, <1>5 DEF Index
<1>8. Wraps => mem'[head] = Block("WRAP", 0, 0)
  BY <1>1, <1>3, <1>4, <1>5
<1>9. \A j \in Index : ~Touched(j) => mem'[j] = mem[j]
  BY <1>1, <1>3, <1>4, <1>5 DEF Touched, Index
<1>10. ASSUME NEW j \in Index, Touched(j), j # Base
       PROVE  mem'[j].state # "ITEM"
  <2>1. CASE j \in Base .. NewHead - 1
    BY <1>1, <1>7, <1>10, <2>1 DEF Payload, Block
  <2>2. CASE j \in NewHead .. NewHead + Hdr - 1
    BY <1>1, <1>5, <2>2 DEF Payload, Block
  <2>3. CASE Wraps /\ j \in head .. head + Hdr - 1
    BY <1>1, <1>3, <1>4, <1>5, <2>3 DEF Payload, Block
  <2>4. QED
    BY <1>1, <1>10, <2>1, <2>2, <2>3 DEF Touched
<1>11. QED
  BY <1>5, <1>6, <1>7, <1>8, <1>9, <1>10

\* No kept item is written over, and no WRAP block that leads to one.
LEMMA CommitSpares ==
  ASSUME IInv, PutCommit, NEW n \in Live
  PROVE  /\ \A j \in pos[n] .. ItemEnd(n) - 1 : j \in Index /\ ~Touched(j)
         /\ n # next_id - 1 => \/ pos[n + 1] = ItemEnd(n)
                               \/ /\ pos[n + 1] = 0
                                  /\ ItemEnd(n) \in Index /\ ~Touched(ItemEnd(n))
                                  /\ mem[ItemEnd(n)].state = "WRAP"
<1> USE QueueConstants
<1>1. /\ head \in Nat /\ tail \in Nat /\ Base \in Nat /\ NewHead \in Nat
      /\ pos[n] \in Nat /\ ItemEnd(n) \in Nat /\ pos[n] < ItemEnd(n)
      /\ ItemEnd(n) + Hdr <= DataSize
  BY EndFacts, CommitPlace, ItemFacts
<1>2. IF head < tail /\ Lap(n) = 0
      THEN ItemEnd(n) + Hdr <= DataSize
      ELSE (Lap(n) = 0 => tail <= pos[n]) /\ ItemEnd(n) <= head
  BY DEF IInv, RingInv, Placed, ItemEnd
<1>3. \A j \in Nat : Touched(j) => \/ head <= j /\ (head < tail => j < tail)
                                   \/ Wraps /\ j < tail /\ tail <= head
  BY <1>1, CommitPlace DEF Touched
<1>4. ASSUME NEW j \in pos[n] .. ItemEnd(n) - 1
      PROVE  j \in Index /\ ~Touched(j)
  BY <1>1, <1>2, <1>3 DEF Lap, Index
<1>5. ASSUME n # next_id - 1, pos[n + 1] # ItemEnd(n)
      PROVE  /\ pos[n + 1] = 0
             /\ ItemEnd(n) \in Index /\ ~Touched(ItemEnd(n))
             /\ mem[ItemEnd(n)].state = "WRAP"
  <2>1. pos[n + 1] = 0 /\ ItemEnd(n) \in Index /\ mem[ItemEnd(n)].state = "WRAP"
    BY <1>5 DEF IInv, RingInv, Chained, ItemEnd
  <2>2. n + 1 \in Live /\ n < n + 1
    BY <1>5, ItemFacts, EndFacts DEF Live
  <2>3. Lap(n) < Lap(n + 1)
    BY <1>1, <2>1, <2>2 DEF IInv, RingInv, Placed, ItemEnd
  <2>4. head < tail /\ tail <= pos[n]
    BY <1>1, <2>1, <2>3 DEF Lap
  <2>5. QED
    BY <1>1, <1>3, <2>1, <2>4
<1>6. QED
  BY <1>4, <1>5

LEMMA CommitStep ==
  ASSUME IInv, PutCommit
  PROVE  IInv'
<1> USE QueueConstants
<1>1. /\ first \in Nat /\ next_id \in Nat /\ 1 <= first /\ first <= next_id
      /\ first' = first /\ tail' = tail /\ head' = NewHead /\ next_id' = next_id + 1
      /\ Live' = Live \cup {next_id} /\ next_id \notin Live
  BY EndFacts DEF PutCommit, Live
<1>2. /\ pos' \in [Live' -> Index]
      /\ pos'[next_id] = Base
      /\ \A n \in Live : pos'[n] = pos[n] /\ n \in Live'
  <2>1. pos' = [k \in Live' |-> IF k = next_id THEN Base ELSE pos[k]]
    BY <1>1 DEF PutCommit, Live
  <2>2. pos \in [Live -> Index] /\ Base \in Index
    BY CommitPlace DEF IInv, TypeOK
  <2>3. QED
    BY <1>1, <2>1, <2>2
<1>3. \A n \in Live : /\ mem'[pos[n]] = mem[pos[n]]
                      /\ EndOf(mem', pos'[n]) = ItemEnd(n)
  <2>1. ASSUME NEW n \in Live
        PROVE  pos[n] \in Index /\ ~Touched(pos[n])
    <3>1. pos[n] \in pos[n] .. ItemEnd(n) - 1
      BY ItemFacts
    <3>2. QED
      BY <3>1, CommitSpares
  <2>2. QED
    BY <1>2, <2>1, CommitCells DEF EndOf, ItemEnd
<1>4. EndOf(mem', pos'[next_id]) = NewHead
  BY <1>2, CommitCells, CommitPlace DEF EndOf, Block
<1>5. TypeOK'
  <2>1. saved_size' \in Nat
    <3>1. Overwritten \in Nat
      <4>1. put.orig_tail \in 0 .. DataSize
        BY DEF IInv, TypeOK
      <4>2. QED
        BY <4>1, EndFacts DEF Overwritten
    <3>2. QED
      BY <3>1 DEF IInv, TypeOK, PutCommit
  <2>2. get' \in [Getters -> [waits : BOOLEAN, index : Index, int_id : Nat, want : Nat,
                             lapped : BOOLEAN]]
    BY DEF IInv, TypeOK, PutCommit
  <2>3. put' \in [busy : BOOLEAN, size : Nat, orig_tail : 0 .. DataSize] /\ ~put'.busy
    BY DEF PutCommit, NoPut
  <2>4. mem' \in [Index -> [state : States, size : Nat, id : Nat]]
    BY CommitCells DEF Cells
  <2>5. head' \in Nat /\ tail' \in Nat /\ next_id' \in Nat \ {0} /\ first' \in 1 .. next_id'
    BY <1>1, CommitPlace, EndFacts
  <2>6. QED
    BY <1>2, <2>1, <2>2, <2>3, <2>4, <2>5 DEF IInv, TypeOK, PutCommit
<1>6. ItemsIntact'
  <2>1. ASSUME NEW n \in Live
        PROVE  Holds(pos[n], n)' /\ mem'[pos'[n]].size \in ItemSizes
    <3>1. /\ pos[n] \in Index /\ mem[pos[n]].state = "ITEM" /\ mem[pos[n]].id = n
          /\ mem[pos[n]].size \in ItemSizes
          /\ \A j \in pos[n] + 1 .. ItemEnd(n) - 1 : j \in Index /\ mem[j] = Payload(n)
      BY DEF IInv, RingInv, ItemsIntact, Holds, ItemEnd
    <3>2. \A j \in pos[n] + 1 .. ItemEnd(n) - 1 : j \in Index /\ ~Touched(j)
      <4>1. pos[n] \in Nat
        BY ItemFacts
      <4>2. QED
        BY <4>1, ItemFacts, CommitSpares
    <3>3. \A j \in pos[n] + 1 .. ItemEnd(n) - 1 : mem'[j] = Payload(n)
      BY <3>1, <3>2, CommitCells
    <3>4. QED
      BY <1>2, <1>3, <3>1, <3>3 DEF Holds, ItemEnd
  <2>2. ASSUME NEW n \in Live', n = next_id
        PROVE  Holds(pos[n], n)' /\ mem'[pos'[n]].size \in ItemSizes
    <3>1. /\ mem'[Base].state = "ITEM" /\ mem'[Base].id = n /\ pos'[n] = Base
          /\ mem'[Base].size = put.size /\ EndOf(mem', Base) = NewHead
      BY <1>2, <1>4, <2>2, CommitCells DEF Block
    <3>2. QED
      BY <2>2, <3>1, CommitCells, CommitPlace DEF Holds
  <2>3. QED
    BY <1>1, <2>1, <2>2 DEF ItemsIntact
<1>7. ItemsUnique'
  <2>1. SUFFICES ASSUME NEW j \in Index, mem'[j].state = "ITEM"
                 PROVE  /\ mem'[j].id < next_id + 1
                        /\ first <= mem'[j].id => pos'[mem'[j].id] = j
    BY <1>1 DEF ItemsUnique
  <2>2. CASE j = Base
    BY <1>1, <1>2, <2>2, CommitCells DEF Block
  <2>3. CASE j # Base
    <3>1. mem'[j] = mem[j]
      BY <2>1, <2>3, CommitCells
    <3>2. /\ mem[j].id \in Nat /\ mem[j].id < next_id
          /\ first <= mem[j].id => pos[mem[j].id] = j
      BY <2>1, <3>1 DEF IInv, RingInv, ItemsUnique, TypeOK
    <3>3. first <= mem[j].id => mem[j].id \in Live
      BY <1>1, <3>2 DEF Live
    <3>4. QED
      BY <1>1, <1>2, <3>1, <3>2, <3>3
  <2>4. QED
    BY <2>2, <2>3
<1>8. Chained'
  <2>1. tail' = pos'[first']
    <3>1. CASE first < next_id
      BY <1>1, <1>2, <3>1 DEF IInv, RingInv, Chained, Live
    <3>2. CASE first = next_id
      BY <1>1, <1>2, <3>2, CommitPlace DEF IInv, RingInv, Chained
    <3>3. QED
      BY <1>1, <3>1, <3>2
  <2>2. head' = EndOf(mem', pos'[next_id' - 1])
    BY <1>1, <1>4
  <2>3. ASSUME NEW n \in Live' \ {next_id' - 1}
        PROVE  LET e == EndOf(mem', pos'[n])
               IN  \/ pos'[n + 1] = e
                   \/ pos'[n + 1] = 0 /\ e \in Index /\ mem'[e].state = "WRAP"
    <3>1. n \in Live /\ EndOf(mem', pos'[n]) = ItemEnd(n)
      BY <1>1, <1>3, <2>3
    <3>2. CASE n # next_id - 1
      <4>1. n + 1 \in Live
        BY <3>1, <3>2, <1>1 DEF Live
      <4>2. QED
        BY <1>2, <3>1, <3>2, <4>1, CommitSpares, CommitCells
    <3>3. CASE n = next_id - 1
      <4>1. n + 1 = next_id /\ ItemEnd(n) = head /\ head \in Index
        BY <1>1, <3>1, <3>3, ItemFacts, EndFacts DEF IInv, RingInv, Chained, ItemEnd
      <4>2. CASE Wraps
        BY <1>2, <3>1, <4>1, <4>2, CommitPlace, CommitCells DEF Block
      <4>3. CASE ~Wraps
        <5>1. Base = head
          BY <4>3, CommitPlace, EndFacts
        <5>2. QED
          BY <1>2, <3>1, <4>1, <5>1
      <4>4. QED
        BY <4>2, <4>3
    <3>4. QED
      BY <3>2, <3>3
  <2>4. mem'[head'].state \notin {"ITEM", "WRAP"}
    BY <1>1, CommitCells DEF Block
  <2>5. first' < next_id'
    BY <1>1
  <2>6. QED
    BY <1>1, <2>1, <2>2, <2>3, <2>4, <2>5 DEF Chained
<1>9. Placed'
  <2> DEFINE NewLap(n) == IF NewHead < tail /\ pos'[n] < tail THEN 1 ELSE 0
  <2>1. /\ head \in Nat /\ tail \in Nat /\ Base \in Nat /\ NewHead \in Nat
        /\ Base < NewHead /\ NewHead + Hdr <= DataSize
        /\ pos'[next_id] = Base
    BY <1>2, EndFacts, CommitPlace
  <2>2. \A n \in Live : /\ pos'[n] = pos[n] /\ pos[n] \in Nat /\ ItemEnd(n) \in Nat
                        /\ pos[n] < ItemEnd(n) /\ ItemEnd(n) + Hdr <= DataSize
                        /\ n \in Nat /\ n < next_id
    BY <1>2, ItemFacts
  <2>3. \A n \in Live : IF head < tail /\ Lap(n) = 0
                        THEN ItemEnd(n) + Hdr <= DataSize
                        ELSE (Lap(n) = 0 => tail <= pos[n]) /\ ItemEnd(n) <= head
    BY DEF IInv, RingInv, Placed, ItemEnd
  <2>4. \A m, n \in Live : m < n => \/ Lap(m) < Lap(n)
                                    \/ Lap(m) = Lap(n) /\ ItemEnd(m) <= pos[n]
    BY DEF IInv, RingInv, Placed, ItemEnd
  <2>5. \A n \in Live' : Lap(n)' = NewLap(n)
    BY <1>1 DEF Lap
  <2>6. NewHead < tail => NewHead + Hdr <= tail
    BY <2>1, CommitPlace
  <2>7. SUFFICES
          /\ \A n \in Live :
               IF NewHead < tail /\ NewLap(n) = 0
               THEN ItemEnd(n) + Hdr <= DataSize
               ELSE (NewLap(n) = 0 => tail <= pos[n]) /\ ItemEnd(n) <= NewHead
          /\ ~(NewHead < tail /\ NewLap(next_id) = 0)
          /\ NewLap(next_id) = 0 => tail <= Base
          /\ \A m, n \in Live : m < n => \/ NewLap(m) < NewLap(n)
                                         \/ NewLap(m) = NewLap(n) /\ ItemEnd(m) <= pos[n]
          /\ \A m \in Live : \/ NewLap(m) < NewLap(next_id)
                             \/ NewLap(m) = NewLap(next_id) /\ ItemEnd(m) <= Base
    <3>1. \A n \in Live' : IF head' < tail' /\ Lap(n)' = 0
                           THEN EndOf(mem', pos'[n]) + Hdr <= DataSize
                           ELSE /\ Lap(n)' = 0 => tail' <= pos'[n]
                                /\ EndOf(mem', pos'[n]) <= head'
      BY <1>1, <1>3, <1>4, <2>1, <2>2, <2>5, <2>7
    <3>2. \A m, n \in Live' : m < n =>
            \/ Lap(m)' < Lap(n)'
            \/ Lap(m)' = Lap(n)' /\ EndOf(mem', pos'[m]) <= pos'[n]
      BY <1>1, <1>3, <2>1, <2>2, <2>5, <2>7
    <3>3. QED
      BY <1>1, <2>1, <2>6, <3>1, <3>2 DEF Placed
  <2>8. CASE Wraps
    <3>1. /\ NewHead < tail /\ tail <= head /\ NewLap(next_id) = 1
          /\ \A n \in Live : Lap(n) = 0 /\ NewLap(n) = 0
      <4>1. Base = 0 /\ NewHead < tail /\ tail <= head
        BY <2>1, <2>8, CommitPlace
      <4>2. \A n \in Live : Lap(n) = 0
        BY <2>1, <4>1 DEF Lap
      <4>3. \A n \in Live : tail <= pos[n]
        BY <2>1, <2>3, <4>1, <4>2
      <4>4. QED
        BY <2>1, <2>2, <4>1, <4>2, <4>3
    <3>2. QED
      BY <2>1, <2>2, <2>4, <3>1
  <2>9. CASE ~Wraps /\ head < tail
    <3>1. Base = head /\ NewHead < tail /\ NewLap(next_id) = 1
      BY <2>1, <2>9, CommitPlace
    <3>2. \A n \in Live : NewLap(n) = Lap(n) /\ Lap(n) \in {0, 1}
      BY <2>1, <2>2, <2>9, <3>1 DEF Lap
    <3>3. QED
      BY <2>1, <2>2, <2>3, <2>4, <2>9, <3>1, <3>2
  <2>10. CASE ~Wraps /\ tail <= head
    <3>1. Base = head /\ ~(NewHead < tail) /\ NewLap(next_id) = 0
      BY <2>1, <2>10, CommitPlace
    <3>2. \A n \in Live : NewLap(n) = 0 /\ Lap(n) = 0
      BY <2>1, <2>10, <3>1 DEF Lap
    <3>3. QED
      BY <2>1, <2>2, <2>3, <2>4, <2>10, <3>1, <3>2
  <2>11. QED
    BY <2>1, <2>8, <2>9, <2>10
<1>10. QED
  BY <1>5, <1>6, <1>7, <1>8, <1>9 DEF IInv, RingInv

-----------------------------------------------------------------------------
LEMMA NextStep ==
  ASSUME RoomForThree, IInv, [Next]_qvars
  PROVE  IInv'
<1>1. CASE Put
  BY <1>1, OtherSteps, DropStep, CommitStep DEF Put
<1>2. CASE Reset
  BY <1>2, ResetStep
<1>3. CASE (\E g \in Getters : Get(g)) \/ Interrupt \/ Close \/ UNCHANGED qvars
  BY <1>3, OtherSteps
<1>4. QED
  BY <1>1, <1>2, <1>3 DEF Next

\* The inductive invariant holds in every reachable state, whatever the size of
\* the buffer, the number of consumers and the calls they make.
LEMMA Inductive ==
  ASSUME RoomForThree
  PROVE  Spec => []IInv
<1>1. Init => IInv
  BY InitStep
<1>2. IInv /\ [Next]_qvars => IInv'
  BY NextStep
<1>3. QED
  BY <1>1, <1>2, PTL DEF Spec

\* Every header and payload that Put, Get and Reset leave behind is well
\* formed, and _head, _tail and the index a waiting Get keeps are in the buffer.
THEOREM TypeCorrect ==
  ASSUME RoomForThree
  PROVE  Spec => []TypeOK
<1>1. IInv => TypeOK
  BY DEF IInv
<1>2. QED
  BY <1>1, Inductive, PTL

\* allocate_locked and commit_locked keep the ring whole: each item that was not
\* given up is intact where it was put and reachable from _tail.
THEOREM RingCorrect ==
  ASSUME RoomForThree
  PROVE  Spec => []RingInv
<1>1. IInv => RingInv
  BY DEF IInv
<1>2. QED
  BY <1>1, Inductive, PTL

\* check_fit gives up an item only when less than two blocks of the new item's
\* size are free.
THEOREM DropsCorrect ==
  ASSUME RoomForThree
  PROVE  Spec => DropsOnlyWhenFull
<1> DEFINE Dropped == first' # first => \/ first' = next_id /\ int_id' # int_id
                                        \/ DataSize - Used < 2 * (put.size + 2 * Hdr)
<1>1. IInv /\ [Next]_qvars => [Dropped]_qvars
  <2> SUFFICES ASSUME IInv, [Next]_qvars, first' # first
               PROVE  Dropped
    OBVIOUS
  <2> USE QueueConstants
  <2>1. CASE Reset
    BY <2>1, EndFacts DEF Reset, IInv, TypeOK
  <2>2. CASE PutDrop
    <3>1. put.size \in Nat
      BY <2>2 DEF PutDrop, IInv, TypeOK
    <3>2. DataSize - Used < 2 * (put.size + 2 * Hdr)
      <4>1. ~CheckFit(put.size)
        BY <2>2 DEF PutDrop
      <4>2. QED
        BY <3>1, <4>1, EndFacts DEF CheckFit, WouldWrap, Used
    <3>3. QED
      BY <3>2
  <2>3. CASE \E size \in ItemSizes : PutBegin(size)
    BY <2>3 DEF PutBegin, ring
  <2>4. CASE PutCommit
    BY <2>4 DEF PutCommit
  <2>5. CASE \E g \in Getters : Get(g)
    BY <2>5 DEF Get, GetNow, GetWait, GetWake, GetFail, Deliver, ring
  <2>6. CASE Interrupt \/ Close \/ UNCHANGED qvars
    BY <2>6 DEF Interrupt, Close, qvars, ring
  <2>7. QED
    BY <2>1, <2>2, <2>3, <2>4, <2>5, <2>6 DEF Next, Put
<1>2. QED
  BY <1>1, Inductive, PTL DEF Spec, DropsOnlyWhenFull
=============================================================================
