------------------------------- MODULE Queue -------------------------------
(***************************************************************************)
(* The event queue of auoms and auomscollect (Queue.h, Queue.cpp): a ring  *)
(* of blocks in one buffer, shared by the threads that put events and the  *)
(* output threads that read them with cursors.  When an item does not fit, *)
(* Put gives up the oldest items.                                          *)
(*                                                                         *)
(* The buffer is modelled cell by cell.  A block is a header (Hdr cells,   *)
(* its fields kept in the first one) followed by its payload; a payload    *)
(* cell is named by the item that wrote it.  Every method runs under       *)
(* _lock; what happens between taking and releasing it is one action,      *)
(* except the loop of allocate_locked, which takes one action per block    *)
(* given up while put.busy keeps every other method out.                   *)
(*                                                                         *)
(* The queue file is the business of module QueueSave.                     *)
(***************************************************************************)
EXTENDS Integers

CONSTANTS
  DataSize,     \* _data_size: cells in the buffer
  Hdr,          \* sizeof(BlockHeader)
  ItemSizes,    \* payload sizes that Put is called with
  Getters,      \* threads that call Get (one per Output)
  FirstCursors, \* cursors a thread may call Get with first
  MaxId,        \* bound: no more items are put once next_id reaches it
  MaxInt        \* bound on int_id: the number of Interrupt and Reset calls

ASSUME QueueConstants ==
  /\ DataSize \in Nat
  /\ Hdr \in Nat \ {0}
  /\ ItemSizes \subseteq Nat /\ ItemSizes # {}
  /\ FirstCursors \subseteq [id : Int, index : Int]
  /\ MaxId \in Nat
  /\ MaxInt \in Nat

(***************************************************************************)
(* Three blocks of the largest size and two more headers fit the buffer.   *)
(* The code asks for one block (allocate_locked throws otherwise) and      *)
(* loses track of its ring in a smaller buffer: the loop can give up every *)
(* item, and Put then leaves _tail on a WRAP block.                        *)
(***************************************************************************)
RoomForThree == \A s \in ItemSizes : 3 * (s + Hdr) + 2 * Hdr <= DataSize

VARIABLES
  mem,        \* the buffer at _ptr
  head,       \* where the next block goes
  tail,       \* the oldest block
  next_id,
  saved_size, \* bytes from tail on that are in the queue file
  closed,
  int_id,     \* counts the calls that interrupt a waiting Get
  put,        \* the Put that holds _lock, if any
  get,        \* per getter: the Get that waits on _cond, if any
  cur,        \* per getter: the cursor it passes to its next Get
  first,      \* ghost: the id of the oldest item in the queue
  pos,        \* ghost: where the items first .. next_id-1 are
  astray      \* ghost: the getters that the ring overtook while they waited

ring == <<mem, head, tail, next_id, saved_size, first, pos>>
qvars == <<ring, closed, int_id, put, get, cur, astray>>

-----------------------------------------------------------------------------
(* Blocks *)

Block(st, sz, i) == [state |-> st, size |-> sz, id |-> i]

Zero == Block("ZERO", 0, 0)
Payload(i) == Block("DATA", 0, i)
States == {"ZERO", "DATA", "ITEM", "WRAP", "HEAD"}

Index == 0 .. DataSize - 1

\* The cells of the block header written at p, and of its payload.
WriteBlock(m, p, st, sz, i) ==
  [j \in Index |-> IF j = p THEN Block(st, sz, i)
                   ELSE IF j \in p + 1 .. p + Hdr + sz - 1 THEN Payload(i)
                   ELSE m[j]]

EndOf(m, p) == p + Hdr + m[p].size

SkipWrap(m, p) == IF m[p].state = "WRAP" THEN 0 ELSE p

\* A cursor is the id and the index of the last item read, or one of two marks.
Cursor(i, p) == [id |-> i, index |-> p]
HeadCursor == Cursor(-1, -1)
TailCursor == Cursor(0, DataSize)

NoPut == [busy |-> FALSE, size |-> 0, orig_tail |-> 0]
NoGet == [waits |-> FALSE, index |-> 0, int_id |-> 0, want |-> 0,
          lapped |-> FALSE]

Used == IF tail <= head THEN head - tail ELSE head + (DataSize - tail)

-----------------------------------------------------------------------------
Init ==
  /\ mem = [j \in Index |-> Zero]
  /\ head = 0 /\ tail = 0 /\ next_id = 1 /\ saved_size = 0
  /\ first = 1 /\ pos = [n \in 1 .. 0 |-> 0]
  /\ closed = FALSE
  /\ int_id = 0
  /\ put = NoPut
  /\ get = [g \in Getters |-> NoGet]
  /\ cur \in [Getters -> FirstCursors]
  /\ astray = {}

-----------------------------------------------------------------------------
(* Put *)

\* head+size+2*Hdr goes past the end of the buffer: the block goes to index 0.
WouldWrap(size) == DataSize - head < size + 2 * Hdr

\* Mutants of CheckFit, for the run "queue": the empty queue is taken for a full
\* one; the room for the headers is forgotten; the queue never wraps.
CheckFit_Empty(size) ==
  IF tail < head
  THEN WouldWrap(size) => size + 2 * Hdr < tail
  ELSE head + size + 3 * Hdr <= tail

CheckFit_Short(size) ==
  IF tail <= head
  THEN WouldWrap(size) => size + 2 * Hdr < tail
  ELSE head + size + Hdr <= tail

CheckFit_NoWrap(size) ==
  IF tail <= head THEN ~WouldWrap(size) ELSE head + size + 3 * Hdr <= tail

CheckFit(size) ==
  IF tail <= head
  THEN WouldWrap(size) => size + 2 * Hdr < tail
  ELSE head + size + 3 * Hdr <= tail

PutBegin(size) ==
  /\ ~put.busy /\ ~closed
  /\ next_id < MaxId
  /\ size + 2 * Hdr <= DataSize        \* allocate_locked throws otherwise
  /\ put' = [busy |-> TRUE, size |-> size, orig_tail |-> tail]
  /\ UNCHANGED <<ring, closed, int_id, get, cur, astray>>

\* One turn of allocate_locked's loop: the oldest block is given up.
PutDrop ==
  /\ put.busy /\ ~CheckFit(put.size)
  /\ tail' = SkipWrap(mem, EndOf(mem, tail))
  /\ first' = first + 1
  /\ pos' = [n \in first + 1 .. next_id - 1 |-> pos[n]]
  /\ UNCHANGED <<mem, head, next_id, saved_size, closed, int_id, put, get, cur,
                 astray>>

Overwritten ==
  IF put.orig_tail <= tail THEN tail - put.orig_tail
  ELSE tail + (DataSize - put.orig_tail)

\* Where the new block goes, and the header that follows it.
Wraps == tail <= head /\ WouldWrap(put.size)
Base == IF Wraps THEN 0 ELSE head
NewHead == Base + Hdr + put.size

\* A wrapping Put leaves a WRAP block where it would have begun.
Wrapped == IF Wraps THEN WriteBlock(mem, head, "WRAP", 0, 0) ELSE mem

\* Some getter sleeps at the block that this Put writes over, or at the WRAP
\* block that leads there.
RunsInto(p) ==
  \E q \in {p, SkipWrap(mem, p)} :
    q \in Base .. NewHead + Hdr - 1 \/ (Wraps /\ q = head)

\* The rest of allocate_locked, the copy of the item and commit_locked.
PutCommit ==
  /\ put.busy /\ CheckFit(put.size)
  /\ mem' = WriteBlock(WriteBlock(Wrapped, Base, "ITEM", put.size, next_id),
                       NewHead, "HEAD", 0, 0)
  /\ head' = NewHead
  /\ next_id' = next_id + 1
  /\ saved_size' = IF saved_size > Overwritten THEN saved_size - Overwritten ELSE 0
  /\ pos' = [k \in first .. next_id |-> IF k = next_id THEN Base ELSE pos[k]]
  /\ put' = NoPut
  /\ get' = [g \in Getters |->
               [get[g] EXCEPT !.lapped =
                  @ \/ (get[g].waits /\ get[g].want < next_id /\ RunsInto(get[g].index))]]
  /\ UNCHANGED <<tail, first, closed, int_id, cur, astray>>

-----------------------------------------------------------------------------
(* Get *)

\* The cursor stands for the end of the queue, or for an item still in it.
AtEnd(c) == c = HeadCursor \/ (c.index <= DataSize - Hdr /\ c.id >= next_id)

\* Mutant: the block at the cursor's index is not looked at.
AtItem_NoCheck(c) ==
  c.index \in 0 .. DataSize - Hdr /\ c.id \in mem[tail].id .. next_id - 1

AtItem(c) ==
  /\ c.index \in 0 .. DataSize - Hdr
  /\ c.id \in mem[tail].id .. next_id - 1
  /\ mem[c.index].id = c.id /\ mem[c.index].state = "ITEM"

\* Mutant: the item of the cursor itself.
Follow_Same(c) ==
  SkipWrap(mem, IF AtEnd(c) THEN head ELSE IF AtItem(c) THEN c.index ELSE tail)

Follow(c) ==
  SkipWrap(mem, CASE AtEnd(c) -> head
                  [] ~AtEnd(c) /\ AtItem(c) -> EndOf(mem, c.index)
                  [] OTHER -> tail)

HaveData(p) == SkipWrap(mem, p) # head

\* The copy out of the buffer; the caller continues from the item's cursor.
Deliver(g, p) ==
  /\ cur' = [cur EXCEPT ![g] = Cursor(mem[p].id, p)]
  /\ get' = [get EXCEPT ![g] = NoGet]
  /\ UNCHANGED <<ring, closed, int_id, put>>

CanGet(g) == ~put.busy /\ ~get[g].waits /\ ~closed

GetNow(g) ==
  /\ CanGet(g) /\ HaveData(Follow(cur[g]))
  /\ Deliver(g, SkipWrap(mem, Follow(cur[g])))
  /\ UNCHANGED astray

\* The index is computed once, before the lock is given up.
GetWait(g) ==
  /\ CanGet(g) /\ ~HaveData(Follow(cur[g]))
  /\ get' = [get EXCEPT ![g] = [waits |-> TRUE, index |-> Follow(cur[g]),
                                int_id |-> int_id, want |-> next_id,
                                lapped |-> FALSE]]
  /\ UNCHANGED <<ring, closed, int_id, put, cur, astray>>

GetWake(g) ==
  /\ get[g].waits /\ ~put.busy
  /\ ~closed /\ get[g].int_id = int_id
  /\ HaveData(get[g].index)
  /\ Deliver(g, SkipWrap(mem, get[g].index))
  /\ astray' = IF get[g].lapped THEN astray \cup {g} ELSE astray

\* TIMEOUT, CLOSED or INTERRUPTED.
GetFail(g) ==
  /\ get[g].waits /\ ~put.busy
  /\ closed \/ get[g].int_id # int_id \/ ~HaveData(get[g].index)
  /\ get' = [get EXCEPT ![g] = NoGet]
  /\ UNCHANGED <<ring, closed, int_id, put, cur, astray>>

-----------------------------------------------------------------------------
(* Interrupt, Reset and Close *)

Interrupt ==
  /\ ~put.busy /\ int_id < MaxInt
  /\ int_id' = int_id + 1
  /\ UNCHANGED <<ring, closed, put, get, cur, astray>>

\* Mutant: the ids begin anew.
Reset_Ids ==
  /\ ~put.busy /\ int_id < MaxInt
  /\ mem' = [j \in Index |-> Zero]
  /\ head' = 0 /\ tail' = 0 /\ saved_size' = 0 /\ next_id' = 1
  /\ first' = 1 /\ pos' = [n \in 1 .. 0 |-> 0]
  /\ int_id' = int_id + 1
  /\ UNCHANGED <<closed, put, get, cur, astray>>

\* next_id stays: cursors from before the reset are older than every new item.
Reset ==
  /\ ~put.busy /\ int_id < MaxInt
  /\ mem' = [j \in Index |-> Zero]
  /\ head' = 0 /\ tail' = 0 /\ saved_size' = 0
  /\ first' = next_id /\ pos' = [n \in next_id .. next_id - 1 |-> 0]
  /\ int_id' = int_id + 1
  /\ UNCHANGED <<next_id, closed, put, get, cur, astray>>

Close ==
  /\ ~put.busy /\ ~closed
  /\ closed' = TRUE
  /\ UNCHANGED <<ring, int_id, put, get, cur, astray>>

-----------------------------------------------------------------------------
Put == (\E size \in ItemSizes : PutBegin(size)) \/ PutDrop \/ PutCommit

Get(g) == GetNow(g) \/ GetWait(g) \/ GetWake(g) \/ GetFail(g)

Next ==
  \/ Put
  \/ \E g \in Getters : Get(g)
  \/ Interrupt
  \/ Reset
  \/ Close

Spec == Init /\ [][Next]_qvars

\* A thread inside Put runs on; an Output thread keeps calling Get.
Fairness ==
  /\ WF_qvars(PutDrop) /\ WF_qvars(PutCommit)
  /\ \A g \in Getters : WF_qvars(GetNow(g)) /\ WF_qvars(GetWake(g))
                        /\ WF_qvars(GetFail(g))

FairSpec == Spec /\ Fairness

-----------------------------------------------------------------------------
(* Properties *)

Live == first .. next_id - 1

\* Type invariant: every cell holds a header or payload, the positions stay in
\* the buffer, and a Put in progress has a legal size.
TypeOK ==
  /\ mem \in [Index -> [state : States, size : Nat, id : Nat]]
  /\ head \in Nat /\ tail \in Nat /\ saved_size \in Nat
  /\ next_id \in Nat \ {0}
  /\ first \in 1 .. next_id
  /\ pos \in [Live -> Index]
  /\ closed \in BOOLEAN
  /\ int_id \in Nat
  /\ put \in [busy : BOOLEAN, size : Nat, orig_tail : 0 .. DataSize]
  /\ put.busy => put.size \in ItemSizes /\ put.size + 2 * Hdr <= DataSize
  /\ get \in [Getters -> [waits : BOOLEAN, index : Index, int_id : Nat, want : Nat,
                         lapped : BOOLEAN]]
  /\ cur \in [Getters -> [id : Int, index : Int]]
  /\ astray \subseteq Getters

\* Block p of the buffer is item n, header and payload.
Holds(p, n) ==
  /\ p \in Index
  /\ mem[p].state = "ITEM" /\ mem[p].id = n
  /\ \A j \in p + 1 .. EndOf(mem, p) - 1 : j \in Index /\ mem[j] = Payload(n)

\* No Put damages an item that it did not give up: each one is whole in the
\* buffer until the loop of allocate_locked has moved _tail past it.
ItemsIntact == \A n \in Live : Holds(pos[n], n) /\ mem[pos[n]].size \in ItemSizes

\* _tail is the oldest item, _head the end of the newest one, and every block
\* leads to the next, which is what the loop and every cursor rely on.
Chained ==
  /\ tail = (IF first < next_id THEN pos[first] ELSE head)
  /\ first < next_id => head = EndOf(mem, pos[next_id - 1])
  /\ \A n \in Live \ {next_id - 1} :
       LET e == EndOf(mem, pos[n])
       IN  pos[n + 1] = e \/ (pos[n + 1] = 0 /\ e \in Index /\ mem[e].state = "WRAP")
  /\ first = next_id => head = 0 /\ mem = [j \in Index |-> Zero]
  /\ mem[head].state \notin {"ITEM", "WRAP"}

\* There is always room for the header at _head, and the blocks of the ring lie
\* in the order of their ids between _tail and _head, the ones before _tail
\* after those that follow it.
Lap(n) == IF head < tail /\ pos[n] < tail THEN 1 ELSE 0

Placed ==
  /\ head + Hdr <= DataSize
  /\ head < tail => head + Hdr <= tail
  /\ \A n \in Live :
       IF head < tail /\ Lap(n) = 0
       THEN EndOf(mem, pos[n]) + Hdr <= DataSize
       ELSE (Lap(n) = 0 => tail <= pos[n]) /\ EndOf(mem, pos[n]) <= head
  /\ \A m, n \in Live : m < n =>
       \/ Lap(m) < Lap(n)
       \/ Lap(m) = Lap(n) /\ EndOf(mem, pos[m]) <= pos[n]

\* A header with the id of a kept item is the one that item was put with, so
\* Get cannot take an older block for the item of a cursor.
ItemsUnique ==
  \A j \in Index : mem[j].state = "ITEM" =>
    /\ mem[j].id < next_id
    /\ first <= mem[j].id => pos[mem[j].id] = j

RingInv == ItemsIntact /\ Chained /\ Placed /\ ItemsUnique

\* Put gives up an item only when the queue is nearly full: the free space is
\* less than two blocks of the new item's size.
DropsOnlyWhenFull ==
  [][first' # first => \/ first' = next_id /\ int_id' # int_id
                       \/ DataSize - Used < 2 * (put.size + 2 * Hdr)]_qvars

\* What a Get returns is a whole item, later than the one before; only items
\* already given up are skipped.
Follows(g) ==
  LET c == cur'[g] IN
  /\ Holds(c.index, c.id)
  /\ cur[g] # HeadCursor => /\ cur[g].id < c.id
                            /\ \A n \in cur[g].id + 1 .. c.id - 1 : n < first

\* So it is for every getter unless the ring has come round to the block where
\* it waits before it woke: the index was computed before the lock was released.
\* (Queue.h:97 promises "the item just after last" without that exception.)
GetsNextItem ==
  [][\A g \in Getters : cur'[g] # cur[g] => g \in astray' \/ Follows(g)]_qvars

\* A consumer that keeps calling Get receives every item or the item is given
\* up, unless the queue is closed; it never sleeps through one for good.
ReadOrGivenUp ==
  \A g \in Getters : \A n \in 1 .. MaxId - 1 :
    (n < next_id /\ cur[g] # HeadCursor) ~>
      (cur[g].id >= n \/ n < first \/ closed \/ g \in astray)

-----------------------------------------------------------------------------
(* What the queue promises: EventLog, without buffer, blocks and cursors. *)

MaxItem == CHOOSE s \in ItemSizes : \A t \in ItemSizes : t <= s

Log == INSTANCE EventLog WITH
  oldest <- first,
  next <- next_id,
  at <- [g \in Getters |-> IF g \in astray THEN -2 ELSE cur[g].id],
  awaits <- [g \in Getters |->
               IF get[g].waits /\ g \notin astray THEN get[g].want ELSE 0],
  Slack <- (DataSize - MaxItem - 3 * Hdr) \div (MaxItem + Hdr)

\* The ring buffer implements the log: a reader gets the items in order and
\* misses only those given up.
ImplementsLog == Log!Spec
=============================================================================
