---------------------------- MODULE OutputProofs ----------------------------
(***************************************************************************)
(* Proofs about module Output, for any log, any sizes and any number of    *)
(* lost connections and restarts: the cursor does not pass an event that   *)
(* the receiver has not taken, and acks do not move it back.               *)
(***************************************************************************)
EXTENDS Output, TLAPS, WellFoundedInduction

\* No event id comes twice.  With three events of one id NoneSkipped is false:
\* the second one's ack may find the AckQueue's entry of the third.
IdsDiffer == \A l \in Logs : \A m, n \in DOMAIN l : l[m].id = l[n].id => m = n

\* The output is not overtaken while it waits, see EventLog.
InTime == Slack \in Nat /\ \A l \in Logs : Len(l) <= Slack

Pcs == {"connect", "begin", "reset", "loop", "again", "wait", "got", "add", "write", "skip",
        "final", "join", "stopped"}

\* The AckQueue is that of this connection.
Running == {"loop", "again", "wait", "got", "add", "write", "skip"}
Holding == {"got", "add", "write", "skip"}

Top == at[me]

Ids == {events[n].id : n \in DOMAIN events}

TypeOK ==
    /\ events \in Logs /\ oldest \in Nat \ {0} /\ next \in Nat \ {0} /\ next <= Len(events) + 1
    /\ at \in [Getters -> Int] /\ awaits \in [Getters -> Nat]
    /\ AtEnd <= Top /\ Top < next
    /\ pc \in Pcs /\ reader \in {"off", "read", "auto", "close", "end"}
    /\ cursor \in Int /\ AtEnd <= cursor /\ cursor < next
    /\ file \in Int /\ file < next /\ owed \in Nat
    /\ next_seq \in Nat /\ auto \in [have : BOOLEAN, seq : Nat, cursor : Int]
    /\ wire \in Seq(1..Len(events)) /\ acks \in Seq(Ids)
    /\ jumped \in BOOLEAN /\ peer \in BOOLEAN /\ is_open \in BOOLEAN /\ stopping \in BOOLEAN

\* Where the threads are, and what they have in hand.
Places ==
    /\ reader = "off" <=> pc \in {"connect", "begin", "stopped"}
    /\ pc # "wait" => awaits[me] = 0
    /\ pc = "wait" => /\ awaits[me] \in 1..next /\ Top < awaits[me]
                      /\ Top # AtEnd => \A n \in Nat : Top < n /\ n < awaits[me] => n < oldest
    /\ pc \in Holding => Top >= 1
    /\ pc \in {"begin", "reset"} => wire = <<>> /\ acks = <<>>
    /\ pc = "stopped" => file = cursor
    /\ ~peer => wire = <<>>

\* Before the output has got an event.
Unowed ==
    owed = 0 => /\ cursor <= 0 /\ file <= 0 /\ ~auto.have /\ cursors = {}
                /\ wire = <<>> /\ acks = <<>> /\ pc \notin Holding

\* The AckQueue is in the order of the events.
Entry(c) == c.seq \in Nat /\ c.seq < next_seq /\ c.cursor \in 1..(next - 1) /\ c.id = events[c.cursor].id

Ordered ==
    /\ \A c \in cursors : Entry(c) /\ \E e \in ids : e.seq = c.seq /\ e.id = c.id
    /\ \A e \in ids : \E c \in cursors : c.seq = e.seq /\ c.id = e.id
    /\ \A c, d \in cursors : c.seq < d.seq => c.cursor < d.cursor
    /\ \A c, d \in cursors : c.seq = d.seq => c = d
    /\ auto.have => /\ auto.seq < next_seq /\ auto.cursor \in 1..(next - 1)
                    /\ \A c \in cursors : \/ c.seq < auto.seq /\ c.cursor < auto.cursor
                                          \/ auto.seq < c.seq /\ auto.cursor < c.cursor

\* What is under way is not beyond the event in hand.
AckedBelow(b) == \A k \in 1..Len(acks) : \E m \in 1..(b - 1) : acks[k] = events[m].id

Reached ==
    /\ pc \in Running => /\ \A c \in cursors : c.cursor <= Top
                         /\ auto.have => auto.cursor <= Top
                         /\ \A i \in 1..Len(wire) : wire[i] <= Top
                         /\ AckedBelow(Top + 1)
    /\ pc \in {"got", "add", "skip"} => \A c \in cursors : c.cursor < Top
    /\ pc \in Holding => /\ auto.have => auto.cursor < Top
                         /\ \A i \in 1..Len(wire) : wire[i] < Top
                         /\ AckedBelow(Top)

\* The cursor is behind all that waits for an ack.
Forward ==
    reader = "read" =>
      /\ pc # "reset" => \A c \in cursors : cursor < c.cursor
      /\ pc \in Running \cup {"reset"} => cursor <= Top
      /\ pc \in {"got", "add"} => cursor < Top

Owed(n) == owed # 0 /\ owed <= n

\* The event is settled, or the AckQueue has it.
Tracked(n) == Settled(n) \/ \E c \in cursors : c.cursor = n

TrackedTo(b) == \A n \in Nat : Owed(n) /\ n <= b => Tracked(n)

\* Nothing owed is lost from sight.
Kept ==
    /\ \A n \in Nat : Passed(n) => Settled(n)
    /\ auto.have => TrackedTo(auto.cursor)
    /\ \A c \in cursors : TrackedTo(c.cursor)
    /\ pc = "reset" => \A n \in Nat : Owed(n) /\ n <= Top => Settled(n)
    /\ pc \in {"again", "wait", "write", "skip"} => TrackedTo(Top)
    /\ pc = "loop" => TrackedTo(Top) \/ stopping \/ ~is_open
    /\ pc \in {"got", "add"} => TrackedTo(Top - 1)
    /\ owed # 0 /\ pc \in {"reset", "loop", "again", "wait"} => Top # AtEnd

\* The receiver takes the events in their order.
InOrder ==
    /\ \A k \in 1..Len(acks) : \A c, d \in cursors :
         d.id = acks[k] /\ c.cursor <= d.cursor => Settled(c.cursor)
    /\ \A i \in 1..Len(wire) : \A c \in cursors :
         c.cursor < wire[i] => Settled(c.cursor) \/ \E j \in 1..(i - 1) : wire[j] = c.cursor
    /\ pc \in Running /\ peer => \A c \in cursors :
         Settled(c.cursor) \/ (\E i \in 1..Len(wire) : wire[i] = c.cursor) \/ (pc = "write" /\ c.cursor = Top)

Steady == TypeOK /\ Places /\ Unowed /\ Ordered /\ Reached /\ Forward /\ InOrder

Inv == Steady /\ (jumped \/ Kept)

-----------------------------------------------------------------------------
(* What stays *)

LEMMA LogFacts ==
    ASSUME TypeOK
    PROVE  /\ Len(events) \in Nat /\ DOMAIN events = 1..Len(events)
           /\ me \in Getters /\ Getters = {me} /\ Top \in Int /\ awaits[me] \in Nat
           /\ AtEnd = -1
BY OutputConstants DEF TypeOK, Top, AtEnd

\* An event that is no longer owed stays so.
Later ==
    /\ events' = events /\ received \subseteq received'
    /\ oldest' \in Nat \ {0} /\ oldest <= oldest'

LEMMA SettledLater ==
    ASSUME TypeOK, Later, NEW n \in Int, Settled(n)
    PROVE  Settled(n)'
<1>1. oldest \in Nat
    BY DEF TypeOK
<1>2. QED
    BY <1>1 DEF Later, Settled

\* What leaves the AckQueue is settled.
Onward == Later /\ owed' = owed /\ \A c \in cursors : c \in cursors' \/ Settled(c.cursor)'

LEMMA TrackedLater ==
    ASSUME TypeOK, Onward, NEW b \in Int, TrackedTo(b)
    PROVE  TrackedTo(b)'
<1> SUFFICES ASSUME NEW n \in Nat, Owed(n)', n <= b PROVE Tracked(n)'
    BY DEF TrackedTo
<1>1. Tracked(n)
    BY DEF TrackedTo, Owed, Onward
<1>2. CASE Settled(n)
    BY <1>2, SettledLater DEF Onward, Tracked
<1>3. ASSUME NEW c \in cursors, c.cursor = n
      PROVE  Tracked(n)'
    BY <1>3 DEF Onward, Tracked
<1>4. QED
    BY <1>1, <1>2, <1>3 DEF Tracked

LEMMA OrderedStays ==
    ASSUME TypeOK, Ordered, UNCHANGED <<events, ids, cursors, next_seq, auto>>,
           next' \in Nat, next <= next'
    PROVE  Ordered'
<1>1. \A c \in cursors : Entry(c)'
    BY DEF Ordered, Entry, TypeOK
<1>2. auto.have => auto.cursor \in 1..(next' - 1)
    BY DEF Ordered, TypeOK
<1>3. QED
    BY <1>1, <1>2 DEF Ordered

LEMMA ReachedStays ==
    ASSUME TypeOK, Reached, UNCHANGED <<events, at, cursors, auto, wire, acks>>,
           \/ pc' = pc
           \/ pc' \in {"connect", "begin", "reset", "final", "join", "stopped"}
           \/ pc = "got" /\ pc' = "add"
           \/ pc \in Running /\ pc' \in {"loop", "again", "wait"}
    PROVE  Reached'
<1>1. Top' = Top /\ (AckedBelow(Top + 1) => AckedBelow(Top + 1)') /\ (AckedBelow(Top) => AckedBelow(Top)')
    BY DEF Top, AckedBelow
<1>2. pc' \in Running => pc \in Running
    BY DEF Running
<1>3. pc' \in Holding => pc \in Holding
    BY DEF Holding
<1>4. pc' \in {"got", "add", "skip"} => pc \in {"got", "add", "skip"}
    OBVIOUS
<1>5. QED
    BY <1>1, <1>2, <1>3, <1>4 DEF Reached

LEMMA InOrderStays ==
    ASSUME TypeOK, InOrder, Later, UNCHANGED <<at, cursors, wire, acks>>,
           \A c \in cursors : c.cursor \in Int,
           peer' => peer,
           \/ pc' = pc
           \/ pc' \in {"connect", "begin", "reset", "final", "join", "stopped"}
           \/ pc = "got" /\ pc' = "add"
           \/ pc \in Running \ {"write"} /\ pc' \in {"loop", "again", "wait"}
    PROVE  InOrder'
<1>1. \A c \in cursors : Settled(c.cursor) => Settled(c.cursor)'
    BY SettledLater
<1>2. Top' = Top
    BY DEF Top
<1>3. pc' \in Running => pc \in Running
    BY DEF Running
<1>4. pc' \in Running /\ pc = "write" => pc' = "write"
    BY DEF Running
<1>5. \A k \in 1..Len(acks) : \A c, d \in cursors :
         d.id = acks[k] /\ c.cursor <= d.cursor => Settled(c.cursor)'
    BY <1>1 DEF InOrder
<1>6. \A i \in 1..Len(wire) : \A c \in cursors :
         c.cursor < wire[i] => Settled(c.cursor)' \/ \E j \in 1..(i - 1) : wire[j] = c.cursor
    BY <1>1 DEF InOrder
<1>7. pc' \in Running /\ peer' => \A c \in cursors :
         Settled(c.cursor)' \/ (\E i \in 1..Len(wire) : wire[i] = c.cursor) \/ (pc' = "write" /\ c.cursor = Top)
    BY <1>1, <1>3, <1>4 DEF InOrder
<1>8. QED
    BY <1>2, <1>5, <1>6, <1>7 DEF InOrder

LEMMA PassedOn ==
    ASSUME TypeOK, Later, owed' = owed, cursor' = cursor, file' \in {file, cursor},
           \A n \in Nat : Passed(n) => Settled(n)
    PROVE  \A n \in Nat : Passed(n)' => Settled(n)'
BY SettledLater DEF Passed

-----------------------------------------------------------------------------
(* The steps that leave the reader's place, the AckQueue and the connection *)
(* alone *)

Quiet ==
    /\ oldest' \in {oldest, oldest + 1} /\ next' \in {next, next + 1} /\ next' <= Len(events) + 1
    /\ UNCHANGED <<events, at, ids, cursors, next_seq, auto, wire, acks, cursor,
                   owed, received, jumped, peer>>
    /\ file' \in {file, cursor}
    /\ reader' \in {"off", "read", "auto", "close", "end"}
    /\ is_open' \in BOOLEAN /\ stopping' \in BOOLEAN /\ awaits' \in [Getters -> Nat]
    /\ reader' = "read" => reader = "read"
    /\ is_open' => is_open
    /\ stopping => stopping'
    /\ \/ pc' = pc
       \/ pc # "reset" /\ pc' \in {"final", "join", "connect", "stopped"}
       \/ pc = "got" /\ pc' = "add"
       \/ pc = "got" /\ pc' = "loop" /\ (stopping \/ ~is_open)
       \/ pc = "loop" /\ pc' \in {"again", "wait"} /\ ~stopping /\ is_open
       \/ pc \in {"again", "wait"} /\ pc' \in {"loop", "again", "wait"}

LEMMA QuietKept ==
    ASSUME Steady, Kept, Quiet
    PROVE  Kept'
<1>0. TypeOK /\ Onward /\ Top' = Top
  <2>1. oldest' \in Nat \ {0} /\ oldest <= oldest' /\ TypeOK
      BY DEF Quiet, Steady, TypeOK
  <2>2. QED
      BY <2>1 DEF Quiet, Steady, Onward, Later, Top
<1>1. \A b \in Int : TrackedTo(b) => TrackedTo(b)'
    BY <1>0, TrackedLater
<1>2. /\ Top \in Int /\ Top - 1 \in Int
      /\ TrackedTo(Top) => TrackedTo(Top)'
      /\ TrackedTo(Top - 1) => TrackedTo(Top - 1)'
  <2>1. Top \in Int /\ Top - 1 \in Int
      BY <1>0, LogFacts
  <2>2. PICK t \in Int : t = Top
      BY <2>1
  <2>3. /\ TrackedTo(t) => TrackedTo(t)'
        /\ TrackedTo(t - 1) => TrackedTo(t - 1)'
      BY <1>1
  <2>4. QED
      BY <2>1, <2>2, <2>3, <1>0 DEF TrackedTo
<1>3. \A n \in Nat : Passed(n)' => Settled(n)'
    BY <1>0, PassedOn DEF Quiet, Kept, Onward
<1>4. auto'.have => TrackedTo(auto.cursor)'
    BY <1>0, <1>1 DEF Kept, Quiet, TypeOK
<1>5. \A c \in cursors' : TrackedTo(c.cursor)'
  <2>1. \A c \in cursors : c.cursor \in Int
      BY DEF Steady, Ordered, Entry
  <2>2. QED
      BY <1>1, <2>1 DEF Kept, Quiet
<1>6. pc' = "reset" => \A n \in Nat : Owed(n)' /\ n <= Top => Settled(n)'
    BY <1>0, SettledLater DEF Kept, Quiet, Owed, Onward
<1>7. pc' \in {"again", "wait", "write", "skip"} => TrackedTo(Top)'
  <2>1. pc' \in {"again", "wait", "write", "skip"} => TrackedTo(Top)
      BY DEF Kept, Quiet
  <2>2. QED
      BY <2>1, <1>2
<1>8. pc' = "loop" => TrackedTo(Top)' \/ stopping' \/ ~is_open'
  <2>1. pc' = "loop" => TrackedTo(Top) \/ stopping' \/ ~is_open'
      BY DEF Kept, Quiet, Steady, TypeOK
  <2>2. QED
      BY <2>1, <1>2
<1>9. pc' \in {"got", "add"} => TrackedTo(Top - 1)'
  <2>1. pc' \in {"got", "add"} => TrackedTo(Top - 1)
      BY DEF Kept, Quiet
  <2>2. QED
      BY <2>1, <1>2
<1>10. owed' # 0 /\ pc' \in {"reset", "loop", "again", "wait"} => Top # AtEnd
  <2>1. CASE pc \in {"got"}
      BY <2>1, <1>2 DEF Steady, Places, Holding, AtEnd
  <2>2. CASE pc # "got"
      BY <2>2 DEF Kept, Quiet
  <2>3. QED
      BY <2>1, <2>2
<1>11. QED
    BY <1>0, <1>3, <1>4, <1>5, <1>6, <1>7, <1>8, <1>9, <1>10, SMTT(20) DEF Kept, TrackedTo

LEMMA QuietInv ==
    ASSUME Inv, Quiet, Places'
    PROVE  Inv'
<1>0. Steady /\ TypeOK
    BY DEF Inv, Steady
<1>1. TypeOK'
  <2>1. pc' \in Pcs
      BY <1>0 DEF Quiet, TypeOK, Pcs
  <2>2. file' \in Int /\ file' < next' /\ cursor < next'
      BY <1>0 DEF Quiet, TypeOK
  <2>. Top' = Top /\ Top < next' /\ oldest' \in Nat \ {0} /\ next' \in Nat \ {0}
      BY <1>0, LogFacts DEF Quiet, TypeOK, Top
  <2>3. QED
      BY <1>0, <2>1, <2>2 DEF Quiet, TypeOK, Top, Ids
<1>2. Unowed'
    BY <1>0 DEF Steady, Unowed, Quiet, Holding
<1>3. Ordered'
    BY <1>0, OrderedStays DEF Steady, Quiet, TypeOK
<1>4. Reached'
    BY <1>0, ReachedStays DEF Steady, Quiet, Running
<1>5. Forward'
  <2>1. Top' = Top
      BY DEF Quiet, Top
  <2>2. QED
      BY <1>0, <2>1 DEF Steady, Forward, Quiet, Running
<1>6. InOrder'
  <2>1. Later
    <3>1. oldest' \in Nat \ {0} /\ oldest <= oldest'
        BY <1>0 DEF Quiet, TypeOK
    <3>2. QED
        BY <3>1 DEF Quiet, Later
  <2>2. \A c \in cursors : c.cursor \in Int
      BY <1>0 DEF Steady, Ordered, Entry
  <2>3. \/ pc' = pc
        \/ pc' \in {"connect", "begin", "reset", "final", "join", "stopped"}
        \/ pc = "got" /\ pc' = "add"
        \/ pc \in Running \ {"write"} /\ pc' \in {"loop", "again", "wait"}
      BY DEF Quiet, Running
  <2>4. QED
      BY <1>0, <2>1, <2>2, <2>3, InOrderStays DEF Quiet, Steady
<1>7. jumped' \/ Kept'
    BY <1>0, QuietKept DEF Inv, Quiet
<1>8. QED
    BY <1>1, <1>2, <1>3, <1>4, <1>5, <1>6, <1>7 DEF Inv, Steady

\* The actions of these steps.
QuietAction ==
    \/ GetWait \/ GetTimeout \/ Discard \/ Accept \/ AckTimeout
    \/ (WriteEvent /\ pc' = "final")
    \/ Leave \/ CloseWriter \/ JoinThreads \/ OnStop
    \/ ConnectionLost \/ CloseAckQueue \/ WriteCursor \/ StopOutput \/ OnStopping
    \/ QueuePut \/ QueueDrop
    \/ UNCHANGED ovars

LEMMA QuietSteps ==
    ASSUME Inv, QuietAction
    PROVE  Inv'
<1> USE DEF Goto, log, vars, stop, ackq, cw, link, ghosts
<1>0. TypeOK /\ Places
    BY DEF Inv, Steady
<1>f. /\ me \in Getters /\ Getters = {me} /\ awaits[me] \in Nat /\ Top \in Int /\ Top >= AtEnd /\ Top < next
      /\ awaits \in [Getters -> Nat] /\ next \in Nat \ {0} /\ oldest \in Nat /\ AtEnd = -1 /\ Overtaken = -2
      /\ next <= Len(events) + 1
    BY <1>0, LogFacts DEF TypeOK, AtEnd, Overtaken
<1>t. /\ reader \in {"off", "read", "auto", "close", "end"}
      /\ is_open \in BOOLEAN /\ stopping \in BOOLEAN
    BY <1>0 DEF TypeOK
<1>1. CASE GetWait
  <2>1. /\ awaits' = [awaits EXCEPT ![me] = next] /\ pc' = "wait" /\ Due(me) = next
        /\ UNCHANGED <<oldest, next, at>>
      BY <1>1 DEF GetWait, Await
  <2>2. awaits' \in [Getters -> Nat] /\ awaits'[me] = next
      BY <2>1, <1>f
  <2>3. Top # AtEnd => \A n \in Nat : Top < n /\ n < next => n < oldest
      BY <2>1, <1>f DEF Due, Top
  <2>4. Places'
      BY <1>0, <1>f, <2>1, <2>2, <2>3, <1>1 DEF Places, GetWait, Top, Getting, Holding
  <2>5. Quiet
      BY <2>1, <2>2, <1>1, <1>t, <1>f DEF Quiet, GetWait, Getting
  <2>6. QED
      BY <2>4, <2>5, QuietInv
<1>2. CASE GetTimeout
  <2>1. /\ awaits' = [awaits EXCEPT ![me] = 0] /\ pc = "wait" /\ pc' = "again"
        /\ UNCHANGED <<oldest, next, at>>
      BY <1>2 DEF GetTimeout, GiveUp
  <2>2. awaits' \in [Getters -> Nat] /\ awaits'[me] = 0
      BY <2>1, <1>f
  <2>3. Places'
      BY <1>0, <1>f, <2>1, <2>2, <1>2 DEF Places, GetTimeout, Holding
  <2>4. Quiet
      BY <2>1, <2>2, <1>2, <1>t, <1>f DEF Quiet, GetTimeout
  <2>5. QED
      BY <2>3, <2>4, QuietInv
<1>3. CASE Discard
  <2>1. Places'
      BY <1>0, <1>3 DEF Places, Discard, Holding, Top
  <2>2. Quiet
      BY <1>3, <1>t, <1>f DEF Quiet, Discard
  <2>3. QED
      BY <2>1, <2>2, QuietInv
<1>4. CASE Accept
  <2>1. Places'
      BY <1>0, <1>4 DEF Places, Accept, Holding, Top
  <2>2. Quiet
      BY <1>4, <1>t, <1>f DEF Quiet, Accept
  <2>3. QED
      BY <2>1, <2>2, QuietInv
<1>5. CASE AckTimeout
  <2>1. Places'
      BY <1>0, <1>5 DEF Places, AckTimeout, Holding, Top
  <2>2. Quiet
      BY <1>5, <1>t, <1>f DEF Quiet, AckTimeout
  <2>3. QED
      BY <2>1, <2>2, QuietInv
<1>6. CASE WriteEvent /\ pc' = "final"
  <2>1. UNCHANGED <<wire, log, reader, stop, ackq, cw, is_open, peer, acks, losses, ghosts>> /\ pc = "write"
      BY <1>6 DEF WriteEvent
  <2>2. Places'
      BY <1>0, <1>6, <2>1 DEF Places, Holding, Top
  <2>3. Quiet
      BY <1>6, <2>1, <1>t, <1>f DEF Quiet
  <2>4. QED
      BY <2>2, <2>3, QuietInv
<1>7. CASE Leave
  <2>1. Places'
      BY <1>0, <1>7 DEF Places, Leave, Holding, Top
  <2>2. Quiet
      BY <1>7, <1>t, <1>f DEF Quiet, Leave
  <2>3. QED
      BY <2>1, <2>2, QuietInv
<1>8. CASE CloseWriter
  <2>1. Places'
      BY <1>0, <1>8 DEF Places, CloseWriter, Holding, Top
  <2>2. Quiet
      BY <1>8, <1>t, <1>f DEF Quiet, CloseWriter
  <2>3. QED
      BY <2>1, <2>2, QuietInv
<1>9. CASE JoinThreads
  <2>1. Places'
      BY <1>0, <1>9 DEF Places, JoinThreads, Holding, Top
  <2>2. Quiet
      BY <1>9, <1>t, <1>f DEF Quiet, JoinThreads
  <2>3. QED
      BY <2>1, <2>2, QuietInv
<1>10. CASE OnStop
  <2>1. Places'
      BY <1>0, <1>10 DEF Places, OnStop, Holding, Top
  <2>2. Quiet
      BY <1>10, <1>t, <1>f DEF Quiet, OnStop
  <2>3. QED
      BY <2>1, <2>2, QuietInv
<1>11. CASE ConnectionLost
  <2>1. Places'
      BY <1>0, <1>11 DEF Places, ConnectionLost, Holding, Top
  <2>2. Quiet
      BY <1>11, <1>t, <1>f DEF Quiet, ConnectionLost
  <2>3. QED
      BY <2>1, <2>2, QuietInv
<1>12. CASE CloseAckQueue
  <2>1. Places'
      BY <1>0, <1>12 DEF Places, CloseAckQueue, Holding, Top
  <2>2. Quiet
      BY <1>12, <1>t, <1>f DEF Quiet, CloseAckQueue
  <2>3. QED
      BY <2>1, <2>2, QuietInv
<1>13. CASE WriteCursor
  <2>1. Places'
      BY <1>0, <1>13 DEF Places, WriteCursor, Holding, Top
  <2>2. Quiet
      BY <1>13, <1>t, <1>f DEF Quiet, WriteCursor
  <2>3. QED
      BY <2>1, <2>2, QuietInv
<1>14. CASE StopOutput
  <2>1. Places'
      BY <1>0, <1>14 DEF Places, StopOutput, Holding, Top
  <2>2. Quiet
      BY <1>14, <1>t, <1>f DEF Quiet, StopOutput
  <2>3. QED
      BY <2>1, <2>2, QuietInv
<1>15. CASE OnStopping
  <2>1. /\ UNCHANGED <<events, reader, stopping, stops, ids, cursors, next_seq, auto, cw, link, ghosts,
                       oldest, next, at>>
        /\ \/ pc = "wait" /\ pc' = "loop" /\ awaits' = [awaits EXCEPT ![me] = 0]
           \/ pc' = pc /\ awaits' = awaits
      BY <1>15 DEF OnStopping, GiveUp
  <2>2. /\ awaits' \in [Getters -> Nat]
        /\ \/ pc = "wait" /\ pc' = "loop" /\ awaits'[me] = 0
           \/ pc' = pc /\ awaits' = awaits
      BY <2>1, <1>f
  <2>3. Places'
      BY <1>0, <2>1, <2>2 DEF Places, Holding, Top
  <2>4. Quiet
      BY <2>1, <2>2, <1>t, <1>f DEF Quiet
  <2>5. QED
      BY <2>3, <2>4, QuietInv
<1>16. CASE UNCHANGED ovars
  <2>1. Places'
      BY <1>0, <1>16 DEF Places, ovars, Holding, Top
  <2>2. Quiet
      BY <1>16, <1>t, <1>f DEF Quiet, ovars
  <2>3. QED
      BY <2>1, <2>2, QuietInv
<1>17. CASE QueuePut
  <2>1. /\ next' = next + 1 /\ next <= Len(events) /\ Len(events) \in Nat
        /\ UNCHANGED <<oldest, at, awaits, events, pc, reader, stop, ackq, cw, link, ghosts>>
      BY <1>0, <1>17, LogFacts DEF QueuePut, PutEvent
  <2>2. Places'
      BY <1>0, <1>f, <2>1 DEF Places, Holding, Top
  <2>3. Quiet
      BY <2>1, <1>t, <1>f DEF Quiet
  <2>4. QED
      BY <2>2, <2>3, QuietInv
<1>18. CASE QueueDrop
  <2>1. /\ oldest' = oldest + 1
        /\ UNCHANGED <<next, at, awaits, events, pc, reader, stop, ackq, cw, link, ghosts>>
      BY <1>18 DEF QueueDrop, Drop
  <2>2. Places'
      BY <1>0, <1>f, <2>1 DEF Places, Holding, Top
  <2>3. Quiet
      BY <2>1, <1>t, <1>f DEF Quiet
  <2>4. QED
      BY <2>2, <2>3, QuietInv
<1>19. QED
    BY <1>1, <1>2, <1>3, <1>4, <1>5, <1>6, <1>7, <1>8, <1>9, <1>10, <1>11, <1>12, <1>13, <1>14, <1>15,
       <1>16, <1>17, <1>18 DEF QuietAction

-----------------------------------------------------------------------------
(* A connection begins, a restart *)

LEMMA ConnectInv ==
    ASSUME Inv, Connect
    PROVE  Inv'
<1> USE DEF Goto, log, vars, stop, ackq, cw, ghosts
<1>0. Steady /\ TypeOK /\ Places /\ pc = "connect" /\ pc' = "begin" /\ reader' = "off"
    BY DEF Inv, Steady, Connect, Places
<1>a. /\ wire' = <<>> /\ acks' = <<>> /\ is_open' = TRUE /\ peer' = TRUE
      /\ UNCHANGED <<log, reader, stopping, stops, ackq, cw, losses, ghosts>>
    BY DEF Connect
<1>1. TypeOK'
    BY <1>0, <1>a DEF TypeOK, Top, Ids, Pcs
<1>2. Places'
    BY <1>0, <1>a DEF Places, Top, Holding
<1>3. Unowed'
    BY <1>0, <1>a DEF Steady, Unowed, Holding
<1>4. Ordered'
    BY <1>0, <1>a, OrderedStays DEF Steady, TypeOK
<1>5. Reached' /\ Forward'
    BY <1>0, <1>a DEF Reached, Forward, Running, Holding
<1>6. InOrder'
    BY <1>0, <1>a DEF InOrder, Running
<1>7. jumped' \/ Kept'
  <2>1. CASE Kept
    <3>2. \A n \in Nat : /\ Settled(n) => Settled(n)'
                         /\ Passed(n)' => Passed(n)
                         /\ Owed(n)' => Owed(n)
        BY <1>a DEF Settled, Passed, Owed
    <3>3. \A n \in Nat : Tracked(n) => Tracked(n)'
        BY <3>2, <1>a DEF Tracked
    <3>4. \A b : TrackedTo(b) => TrackedTo(b)'
        BY <3>2, <3>3 DEF TrackedTo
    <3>5. auto'.have => TrackedTo(auto.cursor)'
        BY <3>4, <2>1, <1>a DEF Kept
    <3>6. \A c \in cursors : TrackedTo(c.cursor)'
        BY <3>4, <2>1, <1>a DEF Kept
    <3>7. QED
        BY <3>2, <3>5, <3>6, <2>1, <1>0, <1>a DEF Kept, TrackedTo
  <2>2. QED
      BY <2>1, <1>a DEF Inv
<1>8. QED
    BY <1>1, <1>2, <1>3, <1>4, <1>5, <1>6, <1>7 DEF Inv, Steady

LEMMA BeginInv ==
    ASSUME Inv, Begin
    PROVE  Inv'
<1> USE DEF Goto, log, vars, stop, ackq, cw, link
<1>0. Steady /\ TypeOK /\ Places /\ pc = "begin" /\ pc' = "reset" /\ reader' = "read"
    BY DEF Inv, Steady, Begin
<1>a. /\ jumped' = (jumped \/ (cursor = AtEnd /\ owed # 0))
      /\ UNCHANGED <<oldest, next, awaits, events, stop, ackq, updated, cursor, file, link,
                     received, owed>>
      /\ at' = [at EXCEPT ![me] = cursor]
    BY DEF Begin
<1>b. Top' = cursor /\ at' \in [Getters -> Int]
    BY <1>a, <1>0, LogFacts DEF TypeOK, Top
<1>1. TypeOK'
    BY <1>0, <1>a, <1>b DEF TypeOK, Ids, Pcs
<1>2. Places'
    BY <1>0, <1>a DEF Places, Holding
<1>3. Unowed'
    BY <1>0, <1>a DEF Steady, Unowed, Holding
<1>4. Ordered'
    BY <1>0, <1>a, OrderedStays DEF Steady, TypeOK
<1>5. Reached' /\ Forward'
    BY <1>0, <1>a, <1>b DEF Reached, Forward, Running, Holding, TypeOK
<1>6. InOrder'
    BY <1>0, <1>a DEF Steady, InOrder, Running, Places
<1>7. jumped' \/ Kept'
  <2>1. CASE Kept /\ ~jumped'
    <3>2. \A n \in Nat : /\ Settled(n) => Settled(n)'
                         /\ Passed(n)' => Passed(n)
                         /\ Owed(n)' => Owed(n)
        BY <1>a DEF Settled, Passed, Owed
    <3>3. \A n \in Nat : Tracked(n) => Tracked(n)'
        BY <3>2, <1>a DEF Tracked
    <3>4. \A b : TrackedTo(b) => TrackedTo(b)'
        BY <3>2, <3>3 DEF TrackedTo
    <3>5. auto'.have => TrackedTo(auto.cursor)'
        BY <3>4, <2>1, <1>a DEF Kept
    <3>6. \A c \in cursors : TrackedTo(c.cursor)'
        BY <3>4, <2>1, <1>a DEF Kept
    <3>7. \A n \in Nat : Owed(n)' /\ n <= Top' => Settled(n)'
        BY <3>2, <2>1, <1>b DEF Kept, Owed, Passed
    <3>8. owed' # 0 => Top' # AtEnd
        BY <2>1, <1>a, <1>b
    <3>9. QED
        BY <3>2, <3>5, <3>6, <3>7, <3>8, <2>1, <1>0, <1>a DEF Kept, TrackedTo
  <2>2. QED
      BY <2>1, <1>a DEF Inv
<1>8. QED
    BY <1>1, <1>2, <1>3, <1>4, <1>5, <1>6, <1>7 DEF Inv, Steady

LEMMA RestartInv ==
    ASSUME Inv, Restart
    PROVE  Inv'
<1> USE DEF Goto, log, vars, link, ghosts
<1>0. Steady /\ TypeOK /\ Places /\ pc = "stopped" /\ pc' = "connect" /\ reader' = "off" /\ reader = "off"
    BY DEF Inv, Steady, Restart, Places
<1>a. /\ UNCHANGED <<log, reader, file, link, ghosts>> /\ stopping' = FALSE
      /\ cursors' = {} /\ ids' = {} /\ auto' = NoAuto /\ next_seq' = 0
    BY DEF Restart, ResetAcks
<1>b. cursor' = cursor
  <2>1. cursor' = ReadCursor(file) /\ file = cursor /\ file >= -1
      BY <1>0 DEF Restart, Places, TypeOK, AtEnd
  <2>2. QED
      BY <2>1 DEF ReadCursor, NoFile
<1>1. TypeOK'
  <2>1. auto' \in [have : BOOLEAN, seq : Nat, cursor : Int]
      BY <1>a DEF NoAuto
  <2>2. Top' = Top /\ Ids' = Ids
      BY <1>a DEF Top, Ids
  <2>3. QED
      BY <1>0, <1>a, <1>b, <2>1, <2>2 DEF TypeOK, Pcs
<1>2. Places'
    BY <1>0, <1>a DEF Places, Holding, Top
<1>3. Unowed'
    BY <1>0, <1>a, <1>b DEF Steady, Unowed, Holding, NoAuto
<1>4. Ordered'
    BY <1>0, <1>a DEF Ordered, NoAuto
<1>5. Reached' /\ Forward'
    BY <1>0, <1>a DEF Reached, Forward, Running, Holding
<1>6. InOrder'
    BY <1>0, <1>a DEF InOrder, Running
<1>7. jumped' \/ Kept'
    BY <1>0, <1>a, <1>b DEF Inv, Kept, Passed, Settled, NoAuto
<1>8. QED
    BY <1>1, <1>2, <1>3, <1>4, <1>5, <1>6, <1>7 DEF Inv, Steady

LEMMA ResetAckQueueInv ==
    ASSUME Inv, ResetAckQueue
    PROVE  Inv'
<1> USE DEF Goto, log, vars, link, ghosts, stop, cw
<1>0. Steady /\ TypeOK /\ Places /\ pc = "reset" /\ pc' = "loop" /\ wire = <<>> /\ acks = <<>>
    BY DEF Inv, Steady, ResetAckQueue, Places
<1>a. /\ UNCHANGED <<log, reader, stop, cw, link, ghosts>>
      /\ cursors' = {} /\ ids' = {} /\ auto' = NoAuto /\ next_seq' = 0
    BY DEF ResetAckQueue, ResetAcks
<1>1. TypeOK'
    BY <1>0, <1>a DEF TypeOK, Ids, Pcs, Top, NoAuto
<1>2. Places'
    BY <1>0, <1>a DEF Places, Holding, Top
<1>3. Unowed'
    BY <1>0, <1>a DEF Steady, Unowed, Holding, NoAuto
<1>4. Ordered'
    BY <1>0, <1>a DEF Ordered, NoAuto
<1>5. Reached' /\ Forward'
    BY <1>0, <1>a DEF Steady, Reached, Forward, Running, Holding, NoAuto, AckedBelow, Top
<1>6. InOrder'
    BY <1>0, <1>a DEF InOrder, Running
<1>7. jumped' \/ Kept'
  <2>1. CASE Kept
    <3>1. \A n \in Nat : Owed(n)' /\ n <= Top' => Settled(n)'
        BY <2>1, <1>0, <1>a DEF Kept, Owed, Top, Settled
    <3>2. TrackedTo(Top)'
        BY <3>1 DEF TrackedTo, Tracked
    <3>3. QED
        BY <3>2, <2>1, <1>0, <1>a DEF Kept, NoAuto, Passed, Settled, Top
  <2>2. QED
      BY <2>1, <1>a DEF Inv
<1>8. QED
    BY <1>1, <1>2, <1>3, <1>4, <1>5, <1>6, <1>7 DEF Inv, Steady

-----------------------------------------------------------------------------
(* The output takes an event *)

\* What Get takes is the next event that is still kept.
Taken(n) ==
    /\ pc \in {"loop", "again", "wait"} /\ (pc = "loop" => ~stopping /\ is_open)
    /\ Top < n /\ 1 <= n /\ n < next
    /\ Top # AtEnd => \A k \in Nat : Top < k /\ k < n => k < oldest
    /\ at' = [at EXCEPT ![me] = n]
    /\ awaits' \in [Getters -> Nat] /\ awaits'[me] = 0
    /\ UNCHANGED <<oldest, next>>
    /\ Take

LEMMA TakenInv ==
    ASSUME Inv, NEW n \in Nat, Taken(n)
    PROVE  Inv'
<1> USE DEF Goto, stop, ackq, cw, link
<1>0. Steady /\ TypeOK /\ Places /\ pc \in {"loop", "again", "wait"} /\ pc' = "got"
    BY DEF Inv, Steady, Taken, Take
<1>a. /\ UNCHANGED <<oldest, next, events, reader, stop, ackq, cw, link, received, jumped>>
      /\ at' = [at EXCEPT ![me] = n]
      /\ owed' = IF owed = 0 THEN at'[me] ELSE owed
    BY DEF Taken, Take
<1>b. Top' = n /\ at' \in [Getters -> Int] /\ AtEnd = -1
    BY <1>a, <1>0, LogFacts DEF TypeOK, Top
<1>c. Top \in Int /\ Top < n /\ 1 <= n /\ n < next
    BY <1>0, LogFacts DEF Taken
<1>o. owed' = IF owed = 0 THEN n ELSE owed
    BY <1>a, <1>b DEF Top
<1>1. TypeOK'
    BY <1>0, <1>a, <1>b, <1>c, <1>o DEF TypeOK, Ids, Pcs, Taken
<1>2. Places'
    BY <1>0, <1>a, <1>b, <1>c DEF Places, Holding, Taken
<1>3. Unowed'
    BY <1>c, <1>o, <1>0 DEF Unowed, TypeOK
<1>4. Ordered'
    BY <1>0, <1>a, OrderedStays DEF Steady, TypeOK
<1>5. Reached'
  <2>1. /\ \A c \in cursors : c.cursor <= Top /\ c.cursor \in Int
        /\ auto.have => auto.cursor <= Top
        /\ \A i \in 1..Len(wire) : wire[i] <= Top /\ wire[i] \in Int
        /\ AckedBelow(Top + 1)
      BY <1>0 DEF Steady, Reached, Running, Ordered, Entry, TypeOK
  <2>2. /\ \A c \in cursors : c.cursor < n
        /\ auto.have => auto.cursor < n
        /\ \A i \in 1..Len(wire) : wire[i] < n
      BY <2>1, <1>c, <1>0 DEF TypeOK
  <2>3. AckedBelow(n)' /\ AckedBelow(n + 1)'
    <3>1. \A m : m \in 1..((Top + 1) - 1) => m \in 1..(n - 1) /\ m \in 1..((n + 1) - 1)
        BY <1>c
    <3>2. QED
        BY <3>1, <2>1, <1>a DEF AckedBelow
  <2>4. AckedBelow(Top)' /\ AckedBelow(Top + 1)'
      BY <2>3, <1>b DEF AckedBelow
  <2>5. /\ \A c \in cursors : c.cursor < n /\ c.cursor <= n
        /\ auto.have => auto.cursor < n /\ auto.cursor <= n
        /\ \A i \in 1..Len(wire) : wire[i] < n /\ wire[i] <= n
      BY <2>1, <2>2, <1>0 DEF TypeOK
  <2>6. QED
      BY <2>4, <2>5, <1>a, <1>b, <1>0 DEF Reached
<1>6. Forward'
    BY <1>0, <1>a, <1>b, <1>c DEF Steady, Forward, Running, TypeOK
<1>7. InOrder'
    BY <1>0, <1>a DEF Steady, InOrder, Running, Settled
<1>8. jumped' \/ Kept'
  <2>1. CASE Kept
    <3>1. \A k \in Nat : Settled(k) => Settled(k)'
        BY <1>a DEF Settled
    <3>2. \A k \in Nat : Tracked(k) => Tracked(k)'
        BY <3>1, <1>a DEF Tracked
    <3>3. CASE owed = 0
      <4>1. owed' = n /\ ~auto.have /\ cursors = {} /\ cursor <= 0 /\ file <= 0
          BY <3>3, <1>o, <1>0 DEF Steady, Unowed
      <4>2. \A k \in Nat : ~Passed(k)'
          BY <4>1, <1>c, <1>a, <1>0 DEF Passed, TypeOK
      <4>3. TrackedTo(Top - 1)'
          BY <4>1, <1>b DEF TrackedTo, Owed
      <4>4. QED
          BY <4>1, <4>2, <4>3, <1>0, <1>a DEF Kept
    <3>4. CASE owed # 0
      <4>1. owed' = owed
          BY <3>4, <1>o
      <4>2. \A b : TrackedTo(b) => TrackedTo(b)'
          BY <4>1, <3>2 DEF TrackedTo, Owed
      <4>3. \A k \in Nat : Passed(k)' => Settled(k)'
          BY <4>1, <3>1, <2>1, <1>a DEF Passed, Kept
      <4>4. auto.have => TrackedTo(auto.cursor)'
          BY <4>2, <2>1, <1>a DEF Kept
      <4>5. \A c \in cursors : TrackedTo(c.cursor)'
          BY <4>2, <2>1, <1>a DEF Kept
      <4>6. TrackedTo(Top) /\ Top # AtEnd
          BY <2>1, <3>4, <1>0 DEF Kept, Taken
      <4>7. ASSUME NEW k \in Nat, Owed(k)', k <= n - 1
            PROVE  Tracked(k)'
        <5>1. CASE k <= Top
            BY <5>1, <4>6, <4>7, <4>1, <3>2 DEF TrackedTo, Owed
        <5>2. CASE Top < k
          <6>1. k < oldest
              BY <5>2, <4>6, <4>7 DEF Taken
          <6>2. QED
              BY <6>1, <1>a DEF Tracked, Settled
        <5>3. QED
            BY <5>1, <5>2, <1>c
      <4>8. TrackedTo(Top - 1)'
          BY <4>7, <1>b DEF TrackedTo
      <4>9. QED
          BY <4>3, <4>4, <4>5, <4>8, <1>0, <1>a DEF Kept, TrackedTo
    <3>5. QED
        BY <3>3, <3>4
  <2>2. QED
      BY <2>1, <1>a DEF Inv
<1>9. QED
    BY <1>1, <1>2, <1>3, <1>4, <1>5, <1>6, <1>7, <1>8 DEF Inv, Steady

LEMMA GetInv ==
    ASSUME InTime, Inv, GetNow \/ GetWake
    PROVE  Inv'
<1>0. TypeOK /\ Places
    BY DEF Inv, Steady
<1>f. /\ Top \in Int /\ AtEnd <= Top /\ next \in Nat /\ oldest \in Nat \ {0} /\ AtEnd = -1
      /\ me \in Getters /\ awaits \in [Getters -> Nat] /\ at \in [Getters -> Int]
    BY <1>0, LogFacts DEF TypeOK
<1>1. CASE GetNow
  <2>1. /\ Getting /\ awaits[me] = 0 /\ Due(me) < next
        /\ at' = [at EXCEPT ![me] = Due(me)] /\ UNCHANGED <<oldest, next, awaits>> /\ Take
      BY <1>1 DEF GetNow, Read
  <2>2. Due(me) = IF Top = AtEnd THEN next ELSE IF Top + 1 < oldest THEN oldest ELSE Top + 1
      BY DEF Due, Top
  <2>3. /\ Due(me) \in Nat /\ Top < Due(me) /\ 1 <= Due(me)
        /\ \A k \in Nat : Top < k /\ k < Due(me) => k < oldest
      BY <2>1, <2>2, <1>f
  <2>4. Taken(Due(me))
      BY <2>1, <2>3, <1>f DEF Taken, Getting
  <2>5. QED
      BY <2>3, <2>4, TakenInv
<1>2. CASE GetWake
  <2>1. /\ pc = "wait" /\ awaits[me] < next
        /\ at' = [at EXCEPT ![me] = awaits[me]] \/ next - awaits[me] > Slack
        /\ awaits' = [awaits EXCEPT ![me] = 0] /\ UNCHANGED <<oldest, next>> /\ Take
      BY <1>2 DEF GetWake, Awake
  <2>2. /\ awaits[me] \in Nat /\ 1 <= awaits[me] /\ Top < awaits[me]
        /\ Top # AtEnd => \A k \in Nat : Top < k /\ k < awaits[me] => k < oldest
      BY <2>1, <1>0, <1>f DEF Places
  <2>3. ~(next - awaits[me] > Slack)
    <3>1. /\ Len(events) <= Slack /\ Len(events) \in Nat /\ next <= Len(events) + 1
          /\ Len(events) \in Int
        BY <1>0, LogFacts DEF InTime, TypeOK
    <3>2. Slack \in Nat
        BY DEF InTime
    <3>3. QED
        BY <3>1, <3>2, <2>2, <1>f
  <2>4. awaits' \in [Getters -> Nat] /\ awaits'[me] = 0
      BY <2>1, <1>f
  <2>5. Taken(awaits[me])
      BY <2>1, <2>2, <2>3, <2>4 DEF Taken
  <2>6. QED
      BY <2>2, <2>5, TakenInv
<1>3. QED
    BY <1>1, <1>2

-----------------------------------------------------------------------------
(* The output sends the event in hand, or leaves it out *)

\* The id tells the event.
LEMMA SameEvent ==
    ASSUME IdsDiffer, TypeOK, NEW m \in 1..(next - 1), NEW n \in 1..(next - 1), events[m].id = events[n].id
    PROVE  m = n
<1>1. events \in Logs /\ m \in DOMAIN events /\ n \in DOMAIN events
    BY LogFacts DEF TypeOK
<1>2. QED
    BY <1>1 DEF IdsDiffer

\* The AckQueue has an event once.
LEMMA OneEntry ==
    ASSUME IdsDiffer, TypeOK, Ordered, NEW c \in cursors, NEW d \in cursors, c.id = d.id
    PROVE  c = d
<1>1. Entry(c) /\ Entry(d)
    BY DEF Ordered
<1>2. c.cursor = d.cursor
    BY <1>1, SameEvent DEF Entry
<1>3. c.seq = d.seq
    BY <1>1, <1>2 DEF Ordered, Entry
<1>4. QED
    BY <1>3 DEF Ordered

LEMMA AutoSetInv ==
    ASSUME Inv, Filter \/ SkipNotSent
    PROVE  Inv'
<1> USE DEF Goto, log, vars, stop, cw, link, ghosts
<1>0. /\ Steady /\ TypeOK /\ Places /\ pc \in {"got", "skip"} /\ pc' = "loop"
      /\ pc = "got" => Event.kind = "filter"
    BY DEF Inv, Steady, Filter, SkipNotSent
<1>a. /\ UNCHANGED <<log, reader, stop, cw, link, ghosts, ids, cursors>>
      /\ auto' = [have |-> TRUE, seq |-> next_seq, cursor |-> Top] /\ next_seq' = next_seq + 1
    BY DEF Filter, SkipNotSent, SetAutoCursor, Top
<1>b. /\ Top' = Top /\ Top \in 1..(next - 1) /\ next_seq \in Nat
      /\ auto' \in [have : BOOLEAN, seq : Nat, cursor : Int] /\ owed # 0
    BY <1>a, <1>0, LogFacts DEF Top, Places, Holding, TypeOK, Steady, Unowed
<1>e. /\ auto'.have = TRUE /\ auto'.seq = next_seq /\ auto'.cursor = Top
    BY <1>a
<1>c. /\ \A c \in cursors : c.cursor < Top /\ c.cursor <= Top /\ Entry(c)
      /\ \A i \in 1..Len(wire) : wire[i] <= Top
  <2>1. /\ \A c \in cursors : c.cursor < Top /\ Entry(c)
        /\ \A i \in 1..Len(wire) : wire[i] <= Top
      BY <1>0 DEF Steady, Reached, Running, Ordered
  <2>2. QED
      BY <2>1, <1>b DEF Entry
<1>1. TypeOK'
    BY <1>0, <1>a, <1>b DEF TypeOK, Ids, Pcs
<1>2. Places'
    BY <1>0, <1>a, <1>b DEF Places, Holding
<1>3. Unowed'
    BY <1>a, <1>b DEF Unowed
<1>4. Ordered'
  <2>1. \A c \in cursors : Entry(c)' /\ c.seq < next_seq
      BY <1>c, <1>a, <1>b DEF Entry
  <2>2. QED
      BY <2>1, <1>c, <1>0, <1>a, <1>b, <1>e DEF Steady, Ordered
<1>5. Reached'
  <2>1. AckedBelow(Top + 1)'
      BY <1>0, <1>a, <1>b DEF Steady, Reached, Running, AckedBelow
  <2>2. QED
      BY <2>1, <1>c, <1>a, <1>b, <1>e, <1>0 DEF Reached, Running, Holding
<1>6. Forward'
    BY <1>0, <1>a, <1>b DEF Steady, Forward, Running
<1>7. InOrder'
    BY <1>0, <1>a, <1>b DEF Steady, InOrder, Running, Settled
<1>8. jumped' \/ Kept'
  <2>1. CASE Kept
    <3>1. /\ \A k \in Nat : (Settled(k)' <=> Settled(k)) /\ (Passed(k)' <=> Passed(k))
          /\ \A b : TrackedTo(b) => TrackedTo(b)'
        BY <1>a DEF Settled, Passed, TrackedTo, Tracked, Owed
    <3>2. TrackedTo(Top)
      <4>1. CASE pc = "skip"
          BY <4>1, <2>1 DEF Kept
      <4>2. CASE pc = "got"
        <5>1. Settled(Top)
            BY <4>2, <1>0 DEF Settled, Event, Top
        <5>2. \A k \in Nat : k <= Top => k <= Top - 1 \/ k = Top
            BY <1>b
        <5>3. QED
            BY <5>1, <5>2, <4>2, <2>1 DEF Kept, TrackedTo, Tracked
      <4>3. QED
          BY <4>1, <4>2, <1>0
    <3>3. TrackedTo(Top)'
        BY <3>1, <3>2, <1>b DEF TrackedTo
    <3>4. TrackedTo(auto.cursor)'
        BY <3>3, <1>b, <1>e DEF TrackedTo
    <3>5. \A c \in cursors' : TrackedTo(c.cursor)'
        BY <3>1, <2>1, <1>a DEF Kept
    <3>6. Top' # AtEnd
        BY <1>b DEF AtEnd
    <3>7. QED
        BY <3>1, <3>3, <3>4, <3>5, <3>6, <2>1, <1>0 DEF Kept
  <2>2. QED
      BY <2>1, <1>a DEF Inv
<1>9. QED
    BY <1>1, <1>2, <1>3, <1>4, <1>5, <1>6, <1>7, <1>8 DEF Inv, Steady

LEMMA AddAckInv ==
    ASSUME IdsDiffer, Inv, AddAck
    PROVE  Inv'
<1> USE DEF Goto, log, vars, stop, cw, link, ghosts
<1>0. /\ Steady /\ TypeOK /\ Places /\ Ordered /\ pc = "add" /\ pc' = "write"
    BY DEF Inv, Steady, AddAck
<1>b. Top \in 1..(next - 1) /\ next_seq \in Nat /\ owed # 0
    BY <1>0, LogFacts DEF Top, Places, Holding, TypeOK, Steady, Unowed
<1>c. /\ \A c \in cursors : c.cursor < Top /\ Entry(c)
      /\ auto.have => auto.cursor < Top /\ auto.seq < next_seq
      /\ \A i \in 1..Len(wire) : wire[i] < Top
      /\ AckedBelow(Top) /\ AckedBelow(Top + 1)
    BY <1>0 DEF Steady, Reached, Running, Holding, Ordered
<1>d. \A c \in cursors : c.id # Event.id
    BY <1>b, <1>c, <1>0, SameEvent DEF Entry, Event, Top
<1>k. \A e \in ids : e.id # Event.id
    BY <1>d, <1>0 DEF Ordered
<1>t. PICK new : new = [seq |-> next_seq, id |-> Event.id, cursor |-> Top]
    OBVIOUS
<1>e. PICK entry : entry = [id |-> Event.id, seq |-> next_seq]
    OBVIOUS
<1>n. /\ new.seq = next_seq /\ new.id = Event.id /\ new.cursor = Top
      /\ entry.seq = next_seq /\ entry.id = Event.id /\ Event.id = events[Top].id
    BY <1>t, <1>e DEF Event, Top
<1>a. /\ UNCHANGED <<log, reader, stop, cw, link, ghosts, auto, aclosed>>
      /\ ids' = ids \cup {entry} /\ cursors' = cursors \cup {new} /\ next_seq' = next_seq + 1
    BY <1>k, <1>t, <1>e DEF AddAck, Add, Top
<1>f. Top' = Top
    BY <1>a DEF Top
<1>1. TypeOK'
    BY <1>0, <1>a, <1>b, <1>f DEF TypeOK, Ids, Pcs
<1>2. Places'
    BY <1>0, <1>a, <1>f DEF Places, Holding
<1>3. Unowed'
    BY <1>a, <1>b DEF Unowed
<1>4. Ordered'
  <2>1. \A c \in cursors : Entry(c)' /\ c.seq < next_seq /\ c.cursor < Top /\ c.seq \in Nat /\ c.cursor \in Int
      BY <1>c, <1>a, <1>b DEF Entry
  <2>2. Entry(new)'
      BY <1>n, <1>a, <1>b DEF Entry
  <2>3. \A c \in cursors' : Entry(c)' /\ \E e \in ids' : e.seq = c.seq /\ e.id = c.id
      BY <2>1, <2>2, <1>n, <1>a, <1>0 DEF Ordered
  <2>4. \A e \in ids' : \E c \in cursors' : c.seq = e.seq /\ c.id = e.id
      BY <1>n, <1>a, <1>0 DEF Ordered
  <2>5. \A c, d \in cursors' : c.seq < d.seq => c.cursor < d.cursor
    <3>1. ASSUME NEW c \in cursors', NEW d \in cursors', c.seq < d.seq
          PROVE  c.cursor < d.cursor
      <4>1. CASE c \in cursors /\ d \in cursors
          BY <4>1, <3>1, <1>0 DEF Ordered
      <4>2. CASE c = new
          BY <4>2, <3>1, <2>1, <1>n, <1>a, <1>b
      <4>3. CASE c \in cursors /\ d = new
          BY <4>3, <2>1, <1>n
      <4>4. QED
          BY <4>1, <4>2, <4>3, <1>a
    <3>2. QED
        BY <3>1
  <2>6. \A c, d \in cursors' : c.seq = d.seq => c = d
    <3>1. ASSUME NEW c \in cursors', NEW d \in cursors', c.seq = d.seq
          PROVE  c = d
      <4>1. CASE c \in cursors /\ d \in cursors
          BY <4>1, <3>1, <1>0 DEF Ordered
      <4>2. CASE c = new \/ d = new
          BY <4>2, <3>1, <2>1, <1>n, <1>a, <1>b
      <4>3. QED
          BY <4>1, <4>2, <1>a
    <3>2. QED
        BY <3>1
  <2>7. auto.have => /\ auto.seq < next_seq' /\ auto.cursor \in 1..(next - 1)
                     /\ auto.seq < new.seq /\ auto.cursor < new.cursor
      BY <1>c, <1>b, <1>n, <1>a, <1>0 DEF Ordered, TypeOK
  <2>8. QED
      BY <2>3, <2>4, <2>5, <2>6, <2>7, <1>0, <1>a DEF Ordered
<1>5. Reached'
  <2>1. AckedBelow(Top)' /\ AckedBelow(Top + 1)'
      BY <1>c, <1>a, <1>f DEF AckedBelow
  <2>2. \A c \in cursors' : c.cursor <= Top
      BY <1>c, <1>a, <1>n, <1>b DEF Entry
  <2>3. (auto.have => auto.cursor <= Top) /\ \A i \in 1..Len(wire) : wire[i] <= Top
      BY <1>0 DEF Steady, Reached, Running
  <2>4. QED
      BY <2>1, <2>2, <2>3, <1>c, <1>a, <1>f, <1>0 DEF Reached
<1>6. Forward'
  <2>1. reader = "read" => cursor < Top /\ cursor <= Top /\ \A c \in cursors : cursor < c.cursor
      BY <1>0 DEF Steady, Forward, Running
  <2>2. QED
      BY <2>1, <1>0, <1>a, <1>f, <1>n DEF Forward
<1>7. InOrder'
  <2>0. \A k : Settled(k) <=> Settled(k)'
      BY <1>a DEF Settled
  <2>1. \A k \in 1..Len(acks) : acks[k] # new.id
    <3>1. ASSUME NEW k \in 1..Len(acks), acks[k] = new.id PROVE FALSE
      <4>1. PICK m \in 1..(Top - 1) : acks[k] = events[m].id
          BY <1>c, <3>1 DEF AckedBelow
      <4>2. m = Top
        <5>1. m \in 1..(next - 1)
            BY <4>1, <1>b, <1>0 DEF TypeOK
        <5>2. QED
            BY <5>1, <4>1, <3>1, <1>n, <1>b, <1>0, SameEvent
      <4>3. QED
          BY <4>1, <4>2, <1>b
    <3>2. QED
        BY <3>1
  <2>2. ASSUME NEW k \in 1..Len(acks), NEW c \in cursors', NEW d \in cursors',
               d.id = acks[k], c.cursor <= d.cursor
        PROVE  Settled(c.cursor)
    <3>1. d # new /\ d \in cursors
        BY <2>1, <2>2, <1>a
    <3>2. c # new /\ c \in cursors
        BY <3>1, <2>2, <1>c, <1>n, <1>a, <1>b DEF Entry
    <3>3. QED
        BY <3>1, <3>2, <2>2, <1>0 DEF Steady, InOrder
  <2>3. ASSUME NEW i \in 1..Len(wire), NEW c \in cursors', c.cursor < wire[i]
        PROVE  Settled(c.cursor) \/ \E j \in 1..(i - 1) : wire[j] = c.cursor
    <3>1. c # new
      <4>1. wire[i] < Top /\ wire[i] \in Int
          BY <1>c, <1>0 DEF TypeOK
      <4>2. QED
          BY <4>1, <2>3, <1>n, <1>b
    <3>2. QED
        BY <3>1, <2>3, <1>a, <1>0 DEF Steady, InOrder
  <2>4. peer => \A c \in cursors :
           Settled(c.cursor) \/ \E i \in 1..Len(wire) : wire[i] = c.cursor
      BY <1>0 DEF Steady, InOrder, Running
  <2>5. QED
      BY <2>0, <2>2, <2>3, <2>4, <1>a, <1>n, <1>f, <1>0 DEF InOrder
<1>8. jumped' \/ Kept'
  <2>1. CASE Kept
    <3>1. \A k \in Nat : /\ Settled(k)' <=> Settled(k)
                         /\ Passed(k)' <=> Passed(k)
                         /\ Owed(k)' <=> Owed(k)
        BY <1>a DEF Settled, Passed, Owed
    <3>2. \A k \in Nat : Tracked(k) => Tracked(k)'
        BY <3>1, <1>a DEF Tracked
    <3>3. \A b : TrackedTo(b) => TrackedTo(b)'
        BY <3>1, <3>2 DEF TrackedTo
    <3>4. TrackedTo(Top)'
      <4>1. \A k \in Nat : k <= Top => k <= Top - 1 \/ k = Top
          BY <1>b
      <4>2. TrackedTo(Top - 1)'
          BY <3>3, <2>1, <1>0, <1>f DEF Kept, TrackedTo
      <4>3. Tracked(Top)'
          BY <1>a, <1>n, <1>f DEF Tracked
      <4>4. QED
          BY <4>1, <4>2, <4>3, <1>f DEF TrackedTo
    <3>5. \A c \in cursors' : TrackedTo(c.cursor)'
        BY <3>3, <3>4, <2>1, <1>a, <1>n, <1>f DEF Kept, TrackedTo
    <3>6. auto'.have => TrackedTo(auto.cursor)'
        BY <3>3, <2>1, <1>a DEF Kept
    <3>7. QED
        BY <3>1, <3>4, <3>5, <3>6, <2>1, <1>0 DEF Kept
  <2>2. QED
      BY <2>1, <1>a DEF Inv
<1>9. QED
    BY <1>1, <1>2, <1>3, <1>4, <1>5, <1>6, <1>7, <1>8 DEF Inv, Steady

\* One more event on the wire, behind the others.
LEMMA WireGrows ==
    ASSUME NEW w, NEW S, w \in Seq(S), NEW n \in S
    PROVE  /\ Len(w \o <<n>>) = Len(w) + 1 /\ Len(w) \in Nat /\ w \o <<n>> \in Seq(S)
           /\ (w \o <<n>>)[Len(w) + 1] = n
           /\ \A i \in 1..Len(w) : (w \o <<n>>)[i] = w[i]
           /\ \A i \in 1..(Len(w) + 1) : i \in 1..Len(w) \/ i = Len(w) + 1
OBVIOUS

LEMMA WriteEventInv ==
    ASSUME Inv, WriteEvent, pc' # "final"
    PROVE  Inv'
<1> USE DEF Goto, log, vars, stop, ackq, cw, ghosts
<1>0. /\ Steady /\ TypeOK /\ Places /\ pc = "write" /\ pc' = "loop" /\ peer
    BY DEF Inv, Steady, WriteEvent
<1>a. /\ UNCHANGED <<log, reader, stop, ackq, cw, is_open, peer, acks, losses, ghosts>>
      /\ wire' = wire \o <<Top>>
    BY <1>0 DEF WriteEvent, Top
<1>b. Top' = Top /\ Top \in 1..(next - 1) /\ owed # 0 /\ Top \in 1..Len(events)
    BY <1>a, <1>0, LogFacts DEF Top, Places, Holding, TypeOK, Steady, Unowed
<1>w. /\ Len(wire') = Len(wire) + 1 /\ Len(wire) \in Nat /\ wire' \in Seq(1..Len(events))
      /\ wire'[Len(wire) + 1] = Top
      /\ \A i \in 1..Len(wire) : wire'[i] = wire[i]
      /\ \A i \in 1..(Len(wire) + 1) : i \in 1..Len(wire) \/ i = Len(wire) + 1
    BY <1>a, <1>b, <1>0, WireGrows DEF TypeOK
<1>1. TypeOK'
    BY <1>0, <1>a, <1>b, <1>w DEF TypeOK, Ids, Pcs
<1>2. Places'
    BY <1>0, <1>a, <1>b DEF Places, Holding
<1>3. Unowed'
    BY <1>a, <1>b DEF Unowed
<1>4. Ordered'
    BY <1>0, <1>a, OrderedStays DEF Steady, TypeOK
<1>5. Reached'
  <2>1. AckedBelow(Top + 1)'
      BY <1>0, <1>a, <1>b DEF Steady, Reached, Running, AckedBelow
  <2>2. /\ \A c \in cursors : c.cursor <= Top
        /\ auto.have => auto.cursor <= Top
        /\ \A i \in 1..Len(wire) : wire[i] <= Top
      BY <1>0 DEF Steady, Reached, Running
  <2>3. \A i \in 1..Len(wire') : wire'[i] <= Top
      BY <2>2, <1>w, <1>b
  <2>4. QED
      BY <2>1, <2>2, <2>3, <1>a, <1>b, <1>0 DEF Reached, Running, Holding
<1>6. Forward'
    BY <1>0, <1>a, <1>b DEF Steady, Forward, Running
<1>7. InOrder'
  <2>0. \A k : Settled(k) <=> Settled(k)'
      BY <1>a DEF Settled
  <2>1. \A k \in 1..Len(acks) : \A c, d \in cursors :
           d.id = acks[k] /\ c.cursor <= d.cursor => Settled(c.cursor)
      BY <1>0 DEF Steady, InOrder
  <2>2. \A c \in cursors : Settled(c.cursor) \/ (\E i \in 1..Len(wire) : wire[i] = c.cursor) \/ c.cursor = Top
      BY <1>0 DEF Steady, InOrder, Running
  <2>3. ASSUME NEW i \in 1..Len(wire'), NEW c \in cursors, c.cursor < wire'[i]
        PROVE  Settled(c.cursor) \/ \E j \in 1..(i - 1) : wire'[j] = c.cursor
    <3>1. CASE i \in 1..Len(wire)
      <4>1. Settled(c.cursor) \/ \E j \in 1..(i - 1) : wire[j] = c.cursor
          BY <3>1, <2>3, <1>w, <1>0 DEF Steady, InOrder
      <4>2. \A j \in 1..(i - 1) : j \in 1..Len(wire)
          BY <3>1, <1>w
      <4>3. QED
          BY <4>1, <4>2, <1>w
    <3>2. CASE i = Len(wire) + 1
      <4>1. c.cursor # Top
          BY <2>3, <3>2, <1>w, <1>b
      <4>2. i - 1 = Len(wire)
          BY <3>2, <1>w
      <4>3. QED
          BY <4>1, <4>2, <2>2, <1>w
    <3>3. QED
        BY <3>1, <3>2, <1>w
  <2>4. \A c \in cursors : Settled(c.cursor) \/ \E i \in 1..Len(wire') : wire'[i] = c.cursor
      BY <2>2, <1>w
  <2>5. cursors' = cursors /\ acks' = acks
      BY <1>a
  <2>6. \A k \in 1..Len(acks') : \A c, d \in cursors' :
           d.id = acks'[k] /\ c.cursor <= d.cursor => Settled(c.cursor)'
      BY <2>0, <2>1, <2>5
  <2>7. \A i \in 1..Len(wire') : \A c \in cursors' :
           c.cursor < wire'[i] => Settled(c.cursor)' \/ \E j \in 1..(i - 1) : wire'[j] = c.cursor
      BY <2>0, <2>3, <2>5
  <2>8. \A c \in cursors' : Settled(c.cursor)' \/ \E i \in 1..Len(wire') : wire'[i] = c.cursor
      BY <2>0, <2>4, <2>5
  <2> HIDE DEF Goto, log, vars, stop, ackq, cw, ghosts
  <2>9. QED
      BY ONLY <2>6, <2>7, <2>8 DEF InOrder
<1>8. jumped' \/ Kept'
  <2>1. CASE Kept
    <3>1. /\ \A k : (Settled(k)' <=> Settled(k)) /\ (Passed(k)' <=> Passed(k)) /\ (Owed(k)' <=> Owed(k))
          /\ \A k : Tracked(k)' <=> Tracked(k)
        BY <1>a DEF Settled, Passed, Tracked, Owed
    <3>2. \A b : TrackedTo(b) => TrackedTo(b)'
        BY <3>1 DEF TrackedTo
    <3>3. TrackedTo(Top)'
        BY <3>1, <2>1, <1>0, <1>b DEF Kept, TrackedTo
    <3>4. /\ \A c \in cursors' : TrackedTo(c.cursor)'
          /\ auto'.have => TrackedTo(auto.cursor)'
        BY <3>2, <2>1, <1>a DEF Kept
    <3>5. Top' # AtEnd
        BY <1>b DEF AtEnd
    <3>6. QED
        BY <3>1, <3>3, <3>4, <3>5, <2>1, <1>0 DEF Kept
  <2>2. QED
      BY <2>1, <1>a DEF Inv
<1>9. QED
    BY <1>1, <1>2, <1>3, <1>4, <1>5, <1>6, <1>7, <1>8 DEF Inv, Steady

LEMMA NotSentInv ==
    ASSUME IdsDiffer, Inv, NotSent
    PROVE  Inv'
<1> USE DEF Goto, log, vars, stop, cw, link, ghosts
<1>0. /\ Steady /\ TypeOK /\ Places /\ Ordered /\ pc = "write" /\ pc' = "skip" /\ Event.kind = "noop"
    BY DEF Inv, Steady, NotSent
<1>a. UNCHANGED <<log, reader, stop, cw, link, ghosts, next_seq, auto, aclosed>>
    BY DEF NotSent, Remove
<1>b. /\ Top' = Top /\ Top \in 1..(next - 1) /\ owed # 0 /\ Event.id = events[Top].id
    BY <1>a, <1>0, LogFacts DEF Top, Places, Holding, TypeOK, Steady, Unowed, Event
<1>t. Settled(Top)
    BY <1>0 DEF Settled, Event, Top
<1>c. /\ \A c \in cursors : c.cursor <= Top /\ Entry(c)
      /\ auto.have => auto.cursor < Top /\ auto.cursor <= Top
      /\ \A i \in 1..Len(wire) : wire[i] < Top /\ wire[i] <= Top
      /\ AckedBelow(Top) /\ AckedBelow(Top + 1)
    BY <1>0 DEF Steady, Reached, Running, Holding, Ordered
<1>h. PICK hit : hit = {e \in ids : e.id = Event.id}
    OBVIOUS
<1>r. /\ ids' = ids \ hit
      /\ cursors' = {c \in cursors : \A e \in hit : c.seq # e.seq}
    BY <1>h DEF NotSent, Remove
<1>d. \A c \in cursors : c \in cursors' <=> c.id # Event.id
  <2>1. ASSUME NEW c \in cursors, c \in cursors', c.id = Event.id PROVE FALSE
    <3>1. PICK e \in ids : e.seq = c.seq /\ e.id = c.id
        BY <1>0 DEF Ordered
    <3>2. QED
        BY <3>1, <2>1, <1>h, <1>r
  <2>2. ASSUME NEW c \in cursors, c.id # Event.id, NEW e \in hit, c.seq = e.seq PROVE FALSE
    <3>1. PICK d \in cursors : d.seq = e.seq /\ d.id = e.id
        BY <2>2, <1>h, <1>0 DEF Ordered
    <3>2. c = d
        BY <3>1, <2>2, <1>0 DEF Ordered
    <3>3. QED
        BY <3>1, <3>2, <2>2, <1>h
  <2>3. QED
      BY <2>1, <2>2, <1>r
<1>e. /\ cursors' \subseteq cursors
      /\ \A c \in cursors' : c.cursor < Top
      /\ \A c \in cursors : c \in cursors' \/ c.cursor = Top
  <2>1. \A c \in cursors : c.cursor = Top => c.id = Event.id
      BY <1>b, <1>c DEF Entry
  <2>2. \A c \in cursors : c.id = Event.id => c.cursor = Top
      BY <1>b, <1>c, <1>0, SameEvent DEF Entry
  <2>3. \A c \in cursors : c.cursor # Top => c.cursor < Top
      BY <1>b, <1>c DEF Entry
  <2>4. QED
      BY <2>1, <2>2, <2>3, <1>d, <1>r
<1>1. TypeOK'
    BY <1>0, <1>a, <1>b DEF TypeOK, Ids, Pcs
<1>2. Places'
    BY <1>0, <1>a, <1>b DEF Places, Holding
<1>3. Unowed'
    BY <1>a, <1>b DEF Unowed
<1>4. Ordered'
  <2>1. \A c \in cursors : Entry(c)'
      BY <1>c, <1>a DEF Entry
  <2>2. \A c \in cursors' : \E e \in ids' : e.seq = c.seq /\ e.id = c.id
      BY <1>d, <1>h, <1>r, <1>0 DEF Ordered
  <2>3. \A e \in ids' : \E c \in cursors' : c.seq = e.seq /\ c.id = e.id
      BY <1>d, <1>h, <1>r, <1>0 DEF Ordered
  <2>4. QED
      BY <2>1, <2>2, <2>3, <1>a, <1>e, <1>0 DEF Ordered
<1>5. Reached'
  <2>1. AckedBelow(Top)' /\ AckedBelow(Top + 1)'
      BY <1>c, <1>a, <1>b DEF AckedBelow
  <2>2. QED
      BY <2>1, <1>a, <1>b, <1>c, <1>e, <1>0 DEF Reached
<1>6. Forward'
    BY <1>0, <1>a, <1>b, <1>e DEF Steady, Forward, Running
<1>7. InOrder'
  <2>0. \A k : Settled(k) <=> Settled(k)'
      BY <1>a DEF Settled
  <2>1. \A c \in cursors' : c.cursor # Top
      BY <1>e, <1>b, <1>c DEF Entry
  <2>2. QED
      BY <2>0, <2>1, <1>a, <1>b, <1>e, <1>0 DEF Steady, InOrder, Running
<1>8. jumped' \/ Kept'
  <2>1. CASE Kept
    <3>1. \A k : (Settled(k)' <=> Settled(k)) /\ (Passed(k)' <=> Passed(k)) /\ (Owed(k)' <=> Owed(k))
        BY <1>a DEF Settled, Passed, Owed
    <3>2. \A k : Tracked(k) => Tracked(k)'
        BY <3>1, <1>e, <1>t DEF Tracked
    <3>3. \A b : TrackedTo(b) => TrackedTo(b)'
        BY <3>1, <3>2 DEF TrackedTo
    <3>4. TrackedTo(Top)'
        BY <3>3, <2>1, <1>0, <1>b DEF Kept, TrackedTo
    <3>5. /\ \A c \in cursors' : TrackedTo(c.cursor)'
          /\ auto'.have => TrackedTo(auto.cursor)'
        BY <3>3, <2>1, <1>a, <1>e DEF Kept
    <3>6. QED
        BY <3>1, <3>4, <3>5, <2>1, <1>0 DEF Kept
  <2>2. QED
      BY <2>1, <1>a DEF Inv
<1>9. QED
    BY <1>1, <1>2, <1>3, <1>4, <1>5, <1>6, <1>7, <1>8 DEF Inv, Steady

-----------------------------------------------------------------------------
(* The receiver takes an event, the connection is lost *)

LEMMA TailFacts ==
    ASSUME NEW w, NEW S, w \in Seq(S), w # <<>>
    PROVE  /\ Len(w) \in Nat \ {0} /\ Head(w) = w[1] /\ Tail(w) \in Seq(S) /\ w[1] \in S
           /\ Len(Tail(w)) = Len(w) - 1
           /\ \A i \in 1..Len(Tail(w)) : Tail(w)[i] = w[i + 1] /\ i + 1 \in 1..Len(w)
           /\ \A i \in 1..Len(w) : i = 1 \/ (i - 1 \in 1..Len(Tail(w)) /\ Tail(w)[i - 1] = w[i])
OBVIOUS

LEMMA ReceiveInv ==
    ASSUME IdsDiffer, Inv, Receive
    PROVE  Inv'
<1> USE DEF log, vars, stop, ackq, cw
<1>0. /\ Steady /\ TypeOK /\ Places /\ Ordered /\ peer /\ wire # <<>> /\ pc \notin {"begin", "reset"}
    BY DEF Inv, Steady, Receive, Places
<1>a. /\ UNCHANGED <<log, pc, reader, stop, ackq, cw, is_open, peer, losses, owed, jumped>>
      /\ received' = received \cup {Head(wire)} /\ wire' = Tail(wire)
      /\ acks' = acks \o <<events[Head(wire)].id>>
    BY DEF Receive
<1>b. Top' = Top
    BY <1>a DEF Top
<1>w. /\ Len(wire) \in Nat \ {0} /\ wire' \in Seq(1..Len(events)) /\ wire[1] \in 1..Len(events)
      /\ Len(wire') = Len(wire) - 1 /\ Head(wire) = wire[1]
      /\ \A i \in 1..Len(wire') : wire'[i] = wire[i + 1] /\ i + 1 \in 1..Len(wire)
      /\ \A i \in 1..Len(wire) : i = 1 \/ (i - 1 \in 1..Len(wire') /\ wire'[i - 1] = wire[i])
    BY <1>a, <1>0, TailFacts DEF TypeOK
<1>h. PICK h \in 1..Len(events) : h = wire[1]
    BY <1>w
<1>i. events[h].id \in Ids
    BY <1>h, <1>0, LogFacts DEF Ids
<1>k. /\ Len(acks') = Len(acks) + 1 /\ Len(acks) \in Nat /\ acks' \in Seq(Ids)
      /\ acks'[Len(acks) + 1] = events[h].id
      /\ \A k \in 1..Len(acks) : acks'[k] = acks[k]
      /\ \A k \in 1..(Len(acks) + 1) : k \in 1..Len(acks) \/ k = Len(acks) + 1
    BY <1>a, <1>h, <1>i, <1>w, <1>0, WireGrows DEF TypeOK
<1>o. Onward
  <2>1. oldest' = oldest /\ oldest \in Nat \ {0} /\ events' = events /\ owed' = owed
        /\ cursors' = cursors
      BY <1>a, <1>0 DEF TypeOK
  <2>2. received \subseteq received'
      BY <1>a
  <2>3. QED
      BY <2>1, <2>2 DEF Onward, Later
<1>s. /\ \A n \in Int : Settled(n) => Settled(n)'
      /\ Settled(h)'
  <2>1. h \in received'
      BY <1>a, <1>w, <1>h
  <2>2. QED
      BY <2>1, <1>o, <1>0, SettledLater DEF Onward, Settled
<1>e. \A c \in cursors : Entry(c) /\ c.cursor \in Int
    BY <1>0 DEF Ordered, Entry
<1>1. TypeOK'
    BY <1>0, <1>a, <1>b, <1>w, <1>k DEF TypeOK, Ids
<1>2. Places'
    BY <1>0, <1>a, <1>b DEF Places, Holding
<1>3. Unowed'
    BY <1>0, <1>a DEF Steady, Unowed
<1>4. Ordered'
    BY <1>0, <1>a, OrderedStays DEF Steady, TypeOK
<1>5. Reached'
  <2>1. ASSUME NEW b \in Int, AckedBelow(b), h < b
        PROVE  AckedBelow(b)'
    <3>1. ASSUME NEW k \in 1..Len(acks')
          PROVE  \E m \in 1..(b - 1) : acks'[k] = events[m].id
      <4>1. CASE k \in 1..Len(acks)
          BY <4>1, <2>1, <1>k DEF AckedBelow
      <4>2. CASE k = Len(acks) + 1
          BY <4>2, <2>1, <1>k, <1>h
      <4>3. QED
          BY <4>1, <4>2, <1>k
    <3>2. QED
        BY <3>1, <1>a DEF AckedBelow
  <2>2. Top \in Int /\ Top + 1 \in Int /\ \A i \in 1..Len(wire) : wire[i] \in Int
      BY <1>0, LogFacts DEF TypeOK
  <2>3. pc \in Running => /\ h < Top + 1 /\ AckedBelow(Top + 1)'
                          /\ \A i \in 1..Len(wire') : wire'[i] <= Top
    <3>1. pc \in Running => h <= Top /\ AckedBelow(Top + 1) /\ \A i \in 1..Len(wire) : wire[i] <= Top
        BY <1>0, <1>h, <1>w DEF Steady, Reached
    <3>2. PICK b \in Int : b = Top + 1
        BY <2>2
    <3>3. pc \in Running => AckedBelow(b)'
        BY <3>1, <3>2, <2>1, <2>2, <1>h
    <3>4. QED
        BY <3>1, <3>2, <3>3, <2>2, <1>b, <1>h, <1>w DEF AckedBelow
  <2>4. pc \in Holding => AckedBelow(Top)' /\ \A i \in 1..Len(wire') : wire'[i] < Top
    <3>1. pc \in Holding => h < Top /\ AckedBelow(Top) /\ \A i \in 1..Len(wire) : wire[i] < Top
        BY <1>0, <1>h, <1>w DEF Steady, Reached
    <3>2. PICK b \in Int : b = Top
        BY <2>2
    <3>3. pc \in Holding => AckedBelow(b)'
        BY <3>1, <3>2, <2>1, <2>2, <1>h
    <3>4. QED
        BY <3>1, <3>2, <3>3, <2>2, <1>b, <1>w DEF AckedBelow
  <2>5. QED
      BY <2>3, <2>4, <1>0, <1>a, <1>b DEF Steady, Reached
<1>6. Forward'
    BY <1>0, <1>a, <1>b DEF Steady, Forward
<1>7. InOrder'
  <2>1. ASSUME NEW k \in 1..Len(acks'), NEW c \in cursors, NEW d \in cursors,
               d.id = acks'[k], c.cursor <= d.cursor
        PROVE  Settled(c.cursor)'
    <3>1. CASE k \in 1..Len(acks)
        BY <3>1, <2>1, <1>k, <1>s, <1>e, <1>0 DEF Steady, InOrder
    <3>2. CASE k = Len(acks) + 1
      <4>1. d.id = events[h].id
          BY <3>2, <2>1, <1>k
      <4>2. h = d.cursor
        <5>0. /\ events \in Logs /\ next \in Nat /\ next <= Len(events) + 1
              /\ Len(events) \in Nat /\ DOMAIN events = 1..Len(events)
            BY <1>0, LogFacts DEF TypeOK
        <5>1. d.cursor \in DOMAIN events /\ h \in DOMAIN events /\ d.id = events[d.cursor].id
            BY <1>e, <5>0 DEF Entry
        <5>2. QED
            BY <4>1, <5>0, <5>1 DEF IdsDiffer
      <4>3. CASE c.cursor = h
          BY <4>3, <1>s
      <4>4. CASE c.cursor < h
        <5>1. 1 \in 1..Len(wire) /\ 1..(1 - 1) = {}
            BY <1>w
        <5>2. Settled(c.cursor)
            BY <5>1, <4>4, <1>h, <1>0 DEF Steady, InOrder
        <5>3. QED
            BY <5>2, <1>s, <1>e
      <4>5. QED
          BY <4>2, <4>3, <4>4, <2>1, <1>e
    <3>3. QED
        BY <3>1, <3>2, <1>k
  <2>2. ASSUME NEW i \in 1..Len(wire'), NEW c \in cursors, c.cursor < wire'[i]
        PROVE  Settled(c.cursor)' \/ \E j \in 1..(i - 1) : wire'[j] = c.cursor
    <3>1. CASE Settled(c.cursor)
        BY <3>1, <1>s, <1>e
    <3>2. ASSUME NEW j \in 1..((i + 1) - 1), wire[j] = c.cursor
          PROVE  Settled(c.cursor)' \/ \E k \in 1..(i - 1) : wire'[k] = c.cursor
      <4>1. CASE j = 1
          BY <4>1, <3>2, <1>h, <1>s
      <4>2. CASE j # 1
        <5>1. j \in 1..Len(wire) /\ j - 1 \in 1..(i - 1)
            BY <4>2, <3>2, <1>w
        <5>2. wire'[j - 1] = c.cursor
            BY <5>1, <4>2, <3>2, <1>w
        <5>3. QED
            BY <5>1, <5>2
      <4>3. QED
          BY <4>1, <4>2
    <3>3. i + 1 \in 1..Len(wire) /\ c.cursor < wire[i + 1]
        BY <2>2, <1>w
    <3>4. QED
        BY <3>1, <3>2, <3>3, <1>0 DEF Steady, InOrder
  <2>3. pc \in Running => \A c \in cursors :
           Settled(c.cursor)' \/ (\E i \in 1..Len(wire') : wire'[i] = c.cursor) \/ (pc = "write" /\ c.cursor = Top)
    <3>1. ASSUME NEW c \in cursors, NEW i \in 1..Len(wire), wire[i] = c.cursor
          PROVE  Settled(c.cursor)' \/ \E j \in 1..Len(wire') : wire'[j] = c.cursor
        BY <3>1, <1>w, <1>h, <1>s
    <3>2. QED
        BY <3>1, <1>s, <1>e, <1>0 DEF Steady, InOrder
  <2>4. cursors' = cursors /\ pc' = pc
      BY <1>a
  <2>5. \A k \in 1..Len(acks') : \A c, d \in cursors' :
           d.id = acks'[k] /\ c.cursor <= d.cursor => Settled(c.cursor)'
      BY <2>1, <2>4
  <2>6. \A i \in 1..Len(wire') : \A c \in cursors' :
           c.cursor < wire'[i] => Settled(c.cursor)' \/ \E j \in 1..(i - 1) : wire'[j] = c.cursor
      BY <2>2, <2>4
  <2>7. QED
      BY <2>3, <2>4, <2>5, <2>6, <1>b DEF InOrder
<1>8. jumped' \/ Kept'
  <2>1. CASE Kept
    <3>0. Top \in Int /\ Top - 1 \in Int /\ \A n \in Nat : n \in Int
        BY <1>0, LogFacts
    <3>1. \A b \in Int : TrackedTo(b) => TrackedTo(b)'
        BY <1>0, <1>o, TrackedLater
    <3>2. PICK t \in Int : t = Top
        BY <3>0
    <3>3. /\ TrackedTo(t) => TrackedTo(t)'
          /\ TrackedTo(t - 1) => TrackedTo(t - 1)'
        BY <3>1
    <3>4. /\ TrackedTo(Top) => TrackedTo(Top)'
          /\ TrackedTo(Top - 1) => TrackedTo(Top - 1)'
        BY <3>2, <3>3, <1>b DEF TrackedTo
    <3>5. \A n \in Nat : (Passed(n)' <=> Passed(n)) /\ (Settled(n) => Settled(n)')
        BY <1>a, <1>s, <3>0 DEF Passed
    <3>6. /\ \A c \in cursors' : TrackedTo(c.cursor)'
          /\ auto'.have => TrackedTo(auto.cursor)'
        BY <3>1, <2>1, <1>a, <1>e, <1>0 DEF Kept, TypeOK
    <3>7. QED
        BY <3>4, <3>5, <3>6, <2>1, <1>0, <1>a, <1>b DEF Kept
  <2>2. QED
      BY <2>1, <1>a DEF Inv
<1>9. QED
    BY <1>1, <1>2, <1>3, <1>4, <1>5, <1>6, <1>7, <1>8 DEF Inv, Steady

LEMMA DisconnectInv ==
    ASSUME Inv, Disconnect
    PROVE  Inv'
<1> USE DEF log, vars, stop, ackq, cw, ghosts
<1>0. /\ Steady /\ TypeOK /\ Places
    BY DEF Inv, Steady
<1>a. /\ UNCHANGED <<log, pc, reader, stop, ackq, cw, is_open, ghosts>>
      /\ wire' = <<>> /\ peer' = FALSE
    BY DEF Disconnect
<1>b. Top' = Top
    BY <1>a DEF Top
<1>p. PICK k \in 0..Len(acks) : acks' = SubSeq(acks, 1, k)
    BY DEF Disconnect
<1>k. /\ Len(acks') = k /\ acks' \in Seq(Ids) /\ k \in Nat /\ k <= Len(acks)
      /\ \A j \in 1..Len(acks') : j \in 1..Len(acks) /\ acks'[j] = acks[j]
    BY <1>p, <1>0 DEF TypeOK
<1>c. acks = <<>> => acks' = <<>>
    BY <1>k, <1>p
<1>1. TypeOK'
  <2>1. wire' \in Seq(1..Len(events')) /\ acks' \in Seq(Ids')
      BY <1>a, <1>k DEF Ids
  <2>2. peer' \in BOOLEAN
      BY <1>a
  <2>3. QED
      BY <1>0, <1>a, <1>b, <2>1, <2>2 DEF TypeOK
<1>2. Places'
    BY <1>0, <1>a, <1>b, <1>c DEF Places, Holding
<1>3. Unowed'
    BY <1>0, <1>a, <1>c DEF Steady, Unowed
<1>4. Ordered'
    BY <1>0, <1>a, OrderedStays DEF Steady, TypeOK
<1>5. Reached'
  <2>1. /\ AckedBelow(Top) => AckedBelow(Top)'
        /\ AckedBelow(Top + 1) => AckedBelow(Top + 1)'
      BY <1>k, <1>a, <1>b DEF AckedBelow
  <2>2. QED
      BY <2>1, <1>0, <1>a, <1>b DEF Steady, Reached
<1>6. Forward'
    BY <1>0, <1>a, <1>b DEF Steady, Forward
<1>7. InOrder'
  <2>1. \A n : Settled(n) => Settled(n)'
      BY <1>a DEF Settled
  <2>2. QED
      BY <2>1, <1>0, <1>a, <1>b, <1>k DEF Steady, InOrder
<1>8. jumped' \/ Kept'
  <2>1. CASE Kept
    <3>1. \A n : (Settled(n)' <=> Settled(n)) /\ (Passed(n)' <=> Passed(n)) /\ (Owed(n)' <=> Owed(n))
        BY <1>a DEF Settled, Passed, Owed
    <3>2. \A n : Tracked(n)' <=> Tracked(n)
        BY <3>1, <1>a DEF Tracked
    <3>3. \A b : TrackedTo(b) => TrackedTo(b)'
        BY <3>1, <3>2 DEF TrackedTo
    <3>4. /\ TrackedTo(Top) => TrackedTo(Top)'
          /\ TrackedTo(Top - 1) => TrackedTo(Top - 1)'
        BY <3>3, <1>b DEF TrackedTo
    <3>5. /\ \A c \in cursors' : TrackedTo(c.cursor)'
          /\ auto'.have => TrackedTo(auto.cursor)'
        BY <3>3, <2>1, <1>a DEF Kept
    <3>6. QED
        BY <3>1, <3>4, <3>5, <2>1, <1>a, <1>b DEF Kept
  <2>2. QED
      BY <2>1, <1>a DEF Inv
<1>9. QED
    BY <1>1, <1>2, <1>3, <1>4, <1>5, <1>6, <1>7, <1>8 DEF Inv, Steady

-----------------------------------------------------------------------------
(* The cursor moves *)

\* Of the entries of the AckQueue one is the oldest.
LEMMA LowestFacts ==
    ASSUME NEW s, s # {}, \A c \in s : c.seq \in Nat
    PROVE  Lowest(s) \in s /\ \A d \in s : Lowest(s).seq <= d.seq
<1>1. PICK M : M = {c.seq : c \in s}
    OBVIOUS
<1>2. M # {} /\ M \in SUBSET Nat
    BY <1>1
<1>3. PICK m \in M : \A y \in M : ~(<<y, m>> \in OpToRel(<, Nat))
    BY <1>2, WFMin, NatLessThanWellFounded
<1>4. PICK c \in s : m = c.seq
    BY <1>1, <1>3
<1>5. \A d \in s : c.seq <= d.seq
  <2>1. ASSUME NEW d \in s PROVE c.seq <= d.seq
    <3>1. d.seq \in M
        BY <1>1
    <3>2. ~(d.seq < m)
        BY <1>3, <3>1, <1>2 DEF OpToRel
    <3>3. QED
        BY <3>2, <1>4
  <2>2. QED
      BY <2>1
<1>6. \E x \in s : \A d \in s : x.seq <= d.seq
    BY <1>4, <1>5
<1>7. QED
    BY <1>6 DEF Lowest

\* When the auto cursor is free, only what was passed waits before it.
LEMMA AutoFreeFacts ==
    ASSUME Ordered, auto.have, auto.seq \in Nat, NEW left \in SUBSET cursors, AutoFree(left), NEW c \in left
    PROVE  auto.seq < c.seq /\ auto.cursor < c.cursor
<1>1. \A d \in left : d.seq \in Nat /\ Entry(d)
    BY DEF Ordered, Entry
<1>2. Lowest(left) \in left /\ Lowest(left).seq <= c.seq
    BY <1>1, LowestFacts
<1>3. auto.seq < Lowest(left).seq
    BY DEF AutoFree
<1>4. auto.seq < c.seq
    BY <1>1, <1>2, <1>3
<1>5. QED
    BY <1>4, <1>1 DEF Ordered

\* What an ack does: it takes settled entries away and moves the cursor to the
\* last of them or to the auto cursor, which is behind them.
Acked(left) ==
    /\ left \subseteq cursors
    /\ \A c \in cursors \ left : Settled(c.cursor)
    /\ \/ cursor' = cursor
       \/ \E d \in cursors \ left : /\ cursor' = d.cursor
                                    /\ \A c \in cursors : c \in left <=> d.cursor < c.cursor
       \/ auto.have /\ cursor' = auto.cursor /\ \A c \in left : auto.cursor < c.cursor

LEMMA AckFacts ==
    ASSUME IdsDiffer, Inv, ReadAck
    PROVE  /\ Acked(cursors') /\ Ordered'
           /\ auto' = auto \/ auto' = [auto EXCEPT !.have = FALSE]
           /\ cursor' < cursor => auto.have /\ cursor' = auto.cursor /\ \A e \in ids : e.id # Head(acks)
<1> USE DEF log, vars, stop, ghosts
<1>0. /\ Steady /\ TypeOK /\ Places /\ Ordered /\ acks # <<>> /\ reader = "read" /\ pc # "reset"
    BY DEF Inv, Steady, ReadAck, Places
<1>i. PICK id : id = Head(acks)
    OBVIOUS
<1>h. PICK hit : hit = {e \in ids : e.id = id}
    OBVIOUS
<1>g. PICK gone : gone = {c \in cursors : \E e \in hit : c.seq <= e.seq}
    OBVIOUS
<1>l. PICK left : left = cursors \ gone
    OBVIOUS
<1>y. PICK byAuto \in BOOLEAN :
         byAuto <=> /\ auto.have
                    /\ gone = {} \/ \A e \in hit : auto.seq > e.seq
                    /\ AutoFree(left)
  <2>1. (/\ auto.have
         /\ gone = {} \/ \A e \in hit : auto.seq > e.seq
         /\ AutoFree(left)) \in BOOLEAN
      OBVIOUS
  <2>2. QED
      BY <2>1
<1>a. /\ cursors' = left
      /\ ids' = {e \in ids \ hit : \A c \in gone : c.id # e.id}
      /\ auto' = IF byAuto THEN [auto EXCEPT !.have = FALSE] ELSE auto
      /\ cursor' = IF byAuto THEN auto.cursor ELSE IF gone = {} THEN cursor ELSE Highest(gone).cursor
      /\ UNCHANGED <<events, next, next_seq>>
  <2>1. Ack(id)
      BY <1>i DEF ReadAck
  <2>2. UNCHANGED <<events, next>>
      BY DEF ReadAck
  <2>3. QED
      BY <2>1, <2>2, <1>h, <1>g, <1>l, <1>y DEF Ack
<1>c. \A c \in cursors : Entry(c) /\ c.cursor \in Int /\ c.seq \in Nat
    BY <1>0 DEF Ordered, Entry
<1>t. auto.seq \in Nat /\ auto.cursor \in Int
    BY <1>0 DEF TypeOK
<1>b. /\ auto' = auto \/ auto' = [auto EXCEPT !.have = FALSE]
      /\ auto'.have => auto' = auto
    BY <1>a, <1>0 DEF TypeOK
<1>f. byAuto => \A c \in left : auto.cursor < c.cursor
    BY <1>y, <1>l, <1>t, <1>0, AutoFreeFacts
<1>1. CASE hit = {}
  <2>1. gone = {} /\ left = cursors /\ ids' = ids /\ \A e \in ids : e.id # Head(acks)
      BY <1>1, <1>g, <1>l, <1>a, <1>h, <1>i
  <2>2. cursor' = cursor \/ (auto.have /\ cursor' = auto.cursor /\ byAuto)
      BY <2>1, <1>a, <1>y
  <2>3. Acked(cursors')
      BY <2>1, <2>2, <1>a, <1>f DEF Acked
  <2>4. Ordered'
    <3>1. \A c \in cursors : Entry(c)'
        BY <1>c, <1>a DEF Entry
    <3>2. QED
        BY <3>1, <2>1, <1>a, <1>b, <1>0 DEF Ordered
  <2>5. cursor \in Int
      BY <1>0 DEF TypeOK
  <2>6. QED
      BY <2>1, <2>2, <2>3, <2>4, <2>5, <1>b
<1>2. CASE hit # {}
  <2>1. \A e \in hit : \E c \in cursors : c.seq = e.seq /\ c.id = id
      BY <1>h, <1>0 DEF Ordered
  <2>2. PICK e \in hit : TRUE
      BY <1>2
  <2>3. PICK top \in cursors : top.seq = e.seq /\ top.id = id
      BY <2>1, <2>2
  <2>4. \A f \in hit : f.seq = top.seq
      BY <2>1, <2>3, <1>0, OneEntry
  <2>5. /\ gone = {c \in cursors : c.seq <= top.seq} /\ top \in gone
        /\ \A c \in cursors : c \in left <=> top.seq < c.seq
      BY <2>2, <2>4, <1>g, <1>l, <1>c
  <2>6. \A c \in cursors : top.seq < c.seq <=> top.cursor < c.cursor
    <3>1. ASSUME NEW c \in cursors, top.cursor < c.cursor PROVE top.seq < c.seq
      <4>1. ~(c.seq < top.seq) /\ c.seq # top.seq
          BY <3>1, <1>c, <1>0 DEF Ordered
      <4>2. QED
          BY <4>1, <1>c
    <3>2. QED
        BY <3>1, <1>0 DEF Ordered
  <2>7. \A c \in cursors : c \in left <=> top.cursor < c.cursor
      BY <2>5, <2>6
  <2>8. \A c \in cursors \ left : Settled(c.cursor)
    <3>1. 1 \in 1..Len(acks) /\ acks[1] = id
        BY <1>0, <1>i DEF TypeOK
    <3>2. \A c \in cursors \ left : c.cursor <= top.cursor
        BY <2>7, <1>c
    <3>3. QED
        BY <3>1, <3>2, <2>3, <1>0 DEF Steady, InOrder
  <2>9. Highest(gone) = top
    <3>1. \A c \in gone : (\A d \in gone : d.seq <= c.seq) => c = top
      <4>1. ASSUME NEW c \in gone, \A d \in gone : d.seq <= c.seq PROVE c = top
        <5>1. top.seq <= c.seq /\ c.seq <= top.seq /\ c \in cursors
            BY <4>1, <2>5
        <5>2. c.seq = top.seq
            BY <5>1, <1>c
        <5>3. QED
            BY <5>1, <5>2, <1>0 DEF Ordered
      <4>2. QED
          BY <4>1
    <3>2. \A d \in gone : d.seq <= top.seq
        BY <2>5
    <3>3. QED
        BY <3>1, <3>2, <2>5 DEF Highest
  <2>10. \/ cursor' = top.cursor
         \/ auto.have /\ cursor' = auto.cursor /\ byAuto /\ top.seq < auto.seq
    <3>1. byAuto => auto.have /\ auto.seq > top.seq
        BY <1>y, <2>2, <2>3, <2>5
    <3>2. QED
        BY <3>1, <1>a, <2>5, <2>9, <1>t, <1>c
  <2>11. Acked(cursors')
    <3>1. left \subseteq cursors /\ top \in cursors \ left
        BY <1>l, <2>5
    <3>2. QED
        BY <3>1, <1>a, <1>f, <2>7, <2>8, <2>10 DEF Acked
  <2>12. Ordered'
    <3>1. \A c \in cursors : Entry(c)'
        BY <1>c, <1>a DEF Entry
    <3>2. ASSUME NEW c \in left PROVE \E f \in ids' : f.seq = c.seq /\ f.id = c.id
      <4>1. PICK f \in ids : f.seq = c.seq /\ f.id = c.id
          BY <1>l, <1>0 DEF Ordered
      <4>2. f \notin hit
          BY <4>1, <2>4, <2>5, <1>l, <1>c
      <4>3. \A d \in gone : d.id # f.id
        <5>1. \A d \in gone : d \in cursors /\ d # c /\ c \in cursors
            BY <1>l, <1>g
        <5>2. QED
            BY <5>1, <4>1, <1>0, OneEntry
      <4>4. QED
          BY <4>1, <4>2, <4>3, <1>a
    <3>3. ASSUME NEW f \in ids' PROVE \E c \in left : c.seq = f.seq /\ c.id = f.id
      <4>1. PICK c \in cursors : c.seq = f.seq /\ c.id = f.id
          BY <1>a, <1>0 DEF Ordered
      <4>2. QED
          BY <4>1, <1>a, <1>l
    <3>4. left \subseteq cursors
        BY <1>l
    <3>5. QED
        BY <3>1, <3>2, <3>3, <3>4, <1>a, <1>b, <1>0 DEF Ordered
  <2>13. cursor' >= cursor
    <3>1. cursor < top.cursor /\ cursor \in Int
        BY <1>0 DEF Steady, Forward, TypeOK
    <3>2. auto.have /\ top.seq < auto.seq => top.cursor < auto.cursor
        BY <1>0, <1>c, <1>t DEF Ordered
    <3>3. QED
        BY <3>1, <3>2, <2>10, <1>t, <1>c
  <2>14. cursor \in Int /\ cursor' \in Int
      BY <2>10, <1>c, <1>t, <1>0 DEF TypeOK
  <2>15. QED
      BY <2>11, <2>12, <2>13, <2>14, <1>b
<1>3. QED
    BY <1>1, <1>2

\* Whatever the cursor moves to, what it passes is settled.
LEMMA AckedPasses ==
    ASSUME Inv, Kept, NEW left, Acked(left), NEW n \in Nat, owed # 0, owed <= n, n <= cursor'
    PROVE  Settled(n)
<1>0. TypeOK /\ Ordered /\ \A c \in cursors : c.cursor \in Int
    BY DEF Inv, Steady, Ordered, Entry
<1>1. CASE cursor' = cursor
    BY <1>1 DEF Kept, Passed
<1>2. ASSUME NEW d \in cursors \ left, cursor' = d.cursor,
             \A c \in cursors : c \in left <=> d.cursor < c.cursor
      PROVE  Settled(n)
  <2>1. Tracked(n)
      BY <1>2 DEF Kept, TrackedTo, Owed
  <2>2. ASSUME NEW c \in cursors, c.cursor = n PROVE Settled(n)
    <3>1. c \in cursors \ left
        BY <2>2, <1>2, <1>0
    <3>2. QED
        BY <3>1, <2>2 DEF Acked
  <2>3. QED
      BY <2>1, <2>2 DEF Tracked
<1>3. ASSUME auto.have, cursor' = auto.cursor, \A c \in left : auto.cursor < c.cursor
      PROVE  Settled(n)
  <2>1. Tracked(n)
      BY <1>3 DEF Kept, TrackedTo, Owed
  <2>2. ASSUME NEW c \in cursors, c.cursor = n PROVE Settled(n)
    <3>1. c \in cursors \ left
        BY <2>2, <1>3, <1>0 DEF TypeOK
    <3>2. QED
        BY <3>1, <2>2 DEF Acked
  <2>3. QED
      BY <2>1, <2>2 DEF Tracked
<1>4. QED
    BY <1>1, <1>2, <1>3 DEF Acked

LEMMA ReadAckInv ==
    ASSUME IdsDiffer, Inv, ReadAck
    PROVE  Inv'
<1> USE DEF log, vars, stop, ghosts
<1>0. /\ Steady /\ TypeOK /\ Places /\ Ordered /\ acks # <<>> /\ reader = "read"
      /\ pc \notin {"connect", "begin", "stopped", "reset"} /\ owed # 0
    BY DEF Inv, Steady, ReadAck, Places, Unowed
<1>a. /\ UNCHANGED <<log, pc, reader, stop, writing, file, is_open, peer, wire, losses, ghosts>>
      /\ acks' = Tail(acks) /\ next_seq' = next_seq
    BY DEF ReadAck, Ack
<1>b. /\ Acked(cursors') /\ Ordered' /\ cursors' \subseteq cursors
      /\ auto' = auto \/ auto' = [auto EXCEPT !.have = FALSE]
      /\ auto'.have => auto' = auto
      /\ auto' \in [have : BOOLEAN, seq : Nat, cursor : Int]
  <2>1. auto \in [have : BOOLEAN, seq : Nat, cursor : Int]
      BY <1>0 DEF TypeOK
  <2>2. Acked(cursors') /\ Ordered' /\ (auto' = auto \/ auto' = [auto EXCEPT !.have = FALSE])
      BY AckFacts
  <2>3. QED
      BY <2>1, <2>2 DEF Acked
<1>t. Top' = Top
    BY <1>a DEF Top
<1>k. /\ acks' \in Seq(Ids)
      /\ \A k \in 1..Len(acks') : k + 1 \in 1..Len(acks) /\ acks'[k] = acks[k + 1]
    BY <1>a, <1>0, TailFacts DEF TypeOK
<1>c. /\ \A c \in cursors : c.cursor \in 1..(next - 1)
      /\ auto.have => auto.cursor \in 1..(next - 1)
    BY <1>0 DEF Ordered, Entry
<1>d. \/ cursor' = cursor
      \/ \E d \in cursors : cursor' = d.cursor
      \/ auto.have /\ cursor' = auto.cursor
    BY <1>b DEF Acked
<1>1. TypeOK'
  <2>1. cursor' \in Int /\ AtEnd <= cursor' /\ cursor' < next
      BY <1>c, <1>d, <1>0 DEF TypeOK, AtEnd
  <2>2. QED
      BY <2>1, <1>0, <1>a, <1>b, <1>k, <1>t DEF TypeOK, Ids
<1>2. Places'
    BY <1>0, <1>a, <1>t DEF Places, Holding
<1>3. Unowed'
    BY <1>0, <1>a DEF Unowed
<1>5. Reached'
  <2>1. /\ AckedBelow(Top) => AckedBelow(Top)'
        /\ AckedBelow(Top + 1) => AckedBelow(Top + 1)'
      BY <1>k, <1>a, <1>t DEF AckedBelow
  <2>2. QED
      BY <2>1, <1>0, <1>a, <1>b, <1>t DEF Steady, Reached
<1>6. Forward'
  <2>1. \A c \in cursors' : cursor' < c.cursor
    <3>1. \A c \in cursors : cursor < c.cursor
        BY <1>0 DEF Steady, Forward
    <3>2. QED
        BY <3>1, <1>b DEF Acked
  <2>2. pc \in Running => cursor' <= Top
      BY <1>d, <1>0 DEF Steady, Forward, Reached
  <2>3. pc \in {"got", "add"} => cursor' < Top
      BY <1>d, <1>0 DEF Steady, Forward, Reached, Holding
  <2>4. QED
      BY <2>1, <2>2, <2>3, <1>0, <1>a, <1>t DEF Forward
<1>s. \A n : Settled(n)' <=> Settled(n)
    BY <1>a DEF Settled
<1>7. InOrder'
    BY <1>s, <1>0, <1>a, <1>b, <1>k, <1>t DEF Steady, InOrder
<1>8. jumped' \/ Kept'
  <2>1. CASE Kept
    <3>1. \A n : Owed(n)' <=> Owed(n)
        BY <1>a DEF Owed
    <3>2. \A n : Tracked(n) => Tracked(n)'
        BY <1>s, <1>b DEF Tracked, Acked
    <3>3. \A b : TrackedTo(b) => TrackedTo(b)'
        BY <3>1, <3>2 DEF TrackedTo
    <3>4. /\ TrackedTo(Top) => TrackedTo(Top)'
          /\ TrackedTo(Top - 1) => TrackedTo(Top - 1)'
        BY <3>3, <1>t DEF TrackedTo
    <3>5. /\ \A c \in cursors' : TrackedTo(c.cursor)'
          /\ auto'.have => TrackedTo(auto.cursor)'
      <4>1. (\A c \in cursors : TrackedTo(c.cursor)) /\ (auto.have => TrackedTo(auto.cursor))
          BY <2>1 DEF Kept
      <4>2. PICK b : b = auto.cursor
          OBVIOUS
      <4>3. auto'.have => auto'.cursor = b /\ TrackedTo(b)'
          BY <4>1, <4>2, <3>3, <1>b
      <4>4. QED
          BY <4>1, <4>3, <3>3, <1>b DEF TrackedTo
    <3>6. \A n \in Nat : Passed(n)' => Settled(n)'
      <4>1. \A n \in Nat : owed # 0 /\ owed <= n /\ n <= cursor' => Settled(n)
          BY <2>1, <1>b, AckedPasses
      <4>2. \A n \in Nat : owed # 0 /\ owed <= n /\ n <= file => Settled(n)
          BY <2>1 DEF Kept, Passed
      <4>3. QED
          BY <4>1, <4>2, <1>s, <1>a DEF Passed
    <3>7. QED
        BY <3>4, <3>5, <3>6, <2>1, <1>0, <1>a, <1>t DEF Kept
  <2>2. QED
      BY <2>1, <1>a DEF Inv
<1>9. QED
    BY <1>1, <1>2, <1>3, <1>b, <1>5, <1>6, <1>7, <1>8 DEF Inv, Steady

LEMMA GetAutoCursorInv ==
    ASSUME Inv, GetAutoCursor
    PROVE  Inv'
<1> USE DEF log, vars, stop, link
<1>0. /\ Steady /\ TypeOK /\ Places /\ Ordered /\ reader = "auto" /\ reader' = "close"
      /\ pc \notin {"connect", "begin", "stopped"}
    BY DEF Inv, Steady, GetAutoCursor, Places
<1>a. /\ UNCHANGED <<log, pc, stop, ids, cursors, next_seq, aclosed, writing, file, link, received, owed>>
      /\ jumped' = (jumped \/ (auto.have /\ \E n \in owed .. auto.cursor : ~Settled(n)))
      /\ \/ auto.have /\ auto' = [auto EXCEPT !.have = FALSE] /\ cursor' = auto.cursor
         \/ ~auto.have /\ auto' = auto /\ cursor' = cursor
    BY DEF GetAutoCursor
<1>b. /\ auto' \in [have : BOOLEAN, seq : Nat, cursor : Int]
      /\ ~auto'.have
    BY <1>a, <1>0 DEF TypeOK
<1>t. Top' = Top
    BY <1>a DEF Top
<1>1. TypeOK'
  <2>1. cursor' \in Int /\ AtEnd <= cursor' /\ cursor' < next
    <3>1. auto.have => auto.cursor \in 1..(next - 1)
        BY <1>0 DEF Ordered
    <3>2. QED
        BY <3>1, <1>a, <1>0 DEF TypeOK, AtEnd
  <2>2. jumped' \in BOOLEAN
      BY <1>a, <1>0 DEF TypeOK
  <2>3. QED
      BY <2>1, <2>2, <1>0, <1>a, <1>b, <1>t DEF TypeOK, Ids
<1>2. Places'
    BY <1>0, <1>a, <1>t DEF Places, Holding
<1>3. Unowed'
    BY <1>0, <1>a DEF Steady, Unowed
<1>4. Ordered'
  <2>1. \A c \in cursors : Entry(c) <=> Entry(c)'
      BY <1>a DEF Entry
  <2>2. QED
      BY <2>1, <1>b, <1>a, <1>0 DEF Ordered
<1>5. Reached'
  <2>1. /\ AckedBelow(Top) <=> AckedBelow(Top)'
        /\ AckedBelow(Top + 1) <=> AckedBelow(Top + 1)'
      BY <1>a, <1>t DEF AckedBelow
  <2>2. QED
      BY <2>1, <1>0, <1>a, <1>b, <1>t DEF Steady, Reached
<1>6. Forward'
    BY <1>0 DEF Forward
<1>s. \A n : Settled(n)' <=> Settled(n)
    BY <1>a DEF Settled
<1>7. InOrder'
    BY <1>s, <1>0, <1>a, <1>t DEF Steady, InOrder
<1>8. jumped' \/ Kept'
  <2>1. CASE Kept /\ ~jumped'
    <3>1. \A n : (Owed(n)' <=> Owed(n)) /\ (Tracked(n) <=> Tracked(n)')
        BY <1>s, <1>a DEF Owed, Tracked
    <3>3. \A b : TrackedTo(b) => TrackedTo(b)'
        BY <3>1 DEF TrackedTo
    <3>4. /\ TrackedTo(Top) => TrackedTo(Top)'
          /\ TrackedTo(Top - 1) => TrackedTo(Top - 1)'
        BY <3>3, <1>t DEF TrackedTo
    <3>5. \A c \in cursors' : TrackedTo(c.cursor)'
        BY <3>3, <2>1, <1>a DEF Kept
    <3>6. \A n \in Nat : owed # 0 /\ owed <= n /\ n <= cursor' => Settled(n)
      <4>1. CASE auto.have
        <5>1. cursor' = auto.cursor /\ \A n \in owed .. auto.cursor : Settled(n)
            BY <4>1, <2>1, <1>a
        <5>2. owed \in Nat /\ auto.cursor \in Int
            BY <1>0 DEF TypeOK
        <5>3. QED
            BY <5>1, <5>2
      <4>2. CASE ~auto.have
          BY <4>2, <2>1, <1>a DEF Kept, Passed
      <4>3. QED
          BY <4>1, <4>2
    <3>7. \A n \in Nat : Passed(n)' => Settled(n)'
      <4>1. \A n \in Nat : owed # 0 /\ owed <= n /\ n <= file => Settled(n)
          BY <2>1 DEF Kept, Passed
      <4>2. QED
          BY <3>6, <4>1, <1>s, <1>a DEF Passed
    <3>8. QED
        BY <3>1, <3>4, <3>5, <3>7, <1>s, <2>1, <1>0, <1>a, <1>b, <1>t DEF Kept
  <2>2. QED
      BY <2>1, <1>a DEF Inv
<1>9. QED
    BY <1>1, <1>2, <1>3, <1>4, <1>5, <1>6, <1>7, <1>8 DEF Inv, Steady

-----------------------------------------------------------------------------
(* The theorems *)

LEMMA InitInv == InitOutput => Inv
<1> SUFFICES ASSUME InitOutput PROVE Inv
    OBVIOUS
<1>1. /\ me \in Getters /\ Getters = {me} /\ Len(events) \in Nat /\ DOMAIN events = 1..Len(events)
      /\ cursor \in {AtEnd, 0} /\ file \in {NoFile, 0} /\ file <= 0
      /\ AtEnd = -1 /\ NoFile = -3
    BY OutputConstants DEF InitOutput, ReadCursor, AtEnd, NoFile
<1>2. Top = cursor /\ at \in [Getters -> Int] /\ awaits \in [Getters -> Nat] /\ awaits[me] = 0
    BY <1>1 DEF InitOutput, Top
<1>3. TypeOK
  <2>1. auto \in [have : BOOLEAN, seq : Nat, cursor : Int]
      BY DEF InitOutput, NoAuto
  <2>2. /\ file \in Int /\ file < next /\ cursor \in Int /\ AtEnd <= cursor /\ cursor < next
        /\ next = 1 /\ next <= Len(events) + 1
      BY <1>1 DEF InitOutput
  <2>3. wire = <<>> /\ acks = <<>> /\ wire \in Seq(1..Len(events)) /\ acks \in Seq(Ids)
      BY DEF InitOutput
  <2>4. /\ events \in Logs /\ oldest = 1 /\ next = 1 /\ pc = "connect" /\ reader = "off"
        /\ owed = 0 /\ next_seq = 0 /\ jumped = FALSE /\ peer = FALSE /\ is_open = FALSE /\ stopping = FALSE
      BY DEF InitOutput
  <2>5. AtEnd <= Top /\ Top < next
      BY <2>2, <1>2
  <2>6. /\ oldest \in Nat \ {0} /\ next \in Nat \ {0}
        /\ owed \in Nat /\ next_seq \in Nat
      BY <2>4
  <2>7. /\ pc \in Pcs /\ reader \in {"off", "read", "auto", "close", "end"}
        /\ jumped \in BOOLEAN /\ peer \in BOOLEAN /\ is_open \in BOOLEAN /\ stopping \in BOOLEAN
      BY <2>4 DEF Pcs
  <2>8. QED
      BY <2>1, <2>2, <2>3, <2>4, <2>5, <2>6, <2>7, <1>2, Zenon DEF TypeOK
<1>4. Places /\ Unowed
    BY <1>1, <1>2 DEF InitOutput, Places, Unowed, NoAuto, Holding
<1>5. Ordered /\ Reached /\ Forward /\ InOrder
    BY DEF InitOutput, Ordered, Reached, Forward, InOrder, NoAuto, Running, Holding
<1>6. Kept
    BY DEF InitOutput, Kept, Passed, NoAuto
<1>7. QED
    BY <1>3, <1>4, <1>5, <1>6 DEF Inv, Steady

LEMMA StepInv ==
    ASSUME IdsDiffer, InTime, Inv, [NextOutput]_ovars
    PROVE  Inv'
<1>1. CASE QuietAction
    BY <1>1, QuietSteps
<1>2. CASE Connect \/ Begin \/ ResetAckQueue \/ Restart
    BY <1>2, ConnectInv, BeginInv, ResetAckQueueInv, RestartInv
<1>3. CASE GetNow \/ GetWake
    BY <1>3, GetInv
<1>4. CASE Filter \/ SkipNotSent
    BY <1>4, AutoSetInv
<1>5. CASE AddAck
    BY <1>5, AddAckInv
<1>6. CASE WriteEvent
  <2>1. CASE pc' = "final"
      BY <2>1, <1>6, QuietSteps DEF QuietAction
  <2>2. CASE pc' # "final"
      BY <2>2, <1>6, WriteEventInv
  <2>3. QED
      BY <2>1, <2>2
<1>7. CASE NotSent
    BY <1>7, NotSentInv
<1>8. CASE ReadAck
    BY <1>8, ReadAckInv
<1>9. CASE GetAutoCursor
    BY <1>9, GetAutoCursorInv
<1>10. CASE Receive \/ Disconnect
    BY <1>10, ReceiveInv, DisconnectInv
<1>11. QED
    BY <1>1, <1>2, <1>3, <1>4, <1>5, <1>6, <1>7, <1>8, <1>9, <1>10
    DEF NextOutput, OutputStep, ReaderStep, QuietAction

\* The cursor, and with it the file, never passes an event that the receiver has
\* not taken (Output.cpp: AckQueue::Ack, UpdateCursor), whatever the order of the
\* acks, the filtered events, the lost connections and the restarts; but for the
\* auto cursor taken when a connection ends.
THEOREM NothingSkipped ==
    ASSUME IdsDiffer, InTime
    PROVE  SpecOutput => []NoneSkipped
<1>1. InitOutput => Inv
    BY InitInv
<1>2. Inv /\ [NextOutput]_ovars => Inv'
    BY StepInv
<1>3. Inv => NoneSkipped
  <2>1. Inv => next \in Nat
      BY DEF Inv, Steady, TypeOK
  <2>2. QED
      BY <2>1 DEF Inv, Kept, NoneSkipped
<1>4. QED
    BY <1>1, <1>2, <1>3, PTL DEF SpecOutput

\* A step that moves the cursor back takes an auto cursor, when the connection
\* ends or with an ack whose id is not there.
LEMMA Backward ==
    ASSUME IdsDiffer, Inv, NextOutput, cursor' < cursor
    PROVE  /\ auto.have /\ cursor' = auto.cursor
           /\ reader = "auto" \/ \A e \in ids : e.id # Head(acks)
<1>0. ~(cursor < cursor) /\ TypeOK /\ Places
  <2>1. TypeOK /\ Places
      BY DEF Inv, Steady
  <2>2. QED
      BY <2>1 DEF TypeOK
<1>1. CASE ReadAck
    BY <1>1, AckFacts
<1>2. CASE GetAutoCursor
    BY <1>2, <1>0 DEF GetAutoCursor
<1>3. CASE Restart
  <2>1. cursor' = ReadCursor(file) /\ file = cursor /\ file >= -1
      BY <1>0, <1>3 DEF Restart, Places, TypeOK, AtEnd
  <2>2. cursor' = cursor
      BY <2>1 DEF ReadCursor, NoFile
  <2>3. QED
      BY <2>2, <1>0
<1>4. CASE cursor' = cursor
    BY <1>4, <1>0
<1>5. QED
  <2>1. ReadAck \/ GetAutoCursor \/ Restart \/ cursor' = cursor
    <3>1. OutputStep => Restart \/ cursor' = cursor
        BY DEF OutputStep, Connect, Begin, ResetAckQueue, GetNow, GetWait, GetWake, GetTimeout, Take,
               Discard, Filter, Accept, AddAck, AckTimeout, WriteEvent, NotSent, SkipNotSent, Leave,
               CloseWriter, JoinThreads, OnStop, cw
    <3>2. QED
        BY <3>1 DEF NextOutput, ReaderStep, ConnectionLost, CloseAckQueue, WriteCursor, StopOutput,
                    OnStopping, QueuePut, QueueDrop, Receive, Disconnect, cw
  <2>2. QED
      BY <2>1, <1>1, <1>2, <1>3, <1>4

\* Acks and restarts move the cursor only forward (Output.cpp: AckQueue::Ack,
\* CursorWriter::Read); what moves it back is an auto cursor from before the
\* last ack.
THEOREM OnlyForward ==
    ASSUME IdsDiffer, InTime
    PROVE  SpecOutput => CursorForward
<1>1. InitOutput => Inv
    BY InitInv
<1>2. Inv /\ [NextOutput]_ovars => Inv'
    BY StepInv
<1>3. Inv /\ [NextOutput]_ovars =>
        [cursor' < cursor =>
           /\ auto.have /\ cursor' = auto.cursor
           /\ reader = "auto" \/ \A e \in ids : e.id # Head(acks)]_ovars
    BY Backward
<1>4. QED
    BY <1>1, <1>2, <1>3, PTL DEF SpecOutput, CursorForward
=============================================================================
