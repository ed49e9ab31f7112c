------------------------------- MODULE Output -------------------------------
(***************************************************************************)
(* One output in ack mode (Output.cpp, Output.h): the thread that takes    *)
(* events from the queue and sends them, the AckReader thread that takes   *)
(* the receiver's acks, the AckQueue between them and the CursorWriter     *)
(* thread that brings the cursor of the last acked event to its file.  The *)
(* receiver and the socket are external; a connection can be lost at any   *)
(* time with what is in flight.                                            *)
(*                                                                         *)
(* The queue is what module EventLog promises of it (Queue implements      *)
(* EventLog); a cursor is the id of the event it stands for.               *)
(***************************************************************************)
EXTENDS EventLog, FiniteSets, Sequences

CONSTANTS
  me,         \* the reader of the queue that is this output
  Logs,       \* the logs to try: sequences of [id, kind], see Kinds
  MaxSize,    \* AckQueue::_max_size
  FirstFiles, \* what the cursor file may hold at first
  Capacity,   \* bound: the queue gives no event up before it holds as many
  MaxLosses,  \* bound on the connections lost and the ack timeouts
  MaxStops    \* bound on the stops and restarts of the output

\* What becomes of an event: it is written to the socket, the writer has
\* nothing to write for it (NOOP), or _event_filter drops it.
Kinds == {"send", "noop", "filter"}

\* The cursor file does not exist.
NoFile == -3

ASSUME OutputConstants ==
  /\ Getters = {me}
  /\ MaxSize \in Nat \ {0}
  /\ FirstFiles \subseteq {NoFile, 0}
  /\ \A l \in Logs : /\ Len(l) \in Nat /\ DOMAIN l = 1 .. Len(l)
                     /\ \A n \in DOMAIN l : l[n].kind \in Kinds

VARIABLES
  events,   \* the log of this behaviour
  pc,       \* where Output::run is
  reader,   \* where AckReader::run is
  stopping, \* _stop
  wclosed,  \* on_stopping has closed the writing side of the connection
  ids,      \* _event_ids: event ids with their seq
  cursors,  \* _cursors: seq, event id and cursor of the events not acked
  next_seq,
  auto,     \* _have_auto_cursor, _auto_cursor_seq and _auto_cursor
  aclosed,  \* AckQueue::_closed
  writing,  \* CursorWriter runs
  updated,  \* _cursor_updated
  cursor,   \* CursorWriter::_cursor
  file,     \* the cursor file
  is_open,  \* _writer->IsOpen()
  peer,     \* the receiver still has its end of the connection
  wire,     \* events written and not read by the receiver
  acks,     \* acks written by the receiver and not read
  received, \* ghost: the events the receiver has taken
  owed,     \* ghost: the first event this output got, 0 for none
  jumped,   \* ghost: the cursor may have passed events that were not taken
  losses, stops

log == <<vars, events>>
stop == <<stopping, wclosed, stops>>
ackq == <<ids, cursors, next_seq, auto, aclosed>>
cw == <<writing, updated, cursor, file>>
link == <<is_open, peer, wire, acks, losses>>
ghosts == <<received, owed, jumped>>
ovars == <<log, pc, reader, stop, ackq, cw, link, ghosts>>

-----------------------------------------------------------------------------
NoAuto == [have |-> FALSE, seq |-> 0, cursor |-> 0]

\* Mutant: what was read is not copied to _cursor.
ReadCursor_NoData(f) == IF f = NoFile THEN AtEnd ELSE 0

\* CursorWriter::Read: without a file the output starts at the end of the queue.
ReadCursor(f) == IF f = NoFile THEN AtEnd ELSE f

InitOutput ==
  /\ oldest = 1 /\ next = 1
  /\ awaits = [g \in Getters |-> 0]
  /\ events \in Logs
  /\ pc = "connect" /\ reader = "off"
  /\ stopping = FALSE /\ wclosed = FALSE /\ stops = 0
  /\ ids = {} /\ cursors = {} /\ next_seq = 0 /\ auto = NoAuto /\ aclosed = FALSE
  /\ writing = FALSE /\ updated = FALSE
  /\ file \in FirstFiles /\ cursor = ReadCursor(file)
  /\ at = [g \in Getters |-> cursor]
  /\ is_open = FALSE /\ peer = FALSE /\ wire = <<>> /\ acks = <<>> /\ losses = 0
  /\ received = {} /\ owed = 0 /\ jumped = FALSE

-----------------------------------------------------------------------------
(* AckQueue *)

Lowest(s) == CHOOSE c \in s : \A d \in s : c.seq <= d.seq
Highest(s) == CHOOSE c \in s : \A d \in s : d.seq <= c.seq

\* An id that is there already keeps its seq.
Add(id, n) ==
  /\ ids' = IF \E e \in ids : e.id = id THEN ids
            ELSE ids \cup {[id |-> id, seq |-> next_seq]}
  /\ cursors' = cursors \cup {[seq |-> next_seq, id |-> id, cursor |-> n]}
  /\ next_seq' = next_seq + 1
  /\ UNCHANGED <<auto, aclosed>>

SetAutoCursor(n) ==
  /\ auto' = [have |-> TRUE, seq |-> next_seq, cursor |-> n]
  /\ next_seq' = next_seq + 1
  /\ UNCHANGED <<ids, cursors, aclosed>>

Remove(id) ==
  LET hit == {e \in ids : e.id = id}
  IN  /\ ids' = ids \ hit
      /\ cursors' = {c \in cursors : \A e \in hit : c.seq # e.seq}
      /\ UNCHANGED <<next_seq, auto, aclosed>>

ResetAcks ==
  ids' = {} /\ cursors' = {} /\ next_seq' = 0 /\ auto' = NoAuto /\ aclosed' = FALSE

\* Mutant: the auto cursor may always be taken.
AutoFree_Always(left) == TRUE

\* No event older than the auto cursor waits for its ack.
AutoFree(left) == left = {} \/ Lowest(left).seq > auto.seq

\* Ack, and UpdateCursor if it found one: the cursor moves to the acked event,
\* or to the auto cursor when that is further on.
Ack(id) ==
  LET hit == {e \in ids : e.id = id}
      gone == {c \in cursors : \E e \in hit : c.seq <= e.seq}
      left == cursors \ gone
      byAuto == /\ auto.have
                /\ gone = {} \/ \A e \in hit : auto.seq > e.seq
                /\ AutoFree(left)
  IN  /\ cursors' = left
      /\ ids' = {e \in ids \ hit : \A c \in gone : c.id # e.id}
      /\ auto' = IF byAuto THEN [auto EXCEPT !.have = FALSE] ELSE auto
      /\ cursor' = IF byAuto THEN auto.cursor
                   ELSE IF gone = {} THEN cursor ELSE Highest(gone).cursor
      /\ updated' = (updated \/ byAuto \/ gone # {})
      /\ UNCHANGED <<next_seq, aclosed>>

-----------------------------------------------------------------------------
(* The output thread: check_open, handle_events and run *)

Goto(p) == pc' = p

Connect ==
  /\ pc = "connect" /\ ~stopping
  /\ Goto("begin")
  /\ is_open' = TRUE /\ peer' = TRUE /\ wire' = <<>> /\ acks' = <<>>
  /\ wclosed' = FALSE
  /\ UNCHANGED <<log, reader, stopping, stops, ackq, cw, losses, ghosts>>

\* Mutant: the output goes on after the last event it has read.
Begin_GoesOn ==
  /\ pc = "begin" /\ Goto("reset")
  /\ writing' = TRUE
  /\ reader' = "read"
  /\ jumped' = (jumped \/ (cursor = AtEnd /\ owed # 0))
  /\ UNCHANGED <<log, stop, ackq, updated, cursor, file, link, received, owed>>

\* The output goes back to the last acked event, and the AckReader starts
\* before the AckQueue is reset.
Begin ==
  /\ pc = "begin" /\ Goto("reset")
  /\ at' = [at EXCEPT ![me] = cursor]
  /\ writing' = TRUE
  /\ reader' = "read"
  /\ jumped' = (jumped \/ (cursor = AtEnd /\ owed # 0))
  /\ UNCHANGED <<oldest, next, awaits, events, stop, ackq, updated, cursor, file, link,
                 received, owed>>

ResetAckQueue ==
  /\ pc = "reset" /\ Goto("loop")
  /\ ResetAcks
  /\ UNCHANGED <<log, reader, stop, cw, link, ghosts>>

\* Get is called, but after a TIMEOUT ("again") without a look at _stop.
Getting == is_open /\ ((pc = "loop" /\ ~stopping) \/ pc = "again")

Take ==
  /\ Goto("got")
  /\ owed' = IF owed = 0 THEN at'[me] ELSE owed
  /\ UNCHANGED <<events, reader, stop, ackq, cw, link, received, jumped>>

GetNow == Getting /\ Read(me) /\ Take

GetWait ==
  /\ Getting /\ Await(me)
  /\ Goto("wait")
  /\ UNCHANGED <<events, reader, stop, ackq, cw, link, ghosts>>

GetWake == pc = "wait" /\ Awake(me) /\ Take

GetTimeout ==
  /\ pc = "wait" /\ awaits[me] = next
  /\ GiveUp(me)
  /\ Goto("again")
  /\ UNCHANGED <<events, reader, stop, ackq, cw, link, ghosts>>

\* The event in hand is at[me], the cursor that Get returned with it.
Event == events[at[me]]

Discard ==
  /\ pc = "got" /\ (~is_open \/ stopping)
  /\ Goto("loop")
  /\ UNCHANGED <<log, reader, stop, ackq, cw, link, ghosts>>

Filter ==
  /\ pc = "got" /\ is_open /\ ~stopping /\ Event.kind = "filter"
  /\ SetAutoCursor(at[me])
  /\ Goto("loop")
  /\ UNCHANGED <<log, reader, stop, cw, link, ghosts>>

Accept ==
  /\ pc = "got" /\ is_open /\ ~stopping /\ Event.kind # "filter"
  /\ Goto("add")
  /\ UNCHANGED <<log, reader, stop, ackq, cw, link, ghosts>>

\* A closed AckQueue takes the event, whatever its size.
AddAck ==
  /\ pc = "add" /\ (aclosed \/ Cardinality(ids) < MaxSize)
  /\ Add(Event.id, at[me])
  /\ Goto("write")
  /\ UNCHANGED <<log, reader, stop, cw, link, ghosts>>

AckTimeout ==
  /\ pc = "add" /\ ~aclosed /\ Cardinality(ids) >= MaxSize
  /\ losses < MaxLosses /\ losses' = losses + 1
  /\ Goto("final")
  /\ UNCHANGED <<log, reader, stop, ackq, cw, is_open, peer, wire, acks, ghosts>>

WriteEvent ==
  /\ pc = "write" /\ Event.kind = "send"
  /\ IF is_open /\ peer /\ ~wclosed
     THEN wire' = wire \o <<at[me]>> /\ Goto("loop")
     ELSE UNCHANGED wire /\ Goto("final")
  /\ UNCHANGED <<log, reader, stop, ackq, cw, is_open, peer, acks, losses, ghosts>>

NotSent ==
  /\ pc = "write" /\ Event.kind = "noop"
  /\ Remove(Event.id)
  /\ Goto("skip")
  /\ UNCHANGED <<log, reader, stop, cw, link, ghosts>>

SkipNotSent ==
  /\ pc = "skip"
  /\ SetAutoCursor(at[me])
  /\ Goto("loop")
  /\ UNCHANGED <<log, reader, stop, cw, link, ghosts>>

\* Wait(100) of the AckQueue may end before the last acks arrive.
Leave ==
  /\ (pc = "loop" /\ stopping) \/ (pc \in {"loop", "again"} /\ ~is_open)
  /\ Goto("final")
  /\ UNCHANGED <<log, reader, stop, ackq, cw, link, ghosts>>

CloseWriter ==
  /\ pc = "final" /\ Goto("join")
  /\ is_open' = FALSE
  /\ UNCHANGED <<log, reader, stop, ackq, cw, peer, wire, acks, losses, ghosts>>

\* _ack_reader->Stop and _cursor_writer->Stop, which writes the cursor.
JoinThreads ==
  /\ pc = "join" /\ reader = "end"
  /\ reader' = "off"
  /\ writing' = FALSE /\ updated' = FALSE /\ file' = cursor
  /\ Goto("connect")
  /\ UNCHANGED <<log, stop, ackq, cursor, link, ghosts>>

OnStop ==
  /\ pc = "connect" /\ stopping
  /\ file' = cursor
  /\ Goto("stopped")
  /\ UNCHANGED <<log, reader, stop, ackq, writing, updated, cursor, link, ghosts>>

\* The program or the output is started again, with a new AckQueue.
Restart ==
  /\ pc = "stopped" /\ wclosed
  /\ Goto("connect")
  /\ stopping' = FALSE /\ wclosed' = FALSE
  /\ cursor' = ReadCursor(file)
  /\ ResetAcks
  /\ UNCHANGED <<log, reader, stops, writing, updated, file, link, ghosts>>

-----------------------------------------------------------------------------
(* The AckReader thread, the CursorWriter thread and Stop *)

ReadAck ==
  /\ reader = "read" /\ is_open /\ acks # <<>>
  /\ Ack(Head(acks))
  /\ acks' = Tail(acks)
  /\ UNCHANGED <<log, pc, reader, stop, writing, file, is_open, peer, wire, losses, ghosts>>

\* Mutant: the reader goes on until the receiver closes the connection.
ConnectionLost_Remote ==
  /\ reader = "read" /\ ~peer /\ acks = <<>>
  /\ is_open' = FALSE
  /\ reader' = "auto"
  /\ UNCHANGED <<log, pc, stop, ackq, cw, peer, wire, acks, losses, ghosts>>

ConnectionLost ==
  /\ reader = "read" /\ (~is_open \/ (~peer /\ acks = <<>>))
  /\ is_open' = FALSE
  /\ reader' = "auto"
  /\ UNCHANGED <<log, pc, stop, ackq, cw, peer, wire, acks, losses, ghosts>>

\* The event is no longer owed to the receiver.
Settled(n) ==
  n \in DOMAIN events => n \in received \/ n < oldest \/ events[n].kind # "send"

\* GetAutoCursor does not look at the events that still wait for their acks:
\* jumped says whether the receiver has not taken one of those it passes.
GetAutoCursor ==
  /\ reader = "auto" /\ reader' = "close"
  /\ IF auto.have
     THEN /\ auto' = [auto EXCEPT !.have = FALSE]
          /\ cursor' = auto.cursor /\ updated' = TRUE
     ELSE UNCHANGED <<auto, cursor, updated>>
  /\ jumped' = (jumped \/ (auto.have /\ \E n \in owed .. auto.cursor : ~Settled(n)))
  /\ UNCHANGED <<log, pc, stop, ids, cursors, next_seq, aclosed, writing, file, link,
                 received, owed>>

CloseAckQueue ==
  /\ reader = "close" /\ reader' = "end"
  /\ aclosed' = TRUE
  /\ UNCHANGED <<log, pc, stop, ids, cursors, next_seq, auto, cw, link, ghosts>>

\* Mutant: _cursor_updated is reset and nothing written.
WriteCursor_Lost ==
  /\ writing /\ updated
  /\ updated' = FALSE
  /\ UNCHANGED <<log, pc, reader, stop, ackq, writing, cursor, file, link, ghosts>>

WriteCursor ==
  /\ writing /\ updated
  /\ file' = cursor /\ updated' = FALSE
  /\ UNCHANGED <<log, pc, reader, stop, ackq, writing, cursor, link, ghosts>>

StopOutput ==
  /\ ~stopping /\ stops < MaxStops
  /\ stopping' = TRUE /\ stops' = stops + 1
  /\ UNCHANGED <<log, pc, reader, wclosed, ackq, cw, link, ghosts>>

\* on_stopping: only a Get that already waits is interrupted.
OnStopping ==
  /\ stopping /\ ~wclosed
  /\ wclosed' = TRUE /\ aclosed' = TRUE
  /\ IF pc = "wait" THEN GiveUp(me) /\ Goto("loop") ELSE UNCHANGED <<vars, pc>>
  /\ UNCHANGED <<events, reader, stopping, stops, ids, cursors, next_seq, auto, cw, link,
                 ghosts>>

-----------------------------------------------------------------------------
(* The queue, the receiver and the connection *)

QueuePut ==
  /\ next <= Len(events) /\ PutEvent
  /\ UNCHANGED <<events, pc, reader, stop, ackq, cw, link, ghosts>>

QueueDrop ==
  /\ next - oldest > Capacity /\ Drop
  /\ UNCHANGED <<events, pc, reader, stop, ackq, cw, link, ghosts>>

\* The receiver acks each event after it has taken it.
Receive ==
  /\ peer /\ wire # <<>>
  /\ received' = received \cup {Head(wire)}
  /\ acks' = acks \o <<events[Head(wire)].id>>
  /\ wire' = Tail(wire)
  /\ UNCHANGED <<log, pc, reader, stop, ackq, cw, is_open, peer, losses, owed, jumped>>

\* The receiver goes away; acks on their way may be lost with it.
Disconnect ==
  /\ is_open /\ peer /\ losses < MaxLosses
  /\ peer' = FALSE /\ wire' = <<>> /\ losses' = losses + 1
  /\ \E k \in 0 .. Len(acks) : acks' = SubSeq(acks, 1, k)
  /\ UNCHANGED <<log, pc, reader, stop, ackq, cw, is_open, ghosts>>

-----------------------------------------------------------------------------
OutputStep ==
  \/ Connect \/ Begin \/ ResetAckQueue
  \/ GetNow \/ GetWait \/ GetWake \/ GetTimeout
  \/ Discard \/ Filter \/ Accept \/ AddAck \/ AckTimeout
  \/ WriteEvent \/ NotSent \/ SkipNotSent
  \/ Leave \/ CloseWriter \/ JoinThreads \/ OnStop \/ Restart

ReaderStep == ReadAck \/ ConnectionLost \/ GetAutoCursor \/ CloseAckQueue

NextOutput ==
  \/ OutputStep \/ ReaderStep \/ WriteCursor
  \/ StopOutput \/ OnStopping
  \/ QueuePut \/ QueueDrop \/ Receive \/ Disconnect

SpecOutput ==
  /\ InitOutput /\ [][NextOutput]_ovars
  /\ WF_ovars(OutputStep) /\ WF_ovars(ReaderStep) /\ WF_ovars(WriteCursor)
  /\ WF_ovars(OnStopping) /\ WF_ovars(QueuePut) /\ WF_ovars(Receive)

-----------------------------------------------------------------------------
(* Properties *)

Passed(n) == owed # 0 /\ owed <= n /\ (n <= cursor \/ n <= file)

\* The cursor never passes an event that the receiver has not taken, whatever
\* the order of acks, filtered events and connections: AckQueue::Ack holds the
\* auto cursor back while an older event waits (Output.cpp:134-146), and a late
\* ack does not reach past what it acks.  Left out, by jumped, are the auto cursor
\* that the end of a connection takes past such an event (Output.cpp:277-280), and
\* a connection that begins at HEAD again, because none was acked in the one before
\* and there was no cursor file (Output.cpp:164, 443).  An id may come twice, but not
\* three times: then the ack of the second event finds the entry of the third in
\* _event_ids.
NoneSkipped == ~jumped => \A n \in 1 .. next - 1 : Passed(n) => Settled(n)

\* Neither an ack nor a restart moves the cursor back, however acks, filtered
\* events, connections and the writes of the file interleave.  Only an auto
\* cursor left over from before the last ack does: when the connection ends, or
\* with an ack whose id is not there.
CursorForward ==
  [][cursor' < cursor =>
       /\ auto.have /\ cursor' = auto.cursor
       /\ reader = "auto" \/ \A e \in ids : e.id # Head(acks)]_ovars

\* Every event that the output got is sent until the receiver takes it.
EventuallySettled ==
  \A n \in UNION {DOMAIN l : l \in Logs} :
    (owed # 0 /\ owed <= n /\ n < next) ~> (jumped \/ Settled(n))

\* In the end the cursor file is at every event that is sent, or past it, so
\* that a restart does not send it again.  Events without an ack that come after
\* the last of these need not be in it: their auto cursor waits for the next ack.
CursorSaved ==
  \A n \in UNION {DOMAIN l : l \in Logs} :
    (owed # 0 /\ owed <= n /\ n < next /\ events[n].kind = "send") ~> (jumped \/ file >= n)

\* Stop ends, unless its Interrupt came between the look at _stop and Get: then
\* the loop around Get goes on while the connection is there.
StopEnds ==
  stopping ~> (~stopping \/ pc = "stopped" \/ [](pc \in {"wait", "again"}))
=============================================================================
