---------------------------- MODULE InputBuffer ----------------------------
(***************************************************************************)
(* How auoms takes events from its collectors (Input.cpp, InputBuffer.h):  *)
(* one Input thread per connection reads an event into a buffer that all   *)
(* Inputs share, waits until the main thread has handled it, and writes    *)
(* the ack to its connection.                                              *)
(*                                                                         *)
(* An Input fills the buffer without holding _mutex, so the buffer is      *)
(* modelled in two parts that are written one after the other.  A          *)
(* collector sends events 1, 2, .. on its connection and may go away at    *)
(* any time.  Who starts and stops Inputs and their threads is in Inputs.  *)
(***************************************************************************)
EXTENDS RunBase, Sequences

CONSTANTS
  Conns,    \* the Inputs, one per connection
  Quota     \* bound: the number of events each of their collectors sends

ASSUME QuotaType == Quota \in [Conns -> Nat]

VARIABLES
  data,       \* _data: the event in each part of the buffer
  data_size,  \* _data_size: 0, or 1 while an event waits for the handler
  has_writer, \* _has_writer
  close,      \* _close
  pc,         \* per Input: where run is
  open,       \* per Input: its end of the connection is open
  sent,       \* per Input: events read from its connection
  main,       \* where the main thread is
  handled,    \* ghost: per Input, the last event that was handled whole
  overlap     \* ghost: two Inputs have used the buffer at the same time

bvars == <<data, data_size, has_writer, close>>
ivars == <<pc, sent, open>>
ovars == <<main, handled, overlap>>
ibvars == <<bvars, ivars, ovars, rvars>>

-----------------------------------------------------------------------------
Nothing == <<"none", 0>>

\* An Input has the buffer from BeginWrite until CommitWrite or AbandonWrite returns.
UsesBuffer(i) == pc[i] \in {"read", "fill", "commit", "wait", "ack"}

InitInputBuffer ==
  /\ data = <<Nothing, Nothing>>
  /\ data_size = 0 /\ has_writer = FALSE /\ close = FALSE
  /\ pc = [i \in Conns |-> "none"]
  /\ sent = [i \in Conns |-> 0]
  /\ open = [i \in Conns |-> FALSE]
  /\ main = "loop"
  /\ handled = [i \in Conns |-> 0]
  /\ overlap = FALSE

Goto(i, p) == pc' = [pc EXCEPT ![i] = p] /\ UNCHANGED open

\* run ends after on_stopping, which closes the connection.
Leave(i) == pc' = [pc EXCEPT ![i] = "left"] /\ open' = [open EXCEPT ![i] = FALSE]

-----------------------------------------------------------------------------
(* Input::run *)

\* Nothing is written to has_writer: the next BeginWrite does not wait for this
\* one to be done.  An Input that runs is stopped only once the buffer is closed,
\* so one that waits here then leaves too.
BeginWrite(i) ==
  /\ pc[i] = "begin" /\ ~life[i].stop
  /\ \/ ~close /\ ~has_writer /\ data_size = 0 /\ Goto(i, "read")
     \/ close /\ Leave(i)
  /\ overlap' = (overlap \/ (~close /\ \E j \in Conns \ {i} : UsesBuffer(j)))
  /\ UNCHANGED <<bvars, sent, main, handled, rvars>>

Connected(i) == open[i] /\ ~life[i].stop

\* ReadEvent: the header, then the rest of the event.
ReadHeader(i) ==
  /\ pc[i] = "read" /\ Connected(i) /\ sent[i] < Quota[i]
  /\ sent' = [sent EXCEPT ![i] = @ + 1]
  /\ data' = [data EXCEPT ![1] = <<i, sent'[i]>>]
  /\ Goto(i, "fill")
  /\ UNCHANGED <<data_size, has_writer, close, ovars, rvars>>

ReadRest(i) ==
  /\ pc[i] = "fill" /\ Connected(i)
  /\ data' = [data EXCEPT ![2] = <<i, sent[i]>>]
  /\ Goto(i, "commit")
  /\ UNCHANGED <<data_size, has_writer, close, sent, ovars, rvars>>

Abandon(i) ==
  /\ pc[i] \in {"read", "fill"}
  /\ has_writer' = FALSE /\ data_size' = 0
  /\ Leave(i)
  /\ UNCHANGED <<data, close, sent, ovars, rvars>>

\* The Input is stopped while it reads.
AbandonWrite(i) == ~Connected(i) /\ Abandon(i)

\* Mutant: the size is not set.
CommitWrite_Empty(i) ==
  /\ pc[i] = "commit"
  /\ Goto(i, "wait")
  /\ UNCHANGED <<bvars, sent, ovars, rvars>>

CommitWrite(i) ==
  /\ pc[i] = "commit"
  /\ has_writer' = FALSE /\ data_size' = 1
  /\ Goto(i, "wait")
  /\ UNCHANGED <<data, close, sent, ovars, rvars>>

\* Mutant: _close is not looked at.
CommitReturns_NoClose(i) ==
  /\ pc[i] = "wait" /\ data_size = 0
  /\ Goto(i, "ack")
  /\ UNCHANGED <<bvars, sent, ovars, rvars>>

CommitReturns(i) ==
  /\ pc[i] = "wait"
  /\ (close /\ Leave(i)) \/ (~close /\ data_size = 0 /\ Goto(i, "ack"))
  /\ UNCHANGED <<bvars, sent, ovars, rvars>>

\* The id in the ack comes from the buffer.
WriteAck(i) ==
  /\ pc[i] = "ack"
  /\ IF Connected(i) THEN Goto(i, "begin") ELSE Leave(i)
  /\ UNCHANGED <<bvars, sent, ovars, rvars>>

LoopEnds(i) ==
  /\ pc[i] = "begin" /\ life[i].stop
  /\ Goto(i, "left")
  /\ UNCHANGED <<bvars, sent, ovars, rvars>>

\* The collector has closed its end, which is noticed when something is read or
\* written.
Leaves(i) ==
  \/ Abandon(i)
  \/ pc[i] = "ack" /\ Leave(i) /\ UNCHANGED <<bvars, sent, ovars, rvars>>

InputRun(i) ==
  \/ BeginWrite(i) \/ ReadHeader(i) \/ ReadRest(i) \/ AbandonWrite(i)
  \/ CommitWrite(i) \/ CommitReturns(i) \/ WriteAck(i) \/ LoopEnds(i)

-----------------------------------------------------------------------------
(* The main thread *)

Handles == handled' = IF data[1] = data[2] THEN [handled EXCEPT ![data[1][1]] = data[1][2]] ELSE handled

\* Mutant: the event stays in the buffer.
HandleData_Again ==
  /\ main = "handle" /\ data_size > 0
  /\ Handles
  /\ main' = "loop"
  /\ UNCHANGED <<bvars, ivars, overlap, rvars>>

HandleData ==
  /\ main = "handle" /\ data_size > 0
  /\ Handles
  /\ data_size' = 0
  /\ main' = "loop"
  /\ UNCHANGED <<data, has_writer, close, ivars, overlap, rvars>>

\* Nothing is there and nothing will come: it returns true nevertheless.
HandleReturns ==
  /\ main = "handle" /\ data_size = 0 /\ close
  /\ main' = "loop"
  /\ UNCHANGED <<bvars, ivars, handled, overlap, rvars>>

\* The handler throws: the loop is left with the event in the buffer.
HandlerFails ==
  /\ main = "handle" /\ data_size > 0
  /\ main' = "leave"
  /\ UNCHANGED <<bvars, ivars, handled, overlap, rvars>>

MainHandles == HandleData \/ HandleReturns

-----------------------------------------------------------------------------
(* Properties *)

\* While the Inputs take turns, the handler gets each event whole and once, in
\* the order of its connection, and an ack goes to the connection of its event
\* after that was handled (Input.cpp:64, RawEventReader.h:80).
InTurn ==
  [][~overlap =>
       /\ HandleData => data[1] = data[2] /\ data[1][2] = handled[data[1][1]] + 1
       /\ \A i \in Conns : pc[i] = "ack" /\ pc'[i] = "begin" =>
             data[1] = <<i, sent[i]>> /\ handled[i] = sent[i]]_ibvars

\* InputBuffer.h:48 "Wait until reader has handled data in buffer": when
\* CommitWrite has returned true, the event was handled and may be acked.
CommitWaitsForReader ==
  \A i \in Conns : pc[i] = "ack" => handled[i] = sent[i]

\* Every event that was read is handled, unless main leaves its loop; no Input
\* and no handler waits for the other for good.
GetsHandled ==
  \A i \in Conns : pc[i] = "commit" ~> (handled[i] = sent[i] \/ overlap \/ main \notin {"loop", "handle"})
=============================================================================
