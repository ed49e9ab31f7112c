------------------------------- MODULE Inputs -------------------------------
(***************************************************************************)
(* The connections of auoms and its end: Inputs accepts collectors and      *)
(* keeps a table of its Input threads by file descriptor; the signal thread *)
(* and the main thread both stop it; OperationalStatus tells whoever asks   *)
(* whether a collector is connected.  What the Inputs do with their events *)
(* is in InputBuffer, and what Start, Stop and Wait do in RunBase.          *)
(***************************************************************************)
EXTENDS InputBuffer, SequencesExt

CONSTANTS
  Order,  \* the connections in the order in which they come
  Fds     \* file descriptors that accept may return, numbers

ASSUME ThreadsAndCallers ==
  /\ Order \in Seq(Conns) \ {<<>>} /\ ToSet(Order) = Conns /\ Fds \subseteq Nat \ {0}
  /\ "inputs" \notin Conns /\ Threads = Conns \cup {"inputs"}
  /\ Callers = {"main", "signal", "inputs"}

VARIABLES
  table,   \* _inputs: the Input of each file descriptor
  clean,   \* _inputs_to_clean
  fd,      \* per Input: the file descriptor of its connection
  acc,     \* where Inputs' own thread is
  new,     \* the Input whose connection was accepted last
  listens, \* the listening socket of Inputs is open
  error,   \* _error_conditions has "No collectors connected!"
  asked,   \* the status listener has somebody to answer
  exit,    \* Signals::_exit
  signal,  \* where the signal thread is
  orphan   \* ghost: an Input was started that is not in the table

tvars == <<table, clean, fd, acc, new>>
svars == <<listens, error, asked>>
evars == <<exit, signal, orphan>>
vars == <<ibvars, tvars, svars, evars>>

InitInputs ==
  /\ InitRunBase({"inputs"}) /\ InitInputBuffer
  /\ table = [f \in {} |-> f] /\ clean = <<>> /\ fd = [i \in Conns |-> 0]
  /\ acc = "accept" /\ new = Head(Order)
  /\ listens = TRUE /\ error = TRUE /\ asked = FALSE
  /\ exit = FALSE /\ signal = "wait" /\ orphan = FALSE

\* The mutexes that are held over several steps: by add_connection and the end
\* of on_stop, and by OperationalStatus::on_stopping.
InputsLocked == acc \in {"add", "last"}
StatusLocked == main = "listener"

-----------------------------------------------------------------------------
(* Inputs: accepting *)

InUse == {fd[i] : i \in {j \in Conns : open[j]}}

\* A collector connects.  File descriptors not used before come in order.
Accept ==
  /\ acc = "accept" /\ listens /\ ~life["inputs"].stop
  /\ \E k \in DOMAIN Order, f \in Fds \ InUse :
        /\ fd[Order[k]] = 0 /\ \A j \in 1 .. k - 1 : fd[Order[j]] # 0
        /\ \A g \in Fds : g < f => \E i \in Conns : fd[i] = g
        /\ fd' = [fd EXCEPT ![Order[k]] = f] /\ open' = [open EXCEPT ![Order[k]] = TRUE]
        /\ new' = Order[k]
  /\ acc' = "accepted"
  /\ UNCHANGED <<bvars, pc, sent, ovars, rvars, table, clean, svars, evars>>

\* The connection is closed if Inputs is being stopped.
Accepted ==
  /\ acc = "accepted"
  /\ IF life["inputs"].stop
     THEN acc' = "accept" /\ open' = [open EXCEPT ![new] = FALSE]
     ELSE acc' = "add" /\ UNCHANGED open
  /\ UNCHANGED <<bvars, pc, sent, ovars, rvars, table, clean, fd, new, svars, evars>>

\* cleanup: those that have left are joined.
Cleanup ==
  /\ InputsLocked /\ clean # <<>>
  /\ StopBegin("inputs", Head(clean))
  /\ clean' = Tail(clean)
  /\ UNCHANGED <<bvars, ivars, ovars, table, fd, acc, new, svars, evars>>

\* insert leaves an entry as it is.  An Input that is not in the table loses its
\* only owner, and its thread runs in an object that was destroyed.
AddConnection ==
  /\ acc = "add" /\ clean = <<>> /\ Idle("inputs") /\ ~StatusLocked
  /\ orphan' = (fd[new] \in DOMAIN table)
  /\ table' = [f \in DOMAIN table \cup {fd[new]} |-> IF f \in DOMAIN table THEN table[f] ELSE new]
  /\ Start(new) /\ pc' = [pc EXCEPT ![new] = "begin"]
  /\ error' = FALSE
  /\ acc' = "accept"
  /\ UNCHANGED <<bvars, sent, open, ovars, call, clean, fd, new, listens, asked, exit, signal>>

\* The socket was closed, or IsStopping.
InputsRunReturns ==
  /\ acc = "accept" /\ (~listens \/ life["inputs"].stop)
  /\ RunReturns("inputs")
  /\ acc' = "on_stop"
  /\ UNCHANGED <<bvars, ivars, ovars, table, clean, fd, new, svars, evars>>

-----------------------------------------------------------------------------
(* Inputs: on_stop *)

CloseBuffer ==
  /\ acc = "on_stop" /\ acc' = "drain"
  /\ close' = TRUE
  /\ UNCHANGED <<data, data_size, has_writer, ivars, ovars, rvars, table, clean, fd, new, svars, evars>>

\* The first one in the table is stopped, without the lock, until it has left.
StopInput ==
  /\ acc = "drain"
  /\ table # <<>> /\ StopBegin("inputs", table[CHOOSE f \in DOMAIN table : TRUE])
  /\ UNCHANGED <<bvars, ivars, ovars, tvars, svars, evars>>

Drained ==
  /\ acc = "drain" /\ Idle("inputs") /\ table = <<>>
  /\ acc' = "last"
  /\ UNCHANGED <<bvars, ivars, ovars, rvars, table, clean, fd, new, svars, evars>>

InputsEnds ==
  /\ acc = "last" /\ clean = <<>> /\ Idle("inputs")
  /\ ThreadEnds("inputs")
  /\ acc' = "gone"
  /\ UNCHANGED <<bvars, ivars, ovars, table, clean, fd, new, svars, evars>>

InputsThread ==
  \/ Accepted \/ Cleanup \/ AddConnection \/ InputsRunReturns
  \/ CloseBuffer \/ StopInput \/ Drained \/ InputsEnds

-----------------------------------------------------------------------------
(* An Input's thread *)

InputStep(i) == InputRun(i) /\ UNCHANGED <<tvars, svars, evars>>

InputRunReturns(i) ==
  /\ pc[i] = "left" /\ RunReturns(i)
  /\ UNCHANGED <<bvars, ivars, ovars, tvars, svars, evars>>

\* Mutant: the table is not looked at before the error is set.
RemoveConnection_SetsError(i) ==
  /\ ~InputsLocked /\ ThreadEnds(i)
  /\ table' = [f \in DOMAIN table \ {fd[i]} |-> table[f]]
  /\ clean' = IF fd[i] \in DOMAIN table THEN Append(clean, table[fd[i]]) ELSE clean
  /\ ~StatusLocked /\ error' = TRUE
  /\ UNCHANGED <<bvars, ivars, ovars, fd, acc, new, listens, asked, evars>>

\* on_stop, and the thread ends.
RemoveConnection(i) ==
  /\ ~InputsLocked /\ ThreadEnds(i)
  /\ table' = [f \in DOMAIN table \ {fd[i]} |-> table[f]]
  /\ clean' = IF fd[i] \in DOMAIN table THEN Append(clean, table[fd[i]]) ELSE clean
  /\ (table' = <<>> => ~StatusLocked) /\ error' = (error \/ table' = <<>>)
  /\ UNCHANGED <<bvars, ivars, ovars, fd, acc, new, listens, asked, evars>>

InputThread(i) == InputStep(i) \/ InputRunReturns(i) \/ RemoveConnection(i)

CollectorLeaves(i) == Leaves(i) /\ UNCHANGED <<tvars, svars, evars>>

-----------------------------------------------------------------------------
(* The signal thread *)

\* When main has left its loop, a signal adds nothing to one that came before.
Terminate ==
  /\ main \in {"loop", "handle"}
  /\ ~exit /\ exit' = TRUE /\ signal' = "exit"
  /\ UNCHANGED <<ibvars, tvars, svars, orphan>>

SignalStopsInputs ==
  /\ signal = "exit" /\ ~InputsLocked /\ StopBegin("signal", "inputs")
  /\ signal' = "done"
  /\ UNCHANGED <<bvars, ivars, ovars, tvars, svars, exit, orphan>>

-----------------------------------------------------------------------------
(* Inside Stop *)

\* Inputs::on_stopping.
CloseSocket(c) ==
  /\ call[c].of = "inputs" /\ ~InputsLocked /\ StopSignal(c)
  /\ listens' = FALSE
  /\ UNCHANGED <<bvars, ivars, ovars, tvars, error, asked, evars>>

\* Input::on_stopping.
CloseConnection(c) ==
  /\ call[c].of \in Conns /\ StopSignal(c)
  /\ open' = [open EXCEPT ![call[c].of] = FALSE]
  /\ UNCHANGED <<bvars, pc, sent, ovars, tvars, svars, evars>>

Waits(c) ==
  /\ Joined(c) \/ Woken(c)
  /\ UNCHANGED <<bvars, ivars, ovars, tvars, svars, evars>>

WakesEarly(c) == Awaited(c) /\ UNCHANGED <<bvars, ivars, ovars, tvars, svars, evars>>

Calls(c) == CloseSocket(c) \/ CloseConnection(c) \/ Waits(c)

-----------------------------------------------------------------------------
(* The main thread *)

MainGoes(p) == main' = p /\ UNCHANGED <<bvars, ivars, handled, overlap, tvars, svars, evars>>

MainLoop == main = "loop" /\ ~exit /\ MainGoes("handle") /\ UNCHANGED rvars

\* After the loop, and after other components have been stopped.
StopInputs ==
  /\ main = "leave" \/ (main = "loop" /\ exit)
  /\ ~InputsLocked /\ StopBegin("main", "inputs") /\ MainGoes("inputs")

\* OperationalStatus::on_stopping: the listener is joined under the mutex.
StopStatus == main = "inputs" /\ Idle("main") /\ MainGoes("listener") /\ UNCHANGED rvars

\* The listener's thread ends when it is not answering.
ExitProcess == main = "listener" /\ ~asked /\ MainGoes("exit") /\ UNCHANGED rvars

MainStep ==
  \/ MainHandles /\ UNCHANGED <<tvars, svars, evars>>
  \/ MainLoop \/ StopInputs \/ StopStatus \/ ExitProcess

MainThrows == HandlerFails /\ UNCHANGED <<tvars, svars, evars>>

-----------------------------------------------------------------------------
(* The listener of OperationalStatus *)

\* An earlier question changes nothing unless it is not answered until then.
Ask ==
  /\ main = "inputs" /\ Idle("main") /\ ~asked /\ asked' = TRUE
  /\ UNCHANGED <<ibvars, tvars, listens, error, evars>>

\* GetErrors takes the mutex of OperationalStatus.
Answer ==
  /\ asked /\ ~StatusLocked /\ asked' = FALSE
  /\ UNCHANGED <<ibvars, tvars, listens, error, evars>>

-----------------------------------------------------------------------------
\* Nothing is said of what happens once an Input's object was destroyed.
Going == main # "exit" /\ ~orphan

Next ==
  /\ Going
  /\ \/ Accept \/ InputsThread
     \/ \E i \in Conns : InputThread(i) \/ CollectorLeaves(i)
     \/ Terminate \/ SignalStopsInputs \/ MainStep \/ MainThrows \/ Ask \/ Answer
     \/ \E c \in Callers : Calls(c) \/ WakesEarly(c)

Fairness ==
  /\ WF_vars(Going /\ InputsThread) /\ WF_vars(Going /\ SignalStopsInputs)
  /\ WF_vars(Going /\ MainStep) /\ WF_vars(Going /\ Answer)
  /\ \A i \in Conns : WF_vars(Going /\ InputThread(i))
  /\ \A c \in Callers : WF_vars(Going /\ Calls(c))

Spec == InitInputs /\ [][Next]_vars /\ Fairness
-----------------------------------------------------------------------------
(* Properties *)

\* Whoever asks is told that no collector is connected exactly when no Input
\* runs, and each Input that runs is in the table, where on_stop finds it to be
\* stopped, however connections come and go (Inputs.cpp:78-100).  Left out is a
\* connection that gets the file descriptor of one that is still in the table.
StatusTrue ==
  ~InputsLocked /\ ~orphan =>
    /\ error <=> table = <<>>
    /\ \A i \in Conns : life[i].thread \in {"run", "on_stop"} <=> \E f \in DOMAIN table : table[f] = i

\* on_stopping of OperationalStatus waits for the listener under the mutex that
\* the listener needs to answer.
Stuck == StatusLocked /\ asked

\* auoms ends once it was told to or its handler failed, whoever of the signal
\* thread and the main thread stops Inputs first and whatever its Inputs wait
\* for; unless it is Stuck.
ShutdownEnds == exit \/ main = "leave" ~> main = "exit" \/ orphan \/ Stuck
=============================================================================
