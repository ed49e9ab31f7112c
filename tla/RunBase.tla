------------------------------- MODULE RunBase -------------------------------
(***************************************************************************)
(* The life of a thread object: Start, Stop and Wait, which several callers *)
(* may use at once, and what the thread does after run has returned.  What *)
(* run, on_stopping and on_stop do, and who else holds _run_mutex, is said  *)
(* by the module that extends this one.  Each object is started once.       *)
(***************************************************************************)
EXTENDS Naturals

CONSTANTS Threads, Callers

VARIABLES
  life,  \* per object: _stop, _stopped, _joining, _joined, and what its thread does
  call   \* per caller: the object it stops and where in Stop or Wait it is

rvars == <<life, call>>

Unstarted == [thread |-> "none", stop |-> TRUE, stopped |-> TRUE, joining |-> TRUE, joined |-> TRUE]
Started == [thread |-> "run", stop |-> FALSE, stopped |-> FALSE, joining |-> FALSE, joined |-> FALSE]

InitRunBase(running) ==
  /\ life = [t \in Threads |-> IF t \in running THEN Started ELSE Unstarted]
  /\ call = [c \in Callers |-> [of |-> "nobody", at |-> "idle"]]

Runs(t) == life[t].thread = "run"
Idle(c) == call[c].at = "idle"
Stops(c, at) == call[c].at = at
Moves(c, at) == call' = [call EXCEPT ![c].at = at]

-----------------------------------------------------------------------------
Start(t) ==
  /\ life[t].thread = "none"
  /\ life' = [life EXCEPT ![t] = Started]

\* run has returned, because of Stop or for its own reasons.
RunReturns(t) ==
  /\ Runs(t)
  /\ life' = [life EXCEPT ![t] = [@ EXCEPT !.thread = "on_stop", !.stop = TRUE, !.stopped = TRUE]]
  /\ UNCHANGED call

\* on_stop has returned, and the thread ends.
ThreadEnds(t) ==
  /\ life[t].thread = "on_stop"
  /\ life' = [life EXCEPT ![t].thread = "gone"]
  /\ UNCHANGED call

-----------------------------------------------------------------------------
(* Stop, called by c *)

\* Wait: the first one joins the thread.
Wait(c, t, stopped) ==
  /\ life' = [life EXCEPT ![t] = [@ EXCEPT !.stop = TRUE, !.joining = life[t].joining \/ stopped]]
  /\ call' = [call EXCEPT ![c] = [of |-> t, at |-> IF ~stopped THEN "on_stopping"
                                                  ELSE IF life[t].joining THEN "await" ELSE "join"]]

\* Only the first one to stop an object calls on_stopping.
StopBegin(c, t) == Idle(c) /\ Wait(c, t, life[t].stop)

\* on_stopping has returned, the thread gets a SIGQUIT and is waited for.
StopSignal(c) == Stops(c, "on_stopping") /\ Wait(c, call[c].of, TRUE)

\* What follows the call is the caller's.
Joined(c) ==
  /\ Stops(c, "join") /\ life[call[c].of].thread = "gone"
  /\ life' = [life EXCEPT ![call[c].of].joined = TRUE]
  /\ Moves(c, "idle")

\* Another one joins: _stopped is enough, before on_stop has run.  The end of
\* run wakes nobody after a Stop, only the one who joins does.
Awaited(c) ==
  /\ Stops(c, "await") /\ life[call[c].of].stopped
  /\ Moves(c, "idle")
  /\ UNCHANGED life

Woken(c) == Awaited(c) /\ life[call[c].of].joined
=============================================================================
