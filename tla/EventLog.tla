------------------------------ MODULE EventLog ------------------------------
(***************************************************************************)
(* What the queue promises to its users, whatever its buffer does: a log   *)
(* of numbered events of which a suffix is kept, and readers that each     *)
(* move through it in order.  A reader that finds nothing new awaits the   *)
(* next event; the promise to it ends when it comes back only after more   *)
(* than Slack events.                                                      *)
(***************************************************************************)
EXTENDS Integers

CONSTANTS Getters, Slack

VARIABLES
  oldest, next, \* the events kept are oldest .. next-1
  at,           \* per reader: the last event read, 0 for none yet,
                \* AtEnd to start with the next one, Overtaken
  awaits        \* per reader: the event it waits for, or 0

AtEnd == -1
Overtaken == -2

vars == <<oldest, next, at, awaits>>

Init ==
  /\ oldest = 1 /\ next = 1
  /\ at \in [Getters -> {0, AtEnd}]
  /\ awaits = [g \in Getters |-> 0]

PutEvent == next' = next + 1 /\ UNCHANGED <<oldest, at, awaits>>

Drop ==
  /\ oldest < next
  /\ oldest' = oldest + 1
  /\ UNCHANGED <<next, at, awaits>>

Clear == oldest' = next /\ UNCHANGED <<next, at, awaits>>

\* The event reader g is due: the one after the last it read, or the oldest.
Due(g) == IF at[g] = AtEnd THEN next
          ELSE IF at[g] + 1 < oldest THEN oldest ELSE at[g] + 1

Read(g) ==
  /\ at[g] # Overtaken /\ awaits[g] = 0
  /\ Due(g) < next
  /\ at' = [at EXCEPT ![g] = Due(g)]
  /\ UNCHANGED <<oldest, next, awaits>>

Await(g) ==
  /\ at[g] # Overtaken /\ awaits[g] = 0
  /\ Due(g) = next
  /\ awaits' = [awaits EXCEPT ![g] = next]
  /\ UNCHANGED <<oldest, next, at>>

GiveUp(g) ==
  /\ awaits[g] # 0
  /\ awaits' = [awaits EXCEPT ![g] = 0]
  /\ UNCHANGED <<oldest, next, at>>

Awake(g) ==
  /\ awaits[g] # 0 /\ awaits[g] < next
  /\ \/ at' = [at EXCEPT ![g] = awaits[g]]
     \/ next - awaits[g] > Slack /\ at' = [at EXCEPT ![g] = Overtaken]
  /\ awaits' = [awaits EXCEPT ![g] = 0]
  /\ UNCHANGED <<oldest, next>>

Next ==
  \/ PutEvent \/ Drop \/ Clear
  \/ \E g \in Getters : Read(g) \/ Await(g) \/ GiveUp(g) \/ Awake(g)

Spec == Init /\ [][Next]_vars
=============================================================================
