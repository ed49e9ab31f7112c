---------------------------- MODULE InputsProofs ----------------------------
(***************************************************************************)
(* Proofs about module Inputs, for any connections, file descriptors and   *)
(* numbers of events: the Inputs take turns with the buffer they share,    *)
(* and the table of Inputs is what the status listener says of it.         *)
(***************************************************************************)
EXTENDS Inputs, TLAPS

Lives == [thread : {"none", "run", "on_stop", "gone"},
          stop : BOOLEAN, stopped : BOOLEAN, joining : BOOLEAN, joined : BOOLEAN]

Pcs == {"none", "begin", "read", "fill", "commit", "wait", "ack", "left"}

\* An event in a part of the buffer.
Parts == (Conns \cup {"none"}) \X Nat

TypeOK ==
    /\ life \in [Threads -> Lives]
    /\ data \in [1..2 -> Parts] /\ data_size \in {0, 1}
    /\ pc \in [Conns -> Pcs]
    /\ sent \in [Conns -> Nat] /\ handled \in [Conns -> Nat]
    /\ overlap \in BOOLEAN /\ orphan \in BOOLEAN /\ error \in BOOLEAN
    /\ fd \in [Conns -> Nat] /\ new \in Conns
    /\ table = [f \in DOMAIN table |-> table[f]]

-----------------------------------------------------------------------------
(* The buffer *)

\* An Input that has not run has no thread.
Fresh == \A i \in Conns : life[i].thread = "none" => pc[i] = "none"

\* Input i has its last event in both parts of the buffer, and it is not handled.
Full(i) == data[1] = <<i, sent[i]>> /\ data[2] = <<i, sent[i]>> /\ sent[i] = handled[i] + 1

\* What each place in run says of the buffer.
Holds(i) ==
    /\ pc[i] = "none" => sent[i] = 0 /\ handled[i] = 0
    /\ pc[i] \in {"begin", "read", "ack"} => sent[i] = handled[i]
    /\ pc[i] \in {"fill", "commit", "wait", "ack"} => data[1] = <<i, sent[i]>>
    /\ pc[i] \in {"fill", "commit"} => sent[i] = handled[i] + 1
    /\ pc[i] = "commit" => data[2] = <<i, sent[i]>>
    /\ pc[i] \in {"read", "fill", "commit", "ack"} => data_size = 0
    /\ pc[i] = "wait" /\ data_size = 0 => handled[i] = sent[i]

Alone == \A i, j \in Conns : UsesBuffer(i) /\ UsesBuffer(j) => i = j

Turns ==
    /\ Alone
    /\ \A i \in Conns : Holds(i)
    /\ data_size = 1 => \E i \in Conns : pc[i] \in {"wait", "left"} /\ Full(i)

-----------------------------------------------------------------------------
(* The table *)

Active(i) == life[i].thread \in {"run", "on_stop"}

\* The Input of each file descriptor is there, and runs.
Listed ==
    /\ \A f \in DOMAIN table : f # 0 /\ table[f] \in Conns /\ fd[table[f]] = f
    /\ \A i \in Conns : Active(i) <=> \E f \in DOMAIN table : table[f] = i
    /\ error <=> DOMAIN table = {}
    /\ acc \in {"accepted", "add"} => fd[new] # 0

Inv == TypeOK /\ Fresh /\ (overlap \/ Turns) /\ (orphan \/ Listed)

-----------------------------------------------------------------------------
(* Starting and stopping *)

\* No thread of an Input begins, and none that is in the table ends.
Goes ==
    /\ life' \in [Threads -> Lives]
    /\ \A i \in Conns : \/ life'[i].thread = life[i].thread
                        \/ life[i].thread = "run" /\ life'[i].thread = "on_stop"

LEMMA WaitGoes ==
    ASSUME life \in [Threads -> Lives], NEW c, NEW t, NEW stopped,
           t \in Threads => stopped \in BOOLEAN, Wait(c, t, stopped)
    PROVE  Goes
<1>1. life' = [life EXCEPT ![t] = [@ EXCEPT !.stop = TRUE, !.joining = life[t].joining \/ stopped]]
    BY DEF Wait
<1>2. CASE t \in Threads
  <2>1. PICK l \in Lives : l = life[t]
      BY <1>2
  <2>2. PICK j \in BOOLEAN : j = (life[t].joining \/ stopped)
      OBVIOUS
  <2>3. PICK k : k = [life[t] EXCEPT !.stop = TRUE, !.joining = j]
      OBVIOUS
  <2>4. k \in Lives /\ k.thread = l.thread
      BY <2>1, <2>3 DEF Lives
  <2>5. life' = [life EXCEPT ![t] = k]
      BY <1>1, <2>2, <2>3
  <2>6. \A i \in Threads : life'[i].thread = life[i].thread
      BY <2>1, <2>4, <2>5, <1>2
  <2>7. QED
      BY <2>4, <2>5, <2>6, <1>2, ThreadsAndCallers DEF Goes
<1>3. CASE t \notin Threads
  <2>1. life' = life
      BY <1>1, <1>3
  <2>2. QED
      BY <2>1 DEF Goes
<1>4. QED
    BY <1>2, <1>3

LEMMA StopBeginGoes ==
    ASSUME life \in [Threads -> Lives], NEW c, NEW t, StopBegin(c, t)
    PROVE  Goes
<1>1. t \in Threads => life[t].stop \in BOOLEAN
    BY DEF Lives
<1>2. QED
    BY <1>1, WaitGoes DEF StopBegin

LEMMA StopSignalGoes ==
    ASSUME life \in [Threads -> Lives], NEW c, StopSignal(c)
    PROVE  Goes
BY WaitGoes DEF StopSignal

LEMMA JoinedGoes ==
    ASSUME life \in [Threads -> Lives], NEW c, Joined(c) \/ Awaited(c)
    PROVE  Goes
<1>1. CASE Joined(c)
  <2>1. PICK t : t = call[c].of
      OBVIOUS
  <2>2. life' = [life EXCEPT ![t].joined = TRUE]
      BY <1>1, <2>1 DEF Joined
  <2>3. CASE t \in Threads
    <3>1. PICK l \in Lives : l = life[t]
        BY <2>3
    <3>2. PICK k : k = [l EXCEPT !.joined = TRUE]
        OBVIOUS
    <3>3. k \in Lives /\ k.thread = l.thread
        BY <3>1, <3>2 DEF Lives
    <3>4. life' = [life EXCEPT ![t] = k]
        BY <2>2, <3>1, <3>2
    <3>5. \A i \in Threads : life'[i].thread = life[i].thread
        BY <3>1, <3>3, <3>4, <2>3
    <3>6. QED
        BY <3>3, <3>4, <3>5, <2>3, ThreadsAndCallers DEF Goes
  <2>4. CASE t \notin Threads
    <3>1. life' = life
        BY <2>2, <2>4
    <3>2. QED
        BY <3>1 DEF Goes
  <2>5. QED
      BY <2>3, <2>4
<1>2. CASE Awaited(c)
  <2>1. life' = life
      BY <1>2 DEF Awaited
  <2>2. QED
      BY <2>1 DEF Goes
<1>3. QED
    BY <1>1, <1>2

LEMMA RunReturnsGoes ==
    ASSUME life \in [Threads -> Lives], NEW t \in Threads, RunReturns(t)
    PROVE  Goes
<1>1. PICK l \in Lives : l = life[t]
    OBVIOUS
<1>2. PICK k : k = [l EXCEPT !.thread = "on_stop", !.stop = TRUE, !.stopped = TRUE]
    OBVIOUS
<1>3. k \in Lives /\ k.thread = "on_stop" /\ l.thread = "run"
    BY <1>1, <1>2 DEF Lives, RunReturns, Runs
<1>4. life' = [life EXCEPT ![t] = k]
    BY <1>1, <1>2 DEF RunReturns
<1>5. \A i \in Threads : \/ life'[i].thread = life[i].thread
                         \/ life[i].thread = "run" /\ life'[i].thread = "on_stop"
    BY <1>1, <1>3, <1>4
<1>6. QED
    BY <1>3, <1>4, <1>5, ThreadsAndCallers DEF Goes

LEMMA ThreadEndsFacts ==
    ASSUME life \in [Threads -> Lives], NEW t \in Threads, ThreadEnds(t)
    PROVE  /\ life' \in [Threads -> Lives] /\ life[t].thread = "on_stop" /\ life'[t].thread = "gone"
           /\ \A i \in Threads \ {t} : life'[i] = life[i]
<1>1. PICK l \in Lives : l = life[t]
    OBVIOUS
<1>2. PICK k : k = [l EXCEPT !.thread = "gone"]
    OBVIOUS
<1>3. k \in Lives /\ k.thread = "gone" /\ l.thread = "on_stop"
    BY <1>1, <1>2 DEF Lives, ThreadEnds
<1>4. life' = [life EXCEPT ![t] = k]
    BY <1>1, <1>2 DEF ThreadEnds
<1>5. QED
    BY <1>1, <1>3, <1>4

LEMMA StartFacts ==
    ASSUME life \in [Threads -> Lives], NEW t \in Threads, Start(t)
    PROVE  /\ life' \in [Threads -> Lives] /\ life[t].thread = "none" /\ life'[t].thread = "run"
           /\ \A i \in Threads \ {t} : life'[i] = life[i]
<1>1. Started \in Lives /\ Started.thread = "run"
    BY DEF Started, Lives
<1>2. QED
    BY <1>1 DEF Start

-----------------------------------------------------------------------------
(* What stays *)

LEMMA ThreadFacts ==
    Conns \subseteq Threads /\ "inputs" \in Threads /\ "inputs" \notin Conns
BY ThreadsAndCallers

LEMMA FreshStays ==
    ASSUME Fresh, Goes, pc' = pc
    PROVE  Fresh'
BY DEF Fresh, Goes

LEMMA TurnsStay ==
    ASSUME Turns, UNCHANGED <<data, data_size, pc, sent, handled>>
    PROVE  Turns'
<1>1. \A i \in Conns : (Holds(i) <=> Holds(i)') /\ (Full(i) <=> Full(i)') /\ (UsesBuffer(i) <=> UsesBuffer(i)')
    BY DEF Holds, Full, UsesBuffer
<1>2. QED
    BY <1>1 DEF Turns, Alone

LEMMA ListedStays ==
    ASSUME Listed, Goes, UNCHANGED <<table, fd, new, error>>,
           acc' \in {"accepted", "add"} => acc \in {"accepted", "add"}
    PROVE  Listed'
<1>1. \A i \in Conns : Active(i) <=> Active(i)'
    BY DEF Active, Goes
<1>2. QED
    BY <1>1 DEF Listed

\* Neither the buffer nor the table changes.
Quiet ==
    /\ Goes
    /\ UNCHANGED <<data, data_size, pc, sent, handled, overlap, table, fd, new, error, orphan>>
    /\ acc' \in {"accepted", "add"} => acc \in {"accepted", "add"}

LEMMA QuietInv ==
    ASSUME Inv, Quiet
    PROVE  Inv'
<1>1. TypeOK'
    BY DEF Inv, TypeOK, Quiet, Goes
<1>2. Fresh'
    BY FreshStays DEF Inv, Quiet
<1>3. overlap' \/ Turns'
    BY TurnsStay DEF Inv, Quiet
<1>4. orphan' \/ Listed'
    BY ListedStays DEF Inv, Quiet
<1>5. QED
    BY <1>1, <1>2, <1>3, <1>4 DEF Inv

LEMMA QuietSteps ==
    ASSUME Inv,
           \/ Accepted \/ Cleanup \/ InputsRunReturns \/ CloseBuffer \/ StopInput \/ Drained
           \/ Terminate \/ SignalStopsInputs \/ Ask \/ Answer \/ MainThrows
           \/ MainLoop \/ StopInputs \/ StopStatus \/ ExitProcess
           \/ (HandleReturns /\ UNCHANGED <<tvars, svars, evars>>)
           \/ (\E i \in Conns : InputRunReturns(i))
           \/ (\E c \in Callers : Calls(c) \/ WakesEarly(c))
           \/ UNCHANGED vars
    PROVE  Inv'
<1> USE DEF bvars, ivars, ovars, ibvars, rvars, tvars, svars, evars
<1>0. life \in [Threads -> Lives]
    BY DEF Inv, TypeOK
<1>1. life' = life => Goes
    BY <1>0 DEF Goes
<1>2. CASE Accepted
    BY <1>1, <1>2, QuietInv DEF Accepted, Quiet
<1>3. CASE Cleanup
    BY <1>0, <1>3, StopBeginGoes, QuietInv DEF Cleanup, Quiet
<1>4. CASE InputsRunReturns
    BY <1>0, <1>4, ThreadFacts, RunReturnsGoes, QuietInv DEF InputsRunReturns, Quiet
<1>5. CASE CloseBuffer
    BY <1>1, <1>5, QuietInv DEF CloseBuffer, Quiet
<1>6. CASE StopInput
    BY <1>0, <1>6, StopBeginGoes, QuietInv DEF StopInput, Quiet
<1>7. CASE Drained
    BY <1>1, <1>7, QuietInv DEF Drained, Quiet
<1>8. CASE Terminate \/ Ask \/ Answer
    BY <1>1, <1>8, QuietInv DEF Terminate, Ask, Answer, Quiet
<1>9. CASE SignalStopsInputs
    BY <1>0, <1>9, StopBeginGoes, QuietInv DEF SignalStopsInputs, Quiet
<1>10. CASE MainThrows
    BY <1>1, <1>10, QuietInv DEF MainThrows, HandlerFails, Quiet
<1>11. CASE MainLoop \/ StopStatus \/ ExitProcess
    BY <1>1, <1>11, QuietInv DEF MainLoop, StopStatus, ExitProcess, MainGoes, Quiet
<1>12. CASE StopInputs
    BY <1>0, <1>12, StopBeginGoes, QuietInv DEF StopInputs, MainGoes, Quiet
<1>13. CASE HandleReturns /\ UNCHANGED <<tvars, svars, evars>>
    BY <1>1, <1>13, QuietInv DEF HandleReturns, Quiet
<1>14. ASSUME NEW i \in Conns, InputRunReturns(i) PROVE Inv'
    BY <1>0, <1>14, ThreadFacts, RunReturnsGoes, QuietInv DEF InputRunReturns, Quiet
<1>15. ASSUME NEW c \in Callers, Calls(c) \/ WakesEarly(c) PROVE Inv'
  <2>1. CASE CloseSocket(c)
      BY <1>0, <2>1, StopSignalGoes, QuietInv DEF CloseSocket, Quiet
  <2>2. CASE CloseConnection(c)
      BY <1>0, <2>2, StopSignalGoes, QuietInv DEF CloseConnection, Quiet
  <2>3. CASE Waits(c)
      BY <1>0, <2>3, JoinedGoes, QuietInv DEF Waits, Woken, Quiet
  <2>4. CASE WakesEarly(c)
      BY <1>0, <2>4, JoinedGoes, QuietInv DEF WakesEarly, Quiet
  <2>5. QED
      BY <1>15, <2>1, <2>2, <2>3, <2>4 DEF Calls
<1>16. CASE UNCHANGED vars
    BY <1>1, <1>16, QuietInv DEF vars, Quiet
<1>17. QED
    BY <1>2, <1>3, <1>4, <1>5, <1>6, <1>7, <1>8, <1>9, <1>10, <1>11, <1>12, <1>13, <1>14, <1>15, <1>16

-----------------------------------------------------------------------------
(* The table *)

\* The table is empty when it has no file descriptor.
LEMMA EmptyTable ==
    ASSUME TypeOK
    PROVE  table = <<>> <=> DOMAIN table = {}
<1>1. table = <<>> => DOMAIN table = {}
    OBVIOUS
<1>2. ASSUME DOMAIN table = {} PROVE table = <<>>
  <2>1. table = [f \in {} |-> table[f]]
      BY <1>2 DEF TypeOK
  <2>2. <<>> = [f \in {} |-> table[f]]
      OBVIOUS
  <2>3. QED
      BY <2>1, <2>2
<1>3. QED
    BY <1>1, <1>2

LEMMA InputsEndsInv ==
    ASSUME Inv, InputsEnds
    PROVE  Inv'
<1> USE DEF bvars, ivars, ovars, svars, evars
<1>1. /\ life' \in [Threads -> Lives]
      /\ \A i \in Conns : life'[i] = life[i]
    BY ThreadEndsFacts, ThreadFacts DEF Inv, TypeOK, InputsEnds
<1>2. Goes
    BY <1>1 DEF Goes
<1>3. QED
    BY <1>2, QuietInv DEF InputsEnds, Quiet

LEMMA AcceptInv ==
    ASSUME Inv, Accept
    PROVE  Inv'
<1> USE DEF bvars, ovars, rvars, svars, evars
<1>0. TypeOK /\ Goes
    BY DEF Inv, TypeOK, Accept, Goes
<1>1. PICK k \in DOMAIN Order, f \in Fds \ InUse :
        fd[Order[k]] = 0 /\ fd' = [fd EXCEPT ![Order[k]] = f] /\ new' = Order[k]
    BY DEF Accept
<1>2. f \in Nat /\ f # 0
    BY <1>1, ThreadsAndCallers
<1>3. Order[k] \in Conns
    BY <1>1, ThreadsAndCallers DEF ToSet
<1>4. fd' \in [Conns -> Nat] /\ fd'[new'] = f /\ \A i \in Conns : fd[i] # 0 => fd'[i] = fd[i]
    BY <1>0, <1>1, <1>2, <1>3 DEF TypeOK
<1>5. UNCHANGED <<data, data_size, pc, sent, handled, overlap, table, error, orphan, life>>
    BY DEF Accept
<1>6. TypeOK'
    BY <1>0, <1>1, <1>3, <1>4, <1>5 DEF TypeOK
<1>7. Fresh' /\ (overlap' \/ Turns')
    BY <1>0, <1>5, FreshStays, TurnsStay DEF Inv
<1>8. orphan' \/ Listed'
  <2>1. \A i \in Conns : Active(i) <=> Active(i)'
      BY <1>5 DEF Active
  <2>2. QED
      BY <2>1, <1>2, <1>4, <1>5 DEF Inv, Listed
<1>9. QED
    BY <1>6, <1>7, <1>8 DEF Inv

LEMMA AddConnectionInv ==
    ASSUME Inv, ~orphan, AddConnection
    PROVE  Inv'
<1> USE DEF bvars, ovars, evars
<1>0. TypeOK /\ new \in Conns /\ new \in Threads /\ acc = "add" /\ acc' = "accept"
    BY ThreadFacts DEF Inv, TypeOK, AddConnection
<1>1. /\ life' \in [Threads -> Lives] /\ life[new].thread = "none" /\ life'[new].thread = "run"
      /\ \A i \in Conns \ {new} : life'[i] = life[i]
    BY <1>0, StartFacts, ThreadFacts DEF TypeOK, AddConnection
<1>2. /\ UNCHANGED <<data, data_size, sent, handled, overlap, fd, new>>
      /\ pc' = [pc EXCEPT ![new] = "begin"] /\ error' = FALSE
      /\ orphan' = (fd[new] \in DOMAIN table)
      /\ table' = [f \in DOMAIN table \cup {fd[new]} |-> IF f \in DOMAIN table THEN table[f] ELSE new]
    BY DEF AddConnection
<1>3. /\ DOMAIN table' = DOMAIN table \cup {fd[new]}
      /\ table' = [f \in DOMAIN table' |-> table'[f]]
    BY <1>2
<1>4. TypeOK'
  <2>1. orphan' \in BOOLEAN
    <3>1. (fd[new] \in DOMAIN table) \in BOOLEAN
        OBVIOUS
    <3>2. orphan' = (fd[new] \in DOMAIN table)
        BY <1>2
    <3>3. QED
        BY <3>1, <3>2, Zenon
  <2>2. error' \in BOOLEAN
      BY <1>2
  <2>3. QED
      BY <1>0, <1>1, <1>2, <1>3, <2>1, <2>2 DEF TypeOK, Pcs
<1>n. PICK n \in Conns : n = new
    BY <1>0
<1>5. pc' \in [Conns -> Pcs] /\ pc'[new] = "begin" /\ \A i \in Conns \ {new} : pc'[i] = pc[i]
    BY <1>0, <1>2, <1>4 DEF TypeOK
<1>6. pc[new] = "none"
    BY <1>0, <1>1 DEF Inv, Fresh
<1>7. Fresh'
    BY <1>1, <1>5 DEF Inv, Fresh
<1>8. overlap' \/ Turns'
  <2>1. CASE Turns
    <3>1. \A i \in Conns : Holds(i)'
      <4>1. \A i \in Conns \ {new} : Holds(i)'
          BY <2>1, <1>2, <1>5 DEF Turns, Holds
      <4>2. Holds(new)
          BY <2>1, <1>0 DEF Turns
      <4>3. sent'[new] = 0 /\ handled'[new] = 0
          BY <4>2, <1>2, <1>6 DEF Holds
      <4>4. ASSUME NEW i \in Conns, i = new PROVE Holds(i)'
          BY <4>3, <4>4, <1>2, <1>5 DEF Holds
      <4>5. QED
          BY <4>1, <4>4
    <3>2. Alone'
        BY <2>1, <1>5 DEF Turns, Alone, UsesBuffer
    <3>3. data_size' = 1 => \E i \in Conns : pc'[i] \in {"wait", "left"} /\ Full(i)'
        BY <2>1, <1>2, <1>5, <1>6 DEF Turns, Full
    <3>4. QED
        BY <3>1, <3>2, <3>3 DEF Turns
  <2>2. QED
      BY <2>1, <1>2 DEF Inv
<1>9. orphan' \/ Listed'
  <2>1. CASE Listed /\ ~orphan'
    <3>1. fd[new] \notin DOMAIN table /\ fd[new] # 0
        BY <2>1, <1>0, <1>2 DEF Listed
    <3>2. /\ table'[fd[new]] = new
          /\ \A f \in DOMAIN table : table'[f] = table[f] /\ f \in DOMAIN table'
        BY <3>1, <1>2
    <3>3. \A f \in DOMAIN table' : f # 0 /\ table'[f] \in Conns /\ fd[table'[f]] = f
        BY <3>1, <3>2, <2>1, <1>0, <1>3 DEF Listed
    <3>4. \A i \in Conns : Active(i)' <=> \E f \in DOMAIN table' : table'[f] = i
      <4>1. Active(n)' /\ \E f \in DOMAIN table' : table'[f] = n
          BY <3>2, <1>1, <1>3, <1>n DEF Active
      <4>2. ASSUME NEW i \in Conns, i # n
            PROVE  Active(i)' <=> \E f \in DOMAIN table' : table'[f] = i
        <5>1. Active(i)' <=> Active(i)
            BY <4>2, <1>1, <1>n DEF Active
        <5>2. (\E f \in DOMAIN table' : table'[f] = i) <=> \E f \in DOMAIN table : table[f] = i
            BY <3>2, <4>2, <1>3, <1>n
        <5>3. QED
            BY <5>1, <5>2, <2>1 DEF Listed
      <4>3. QED
          BY <4>1, <4>2
    <3>5. DOMAIN table' # {}
        BY <1>3
    <3>6. QED
        BY <3>3, <3>4, <3>5, <1>0, <1>2 DEF Listed
  <2>2. QED
      BY <2>1, <1>2 DEF Inv
<1>10. QED
    BY <1>4, <1>7, <1>8, <1>9 DEF Inv

LEMMA RemoveConnectionInv ==
    ASSUME Inv, NEW i \in Conns, RemoveConnection(i)
    PROVE  Inv'
<1> USE DEF bvars, ivars, ovars, evars
<1>0. TypeOK /\ i \in Threads
    BY ThreadFacts DEF Inv, TypeOK
<1>1. /\ life' \in [Threads -> Lives] /\ life[i].thread = "on_stop" /\ life'[i].thread = "gone"
      /\ \A j \in Conns \ {i} : life'[j] = life[j]
    BY <1>0, ThreadEndsFacts, ThreadFacts DEF TypeOK, RemoveConnection
<1>2. /\ UNCHANGED <<data, data_size, pc, sent, handled, overlap, fd, new, acc, orphan>>
      /\ error' = (error \/ table' = <<>>)
      /\ table' = [f \in DOMAIN table \ {fd[i]} |-> table[f]]
    BY DEF RemoveConnection
<1>3. /\ DOMAIN table' = DOMAIN table \ {fd[i]}
      /\ table' = [f \in DOMAIN table' |-> table'[f]]
      /\ \A f \in DOMAIN table' : table'[f] = table[f]
    BY <1>2
<1>4. TypeOK'
  <2>1. error' \in BOOLEAN
    <3>1. (error \/ table' = <<>>) \in BOOLEAN
        OBVIOUS
    <3>2. error' = (error \/ table' = <<>>)
        BY <1>2
    <3>3. QED
        BY <3>1, <3>2, Zenon
  <2>2. QED
      BY <1>0, <1>1, <1>2, <1>3, <2>1 DEF TypeOK
<1>5. Fresh'
    BY <1>1, <1>2 DEF Inv, Fresh
<1>6. overlap' \/ Turns'
    BY <1>2, TurnsStay DEF Inv
<1>7. orphan' \/ Listed'
  <2>1. CASE Listed
    <3>1. Active(i)
        BY <1>1 DEF Active
    <3>2. PICK f \in DOMAIN table : table[f] = i
        BY <2>1, <3>1 DEF Listed
    <3>3. f = fd[i] /\ \A g \in DOMAIN table : table[g] = i => g = f
        BY <2>1, <3>2 DEF Listed
    <3>4. error' <=> DOMAIN table' = {}
      <4>1. ~error
          BY <2>1, <3>2 DEF Listed
      <4>2. table' = <<>> <=> DOMAIN table' = {}
          BY <1>4, EmptyTable
      <4>3. QED
          BY <4>1, <4>2, <1>2
    <3>5. \A g \in DOMAIN table' : g # 0 /\ table'[g] \in Conns /\ fd'[table'[g]] = g
        BY <2>1, <1>2, <1>3 DEF Listed
    <3>6. ASSUME NEW j \in Conns
          PROVE  Active(j)' <=> \E g \in DOMAIN table' : table'[g] = j
      <4>1. CASE j = i
          BY <4>1, <3>3, <1>1, <1>3 DEF Active
      <4>2. CASE j # i
        <5>1. Active(j)' <=> Active(j)
            BY <4>2, <1>1 DEF Active
        <5>2. (\E g \in DOMAIN table' : table'[g] = j) <=> \E g \in DOMAIN table : table[g] = j
            BY <4>2, <3>2, <3>3, <1>3
        <5>3. QED
            BY <5>1, <5>2, <2>1 DEF Listed
      <4>3. QED
          BY <4>1, <4>2
    <3>7. acc' \in {"accepted", "add"} => fd'[new'] # 0
        BY <2>1, <1>2 DEF Listed
    <3>8. QED
        BY <3>4, <3>5, <3>6, <3>7 DEF Listed
  <2>2. QED
      BY <2>1, <1>2 DEF Inv
<1>8. QED
    BY <1>4, <1>5, <1>6, <1>7 DEF Inv

-----------------------------------------------------------------------------
(* The buffer *)

\* A step of Input i, which leaves the other Inputs where they are.
Stepped(i) ==
    /\ UNCHANGED <<life, handled, table, fd, new, error, orphan, acc>>
    /\ pc' \in [Conns -> Pcs] /\ data' \in [1..2 -> Parts] /\ data_size' \in {0, 1}
    /\ sent' \in [Conns -> Nat] /\ overlap' \in BOOLEAN /\ (overlap => overlap')
    /\ pc[i] # "none" /\ pc'[i] # "none"
    /\ \A j \in Conns \ {i} : pc'[j] = pc[j] /\ sent'[j] = sent[j]

LEMMA SteppedInv ==
    ASSUME Inv, NEW i \in Conns, Stepped(i), Turns /\ ~overlap' => Turns'
    PROVE  Inv'
<1>1. TypeOK'
    BY DEF Inv, TypeOK, Stepped
<1>2. Fresh'
    BY DEF Inv, Fresh, Stepped
<1>3. orphan' \/ Listed'
  <2>1. Goes
      BY DEF Inv, TypeOK, Goes, Stepped
  <2>2. QED
      BY <2>1, ListedStays DEF Inv, Stepped
<1>4. overlap' \/ Turns'
  <2>1. overlap \in BOOLEAN /\ overlap' \in BOOLEAN
      BY DEF Inv, TypeOK, Stepped
  <2>2. QED
      BY <2>1 DEF Inv, Stepped
<1>5. QED
    BY <1>1, <1>2, <1>3, <1>4 DEF Inv

\* The Input that has the buffer has it alone.
LEMMA TurnsMove ==
    ASSUME Turns, NEW i \in Conns, Stepped(i),
           UsesBuffer(i) \/ \A j \in Conns \ {i} : ~UsesBuffer(j),
           Holds(i)', data_size' = 1 => pc'[i] = "wait" /\ Full(i)'
    PROVE  Turns'
<1>1. \A j \in Conns \ {i} : ~UsesBuffer(j)
    BY DEF Turns, Alone
<1>2. \A j \in Conns \ {i} : ~UsesBuffer(j)'
    BY <1>1 DEF Stepped, UsesBuffer
<1>3. Alone'
    BY <1>2 DEF Alone
<1>4. \A j \in Conns \ {i} : Holds(j)'
    BY <1>1 DEF Turns, Holds, Stepped, UsesBuffer
<1>5. QED
    BY <1>3, <1>4 DEF Turns

\* An Input that leaves may leave its event in the buffer.
LEMMA TurnsLeave ==
    ASSUME Turns, NEW i \in Conns, Stepped(i), pc'[i] = "left",
           UNCHANGED <<data, data_size, sent>>
    PROVE  Turns'
<1>1. Alone'
    BY DEF Turns, Alone, Stepped, UsesBuffer
<1>2. \A j \in Conns : Holds(j)'
    BY DEF Turns, Holds, Stepped
<1>3. ASSUME data_size = 1
      PROVE  \E j \in Conns : pc'[j] \in {"wait", "left"} /\ Full(j)'
  <2>1. PICK j \in Conns : pc[j] \in {"wait", "left"} /\ Full(j)
      BY <1>3 DEF Turns
  <2>2. Full(j)'
      BY <2>1 DEF Full, Stepped
  <2>3. QED
      BY <2>1, <2>2 DEF Stepped
<1>4. QED
    BY <1>1, <1>2, <1>3 DEF Turns

LEMMA InputStepInv ==
    ASSUME Inv, NEW i \in Conns, InputStep(i) \/ CollectorLeaves(i)
    PROVE  Inv'
<1> USE DEF bvars, ovars, rvars, tvars, svars, evars, Goto, Leave
<1>0. TypeOK /\ UNCHANGED <<life, handled, table, fd, new, error, orphan, acc>>
    BY DEF Inv, InputStep, CollectorLeaves, InputRun, Leaves, BeginWrite, ReadHeader, ReadRest, AbandonWrite,
           Abandon, CommitWrite, CommitReturns, WriteAck, LoopEnds
<1>t. /\ pc \in [Conns -> Pcs] /\ data \in [1..2 -> Parts] /\ data_size \in {0, 1}
      /\ sent \in [Conns -> Nat] /\ handled \in [Conns -> Nat] /\ overlap \in BOOLEAN
    BY <1>0 DEF TypeOK
<1>p. ASSUME NEW p \in Pcs, pc' = [pc EXCEPT ![i] = p]
      PROVE  pc' \in [Conns -> Pcs] /\ pc'[i] = p /\ \A j \in Conns \ {i} : pc'[j] = pc[j]
    BY <1>p, <1>t
\* Steps of an Input that has the buffer, or leaves.
<1>m. ASSUME NEW p \in Pcs \ {"none"}, pc' = [pc EXCEPT ![i] = p], pc[i] # "none",
             data' \in [1..2 -> Parts], data_size' \in {0, 1}, sent' = sent, overlap' = overlap
      PROVE  Stepped(i) /\ pc'[i] = p
    BY <1>m, <1>p, <1>0, <1>t DEF Stepped
<1>h. Turns => Holds(i)
    BY DEF Turns
<1>1. CASE BeginWrite(i)
  <2>1. /\ UNCHANGED <<data, data_size, sent>> /\ pc[i] = "begin"
        /\ overlap' = (overlap \/ (~close /\ \E j \in Conns \ {i} : UsesBuffer(j)))
      BY <1>1 DEF BeginWrite
  <2>2. overlap' \in BOOLEAN /\ (overlap => overlap')
    <3>1. (overlap \/ (~close /\ \E j \in Conns \ {i} : UsesBuffer(j))) \in BOOLEAN
        OBVIOUS
    <3>2. QED
        BY <3>1, <2>1, Zenon
  <2>3. CASE ~close /\ data_size = 0 /\ pc' = [pc EXCEPT ![i] = "read"]
    <3>1. pc' \in [Conns -> Pcs] /\ pc'[i] = "read" /\ \A j \in Conns \ {i} : pc'[j] = pc[j]
        BY <2>3, <1>p DEF Pcs
    <3>2. Stepped(i)
        BY <3>1, <2>1, <2>2, <1>0, <1>t DEF Stepped
    <3>3. Turns => Holds(i)'
        BY <3>1, <2>1, <2>3, <1>0, <1>h DEF Holds
    <3>4. ~overlap' => \A j \in Conns \ {i} : ~UsesBuffer(j)
        BY <2>1, <2>3
    <3>5. QED
        BY <3>2, <3>3, <3>4, <2>1, <2>3, TurnsMove, SteppedInv
  <2>4. CASE pc' = [pc EXCEPT ![i] = "left"]
    <3>1. pc' \in [Conns -> Pcs] /\ pc'[i] = "left" /\ \A j \in Conns \ {i} : pc'[j] = pc[j]
        BY <2>4, <1>p DEF Pcs
    <3>2. Stepped(i)
        BY <3>1, <2>1, <2>2, <1>0, <1>t DEF Stepped
    <3>3. QED
        BY <3>1, <3>2, <2>1, TurnsLeave, SteppedInv
  <2>5. QED
      BY <1>1, <2>3, <2>4 DEF BeginWrite
<1>2. CASE ReadHeader(i)
  <2>1. /\ pc[i] = "read" /\ pc' = [pc EXCEPT ![i] = "fill"] /\ UNCHANGED <<data_size, overlap>>
        /\ sent' = [sent EXCEPT ![i] = @ + 1] /\ data' = [data EXCEPT ![1] = <<i, sent'[i]>>]
      BY <1>2 DEF ReadHeader
  <2>2. /\ sent' \in [Conns -> Nat] /\ sent'[i] = sent[i] + 1
        /\ \A j \in Conns \ {i} : sent'[j] = sent[j]
      BY <2>1, <1>t
  <2>3. <<i, sent'[i]>> \in Parts
      BY <2>2 DEF Parts
  <2>4. data' \in [1..2 -> Parts] /\ data'[1] = <<i, sent'[i]>>
      BY <2>1, <2>3, <1>t
  <2>5. pc' \in [Conns -> Pcs] /\ pc'[i] = "fill" /\ \A j \in Conns \ {i} : pc'[j] = pc[j]
      BY <2>1, <1>p DEF Pcs
  <2>6. Stepped(i)
      BY <2>1, <2>2, <2>4, <2>5, <1>0, <1>t DEF Stepped
  <2>7. Turns => Holds(i)' /\ data_size' # 1
      BY <2>1, <2>2, <2>4, <2>5, <1>0, <1>h DEF Holds
  <2>8. UsesBuffer(i)
      BY <2>1 DEF UsesBuffer
  <2>9. QED
      BY <2>6, <2>7, <2>8, TurnsMove, SteppedInv
<1>3. CASE ReadRest(i)
  <2>1. /\ pc[i] = "fill" /\ pc' = [pc EXCEPT ![i] = "commit"] /\ UNCHANGED <<data_size, overlap, sent>>
        /\ data' = [data EXCEPT ![2] = <<i, sent[i]>>]
      BY <1>3 DEF ReadRest
  <2>2. <<i, sent[i]>> \in Parts
      BY <1>t DEF Parts
  <2>3. data' \in [1..2 -> Parts] /\ data'[1] = data[1] /\ data'[2] = <<i, sent[i]>>
      BY <2>1, <2>2, <1>t
  <2>4. Stepped(i) /\ pc'[i] = "commit"
      BY <2>1, <2>3, <1>m, <1>t DEF Pcs
  <2>5. Turns => Holds(i)' /\ data_size' # 1
      BY <2>1, <2>3, <2>4, <1>0, <1>h DEF Holds
  <2>6. UsesBuffer(i)
      BY <2>1 DEF UsesBuffer
  <2>7. QED
      BY <2>4, <2>5, <2>6, TurnsMove, SteppedInv
<1>4. CASE Abandon(i)
  <2>1. /\ pc[i] \in {"read", "fill"} /\ pc' = [pc EXCEPT ![i] = "left"]
        /\ UNCHANGED <<data, overlap, sent>> /\ data_size' = 0
      BY <1>4 DEF Abandon
  <2>2. Stepped(i) /\ pc'[i] = "left"
      BY <2>1, <1>m, <1>t DEF Pcs
  <2>3. Holds(i)' /\ data_size' # 1
      BY <2>1, <2>2 DEF Holds
  <2>4. UsesBuffer(i)
      BY <2>1 DEF UsesBuffer
  <2>5. QED
      BY <2>2, <2>3, <2>4, TurnsMove, SteppedInv
<1>5. CASE CommitWrite(i)
  <2>1. /\ pc[i] = "commit" /\ pc' = [pc EXCEPT ![i] = "wait"]
        /\ UNCHANGED <<data, overlap, sent>> /\ data_size' = 1
      BY <1>5 DEF CommitWrite
  <2>2. Stepped(i) /\ pc'[i] = "wait"
      BY <2>1, <1>m, <1>t DEF Pcs
  <2>3. Turns => Holds(i)' /\ Full(i)'
      BY <2>1, <2>2, <1>0, <1>h DEF Holds, Full
  <2>4. UsesBuffer(i)
      BY <2>1 DEF UsesBuffer
  <2>5. QED
      BY <2>2, <2>3, <2>4, TurnsMove, SteppedInv
<1>6. CASE CommitReturns(i) \/ WriteAck(i) \/ LoopEnds(i) \/ (Leaves(i) /\ pc[i] = "ack")
  <2>1. /\ pc[i] \in {"begin", "wait", "ack"} /\ UNCHANGED <<data, data_size, overlap, sent>>
        /\ \/ pc' = [pc EXCEPT ![i] = "left"]
           \/ pc[i] = "wait" /\ data_size = 0 /\ pc' = [pc EXCEPT ![i] = "ack"]
           \/ pc[i] = "ack" /\ pc' = [pc EXCEPT ![i] = "begin"]
      BY <1>6 DEF CommitReturns, WriteAck, LoopEnds, Leaves, Abandon
  <2>2. CASE pc' = [pc EXCEPT ![i] = "left"]
    <3>1. Stepped(i) /\ pc'[i] = "left"
        BY <2>1, <2>2, <1>m, <1>t DEF Pcs
    <3>2. QED
        BY <3>1, <2>1, TurnsLeave, SteppedInv
  <2>3. CASE pc[i] = "wait" /\ data_size = 0 /\ pc' = [pc EXCEPT ![i] = "ack"]
    <3>1. Stepped(i) /\ pc'[i] = "ack"
        BY <2>1, <2>3, <1>m, <1>t DEF Pcs
    <3>2. Turns => Holds(i)' /\ data_size' # 1
        BY <3>1, <2>1, <2>3, <1>0, <1>h DEF Holds
    <3>3. UsesBuffer(i)
        BY <2>3 DEF UsesBuffer
    <3>4. QED
        BY <3>1, <3>2, <3>3, TurnsMove, SteppedInv
  <2>4. CASE pc[i] = "ack" /\ pc' = [pc EXCEPT ![i] = "begin"]
    <3>1. Stepped(i) /\ pc'[i] = "begin"
        BY <2>1, <2>4, <1>m, <1>t DEF Pcs
    <3>2. Turns => Holds(i)' /\ data_size' # 1
        BY <3>1, <2>1, <2>4, <1>0, <1>h DEF Holds
    <3>3. UsesBuffer(i)
        BY <2>4 DEF UsesBuffer
    <3>4. QED
        BY <3>1, <3>2, <3>3, TurnsMove, SteppedInv
  <2>5. QED
      BY <2>1, <2>2, <2>3, <2>4
<1>7. QED
    BY <1>1, <1>2, <1>3, <1>4, <1>5, <1>6
    DEF InputStep, InputRun, CollectorLeaves, Leaves, AbandonWrite

LEMMA HandleDataInv ==
    ASSUME Inv, HandleData, UNCHANGED <<tvars, svars, evars>>
    PROVE  Inv'
<1> USE DEF ivars, rvars, tvars, svars, evars
<1>0. TypeOK
    BY DEF Inv
<1>1. /\ data_size = 1 /\ data_size' = 0
      /\ UNCHANGED <<life, data, pc, sent, overlap, table, fd, new, error, orphan, acc>>
      /\ handled' = IF data[1] = data[2] THEN [handled EXCEPT ![data[1][1]] = data[1][2]] ELSE handled
    BY <1>0 DEF TypeOK, HandleData, Handles
<1>2. handled' \in [Conns -> Nat]
  <2>1. data[1] \in Parts
      BY <1>0 DEF TypeOK
  <2>2. data[1][2] \in Nat
      BY <2>1 DEF Parts
  <2>3. QED
      BY <1>0, <1>1, <2>2 DEF TypeOK
<1>3. TypeOK'
    BY <1>0, <1>1, <1>2 DEF TypeOK
<1>4. Fresh'
    BY <1>1 DEF Inv, Fresh
<1>5. orphan' \/ Listed'
  <2>1. Goes
      BY <1>0, <1>1 DEF TypeOK, Goes
  <2>2. QED
      BY <2>1, <1>1, ListedStays DEF Inv
<1>6. overlap' \/ Turns'
  <2>1. CASE Turns
    <3>1. PICK i \in Conns : pc[i] \in {"wait", "left"} /\ Full(i)
        BY <2>1, <1>1 DEF Turns
    <3>2. data[1] = data[2] /\ data[1][1] = i /\ data[1][2] = sent[i]
        BY <3>1 DEF Full
    <3>3. handled'[i] = sent[i] /\ \A j \in Conns \ {i} : handled'[j] = handled[j]
        BY <3>2, <1>0, <1>1 DEF TypeOK
    <3>4. \A j \in Conns : Holds(j)
        BY <2>1 DEF Turns
    <3>5. ASSUME NEW j \in Conns PROVE Holds(j)'
      <4>1. CASE j = i
          BY <4>1, <3>1, <3>3, <3>4, <1>1 DEF Holds
      <4>2. CASE j # i
        <5>1. pc[j] # "wait" \/ data[1] # <<j, sent[j]>>
            BY <4>2, <3>2
        <5>2. Holds(j)
            BY <3>4
        <5>3. QED
            BY <5>1, <5>2, <4>2, <3>3, <1>1 DEF Holds
      <4>3. QED
          BY <4>1, <4>2
    <3>6. Alone'
        BY <2>1, <1>1 DEF Turns, Alone, UsesBuffer
    <3>7. QED
        BY <3>5, <3>6, <1>1 DEF Turns
  <2>2. QED
      BY <2>1, <1>1 DEF Inv
<1>7. QED
    BY <1>3, <1>4, <1>5, <1>6 DEF Inv

-----------------------------------------------------------------------------
(* The theorems *)

LEMMA InitInv == InitInputs => Inv
<1> SUFFICES ASSUME InitInputs PROVE Inv
    OBVIOUS
<1> USE DEF InitInputs, InitInputBuffer
<1>1. life \in [Threads -> Lives] /\ \A i \in Conns : life[i].thread = "none"
  <2>1. Started \in Lives /\ Unstarted \in Lives /\ Unstarted.thread = "none"
      BY DEF Started, Unstarted, Lives
  <2>2. QED
      BY <2>1, ThreadFacts DEF InitRunBase
<1>2. data \in [1..2 -> Parts]
  <2>1. Nothing \in Parts
      BY DEF Nothing, Parts
  <2>2. QED
      BY <2>1
<1>3. new \in Conns
  <2>1. new = Head(Order) /\ Order \in Seq(Conns) /\ Order # <<>>
      BY ThreadsAndCallers
  <2>2. QED
      BY <2>1
<1>4. TypeOK
    BY <1>1, <1>2, <1>3 DEF TypeOK, Pcs
<1>5. Fresh
    BY DEF Fresh
<1>6. Turns
    BY DEF Turns, Alone, UsesBuffer, Holds
<1>7. Listed
    BY <1>1 DEF Listed, Active
<1>8. QED
    BY <1>4, <1>5, <1>6, <1>7 DEF Inv

LEMMA StepInv ==
    ASSUME Inv, [Next]_vars
    PROVE  Inv'
<1>1. CASE UNCHANGED vars
    BY <1>1, QuietSteps
<1>2. CASE Next
  <2>1. ~orphan
      BY <1>2 DEF Next, Going
  <2>2. CASE Accept \/ InputsThread
      BY <2>1, <2>2, AcceptInv, AddConnectionInv, InputsEndsInv, QuietSteps DEF InputsThread
  <2>3. ASSUME NEW i \in Conns, InputThread(i) \/ CollectorLeaves(i) PROVE Inv'
      BY <2>3, InputStepInv, RemoveConnectionInv, QuietSteps DEF InputThread
  <2>4. CASE Terminate \/ SignalStopsInputs \/ MainThrows \/ Ask \/ Answer
      BY <2>4, QuietSteps
  <2>5. CASE MainStep
      BY <2>5, HandleDataInv, QuietSteps DEF MainStep, MainHandles
  <2>6. ASSUME NEW c \in Callers, Calls(c) \/ WakesEarly(c) PROVE Inv'
      BY <2>6, QuietSteps
  <2>7. QED
      BY <1>2, <2>2, <2>3, <2>4, <2>5, <2>6 DEF Next
<1>3. QED
    BY <1>1, <1>2

\* The table and the error that the status listener gives agree with the Inputs
\* that run (Inputs.cpp: add_connection, remove_connection), however connections
\* come and go and whoever stops them, as long as no connection gets the file
\* descriptor of one that is still in the table.
THEOREM StatusAgrees == Spec => []StatusTrue
<1>1. Inv => StatusTrue
  <2> SUFFICES ASSUME Inv, ~orphan PROVE /\ error <=> table = <<>>
                                         /\ \A i \in Conns : Active(i) <=> \E f \in DOMAIN table : table[f] = i
      BY DEF StatusTrue, Active
  <2>1. table = <<>> <=> DOMAIN table = {}
      BY EmptyTable DEF Inv
  <2>2. QED
      BY <2>1 DEF Inv, Listed
<1>2. QED
    BY <1>1, InitInv, StepInv, PTL DEF Spec

\* The handler gets each event whole, once and in the order of its connection,
\* and an ack goes to the connection of its event (InputBuffer.h, Input.cpp), as
\* long as the Inputs take turns with the buffer.
THEOREM HandledInTurn == Spec => InTurn
<1>1. ASSUME Inv, ~overlap, HandleData
      PROVE  data[1] = data[2] /\ data[1][2] = handled[data[1][1]] + 1
  <2>1. data_size = 1
      BY <1>1 DEF Inv, TypeOK, HandleData
  <2>2. PICK i \in Conns : Full(i)
      BY <2>1, <1>1 DEF Inv, Turns
  <2>3. QED
      BY <2>2 DEF Full
<1>2. ASSUME Inv, ~overlap, NEW i \in Conns, pc[i] = "ack"
      PROVE  data[1] = <<i, sent[i]>> /\ handled[i] = sent[i]
    BY <1>2 DEF Inv, Turns, Holds
<1>3. Inv => [~overlap =>
                /\ HandleData => data[1] = data[2] /\ data[1][2] = handled[data[1][1]] + 1
                /\ \A i \in Conns : pc[i] = "ack" /\ pc'[i] = "begin" =>
                      data[1] = <<i, sent[i]>> /\ handled[i] = sent[i]]_ibvars
    BY <1>1, <1>2
<1>4. QED
    BY <1>3, InitInv, StepInv, PTL DEF Spec, InTurn
=============================================================================
