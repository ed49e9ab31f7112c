------------------------------ MODULE ProcessTree ------------------------------
(***************************************************************************)
(* ProcessTree: what auoms knows of the processes, from the notifications    *)
(* of the kernel (notes, taken by the tree's own thread), from the events of *)
(* audit (taken by the main thread) and from /proc.  The two ways are not    *)
(* ordered with each other, and notes may be lost.  live is the processes    *)
(* there are; a pid may be used again.  Of an entry, inc and off are ghosts: *)
(* which use of the pid it speaks of, and whether it was forked from an      *)
(* entry that expected other execs than those whose events were to come.     *)
(***************************************************************************)
EXTENDS FiltersEngine

CONSTANTS
    Pids,     \* pids of processes that come and go
    Root,     \* a process that only forks and never ends
    Exes,     \* executables
    Syscalls, \* system calls that are audited
    MaxActs,  \* bound: what is done and lost altogether
    MaxLost,  \* bound: notifications lost
    MaxUses   \* bound: uses of a pid

ASSUME RootIsApart == Root \notin Pids

VARIABLES
    live,    \* the processes: pid -> exe, parent and the use of the pid
    notes,   \* _PnQueue
    audit,   \* events on their way to the main thread
    procs,   \* _processes
    engine,
    uses, acts, lost

kvars == <<live, notes, audit, uses, acts, lost>>
pvars == <<kvars, procs, engine>>

NoProc == 0
-----------------------------------------------------------------------------
(* The kernel *)

Audited(pid, call, exe) ==
    [pid |-> pid, ppid |-> live[pid].ppid, call |-> call, exe |-> exe, inc |-> live[pid].inc, at |-> acts]

Note(type, pid, ppid, inc) == [type |-> type, pid |-> pid, ppid |-> ppid, inc |-> inc, at |-> acts]

Notify(note) ==
    \/ notes' = Append(notes, note) /\ UNCHANGED lost
    \/ lost < MaxLost /\ acts + lost + 1 < MaxActs /\ lost' = lost + 1 /\ UNCHANGED notes

Acts == acts + lost < MaxActs /\ acts' = acts + 1 /\ UNCHANGED <<procs, engine>>

Fork ==
    /\ Acts
    /\ \E ppid \in DOMAIN live, pid \in Pids \ DOMAIN live :
          /\ uses[pid] < MaxUses
          /\ uses' = [uses EXCEPT ![pid] = @ + 1]
          /\ live' = (pid :> [exe |-> live[ppid].exe, ppid |-> ppid, inc |-> uses'[pid]]) @@ live
          /\ Notify(Note("fork", pid, ppid, uses'[pid]))
    /\ UNCHANGED audit

Exec ==
    /\ Acts
    /\ \E pid \in DOMAIN live \ {Root}, exe \in Exes :
          /\ live' = [live EXCEPT ![pid].exe = exe]
          /\ audit' = Append(audit, Audited(pid, "execve", exe))
          /\ Notify(Note("exec", pid, NoProc, live[pid].inc))
    /\ UNCHANGED uses

Request ==
    /\ Acts
    /\ \E pid \in DOMAIN live \ {Root}, call \in Syscalls :
          audit' = Append(audit, Audited(pid, call, live[pid].exe))
    /\ UNCHANGED <<live, notes, uses, lost>>

\* Children go to the root.
Exit ==
    /\ Acts
    /\ \E pid \in DOMAIN live \ {Root} :
          /\ live' = [p \in DOMAIN live \ {pid} |->
                        [live[p] EXCEPT !.ppid = IF @ = pid THEN Root ELSE @]]
          /\ Notify(Note("exit", pid, NoProc, live[pid].inc))
    /\ UNCHANGED <<audit, uses>>

Kernel == Fork \/ Exec \/ Request \/ Exit
-----------------------------------------------------------------------------
(* ProcessTree, as operators on the map t *)

Item(source, ppid, exe, inc) ==
    [source |-> source, ppid |-> ppid, exe |-> exe, flags |-> {}, ancestors |-> <<>>,
     children |-> <<>>, prop |-> 0, exited |-> FALSE, inc |-> inc, off |-> FALSE]

\* The process' own filters, or those of its nearest ancestor that has any and
\* is still known.
ApplyFlags(e, t, item) ==
    LET own == GetFlags(e, item.exe, 0)
        at(h) == item.ancestors[Len(item.ancestors) + 1 - h]
        from(h) == IF at(h) \in DOMAIN t THEN GetFlags(e, t[at(h)].exe, h) ELSE {}
        heights == {h \in 1..Len(item.ancestors) : from(h) # {}}
    IN  [item EXCEPT !.flags = IF own # {} THEN own
                               ELSE IF heights = {} THEN {}
                               ELSE from(CHOOSE h \in heights : \A g \in heights : h <= g)]

UpdateFlags(e, t) == [pid \in DOMAIN t |-> ApplyFlags(e, t, t[pid])]

\* The item of pid is entered below its parent.
Under(item, t, ppid) == [item EXCEPT !.ancestors = Append(t[ppid].ancestors, ppid)]

WithChild(t, ppid, pid) ==
    IF ppid \in DOMAIN t THEN [t EXCEPT ![ppid].children = Append(@, pid)] ELSE t

\* The execs of the parent before the fork of which the events are still to come.
Due(note) ==
    Cardinality({i \in DOMAIN audit : /\ audit[i].call = "execve" /\ audit[i].pid = note.ppid
                                      /\ audit[i].at < note.at})

\* AddPid(pid, ppid), a fork: a pid that is known is left as it is.
AddForked(e, t, note) ==
    LET pid == note.pid
        ppid == note.ppid
        parent == t[ppid]
        fresh == Item("pnotify", ppid, "", note.inc)
        item == IF ppid \in DOMAIN t
                THEN ApplyFlags(e, t, [Under(fresh, t, ppid) EXCEPT
                        !.exe = parent.exe, !.prop = parent.prop, !.off = parent.prop # Due(note)])
                ELSE [fresh EXCEPT !.ancestors = <<ppid>>]
    IN  IF pid \in DOMAIN t THEN t ELSE (pid :> item) @@ WithChild(t, ppid, pid)

\* AddPid(pid), an exec: its audit event is still to come, unless the entry is
\* already from one.
AddExeced(t, note) ==
    IF note.pid \notin DOMAIN t
    THEN (note.pid :> [Item("pnotify", NoProc, "", note.inc) EXCEPT !.prop = 1]) @@ t
    ELSE IF t[note.pid].source = "pnotify" THEN [t EXCEPT ![note.pid].prop = @ + 1] ELSE t

RemovePid(t, pid) == IF pid \in DOMAIN t THEN [t EXCEPT ![pid].exited = TRUE] ELSE t

\* The entry leaves the children of its old parent for those of the new one.
Reparent(t, pid, ppid) ==
    LET old == t[pid].ppid
        left == IF old \in DOMAIN t THEN [t EXCEPT ![old].children = RemoveFirst(@, pid)] ELSE t
        with == WithChild(left, ppid, pid)
        moved == IF ppid \in DOMAIN t THEN Under(with[pid], with, ppid) ELSE with[pid]
    IN  IF old = ppid THEN t ELSE [with EXCEPT ![pid] = [moved EXCEPT !.ppid = ppid]]

\* Mutant: also a child that was forked before.
Propagate_All(e, t, pid, c) ==
    IF c \notin DOMAIN t THEN t
    ELSE LET item == [Under(t[c], t, pid) EXCEPT !.source = "execve", !.exe = t[pid].exe]
         IN  [t EXCEPT ![c] = ApplyFlags(e, t, item)]

\* A child that was forked after the exec gets what its parent became.
Propagate(e, t, pid, c) ==
    IF c \notin DOMAIN t \/ t[c].prop = 0 THEN t
    ELSE LET item == [Under(t[c], t, pid) EXCEPT !.source = "execve", !.exe = t[pid].exe, !.prop = @ - 1]
         IN  [t EXCEPT ![c] = ApplyFlags(e, t, item)]

AddProcess(e, t, a) ==
    LET pid == a.pid
        filled == [t EXCEPT ![pid] = [@ EXCEPT !.source = "execve", !.exe = a.exe, !.inc = a.inc]]
        placed == Reparent(filled, pid, a.ppid)
        counted == [placed EXCEPT ![pid].prop = IF @ > 0 THEN @ - 1 ELSE 0]
        spread == Fold(LAMBDA s, c : Propagate(e, s, pid, c), counted, counted[pid].children)
        new == Item("execve", a.ppid, a.exe, a.inc)
    IN  IF pid \in DOMAIN t THEN [spread EXCEPT ![pid] = ApplyFlags(e, spread, @)]
        ELSE Once(WithChild(t, a.ppid, pid), LAMBDA with :
                (pid :> ApplyFlags(e, with, IF a.ppid \in DOMAIN t THEN Under(new, with, a.ppid) ELSE new))
                    @@ with)

Trusted(t, pid) == pid \in DOMAIN t /\ t[pid].source # "pnotify"

\* An entry that is only from notifications is replaced by what /proc says.
GetInfoForPid(e, t, pid) ==
    IF Trusted(t, pid) \/ pid \notin DOMAIN live THEN t
    ELSE LET ppid == live[pid].ppid
             new == Item("procfs", ppid, live[pid].exe, live[pid].inc)
             with == WithChild(t, ppid, pid)
             item == IF ppid \in DOMAIN t THEN Under(new, with, ppid) ELSE new
         IN  Once((pid :> item) @@ with, LAMBDA s : [s EXCEPT ![pid] = ApplyFlags(e, s, @)])

\* What GetInfoForPid returns, after it.
Info(t, pid) == IF Trusted(t, pid) THEN {t[pid]} ELSE {}
-----------------------------------------------------------------------------
(* The thread of the tree *)

Pending(pid) == \E i \in DOMAIN audit : audit[i].pid = pid

TakeNote ==
    /\ notes # <<>>
    /\ notes' = Tail(notes)
    /\ LET note == Head(notes)
       IN  procs' = CASE note.type = "fork" -> AddForked(engine, procs, note)
                      [] note.type = "exec" -> AddExeced(procs, note)
                      [] OTHER -> RemovePid(procs, note.pid)
    /\ UNCHANGED <<live, audit, engine, uses, acts, lost>>

\* Some of those that exited, a minute ago: their events have come.
Clean ==
    /\ \E old \in SUBSET {pid \in DOMAIN procs : procs[pid].exited /\ ~Pending(pid)} :
          /\ old # {}
          /\ procs' = [pid \in DOMAIN procs \ old |-> procs[pid]]
    /\ UNCHANGED <<kvars, engine>>

InitTree ==
    /\ live = Root :> [exe |-> "init", ppid |-> NoProc, inc |-> 0]
    /\ notes = <<>> /\ audit = <<>>
    /\ procs = Root :> Item("procfs", NoProc, "init", 0)
    /\ uses = [pid \in Pids |-> 0] /\ acts = 0 /\ lost = 0
-----------------------------------------------------------------------------
Execs == {i \in DOMAIN audit : audit[i].call = "execve"}

\* Once the audit events have caught up, an entry that is from audit or /proc
\* names the executable its process runs, in whatever order the notifications
\* and the audit events of a process and its parents came, or if a notification
\* was lost.  There are two exceptions: the entry of an earlier process with the
\* same pid, which a fork leaves alone (ProcessTree.cpp:226), and a process that
\* inherited a wrong count of execs (236): its parent's notification was lost,
\* or not counted because the parent's entry was already filled (256).
TreeRight ==
    Execs = {} =>
        \A pid \in DOMAIN live \cap DOMAIN procs :
            Trusted(procs, pid) /\ procs[pid].inc = live[pid].inc /\ ~procs[pid].off
                => procs[pid].exe = live[pid].exe
=============================================================================
