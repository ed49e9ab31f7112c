-------------------------------- MODULE Services --------------------------------
(***************************************************************************)
(* The processes of the product: auoms and auomscollect with their singleton *)
(* locks and the queues they leave on disk, the CollectionMonitor of auoms,  *)
(* which keeps a collector running where there is no auditd, and auomsctl,   *)
(* which starts, stops and upgrades all of it by signals and by waiting for  *)
(* a limited time.  The service manager, auditd and the kernel's audit pid   *)
(* are external.  Any process may die at any step.                           *)
(***************************************************************************)
EXTENDS Integers, Sequences

CONSTANTS
    Pids,        \* pids, numbers from 1
    Commands,    \* what is asked of auomsctl
    MaxCommands, \* bound: commands
    MaxCrashes   \* bound: processes that die, requests that fail

ASSUME PidsAreNumbers == Pids \subseteq Nat \ {0}
\* The commands that Script and Upgrade spell out.
ASSUME CommandsOfAuomsctl ==
    Commands \subseteq {"start", "stop", "restart", "enable", "disable", "upgrade"}

VARIABLES
    procs,   \* the processes, with those that are to be reaped
    lock,    \* the lock file of each program: an inode, 0 for none
    text,    \* what each inode says, in the order they were made
    data,    \* queue and cursor files: none, in use or closed in order
    audit,   \* the audit pid of the kernel
    auditd,  \* auditd: absent, stopped or running
    plugin,  \* auditd's plugin file says active
    wanted,  \* the service manager has auoms for started
    ctl,     \* what is left of the command auomsctl carries out
    unlinked,\* ghost: flag_reset took a mark or a live process's lock file away
    torn,    \* ghost: a process died within Lock with the mark it had taken
    stopped, \* ghost: stop_service has found auoms and nothing was started since
    commands, crashes

files == <<lock, text, data>>
ghosts == <<unlinked, torn, stopped>>
bounds == <<commands, crashes>>
vars == <<procs, files, audit, auditd, plugin, wanted, ctl, ghosts, bounds>>

Programs == {"auoms", "collect"}
Auditd == -1
Of(prog) == {pid \in DOMAIN procs : procs[pid].prog = prog}

\* by: the auoms of which it is the child, or auditd, or 0.
Process(prog, by) ==
    [prog |-> prog, by |-> by, pc |-> "open", inode |-> 0, reset |-> FALSE,
     term |-> FALSE, gate |-> FALSE, orderly |-> TRUE, child |-> 0,
     mon |-> IF prog = "auoms" THEN "get" ELSE "off", seen |-> 0]

Free == Pids \ DOMAIN procs
NewPid == CHOOSE pid \in Free : TRUE
With(f, process) == [p \in DOMAIN f \cup {NewPid} |-> IF p = NewPid THEN process ELSE f[p]]
Spawn(prog, by) == Free # {} /\ procs' = With(procs, Process(prog, by))

At(pid, pc) == pid \in DOMAIN procs /\ procs[pid].pc = pc
Goes(pid, pc) == procs' = [procs EXCEPT ![pid].pc = pc]

\* What is left of the processes once some have died.  A child of auoms is to
\* be reaped; a child of the dead has asked for SIGTERM if it collects.
Netlink == {"check", "set", "watch"}
Without(dying) ==
    LET parents == DOMAIN procs \ dying
        gone == {p \in DOMAIN procs : (p \in dying \/ procs[p].pc = "dead") /\ procs[p].by \notin parents}
    IN  [p \in DOMAIN procs \ gone |->
            IF p \in dying THEN [procs[p] EXCEPT !.pc = "dead"]
            ELSE IF procs[p].by \in dying
                 THEN [procs[p] EXCEPT !.by = 0, !.term = @ \/ procs[p].pc \in Netlink]
                 ELSE procs[p]]

\* The programs whose lock a dying process had taken the mark out of.
Torn(dying) == [prog \in Programs |-> torn[prog] \/ \E pid \in Of(prog) \cap dying : At(pid, "cut") /\ procs[pid].reset]
-----------------------------------------------------------------------------
(* A session: LockFile and the files it guards *)

Holds(pid) == procs[pid].pc \notin {"open", "wait", "dead"} /\ ~(At(pid, "exit") /\ procs[pid].orderly)

OpenLock(pid) ==
    /\ At(pid, "open")
    /\ LET prog == procs[pid].prog
           inode == IF lock[prog] # 0 THEN lock[prog] ELSE Len(text) + 1
       IN  /\ lock' = [lock EXCEPT ![prog] = inode]
           /\ text' = IF lock[prog] # 0 THEN text ELSE Append(text, "empty")
           /\ procs' = [procs EXCEPT ![pid] = [@ EXCEPT !.pc = "wait", !.inode = inode]]
    /\ UNCHANGED <<data, audit, auditd, plugin, wanted, ctl, ghosts, bounds>>

\* flock, and what the file says is read and taken out of it.
TakeLock(pid) ==
    /\ At(pid, "wait")
    /\ \A p \in DOMAIN procs : Holds(p) => procs[p].inode # procs[pid].inode
    /\ procs' = [procs EXCEPT ![pid] = [@ EXCEPT !.pc = "cut", !.reset = text[procs[pid].inode] # "empty"]]
    /\ text' = [text EXCEPT ![procs[pid].inode] = "empty"]
    /\ UNCHANGED <<lock, data, audit, auditd, plugin, wanted, ctl, ghosts, bounds>>

WritePid(pid) ==
    /\ At(pid, "cut")
    /\ text' = [text EXCEPT ![procs[pid].inode] = "pid"]
    /\ Goes(pid, "locked")
    /\ UNCHANGED <<lock, data, audit, auditd, plugin, wanted, ctl, ghosts, bounds>>

ResetFiles(pid) ==
    /\ At(pid, "locked")
    /\ data' = IF procs[pid].reset THEN [data EXCEPT ![procs[pid].prog] = "none"] ELSE data
    /\ procs' = [procs EXCEPT ![pid] = [@ EXCEPT !.pc = "ready", !.reset = FALSE]]
    /\ UNCHANGED <<lock, text, audit, auditd, plugin, wanted, ctl, ghosts, bounds>>

OpenQueue(pid) ==
    /\ At(pid, "ready")
    /\ data' = [data EXCEPT ![procs[pid].prog] = "used"]
    /\ Goes(pid, IF procs[pid].prog = "auoms" \/ procs[pid].by = Auditd THEN "run" ELSE "check")
    /\ torn' = [torn EXCEPT ![procs[pid].prog] = FALSE]
    /\ UNCHANGED <<lock, text, audit, auditd, plugin, wanted, ctl, unlinked, stopped, bounds>>

\* Mutant: the lock is removed although the input loop failed.
CloseQueue_Unlocks(pid) ==
    /\ At(pid, "close")
    /\ data' = [data EXCEPT ![procs[pid].prog] = IF procs[pid].orderly THEN "closed" ELSE @]
    /\ Goes(pid, "unlock")
    /\ UNCHANGED <<lock, text, audit, auditd, plugin, wanted, ctl, ghosts, bounds>>

\* What an input loop that failed has put in the queue is not to be trusted.
CloseQueue(pid) ==
    /\ At(pid, "close")
    /\ data' = [data EXCEPT ![procs[pid].prog] = IF procs[pid].orderly THEN "closed" ELSE @]
    /\ Goes(pid, IF procs[pid].orderly THEN "unlock" ELSE "exit")
    /\ UNCHANGED <<lock, text, audit, auditd, plugin, wanted, ctl, ghosts, bounds>>

Unlock(pid) ==
    /\ At(pid, "unlock")
    /\ text' = [text EXCEPT ![procs[pid].inode] = "empty"]
    /\ Goes(pid, "exit")
    /\ UNCHANGED <<lock, data, audit, auditd, plugin, wanted, ctl, ghosts, bounds>>

\* auoms exits with 0 also when its input loop failed: it is not started again.
ExitProcess(pid) ==
    /\ At(pid, "exit")
    /\ procs' = Without({pid})
    /\ wanted' = (wanted /\ procs[pid].prog # "auoms")
    /\ UNCHANGED <<files, audit, auditd, plugin, ctl, ghosts, bounds>>

Session(pid) ==
    \/ OpenLock(pid) \/ TakeLock(pid) \/ WritePid(pid) \/ ResetFiles(pid) \/ OpenQueue(pid)
    \/ CloseQueue(pid) \/ Unlock(pid) \/ ExitProcess(pid)

Dies(pid) ==
    /\ pid \in DOMAIN procs /\ ~At(pid, "dead")
    /\ procs' = Without({pid})
    /\ torn' = Torn({pid})
    /\ UNCHANGED <<files, audit, auditd, plugin, ctl, unlinked, stopped, commands>>

Crash(pid) ==
    /\ crashes < MaxCrashes /\ crashes' = crashes + 1
    /\ Dies(pid)
    /\ UNCHANGED wanted

\* Until Signals::Init a SIGTERM ends the process at once, unless its parent is
\* auoms, whose blocked signals it inherits.
Terminated(pid) ==
    /\ \E pc \in {"open", "wait", "cut"} : At(pid, pc)
    /\ procs[pid].term
    /\ procs[pid].prog = "auoms" \/ procs[pid].by = Auditd
    /\ Dies(pid)
    /\ UNCHANGED <<wanted, crashes>>
-----------------------------------------------------------------------------
(* auomscollect *)

\* DoNetlinkCollection: there may be another collector.
CheckAuditPid(pid) ==
    /\ At(pid, "check")
    /\ Goes(pid, IF audit = Auditd \/ audit \in DOMAIN procs THEN "close" ELSE "set")
    /\ UNCHANGED <<files, audit, auditd, plugin, wanted, ctl, ghosts, bounds>>

SetAuditPid(pid) ==
    /\ At(pid, "set")
    /\ \/ audit' = pid /\ Goes(pid, "watch") /\ UNCHANGED crashes
       \/ crashes < MaxCrashes /\ crashes' = crashes + 1 /\ Goes(pid, "close") /\ UNCHANGED audit
    /\ UNCHANGED <<files, auditd, plugin, wanted, ctl, ghosts, commands>>

\* Every ten seconds: another one has taken over, or the pid is set anew.
WatchAuditPid(pid) ==
    /\ At(pid, "watch") /\ audit # pid
    /\ procs' = [procs EXCEPT ![pid] = [@ EXCEPT !.pc = IF audit = 0 THEN "check" ELSE "close", !.gate = FALSE]]
    /\ UNCHANGED <<files, audit, auditd, plugin, wanted, ctl, ghosts, bounds>>

\* A signal, the end of stdin, or an auditd that was put on the system.
LeaveCollection(pid) ==
    /\ pid \in Of("collect") /\ procs[pid].pc \in {"run", "watch"}
    /\ procs[pid].term \/ procs[pid].gate
    /\ Goes(pid, "close")
    /\ UNCHANGED <<files, audit, auditd, plugin, wanted, ctl, ghosts, bounds>>

Collector(pid) == CheckAuditPid(pid) \/ SetAuditPid(pid) \/ WatchAuditPid(pid) \/ LeaveCollection(pid)

\* The kernel has noticed that the collector has closed its connection.
ForgetAuditPid ==
    /\ audit > 0 /\ ~At(audit, "watch")
    /\ audit' = 0
    /\ UNCHANGED <<procs, files, auditd, plugin, wanted, ctl, ghosts, bounds>>
-----------------------------------------------------------------------------
(* auoms: CollectionMonitor and the end of main *)

\* Mutant: the child is not reaped.
Reaped_Not(pid) == procs

Reaped(pid) ==
    LET child == procs[pid].child
    IN  IF child = 0 \/ ~At(child, "dead") THEN procs
        ELSE [p \in DOMAIN procs \ {child} |->
                IF p = pid THEN [procs[p] EXCEPT !.child = 0] ELSE procs[p]]

MonitorGetsPid(pid) ==
    /\ At(pid, "run") /\ procs[pid].mon = "get"
    /\ procs' = [procs EXCEPT ![pid] = [@ EXCEPT !.mon = "check",
                    !.seen = IF audit \in DOMAIN procs \cup {Auditd} THEN audit ELSE 0]]
    /\ UNCHANGED <<files, audit, auditd, plugin, wanted, ctl, ghosts, bounds>>

\* A netlink error ends the thread, and with it the collector it has started.
MonitorFails(pid) ==
    /\ crashes < MaxCrashes /\ crashes' = crashes + 1
    /\ At(pid, "run") /\ procs[pid].mon = "get"
    /\ procs' = [p \in DOMAIN procs |->
                    IF p = pid THEN [procs[p] EXCEPT !.mon = "off"]
                    ELSE [procs[p] EXCEPT !.term = @ \/ (procs[p].by = pid /\ procs[p].pc \in Netlink)]]
    /\ UNCHANGED <<files, audit, auditd, plugin, wanted, ctl, ghosts, commands>>

\* The limit on restarts is out of reach: a round takes ten seconds.
StartCollector(pid, reaped) ==
    /\ Free # {}
    /\ procs' = With([reaped EXCEPT ![pid].child = NewPid], Process("collect", pid))

\* The child is reaped even if none is started.
MonitorChecks(pid) ==
    /\ At(pid, "run") /\ procs[pid].mon = "check"
    /\ LET reaped == [Reaped(pid) EXCEPT ![pid] = [@ EXCEPT !.mon = "get", !.seen = 0]]
       IN  IF auditd = "absent" /\ reaped[pid].child = 0 /\ procs[pid].seen = 0
           THEN StartCollector(pid, reaped) ELSE procs' = reaped
    /\ UNCHANGED <<files, audit, auditd, plugin, wanted, ctl, ghosts, bounds>>

\* CollectionMonitor::on_stop has the collector end.
Exits(pid, orderly) ==
    /\ pid \in Of("auoms") /\ At(pid, "run")
    /\ procs' = [p \in DOMAIN procs |->
                    IF p = pid THEN [procs[p] EXCEPT !.pc = "stop", !.orderly = orderly, !.mon = "off", !.seen = 0]
                    ELSE [procs[p] EXCEPT !.term = @ \/ p = procs[pid].child]]
    /\ UNCHANGED <<files, audit, auditd, plugin, wanted, ctl, ghosts, commands>>

BeginExit(pid) == Exits(pid, TRUE) /\ procs[pid].term /\ UNCHANGED crashes

\* An exception in the input loop, after which the lock is not removed.
InputLoopFails(pid) == Exits(pid, FALSE) /\ crashes < MaxCrashes /\ crashes' = crashes + 1

\* The child has ended, or is killed after two seconds.
StopChild(pid) ==
    /\ At(pid, "stop")
    /\ LET child == procs[pid].child
       IN  /\ procs' = [p \in DOMAIN procs \ {child} |->
                            IF p = pid THEN [procs[p] EXCEPT !.pc = "close", !.child = 0] ELSE procs[p]]
           /\ torn' = Torn({child})
    /\ UNCHANGED <<files, audit, auditd, plugin, wanted, ctl, unlinked, stopped, bounds>>

Monitor(pid) == MonitorGetsPid(pid) \/ MonitorChecks(pid) \/ BeginExit(pid) \/ StopChild(pid)
-----------------------------------------------------------------------------
(* The service manager and auditd *)

\* Restart=on-failure; KillMode=process leaves the children alone.
Restart ==
    /\ wanted /\ Of("auoms") = {}
    /\ Spawn("auoms", 0)
    /\ UNCHANGED <<files, audit, auditd, plugin, wanted, ctl, ghosts, bounds>>

\* What the collectors' FileWatcher tells them.
InstallAuditd ==
    /\ auditd = "absent" /\ auditd' = "stopped"
    /\ procs' = [p \in DOMAIN procs |-> [procs[p] EXCEPT !.gate = @ \/ procs[p].pc \in Netlink]]
    /\ UNCHANGED <<files, audit, plugin, wanted, ctl, ghosts, bounds>>

\* auditd starts the collector if its plugin file says so, and sets its pid.
AuditdUp ==
    /\ auditd' = "running" /\ audit' = Auditd
    /\ IF plugin THEN Spawn("collect", Auditd) ELSE UNCHANGED procs

AuditdDown ==
    /\ auditd' = "stopped" /\ audit' = IF audit = Auditd THEN 0 ELSE audit
    /\ procs' = [p \in DOMAIN procs |-> [procs[p] EXCEPT !.term = @ \/ procs[p].by = Auditd]]
-----------------------------------------------------------------------------
(* auomsctl: what is left to do of a command, a sequence of steps.  A step    *)
(* sees what runs and whether auditd is installed when its turn comes.  The   *)
(* word "all" is looked for in the place of the command and never found.      *)

Script(command) ==
    CASE command = "start" -> <<"start">>
      [] command = "stop" -> <<"stop if running">>
      [] command = "restart" -> <<"stop", "start">>
      [] command = "enable" -> <<"start", "plugin on">>
      [] command = "disable" -> <<"stop", "plugin off">>

UnlinkOf(prog) == IF prog = "auoms" THEN "unlink auoms" ELSE "unlink collect"
FlagOf(prog) == IF prog = "auoms" THEN "flag auoms" ELSE "flag collect"
ResetFlags == <<"unlink auoms", "flag auoms", "unlink collect", "flag collect">>
Upgrade ==
    IF plugin THEN <<"auditd off", "stop", "wait auoms", "wait collect">> \o ResetFlags \o <<"start", "auditd on">>
    ELSE ResetFlags

Command(command) ==
    /\ commands < MaxCommands /\ commands' = commands + 1
    /\ ctl = <<>> /\ ctl' = IF command = "upgrade" THEN Upgrade ELSE Script(command)
    /\ UNCHANGED <<procs, files, audit, auditd, plugin, wanted, ghosts, crashes>>

Now(ops) == ctl # <<>> /\ Head(ctl) \in ops
Then(more) == ctl' = more \o Tail(ctl)

StartService ==
    /\ Now({"start"}) /\ Then(<<>>)
    /\ IF Of("auoms") = {} THEN Spawn("auoms", 0) /\ wanted' = TRUE ELSE UNCHANGED <<procs, wanted>>
    /\ stopped' = FALSE
    /\ UNCHANGED <<files, audit, auditd, plugin, unlinked, torn, bounds>>

\* Mutant: only auoms is waited for.
StopService_AuomsOnly ==
    /\ Now({"stop", "stop if running"})
    /\ IF Of("auoms") # {}
       THEN /\ wanted' = FALSE /\ stopped' = TRUE
            /\ procs' = [p \in DOMAIN procs |-> [procs[p] EXCEPT !.term = @ \/ p \in Of("auoms")]]
            /\ Then(<<"wait auoms">>)
       ELSE UNCHANGED <<procs, wanted, stopped>> /\ Then(<<>>)
    /\ UNCHANGED <<files, audit, auditd, plugin, unlinked, torn, bounds>>

StopService ==
    /\ Now({"stop", "stop if running"})
    /\ IF Of("auoms") # {}
       THEN /\ wanted' = FALSE /\ stopped' = TRUE
            /\ procs' = [p \in DOMAIN procs |-> [procs[p] EXCEPT !.term = @ \/ p \in Of("auoms")]]
            /\ Then(<<"wait auoms", "wait netlink">>)
       ELSE /\ UNCHANGED <<procs, wanted, stopped>>
            /\ Then(IF Head(ctl) = "stop" THEN <<"wait netlink">> ELSE <<>>)
    /\ UNCHANGED <<files, audit, auditd, plugin, unlinked, torn, bounds>>

\* They have gone, or PROC_WAIT_TIME is over and they are killed.  A collector
\* that auditd may have started is not waited for.
WaitForProc ==
    /\ Now({"wait auoms", "wait collect", "wait netlink"}) /\ Then(<<>>)
    /\ LET those == IF Head(ctl) = "wait auoms" THEN Of("auoms")
                    ELSE IF Head(ctl) = "wait netlink" /\ auditd # "absent" THEN {}
                    ELSE Of("collect")
       IN  procs' = Without(those) /\ torn' = Torn(those)
    /\ UNCHANGED <<files, audit, auditd, plugin, wanted, unlinked, stopped, bounds>>

StopAuditd ==
    /\ Now({"auditd off", "auditd cycle"})
    /\ IF auditd = "absent" THEN Then(<<>>) /\ UNCHANGED <<procs, audit, auditd>>
       ELSE AuditdDown /\ Then(IF Head(ctl) = "auditd off" THEN <<"wait collect">> ELSE <<"wait collect", "auditd on">>)
    /\ UNCHANGED <<files, plugin, wanted, ghosts, bounds>>

StartAuditd ==
    /\ Now({"auditd on"}) /\ Then(<<>>)
    /\ IF auditd = "stopped" THEN AuditdUp ELSE UNCHANGED <<procs, audit, auditd>>
    /\ UNCHANGED <<files, plugin, wanted, ghosts, bounds>>

SetPlugin ==
    /\ Now({"plugin on", "plugin off"})
    /\ plugin' = (Head(ctl) = "plugin on")
    /\ Then(IF plugin' = plugin THEN <<>> ELSE <<"auditd cycle">>)
    /\ UNCHANGED <<procs, files, audit, auditd, wanted, ghosts, bounds>>

Users(prog) == {pid \in Of(prog) : procs[pid].pc \notin {"open", "dead"}}

Unlink(prog) ==
    /\ lock[prog] # 0 /\ lock' = [lock EXCEPT ![prog] = 0]
    /\ unlinked' = [unlinked EXCEPT ![prog] = @ \/ text[lock[prog]] # "empty" \/ Users(prog) # {}]
    /\ UNCHANGED text

WriteFlag(prog) ==
    /\ IF lock[prog] = 0
       THEN lock' = [lock EXCEPT ![prog] = Len(text) + 1] /\ text' = Append(text, "flag")
       ELSE text' = [text EXCEPT ![lock[prog]] = "flag"] /\ UNCHANGED lock
    /\ unlinked' = [unlinked EXCEPT ![prog] = @ /\ Users(prog) # {}]

FlagReset ==
    /\ \E prog \in Programs :
          \/ Now({UnlinkOf(prog)}) /\ (Unlink(prog) \/ (lock[prog] = 0 /\ UNCHANGED <<lock, text, unlinked>>))
          \/ Now({FlagOf(prog)}) /\ WriteFlag(prog)
    /\ Then(<<>>)
    /\ UNCHANGED <<procs, data, audit, auditd, plugin, wanted, torn, stopped, bounds>>

Step ==
    \/ StartService \/ StopService \/ WaitForProc \/ StopAuditd \/ StartAuditd \/ SetPlugin \/ FlagReset
-----------------------------------------------------------------------------
Init ==
    /\ procs = [p \in {} |-> Process("auoms", 0)]
    /\ lock = [prog \in Programs |-> 0] /\ text = <<>>
    /\ data = [prog \in Programs |-> "none"]
    /\ audit = 0 /\ auditd \in {"absent", "stopped"} /\ plugin = FALSE
    /\ wanted = FALSE /\ ctl = <<>>
    /\ unlinked = [prog \in Programs |-> FALSE] /\ torn = unlinked /\ stopped = FALSE
    /\ commands = 0 /\ crashes = 0

External == Restart \/ InstallAuditd \/ ForgetAuditPid

Next ==
    \/ \E pid \in Pids :
          \/ Session(pid) \/ Collector(pid) \/ Monitor(pid)
          \/ Crash(pid) \/ Terminated(pid) \/ MonitorFails(pid) \/ InputLoopFails(pid)
    \/ External \/ Step
    \/ \E command \in Commands : Command(command)

Fairness ==
    /\ \A pid \in Pids :
          /\ WF_vars(Session(pid)) /\ WF_vars(Collector(pid))
          /\ WF_vars(Monitor(pid)) /\ WF_vars(Terminated(pid))
    /\ WF_vars(Restart) /\ WF_vars(ForgetAuditPid) /\ WF_vars(Step)

Spec == Init /\ [][Next]_vars /\ Fairness
-----------------------------------------------------------------------------
(* Properties *)

\* A session that opens the queue and cursor files finds them as an orderly
\* session left them, or has removed them: whatever dies, is terminated or
\* killed, and whoever waits for the lock (auoms.cpp:214-262).  Left out are
\* a process that dies within Lock after the mark was cut off
\* (LockFile.cpp:74-78), and a flag_reset while a process lives or starts.
QueueTrusted ==
    [][\A pid \in Pids :
         LET prog == procs[pid].prog
         IN  OpenQueue(pid) /\ ~torn[prog] /\ ~unlinked[prog] => data[prog] \in {"none", "closed"}]_vars

\* Without auditd, a command that stopped auoms leaves no process of either
\* program behind, in whatever state the collectors were (auomsctl.cpp:590-629).
StopLeavesNone == ctl = <<>> /\ stopped /\ auditd = "absent" => procs = <<>>

\* Without auditd, a collector is the audit pid as long as auoms runs with its
\* monitor: whichever collector died, waited for the lock of another one, met
\* another one's pid or lost its pid (CollectionMonitor.cpp:37-99).
Monitored == \E pid \in Pids : At(pid, "run") /\ procs[pid].mon # "off"
CollectorRuns ==
    <>[](ctl = <<>> /\ auditd = "absent" /\ Monitored) => <>[](audit \in Pids /\ At(audit, "watch"))
=============================================================================
