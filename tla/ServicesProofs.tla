--------------------------- MODULE ServicesProofs ---------------------------
(***************************************************************************)
(* Proofs about module Services, for any set of pids and however many      *)
(* commands, crashes and failed requests there are: a session trusts the   *)
(* queue files only when the session before it closed them, and a command  *)
(* that stopped auoms leaves no process behind.                            *)
(***************************************************************************)
EXTENDS Services, TLAPS

PCs == {"open", "wait", "cut", "locked", "ready", "run", "check", "set", "watch",
        "stop", "close", "unlock", "exit", "dead"}

\* The session has opened the queue and has not closed it yet.
Working == {"run", "check", "set", "watch", "stop", "close"}

ProcessType ==
    [prog : Programs, by : Int, pc : PCs, inode : Nat, reset : BOOLEAN, term : BOOLEAN,
     gate : BOOLEAN, orderly : BOOLEAN, child : Nat, mon : {"get", "check", "off"}, seen : Int]

Table(f) == DOMAIN f \subseteq Pids /\ f \in [DOMAIN f -> ProcessType]

Marks == {"empty", "pid", "flag"}
States == {"none", "used", "closed"}

FilesOK ==
    /\ lock \in [Programs -> Nat] /\ text \in Seq(Marks)
    /\ data \in [Programs -> States]
    /\ unlinked \in [Programs -> BOOLEAN] /\ torn \in [Programs -> BOOLEAN]

\* The steps that commands of auomsctl are made of.
Words ==
    {"start", "stop", "stop if running", "plugin on", "plugin off", "auditd on", "auditd off",
     "auditd cycle", "wait auoms", "wait collect", "wait netlink",
     "unlink auoms", "flag auoms", "unlink collect", "flag collect"}

CtlOK ==
    /\ audit \in Int /\ auditd \in {"absent", "stopped", "running"}
    /\ plugin \in BOOLEAN /\ wanted \in BOOLEAN /\ stopped \in BOOLEAN
    /\ ctl \in Seq(Words)

TypeOK == Table(procs) /\ FilesOK /\ CtlOK

-----------------------------------------------------------------------------
(* The lock file *)

\* A process that has opened the lock file of its program, and only that.
OpensOwn ==
    /\ \A prog \in Programs : lock[prog] \in 0 .. Len(text)
    /\ \A P, Q \in Programs : lock[P] = lock[Q] => P = Q \/ lock[P] = 0
    /\ \A p \in DOMAIN procs :
          /\ procs[p].inode \in 0 .. Len(text)
          /\ procs[p].pc \notin {"open", "dead"} => procs[p].inode # 0
          /\ procs[p].inode # 0 =>
               /\ \A P \in Programs : lock[P] = procs[p].inode => procs[p].prog = P
               /\ \A q \in DOMAIN procs : procs[q].inode = procs[p].inode => procs[q].prog = procs[p].prog

\* flock lets one process in.
OneHolder ==
    \A p, q \in DOMAIN procs : Holds(p) /\ Holds(q) /\ procs[p].inode = procs[q].inode => p = q

\* From WritePid to Unlock the file says that a session was begun.
Marked ==
    \A p \in DOMAIN procs :
        procs[p].pc \in {"locked", "ready"} \cup Working => text[procs[p].inode] # "empty"

\* While flag_reset has not interfered, the processes use the present lock file.
UsesPresent ==
    \A prog \in Programs : ~unlinked[prog] =>
        \A p \in Users(prog) : procs[p].inode = lock[prog]

Clean(prog) == data[prog] \in {"none", "closed"}

\* Files in use have a mark: in the lock file, or with the process that took it.
MarkedInUse(prog) ==
    Clean(prog) \/ (lock[prog] # 0 /\ text[lock[prog]] # "empty")
                \/ \E p \in Of(prog) : At(p, "cut") /\ procs[p].reset

\* A process that is about to open the files finds them clean or will remove
\* them, and one that is about to remove the mark has closed them.
CleanBy(prog) ==
    \A p \in Of(prog) :
        /\ procs[p].pc \in {"cut", "locked"} /\ ~procs[p].reset => Clean(prog)
        /\ procs[p].pc \in {"ready", "unlock"} => Clean(prog)

FilesKnown ==
    \A prog \in Programs : ~unlinked[prog] /\ ~torn[prog] => MarkedInUse(prog) /\ CleanBy(prog)

LockInv == TypeOK /\ OpensOwn /\ OneHolder /\ Marked /\ UsesPresent /\ FilesKnown

-----------------------------------------------------------------------------
(* auomsctl *)

\* No process of the product is the parent of auoms.
Parents ==
    \A p \in DOMAIN procs : procs[p].prog = "auoms" => procs[p].by = 0

\* Once stop_service has found auoms, it waits for auoms, then for the
\* collectors; nothing is started before the next start.
StopUnderWay ==
    stopped =>
        /\ ~wanted
        /\ \/ /\ Len(ctl) >= 2 /\ ctl[1] = "wait auoms" /\ ctl[2] = "wait netlink"
           \/ /\ Of("auoms") = {}
              /\ \/ Len(ctl) >= 1 /\ ctl[1] = "wait netlink"
                 \/ auditd = "absent" => DOMAIN procs = {}

StopInv == TypeOK /\ Parents /\ StopUnderWay

-----------------------------------------------------------------------------
(* The table of the processes *)

LEMMA NewProcess ==
    ASSUME NEW prog \in Programs, NEW by \in Int
    PROVE  /\ Process(prog, by) \in ProcessType
           /\ Process(prog, by).prog = prog /\ Process(prog, by).by = by
           /\ Process(prog, by).pc = "open" /\ Process(prog, by).inode = 0
BY DEF Process, ProcessType, PCs

\* The changes of one process that several fields take part in.
LEMMA Updates ==
    ASSUME NEW r \in ProcessType, NEW pc \in PCs, NEW n \in Nat, NEW i \in Int,
           NEW b \in BOOLEAN, NEW c \in BOOLEAN, NEW mon \in {"get", "check", "off"}
    PROVE  /\ [r EXCEPT !.by = i, !.term = b] \in ProcessType
           /\ [r EXCEPT !.pc = pc, !.inode = n] \in ProcessType
           /\ [r EXCEPT !.pc = pc, !.reset = b] \in ProcessType
           /\ [r EXCEPT !.pc = pc, !.gate = b] \in ProcessType
           /\ [r EXCEPT !.pc = pc, !.child = n] \in ProcessType
           /\ [r EXCEPT !.mon = mon, !.seen = i] \in ProcessType
           /\ [r EXCEPT !.pc = pc, !.orderly = b, !.mon = mon, !.seen = i] \in ProcessType
<1> PICK r1 : r1 = [r EXCEPT !.pc = pc]
    OBVIOUS
<1> PICK r2 : r2 = [r EXCEPT !.by = i]
    OBVIOUS
<1> PICK r3 : r3 = [r EXCEPT !.mon = mon]
    OBVIOUS
<1> PICK r4 : r4 = [r1 EXCEPT !.orderly = b]
    OBVIOUS
<1> PICK r5 : r5 = [r4 EXCEPT !.mon = mon]
    OBVIOUS
<1>1. r1 \in ProcessType /\ r2 \in ProcessType /\ r3 \in ProcessType
    BY DEF ProcessType
<1>2. r4 \in ProcessType
    BY <1>1 DEF ProcessType
<1>3. r5 \in ProcessType
    BY <1>2 DEF ProcessType
<1>4. /\ [r2 EXCEPT !.term = b] \in ProcessType
      /\ [r1 EXCEPT !.inode = n] \in ProcessType
      /\ [r1 EXCEPT !.reset = b] \in ProcessType
      /\ [r1 EXCEPT !.gate = b] \in ProcessType
      /\ [r1 EXCEPT !.child = n] \in ProcessType
      /\ [r3 EXCEPT !.seen = i] \in ProcessType
      /\ [r5 EXCEPT !.seen = i] \in ProcessType
    BY <1>1, <1>3 DEF ProcessType
<1>5. QED
    BY <1>4

\* One more process, with a pid that is free.
LEMMA OneMore ==
    ASSUME NEW f, Table(f), DOMAIN f \subseteq DOMAIN procs, NEW x \in ProcessType, Free # {}
    PROVE  LET g == With(f, x)
           IN  /\ Table(g) /\ NewPid \in Pids \ DOMAIN procs
               /\ DOMAIN g = DOMAIN f \cup {NewPid}
               /\ g[NewPid] = x /\ \A p \in DOMAIN f : g[p] = f[p]
<1>1. NewPid \in Pids \ DOMAIN procs
    BY DEF NewPid, Free
<1>2. QED
    BY <1>1 DEF Table, With

\* What Without leaves is as it was, dead, or without its parent.
LEMMA Left ==
    ASSUME Table(procs), NEW dying
    PROVE  LET f == Without(dying)
               parents == DOMAIN procs \ dying
           IN  /\ Table(f) /\ DOMAIN f \subseteq DOMAIN procs
               /\ \A p \in DOMAIN procs :
                     p \in DOMAIN f <=> (p \in dying \/ procs[p].pc = "dead" => procs[p].by \in parents)
               /\ \A p \in DOMAIN f :
                     /\ f[p].prog = procs[p].prog /\ f[p].inode = procs[p].inode
                     /\ f[p].reset = procs[p].reset /\ f[p].orderly = procs[p].orderly
                     /\ f[p].by \in {procs[p].by, 0}
                     /\ f[p].pc = IF p \in dying THEN "dead" ELSE procs[p].pc
<1> DEFINE f == Without(dying)
           gone == {p \in DOMAIN procs : /\ p \in dying \/ procs[p].pc = "dead"
                                         /\ procs[p].by \notin DOMAIN procs \ dying}
           left(p) == IF p \in dying THEN [procs[p] EXCEPT !.pc = "dead"]
                      ELSE IF procs[p].by \in dying
                      THEN [procs[p] EXCEPT !.by = 0, !.term = @ \/ procs[p].pc \in Netlink]
                      ELSE procs[p]
<1>1. f = [p \in DOMAIN procs \ gone |-> left(p)]
    BY DEF Without
<1>2. DOMAIN procs \subseteq Pids /\ procs \in [DOMAIN procs -> ProcessType]
    BY DEF Table
<1>3. ASSUME NEW p \in DOMAIN procs
      PROVE  /\ left(p) \in ProcessType
             /\ left(p).prog = procs[p].prog /\ left(p).inode = procs[p].inode
             /\ left(p).reset = procs[p].reset /\ left(p).orderly = procs[p].orderly
             /\ left(p).by \in {procs[p].by, 0}
             /\ left(p).pc = IF p \in dying THEN "dead" ELSE procs[p].pc
    <2> PICK r : r = procs[p]
        OBVIOUS
    <2> PICK t \in BOOLEAN : t = (r.term \/ r.pc \in Netlink)
        OBVIOUS
    <2>1. r \in ProcessType
        BY <1>2
    <2>2. [r EXCEPT !.pc = "dead"] \in ProcessType
        BY <2>1 DEF ProcessType, PCs
    <2>3. [r EXCEPT !.by = 0, !.term = t] \in ProcessType
        <3>1. "off" \in {"get", "check", "off"} /\ "open" \in PCs /\ 0 \in Int /\ 0 \in Nat
            BY DEF PCs
        <3>2. QED
            BY <2>1, <3>1, Updates
    <2>4. left(p) = IF p \in dying THEN [r EXCEPT !.pc = "dead"]
                    ELSE IF r.by \in dying THEN [r EXCEPT !.by = 0, !.term = t] ELSE r
        OBVIOUS
    <2>5. QED
        BY <2>1, <2>2, <2>3, <2>4 DEF ProcessType
<1> HIDE DEF left
<1>4. QED
    BY <1>1, <1>2, <1>3 DEF Table

-----------------------------------------------------------------------------
(* The steps that leave the lock files, the queue files and the session of    *)
(* every process alone, and may end a process or start one.                   *)

\* A process later on: as it was, at another point of its work, or dead.
Aged(r, q) ==
    /\ q.prog = r.prog /\ q.inode = r.inode /\ q.reset = r.reset
    /\ q.prog = "auoms" => q.by \in {r.by, 0}
    /\ \/ q.pc = r.pc /\ q.orderly = r.orderly
       \/ r.pc \in Working /\ q.pc \in Working
       \/ q.pc = "dead"

Fresh(q) == q.pc = "open" /\ q.inode = 0 /\ (q.prog = "auoms" => q.by = 0)

Evolve ==
    /\ Table(procs')
    /\ \A p \in DOMAIN procs' :
          IF p \in DOMAIN procs THEN Aged(procs[p], procs'[p]) ELSE Fresh(procs'[p])

\* A process that has taken the mark is not lost unless `torn` says so.
MarksKept ==
    \A prog \in Programs : ~torn'[prog] =>
        /\ ~torn[prog]
        /\ \A p \in Of(prog) : At(p, "cut") /\ procs[p].reset =>
              p \in DOMAIN procs' /\ procs'[p].pc = "cut"

\* A signal, or what the FileWatcher says.
LEMMA SignalAges ==
    ASSUME NEW r \in ProcessType, NEW b \in BOOLEAN
    PROVE  /\ [r EXCEPT !.term = b] \in ProcessType /\ Aged(r, [r EXCEPT !.term = b])
           /\ [r EXCEPT !.gate = b] \in ProcessType /\ Aged(r, [r EXCEPT !.gate = b])
           /\ [r EXCEPT !.term = b].pc = r.pc /\ [r EXCEPT !.gate = b].pc = r.pc
BY DEF ProcessType, Aged

LEMMA TermSet ==
    ASSUME NEW r \in ProcessType, NEW x
    PROVE  /\ [r EXCEPT !.term = @ \/ x] \in ProcessType
           /\ Aged(r, [r EXCEPT !.term = @ \/ x])
           /\ [r EXCEPT !.term = @ \/ x].pc = r.pc
<1> PICK t \in BOOLEAN : t = (r.term \/ x)
    OBVIOUS
<1>1. [r EXCEPT !.term = @ \/ x] = [r EXCEPT !.term = t]
    OBVIOUS
<1>2. QED
    BY <1>1, SignalAges

LEMMA GateSet ==
    ASSUME NEW r \in ProcessType, NEW x
    PROVE  /\ [r EXCEPT !.gate = @ \/ x] \in ProcessType
           /\ Aged(r, [r EXCEPT !.gate = @ \/ x])
           /\ [r EXCEPT !.gate = @ \/ x].pc = r.pc
<1> PICK t \in BOOLEAN : t = (r.gate \/ x)
    OBVIOUS
<1>1. [r EXCEPT !.gate = @ \/ x] = [r EXCEPT !.gate = t]
    OBVIOUS
<1>2. QED
    BY <1>1, SignalAges

\* Every process of a table ages.
LEMMA AllAge ==
    ASSUME Table(procs), DOMAIN procs' = DOMAIN procs,
           procs' = [p \in DOMAIN procs' |-> procs'[p]], UNCHANGED torn,
           \A p \in DOMAIN procs : /\ procs'[p] \in ProcessType /\ Aged(procs[p], procs'[p])
                                   /\ procs[p].pc = "cut" => procs'[p].pc = "cut"
    PROVE  Evolve /\ MarksKept
BY DEF Evolve, MarksKept, Table, Of, At

LEMMA OneAges ==
    ASSUME Table(procs), NEW pid \in DOMAIN procs, NEW q \in ProcessType,
           procs' = [procs EXCEPT ![pid] = q], UNCHANGED torn,
           Aged(procs[pid], q), procs[pid].pc = "cut" => q.pc = "cut"
    PROVE  Evolve /\ MarksKept
<1>1. \A p \in DOMAIN procs : procs[p] \in ProcessType /\ Aged(procs[p], procs[p])
    BY DEF Table, Aged
<1>2. QED
    BY <1>1, AllAge DEF Table

LEMMA DyingEvolve ==
    ASSUME Table(procs), NEW dying, procs' = Without(dying), torn' = Torn(dying)
    PROVE  Evolve /\ MarksKept
<1>1. /\ Table(procs') /\ DOMAIN procs' \subseteq DOMAIN procs
      /\ \A p \in DOMAIN procs :
            p \in DOMAIN procs' <=> (p \in dying \/ procs[p].pc = "dead" => procs[p].by \in DOMAIN procs \ dying)
      /\ \A p \in DOMAIN procs' :
            /\ procs'[p].prog = procs[p].prog /\ procs'[p].inode = procs[p].inode
            /\ procs'[p].reset = procs[p].reset /\ procs'[p].orderly = procs[p].orderly
            /\ procs'[p].by \in {procs[p].by, 0}
            /\ procs'[p].pc = IF p \in dying THEN "dead" ELSE procs[p].pc
    BY Left
<1>2. Evolve
    BY <1>1 DEF Evolve, Aged
<1>3. ASSUME NEW prog \in Programs, ~torn'[prog]
      PROVE  /\ ~torn[prog]
             /\ \A p \in Of(prog) : At(p, "cut") /\ procs[p].reset =>
                   p \in DOMAIN procs' /\ procs'[p].pc = "cut"
    <2>1. ~torn[prog] /\ \A p \in Of(prog) \cap dying : ~(At(p, "cut") /\ procs[p].reset)
        BY <1>3 DEF Torn
    <2>2. QED
        BY <1>1, <2>1 DEF Of, At
<1>4. QED
    BY <1>2, <1>3 DEF MarksKept

LEMMA SpawnEvolve ==
    ASSUME Table(procs), NEW prog \in Programs, NEW by \in Int, Spawn(prog, by), UNCHANGED torn,
           prog = "auoms" => by = 0
    PROVE  Evolve /\ MarksKept
<1>1. /\ Table(procs') /\ NewPid \in Pids \ DOMAIN procs
      /\ DOMAIN procs' = DOMAIN procs \cup {NewPid}
      /\ procs'[NewPid] = Process(prog, by) /\ \A p \in DOMAIN procs : procs'[p] = procs[p]
    <2> PICK x \in ProcessType : x = Process(prog, by)
        BY NewProcess
    <2>1. procs' = With(procs, x) /\ Free # {}
        BY DEF Spawn
    <2>2. QED
        BY <2>1, OneMore
<1>2. Fresh(procs'[NewPid])
    BY <1>1, NewProcess DEF Fresh
<1>3. QED
    BY <1>1, <1>2 DEF Evolve, MarksKept, Aged, Of, At

LEMMA CollectorEvolve ==
    ASSUME Table(procs), NEW pid \in Pids, Collector(pid)
    PROVE  Evolve /\ MarksKept
<1> PICK r : r = procs[pid]
    OBVIOUS
<1>1. pid \in DOMAIN procs /\ UNCHANGED torn /\ r.pc \in Working
    BY DEF Collector, CheckAuditPid, SetAuditPid, WatchAuditPid, LeaveCollection, At, Of, Working,
           ghosts
<1>2. r \in ProcessType
    BY <1>1 DEF Table
<1>3. ASSUME NEW q \in ProcessType, q.prog = r.prog, q.inode = r.inode, q.reset = r.reset,
             q.by = r.by, q.pc \in Working, procs' = [procs EXCEPT ![pid] = q]
      PROVE  Evolve /\ MarksKept
    BY <1>1, <1>3, OneAges DEF Aged, Working
<1>4. ASSUME NEW pc \in Working, Goes(pid, pc)
      PROVE  Evolve /\ MarksKept
    <2> PICK q : q = [r EXCEPT !.pc = pc]
        OBVIOUS
    <2>1. q \in ProcessType
        BY <1>2 DEF ProcessType, Working, PCs
    <2>2. q.prog = r.prog /\ q.inode = r.inode /\ q.reset = r.reset /\ q.by = r.by /\ q.pc = pc
        BY <1>2 DEF ProcessType
    <2>3. procs' = [procs EXCEPT ![pid] = q]
        BY <1>4 DEF Goes
    <2>4. QED
        BY <1>3, <2>1, <2>2, <2>3
<1>5. CASE CheckAuditPid(pid)
    BY <1>4, <1>5 DEF CheckAuditPid, Working
<1>6. CASE SetAuditPid(pid)
    BY <1>4, <1>6 DEF SetAuditPid, Working
<1>7. CASE LeaveCollection(pid)
    BY <1>4, <1>7 DEF LeaveCollection, Working
<1>8. CASE WatchAuditPid(pid)
    <2> PICK pc \in {"check", "close"} : pc = IF audit = 0 THEN "check" ELSE "close"
        OBVIOUS
    <2> PICK q : q = [r EXCEPT !.pc = pc, !.gate = FALSE]
        OBVIOUS
    <2>1. q \in ProcessType
        <3>1. pc \in PCs /\ "off" \in {"get", "check", "off"} /\ 0 \in Nat /\ 0 \in Int
            BY DEF PCs
        <3>2. QED
            BY <1>2, <3>1, Updates
    <2>2. q.prog = r.prog /\ q.inode = r.inode /\ q.reset = r.reset /\ q.by = r.by /\ q.pc = pc
        BY <1>2 DEF ProcessType
    <2>3. procs' = [procs EXCEPT ![pid] = q]
        BY <1>8 DEF WatchAuditPid
    <2>4. QED
        BY <1>3, <2>1, <2>2, <2>3 DEF Working
<1>9. QED
    BY <1>5, <1>6, <1>7, <1>8 DEF Collector

LEMMA MonitorEvolve ==
    ASSUME TypeOK, NEW pid \in Pids,
           MonitorGetsPid(pid) \/ MonitorFails(pid) \/ BeginExit(pid) \/ InputLoopFails(pid)
    PROVE  Evolve /\ MarksKept
<1>1. /\ pid \in DOMAIN procs /\ UNCHANGED torn /\ procs[pid].pc = "run" /\ Table(procs)
    BY DEF MonitorGetsPid, MonitorFails, BeginExit, InputLoopFails, Exits, At, ghosts, TypeOK
<1>2. \A p \in DOMAIN procs : procs[p] \in ProcessType
    BY <1>1 DEF Table
<1>3. "off" \in {"get", "check", "off"} /\ "check" \in {"get", "check", "off"} /\ "stop" \in PCs
      /\ 0 \in Nat /\ 0 \in Int
    BY DEF PCs
<1>4. CASE MonitorGetsPid(pid)
    <2> PICK i \in Int : i = IF audit \in DOMAIN procs \cup {Auditd} THEN audit ELSE 0
        BY DEF TypeOK, CtlOK
    <2> PICK r : r = procs[pid]
        OBVIOUS
    <2> PICK q : q = [r EXCEPT !.mon = "check", !.seen = i]
        OBVIOUS
    <2>1. r \in ProcessType /\ q \in ProcessType
        BY <1>1, <1>2, <1>3, Updates
    <2>2. Aged(r, q) /\ q.pc = r.pc
        BY <2>1 DEF Aged, ProcessType
    <2>3. procs' = [procs EXCEPT ![pid] = q]
        BY <1>4 DEF MonitorGetsPid
    <2>4. QED
        BY <1>1, <2>1, <2>2, <2>3, OneAges
<1>5. CASE MonitorFails(pid)
    <2>1. ASSUME NEW p \in DOMAIN procs
          PROVE  /\ procs'[p] \in ProcessType /\ Aged(procs[p], procs'[p])
                 /\ procs'[p].pc = procs[p].pc
        <3> PICK r : r = procs[p]
            OBVIOUS
        <3> PICK x : x = (r.by = pid /\ r.pc \in Netlink)
            OBVIOUS
        <3>1. r \in ProcessType
            BY <1>2
        <3>2. /\ [r EXCEPT !.mon = "off"] \in ProcessType /\ Aged(r, [r EXCEPT !.mon = "off"])
              /\ [r EXCEPT !.mon = "off"].pc = r.pc
            BY <3>1 DEF ProcessType, Aged
        <3>3. procs'[p] = IF p = pid THEN [r EXCEPT !.mon = "off"]
                          ELSE [r EXCEPT !.term = @ \/ x]
            BY <1>5 DEF MonitorFails
        <3>4. QED
            BY <3>1, <3>2, <3>3, TermSet
    <2>2. procs' = [p \in DOMAIN procs |-> procs'[p]] /\ DOMAIN procs' = DOMAIN procs
        BY <1>5 DEF MonitorFails
    <2>3. QED
        BY <1>1, <2>1, <2>2, AllAge
<1>6. ASSUME NEW b \in BOOLEAN, Exits(pid, b)
      PROVE  Evolve /\ MarksKept
    <2>1. ASSUME NEW p \in DOMAIN procs
          PROVE  /\ procs'[p] \in ProcessType /\ Aged(procs[p], procs'[p])
                 /\ procs[p].pc = "cut" => procs'[p].pc = procs[p].pc
        <3> PICK r : r = procs[p]
            OBVIOUS
        <3> PICK x : x = (p = procs[pid].child)
            OBVIOUS
        <3> PICK q : q = [r EXCEPT !.pc = "stop", !.orderly = b, !.mon = "off", !.seen = 0]
            OBVIOUS
        <3>1. r \in ProcessType
            BY <1>2
        <3>2. q \in ProcessType
            BY <1>3, <3>1, Updates
        <3>3. p = pid => Aged(r, q) /\ r.pc # "cut"
            BY <1>1, <3>1 DEF Aged, ProcessType, Working
        <3>4. procs'[p] = IF p = pid THEN q ELSE [r EXCEPT !.term = @ \/ x]
            BY <1>6 DEF Exits
        <3>5. QED
            BY <3>1, <3>2, <3>3, <3>4, TermSet
    <2>2. procs' = [p \in DOMAIN procs |-> procs'[p]] /\ DOMAIN procs' = DOMAIN procs
        BY <1>6 DEF Exits
    <2>3. QED
        BY <1>1, <2>1, <2>2, AllAge
<1>7. QED
    BY <1>4, <1>5, <1>6 DEF BeginExit, InputLoopFails

\* The session of a process, as another record of it.
SameSession(r, q) ==
    /\ q \in ProcessType
    /\ q.prog = r.prog /\ q.by = r.by /\ q.pc = r.pc /\ q.inode = r.inode
    /\ q.reset = r.reset /\ q.orderly = r.orderly

\* A table in which some dead processes are missing.
Reap(f) ==
    /\ f = [p \in DOMAIN f |-> f[p]] /\ DOMAIN f \subseteq DOMAIN procs
    /\ \A p \in DOMAIN procs : IF p \in DOMAIN f THEN SameSession(procs[p], f[p])
                               ELSE procs[p].pc = "dead"

LEMMA ReapEvolve ==
    ASSUME Table(procs), Reap(procs'), UNCHANGED torn
    PROVE  Evolve /\ MarksKept
<1>1. Table(procs')
    BY DEF Reap, SameSession, Table
<1>2. QED
    BY <1>1 DEF Evolve, MarksKept, Reap, SameSession, Aged, Of, At

LEMMA ReapOne ==
    ASSUME NEW f, Reap(f), NEW pid \in DOMAIN f, NEW q, SameSession(procs[pid], q)
    PROVE  Reap([f EXCEPT ![pid] = q])
BY DEF Reap

LEMMA ChecksEvolve ==
    ASSUME TypeOK, NEW pid \in Pids, MonitorChecks(pid)
    PROVE  Evolve /\ MarksKept
<1> DEFINE f1 == Reaped(pid)
           f2 == [f1 EXCEPT ![pid] = [@ EXCEPT !.mon = "get", !.seen = 0]]
           f3 == [f2 EXCEPT ![pid].child = NewPid]
<1>1. /\ pid \in DOMAIN procs /\ UNCHANGED torn /\ procs[pid].pc = "run" /\ Table(procs)
    BY DEF MonitorChecks, At, ghosts, TypeOK
<1>2. /\ \A p \in DOMAIN procs : procs[p] \in ProcessType /\ SameSession(procs[p], procs[p])
      /\ procs = [p \in DOMAIN procs |-> procs[p]]
    BY <1>1 DEF Table, SameSession
<1>3. Reap(f1) /\ pid \in DOMAIN f1
    <2>1. CASE f1 = procs
        BY <1>1, <1>2, <2>1 DEF Reap
    <2>2. CASE f1 # procs
        <3> PICK child : child = procs[pid].child
            OBVIOUS
        <3>1. /\ At(child, "dead")
              /\ f1 = [p \in DOMAIN procs \ {child} |->
                         IF p = pid THEN [procs[p] EXCEPT !.child = 0] ELSE procs[p]]
            BY <2>2 DEF Reaped
        <3>2. child # pid /\ child \in DOMAIN procs /\ procs[child].pc = "dead"
            BY <1>1, <3>1 DEF At
        <3>3. SameSession(procs[pid], [procs[pid] EXCEPT !.child = 0])
            BY <1>1, <1>2 DEF SameSession, ProcessType
        <3>4. QED
            BY <1>1, <1>2, <3>1, <3>2, <3>3 DEF Reap
    <2>3. QED
        BY <2>1, <2>2
<1> HIDE DEF f1
<1>4. Reap(f2) /\ pid \in DOMAIN f2
    <2> PICK r : r = f1[pid]
        OBVIOUS
    <2>1. SameSession(procs[pid], r) /\ r \in ProcessType
        BY <1>1, <1>3 DEF Reap, SameSession
    <2>2. [r EXCEPT !.mon = "get", !.seen = 0] \in ProcessType
        <3>1. "get" \in {"get", "check", "off"} /\ "stop" \in PCs /\ 0 \in Nat /\ 0 \in Int
            BY DEF PCs
        <3>2. QED
            BY <2>1, <3>1, Updates
    <2>3. SameSession(procs[pid], [r EXCEPT !.mon = "get", !.seen = 0])
        BY <2>1, <2>2 DEF SameSession, ProcessType
    <2>4. QED
        BY <1>3, <2>3, ReapOne
<1> HIDE DEF f2
<1>5. CASE procs' = f2
    BY <1>1, <1>5, <1>4, ReapEvolve
<1>6. CASE StartCollector(pid, f2)
    <2>1. Free # {} /\ procs' = With(f3, Process("collect", pid))
        BY <1>6 DEF StartCollector
    <2>2. NewPid \in Pids /\ NewPid \in Nat /\ pid \in Int
        BY <2>1, PidsAreNumbers DEF NewPid, Free
    <2>3. Reap(f3)
        <3> PICK r : r = f2[pid]
            OBVIOUS
        <3>1. SameSession(procs[pid], r) /\ r \in ProcessType
            BY <1>1, <1>4 DEF Reap, SameSession
        <3>2. SameSession(procs[pid], [r EXCEPT !.child = NewPid])
            BY <2>2, <3>1 DEF SameSession, ProcessType
        <3>3. f3 = [f2 EXCEPT ![pid] = [r EXCEPT !.child = NewPid]]
            OBVIOUS
        <3>4. QED
            BY <1>4, <3>2, <3>3, ReapOne
    <2> HIDE DEF f3
    <2> PICK x \in ProcessType : x = Process("collect", pid) /\ Fresh(x)
        BY <2>2, NewProcess DEF Programs, Fresh
    <2>4. Table(f3) /\ DOMAIN f3 \subseteq DOMAIN procs
        BY <1>1, <2>3 DEF Reap, SameSession, Table
    <2>5. /\ Table(procs') /\ NewPid \in Pids \ DOMAIN procs
          /\ DOMAIN procs' = DOMAIN f3 \cup {NewPid}
          /\ procs'[NewPid] = x /\ \A p \in DOMAIN f3 : procs'[p] = f3[p]
        BY <2>1, <2>4, OneMore
    <2>6. QED
        BY <1>1, <2>3, <2>5 DEF Evolve, MarksKept, Reap, SameSession, Aged, Of, At
<1>7. QED
    BY <1>5, <1>6 DEF MonitorChecks, f1, f2

LEMMA StopChildEvolve ==
    ASSUME TypeOK, NEW pid \in Pids, StopChild(pid)
    PROVE  Evolve /\ MarksKept
<1> PICK child : child = procs[pid].child
    OBVIOUS
<1> PICK r : r = procs[pid]
    OBVIOUS
<1> PICK q : q = [r EXCEPT !.pc = "close", !.child = 0]
    OBVIOUS
<1>1. /\ pid \in DOMAIN procs /\ r.pc = "stop" /\ Table(procs)
      /\ torn' = Torn({child})
      /\ procs' = [p \in DOMAIN procs \ {child} |-> IF p = pid THEN q ELSE procs[p]]
    BY DEF StopChild, At, TypeOK
<1>2. \A p \in DOMAIN procs : procs[p] \in ProcessType /\ Aged(procs[p], procs[p])
    BY <1>1 DEF Table, Aged
<1>3. q \in ProcessType /\ Aged(r, q)
    <2>1. "off" \in {"get", "check", "off"} /\ "close" \in PCs /\ 0 \in Nat /\ 0 \in Int
        BY DEF PCs
    <2>2. r \in ProcessType
        BY <1>1, <1>2
    <2>3. q \in ProcessType
        BY <2>1, <2>2, Updates
    <2>4. QED
        BY <1>1, <2>2, <2>3 DEF Aged, ProcessType, Working
<1>4. Evolve
    BY <1>1, <1>2, <1>3 DEF Evolve, Table
<1>5. ASSUME NEW prog \in Programs, ~torn'[prog]
      PROVE  /\ ~torn[prog]
             /\ \A p \in Of(prog) : At(p, "cut") /\ procs[p].reset =>
                   p \in DOMAIN procs' /\ procs'[p].pc = "cut"
    <2>1. ~torn[prog] /\ \A p \in Of(prog) \cap {child} : ~(At(p, "cut") /\ procs[p].reset)
        BY <1>1, <1>5 DEF Torn
    <2>2. QED
        BY <1>1, <2>1 DEF Of, At
<1>6. QED
    BY <1>4, <1>5 DEF MarksKept


\* A process that ends by itself, or dies.
LEMMA EndsEvolve ==
    ASSUME TypeOK, NEW pid \in Pids, ExitProcess(pid) \/ Crash(pid) \/ Terminated(pid)
    PROVE  Evolve /\ MarksKept
<1>1. Table(procs)
    BY DEF TypeOK
<1>2. CASE ExitProcess(pid)
    <2>1. procs' = Without({pid}) /\ torn' = torn /\ ~At(pid, "cut")
        BY <1>2 DEF ExitProcess, At, ghosts
    <2>2. Torn({pid}) = torn
        BY <2>1 DEF Torn, TypeOK, FilesOK
    <2>3. QED
        BY <1>1, <2>1, <2>2, DyingEvolve
<1>3. CASE Crash(pid) \/ Terminated(pid)
    <2>1. procs' = Without({pid}) /\ torn' = Torn({pid})
        BY <1>3 DEF Crash, Terminated, Dies
    <2>2. QED
        BY <1>1, <2>1, DyingEvolve
<1>4. QED
    BY <1>2, <1>3

LEMMA SameEvolve ==
    ASSUME Table(procs), UNCHANGED <<procs, torn>>
    PROVE  Evolve /\ MarksKept
BY DEF Table, Evolve, MarksKept, Aged, Of, At

\* The service manager, auditd and the kernel.
LEMMA ExternalEvolve ==
    ASSUME TypeOK, External
    PROVE  Evolve /\ MarksKept
<1>1. Table(procs) /\ \A p \in DOMAIN procs : procs[p] \in ProcessType
    BY DEF TypeOK, Table
<1>2. CASE Restart
    BY <1>1, <1>2, SpawnEvolve DEF Restart, ghosts, Programs
<1>3. CASE InstallAuditd
    <2>1. ASSUME NEW p \in DOMAIN procs
          PROVE  /\ procs'[p] \in ProcessType /\ Aged(procs[p], procs'[p])
                 /\ procs'[p].pc = procs[p].pc
        <3> PICK r : r = procs[p]
            OBVIOUS
        <3> PICK x : x = (r.pc \in Netlink)
            OBVIOUS
        <3>1. procs'[p] = [r EXCEPT !.gate = @ \/ x]
            BY <1>3 DEF InstallAuditd
        <3>2. QED
            BY <1>1, <3>1, GateSet
    <2>2. procs' = [p \in DOMAIN procs |-> procs'[p]] /\ DOMAIN procs' = DOMAIN procs
        BY <1>3 DEF InstallAuditd
    <2>3. UNCHANGED torn
        BY <1>3 DEF InstallAuditd, ghosts
    <2>4. QED
        BY <1>1, <2>1, <2>2, <2>3, AllAge
<1>4. CASE ForgetAuditPid
    BY <1>1, <1>4, SameEvolve DEF ForgetAuditPid, ghosts
<1>5. QED
    BY <1>2, <1>3, <1>4 DEF External

\* A signal to some of the processes.
LEMMA SignalsEvolve ==
    ASSUME Table(procs), UNCHANGED torn, NEW asked,
           procs' = [p \in DOMAIN procs |-> [procs[p] EXCEPT !.term = @ \/ p \in asked]]
    PROVE  Evolve /\ MarksKept
<1>1. ASSUME NEW p \in DOMAIN procs
      PROVE  /\ procs'[p] \in ProcessType /\ Aged(procs[p], procs'[p])
             /\ procs'[p].pc = procs[p].pc
    <2> PICK r : r = procs[p]
        OBVIOUS
    <2> PICK x : x = (p \in asked)
        OBVIOUS
    <2>1. procs'[p] = [r EXCEPT !.term = @ \/ x] /\ r \in ProcessType
        BY DEF Table
    <2>2. QED
        BY <2>1, TermSet
<1>2. procs' = [p \in DOMAIN procs |-> procs'[p]] /\ DOMAIN procs' = DOMAIN procs
    OBVIOUS
<1>3. QED
    BY <1>1, <1>2, AllAge

\* auomsctl, but for what it does to the lock files.
CtlMoves == StartService \/ StopService \/ WaitForProc \/ StopAuditd \/ StartAuditd \/ SetPlugin

LEMMA CtlEvolve ==
    ASSUME TypeOK, CtlMoves
    PROVE  Evolve /\ MarksKept
<1>1. Table(procs)
    BY DEF TypeOK
<1>2. CASE StartService
    BY <1>1, <1>2, SpawnEvolve, SameEvolve DEF StartService, Programs
<1>3. CASE StopService
    BY <1>1, <1>3, SameEvolve, SignalsEvolve DEF StopService
<1>4. CASE WaitForProc
    BY <1>1, <1>4, DyingEvolve DEF WaitForProc
<1>5. CASE StopAuditd
    <2>1. CASE auditd = "absent"
        BY <1>1, <1>5, <2>1, SameEvolve DEF StopAuditd, ghosts
    <2>2. CASE auditd # "absent"
        <3> PICK asked : asked = {p \in DOMAIN procs : procs[p].by = Auditd}
            OBVIOUS
        <3>1. /\ UNCHANGED torn
              /\ procs' = [p \in DOMAIN procs |-> [procs[p] EXCEPT !.term = @ \/ p \in asked]]
            BY <1>5, <2>2 DEF StopAuditd, AuditdDown, ghosts
        <3>2. QED
            BY <1>1, <3>1, SignalsEvolve
    <2>3. QED
        BY <2>1, <2>2
<1>6. CASE StartAuditd
    <2>1. UNCHANGED torn
        BY <1>6 DEF StartAuditd, ghosts
    <2>2. CASE UNCHANGED procs
        BY <1>1, <2>1, <2>2, SameEvolve
    <2>3. CASE Spawn("collect", Auditd)
        <3>1. Auditd \in Int /\ "collect" \in Programs
            BY DEF Auditd, Programs
        <3>2. QED
            BY <1>1, <2>1, <2>3, <3>1, SpawnEvolve
    <2>4. QED
        BY <1>6, <2>2, <2>3 DEF StartAuditd, AuditdUp
<1>7. CASE SetPlugin
    BY <1>1, <1>7, SameEvolve DEF SetPlugin, ghosts
<1>8. QED
    BY <1>2, <1>3, <1>4, <1>5, <1>6, <1>7 DEF CtlMoves
-----------------------------------------------------------------------------
(* The lock file and the queue files.  A step that leaves them and the         *)
(* sessions alone keeps what is known of them.                                 *)

\* A process that is at work after such a step was at work before it.
LEMMA WasThere ==
    ASSUME Evolve, NEW p \in DOMAIN procs', procs'[p].pc \notin {"open", "dead"}
    PROVE  /\ p \in DOMAIN procs /\ procs[p].pc \notin {"open", "dead"}
           /\ procs'[p].prog = procs[p].prog /\ procs'[p].inode = procs[p].inode
           /\ procs'[p].reset = procs[p].reset
           /\ \/ procs'[p].pc = procs[p].pc /\ procs'[p].orderly = procs[p].orderly
              \/ procs[p].pc \in Working /\ procs'[p].pc \in Working
BY DEF Evolve, Aged, Fresh, Working

LEMMA EvolveLock ==
    ASSUME LockInv, TypeOK', Evolve, MarksKept, UNCHANGED <<files, unlinked>>
    PROVE  LockInv'
<1>1. /\ lock' = lock /\ text' = text /\ data' = data /\ unlinked' = unlinked
      /\ OpensOwn /\ OneHolder /\ Marked /\ UsesPresent /\ FilesKnown
      /\ lock \in [Programs -> Nat] /\ text \in Seq(Marks)
    BY DEF files, LockInv, TypeOK, FilesOK
<1>2. OpensOwn'
    <2>1. \A p \in DOMAIN procs' :
            \/ procs'[p].inode = 0 /\ procs'[p].pc = "open"
            \/ /\ p \in DOMAIN procs
               /\ procs'[p].prog = procs[p].prog /\ procs'[p].inode = procs[p].inode
               /\ procs'[p].pc \notin {"open", "dead"} => procs[p].pc \notin {"open", "dead"}
        BY DEF Evolve, Aged, Fresh, Working
    <2>2. QED
        BY <1>1, <2>1 DEF OpensOwn
<1>3. ASSUME NEW p \in DOMAIN procs', Holds(p)'
      PROVE  p \in DOMAIN procs /\ Holds(p) /\ procs'[p].inode = procs[p].inode
    BY <1>3, WasThere DEF Holds, At, Working
<1>4. OneHolder'
    BY <1>1, <1>3 DEF OneHolder
<1>5. Marked'
    BY <1>1, WasThere DEF Marked, Working
<1>6. UsesPresent'
    BY <1>1, WasThere DEF UsesPresent, Users, Of
<1>7. ASSUME NEW prog \in Programs, ~unlinked'[prog], ~torn'[prog]
      PROVE  MarkedInUse(prog)' /\ CleanBy(prog)'
    <2>1. ~torn[prog] /\ MarkedInUse(prog) /\ CleanBy(prog)
        BY <1>1, <1>7 DEF MarksKept, FilesKnown
    <2>2. MarkedInUse(prog)'
        <3>1. CASE \E p \in Of(prog) : At(p, "cut") /\ procs[p].reset
            <4>1. PICK p \in Of(prog) : At(p, "cut") /\ procs[p].reset
                BY <3>1
            <4>2. p \in DOMAIN procs' /\ procs'[p].pc = "cut"
                BY <1>7, <4>1 DEF MarksKept
            <4>3. p \in Of(prog)' /\ At(p, "cut")' /\ procs'[p].reset
                BY <4>1, <4>2, WasThere DEF Of, At
            <4>4. QED
                BY <4>3 DEF MarkedInUse
        <3>2. QED
            BY <1>1, <2>1, <3>1 DEF MarkedInUse, Clean
    <2>3. CleanBy(prog)'
        BY <1>1, <2>1, WasThere DEF CleanBy, Clean, Of, Working
    <2>4. QED
        BY <2>2, <2>3
<1>8. QED
    BY <1>2, <1>4, <1>5, <1>6, <1>7 DEF LockInv, FilesKnown

\* A step of one session.
LEMMA Acts ==
    ASSUME Table(procs), NEW pid \in DOMAIN procs, NEW q \in ProcessType,
           procs' = [procs EXCEPT ![pid] = q]
    PROVE  /\ Table(procs') /\ DOMAIN procs' = DOMAIN procs
           /\ procs'[pid] = q /\ \A p \in DOMAIN procs : p # pid => procs'[p] = procs[p]
BY DEF Table

LEMMA CtlSame ==
    ASSUME CtlOK, UNCHANGED <<audit, auditd, plugin, wanted, ctl, stopped>>
    PROVE  CtlOK'
BY DEF CtlOK

\* What the inodes say, after one more is made or one is written.
LEMMA Texts ==
    ASSUME NEW t \in Seq(Marks), NEW m \in Marks
    PROVE  /\ Len(t) \in Nat
           /\ Append(t, m) \in Seq(Marks) /\ Len(Append(t, m)) = Len(t) + 1
           /\ Append(t, m)[Len(t) + 1] = m
           /\ \A i \in 1 .. Len(t) : Append(t, m)[i] = t[i]
           /\ \A i \in 1 .. Len(t) :
                 /\ [t EXCEPT ![i] = m] \in Seq(Marks) /\ Len([t EXCEPT ![i] = m]) = Len(t)
                 /\ [t EXCEPT ![i] = m][i] = m
                 /\ \A j \in 1 .. Len(t) : j # i => [t EXCEPT ![i] = m][j] = t[j]
OBVIOUS

LEMMA OpenLockKeeps ==
    ASSUME LockInv, NEW pid \in Pids, OpenLock(pid)
    PROVE  LockInv'
<1> PICK r : r = procs[pid]
    OBVIOUS
<1> PICK prog : prog = r.prog
    OBVIOUS
<1> PICK inode : inode = IF lock[prog] # 0 THEN lock[prog] ELSE Len(text) + 1
    OBVIOUS
<1> PICK q : q = [r EXCEPT !.pc = "wait", !.inode = inode]
    OBVIOUS
<1>1. /\ pid \in DOMAIN procs /\ r.pc = "open"
      /\ lock' = [lock EXCEPT ![prog] = inode]
      /\ text' = IF lock[prog] # 0 THEN text ELSE Append(text, "empty")
      /\ procs' = [procs EXCEPT ![pid] = q]
      /\ data' = data /\ unlinked' = unlinked /\ torn' = torn
    BY DEF OpenLock, At, ghosts
<1>2. /\ Table(procs) /\ OpensOwn /\ OneHolder /\ Marked /\ UsesPresent /\ FilesKnown
      /\ lock \in [Programs -> Nat] /\ text \in Seq(Marks) /\ data \in [Programs -> States]
      /\ unlinked \in [Programs -> BOOLEAN] /\ torn \in [Programs -> BOOLEAN]
    BY DEF LockInv, TypeOK, FilesOK
<1>3. r \in ProcessType /\ prog \in Programs /\ inode \in Nat \ {0}
    <2>1. r \in ProcessType
        BY <1>1, <1>2 DEF Table
    <2>2. prog \in Programs
        BY <2>1 DEF ProcessType
    <2>3. Len(text) \in Nat /\ lock[prog] \in Nat
        BY <1>2, <2>2
    <2>4. QED
        BY <2>1, <2>2, <2>3
<1>4. q \in ProcessType /\ q = [r EXCEPT !.pc = q.pc, !.inode = q.inode]
      /\ q.pc = "wait" /\ q.inode = inode /\ q.prog = prog
    <2>1. "off" \in {"get", "check", "off"} /\ "wait" \in PCs /\ 0 \in Int
        BY DEF PCs
    <2>2. q \in ProcessType
        BY <1>3, <2>1, Updates
    <2>3. QED
        BY <1>3, <2>2 DEF ProcessType
<1>5. /\ Table(procs') /\ DOMAIN procs' = DOMAIN procs
      /\ procs'[pid] = q /\ \A p \in DOMAIN procs : p # pid => procs'[p] = procs[p]
    BY <1>1, <1>2, <1>4, Acts
<1>6. /\ text' \in Seq(Marks) /\ Len(text') \in Nat /\ Len(text) \in Nat
      /\ Len(text') >= Len(text) /\ inode <= Len(text')
      /\ \A i \in 1 .. Len(text) : text'[i] = text[i]
      /\ lock[prog] = 0 => inode > Len(text)
    <2>1. "empty" \in Marks /\ lock[prog] \in 0 .. Len(text)
        BY <1>2, <1>3 DEF Marks, OpensOwn
    <2>2. CASE lock[prog] # 0
        <3>1. text' = text /\ inode = lock[prog] /\ text \in Seq(Marks)
            BY <1>1, <1>2, <2>2
        <3>2. QED
            BY <2>1, <2>2, <3>1
    <2>3. CASE lock[prog] = 0
        <3>1. text' = Append(text, "empty") /\ inode = Len(text) + 1 /\ text \in Seq(Marks)
            BY <1>1, <1>2, <2>3
        <3>2. QED
            BY <2>1, <2>3, <3>1, Texts
    <2>4. QED
        BY <2>2, <2>3
<1>7. TypeOK'
    <2>1. FilesOK'
        BY <1>1, <1>2, <1>3, <1>6 DEF FilesOK
    <2>2. CtlOK'
        BY CtlSame DEF OpenLock, ghosts, LockInv, TypeOK
    <2>3. QED
        BY <1>5, <2>1, <2>2 DEF TypeOK
<1>8. /\ lock'[prog] = inode /\ \A P \in Programs : P # prog => lock'[P] = lock[P]
    BY <1>1, <1>2, <1>3
<1>9. OpensOwn'
    <2>1. /\ \A P \in Programs : lock[P] \in 0 .. Len(text)
          /\ \A P, Q \in Programs : lock[P] = lock[Q] => P = Q \/ lock[P] = 0
          /\ \A p \in DOMAIN procs :
                /\ procs[p].inode \in 0 .. Len(text)
                /\ procs[p].pc \notin {"open", "dead"} => procs[p].inode # 0
                /\ procs[p].inode # 0 =>
                     /\ \A P \in Programs : lock[P] = procs[p].inode => procs[p].prog = P
                     /\ \A s \in DOMAIN procs : procs[s].inode = procs[p].inode => procs[s].prog = procs[p].prog
        BY <1>2 DEF OpensOwn
    <2>2. \A P \in Programs : lock'[P] \in 0 .. Len(text')
        BY <1>3, <1>6, <1>8, <2>1
    <2>3. \A P, Q \in Programs : lock'[P] = lock'[Q] => P = Q \/ lock'[P] = 0
        BY <1>3, <1>6, <1>8, <2>1
    <2>4. ASSUME NEW p \in DOMAIN procs'
          PROVE  /\ procs'[p].inode \in 0 .. Len(text')
                 /\ procs'[p].pc \notin {"open", "dead"} => procs'[p].inode # 0
                 /\ procs'[p].inode # 0 =>
                       \A P \in Programs : lock'[P] = procs'[p].inode => procs'[p].prog = P
        <3>1. CASE p = pid
            <4>1. procs'[p].inode = inode /\ procs'[p].prog = prog
                BY <1>4, <1>5, <3>1
            <4>2. \A P \in Programs : lock'[P] = inode => prog = P
                BY <1>3, <1>8, <2>3
            <4>3. QED
                BY <1>3, <1>6, <4>1, <4>2
        <3>2. CASE p # pid
            <4>1. p \in DOMAIN procs /\ procs'[p] = procs[p] /\ procs[p].inode \in 0 .. Len(text)
                BY <1>5, <2>1, <3>2
            <4>2. ASSUME NEW P \in Programs, lock'[P] = procs[p].inode, procs[p].inode # 0
                  PROVE  procs[p].prog = P
                <5>1. lock[P] = procs[p].inode
                    BY <1>3, <1>6, <1>8, <4>1, <4>2
                <5>2. QED
                    BY <2>1, <4>1, <4>2, <5>1
            <4>3. QED
                BY <1>6, <2>1, <4>1, <4>2
        <3>3. QED
            BY <3>1, <3>2
    <2>5. ASSUME NEW p \in DOMAIN procs', NEW s \in DOMAIN procs',
                 procs'[p].inode # 0, procs'[s].inode = procs'[p].inode
          PROVE  procs'[s].prog = procs'[p].prog
        <3>1. ASSUME NEW u \in DOMAIN procs, procs[u].inode = inode
              PROVE  procs[u].prog = prog
            BY <1>3, <1>6, <2>1, <3>1
        <3>2. QED
            BY <1>1, <1>4, <1>5, <2>1, <2>5, <3>1
    <2>6. QED
        BY <2>2, <2>3, <2>4, <2>5 DEF OpensOwn
<1>10. OneHolder'
    <2>1. ~Holds(pid)'
        BY <1>4, <1>5 DEF Holds
    <2>2. \A p \in DOMAIN procs : p # pid => Holds(p)' = Holds(p)
        BY <1>5 DEF Holds, At
    <2>3. QED
        BY <1>2, <1>5, <2>1, <2>2 DEF OneHolder
<1>11. Marked'
    <2>1. ASSUME NEW p \in DOMAIN procs', procs'[p].pc \in {"locked", "ready"} \cup Working
          PROVE  text'[procs'[p].inode] # "empty"
        <3>1. p # pid /\ procs'[p] = procs[p]
            BY <1>4, <1>5, <2>1 DEF Working
        <3>2. p \in DOMAIN procs /\ procs[p].pc \notin {"open", "dead"}
            BY <1>5, <2>1, <3>1 DEF Working
        <3>3. procs[p].inode \in 0 .. Len(text) /\ procs[p].inode # 0
            BY <1>2, <3>2 DEF OpensOwn
        <3>4. text[procs[p].inode] # "empty"
            BY <1>2, <2>1, <3>1, <3>2 DEF Marked
        <3>5. QED
            BY <1>6, <3>1, <3>3, <3>4
    <2>2. QED
        BY <2>1 DEF Marked
<1>12. UsesPresent'
    <2>1. ASSUME NEW P \in Programs, ~unlinked[P], NEW p \in Users(P)'
          PROVE  procs'[p].inode = lock'[P]
        <3>1. CASE p = pid
            BY <1>4, <1>5, <1>8, <2>1, <3>1 DEF Users, Of
        <3>2. CASE p # pid
            <4>1. p \in Users(P) /\ procs'[p] = procs[p] /\ procs[p].inode # 0
                BY <1>2, <1>5, <2>1, <3>2 DEF Users, Of, OpensOwn
            <4>2. procs[p].inode = lock[P]
                BY <1>2, <2>1, <4>1 DEF UsesPresent
            <4>3. QED
                BY <1>3, <1>8, <4>1, <4>2
        <3>3. QED
            BY <3>1, <3>2
    <2>2. QED
        BY <1>1, <2>1 DEF UsesPresent
<1>13. FilesKnown'
    <2>1. ASSUME NEW P \in Programs, ~unlinked[P], ~torn[P]
          PROVE  MarkedInUse(P)' /\ CleanBy(P)'
        <3>1. MarkedInUse(P) /\ CleanBy(P)
            BY <1>2, <2>1 DEF FilesKnown
        <3>2. CleanBy(P)'
            BY <1>1, <1>4, <1>5, <3>1 DEF CleanBy, Clean, Of
        <3>3. CASE Clean(P)
            BY <1>1, <3>2, <3>3 DEF MarkedInUse, Clean
        <3>4. CASE lock[P] # 0 /\ text[lock[P]] # "empty"
            <4>1. lock'[P] = lock[P] /\ lock[P] \in 1 .. Len(text)
                BY <1>2, <1>3, <1>6, <1>8, <3>4 DEF OpensOwn
            <4>2. text'[lock'[P]] # "empty" /\ lock'[P] # 0
                BY <1>6, <3>4, <4>1
            <4>3. QED
                BY <3>2, <4>2 DEF MarkedInUse
        <3>5. CASE \E p \in Of(P) : At(p, "cut") /\ procs[p].reset
            BY <1>1, <1>5, <3>2, <3>5 DEF MarkedInUse, Of, At
        <3>6. QED
            BY <3>1, <3>2, <3>3, <3>4, <3>5 DEF MarkedInUse
    <2>2. QED
        BY <1>1, <2>1 DEF FilesKnown
<1>14. QED
    BY <1>7, <1>9, <1>10, <1>11, <1>12, <1>13 DEF LockInv

\* A step of a session that has opened the lock file, and leaves it where it is.
Moves(pid, q) ==
    /\ pid \in DOMAIN procs /\ q \in ProcessType /\ procs' = [procs EXCEPT ![pid] = q]
    /\ q.inode = procs[pid].inode /\ q.prog = procs[pid].prog
    /\ {procs[pid].pc, q.pc} \cap {"open", "dead"} = {}

Moved(pid, q) ==
    /\ Table(procs') /\ DOMAIN procs' = DOMAIN procs /\ pid \in DOMAIN procs
    /\ procs'[pid] = q /\ \A p \in DOMAIN procs : p # pid => procs'[p] = procs[p]
    /\ q.prog \in Programs /\ q.inode \in 1 .. Len(text) /\ Len(text) \in Nat
    /\ \A P \in Programs : lock[P] = q.inode => P = q.prog

LEMMA MovesKeep ==
    ASSUME LockInv, NEW pid \in Pids, NEW q, Moves(pid, q),
           UNCHANGED <<lock, unlinked>>, Len(text') = Len(text)
    PROVE  Moved(pid, q) /\ OpensOwn' /\ UsesPresent'
<1>1. /\ Table(procs') /\ DOMAIN procs' = DOMAIN procs /\ pid \in DOMAIN procs
      /\ procs'[pid] = q /\ \A p \in DOMAIN procs : p # pid => procs'[p] = procs[p]
    BY Acts DEF Moves, LockInv, TypeOK
<1>2. \A p \in DOMAIN procs :
        /\ procs'[p].inode = procs[p].inode /\ procs'[p].prog = procs[p].prog
        /\ procs'[p].pc \notin {"open", "dead"} <=> procs[p].pc \notin {"open", "dead"}
    BY <1>1 DEF Moves
<1>3. OpensOwn'
    BY <1>1, <1>2 DEF OpensOwn, LockInv
<1>4. UsesPresent'
    BY <1>1, <1>2 DEF UsesPresent, Users, Of, LockInv
<1>5. q.prog \in Programs
    BY DEF Moves, ProcessType
<1>6. Len(text) \in Nat
    BY DEF LockInv, TypeOK, FilesOK
<1>7. /\ q.inode \in 1 .. Len(text)
      /\ \A P \in Programs : lock[P] = q.inode => P = q.prog
    <2>1. procs[pid].pc \notin {"open", "dead"} /\ q.inode = procs[pid].inode /\ q.prog = procs[pid].prog
        BY DEF Moves
    <2>2. /\ q.inode \in 0 .. Len(text) /\ q.inode # 0
          /\ \A P \in Programs : lock[P] = q.inode => q.prog = P
        BY <1>1, <2>1 DEF OpensOwn, LockInv
    <2>3. QED
        BY <1>6, <2>2
<1>8. QED
    BY <1>1, <1>3, <1>4, <1>5, <1>6, <1>7 DEF Moved

\* Nobody comes to hold the lock by such a step.
LEMMA HolderStays ==
    ASSUME OneHolder, NEW pid \in DOMAIN procs, DOMAIN procs' = DOMAIN procs,
           procs'[pid].inode = procs[pid].inode, Holds(pid)' => Holds(pid),
           \A p \in DOMAIN procs : p # pid => procs'[p] = procs[p]
    PROVE  OneHolder'
<1>1. \A p \in DOMAIN procs : Holds(p)' => Holds(p)
    BY DEF Holds, At
<1>2. QED
    BY <1>1 DEF OneHolder

\* The files of a program whose session does not move.
LEMMA FilesOfOthers ==
    ASSUME NEW P \in Programs, NEW pid \in DOMAIN procs, DOMAIN procs' = DOMAIN procs,
           procs[pid].prog # P, procs'[pid].prog # P,
           \A p \in DOMAIN procs : p # pid => procs'[p] = procs[p],
           data'[P] = data[P], lock' = lock,
           lock[P] # 0 => text'[lock[P]] = text[lock[P]],
           MarkedInUse(P), CleanBy(P)
    PROVE  MarkedInUse(P)' /\ CleanBy(P)'
<1>1. Of(P)' = Of(P) /\ pid \notin Of(P)
    BY DEF Of
<1>2. \A p \in Of(P) : procs'[p] = procs[p] /\ p \in DOMAIN procs
    BY <1>1 DEF Of
<1>3. Clean(P)' = Clean(P)
    BY DEF Clean
<1>4. CleanBy(P)'
    BY <1>1, <1>2, <1>3 DEF CleanBy
<1>5. MarkedInUse(P)'
    BY <1>1, <1>2, <1>3 DEF MarkedInUse, At
<1>6. QED
    BY <1>4, <1>5

LEMMA TakeLockKeeps ==
    ASSUME LockInv, NEW pid \in Pids, TakeLock(pid)
    PROVE  LockInv'
<1> PICK r : r = procs[pid]
    OBVIOUS
<1> PICK b \in BOOLEAN : b = (text[r.inode] # "empty")
    OBVIOUS
<1> PICK q : q = [r EXCEPT !.pc = "cut", !.reset = b]
    OBVIOUS
<1>1. /\ pid \in DOMAIN procs /\ r.pc = "wait"
      /\ \A p \in DOMAIN procs : Holds(p) => procs[p].inode # r.inode
      /\ text' = [text EXCEPT ![r.inode] = "empty"]
      /\ procs' = [procs EXCEPT ![pid] = q]
      /\ lock' = lock /\ data' = data /\ unlinked' = unlinked /\ torn' = torn
    BY DEF TakeLock, At, ghosts
<1>2. /\ Table(procs) /\ OneHolder /\ Marked /\ UsesPresent /\ FilesKnown /\ OpensOwn
      /\ text \in Seq(Marks) /\ lock \in [Programs -> Nat]
    BY DEF LockInv, TypeOK, FilesOK
<1>3. r \in ProcessType
    BY <1>1, <1>2 DEF Table
<1>4. q \in ProcessType /\ q.pc = "cut" /\ q.reset = b /\ q.inode = r.inode /\ q.prog = r.prog
    <2>1. "off" \in {"get", "check", "off"} /\ "cut" \in PCs /\ 0 \in Int /\ 0 \in Nat
        BY DEF PCs
    <2>2. q \in ProcessType
        BY <1>3, <2>1, Updates
    <2>3. QED
        BY <1>3, <2>2 DEF ProcessType
<1>5. /\ text' \in Seq(Marks) /\ Len(text') = Len(text)
      /\ text'[r.inode] = "empty"
      /\ \A i \in 1 .. Len(text) : i # r.inode => text'[i] = text[i]
    <2>1. Len(text) \in Nat /\ "empty" \in Marks
        BY <1>2 DEF Marks
    <2>2. r.inode \in 0 .. Len(text) /\ r.inode # 0
        BY <1>1, <1>2 DEF OpensOwn
    <2>3. r.inode \in 1 .. Len(text)
        BY <2>1, <2>2
    <2>4. QED
        BY <1>1, <1>2, <2>1, <2>3, Texts
<1>6. /\ Table(procs') /\ DOMAIN procs' = DOMAIN procs
      /\ procs'[pid] = q /\ \A p \in DOMAIN procs : p # pid => procs'[p] = procs[p]
      /\ OpensOwn' /\ UsesPresent'
      /\ r.prog \in Programs /\ r.inode \in 1 .. Len(text)
      /\ \A P \in Programs : lock[P] = r.inode => P = r.prog
    <2>1. Moves(pid, q)
        BY <1>1, <1>4 DEF Moves
    <2>2. UNCHANGED <<lock, unlinked>> /\ Len(text') = Len(text)
        BY <1>1, <1>5
    <2>3. Moved(pid, q) /\ OpensOwn' /\ UsesPresent'
        BY <2>1, <2>2, MovesKeep
    <2>4. QED
        BY <1>4, <2>3 DEF Moved
<1>7. TypeOK'
    <2>1. FilesOK'
        BY <1>1, <1>5 DEF FilesOK, LockInv, TypeOK
    <2>2. CtlOK'
        BY CtlSame DEF TakeLock, ghosts, LockInv, TypeOK
    <2>3. QED
        BY <1>6, <2>1, <2>2 DEF TypeOK
<1>8. OneHolder'
    <2>1. \A p \in DOMAIN procs : p # pid => (Holds(p)' <=> Holds(p)) /\ procs'[p].inode = procs[p].inode
        BY <1>6 DEF Holds, At
    <2>2. QED
        BY <1>1, <1>2, <1>4, <1>6, <2>1 DEF OneHolder
<1>9. Marked'
    <2>1. ASSUME NEW p \in DOMAIN procs', procs'[p].pc \in {"locked", "ready"} \cup Working
          PROVE  text'[procs'[p].inode] # "empty"
        <3>1. p # pid /\ procs'[p] = procs[p] /\ p \in DOMAIN procs
            BY <1>4, <1>6, <2>1 DEF Working
        <3>2. Holds(p) /\ procs[p].pc \notin {"open", "dead"}
            BY <2>1, <3>1 DEF Holds, At, Working
        <3>3. procs[p].inode # r.inode /\ procs[p].inode \in 1 .. Len(text)
            BY <1>1, <1>2, <1>6, <3>1, <3>2 DEF OpensOwn
        <3>4. text[procs[p].inode] # "empty"
            BY <1>2, <2>1, <3>1 DEF Marked
        <3>5. QED
            BY <1>5, <1>6, <3>1, <3>3, <3>4
    <2>2. QED
        BY <2>1 DEF Marked
<1>10. FilesKnown'
    <2>1. ASSUME NEW P \in Programs, ~unlinked[P], ~torn[P], P # r.prog
          PROVE  MarkedInUse(P)' /\ CleanBy(P)'
        <3>1. MarkedInUse(P) /\ CleanBy(P)
            BY <1>2, <2>1 DEF FilesKnown
        <3>2. lock[P] # 0 => text'[lock[P]] = text[lock[P]]
            BY <1>2, <1>5, <1>6, <2>1 DEF OpensOwn
        <3>3. QED
            BY <1>1, <1>4, <1>6, <2>1, <3>1, <3>2, FilesOfOthers
    <2>2. ASSUME NEW P \in Programs, ~unlinked[P], ~torn[P], P = r.prog
          PROVE  MarkedInUse(P)' /\ CleanBy(P)'
        <3>1. MarkedInUse(P) /\ CleanBy(P)
            BY <1>2, <2>2 DEF FilesKnown
        <3>2. \A p \in Users(P) : procs[p].inode = lock[P]
            BY <1>2, <2>2 DEF UsesPresent
        <3>3. pid \in Of(P) /\ lock[P] = r.inode
            BY <1>1, <2>2, <3>2 DEF Users, Of
        <3>4. b => MarkedInUse(P)'
            <4>1. pid \in Of(P)' /\ At(pid, "cut")' /\ procs'[pid].reset = b
                BY <1>1, <1>4, <1>6, <2>2 DEF Of, At
            <4>2. QED
                BY <4>1 DEF MarkedInUse
        <3>5. ~b => Clean(P)
            <4>1. ASSUME NEW p \in Of(P), At(p, "cut") PROVE FALSE
                <5>1. p \in Users(P) /\ Holds(p) /\ p \in DOMAIN procs
                    BY <4>1 DEF Users, Of, At, Holds
                <5>2. QED
                    BY <1>1, <3>2, <3>3, <5>1
            <4>2. QED
                BY <3>1, <3>3, <4>1 DEF MarkedInUse
        <3>6. Clean(P)' = Clean(P) /\ Of(P)' = Of(P)
            BY <1>1, <1>4, <1>6 DEF Clean, Of
        <3>7. CleanBy(P)'
            BY <1>4, <1>6, <3>1, <3>5, <3>6 DEF CleanBy, Of
        <3>8. QED
            BY <3>4, <3>5, <3>6, <3>7 DEF MarkedInUse
    <2>3. QED
        BY <1>1, <2>1, <2>2 DEF FilesKnown
<1>11. QED
    BY <1>6, <1>7, <1>8, <1>9, <1>10 DEF LockInv

\* A session that goes on, with nothing else changed in its process.
GoesOn(pid, pc, q) ==
    /\ Moves(pid, q) /\ q.pc = pc
    /\ q.reset = procs[pid].reset /\ q.orderly = procs[pid].orderly

LEMMA GoesMoves ==
    ASSUME LockInv, NEW pid \in DOMAIN procs, NEW pc \in PCs \ {"open", "dead"},
           procs[pid].pc \notin {"open", "dead"}, Goes(pid, pc)
    PROVE  \E q : GoesOn(pid, pc, q)
<1> PICK r : r = procs[pid]
    OBVIOUS
<1> PICK q : q = [r EXCEPT !.pc = pc]
    OBVIOUS
<1>1. r \in ProcessType
    BY DEF LockInv, TypeOK, Table
<1>2. /\ q \in ProcessType /\ q.pc = pc /\ q.inode = r.inode /\ q.prog = r.prog
      /\ q.reset = r.reset /\ q.orderly = r.orderly
    BY <1>1 DEF ProcessType
<1>3. procs' = [procs EXCEPT ![pid] = q]
    BY DEF Goes
<1>4. GoesOn(pid, pc, q)
    BY <1>2, <1>3 DEF GoesOn, Moves
<1>5. QED
    BY <1>4

\* A session writes the lock file that it holds.
LEMMA Writes ==
    ASSUME LockInv, NEW i \in 1 .. Len(text), NEW m \in Marks, text' = [text EXCEPT ![i] = m]
    PROVE  /\ text' \in Seq(Marks) /\ Len(text') = Len(text) /\ text'[i] = m
           /\ \A j \in 1 .. Len(text) : j # i => text'[j] = text[j]
<1>1. text \in Seq(Marks)
    BY DEF LockInv, TypeOK, FilesOK
<1>2. QED
    BY <1>1, Texts

\* The mark of another process, and the one in the lock file of another program.
LEMMA OthersMarks ==
    ASSUME LockInv, NEW i \in 1 .. Len(text), NEW prog \in Programs,
           \A P \in Programs : lock[P] = i => P = prog,
           \A j \in 1 .. Len(text) : j # i => text'[j] = text[j]
    PROVE  /\ \A P \in Programs : P # prog /\ lock[P] # 0 => text'[lock[P]] = text[lock[P]]
           /\ \A p \in DOMAIN procs :
                 procs[p].pc \notin {"open", "dead"} /\ procs[p].inode # i =>
                    text'[procs[p].inode] = text[procs[p].inode]
<1>1. Len(text) \in Nat
    BY DEF LockInv, TypeOK, FilesOK
<1>2. \A P \in Programs : P # prog /\ lock[P] # 0 => text'[lock[P]] = text[lock[P]]
    BY <1>1 DEF LockInv, OpensOwn
<1>3. ASSUME NEW p \in DOMAIN procs, procs[p].pc \notin {"open", "dead"}, procs[p].inode # i
      PROVE  text'[procs[p].inode] = text[procs[p].inode]
    <2>1. procs[p].inode \in 0 .. Len(text) /\ procs[p].inode # 0
        BY <1>3 DEF LockInv, OpensOwn
    <2>2. QED
        BY <1>1, <1>3, <2>1
<1>4. QED
    BY <1>2, <1>3

LEMMA WritePidKeeps ==
    ASSUME LockInv, NEW pid \in Pids, WritePid(pid)
    PROVE  LockInv'
<1>1. /\ pid \in DOMAIN procs /\ procs[pid].pc = "cut" /\ Goes(pid, "locked")
      /\ text' = [text EXCEPT ![procs[pid].inode] = "pid"]
      /\ lock' = lock /\ data' = data /\ unlinked' = unlinked /\ torn' = torn
    BY DEF WritePid, At, ghosts
<1> PICK r : r = procs[pid]
    OBVIOUS
<1>2. PICK q : GoesOn(pid, "locked", q)
    <2>1. "locked" \in PCs \ {"open", "dead"}
        BY DEF PCs
    <2>2. QED
        BY <1>1, <2>1, GoesMoves
<1>3. /\ Moves(pid, q) /\ q.pc = "locked" /\ q.reset = r.reset /\ q.inode = r.inode /\ q.prog = r.prog
    BY <1>2 DEF GoesOn, Moves
<1>4. r.inode \in 1 .. Len(text)
    <2>1. r.inode \in 0 .. Len(text) /\ r.inode # 0 /\ Len(text) \in Nat
        BY <1>1 DEF LockInv, OpensOwn, TypeOK, FilesOK
    <2>2. QED
        BY <2>1
<1>5. /\ text' \in Seq(Marks) /\ Len(text') = Len(text) /\ text'[r.inode] = "pid"
      /\ \A j \in 1 .. Len(text) : j # r.inode => text'[j] = text[j]
    <2>1. "pid" \in Marks
        BY DEF Marks
    <2>2. QED
        BY <1>1, <1>4, <2>1, Writes
<1>6. Moved(pid, q) /\ OpensOwn' /\ UsesPresent'
    BY <1>1, <1>3, <1>5, MovesKeep
<1>7. TypeOK'
    <2>1. FilesOK'
        BY <1>1, <1>5 DEF FilesOK, LockInv, TypeOK
    <2>2. CtlOK'
        BY CtlSame DEF WritePid, ghosts, LockInv, TypeOK
    <2>3. QED
        BY <1>6, <2>1, <2>2 DEF TypeOK, Moved
<1>8. /\ \A P \in Programs : P # r.prog /\ lock[P] # 0 => text'[lock[P]] = text[lock[P]]
      /\ \A p \in DOMAIN procs :
            procs[p].pc \notin {"open", "dead"} /\ procs[p].inode # r.inode =>
                text'[procs[p].inode] = text[procs[p].inode]
    <2>1. r.prog \in Programs /\ \A P \in Programs : lock[P] = r.inode => P = r.prog
        BY <1>3, <1>6 DEF Moved
    <2>2. QED
        BY <1>4, <1>5, <2>1, OthersMarks
<1>9. OneHolder'
    <2>1. Holds(pid)
        BY <1>1 DEF Holds, At
    <2>2. QED
        BY <1>3, <1>6, <2>1, HolderStays DEF LockInv, Moved
<1>10. Marked'
    <2>1. ASSUME NEW p \in DOMAIN procs', procs'[p].pc \in {"locked", "ready"} \cup Working
          PROVE  text'[procs'[p].inode] # "empty"
        <3>1. CASE procs'[p].inode = r.inode
            BY <1>5, <3>1
        <3>2. CASE procs'[p].inode # r.inode
            <4>1. p \in DOMAIN procs /\ procs'[p] = procs[p]
                BY <1>3, <1>6, <3>2 DEF Moved
            <4>2. procs[p].pc \notin {"open", "dead"} /\ text[procs[p].inode] # "empty"
                BY <2>1, <4>1 DEF LockInv, Marked, Working
            <4>3. QED
                BY <1>8, <3>2, <4>1, <4>2
        <3>3. QED
            BY <3>1, <3>2
    <2>2. QED
        BY <2>1 DEF Marked
<1>11. FilesKnown'
    <2>1. ASSUME NEW P \in Programs, ~unlinked[P], ~torn[P]
          PROVE  MarkedInUse(P)' /\ CleanBy(P)'
        <3>1. MarkedInUse(P) /\ CleanBy(P)
            BY <2>1 DEF LockInv, FilesKnown
        <3>2. CASE P # r.prog
            BY <1>1, <1>3, <1>6, <1>8, <3>1, <3>2, FilesOfOthers DEF Moved
        <3>3. CASE P = r.prog
            <4>1. pid \in Users(P)
                BY <1>1, <3>3 DEF Users, Of
            <4>2. lock[P] = r.inode
                BY <2>1, <4>1 DEF LockInv, UsesPresent
            <4>3. MarkedInUse(P)'
                BY <1>1, <1>4, <1>5, <4>2 DEF MarkedInUse
            <4>4. CleanBy(P)'
                BY <1>1, <1>3, <1>6, <3>1 DEF CleanBy, Clean, Of, Moved
            <4>5. QED
                BY <4>3, <4>4
        <3>4. QED
            BY <3>2, <3>3
    <2>2. QED
        BY <1>1, <2>1 DEF FilesKnown
<1>12. QED
    BY <1>6, <1>7, <1>9, <1>10, <1>11 DEF LockInv

\* A session that is between WritePid and Unlock does something to its own files.
LEMMA DataKeeps ==
    ASSUME LockInv, NEW pid \in Pids, NEW q, Moves(pid, q), UNCHANGED <<lock, text, unlinked>>,
           procs[pid].pc \in {"locked", "ready"} \cup Working, FilesOK', CtlOK',
           \A P \in Programs : P # q.prog => data'[P] = data[P] /\ torn'[P] = torn[P],
           ~unlinked[q.prog] /\ ~torn'[q.prog] => MarkedInUse(q.prog)' /\ CleanBy(q.prog)'
    PROVE  LockInv'
<1>1. Moved(pid, q) /\ OpensOwn' /\ UsesPresent'
    BY MovesKeep
<1>2. /\ pid \in DOMAIN procs /\ q.inode = procs[pid].inode /\ q.prog = procs[pid].prog
      /\ text[procs[pid].inode] # "empty" /\ Holds(pid)
    BY DEF Moves, LockInv, Marked, Holds, At, Working
<1>3. OneHolder'
    BY <1>1, <1>2, HolderStays DEF LockInv, Moved
<1>4. Marked'
    BY <1>1, <1>2 DEF LockInv, Marked, Moved
<1>5. ASSUME NEW P \in Programs, ~unlinked[P], ~torn'[P], P # q.prog
      PROVE  MarkedInUse(P)' /\ CleanBy(P)'
    <2>1. MarkedInUse(P) /\ CleanBy(P)
        BY <1>5 DEF LockInv, FilesKnown
    <2>2. QED
        BY <1>1, <1>2, <1>5, <2>1, FilesOfOthers DEF Moved
<1>6. FilesKnown'
    BY <1>5 DEF FilesKnown
<1>7. QED
    BY <1>1, <1>3, <1>4, <1>6 DEF LockInv, TypeOK, Moved

LEMMA ResetFilesKeeps ==
    ASSUME LockInv, NEW pid \in Pids, ResetFiles(pid)
    PROVE  LockInv'
<1> PICK r : r = procs[pid]
    OBVIOUS
<1> PICK q : q = [r EXCEPT !.pc = "ready", !.reset = FALSE]
    OBVIOUS
<1>1. /\ pid \in DOMAIN procs /\ r.pc = "locked"
      /\ procs' = [procs EXCEPT ![pid] = q]
      /\ data' = IF r.reset THEN [data EXCEPT ![r.prog] = "none"] ELSE data
      /\ UNCHANGED <<lock, text, unlinked, torn>>
    BY DEF ResetFiles, At, ghosts
<1>2. r \in ProcessType /\ r.prog \in Programs
    BY <1>1 DEF LockInv, TypeOK, Table, ProcessType
<1>3. q \in ProcessType /\ q.pc = "ready" /\ ~q.reset /\ q.inode = r.inode /\ q.prog = r.prog
    <2>1. "off" \in {"get", "check", "off"} /\ "ready" \in PCs /\ 0 \in Int /\ 0 \in Nat
        BY DEF PCs
    <2>2. q \in ProcessType
        BY <1>2, <2>1, Updates
    <2>3. QED
        BY <1>2, <2>2 DEF ProcessType
<1>4. Moves(pid, q)
    BY <1>1, <1>3 DEF Moves
<1>5. data \in [Programs -> States]
    BY DEF LockInv, TypeOK, FilesOK
<1>6. FilesOK'
    BY <1>1, <1>2 DEF LockInv, TypeOK, FilesOK, States
<1>7. CtlOK'
    BY CtlSame DEF ResetFiles, ghosts, LockInv, TypeOK
<1>8. ASSUME ~unlinked[q.prog], ~torn'[q.prog]
      PROVE  MarkedInUse(q.prog)' /\ CleanBy(q.prog)'
    <2>1. CleanBy(r.prog)
        BY <1>1, <1>2, <1>3, <1>8 DEF LockInv, FilesKnown
    <2>2. pid \in Of(r.prog)
        BY <1>1 DEF Of
    <2>3. r.reset \/ Clean(r.prog)
        BY <1>1, <2>1, <2>2 DEF CleanBy
    <2>4. Clean(r.prog)'
        BY <1>1, <1>2, <1>5, <2>3 DEF Clean
    <2>5. QED
        BY <1>3, <2>4 DEF MarkedInUse, CleanBy
<1>9. \A P \in Programs : P # q.prog => data'[P] = data[P] /\ torn'[P] = torn[P]
    BY <1>1, <1>2, <1>3, <1>5
<1>10. QED
    BY <1>1, <1>4, <1>6, <1>7, <1>8, <1>9, DataKeeps

LEMMA OpenQueueKeeps ==
    ASSUME LockInv, NEW pid \in Pids, OpenQueue(pid)
    PROVE  LockInv'
<1> PICK r : r = procs[pid]
    OBVIOUS
<1> PICK pc \in {"run", "check"} :
        pc = IF r.prog = "auoms" \/ r.by = Auditd THEN "run" ELSE "check"
    OBVIOUS
<1>1. /\ pid \in DOMAIN procs /\ r.pc = "ready" /\ Goes(pid, pc)
      /\ data' = [data EXCEPT ![r.prog] = "used"]
      /\ torn' = [torn EXCEPT ![r.prog] = FALSE]
      /\ UNCHANGED <<lock, text, unlinked>>
    BY DEF OpenQueue, At
<1>2. PICK q : GoesOn(pid, pc, q)
    <2>1. pc \in PCs \ {"open", "dead"}
        BY DEF PCs
    <2>2. QED
        BY <1>1, <2>1, GoesMoves
<1>3. Moves(pid, q) /\ q.pc \in {"run", "check"} /\ q.prog = r.prog /\ q.inode = r.inode
    BY <1>2 DEF GoesOn, Moves
<1>4. Moved(pid, q) /\ r.prog \in Programs /\ OneHolder' /\ UsesPresent'
    <2>1. Holds(pid)
        BY <1>1 DEF Holds, At
    <2>2. Moved(pid, q) /\ UsesPresent'
        BY <1>1, <1>3, MovesKeep
    <2>3. QED
        BY <1>3, <2>1, <2>2, HolderStays DEF LockInv, Moved
<1>5. data \in [Programs -> States] /\ torn \in [Programs -> BOOLEAN]
    BY DEF LockInv, TypeOK, FilesOK
<1>6. FilesOK'
    BY <1>1, <1>4 DEF LockInv, TypeOK, FilesOK, States
<1>7. CtlOK'
    BY CtlSame DEF OpenQueue, LockInv, TypeOK
<1>8. ASSUME ~unlinked[q.prog]
      PROVE  MarkedInUse(q.prog)' /\ CleanBy(q.prog)'
    <2>1. \A p \in Users(r.prog)' : procs'[p].inode = lock'[r.prog]
        BY <1>1, <1>3, <1>4, <1>8 DEF UsesPresent
    <2>2. pid \in Users(r.prog)' /\ Holds(pid)'
        BY <1>3, <1>4 DEF Users, Of, Moved, Holds, At
    <2>3. lock'[r.prog] # 0 /\ text'[lock'[r.prog]] # "empty"
        <3>1. lock'[r.prog] = r.inode
            BY <1>3, <1>4, <2>1, <2>2 DEF Moved
        <3>2. text[r.inode] # "empty" /\ r.inode # 0
            BY <1>1 DEF LockInv, Marked, OpensOwn
        <3>3. QED
            BY <1>1, <3>1, <3>2
    <2>4. ASSUME NEW p \in Of(r.prog)', procs'[p].pc \in {"cut", "locked", "ready", "unlock"}
          PROVE  FALSE
        <3>1. p \in Users(r.prog)' /\ Holds(p)' /\ p \in DOMAIN procs'
            BY <2>4 DEF Users, Of, Holds, At
        <3>2. procs'[p].inode = procs'[pid].inode /\ pid \in DOMAIN procs'
            BY <2>1, <2>2, <3>1 DEF Users, Of
        <3>3. p = pid
            BY <1>4, <2>2, <3>1, <3>2 DEF OneHolder
        <3>4. QED
            BY <1>3, <1>4, <2>4, <3>3 DEF Moved
    <2>5. QED
        BY <1>3, <2>3, <2>4 DEF MarkedInUse, CleanBy
<1>9. \A P \in Programs : P # q.prog => data'[P] = data[P] /\ torn'[P] = torn[P]
    BY <1>1, <1>3, <1>5
<1>10. QED
    BY <1>1, <1>3, <1>6, <1>7, <1>8, <1>9, DataKeeps

LEMMA CloseQueueKeeps ==
    ASSUME LockInv, NEW pid \in Pids, CloseQueue(pid)
    PROVE  LockInv'
<1> PICK r : r = procs[pid]
    OBVIOUS
<1> PICK pc \in {"unlock", "exit"} : pc = IF r.orderly THEN "unlock" ELSE "exit"
    OBVIOUS
<1>1. /\ pid \in DOMAIN procs /\ r.pc = "close" /\ Goes(pid, pc)
      /\ data' = [data EXCEPT ![r.prog] = IF r.orderly THEN "closed" ELSE @]
      /\ UNCHANGED <<lock, text, unlinked, torn>>
    BY DEF CloseQueue, At, ghosts
<1>2. PICK q : GoesOn(pid, pc, q)
    <2>1. pc \in PCs \ {"open", "dead"}
        BY DEF PCs
    <2>2. QED
        BY <1>1, <2>1, GoesMoves
<1>3. Moves(pid, q) /\ q.pc = pc /\ q.prog = r.prog /\ q.inode = r.inode
    BY <1>2 DEF GoesOn, Moves
<1>4. Moved(pid, q) /\ r.prog \in Programs
    BY <1>1, <1>3, MovesKeep DEF Moved
<1>5. data \in [Programs -> States]
    BY DEF LockInv, TypeOK, FilesOK
<1>6. FilesOK'
    BY <1>1, <1>4 DEF LockInv, TypeOK, FilesOK, States
<1>7. CtlOK'
    BY CtlSame DEF CloseQueue, ghosts, LockInv, TypeOK
<1>8. ASSUME ~unlinked[q.prog], ~torn'[q.prog]
      PROVE  MarkedInUse(q.prog)' /\ CleanBy(q.prog)'
    <2>1. MarkedInUse(r.prog) /\ CleanBy(r.prog)
        BY <1>1, <1>3, <1>4, <1>8 DEF LockInv, FilesKnown
    <2>2. CASE r.orderly
        <3>1. Clean(r.prog)'
            BY <1>1, <1>4, <1>5, <2>2 DEF Clean
        <3>2. QED
            BY <1>3, <3>1 DEF MarkedInUse, CleanBy
    <2>3. CASE ~r.orderly
        <3>1. pc = "exit" /\ data'[r.prog] = data[r.prog]
            BY <1>1, <1>4, <1>5, <2>3
        <3>2. CleanBy(r.prog)'
            BY <1>3, <1>4, <2>1, <3>1 DEF CleanBy, Clean, Of, Moved
        <3>3. MarkedInUse(r.prog)'
            BY <1>1, <1>3, <1>4, <2>1, <3>1 DEF MarkedInUse, Clean, Of, At, Moved
        <3>4. QED
            BY <1>3, <3>2, <3>3
    <2>4. QED
        BY <2>2, <2>3
<1>9. \A P \in Programs : P # q.prog => data'[P] = data[P] /\ torn'[P] = torn[P]
    BY <1>1, <1>3, <1>5
<1>10. QED
    BY <1>1, <1>3, <1>6, <1>7, <1>8, <1>9, DataKeeps DEF Working

LEMMA UnlockKeeps ==
    ASSUME LockInv, NEW pid \in Pids, Unlock(pid)
    PROVE  LockInv'
<1>1. /\ pid \in DOMAIN procs /\ procs[pid].pc = "unlock" /\ Goes(pid, "exit")
      /\ text' = [text EXCEPT ![procs[pid].inode] = "empty"]
      /\ lock' = lock /\ data' = data /\ unlinked' = unlinked /\ torn' = torn
    BY DEF Unlock, At, ghosts
<1> PICK r : r = procs[pid]
    OBVIOUS
<1>2. PICK q : GoesOn(pid, "exit", q)
    <2>1. "exit" \in PCs \ {"open", "dead"}
        BY DEF PCs
    <2>2. QED
        BY <1>1, <2>1, GoesMoves
<1>3. Moves(pid, q) /\ q.pc = "exit" /\ q.inode = r.inode /\ q.prog = r.prog
    BY <1>2 DEF GoesOn, Moves
<1>4. r.inode \in 1 .. Len(text)
    <2>1. r.inode \in 0 .. Len(text) /\ r.inode # 0 /\ Len(text) \in Nat
        BY <1>1 DEF LockInv, OpensOwn, TypeOK, FilesOK
    <2>2. QED
        BY <2>1
<1>5. /\ text' \in Seq(Marks) /\ Len(text') = Len(text)
      /\ \A j \in 1 .. Len(text) : j # r.inode => text'[j] = text[j]
    <2>1. "empty" \in Marks
        BY DEF Marks
    <2>2. QED
        BY <1>1, <1>4, <2>1, Writes
<1>6. Moved(pid, q) /\ OpensOwn' /\ UsesPresent'
    BY <1>1, <1>3, <1>5, MovesKeep
<1>7. TypeOK'
    <2>1. FilesOK'
        BY <1>1, <1>5 DEF FilesOK, LockInv, TypeOK
    <2>2. CtlOK'
        BY CtlSame DEF Unlock, ghosts, LockInv, TypeOK
    <2>3. QED
        BY <1>6, <2>1, <2>2 DEF TypeOK, Moved
<1>8. /\ \A P \in Programs : P # r.prog /\ lock[P] # 0 => text'[lock[P]] = text[lock[P]]
      /\ \A p \in DOMAIN procs :
            procs[p].pc \notin {"open", "dead"} /\ procs[p].inode # r.inode =>
                text'[procs[p].inode] = text[procs[p].inode]
    <2>1. r.prog \in Programs /\ \A P \in Programs : lock[P] = r.inode => P = r.prog
        BY <1>3, <1>6 DEF Moved
    <2>2. QED
        BY <1>4, <1>5, <2>1, OthersMarks
<1>9. Holds(pid) /\ OneHolder
    BY <1>1 DEF Holds, At, LockInv
<1>10. OneHolder'
    BY <1>3, <1>6, <1>9, HolderStays DEF Moved
<1>11. Marked'
    <2>1. ASSUME NEW p \in DOMAIN procs', procs'[p].pc \in {"locked", "ready"} \cup Working
          PROVE  text'[procs'[p].inode] # "empty"
        <3>1. p \in DOMAIN procs /\ procs'[p] = procs[p] /\ p # pid
            BY <1>3, <1>6, <2>1 DEF Moved, Working
        <3>2. procs[p].pc \notin {"open", "dead"} /\ text[procs[p].inode] # "empty" /\ Holds(p)
            BY <2>1, <3>1 DEF LockInv, Marked, Working, Holds, At
        <3>3. procs[p].inode # r.inode
            BY <1>1, <1>9, <3>1, <3>2 DEF OneHolder
        <3>4. QED
            BY <1>8, <3>1, <3>2, <3>3
    <2>2. QED
        BY <2>1 DEF Marked
<1>12. FilesKnown'
    <2>1. ASSUME NEW P \in Programs, ~unlinked[P], ~torn[P]
          PROVE  MarkedInUse(P)' /\ CleanBy(P)'
        <3>1. MarkedInUse(P) /\ CleanBy(P)
            BY <2>1 DEF LockInv, FilesKnown
        <3>2. CASE P # r.prog
            BY <1>1, <1>3, <1>6, <1>8, <3>1, <3>2, FilesOfOthers DEF Moved
        <3>3. CASE P = r.prog
            <4>1. Clean(P)'
                BY <1>1, <3>1, <3>3 DEF CleanBy, Clean, Of
            <4>2. QED
                BY <4>1 DEF MarkedInUse, CleanBy
        <3>4. QED
            BY <3>2, <3>3
    <2>2. QED
        BY <1>1, <2>1 DEF FilesKnown
<1>13. QED
    BY <1>6, <1>7, <1>10, <1>11, <1>12 DEF LockInv

\* flag_reset, which asks nobody: `unlinked` says where it has interfered.
LEMMA NoUsers ==
    ASSUME LockInv, NEW P \in Programs, Users(P) = {}, UNCHANGED <<procs, data>>,
           MarkedInUse(P), CleanBy(P)
    PROVE  /\ CleanBy(P)'
           /\ (lock[P] # 0 => text[lock[P]] = "empty") => Clean(P)'
<1>1. \A p \in Of(P) : procs[p].pc \in {"open", "dead"}
    BY DEF Users
<1>2. CleanBy(P)'
    BY <1>1 DEF CleanBy, Of
<1>3. ASSUME lock[P] # 0 => text[lock[P]] = "empty" PROVE Clean(P)'
    BY <1>1, <1>3 DEF MarkedInUse, Clean, At, Of
<1>4. QED
    BY <1>2, <1>3

LEMMA UnlinkKeeps ==
    ASSUME LockInv, NEW prog \in Programs, Unlink(prog), UNCHANGED <<procs, data, torn>>, CtlOK'
    PROVE  LockInv'
<1>1. /\ lock' = [lock EXCEPT ![prog] = 0] /\ text' = text
      /\ unlinked' = [unlinked EXCEPT ![prog] = @ \/ text[lock[prog]] # "empty" \/ Users(prog) # {}]
      /\ lock[prog] # 0
    BY DEF Unlink
<1>2. /\ lock \in [Programs -> Nat] /\ unlinked \in [Programs -> BOOLEAN]
      /\ Len(text) \in Nat
    BY DEF LockInv, TypeOK, FilesOK
<1>3. /\ lock'[prog] = 0 /\ \A P \in Programs : P # prog => lock'[P] = lock[P] /\ unlinked'[P] = unlinked[P]
      /\ ~unlinked'[prog] => ~unlinked[prog] /\ text[lock[prog]] = "empty" /\ Users(prog) = {}
    BY <1>1, <1>2
<1>4. unlinked' \in [Programs -> BOOLEAN]
    <2> PICK b \in BOOLEAN : b = (unlinked[prog] \/ text[lock[prog]] # "empty" \/ Users(prog) # {})
        OBVIOUS
    <2>1. unlinked' = [unlinked EXCEPT ![prog] = b]
        BY <1>1
    <2>2. QED
        BY <1>2, <2>1
<1>5. TypeOK'
    BY <1>1, <1>2, <1>4 DEF LockInv, TypeOK, FilesOK, Table
<1>6. OpensOwn'
    BY <1>1, <1>2, <1>3 DEF LockInv, OpensOwn
<1>7. OneHolder' /\ Marked'
    BY <1>1 DEF LockInv, OneHolder, Marked, Holds, At
<1>8. UsesPresent'
    <2>1. \A P \in Programs : Users(P)' = Users(P)
        BY DEF Users, Of
    <2>2. QED
        BY <1>3, <2>1 DEF LockInv, UsesPresent, Users, Of
<1>9. ASSUME NEW P \in Programs, ~unlinked'[P], ~torn'[P]
      PROVE  MarkedInUse(P)' /\ CleanBy(P)'
    <2>1. MarkedInUse(P) /\ CleanBy(P)
        BY <1>3, <1>9 DEF LockInv, FilesKnown
    <2>2. CASE P # prog
        BY <1>1, <1>3, <2>1, <2>2 DEF MarkedInUse, CleanBy, Clean, Of, At
    <2>3. CASE P = prog
        BY <1>3, <1>9, <2>1, <2>3, NoUsers DEF MarkedInUse
    <2>4. QED
        BY <2>2, <2>3
<1>10. QED
    BY <1>5, <1>6, <1>7, <1>8, <1>9 DEF LockInv, FilesKnown

LEMMA WriteFlagKeeps ==
    ASSUME LockInv, NEW prog \in Programs, WriteFlag(prog), UNCHANGED <<procs, data, torn>>, CtlOK'
    PROVE  LockInv'
<1>1. /\ lock \in [Programs -> Nat] /\ unlinked \in [Programs -> BOOLEAN]
      /\ text \in Seq(Marks) /\ Len(text) \in Nat /\ "flag" \in Marks
      /\ \A P \in Programs : lock[P] \in 0 .. Len(text)
      /\ \A P, Q \in Programs : lock[P] = lock[Q] => P = Q \/ lock[P] = 0
    BY DEF LockInv, TypeOK, FilesOK, Marks, OpensOwn
<1>2. /\ \A P \in Programs : P # prog => unlinked'[P] = unlinked[P]
      /\ ~unlinked'[prog] => ~unlinked[prog] \/ Users(prog) = {}
      /\ unlinked' \in [Programs -> BOOLEAN]
    <2> PICK b \in BOOLEAN : b = (unlinked[prog] /\ Users(prog) # {})
        OBVIOUS
    <2>1. unlinked' = [unlinked EXCEPT ![prog] = b]
        BY DEF WriteFlag
    <2>2. QED
        BY <1>1, <2>1
<1>3. \A P \in Programs : Users(P)' = Users(P) /\ Of(P)' = Of(P)
    BY DEF Users, Of
<1>4. \A P \in Programs : \A p \in Users(P) :
        p \in DOMAIN procs /\ procs[p].inode # 0 /\ (~unlinked[P] => procs[p].inode = lock[P])
    BY DEF LockInv, UsesPresent, OpensOwn, Users, Of
<1>5. PICK i : /\ lock'[prog] = i /\ i # 0 /\ text'[i] = "flag"
               /\ text' \in Seq(Marks) /\ lock' \in [Programs -> Nat]
               /\ \A P \in Programs : P # prog => lock'[P] = lock[P] /\ lock[P] # i
               /\ \A j \in 1 .. Len(text) : j # i => text'[j] = text[j]
               /\ i \in 1 .. Len(text') /\ Len(text') \in Nat /\ Len(text') >= Len(text)
               /\ IF lock[prog] = 0 THEN i > Len(text) ELSE i = lock[prog]
    <2>1. CASE lock[prog] = 0
        <3>1. lock' = [lock EXCEPT ![prog] = Len(text) + 1] /\ text' = Append(text, "flag")
            BY <2>1 DEF WriteFlag
        <3>2. /\ text' \in Seq(Marks) /\ Len(text') = Len(text) + 1
              /\ text'[Len(text) + 1] = "flag"
              /\ \A j \in 1 .. Len(text) : text'[j] = text[j]
            BY <1>1, <3>1, Texts
        <3>3. /\ lock'[prog] = Len(text) + 1 /\ lock' \in [Programs -> Nat]
              /\ \A P \in Programs : P # prog => lock'[P] = lock[P] /\ lock[P] # Len(text) + 1
            BY <1>1, <3>1
        <3>4. QED
            BY <1>1, <2>1, <3>2, <3>3
    <2>2. CASE lock[prog] # 0
        <3>1. lock' = lock /\ text' = [text EXCEPT ![lock[prog]] = "flag"] /\ lock[prog] \in 1 .. Len(text)
            BY <1>1, <2>2 DEF WriteFlag
        <3>2. /\ text' \in Seq(Marks) /\ Len(text') = Len(text)
              /\ text'[lock[prog]] = "flag"
              /\ \A j \in 1 .. Len(text) : j # lock[prog] => text'[j] = text[j]
            BY <1>1, <3>1, Texts
        <3>3. \A P \in Programs : P # prog => lock'[P] = lock[P] /\ lock[P] # lock[prog]
            BY <1>1, <2>2, <3>1
        <3>4. QED
            BY <1>1, <2>2, <3>1, <3>2, <3>3
    <2>3. QED
        BY <2>1, <2>2
<1>6. TypeOK'
    BY <1>2, <1>5 DEF LockInv, TypeOK, FilesOK, Table
<1>7. OpensOwn'
    <2>1. \A P \in Programs : lock'[P] \in 0 .. Len(text')
        <3>1. ASSUME NEW P \in Programs PROVE lock'[P] \in 0 .. Len(text')
            <4>1. CASE P = prog
                BY <1>5, <4>1
            <4>2. CASE P # prog
                BY <1>1, <1>5, <4>2
            <4>3. QED
                BY <4>1, <4>2
        <3>2. QED
            BY <3>1
    <2>2. \A P, Q \in Programs : lock'[P] = lock'[Q] => P = Q \/ lock'[P] = 0
        BY <1>1, <1>5
    <2>3. ASSUME NEW p \in DOMAIN procs
          PROVE  /\ procs[p].inode \in 0 .. Len(text')
                 /\ procs[p].pc \notin {"open", "dead"} => procs[p].inode # 0
                 /\ procs[p].inode # 0 =>
                      /\ \A P \in Programs : lock'[P] = procs[p].inode => procs[p].prog = P
                      /\ \A s \in DOMAIN procs : procs[s].inode = procs[p].inode => procs[s].prog = procs[p].prog
        <3>1. /\ procs[p].inode \in 0 .. Len(text)
              /\ procs[p].pc \notin {"open", "dead"} => procs[p].inode # 0
              /\ procs[p].inode # 0 =>
                      /\ \A P \in Programs : lock[P] = procs[p].inode => procs[p].prog = P
                      /\ \A s \in DOMAIN procs : procs[s].inode = procs[p].inode => procs[s].prog = procs[p].prog
            BY DEF LockInv, OpensOwn
        <3>2. ASSUME NEW P \in Programs, lock'[P] = procs[p].inode, procs[p].inode # 0
              PROVE  procs[p].prog = P
            <4>1. lock[P] = procs[p].inode
                BY <1>1, <1>5, <3>1, <3>2
            <4>2. QED
                BY <3>1, <3>2, <4>1
        <3>3. procs[p].inode \in 0 .. Len(text')
            BY <1>1, <1>5, <3>1
        <3>4. QED
            BY <3>1, <3>2, <3>3
    <2>4. QED
        BY <2>1, <2>2, <2>3 DEF OpensOwn
<1>8. OneHolder'
    BY DEF LockInv, OneHolder, Holds, At
<1>9. Marked'
    <2>1. ASSUME NEW p \in DOMAIN procs, procs[p].pc \in {"locked", "ready"} \cup Working
          PROVE  text'[procs[p].inode] # "empty"
        <3>1. procs[p].inode \in 0 .. Len(text) /\ procs[p].inode # 0 /\ text[procs[p].inode] # "empty"
            BY <2>1 DEF LockInv, Marked, OpensOwn, Working
        <3>2. procs[p].inode \in 1 .. Len(text)
            BY <1>1, <3>1
        <3>3. QED
            BY <1>5, <3>1, <3>2
    <2>2. QED
        BY <2>1 DEF Marked
<1>10. UsesPresent'
    <2>1. ASSUME NEW P \in Programs, ~unlinked'[P], NEW p \in Users(P)
          PROVE  procs[p].inode = lock'[P]
        <3>1. CASE P # prog
            BY <1>2, <1>4, <1>5, <2>1, <3>1
        <3>2. CASE P = prog
            BY <1>2, <1>4, <1>5, <2>1, <3>2
        <3>3. QED
            BY <3>1, <3>2
    <2>2. QED
        BY <1>3, <2>1 DEF UsesPresent
<1>11. ASSUME NEW P \in Programs, ~unlinked'[P], ~torn'[P]
      PROVE  MarkedInUse(P)' /\ CleanBy(P)'
    <2>1. CASE P # prog
        <3>1. MarkedInUse(P) /\ CleanBy(P)
            BY <1>2, <1>11, <2>1 DEF LockInv, FilesKnown
        <3>2. lock'[P] = lock[P] /\ (lock[P] # 0 => text'[lock[P]] = text[lock[P]])
            BY <1>1, <1>5, <2>1
        <3>3. QED
            BY <3>1, <3>2 DEF MarkedInUse, CleanBy, Clean, Of, At
    <2>2. CASE P = prog
        <3>1. MarkedInUse(P)'
            BY <1>5, <2>2 DEF MarkedInUse
        <3>2. CASE Users(P) = {}
            <4>1. \A p \in Of(P) : procs[p].pc \in {"open", "dead"}
                BY <3>2 DEF Users
            <4>2. QED
                BY <3>1, <4>1 DEF CleanBy, Of
        <3>3. CASE Users(P) # {}
            <4>1. CleanBy(P)
                BY <1>2, <1>11, <2>2, <3>3 DEF LockInv, FilesKnown
            <4>2. QED
                BY <3>1, <4>1 DEF CleanBy, Clean, Of
        <3>4. QED
            BY <3>2, <3>3
    <2>3. QED
        BY <2>1, <2>2
<1>12. QED
    BY <1>6, <1>7, <1>8, <1>9, <1>10, <1>11 DEF LockInv, FilesKnown

-----------------------------------------------------------------------------
(* The rest of the state keeps its type *)

LEMMA Tuples ==
    ASSUME NEW a \in Words, NEW b \in Words, NEW c \in Words, NEW d \in Words
    PROVE  /\ <<>> \in Seq(Words) /\ <<a>> \in Seq(Words) /\ <<a, b>> \in Seq(Words)
           /\ <<a, b, c, d>> \in Seq(Words)
OBVIOUS

LEMMA Scripts ==
    /\ \A command \in Commands \ {"upgrade"} : Script(command) \in Seq(Words)
    /\ Upgrade \in Seq(Words)
<1>1. ResetFlags \in Seq(Words)
    <2>1. {"unlink auoms", "flag auoms", "unlink collect", "flag collect"} \subseteq Words
        BY DEF Words
    <2>2. QED
        BY <2>1, Tuples DEF ResetFlags
<1>2. /\ <<"auditd off", "stop", "wait auoms", "wait collect">> \in Seq(Words)
      /\ <<"start", "auditd on">> \in Seq(Words)
    <2>1. {"auditd off", "stop", "wait auoms", "wait collect", "start", "auditd on"} \subseteq Words
        BY DEF Words
    <2>2. QED
        BY <2>1, Tuples
<1>3. Upgrade \in Seq(Words)
    <2>1. \A a, b \in Seq(Words) : a \o b \in Seq(Words)
        OBVIOUS
    <2>2. <<"auditd off", "stop", "wait auoms", "wait collect">> \o ResetFlags \in Seq(Words)
        BY <1>1, <1>2, <2>1
    <2>3. QED
        BY <1>1, <1>2, <2>1, <2>2 DEF Upgrade
<1>4. ASSUME NEW command \in Commands \ {"upgrade"}
      PROVE  Script(command) \in Seq(Words)
    <2>1. {"start", "stop", "stop if running", "plugin on", "plugin off"} \subseteq Words
        BY DEF Words
    <2>2. /\ <<"start">> \in Seq(Words) /\ <<"stop if running">> \in Seq(Words)
          /\ <<"stop", "start">> \in Seq(Words) /\ <<"start", "plugin on">> \in Seq(Words)
          /\ <<"stop", "plugin off">> \in Seq(Words)
        BY <2>1, Tuples
    <2>3. QED
        BY <2>2, CommandsOfAuomsctl DEF Script
<1>5. QED
    BY <1>3, <1>4

LEMMA ThenTyped ==
    ASSUME ctl \in Seq(Words), ctl # <<>>, NEW more \in Seq(Words), Then(more)
    PROVE  ctl' \in Seq(Words)
<1>1. Tail(ctl) \in Seq(Words)
    OBVIOUS
<1>2. QED
    BY <1>1 DEF Then

LEMMA CtlStep ==
    ASSUME TypeOK, Next
    PROVE  CtlOK'
<1>1. /\ audit \in Int /\ auditd \in {"absent", "stopped", "running"}
      /\ plugin \in BOOLEAN /\ wanted \in BOOLEAN /\ stopped \in BOOLEAN /\ ctl \in Seq(Words)
    BY DEF TypeOK, CtlOK
<1>2. ASSUME NEW pid \in Pids, Session(pid)
      PROVE  CtlOK'
    <2>1. CASE ExitProcess(pid)
        BY <1>1, <2>1 DEF ExitProcess, CtlOK, ghosts
    <2>2. CASE ~ExitProcess(pid)
        <3>1. UNCHANGED <<audit, auditd, plugin, wanted, ctl, stopped>>
            BY <1>2, <2>2 DEF Session, OpenLock, TakeLock, WritePid, ResetFiles, OpenQueue,
                              CloseQueue, Unlock, ghosts
        <3>2. QED
            BY <3>1, CtlSame DEF TypeOK
    <2>3. QED
        BY <2>1, <2>2
<1>3. ASSUME NEW pid \in Pids, Collector(pid)
      PROVE  CtlOK'
    <2>1. UNCHANGED <<auditd, plugin, wanted, ctl, stopped>> /\ audit' \in {audit, pid}
        BY <1>3 DEF Collector, CheckAuditPid, SetAuditPid, WatchAuditPid, LeaveCollection, ghosts
    <2>2. QED
        BY <1>1, <2>1, PidsAreNumbers DEF CtlOK
<1>4. ASSUME NEW pid \in Pids,
             Monitor(pid) \/ Crash(pid) \/ Terminated(pid) \/ MonitorFails(pid) \/ InputLoopFails(pid)
      PROVE  CtlOK'
    <2>1. UNCHANGED <<audit, auditd, plugin, wanted, ctl, stopped>>
        BY <1>4 DEF Monitor, MonitorGetsPid, MonitorChecks, BeginExit, StopChild, Exits, Crash,
                    Terminated, Dies, MonitorFails, InputLoopFails, ghosts
    <2>2. QED
        BY <2>1, CtlSame DEF TypeOK
<1>5. CASE External
    <2>1. UNCHANGED <<plugin, wanted, ctl, stopped>> /\ audit' \in {audit, 0} /\ auditd' \in {auditd, "stopped"}
        BY <1>5 DEF External, Restart, InstallAuditd, ForgetAuditPid, ghosts
    <2>2. QED
        BY <1>1, <2>1 DEF CtlOK
<1>6. CASE Step
    <2>1. /\ <<>> \in Seq(Words) /\ <<"wait auoms", "wait netlink">> \in Seq(Words)
          /\ <<"wait netlink">> \in Seq(Words) /\ <<"wait collect">> \in Seq(Words)
          /\ <<"wait collect", "auditd on">> \in Seq(Words) /\ <<"auditd cycle">> \in Seq(Words)
        <3>1. {"wait auoms", "wait netlink", "wait collect", "auditd on", "auditd cycle"} \subseteq Words
            BY DEF Words
        <3>2. QED
            BY <3>1, Tuples
    <2>2. ctl # <<>>
        BY <1>6 DEF Step, StartService, StopService, WaitForProc, StopAuditd, StartAuditd, SetPlugin,
                    FlagReset, Now
    <2>3. \E more \in Seq(Words) : Then(more)
        BY <1>6, <2>1 DEF Step, StartService, StopService, WaitForProc, StopAuditd, StartAuditd,
                          SetPlugin, FlagReset
    <2>4. ctl' \in Seq(Words)
        BY <1>1, <2>2, <2>3, ThenTyped
    <2>5. /\ audit' \in {audit, Auditd, 0} /\ auditd' \in {auditd, "running", "stopped"}
          /\ plugin' \in BOOLEAN /\ wanted' \in {wanted, TRUE, FALSE} /\ stopped' \in {stopped, TRUE, FALSE}
        BY <1>1, <1>6 DEF Step, StartService, StopService, WaitForProc, StopAuditd, StartAuditd,
                    SetPlugin, FlagReset, AuditdDown, AuditdUp, ghosts
    <2>6. Auditd \in Int
        BY DEF Auditd
    <2>7. audit' \in Int /\ auditd' \in {"absent", "stopped", "running"}
        BY <1>1, <2>5, <2>6
    <2>8. wanted' \in BOOLEAN /\ stopped' \in BOOLEAN /\ plugin' \in BOOLEAN
        BY <1>1, <2>5
    <2>9. QED
        BY <2>4, <2>7, <2>8 DEF CtlOK
<1>7. ASSUME NEW command \in Commands, Command(command)
      PROVE  CtlOK'
    <2>1. UNCHANGED <<audit, auditd, plugin, wanted, stopped>>
        BY <1>7 DEF Command, ghosts
    <2>2. ctl' \in Seq(Words)
        BY <1>7, Scripts DEF Command
    <2>3. QED
        BY <1>1, <2>1, <2>2 DEF CtlOK
<1>8. QED
    BY <1>2, <1>3, <1>4, <1>5, <1>6, <1>7 DEF Next

-----------------------------------------------------------------------------
(* LockInv is inductive *)

LEMMA TornTyped ==
    ASSUME NEW dying
    PROVE  Torn(dying) \in [Programs -> BOOLEAN]
BY DEF Torn

\* Everything but the sessions, flag_reset and the command.
Aside ==
    \/ \E pid \in Pids :
          \/ ExitProcess(pid) \/ Collector(pid) \/ Monitor(pid)
          \/ Crash(pid) \/ Terminated(pid) \/ MonitorFails(pid) \/ InputLoopFails(pid)
    \/ External \/ CtlMoves

LEMMA AsideEvolves ==
    ASSUME TypeOK, Aside
    PROVE  Evolve /\ MarksKept /\ UNCHANGED <<files, unlinked>> /\ FilesOK'
<1>1. Table(procs) /\ FilesOK
    BY DEF TypeOK
<1>2. Evolve /\ MarksKept
    BY <1>1, EndsEvolve, CollectorEvolve, MonitorEvolve, ChecksEvolve, StopChildEvolve,
       ExternalEvolve, CtlEvolve DEF Aside, Monitor
<1>3. /\ UNCHANGED <<files, unlinked>>
      /\ UNCHANGED torn \/ \E dying : torn' = Torn(dying)
    <2>1. ASSUME NEW pid \in Pids,
                 \/ ExitProcess(pid) \/ Collector(pid) \/ Monitor(pid)
                 \/ Crash(pid) \/ Terminated(pid) \/ MonitorFails(pid) \/ InputLoopFails(pid)
          PROVE  /\ UNCHANGED <<files, unlinked>>
                 /\ UNCHANGED torn \/ \E dying : torn' = Torn(dying)
        <3>1. CASE ExitProcess(pid) \/ Collector(pid)
            BY <3>1 DEF ExitProcess, Collector, CheckAuditPid, SetAuditPid, WatchAuditPid,
                        LeaveCollection, ghosts
        <3>2. CASE Monitor(pid)
            BY <3>2 DEF Monitor, MonitorGetsPid, MonitorChecks, BeginExit, StopChild, Exits, ghosts
        <3>3. CASE Crash(pid) \/ Terminated(pid) \/ MonitorFails(pid) \/ InputLoopFails(pid)
            BY <3>3 DEF Crash, Terminated, Dies, MonitorFails, InputLoopFails, Exits, ghosts
        <3>4. QED
            BY <2>1, <3>1, <3>2, <3>3
    <2>2. CASE External
        BY <2>2 DEF External, Restart, InstallAuditd, ForgetAuditPid, ghosts
    <2>3. CASE CtlMoves
        BY <2>3 DEF CtlMoves, StartService, StopService, WaitForProc, StopAuditd, StartAuditd,
                    SetPlugin, ghosts
    <2>4. QED
        BY <2>1, <2>2, <2>3 DEF Aside
<1>4. FilesOK'
    BY <1>1, <1>3, TornTyped DEF FilesOK, files
<1>5. QED
    BY <1>2, <1>3, <1>4

LEMMA SameKeeps ==
    ASSUME LockInv, CtlOK', UNCHANGED <<procs, files, unlinked, torn>>
    PROVE  LockInv'
<1>1. Evolve /\ MarksKept
    BY SameEvolve DEF LockInv, TypeOK
<1>2. TypeOK'
    BY DEF LockInv, TypeOK, Table, FilesOK, files
<1>3. QED
    BY <1>1, <1>2, EvolveLock

LEMMA FlagResetKeeps ==
    ASSUME LockInv, FlagReset, CtlOK'
    PROVE  LockInv'
<1>1. UNCHANGED <<procs, data, torn>>
    BY DEF FlagReset
<1>2. PICK prog \in Programs :
        Unlink(prog) \/ WriteFlag(prog) \/ UNCHANGED <<lock, text, unlinked>>
    BY DEF FlagReset
<1>3. CASE UNCHANGED <<lock, text, unlinked>>
    BY <1>1, <1>3, SameKeeps DEF files
<1>4. QED
    BY <1>1, <1>2, <1>3, UnlinkKeeps, WriteFlagKeeps

LEMMA LockStart == Init => LockInv
<1> SUFFICES ASSUME Init PROVE LockInv
    OBVIOUS
<1>1. /\ procs = [p \in {} |-> Process("auoms", 0)]
      /\ lock = [prog \in Programs |-> 0] /\ text = <<>>
      /\ data = [prog \in Programs |-> "none"]
      /\ unlinked = [prog \in Programs |-> FALSE] /\ torn = [prog \in Programs |-> FALSE]
    BY DEF Init
<1>2. DOMAIN procs = {} /\ Table(procs)
    BY <1>1 DEF Table
<1>3. FilesOK
    BY <1>1 DEF FilesOK, States
<1>4. CtlOK
    <2>1. <<>> \in Seq(Words)
        OBVIOUS
    <2>2. /\ audit = 0 /\ auditd \in {"absent", "stopped"} /\ plugin = FALSE
          /\ wanted = FALSE /\ ctl = <<>> /\ stopped = FALSE
        BY DEF Init
    <2>3. audit \in Int /\ auditd \in {"absent", "stopped", "running"} /\ ctl \in Seq(Words)
        BY <2>1, <2>2
    <2>4. plugin \in BOOLEAN /\ wanted \in BOOLEAN /\ stopped \in BOOLEAN
        BY <2>2
    <2>5. QED
        BY <2>3, <2>4 DEF CtlOK
<1>5. OpensOwn /\ OneHolder /\ Marked /\ UsesPresent
    BY <1>1, <1>2 DEF OpensOwn, OneHolder, Marked, UsesPresent, Users, Of
<1>6. FilesKnown
    BY <1>1, <1>2 DEF FilesKnown, MarkedInUse, CleanBy, Clean, Of
<1>7. QED
    BY <1>2, <1>3, <1>4, <1>5, <1>6 DEF LockInv, TypeOK

LEMMA NextSplits ==
    ASSUME Next
    PROVE  \/ Aside \/ FlagReset
           \/ \E pid \in Pids :
                \/ OpenLock(pid) \/ TakeLock(pid) \/ WritePid(pid) \/ ResetFiles(pid)
                \/ OpenQueue(pid) \/ CloseQueue(pid) \/ Unlock(pid)
           \/ \E command \in Commands : Command(command)
BY DEF Next, Aside, Session, Step, CtlMoves

LEMMA LockStep ==
    ASSUME LockInv, [Next]_vars
    PROVE  LockInv'
<1>1. CASE UNCHANGED vars
    <2>1. UNCHANGED <<procs, files, unlinked, torn, audit, auditd, plugin, wanted, ctl, stopped>>
        BY <1>1 DEF vars, ghosts
    <2>2. QED
        BY <2>1, CtlSame, SameKeeps DEF LockInv, TypeOK
<1>2. CASE Next
    <2>1. CtlOK'
        BY <1>2, CtlStep DEF LockInv
    <2>2. CASE Aside
        <3>1. Evolve /\ MarksKept /\ UNCHANGED <<files, unlinked>> /\ FilesOK'
            BY <2>2, AsideEvolves DEF LockInv
        <3>2. TypeOK'
            BY <2>1, <3>1 DEF TypeOK, Evolve
        <3>3. QED
            BY <3>1, <3>2, EvolveLock
    <2>3. CASE FlagReset
        BY <2>1, <2>3, FlagResetKeeps
    <2>4. ASSUME NEW pid \in Pids,
                 \/ OpenLock(pid) \/ TakeLock(pid) \/ WritePid(pid) \/ ResetFiles(pid)
                 \/ OpenQueue(pid) \/ CloseQueue(pid) \/ Unlock(pid)
          PROVE  LockInv'
        BY <2>4, OpenLockKeeps, TakeLockKeeps, WritePidKeeps, ResetFilesKeeps, OpenQueueKeeps,
           CloseQueueKeeps, UnlockKeeps
    <2>5. ASSUME NEW command \in Commands, Command(command)
          PROVE  LockInv'
        BY <2>1, <2>5, SameKeeps DEF Command, ghosts
    <2>6. QED
        BY <1>2, <2>2, <2>3, <2>4, <2>5, NextSplits
<1>3. QED
    BY <1>1, <1>2

\* A session that opens the queue and cursor files finds them as an orderly
\* session left them, or has removed them, for any number of processes and in
\* whatever order they die, wait for the lock and are killed, except after a
\* death within LockFile::Lock and a flag_reset that met a process.
THEOREM FilesTrusted == Spec => QueueTrusted
<1>1. Init => LockInv
    BY LockStart
<1>2. LockInv /\ [Next]_vars => LockInv'
    BY LockStep
<1>3. ASSUME LockInv, NEW pid \in Pids, OpenQueue(pid),
             ~torn[procs[pid].prog], ~unlinked[procs[pid].prog]
      PROVE  data[procs[pid].prog] \in {"none", "closed"}
    <2>1. pid \in DOMAIN procs /\ procs[pid].pc = "ready"
        BY <1>3 DEF OpenQueue, At
    <2>2. procs[pid].prog \in Programs
        BY <1>3, <2>1 DEF LockInv, TypeOK, Table, ProcessType
    <2>3. pid \in Of(procs[pid].prog) /\ CleanBy(procs[pid].prog)
        BY <1>3, <2>1, <2>2 DEF LockInv, FilesKnown, Of
    <2>4. QED
        BY <2>1, <2>3 DEF CleanBy, Clean
<1> DEFINE Trusted ==
        \A pid \in Pids :
            LET prog == procs[pid].prog
            IN  OpenQueue(pid) /\ ~torn[prog] /\ ~unlinked[prog] => data[prog] \in {"none", "closed"}
<1>4. LockInv => Trusted
    BY <1>3
<1>5. Spec => [][Trusted]_vars
    <2> HIDE DEF Trusted
    <2>1. QED
        BY <1>1, <1>2, <1>4, PTL DEF Spec
<1>6. QED
    BY <1>5 DEF QueueTrusted

-----------------------------------------------------------------------------
(* auomsctl stop *)

\* No step but the two that start auoms adds a process of it, and where nothing
\* runs and auditd is not installed none of the others adds a process at all.
Adds ==
    /\ \A p \in DOMAIN procs' : procs'[p].prog = "auoms" => p \in Of("auoms")
    /\ DOMAIN procs = {} /\ auditd' = "absent" => DOMAIN procs' = {}

\* A process keeps its parent or loses it.
Keeps ==
    \A p \in DOMAIN procs' \cap DOMAIN procs :
        procs'[p].prog = procs[p].prog /\ (procs'[p].prog = "auoms" => procs'[p].by \in {procs[p].by, 0})

LEMMA EvolveKeeps ==
    ASSUME Evolve
    PROVE  Keeps
BY DEF Evolve, Keeps, Aged

LEMMA FewerAdd ==
    ASSUME Keeps, DOMAIN procs' \subseteq DOMAIN procs
    PROVE  Adds
BY DEF Keeps, Adds, Of

LEMMA SessionKeeps ==
    ASSUME Table(procs), NEW pid \in Pids,
           \/ OpenLock(pid) \/ TakeLock(pid) \/ WritePid(pid) \/ ResetFiles(pid)
           \/ OpenQueue(pid) \/ CloseQueue(pid) \/ Unlock(pid)
    PROVE  Keeps /\ DOMAIN procs' = DOMAIN procs
<1>1. pid \in DOMAIN procs /\ procs[pid] \in ProcessType
    BY DEF OpenLock, TakeLock, WritePid, ResetFiles, OpenQueue, CloseQueue, Unlock, At, Table
<1> PICK r \in ProcessType : r = procs[pid]
    BY <1>1
<1>2. ASSUME NEW q, q.prog = r.prog, q.by = r.by, procs' = [procs EXCEPT ![pid] = q]
      PROVE  Keeps /\ DOMAIN procs' = DOMAIN procs
    BY <1>1, <1>2 DEF Keeps, Table
<1>3. ASSUME NEW pc, Goes(pid, pc)
      PROVE  Keeps /\ DOMAIN procs' = DOMAIN procs
    <2>1. procs' = [procs EXCEPT ![pid] = [r EXCEPT !.pc = pc]]
        BY <1>3 DEF Goes
    <2>2. [r EXCEPT !.pc = pc].prog = r.prog /\ [r EXCEPT !.pc = pc].by = r.by
        BY DEF ProcessType
    <2>3. QED
        BY <1>2, <2>1, <2>2
<1>4. CASE WritePid(pid) \/ OpenQueue(pid) \/ CloseQueue(pid) \/ Unlock(pid)
    BY <1>3, <1>4 DEF WritePid, OpenQueue, CloseQueue, Unlock
<1>5. CASE TakeLock(pid) \/ ResetFiles(pid)
    <2>1. PICK pc, b : procs' = [procs EXCEPT ![pid] = [r EXCEPT !.pc = pc, !.reset = b]]
        BY <1>5 DEF TakeLock, ResetFiles
    <2> PICK q : q = [r EXCEPT !.pc = pc, !.reset = b]
        OBVIOUS
    <2>2. q.prog = r.prog /\ q.by = r.by
        BY DEF ProcessType
    <2>3. QED
        BY <1>2, <2>1, <2>2
<1>6. CASE OpenLock(pid)
    <2>1. PICK n : procs' = [procs EXCEPT ![pid] = [r EXCEPT !.pc = "wait", !.inode = n]]
        BY <1>6 DEF OpenLock
    <2> PICK q : q = [r EXCEPT !.pc = "wait", !.inode = n]
        OBVIOUS
    <2>2. q.prog = r.prog /\ q.by = r.by
        BY DEF ProcessType
    <2>3. QED
        BY <1>2, <2>1, <2>2
<1>7. QED
    BY <1>4, <1>5, <1>6

\* The monitor starts a collector, and there is the auoms it belongs to.
LEMMA ChecksAdds ==
    ASSUME TypeOK, NEW pid \in Pids, MonitorChecks(pid)
    PROVE  Adds
<1> DEFINE f2 == [Reaped(pid) EXCEPT ![pid] = [@ EXCEPT !.mon = "get", !.seen = 0]]
           f3 == [f2 EXCEPT ![pid].child = NewPid]
<1>1. Keeps
    BY ChecksEvolve, EvolveKeeps
<1>2. DOMAIN Reaped(pid) \subseteq DOMAIN procs
    BY DEF Reaped
<1>3. CASE procs' = f2
    BY <1>1, <1>2, <1>3, FewerAdd
<1>4. CASE StartCollector(pid, f2)
    <2>1. procs' = With(f3, Process("collect", pid))
        BY <1>4 DEF StartCollector
    <2>2. DOMAIN f3 \subseteq DOMAIN procs
        BY <1>2
    <2> HIDE DEF f3
    <2>3. DOMAIN procs' \subseteq DOMAIN procs \cup {NewPid} /\ procs'[NewPid] = Process("collect", pid)
        BY <2>1, <2>2 DEF With
    <2>4. procs'[NewPid].prog # "auoms"
        BY <2>3 DEF Process
    <2>5. DOMAIN procs # {}
        BY DEF MonitorChecks, At
    <2>6. QED
        BY <1>1, <2>3, <2>4, <2>5 DEF Adds, Keeps, Of
<1>5. QED
    BY <1>3, <1>4 DEF MonitorChecks

LEMMA AsideAdds ==
    ASSUME TypeOK, Aside, ~Restart, ~StartService
    PROVE  Adds
<1>1. Keeps /\ Table(procs)
    BY AsideEvolves, EvolveKeeps DEF TypeOK
<1>2. ASSUME NEW pid \in Pids, ExitProcess(pid) \/ Crash(pid) \/ Terminated(pid)
      PROVE  DOMAIN procs' \subseteq DOMAIN procs
    BY <1>1, <1>2, Left DEF ExitProcess, Crash, Terminated, Dies
<1>3. ASSUME NEW pid \in Pids, Collector(pid)
      PROVE  DOMAIN procs' \subseteq DOMAIN procs
    BY <1>3 DEF Collector, CheckAuditPid, SetAuditPid, WatchAuditPid, LeaveCollection, Goes
<1>4. ASSUME NEW pid \in Pids,
             \/ MonitorGetsPid(pid) \/ BeginExit(pid) \/ StopChild(pid)
             \/ MonitorFails(pid) \/ InputLoopFails(pid)
      PROVE  DOMAIN procs' \subseteq DOMAIN procs
    BY <1>4 DEF MonitorGetsPid, BeginExit, StopChild, MonitorFails, InputLoopFails, Exits
<1>5. CASE External
    <2>1. DOMAIN procs' \subseteq DOMAIN procs
        BY <1>5 DEF External, InstallAuditd, ForgetAuditPid
    <2>2. QED
        BY <1>1, <2>1, FewerAdd
<1>6. CASE StopService \/ SetPlugin \/ StopAuditd
    <2>1. DOMAIN procs' \subseteq DOMAIN procs
        BY <1>6 DEF StopService, SetPlugin, StopAuditd, AuditdDown
    <2>2. QED
        BY <1>1, <2>1, FewerAdd
<1>7. CASE WaitForProc
    <2>1. DOMAIN procs' \subseteq DOMAIN procs
        BY <1>1, <1>7, Left DEF WaitForProc
    <2>2. QED
        BY <1>1, <2>1, FewerAdd
<1>8. CASE StartAuditd
    <2>1. CASE UNCHANGED procs
        BY <1>1, <2>1, FewerAdd
    <2>2. CASE Spawn("collect", Auditd) /\ auditd' = "running"
        <3>1. DOMAIN procs' = DOMAIN procs \cup {NewPid} /\ procs'[NewPid].prog = "collect"
            BY <2>2 DEF Spawn, With, Process
        <3>2. QED
            BY <1>1, <2>2, <3>1 DEF Adds, Keeps, Of
    <2>3. QED
        BY <1>8, <2>1, <2>2 DEF StartAuditd, AuditdUp
<1>9. QED
    BY <1>1, <1>2, <1>3, <1>4, <1>5, <1>6, <1>7, <1>8, FewerAdd, ChecksAdds
       DEF Aside, Monitor, CtlMoves

\* Spawn adds one process, at a pid that is free.
LEMMA ParentsStep ==
    ASSUME LockInv, Parents, [Next]_vars
    PROVE  Parents'
<1>1. TypeOK /\ Table(procs)
    BY DEF LockInv, TypeOK
<1>2. CASE Aside
    <2>1. Evolve
        BY <1>1, <1>2, AsideEvolves
    <2>2. ASSUME NEW p \in DOMAIN procs', procs'[p].prog = "auoms"
          PROVE  procs'[p].by = 0
        BY <2>1, <2>2 DEF Evolve, Aged, Fresh, Parents
    <2>3. QED
        BY <2>2 DEF Parents
<1>3. ASSUME NEW pid \in Pids,
             \/ OpenLock(pid) \/ TakeLock(pid) \/ WritePid(pid) \/ ResetFiles(pid)
             \/ OpenQueue(pid) \/ CloseQueue(pid) \/ Unlock(pid)
      PROVE  Parents'
    BY <1>1, <1>3, SessionKeeps DEF Keeps, Parents
<1>4. ASSUME FlagReset \/ UNCHANGED vars \/ \E command \in Commands : Command(command)
      PROVE  Parents'
    BY <1>4 DEF FlagReset, vars, Command, Parents
<1>5. QED
    BY <1>2, <1>3, <1>4, NextSplits

\* Where auoms and, without auditd, everything is waited for or killed.
LEMMA AuomsGone ==
    ASSUME LockInv, Parents, procs' = Without(Of("auoms"))
    PROVE  Of("auoms")' = {}
<1>1. Table(procs)
    BY DEF LockInv, TypeOK
<1>2. 0 \notin DOMAIN procs
    BY <1>1, PidsAreNumbers DEF Table
<1>3. ASSUME NEW p \in DOMAIN procs', procs'[p].prog = "auoms" PROVE FALSE
    <2>1. /\ p \in DOMAIN procs /\ procs[p].prog = "auoms"
          /\ p \in Of("auoms") => procs[p].by \in DOMAIN procs \ Of("auoms")
        BY <1>1, <1>3, Left
    <2>2. procs[p].by = 0 /\ p \in Of("auoms")
        BY <2>1 DEF Parents, Of
    <2>3. QED
        BY <1>2, <2>1, <2>2
<1>4. QED
    BY <1>3 DEF Of

LEMMA AllGone ==
    ASSUME LockInv, Of("auoms") = {}, procs' = Without(Of("collect"))
    PROVE  DOMAIN procs' = {}
<1>1. Table(procs) /\ DOMAIN procs \subseteq Of("collect")
    BY DEF LockInv, TypeOK, Table, ProcessType, Programs, Of
<1>2. \A p \in DOMAIN procs' : p \in DOMAIN procs /\ procs[p].by \in DOMAIN procs \ Of("collect")
    BY <1>1, Left
<1>3. QED
    BY <1>1, <1>2

LEMMA FirstWord ==
    ASSUME ctl \in Seq(Words)
    PROVE  /\ Len(ctl) \in Nat /\ (ctl # <<>> <=> Len(ctl) >= 1)
           /\ ctl # <<>> => Head(ctl) = ctl[1] /\ Tail(ctl) \in Seq(Words)
OBVIOUS

\* The steps of auomsctl are done in their order.
LEMMA NextWord ==
    ASSUME ctl \in Seq(Words), NEW more \in Seq(Words), Then(more), ctl # <<>>
    PROVE  /\ Head(ctl) = ctl[1] /\ Len(ctl) \in Nat /\ Len(ctl) >= 1
           /\ more = <<>> /\ Len(ctl) >= 2 => Len(ctl') >= 1 /\ ctl'[1] = ctl[2]
<1>1. Head(ctl) = ctl[1] /\ Len(ctl) \in Nat /\ Len(ctl) >= 1
    OBVIOUS
<1>2. ASSUME more = <<>>, Len(ctl) >= 2
      PROVE  Len(ctl') >= 1 /\ ctl'[1] = ctl[2]
    <2>0. Tail(ctl) \in Seq(Words)
        OBVIOUS
    <2> PICK t \in Seq(Words) : t = Tail(ctl)
        BY <2>0
    <2>1. Len(t) = Len(ctl) - 1 /\ t[1] = ctl[2]
        BY <1>2
    <2>2. ctl' = t
        BY <1>2 DEF Then
    <2>3. QED
        BY <1>1, <1>2, <2>1, <2>2
<1>3. QED
    BY <1>1, <1>2

\* Only a start ends the time after a stop, and begins another auoms.
LEMMA StillStopped ==
    ASSUME Next, stopped' = TRUE
    PROVE  /\ ~StartService
           /\ stopped = TRUE \/ (StopService /\ Of("auoms") # {})
           /\ wanted' = TRUE => wanted = TRUE
BY DEF Next, Session, OpenLock, TakeLock, WritePid, ResetFiles, OpenQueue, CloseQueue, Unlock,
       ExitProcess, Collector, CheckAuditPid, SetAuditPid, WatchAuditPid, LeaveCollection,
       Monitor, MonitorGetsPid, MonitorChecks, BeginExit, StopChild, Exits, Crash, Terminated,
       Dies, MonitorFails, InputLoopFails, External, Restart, InstallAuditd, ForgetAuditPid,
       Step, StartService, StopService, WaitForProc, StopAuditd, StartAuditd, SetPlugin,
       FlagReset, Command, ghosts

LEMMA StopStep ==
    ASSUME LockInv, Parents, StopUnderWay, [Next]_vars, LockInv'
    PROVE  StopUnderWay'
<1>1. /\ TypeOK /\ ctl \in Seq(Words) /\ stopped \in BOOLEAN /\ wanted \in BOOLEAN
      /\ auditd \in {"absent", "stopped", "running"}
      /\ stopped' \in BOOLEAN /\ wanted' \in BOOLEAN
    BY DEF LockInv, TypeOK, CtlOK
<1>0. /\ Len(ctl) \in Nat /\ (ctl # <<>> <=> Len(ctl) >= 1)
      /\ ctl # <<>> => Head(ctl) = ctl[1] /\ Tail(ctl) \in Seq(Words)
    BY <1>1, FirstWord
<1>2. CASE UNCHANGED vars
    BY <1>2 DEF vars, ghosts, StopUnderWay, Of
<1> SUFFICES ASSUME Next, stopped' PROVE StopUnderWay'
    BY <1>1, <1>2 DEF StopUnderWay
<1>3. ~StartService /\ (stopped \/ (StopService /\ Of("auoms") # {})) /\ (wanted' => wanted)
    BY <1>1, StillStopped
<1>4. CASE StopService /\ Of("auoms") # {}
    <2>1. /\ ctl' = <<"wait auoms", "wait netlink">> \o Tail(ctl) /\ wanted' = FALSE /\ ctl # <<>>
        BY <1>4 DEF StopService, Then, Now
    <2>2. Tail(ctl) \in Seq(Words)
        BY <1>0, <2>1
    <2>3. Len(ctl') >= 2 /\ ctl'[1] = "wait auoms" /\ ctl'[2] = "wait netlink"
        <3>1. \A s \in Seq(Words) :
                LET f == <<"wait auoms", "wait netlink">> \o s
                IN  Len(f) >= 2 /\ f[1] = "wait auoms" /\ f[2] = "wait netlink"
            OBVIOUS
        <3>2. QED
            BY <2>1, <2>2, <3>1
    <2>4. QED
        BY <2>1, <2>3 DEF StopUnderWay
<1>5. CASE ~(StopService /\ Of("auoms") # {})
    <2>1. stopped /\ ~wanted /\ ~wanted' /\ ~Restart
        BY <1>3, <1>5 DEF StopUnderWay, Restart
    <2>2. Adds
        <3>1. CASE Aside
            BY <1>1, <1>3, <2>1, <3>1, AsideAdds
        <3>2. ASSUME NEW pid \in Pids,
                     \/ OpenLock(pid) \/ TakeLock(pid) \/ WritePid(pid) \/ ResetFiles(pid)
                     \/ OpenQueue(pid) \/ CloseQueue(pid) \/ Unlock(pid)
              PROVE  Adds
            BY <1>1, <3>2, SessionKeeps, FewerAdd DEF TypeOK
        <3>3. ASSUME FlagReset \/ \E command \in Commands : Command(command)
              PROVE  Adds
            BY <3>3 DEF FlagReset, Command, Adds, Of
        <3>4. QED
            BY <3>1, <3>2, <3>3, NextSplits
    <2>3. Of("auoms") = {} => Of("auoms")' = {}
        BY <2>2 DEF Adds, Of
    <2>4. auditd' = "absent" => auditd = "absent"
        BY DEF Next, Session, OpenLock, TakeLock, WritePid, ResetFiles, OpenQueue, CloseQueue, Unlock,
               ExitProcess, Collector, CheckAuditPid, SetAuditPid, WatchAuditPid, LeaveCollection,
               Monitor, MonitorGetsPid, MonitorChecks, BeginExit, StopChild, Exits, Crash, Terminated,
               Dies, MonitorFails, InputLoopFails, External, Restart, InstallAuditd, ForgetAuditPid,
               Step, StartService, StopService, WaitForProc, StopAuditd, StartAuditd, SetPlugin,
               AuditdUp, AuditdDown, FlagReset, Command
    <2>5. UNCHANGED ctl \/ Step \/ ctl = <<>>
        BY DEF Next, Session, OpenLock, TakeLock, WritePid, ResetFiles, OpenQueue, CloseQueue, Unlock,
               ExitProcess, Collector, CheckAuditPid, SetAuditPid, WatchAuditPid, LeaveCollection,
               Monitor, MonitorGetsPid, MonitorChecks, BeginExit, StopChild, Exits, Crash, Terminated,
               Dies, MonitorFails, InputLoopFails, External, Restart, InstallAuditd, ForgetAuditPid,
               Command
    <2>6. ASSUME NEW word \in {"wait auoms", "wait netlink"}, Len(ctl) >= 1, ctl[1] = word
          PROVE  UNCHANGED ctl \/ (WaitForProc /\ Head(ctl) = word /\ Then(<<>>))
        <3>1. ctl # <<>> /\ Head(ctl) = word
            BY <1>0, <2>6
        <3>2. Step => WaitForProc /\ Then(<<>>)
            <4>1. ~FlagReset
                BY <2>6, <3>1 DEF FlagReset, Now, UnlinkOf, FlagOf, Programs
            <4>2. QED
                BY <2>6, <3>1, <4>1 DEF Step, StartService, StopService, WaitForProc, StopAuditd,
                                        StartAuditd, SetPlugin, Now
        <3>3. QED
            BY <2>5, <3>1, <3>2
    <2>7. CASE Len(ctl) >= 2 /\ ctl[1] = "wait auoms" /\ ctl[2] = "wait netlink"
        <3>1. CASE UNCHANGED ctl
            BY <2>1, <2>7, <3>1 DEF StopUnderWay
        <3>2. CASE WaitForProc /\ Head(ctl) = "wait auoms" /\ Then(<<>>)
            <4>1. Of("auoms")' = {}
                BY <3>2, AuomsGone DEF WaitForProc
            <4>2. Len(ctl') >= 1 /\ ctl'[1] = "wait netlink"
                <5>1. ctl # <<>>
                    BY <3>2 DEF WaitForProc, Now
                <5>2. <<>> \in Seq(Words)
                    OBVIOUS
                <5>3. QED
                    BY <1>1, <2>7, <3>2, <5>1, <5>2, NextWord
            <4>3. QED
                BY <2>1, <4>1, <4>2 DEF StopUnderWay
        <3>3. Len(ctl) >= 1
            <4>1. Len(ctl) \in Nat /\ Len(ctl) >= 2
                BY <1>0, <2>7
            <4>2. QED
                BY <4>1
        <3>4. QED
            BY <2>6, <2>7, <3>1, <3>2, <3>3
    <2>8. CASE Of("auoms") = {} /\ Len(ctl) >= 1 /\ ctl[1] = "wait netlink"
        <3>1. CASE UNCHANGED ctl
            BY <2>1, <2>3, <2>8, <3>1 DEF StopUnderWay
        <3>2. CASE WaitForProc /\ Head(ctl) = "wait netlink" /\ Then(<<>>)
            <4>1. auditd' = "absent" => DOMAIN procs' = {}
                BY <2>4, <2>8, <3>2, AllGone DEF WaitForProc
            <4>2. QED
                BY <2>1, <2>3, <2>8, <4>1 DEF StopUnderWay
        <3>3. QED
            BY <2>6, <2>8, <3>1, <3>2
    <2>9. CASE Of("auoms") = {} /\ (auditd = "absent" => DOMAIN procs = {})
        <3>1. auditd' = "absent" => DOMAIN procs' = {}
            BY <2>2, <2>4, <2>9 DEF Adds
        <3>2. QED
            BY <2>1, <2>3, <2>9, <3>1 DEF StopUnderWay
    <2>10. QED
        BY <2>1, <2>7, <2>8, <2>9 DEF StopUnderWay
<1>6. QED
    BY <1>4, <1>5

\* Without auditd, a command that stopped auoms leaves no process of either program
\* behind, in whatever state the collectors were and whatever died meanwhile.
THEOREM StopComplete == Spec => []StopLeavesNone
<1> DEFINE Inv == LockInv /\ Parents /\ StopUnderWay
<1>1. Init => Inv
    <2> SUFFICES ASSUME Init PROVE Inv
        OBVIOUS
    <2>1. procs = [p \in {} |-> Process("auoms", 0)] /\ stopped = FALSE
        BY DEF Init
    <2>2. QED
        BY <2>1, LockStart DEF Parents, StopUnderWay
<1>2. Inv /\ [Next]_vars => Inv'
    BY LockStep, ParentsStep, StopStep
<1>3. Inv => StopLeavesNone
    <2> SUFFICES ASSUME Inv, ctl = <<>>, stopped, auditd = "absent" PROVE procs = <<>>
        BY DEF StopLeavesNone
    <2>1. Len(ctl) = 0
        OBVIOUS
    <2>2. DOMAIN procs = {}
        BY <2>1 DEF StopUnderWay
    <2>3. procs \in [{} -> ProcessType]
        BY <2>2 DEF LockInv, TypeOK, Table
    <2>4. QED
        BY <2>3
<1> HIDE DEF Inv
<1>4. QED
    BY <1>1, <1>2, <1>3, PTL DEF Spec
=============================================================================
