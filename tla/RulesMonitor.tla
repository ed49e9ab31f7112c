----------------------------- MODULE RulesMonitor -----------------------------
(***************************************************************************)
(* AuditRulesMonitor: the thread that keeps the rules of auoms in the kernel *)
(* and in auditd's rules files, next to an administrator who changes both    *)
(* and may run auomsctl.  A check of the kernel's rules is a sequence of      *)
(* netlink requests; the check of the files reads them twice, writes and may  *)
(* run augenrules.  A request may fail MaxFaults times, done or not.          *)
(***************************************************************************)
EXTENDS AuditRule

CONSTANTS
    Confs,       \* the contents that auoms's rules directory may have
    AdminRules,  \* rules an administrator may add to the kernel
    AdminLines,  \* lines an administrator may add to the rules files
    MaxAdmin,    \* bound: what the administrator does
    MaxFaults    \* bound: requests and commands that fail

ASSUME Bounds == MaxAdmin \in Nat /\ MaxFaults \in Nat

VARIABLES
    conf,      \* the lines of the files in _audit_rules_dir
    kernel,    \* the kernel's exit rules
    locked,    \* the kernel's enabled is 2
    main,      \* lines of audit.rules
    dir,       \* lines of the administrator's files in rules.d
    own,       \* lines of auoms's file in rules.d, empty when there is none
    desired,   \* _desired_rules
    errs,      \* error conditions set in the operational status
    immutable, \* _rules_immutable
    pc,        \* what the monitor's thread does next
    rules,     \* the rules that were listed
    todo,      \* rules still to be deleted or added
    failed,    \* failed_old and failed_new
    admin,     \* what the administrator has done
    faults,
    calm,      \* ghost: the check that runs or ended last met no change and no fault
    before,    \* ghost: what the administrator's rules selected when it began
    stuck      \* ghost: rules.d changed and augenrules has not run since

files == <<main, dir, own>>
outside == <<conf, admin>>
local == <<rules, todo, failed>>
vars == <<conf, kernel, locked, main, dir, own, desired, errs, immutable, pc,
          rules, todo, failed, admin, faults, calm, before, stuck>>

Marker(name) == <<Option(name, Bad)>>

Markers == {Marker(name) : name \in {"augenrules", "start", "end"}}

ASSUME WellFormed ==
    /\ Confs \subseteq Seq(Lines)
    /\ AdminRules \subseteq Rules
    /\ AdminLines \subseteq Lines

\* The administrator writes no line that is auoms's: none of the comments that
\* mark its section or the file of augenrules, no rule with its key.
ASSUME OthersLines ==
    \A line \in AdminLines :
        line \notin Markers /\ AuomsKey \notin GetKeys(Parse(line).rule)
-----------------------------------------------------------------------------
(* The rules files *)

\* audit.rules begins with the header of augenrules: it is taken to be in use.
Generated == main # <<>> /\ main[1] = Marker("augenrules")

IndexOf(lines, line) == SelectInSeq(lines, LAMBDA x : x = line)

HasSection(lines) == IndexOf(lines, Marker("start")) # 0

\* Mutant: the end marker's successor is erased too.
RemoveSection_OneMore(lines) ==
    IF HasSection(lines)
    THEN SubSeq(lines, 1, IndexOf(lines, Marker("start")) - 1)
            \o SubSeq(lines, IndexOf(lines, Marker("end")) + 2, Len(lines))
    ELSE lines

\* Mutant: only the markers are removed.
RemoveSection_Markers(lines) ==
    Keep(lines, LAMBDA x : x \notin {Marker("start"), Marker("end")})

RemoveSection(lines) ==
    IF HasSection(lines)
    THEN SubSeq(lines, 1, IndexOf(lines, Marker("start")) - 1)
            \o SubSeq(lines, IndexOf(lines, Marker("end")) + 1, Len(lines))
    ELSE lines

ReplaceSection(lines, texts) ==
    LET at == IF HasSection(lines) THEN IndexOf(lines, Marker("start")) - 1 ELSE Len(lines)
        rest == RemoveSection(lines)
    IN  IF texts = <<>> THEN rest
        ELSE SubSeq(rest, 1, at) \o <<Marker("start")>> \o texts \o <<Marker("end")>>
                \o SubSeq(rest, at + 1, Len(rest))

IsAuoms(rule) == AuomsKey \in GetKeys(rule)

NotAuoms(seq) == Keep(seq, LAMBDA r : ~IsAuoms(r))

\* ReadAuditdRulesDir when the file is generated, else the file itself
ActualLines(excludeAuoms) ==
    IF Generated THEN dir \o own
    ELSE IF excludeAuoms THEN RemoveSection(main) ELSE main

ReadActualAuditdRules(excludeAuoms) ==
    LET found == ParseRules(ActualLines(excludeAuoms))
    IN  MergeRules(IF excludeAuoms THEN NotAuoms(found) ELSE found)

Texts(list) == Each(list, CanonicalText)

\* The file of auoms in rules.d is written in any case; it is removed when
\* there are no rules.
WriteAuditdRules(list) ==
    \E texts \in {Texts(list)} :
        /\ own' = texts
        /\ main' = IF Generated THEN main ELSE ReplaceSection(main, texts)
        /\ dir' = dir

\* augenrules writes one file from all those of the directory.
Augenrules == main' = <<Marker("augenrules")>> \o dir \o own /\ UNCHANGED <<dir, own>>

SetErr(name, on) == errs' = IF on THEN errs \cup {name} ELSE errs \ {name}
-----------------------------------------------------------------------------
(* A rule whose merge key and text say all of it but keys, system calls and      *)
(* permissions of a watch.  The others are the ones that README.md names: a      *)
(* deletion, -A, a file type, an unknown architecture, permissions outside a      *)
(* watch, a watch that says never, that is not of the exit filter or that names  *)
(* a directory as a file.                                                        *)
Sound(rule) ==
    /\ ~rule.del /\ ~rule.prepend
    /\ ~HasField(rule, "filetype")
    /\ \A x \in ToSet(rule.fields) : x.f = "arch" => x.v # {Bad}
    /\ HasField(rule, "perm") =>
          /\ IsWatch(rule) /\ rule.action = "always" /\ rule.filter = "exit"
          /\ \A x \in ToSet(rule.fields) :
                x.f \in {"path", "dir"} => x.f = WatchField(x.v) /\ x.op = "="

AllSound(list) == \A rule \in ToSet(list) : Sound(rule)

(* The kernel *)

\* -A puts the rule first and is not kept; a deletion flag is never sent.
Stored(rule) == [rule EXCEPT !.prepend = FALSE, !.del = FALSE]

AddTo(list, rule) ==
    IF Stored(rule) \in ToSet(list) THEN list
    ELSE IF rule.prepend THEN <<Stored(rule)>> \o list ELSE Append(list, Stored(rule))

Without(list, rule) == Keep(list, LAMBDA r : r # rule)

\* A request for one rule: it fails when the kernel refuses it, or when the
\* answer is lost, and then may be done all the same.
Request(refused, done) ==
    \/ /\ refused /\ kernel' = kernel /\ failed' = TRUE
       /\ calm' = FALSE /\ UNCHANGED faults
    \/ /\ ~refused /\ kernel' = done
       /\ UNCHANGED <<failed, faults, calm>>
    \/ /\ ~refused /\ faults < MaxFaults
       /\ kernel' \in {kernel, done} /\ failed' = TRUE
       /\ calm' = FALSE /\ faults' = faults + 1

\* NetlinkRetry gave up: the thread ends.
GivesUp ==
    /\ faults < MaxFaults
    /\ faults' = faults + 1
    /\ pc' = "ended"
    /\ SetErr("kernel", TRUE)
    /\ calm' = FALSE
    /\ UNCHANGED <<conf, kernel, locked, files, desired, immutable, local, admin, before, stuck>>
-----------------------------------------------------------------------------
(* The thread *)

DesiredOf(lines) ==
    Each(Keep(MergeRules(ParseRules(lines)), IsLoadable),
         LAMBDA rule : AddKeys(rule, {AuomsKey}))

Init ==
    /\ conf \in Confs
    /\ kernel = <<>>
    /\ locked = FALSE
    /\ main \in {<<>>, <<Marker("augenrules")>>}
    /\ dir = <<>> /\ own = <<>>
    /\ desired = <<>>
    /\ errs = {}
    /\ immutable = FALSE
    /\ pc = "sleep"
    /\ rules = <<>> /\ todo = <<>> /\ failed = FALSE
    /\ admin = 0 /\ faults = 0
    /\ calm = FALSE /\ before = {} /\ stuck = FALSE

\* Every 60 seconds the desired rules are read, at first before the first check.
GetDesiredRules ==
    /\ pc = "sleep"
    /\ desired' = DesiredOf(conf)
    /\ SetErr("desired", HasErrors(conf))
    /\ pc' \in {"files", "list"}
    /\ UNCHANGED <<conf, kernel, locked, files, immutable, local, admin, faults, calm, before, stuck>>

\* Between two such reads the files or only the kernel's rules are checked.
Wake ==
    /\ pc = "sleep"
    /\ desired # <<>>
    /\ pc' \in {"files", "list"}
    /\ UNCHANGED <<conf, kernel, locked, files, desired, errs, immutable, local, admin, faults, calm, before, stuck>>

CheckFiles ==
    /\ pc = "files"
    /\ IF desired = <<>> \/ DiffRules(ReadActualAuditdRules(FALSE), desired) = <<>>
       THEN /\ SetErr("file", desired # <<>> /\ HasErrors(ActualLines(FALSE)))
            /\ pc' = "list"
       ELSE pc' = "write" /\ UNCHANGED errs
    /\ UNCHANGED <<conf, kernel, locked, files, desired, immutable, local, admin, faults, calm, before, stuck>>

WriteFiles ==
    /\ pc = "write"
    /\ WriteAuditdRules(DiffRules(ReadActualAuditdRules(TRUE), desired))
    /\ SetErr("file", HasErrors(ActualLines(TRUE)))
    /\ pc' = IF Generated THEN "augenrules" ELSE "list"
    /\ stuck' = (stuck \/ Generated)
    /\ UNCHANGED <<conf, kernel, locked, desired, immutable, local, admin, faults, calm, before>>

RunAugenrules ==
    /\ pc = "augenrules"
    /\ \/ Augenrules /\ stuck' = FALSE /\ UNCHANGED <<errs, faults>>
       \/ /\ faults < MaxFaults
          /\ faults' = faults + 1
          /\ SetErr("file", TRUE)
          /\ UNCHANGED <<files, stuck>>
    /\ pc' = "list"
    /\ UNCHANGED <<conf, kernel, locked, desired, immutable, local, admin, calm, before>>

Diff(list) == DiffRules(MergeRules(list), desired)

ListRules ==
    /\ pc = "list"
    /\ \/ /\ desired # <<>> /\ GivesUp
       \/ /\ desired = <<>> /\ pc' = "sleep"
          /\ UNCHANGED <<conf, kernel, locked, files, desired, errs, immutable, local, admin, faults, calm, before, stuck>>
       \/ /\ desired # <<>>
          /\ rules' = kernel
          /\ calm' = ~locked
          /\ before' = Covered(Keep(NotAuoms(kernel), Sound))
          /\ IF Diff(kernel) = <<>> THEN pc' = "sleep" /\ SetErr("kernel", FALSE)
             ELSE pc' = "status" /\ UNCHANGED errs
          /\ UNCHANGED <<conf, kernel, locked, files, desired, immutable, todo, failed, admin, faults, stuck>>

\* Mutant: the permissions and system calls are compared the other way round.
DeleteIt_Swapped(rule, wanted) ==
    \/ IsAuoms(rule)
    \/ \E d \in ToSet(wanted) :
          /\ CanonicalMergeKey(d) = CanonicalMergeKey(rule)
          /\ IF IsWatch(rule) THEN GetPerms(d) \subseteq GetPerms(rule)
             ELSE d.calls \subseteq rule.calls

\* An old rule of auoms, or one that a desired rule makes superfluous.
DeleteIt(rule, wanted) ==
    \/ IsAuoms(rule)
    \/ \E d \in ToSet(wanted) :
          /\ CanonicalMergeKey(d) = CanonicalMergeKey(rule)
          /\ IF IsWatch(rule) THEN GetPerms(rule) \subseteq GetPerms(d)
             ELSE rule.calls \subseteq d.calls

\* Mutant: enabled that is 1 passes for 2, as if the rules were locked.
GetEnabled_Any ==
    /\ pc = "status"
    /\ \/ GivesUp
       \/ /\ immutable' = TRUE
          /\ SetErr("kernel", "kernel" \in errs \/ ~immutable)
          /\ pc' = "sleep"
          /\ UNCHANGED <<conf, kernel, locked, files, desired, local, admin, faults, calm, before, stuck>>

GetEnabled ==
    /\ pc = "status"
    /\ \/ GivesUp
       \/ /\ locked
          /\ immutable' = TRUE
          /\ SetErr("kernel", "kernel" \in errs \/ ~immutable)
          /\ pc' = "sleep"
          /\ UNCHANGED <<conf, kernel, locked, files, desired, local, admin, faults, calm, before, stuck>>
       \/ /\ ~locked
          /\ immutable' = FALSE
          /\ todo' = Keep(rules, LAMBDA rule : DeleteIt(rule, desired))
          /\ failed' = FALSE
          /\ pc' = "delete"
          /\ UNCHANGED <<conf, kernel, locked, files, desired, errs, rules, admin, faults, calm, before, stuck>>

DeleteRule ==
    /\ pc = "delete"
    /\ todo # <<>>
    /\ Request(locked \/ Head(todo) \notin ToSet(kernel), Without(kernel, Head(todo)))
    /\ todo' = Tail(todo)
    /\ UNCHANGED <<conf, locked, files, desired, errs, immutable, pc, rules, admin, before, stuck>>

\* Mutant: the missing rules are computed from the list of before the deletions.
Relist_Stale ==
    /\ pc = "delete"
    /\ todo = <<>>
    /\ todo' = Diff(rules)
    /\ pc' = "add"
    /\ UNCHANGED <<conf, kernel, locked, files, desired, errs, immutable, rules, failed, admin, faults, calm, before, stuck>>

\* What is still missing is computed anew from the rules that are left.
Relist ==
    /\ pc = "delete"
    /\ todo = <<>>
    /\ \/ GivesUp
       \/ /\ rules' = kernel
          /\ todo' = Diff(kernel)
          /\ IF todo' = <<>> THEN pc' = "sleep" /\ SetErr("kernel", FALSE)
             ELSE pc' = "add" /\ UNCHANGED errs
          /\ UNCHANGED <<conf, kernel, locked, files, desired, immutable, failed, admin, faults, calm, before, stuck>>

AddRule ==
    /\ pc = "add"
    /\ todo # <<>>
    /\ Request(locked \/ Stored(Head(todo)) \in ToSet(kernel), AddTo(kernel, Head(todo)))
    /\ todo' = Tail(todo)
    /\ UNCHANGED <<conf, locked, files, desired, errs, immutable, pc, rules, admin, before, stuck>>

CheckDone ==
    /\ pc = "add"
    /\ todo = <<>>
    /\ SetErr("kernel", failed)
    /\ pc' = "sleep"
    /\ UNCHANGED <<conf, kernel, locked, files, desired, immutable, local, admin, faults, calm, before, stuck>>

Monitor ==
    \/ Wake \/ GetDesiredRules
    \/ CheckFiles \/ WriteFiles \/ RunAugenrules
    \/ ListRules \/ GetEnabled \/ DeleteRule \/ Relist \/ AddRule \/ CheckDone
-----------------------------------------------------------------------------
(* The administrator *)

Acts == admin < MaxAdmin /\ admin' = admin + 1

Rests == UNCHANGED <<conf, desired, errs, immutable, local, before, faults>>

\* auditctl, also auomsctl -R
AdminAdds ==
    /\ Acts /\ ~locked
    /\ \E rule \in AdminRules : kernel' = AddTo(kernel, rule)
    /\ calm' = FALSE
    /\ UNCHANGED <<locked, files, pc, stuck>> /\ Rests

\* A boot or a restart of auditd loads audit.rules.
LoadsFile ==
    /\ Acts /\ ~locked
    /\ kernel' = Fold(AddTo, <<>>, ParseRules(main))
    /\ calm' = FALSE
    /\ UNCHANGED <<locked, files, pc, stuck>> /\ Rests

Locks ==
    /\ Acts /\ locked' = TRUE /\ calm' = FALSE
    /\ UNCHANGED <<kernel, files, pc, stuck>> /\ Rests

AdminEdits ==
    /\ Acts
    /\ \E line \in AdminLines :
          IF Generated THEN dir' = Append(dir, line) /\ UNCHANGED main
          ELSE main' = Append(main, line) /\ UNCHANGED dir
    /\ stuck' = (stuck \/ Generated)
    /\ UNCHANGED <<own, kernel, locked, pc, calm>> /\ Rests

\* Mutant: augenrules is not run.
SetRules_NotRun ==
    /\ Acts
    /\ ~HasErrors(ActualLines(FALSE)) /\ ~HasErrors(conf)
    /\ DiffRules(ReadActualAuditdRules(FALSE), DesiredOf(conf)) # <<>>
    /\ WriteAuditdRules(DiffRules(ReadActualAuditdRules(TRUE), DesiredOf(conf)))
    /\ stuck' = FALSE
    /\ UNCHANGED <<kernel, locked, pc, calm>> /\ Rests

\* auomsctl setrules: as the check of the files, but nothing is written when
\* a line has an error.
SetRules ==
    /\ Acts
    /\ ~HasErrors(ActualLines(FALSE)) /\ ~HasErrors(conf)
    /\ DiffRules(ReadActualAuditdRules(FALSE), DesiredOf(conf)) # <<>>
    /\ IF Generated
       THEN /\ own' = Texts(DiffRules(ReadActualAuditdRules(TRUE), DesiredOf(conf)))
            /\ main' = <<Marker("augenrules")>> \o dir \o own'
            /\ dir' = dir
       ELSE WriteAuditdRules(DiffRules(ReadActualAuditdRules(TRUE), DesiredOf(conf)))
    /\ stuck' = FALSE
    /\ UNCHANGED <<kernel, locked, pc, calm>> /\ Rests

\* auomsctl load: a check of the kernel's rules at once, by another process.
LoadRules ==
    /\ Acts /\ ~locked /\ ~HasErrors(conf)
    /\ \E wanted \in {DesiredOf(conf)} :
          /\ DiffRules(MergeRules(kernel), wanted) # <<>>
          /\ \E left \in {Keep(kernel, LAMBDA rule : ~DeleteIt(rule, wanted))} :
                kernel' = Fold(AddTo, left, DiffRules(MergeRules(left), wanted))
    /\ calm' = FALSE
    /\ UNCHANGED <<locked, files, pc, stuck>> /\ Rests

\* auomsctl delete auoms
DeleteRules == kernel' = IF locked THEN kernel ELSE NotAuoms(kernel)

\* auomsctl disable: the service is stopped, then its rules are deleted from
\* the kernel and from the files.  The files are left alone when no rule in use
\* is one of auoms.
Disable ==
    /\ Acts
    /\ pc' = "disabled"
    /\ DeleteRules
    /\ IF \E rule \in ToSet(ReadActualAuditdRules(FALSE)) : IsAuoms(rule)
       THEN /\ own' = <<>> /\ dir' = dir
            /\ main' = IF Generated THEN <<Marker("augenrules")>> \o dir ELSE RemoveSection(main)
            /\ stuck' = FALSE
       ELSE UNCHANGED <<files, stuck>>
    /\ calm' = FALSE
    /\ UNCHANGED locked /\ Rests

Admin == pc # "disabled" /\ (AdminAdds \/ LoadsFile \/ Locks \/ AdminEdits \/ SetRules
                            \/ LoadRules \/ Disable)

Next == Monitor \/ Admin

\* The thread's _sleep ends after 15 seconds; its requests end.
Spec == Init /\ [][Next]_vars /\ WF_vars(Monitor)
-----------------------------------------------------------------------------

\* When a check of the kernel's rules went through without a fault and nobody
\* changed the rules meanwhile, the kernel selects everything the desired rules
\* select (AuditRulesMonitor.cpp:159-284), and also everything the
\* administrator's own rules selected before it, although the check deletes
\* those that a desired rule makes superfluous.
CheckCovers ==
    pc = "sleep" /\ calm /\ AllSound(desired) /\ AllSound(kernel)
        => Covered(desired) \cup before \subseteq Covered(kernel)

\* Once a check went through without a fault, the next ones find nothing to do
\* until somebody changes the rules: what the kernel lists and merges is not
\* taken out and put back every fifteen seconds (AuditRulesMonitor.cpp:172-181).
NoChurn ==
    [][pc = "list" /\ calm /\ AllSound(desired) /\ AllSound(kernel) => pc' # "status"]_vars

\* The lines outside the section of auoms are the administrator's: the monitor
\* and auomsctl leave them as they are.
Outside(lines) ==
    LET In(i) == /\ \E j \in 1..i : lines[j] = Marker("start")
                 /\ \E j \in i..Len(lines) : lines[j] = Marker("end")
    IN  KeepAt(lines, {i \in DOMAIN lines : ~In(i)})

AdminLinesKept ==
    [][~Generated /\ ~AdminEdits => Outside(main') = Outside(main) /\ dir' = dir]_vars

\* When a check of the files finds nothing to do, the rules that the next boot
\* loads select everything that is desired; not so after augenrules failed: the
\* next check reads rules.d, finds the rules there and does not run it again
\* (AuditRulesMonitor.cpp:84-101).
BootCovered ==
    [][pc = "files" /\ pc' = "list" /\ ~stuck
        /\ AllSound(desired) /\ AllSound(ParseRules(main))
        => Covered(desired) \subseteq Covered(ParseRules(main))]_vars

\* auomsctl disable leaves no rule of auoms in the kernel or where the next boot
\* would find it (auomsctl.cpp:728-765).
DisableCleans ==
    [][pc' = "disabled" /\ ~stuck
        => /\ locked \/ NotAuoms(kernel') = kernel'
           /\ NotAuoms(ParseRules(main')) = ParseRules(main')]_vars

\* Whatever the administrator did, in the end the kernel selects what is desired,
\* unless the thread ended, the rules were locked or some are not sound.
StaysLoaded ==
    <>[](\/ pc \in {"ended", "disabled"} \/ locked
         \/ ~AllSound(kernel) \/ ~AllSound(desired)
         \/ desired # <<>> /\ Covered(desired) \subseteq Covered(kernel))
=============================================================================
