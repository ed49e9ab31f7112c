-------------------------------- MODULE Outputs --------------------------------
(***************************************************************************)
(* Outputs and EventFilter on top of the process tree: the thread that      *)
(* brings the outputs in line with their configuration files (do_conf_sync), *)
(* the administrator who edits the files and asks for a reload, the main    *)
(* thread that drops at the source what every output filters, and the       *)
(* outputs' threads, each of which takes the events that are sent at its     *)
(* own pace and drops what its filters match.  How an output delivers an     *)
(* event is module Output's matter: here it got the event.                   *)
(***************************************************************************)
EXTENDS ProcessTree

CONSTANTS
    Names,     \* outputs
    Confs,     \* configurations: valid, loads and process_filters (entries)
    FirstDirs, \* the configuration files at the start
    MaxEdits   \* bound: edits of the files

VARIABLES
    dir,     \* the configuration files: name -> configuration
    dirty,   \* edited and no reload asked for yet
    reload,  \* _do_reload
    sync,    \* where do_conf_sync is
    conf,    \* _outputs, with what Load was given
    filter,  \* _event_filter of each: none or one
    running, \* outputs whose thread runs
    sent,    \* the queue of events
    cursor,  \* the event each output is at
    got,     \* ghost: the events each output has for its writer
    edits

cvars == <<dir, dirty, reload, edits>>
ovars == <<sync, conf, filter, running>>
evars == <<sent, cursor, got>>
vars == <<pvars, cvars, ovars, evars>>

Idle == [at |-> "idle"]
-----------------------------------------------------------------------------
(* The administrator *)

Edit ==
    /\ edits < MaxEdits /\ edits' = edits + 1
    /\ Acts
    /\ \E o \in Names :
          \/ \E c \in Confs : dir' = (o :> c) @@ dir
          \/ dir' = Less(dir, o)
    /\ dir' # dir
    /\ dirty' = TRUE
    /\ UNCHANGED <<live, notes, audit, uses, lost, reload, ovars, evars>>

Reload ==
    /\ dirty
    /\ dirty' = FALSE /\ reload' = TRUE
    /\ UNCHANGED <<pvars, dir, edits, ovars, evars>>
-----------------------------------------------------------------------------
(* EventFilter *)

\* NewEventFilter: none when process_filters is refused.
NewEventFilter(e, o, c) ==
    {[list |-> l, mask |-> BitsOf(AddFilterList(e, l, o), l)] : l \in ParseConfig(c.entries)}

AddFilters(e, fs, o) == Fold(LAMBDA d, l : AddFilterList(d, l, o), e, SetToSeq({f.list : f \in fs}))

RemoveFilters(e, fs, o) == Fold(LAMBDA d, l : RemoveFilterList(d, l, o), e, SetToSeq({f.list : f \in fs}))
-----------------------------------------------------------------------------
(* Outputs::run and do_conf_sync *)

\* The removed outputs are stopped and their cursor files deleted; they, with
\* their filters, live until do_conf_sync returns.
BeginSync ==
    /\ sync = Idle /\ reload
    /\ reload' = FALSE
    /\ LET gone == DOMAIN conf \ DOMAIN dir
       IN  /\ sync' = [at |-> "each", todo |-> DOMAIN dir, gone |-> [o \in gone |-> filter[o]]]
           /\ conf' = [o \in DOMAIN conf \ gone |-> conf[o]]
           /\ filter' = [o \in DOMAIN conf \ gone |-> filter[o]]
           /\ running' = running \ gone
           /\ cursor' = [o \in Names |-> IF o \in gone THEN 0 ELSE cursor[o]]
           /\ got' = [o \in Names |-> IF o \in gone THEN {} ELSE got[o]]
    /\ UNCHANGED <<pvars, dir, dirty, edits, sent>>

\* A valid configuration that is not what the output has.
ToLoad(o) ==
    /\ o \in DOMAIN dir /\ dir[o].valid
    /\ o \in DOMAIN conf => conf[o] # dir[o]

SkipOutput ==
    /\ sync.at = "each"
    /\ \E o \in sync.todo :
          /\ ~ToLoad(o)
          /\ sync' = [sync EXCEPT !.todo = @ \ {o}]
    /\ UNCHANGED <<pvars, cvars, conf, filter, running, evars>>

\* The output is stopped, if there is one, for what was read to be loaded.
StopOutput ==
    /\ sync.at = "each"
    /\ \E o \in sync.todo :
          /\ ToLoad(o)
          /\ running' = running \ {o}
          /\ sync' = [sync EXCEPT !.at = "load", !.todo = @ \ {o}] @@ [o |-> o, read |-> dir[o]]
    /\ UNCHANGED <<pvars, cvars, conf, filter, evars>>

\* Output::Load, with UpdateFlags after each change of the engine, and Start.
\* The old filter goes when the new one is in its place.
LoadOutput ==
    /\ sync.at = "load"
    /\ LET o == sync.o
           old == IF o \in DOMAIN conf THEN filter[o] ELSE {}
       IN  \E new \in {NewEventFilter(engine, o, sync.read)} :
              /\ engine' = RemoveFilters(AddFilters(engine, new, o), old, o)
              /\ procs' = IF old \cup new = {} THEN procs ELSE UpdateFlags(engine', procs)
              /\ conf' = (o :> sync.read) @@ conf
              /\ filter' = (o :> new) @@ filter
              /\ running' = IF sync.read.loads THEN running \cup {o} ELSE running
    /\ sync' = [at |-> "each", todo |-> sync.todo, gone |-> sync.gone]
    /\ UNCHANGED <<kvars, cvars, evars>>

\* Mutant: a request that came meanwhile is taken for done.
EndSync_Clears ==
    /\ sync.at = "each" /\ sync.todo = {}
    /\ engine' = Fold(LAMBDA e, o : RemoveFilters(e, sync.gone[o], o), engine, SetToSeq(DOMAIN sync.gone))
    /\ procs' = IF DOMAIN sync.gone = {} THEN procs ELSE UpdateFlags(engine', procs)
    /\ sync' = Idle /\ reload' = FALSE
    /\ UNCHANGED <<kvars, dir, dirty, edits, conf, filter, running, evars>>

EndSync ==
    /\ sync.at = "each" /\ sync.todo = {}
    /\ engine' = Fold(LAMBDA e, o : RemoveFilters(e, sync.gone[o], o), engine, SetToSeq(DOMAIN sync.gone))
    /\ procs' = IF DOMAIN sync.gone = {} THEN procs ELSE UpdateFlags(engine', procs)
    /\ sync' = Idle
    /\ UNCHANGED <<kvars, cvars, conf, filter, running, evars>>

Sync == BeginSync \/ SkipOutput \/ StopOutput \/ LoadOutput \/ EndSync
-----------------------------------------------------------------------------
(* The main thread and the outputs' threads *)

\* process_syscall_event: an execve fills the entry of its process; an event
\* that the filters of all outputs match goes no further.
ProcessEvent ==
    /\ audit # <<>> /\ audit' = Tail(audit)
    /\ \E a \in {Head(audit)} :
          \E t \in {IF a.call = "execve" THEN AddProcess(engine, procs, a)
                    ELSE GetInfoForPid(engine, procs, a.pid)} :
             /\ procs' = t
             /\ sent' = IF IsEventFiltered(engine, a.call, Info(t, a.pid), engine.mask) THEN sent
                        ELSE Append(sent, [pid |-> a.pid, call |-> a.call])
    /\ UNCHANGED <<live, notes, uses, acts, lost, engine, cvars, ovars, cursor, got>>

\* The output takes its next event: EventFilter::IsEventFiltered.
TakeEvent(o) ==
    /\ o \in running /\ cursor[o] < Len(sent)
    /\ cursor' = [cursor EXCEPT ![o] = @ + 1]
    /\ \E event \in {sent[cursor'[o]]}, t \in {IF filter[o] = {} THEN procs
                        ELSE GetInfoForPid(engine, procs, sent[cursor'[o]].pid)} :
          /\ procs' = t
          /\ got' = IF \E f \in filter[o] : IsEventFiltered(engine, event.call, Info(t, event.pid), f.mask)
                    THEN got ELSE [got EXCEPT ![o] = @ \cup {cursor'[o]}]
    /\ UNCHANGED <<kvars, engine, cvars, ovars, sent>>
-----------------------------------------------------------------------------
Init ==
    /\ InitTree
    /\ engine = NewEngine
    /\ dir \in FirstDirs
    /\ dirty = FALSE /\ reload = TRUE /\ sync = Idle
    /\ conf = <<>> /\ filter = <<>> /\ running = {}
    /\ sent = <<>> /\ cursor = [o \in Names |-> 0] /\ got = [o \in Names |-> {}]
    /\ edits = 0

Tree == (Kernel \/ TakeNote \/ Clean) /\ UNCHANGED <<cvars, ovars, evars>>

Next ==
    \/ Tree \/ Edit \/ Reload \/ Sync \/ ProcessEvent
    \/ \E o \in Names : TakeEvent(o)

\* The threads of auoms run; the administrator asks for a reload in the end.
Spec == Init /\ [][Next]_vars /\ WF_vars(Sync) /\ WF_vars(Reload)
-----------------------------------------------------------------------------
(* Properties *)

\* The filter asks for the system call.
AsksFor(f, call) == \E i \in DOMAIN f.calls : f.calls[i] \in {Call(call), AllCalls}

\* The output's own filters match what runs exe, and ask for the system call.
Wanted(o, exe, call) ==
    ~\E f \in filter[o] : \E i \in DOMAIN f.list : f.list[i].exe = exe /\ AsksFor(f.list[i], call)

\* Some loaded filter matches exe, so that ancestors do not count.
Matched(exe) == \E o \in DOMAIN conf : \E f \in filter[o] : \E i \in DOMAIN f.list : f.list[i].exe = exe

\* A reload has not taken the output's filters from the engine.
Kept(o) == \A f \in filter[o] : \A i \in DOMAIN f.list :
    f.list[i] \in DOMAIN engine.pos /\ o \in engine.pos[f.list[i]].outputs

Counted == DOMAIN conf \subseteq engine.outputs

JudgedBy(o) == o \in running /\ o \in running' /\ cursor'[o] = cursor[o] + 1

Dropped == Len(audit') < Len(audit) /\ sent' = sent

\* Between reloads, an output gets exactly the events its own filters do not
\* match, for a process whose executable some filter names: whatever other
\* outputs filter, however filters were loaded, shared and removed and whichever
\* order the process became known in.  And main drops at the source
\* only what no output wants.  Excluded is what the code gets wrong: an output
\* whose filters a reload took from the engine (EventFilter.cpp:39) and,
\* at the source, outputs that FiltersEngine does not count (FiltersEngine.cpp:117).
JudgedRight ==
    [][sync = Idle =>
        /\ \A o \in Names : (JudgedBy(o) /\ Kept(o)) =>
              LET event == sent[cursor'[o]]
              IN  \A item \in Info(procs', event.pid) : Matched(item.exe) =>
                     (cursor'[o] \in got'[o] <=> Wanted(o, item.exe, event.call))
        /\ (Dropped /\ Counted) =>
              LET event == Head(audit)
              IN  \A item \in Info(procs', event.pid) : Matched(item.exe) =>
                     \A o \in DOMAIN conf : ~Wanted(o, item.exe, event.call)]_vars

\* The loaded outputs are the valid ones of the files, with what the files say.
ConfMatches ==
    /\ \A o \in DOMAIN dir : dir[o].valid =>
          o \in DOMAIN conf /\ conf[o] = dir[o] /\ (dir[o].loads <=> o \in running)
    /\ DOMAIN conf \subseteq DOMAIN dir

\* A reload that is asked for is never lost, also when it is asked for while the
\* files are being read: the outputs become what the files say.
ReloadApplied == <>[]~dirty => <>[]ConfMatches

\* testout.conf:149: what a filter of the output matches does not reach it.
FilteredWhenMatched ==
    [][sync = Idle =>
        \A o \in Names : JudgedBy(o) =>
            LET event == sent[cursor'[o]]
            IN  \A item \in Info(procs', event.pid) :
                   (cursor'[o] \in got'[o] => Wanted(o, item.exe, event.call))]_vars
=============================================================================
