# A TLA+ verification of auoms and auomscollect

auoms collects Linux audit events. This directory holds TLA+ modules for the
parts of it that are hard to test: the requests to the kernel, the gathering of
records into events and their layout, the shared event queue and its file, the
hand-over between threads, the filters and the process tree they rest on, the
acknowledged delivery to consumers, the rules that are kept in the kernel, and
the life of the processes themselves. TLC checks them on small instances; for
the queue, its readers and its file, the delivery to consumers, the hand-over between
threads, the requests to the kernel, the rules kept in it and the sessions, TLAPS
proves the main safety properties for every value of the constants.

Run a check in this directory with

    tlc -workers 2 -config MCQueue.cfg MCQueue.tla
    tlapm QueueProofs.tla

and likewise for the other modules whose names end in Proofs.

## The system

Two processes work in a chain; each has its own queue and its own output
threads. auomsctl and the service manager start and stop them.

    kernel --netlink--> auomscollect:  Netlink / stdin -> RawEventAccumulator
                        -> EventBuilder -> Queue -> Output (raw, ack mode)
                                                       |
                                               unix socket, acks back
                                                       v
    auoms:  Input threads -> InputBuffer -> main thread (RawEventProcessor,
            which asks ProcessTree and FiltersEngine)
            -> EventBuilder -> Queue -> Outputs: one Output per consumer
            beside them: CollectionMonitor, AuditRulesMonitor, ProcessNotify

Each component below is listed with its state, its operations, what makes it hard
and what makes it correct.

| Component (source) | State | Operations | Hard | Correct when | Module |
|---|---|---|---|---|---|
| Netlink requests (Netlink.cpp, Retry.h) | `_replies`, `_known_seq`, `_sequence`, `_data` | Send, run, handle_msg, flush_replies, Close | late replies, expiry, close | each Send returns once, with its own answer | Netlink; NetlinkProofs |
| Raw event accumulator (RawEventAccumulator.cpp, Cache.h) | cache of events by id | AddRecord, Flush | interleaved events, lost records, limits | each record leaves once or is counted as dropped | RawEvents |
| Event builder (Event.cpp) | event under construction | Begin, Add, End; Event, EventRecord, Validate | offsets computed on both sides, 16-bit sizes | what is read is what was put | EventBuilder |
| Event queue (Queue.cpp) | ring buffer, `_head`, `_tail`, `_next_id`, `_int_id` | Put, Get, Interrupt, Reset, Close | wrap-around, dropping of old items, a cursor kept while the lock is released | items whole and in order, dropped only for want of room, every reader gets what follows its cursor | Queue, EventLog; QueueProofs, ReaderProofs |
| Queue file (Queue.cpp) | file header, file data, `_saved_size`, `_save_active` | Open, Save, Autosave, Close, Reset | writes without the lock; death in the middle | the file can be opened at any moment and loses nothing saved | QueueSave; QueueSaveProofs |
| Event intake (InputBuffer.h, Input.cpp, RawEventReader.h) | one buffer, `_data_size`, `_has_writer`, `_close` | BeginWrite, CommitWrite, AbandonWrite, HandleData, Close | several writers, disconnects, shutdown | an event is acked after it was handled, once, by its own connection | InputBuffer, Inputs; InputsProofs |
| Raw event processor (RawEventProcessor.cpp, ExecveConverter.cpp) | counts and fields of an event | process_event, process_syscall_event | any arrangement of missing, doubled, dropped records | as many fields are added as were announced; a command line with gaps says so | RawEventProcessor |
| Process tree (ProcessTree.cpp) | map of processes, queue of notifications | fork, exec, exit, lookup, Clean | notifications and audit events that race or are lost | an entry describes the process that runs | ProcessTree |
| Event filters (FiltersEngine.cpp, ProcFilter.cpp, EventFilter.cpp) | bits of filters, common mask | load, remove, match, judge | outputs that share filters come and go | an event goes to the outputs that want it | FiltersEngine, Outputs |
| Outputs and reload (Outputs.cpp) | table of outputs, reload flag | Reload, do_conf_sync | reload against running outputs | each output has the configuration on disk | Outputs |
| Output (Output.cpp) | `_cursor`, AckQueue, cursor file | connect, send, ack, filter, stop | lost connections, late acks, two kinds of cursors, restart | the cursor never passes an event not delivered; everything is delivered in the end | Output; OutputProofs |
| Audit rules and their monitor (AuditRules.cpp, AuditRulesMonitor.cpp) | rules desired, in files, in the kernel | Parse, Merge, Diff, the periodic check | an administrator beside it, requests that fail | the rules converge and nobody else's are touched | AuditRule, RulesMonitor; RulesMonitorProofs |
| Sessions (LockFile.cpp, auoms.cpp, auomscollect.cpp) | lock file, queue file, cursor files | Lock, reset, Open, Close, Unlock | death at any step | files of unknown state are not used | Services; ServicesProofs |
| Collection monitor (CollectionMonitor.cpp, ExecUtil.cpp) | child process, audit pid | check, start, stop | a child that dies, waits or finds another collector | a collector runs while auoms does | Services |
| auomsctl (auomsctl.cpp) | the command it carries out | start, stop, restart, enable, disable, upgrade | waiting for a limited time | what is stopped is gone | Services, RulesMonitor; ServicesProofs, RulesMonitorProofs |
| Inputs (Inputs.cpp) | table of Inputs by fd, those to clean | accept, add, remove, cleanup, stop | a reused fd, stop against accept | every Input that runs is in the table; every one is stopped and joined | Inputs; InputsProofs |
| Thread life cycle (RunBase.cpp) | `_stop`, `_stopped`, `_joining`, `_joined` | Start, Stop, Wait | two callers of Stop | every stop ends | RunBase, and as Output and Outputs see it |
| Operational status (OperationalStatus.cpp) | error conditions | set, clear, answer, stop | a lock held while joining | what is told is true | Inputs, RulesMonitor |
| Writers, tables, metrics, UserDB, Config | none, or caches | format, translate, sample | strings | | not modelled |

## Modules

An operator with a suffix, such as `CheckFit_Short` beside `CheckFit`, is a
mutant: what a plausible slip in that code would make of the definition. Each
property of a passing run is violated when the mutant named for it in
PROJECT.json takes the place of the original, which shows that the property
depends on the code. Ghost variables are marked as such where they are declared;
no action reads them.

* **EventLog**: what the queue promises, without buffer, blocks and cursors: a
  log of numbered events of which a suffix is kept, and readers that move
  through it in order. It is the abstract specification of Queue and the
  environment of Output.
* **Queue**: `Queue.cpp` cell by cell. `mem` is the buffer at `_ptr`; a block is
  a header (`Hdr` cells, its fields kept in the first) and a payload whose cells
  carry the id of the item that wrote them, so that a block torn by another one
  shows. Each method is one action, since it runs under `_lock`, with two
  exceptions: `Get` is `GetNow`, or `GetWait` and later `GetWake` or `GetFail`,
  because it gives the lock up while it waits; `Put` is `PutBegin`, one `PutDrop`
  for each turn of the loop in `allocate_locked`, and `PutCommit`, with
  `put.busy` keeping every other method out. `cur` is the cursor the caller of
  Get passes next. Ghosts `first`, `pos` and `astray` say which items are kept,
  where, and which readers the ring overtook (`get.want` and `get.lapped` are of
  the same kind). The branch of `allocate_locked` that copies an uncommitted block
  (540-542) is left out: no block stays in that state when the lock is released.
* **QueueSave** extends Queue with the file. `save_locked` plans its writes
  under the lock (`SaveBegin`), writes header, cells and header without it, and
  adds to `_saved_size` under the lock again (`SaveEnd`). `hdr` and `disk` are
  what is in the file after each step; `Opened` is what `Open` would make of it,
  so a property of `Opened` that holds in every state is one of a crash at every
  step. `Reset` is one action although it writes twice, and the close of the file
  descriptor by `Close` while another thread writes is left out. What the next
  session does with the file is Services' matter.
* **RunBase**: Start, Stop and Wait by several callers, and the end of a thread,
  with the flags that decide who joins. One of them runs under `_run_mutex` at a
  time; the gaps between (on_stopping, the join, the wait for `_stopped`) are
  where a caller stands between two actions.
* **InputBuffer** extends RunBase: `Input::run` step by step for each connection,
  with the shared buffer in two parts (the header and the rest of an event, which
  `RawEventReader` reads one after the other without the mutex), and HandleData.
* **Inputs** composes them: the accepting thread with `add_connection`, `cleanup`
  and `on_stop`, the table of Inputs by file descriptor, `remove_connection` at
  the end of each Input, and whoever ends it: the signal thread (`Terminate`,
  `SignalStopsInputs`) and main after its loop (`StopInputs`), which also stops
  OperationalStatus (`StopStatus`) while somebody may `Ask` for the status.
  `InputsLocked` and `StatusLocked` are the mutexes that are held over several
  steps. The components main stops before Inputs are left out, as are failures
  of poll and accept. `Ask` and `Terminate` are left out where an earlier or
  later one makes no difference.
* **Output**: one Output in ack mode. `pc` follows `Output::run`, `check_open`
  and `handle_events`; `reader` follows `AckReader::run`; `writing` and `updated`
  are the CursorWriter; `ids`, `cursors`, `next_seq`, `auto` and `aclosed` are the
  AckQueue. `wire` and `acks` are the two directions of the socket, external,
  with a receiver that acks an event after it has taken it. The queue underneath
  is EventLog: a cursor is the id of the event it stands for. `Ack` followed by
  `UpdateCursor` is one action, as only the AckReader calls either in ack mode.
  A failure of a file operation, the reset of a corrupted queue, and outputs
  without ack mode are left out.
* **Netlink**: a caller that issues the requests of a plan one after the other
  (`Send` in its steps: build the message in `_data`, enter the reply record, send,
  wait on the future), the receiving thread of `Netlink::run` (poll, receive into
  the same `_data`, look up the reply record, call the reply function, expire
  replies, the end by an error), and `Close`. Kernel and socket are external:
  answers arrive in any order, late, or not at all; the order of the socket is
  folded into the set `answers`. Send writes `_data` and run receives into it
  without a common lock; the first message that is overwritten sets the ghost `torn`, and
  the run stops there (CONSTRAINT Whole): what follows is bytes of two messages.
  Requests that `_known_seq` keeps for ten seconds do not age, messages that
  `NLMSG_OK` or `nl_pid` rule out are left out, and no default handler is set.
* **AuditRule**: `AuditRules.cpp` as operators on rules, which are records of
  filter, action, system calls and fields: Parse, CanonicalText and the merge
  key, MergeRules, DiffRules, the sections of rules files. `Covered`
  says what a list of rules selects, independently of how the code merges; the
  ASSUMEs of MCRules compare the operators with it on every pair of rules of a
  set (`TextParses`, `MergeExact`, `DiffSuffices`). Names and operators are members
  of `Words`, values members of `Data`, system calls members of `Calls`; `Shifted` is
  what an unknown system call comes to select; `Fields`, `Rules` and `Lines` are built
  from them.
* **RulesMonitor**: the thread of AuditRulesMonitor request by request, with an
  administrator who loads, edits, locks and runs auomsctl (set_rules,
  load_rules, disable), each a single step. Netlink's retries are folded into
  `MaxFaults`; reading or writing one file is one step. `WellFormed` gives the
  constants their types; `OthersLines` says that the administrator writes neither the
  comments that mark auoms's section nor rules with its key.
* **Strict**: application, map and fold that evaluate an argument once, and
  selection from a sequence by positions (`KeepAt`, `Keep`).
* **EventBuilder**: an event as blocks at offsets, as EventBuilder writes and
  Event, EventRecord, EventRecordField and Validate read them, with sizes modulo
  `Width` (2^16 in the code). It is where `Event.h`'s promise to give back what
  was put is checked.
* **RawEvents**: auomscollect between the text of a record and its queue:
  RawEventRecord::Parse by words, RawEvent with its limits, the cache of
  RawEventAccumulator, AddEvent through EventBuilder. Records get lost before
  they arrive, a collector ends in order (Exit, which flushes the cache) or dies
  (Die, which loses it), and the next one goes on.
* **RawEventProcessor**: auoms between its input and its queue: which fields are
  counted, which are added, in what order, and ExecveConverter. What the process
  tree and filters answer is open.
* **FiltersEngine**: ParseConfig of ProcFilter and the engine that outputs share:
  bits, the outputs of each filter, the common mask, the flags of a process.
* **ProcessTree**: the entries, with notifications (`notes`, lost at times) and
  audit events (`audit`) as two streams without a common order, beside the true
  processes `live`. A lookup and an update of the map are one step each although
  `GetInfoForPid` reads without the lock.
* **Outputs** puts the two together: the administrator edits and reloads, the
  thread of Outputs applies what it finds output by output, the main thread
  drops events at the source, each output's thread drops what its filters match.
* **Services**: the processes. A session is OpenLock, TakeLock, WritePid,
  ResetFiles, OpenQueue, a time of running, CloseQueue, Unlock and ExitProcess;
  a process may die before or after each. `lock` and `text` are the lock files as
  inodes, since flag_reset removes one that may be held. `data` abstracts queue
  and cursor files to none, in use, or closed in order. The collector's
  DoNetlinkCollection, CollectionMonitor with the child it reaps, the service
  manager's restart and the steps of auomsctl's commands run beside each other.
  SIGTERM is `term`; a child of auoms inherits blocked signals and notices it
  only in its loop, and PR_SET_PDEATHSIG works from DoNetlinkCollection on.
* **MCQueue, MCQueueSave, MCInputs, MCOutput, MCNetlink, MCRules, MCEvents,
  MCFilters, MCServices** give the constants their values.
* **QueueProofs**, **ReaderProofs** and **QueueSaveProofs** (on top of it), **OutputProofs**,
  **InputsProofs**, **NetlinkProofs**, **ServicesProofs** and **RulesMonitorProofs**: the
  theorems about Queue, QueueSave, Output, Inputs with InputBuffer, Netlink,
  Services and RulesMonitor with AuditRule, each with the parts of its inductive invariant.

## Runs

Passing runs:

| Run | Question | Bounds |
|---|---|---|
| queue (MCQueue.cfg) | Does the ring keep its items whole, in order, and its readers on track through wraps, drops, a reset, an interrupt and the close, and does it implement EventLog? Do a Put and a reader make progress? | 11 cells with header 1 and items of 1 or 2: the smallest buffer with room for three blocks (`RoomForThree`); 8 items, so the ring wraps twice or more; one reader, which starts at either end; one Interrupt or Reset |
| queue_save (MCQueueSave.cfg) | Can the file be opened at every step of every save, does it keep what was saved, does Close leave everything in it? | 9 cells, items of 1, 7 items, any number of saves, one Reset, Close at any time; `Past` 2 cells read from behind the buffer |
| inputs (MCInputs.cfg) | Are events handled once and whole, and acked after that, while Inputs take turns? Do the table and the reported status follow the connections? Does auoms end when it should, whoever stops Inputs first? | two connections of 2 and 1 events, as when a collector connects again, and two file descriptors, so that the second may get the one of the first; either may go at any time; one signal and a handler that fails at any time; both main and the signal thread stop Inputs |
| output (MCOutput.cfg) | Where may the cursor be after any mixture of acks, filtered events, events with nothing to send, equal ids, a lost connection and a stop; is everything delivered? | five logs of three events: sent, filtered and with nothing to send in several orders, and one with an id that is sent twice; AckQueue of size 2, so that two events wait for their acks and a third for room; one loss of the connection or ack timeout, one stop and restart; the queue drops events once it holds more than 2; with and without a cursor file |
| netlink (MCNetlink.cfg) | Does every Send return once, with its own answer, and does Close release everyone? | plans of two requests with one retry each, one lost or failed message, four sequence numbers |
| rules (MCRules.cfg) | Do the kernel and the boot files come to cover the desired rules and stay so, without churn and without touching the administrator's? | rules over two permissions, three system calls, one of which an unknown name selects, a file and a directory; two acts of the administrator, one fault |
| events (MCEvents.cfg) | Is every record accounted for, is an event read back as it was built, do the announced counts agree, is a command line with gaps marked as such, and is everything processed? | three sets of streams (an execve in five records beside a login; a short one; three other arrangements, with a record whose type is only in its text); limits scaled down so that each is reached; `Width` 8; two lost or doubled records; one event in the queue |
| filters (MCFilters.cfg) | Is what is known of a process right, does each output get what its filters let through, is no reload lost? | two processes and init, pids used twice, four acts (fork, exec, exit, request, edit) with one lost notification; two outputs; configurations that are valid, refused when read and refused when loaded |
| services (MCServices.cfg) | Does no session trust what a crash left, does stopping leave nothing behind, does a collector run as long as auoms does? | three processes at a time, two commands of auomsctl, one crash or failing request, auditd installed at any time or from the start |

Every cfg sets CHECK_DEADLOCK FALSE: once the bounds are used up, or after
Close, nothing more needs to happen.

Why these bounds are enough. The readers of the queue do not interact with each
other (each has its own cursor and Get changes nothing of the ring), so one is
enough; the items are distinguished by id only. An auto
cursor is held back only while another event still waits when an ack comes, which takes two
entries in the AckQueue. One lost connection is enough for the AckReader of the next
one to start before the AckQueue is reset, and to find what the first left there. Two requests
let a late reply of the first meet the record of the second. A rule is merged or
compared with one other rule at a time, so the ASSUMEs over pairs are exhaustive
in shape. The streams of events are chosen so that every limit of RawEvent is
passed by a record before, at and after it. Three processes are auoms, its
collector, and one left by an earlier auoms or by auditd; `StopLeavesNone` and
`QueueTrusted`'s state space was also run with three commands (14 million
states) outside the listed runs.

What the passing runs show, in words:

* The arithmetic of `check_fit` and `allocate_locked` leaves every kept item
  whole; the loop gives up items only when less than two blocks of the new size
  are free; a reader is only off track after the ring came round while it slept
  (`astray`). The file can be opened at every step of a save unless a Put or Reset
  reaches into what the save still writes (`overrun`).
* Acks and auto cursors do not pass events that were not taken; the exceptions
  are the auto cursor that a connection's end takes past such an event and a connection
  that begins at HEAD again (`jumped`). Every event that is to be sent is
  covered by the cursor file in the end (`CursorSaved`; what is filtered or not
  sent after the last ack need not be). Every wait ends, with the one exception
  `StopEnds` names.
* A netlink answer reaches only the request it answers, while its caller
  waits; every Send ends, unless run had found `_replies` empty before the
  request was entered and its answers are lost (`Deaf`).
* For sound rules the monitor converges, and its merge and diff select no less
  than what is desired. What one undisturbed check leaves is what the next is content
  with (`NoChurn`), also when the kernel already holds a desired rule with its fields in
  another order: auoms then adds its own beside it, once.
* Sizes and counts follow what is dropped; every arrangement of records gives
  as many fields as announced except the two that `BuilderAgrees` names.
* An entry of the process tree names the right executable once audit has caught
  up, with the two exceptions in the comment of `TreeRight`.
* A session that follows a crash, a kill or a failed input loop resets its
  files, except in the two windows named below.

### Runs that TLC refutes

Each states what a comment or document of the repository says, and finds a
behaviour of the code that does otherwise.

* **input_acks**: InputBuffer.h:48, "Wait until reader has handled data in
  buffer". `_has_writer` is tested and cleared but never set, so two Inputs use
  the buffer at once. An event is acked that was never handled. Two connections
  exist at once when a collector connects again before the Input of its old
  connection has noticed the end.
* **events_dropped**: Event.cpp:458, "field count exceeds allocated number". The
  AUOMS_DROPPED_RECORDS record is left out of the count (RawEventProcessor.cpp:324)
  but its entries are added (681-694): the builder throws and auoms' input loop
  ends (auoms.cpp:399-415).
* **filters_reload**: testout.conf:149, "Processes that match will filter all or
  nominated syscalls from output." Load adds the new filters before the old
  EventFilter's destructor removes its own (Output.cpp:341, EventFilter.cpp:39):
  a filter in both is gone after the reload.

### Behaviours excluded by a ghost or a condition

They are not impossible in the code; the passing properties do not speak about
them.

* `overrun`: a Put or Reset that reaches the cells of a running save. `late`: a
  Close that finds a save older than the last Put, whose newer items are not
  written (Queue.cpp:333-335).
* `astray`: `Get` computes an index, releases the lock, and uses the index after
  it wakes (Queue.cpp:632-668); if a bufferful of items is put before, it copies
  what is there now, although Queue.h:97 promises "the item just after last".
* `jumped`: when a connection is lost the pending auto cursor is taken without
  regard to un-acked events (Output.cpp:277-280, against 138), although
  example_output.conf:12 says they are re-transmitted; and without a cursor file
  the cursor stays HEAD until the first ack (Output.cpp:164), so a connection lost before that
  leads to a new start at the end of the queue (443). The ghost is set when the auto
  cursor that is taken at a connection's end passes an event the receiver does not have,
  and when a connection after the first begins at HEAD.
* `overlap`: two Inputs in the buffer, see input_acks.
* `orphan`: an Input closes its file descriptor before `remove_connection` takes
  it from the table. A connection accepted in between may get the same number;
  `insert` then leaves the old entry, and the new Input is destroyed at the end
  of `add_connection` while its thread runs (Inputs.cpp:83-85). Inputs stops there.
* `Stuck`: OperationalStatus::on_stopping joins its listener while it holds the
  mutex that the listener takes in GetErrors (OperationalStatus.cpp:69, 95-97). If
  somebody asks for the status at that moment, auoms does not end.
* `Sound` in RulesMonitor: rules the code does not round-trip. Permissions
  outside a watch are not part of the merge key; a watch with an action is merged
  as "always"; the kernel strips flags of `-A`, so such a rule is set again every
  15 seconds; `-d` and `-W` lines are sent as additions; a file type is printed as
  a number; a rule without `-S` has an empty mask; the error of an unknown system
  call is dropped (AuditRules.h:240-242) and call -1 is added (AuditRules.cpp:429-435), whose
  bit is a shift out of range, call 31 on x86 and ARM64 (`Shifted`); `-F path` or `-F obj` with `-A` is refused;
  an architecture that is not known is printed as b32; a watch that is not of the exit
  filter, or that names a directory by `path` or a file by `dir`, is printed as `-w`,
  which reads back as the usual watch.
* `stuck` in RulesMonitor: an augenrules that failed is not run again and its
  error is cleared (AuditRulesMonitor.cpp:84-101). A netlink failure ends the monitor's thread.
* JudgedRight leaves out an output whose filters a reload removed, and, at the
  source, outputs FiltersEngine does not count: those without filters or loaded
  again (FiltersEngine.cpp:70, 117) miss events that every other output filters
  (RawEventProcessor.cpp:729). Before all outputs are loaded, the filters of the
  first are common to all. A "!name" is stored with its '!' and never found
  (FiltersEngine.cpp:60); the instances have none.
* `torn` in Services: a process that dies in Lock between ftruncate and pwrite
  has taken the mark of the previous one with it (LockFile.cpp:74-78).
* `unlinked` in Services: flag_reset removes a lock file that a process still
  holds, or a process starts between its unlink and its write
  (auomsctl.cpp:1295-1304). upgrade means to exclude that ("Make sure all processes
  have exited", 1322), but stop_service does not stop the service when it finds no
  process, as in the three seconds between a crash and the restart.

### Other observations made while modelling

* Queue.h:119 `_saved_size`: items dropped during a save are taken off before
  the save is added (Queue.cpp:526-532, 411), so it can count items never written.
* RawEvent: `_num_execve_records` is not reduced when records are dropped, so
  after the thirteenth EXECVE every other record of the event is dropped
  (RawEventAccumulator.cpp:54). A second EXECVE that does not fit an event
  filled by other records would erase from an empty vector (41-44); the kernel
  sends no records of that size in between.
* RawEventProcessor: the comparison that should sort PATH records compares
  field names, not values (337), and arrays of PATH fields shift when a record
  lacks one; `_syscall` keeps the value of an earlier event.
* Events: a value of 64 KiB or more keeps its size modulo 2^16, and one of
  exactly 2^16 reads as size 0 (Event.cpp:476-479); Validate compares field
  offsets without the record's own.
* RunBase::Stop sends its SIGQUIT without the lock, to a thread that another
  caller's Wait may have joined meanwhile (RunBase.cpp:99). A second Wait needs only
  `_stopped`, which is set before on_stop has run (57, 129). ProcessTree::on_stopping
  notifies without the mutex (ProcessTree.cpp:174), so that its thread may miss it.
* IOBase::Close reads and clears `_fd` in two steps (IO.cpp:41-44); an Input that
  ends while it is stopped closes its descriptor from two threads, and the second
  may close another file's. After InputBuffer::Close HandleData returns true
  at once, so main spins if Inputs ended by itself (InputBuffer.h:72).
* AckQueue::Add keeps the old entry of `_event_ids` when an id is there already
  (Output.cpp:52). Of three events of one id, as when late records of an event
  come in twice after its flush, the ack of the first removes the entry, the third
  event enters it again, and the ack of the second takes the third's cursor: it
  passes an event that was not acked. With two events of one id it does not.
* Netlink.h:43 promises a timeout; messages for other requests keep one alive
  (Netlink.cpp:291-297). A run that ends by itself leaves `_fd` open.
* Outputs.cpp:100-112 says an output with an invalid configuration is stopped; it
  runs on. An output with a bad `ack_timeout` is neither started nor retried.
* An entry of a reused pid keeps its `_exited` mark and is removed by Clean.
* auomsctl compares `argv[1]` with "all" where the option is `argv[2]` (1508-1520),
  so auditd is never started or stopped by start, stop and restart;
  is_auditd_plugin_enabled is false when only /etc/audit/plugins.d exists
  (357-367), so that upgrade and disable skip their work; a failed
  `service stop` is ignored because "the process will get killed anyway" (593-597),
  after which Restart=on-failure starts it again; state "enabled" returns 2 where the comment says 1.
* _revert_enabled enables auditing again instead of disabling it
  (auomscollect.cpp:232-240). After an exception in its input loop auoms exits
  with 0, so systemd does not restart it. A netlink error ends CollectionMonitor's
  thread and, by PR_SET_PDEATHSIG, its collector, and nothing starts them again.

## Fairness

* Queue: a thread inside Put runs on (`PutDrop`, `PutCommit`); an output thread
  calls Get again and again and its 100 ms timeout runs (`GetNow`, `GetWake`,
  `GetFail`). No put, interrupt, reset or close has to happen. `ReadOrGivenUp`
  needs nothing else.
* Inputs: each thread runs on when it is not waiting for its connection, a
  mutex or the condition variable, and so does each caller inside Stop or Wait; a
  second waiter is only counted on once the first has joined, which wakes it. No
  collector has to come, send, stay or go, no signal or question has to come,
  and the handler does not have to fail.
* Output: the three threads, `on_stopping` once Stop is called, the producer of
  events and the receiver are fair; the receiver of a connection that is
  still up takes what it is sent. Stop, disconnects, timeouts and drops do not
  have to happen.
* Netlink: the caller, the receiving thread and Close run on when they can.
  Strong fairness is asked of one step only, the flush that expires replies: the
  wait of one second for a message ends now and then, that is, the kernel does
  not keep the socket busy for ever. Answers do not have to come.
* RulesMonitor: its thread runs on; the 15 seconds between checks pass and
  each request ends in some way. The administrator does nothing of necessity.
* RawEvents with RawEventProcessor: what came is collected, what is old is
  flushed (the loops call Flush every 200 ms), and auoms processes its queue.
* Outputs: the thread of Outputs runs on and a reload asked for is noticed. No
  edit, fork, exec or notification has to happen.
* Services: each process runs on, as the kernel schedules it; the child's exit is
  noticed, a signal is delivered, the kernel notices a closed connection, the
  service manager restarts what it has for started, and a command that was begun
  is carried out. No process has to die, no command has to come, and auditd
  need not be installed.

Weak fairness is enough elsewhere: a step of a thread stays enabled until it is
taken, or its thread goes another way.

## Proofs

Each theorem holds for every value of the constants that satisfies the ASSUMEs of
the modules (types and shapes of the constants; TLC evaluates them in the runs) and
the hypotheses it names. Liveness is not part of any of them. A ghost condition
in a property (`astray`, `jumped`, ...) means what the section above says.

| Theorem | States | Hypotheses |
|---|---|---|
| QueueProofs `TypeCorrect`, `RingCorrect`, `DropsCorrect` | `[]TypeOK`, `[]RingInv`, `DropsOnlyWhenFull` | `RoomForThree` |
| ReaderProofs `GetsCorrect` | `GetsNextItem` | `RoomForThree`, `StartAtAnEnd` |
| ReaderProofs `LogImplemented` | `ImplementsLog`: Queue refines EventLog | the same |
| QueueSaveProofs `LoadsCorrect`, `SavedCorrect`, `CloseCorrect` | `[]FileLoads`, `[]SavedStays`, `[]CloseKeepsAll` of `SpecSave` | `RoomForThree` |
| OutputProofs `NothingSkipped`, `OnlyForward` | `[]NoneSkipped`, `CursorForward` | `IdsDiffer`, `InTime` |
| InputsProofs `HandledInTurn`, `StatusAgrees` | `InTurn`, `[]StatusTrue` | none |
| NetlinkProofs `CallerReachable`, `RepliesOwn`, `StatusHad` | `[]Reachable`, `[]OwnAnswer`, `[]GetsStatus` | `NoWrap` |
| RulesMonitorProofs `ChecksCover`, `ChecksRest`, `BootCovers` | `[]CheckCovers`, `NoChurn`, `BootCovered` | none (`AllSound` is part of the properties) |
| RulesMonitorProofs `AdminLinesStay`, `DisablingCleans` | `AdminLinesKept`, `DisableCleans` | none |
| ServicesProofs `FilesTrusted`, `StopComplete` | `QueueTrusted`, `[]StopLeavesNone` | none |

### The ring (QueueProofs)

`RoomForThree` says that three blocks of the largest item and two headers fit
the buffer. It is needed: in a smaller buffer the loop of `allocate_locked` can
give up every item and leave `_tail` on a WRAP block. The code does not demand
it: `MIN_QUEUE_SIZE` is 256 KiB and `MAX_ITEM_SIZE` as much, while events
reach 112 KiB of record text (`RawEvent::MAX_EVENT_SIZE`), so a `queue_size` between
256 KiB and about 345 KiB admits such puts. The default of 10 MiB is far from it.

The inductive invariant is `IInv == TypeOK /\ RingInv`. RingInv has four named
parts and none is inductive alone. `ItemsIntact` (every kept item is whole) is what matters to users, but a
Put keeps it only because the blocks lie where `Placed` says: in the order of
their ids from `_tail` on, those that wrapped below `_tail`, with room for a
header after the last. `Placed` is kept by the drop of an item only because
`Chained` makes the block after `_tail` the next item. `ItemsUnique` (a header
with the id of a kept item is that item) is what a cursor check relies on.
The proof of each step follows the actions: `OtherSteps` for those that leave
the ring alone, `ResetStep`, `DropStep` with `LoopLeavesOne` (the loop ends
before the last item goes, the place where RoomForThree is used), and `CommitStep`
with `CommitPlace` (where the new block lies), `CommitCells` (which cells change)
and `CommitSpares` (no kept item is among them). `NextStep` and `Inductive`
put them together.

### The readers (ReaderProofs)

`StartAtAnEnd` says that a consumer's first cursor is one of the ends of the
queue, which is what Output passes before it has a cursor of its own; a cursor
that a reader was handed afterwards is covered, one read from a file of another
session is not.

`ReadersOK` is added to `IInv`. Its difficult part is `WaiterOK`: a Get that
waits has kept an index into the buffer while the lock is free. `LeadsTo` says
that the index still leads to the item it waited for, possibly over a WRAP block,
and that the next Put writes over neither; `Travel` bounds how far `_head` has come
since, in blocks of the largest size, so that once it runs over the index (`lapped`)
more than `LapRoom` cells have been put. `CommitWaiter` is the step that keeps it.
`GetsCorrect` follows by `NowGets` and `WakeGets`. For `LogImplemented` the same
bound makes a reader that the ring overtook one that EventLog may give up: its
`Slack` is the number of largest blocks that fit `LapRoom` (`Exceeds`). The
refinement maps a block to the id of its item and a waiting Get to a promise
(`LogAt`, `LogAwaits`); every step of Queue is a step of EventLog or a stutter
(`LogStep`).

### The file (QueueSaveProofs)

Cells are measured by `Dist`, how far they lie behind `Start`, where the saved part
of the ring begins: `_tail`, or the `_tail` of before for as long as a Put runs
and `_saved_size` does not know yet what it gives up (`Gap`). In these
terms the wrap of the ring disappears from the argument (`DistVia`).

`FileInv` is `IInv` and, until a Put or a Reset reaches what a save is still
writing (`overrun`), `Sound`: the planned cells follow the saved part and are in the
ring (`Plan`); saved and written cells are in the file as they are in the buffer
(`InDisk`); both parts end where an item ends (`Boundary`), which survives a Put
only because Put gives up whole items; the headers name the saved part (`Names`);
the save in progress is the newest as long as the next id has not changed (`Newest`),
which makes the last one complete after Close (`LastSave`). `Loadable` is the heart.
The file has a chain of items now (`Loads`), and it will have one when the save
is over, whatever is put until then (`Final`, the file with the planned cells as
they are in the buffer). While the cells are written the first header is in force,
which names none of them, so each write leaves the chain alone (`ChainStays`); when
the second header comes, the file is `Final`. `RingChain` makes the chains when a
save begins, `DropKeeps` and `CommitKeeps` carry `Sound` over a Put: the cells it
writes lie behind `_head`, where neither the saved nor the planned part is.
`WalkFacts` shows that the walk of `FileLoads`, a recursive function, is defined, and
`ChainLoads` that it follows the chain.

### Delivery (OutputProofs)

`IdsDiffer` says that no event id comes twice in a log: the kernel numbers its
events. It is stronger than what the run checks (there an id comes twice, also
with both events in flight, and the property holds) but cannot simply be dropped, see the AckQueue
under the observations above. `InTime` says that the queue does not run round
while the output sleeps in Get; without it Get may return what is there now and
"the next event" means nothing. The output thread sleeps 100 ms at most.

The invariant is `Inv == Steady /\ (jumped \/ Kept)`. `Kept` is the idea: every
event up to the cursor, up to the auto cursor, up to any cursor in the AckQueue
and up to where the thread stands is settled or still has its own entry in
the AckQueue (`Tracked`). An ack then takes the cursors up to its own; that all of
these are settled needs `InOrder` (what an ack on the way stands for is after all that
the receiver took before it, and what is unsettled is still on the wire) and
`Ordered` (the entries are in the order of the events, `_event_ids` and `_cursors`
agree). `Places`, `Unowed`, `Reached` and `Forward` say where the two threads may
be and bound the cursors. `ReadAckInv`, with `AckFacts` for `AckQueue::Ack`, is the
step the rest is built for. After a `jumped` only `Steady` is left, and it is enough
for `CursorForward`.

### Intake (InputsProofs)

`Inv == TypeOK /\ Fresh /\ (overlap \/ Turns) /\ (orphan \/ Listed)`. `Turns` says
what each place in `Input::run` implies for the shared buffer and the counts of
its connection, and that an unread event in it is whole, unhandled and
belongs to an Input that waits for it or has left. `Listed` says that the table holds
exactly the Inputs whose thread runs, each under its own descriptor. Stop and Wait
by several callers change only flags (`Goes`, `WaitGoes` and the lemmas after it), so
the invariant is insensitive to who stops whom.

### Requests (NetlinkProofs)

`NoWrap` says that the requests and their retries do not use up the sequence numbers
(2^32 in the code; a run of the monitor uses a few hundred per check). With fewer,
`_known_seq` and the search for a free number keep them apart only for ten seconds.

`Inv` is `torn \/ Sound`: once the two users of `_data` met, nothing is known. `Sound`
has the numbers (`Counted`: each request and repetition used a number of its
own), whose turn it is (`Turns`: only the last request can be pending), what is in
`_replies` (`Entered`), what run holds and the kernel still has to say (`Received`:
every message on its way to the pending request is one of its answers),
the end of run (`Ended`) and the value of an AuditGet (`Known`). Each action has a
lemma; the delicate ones are `LookedUp`, `Called`, `Completed` and `Flushed`.

### Sessions (ServicesProofs)

`LockInv` relates what three parties write. `Marked` and `UsesPresent` say which
mark the lock file of a program carries while its files are in use, `OneHolder` and
`OpensOwn` that flock on one inode lets one process in, and `FilesKnown` that
without one of the two windows (`torn`, `unlinked`) files in use are marked by whoever
uses them or by the dead, and that a session between Lock and open that does not
reset has found them closed. None follows without the others: `TakeLock` reads the mark another
process left, and that process may have died at any of its steps. For the
processes beside the session (death, signals, the monitor, the reaped child,
auomsctl) the proof shows only that each process moves to a state the invariant
does not tell apart (the `...Evolve` lemmas), once, and uses it for every part.
`StopUnderWay` says how far a stop has come: auoms found, no start wanted, first
auoms gone, then the collectors.

### The rules (RulesMonitorProofs)

The theorems rest on the modules' assumptions only: `Data` is finite (a mask of
system calls and a set of keys are), the words the code itself uses are words,
and the administrator leaves auoms's markers and key alone (`OthersLines`). That
last one is needed: RemoveSection takes the first marker of each kind, so one of
the administrator's own would have it cut other lines.

Most of the module is about what the operators of AuditRule return, for lists
of any length. The code walks lists; induction over them is avoided by
positions. Every recursive function is defined on 0..n (`Recursion`, `Climb`), `KeepAt` and
`Those` say which positions a selection keeps and that their order stays, and what
a fold has reached at n is an invariant of n, not of the data. On that rest:

* Merge and diff. `KeySays`: sound rules with equal merge keys differ in keys, permissions
  and system calls only. So a set of rules selects what one rule does if those of
  its key together have its `Part` (its permissions, or its system calls): this is
  `Has`, for a list `HasAll`, and `HasAllCovers` turns it into `Covered`. `MergedSays` and
  `DiffSays` state MergeRules and DiffRules in these terms: what is merged has all of
  what went in, and the kernel with the difference added has all that is desired.
* Text. `CanonicalTextIs` and `OptionsPrinted`: a rule is printed in options none of
  which is a marker; `ParseRulesIs` says which rules a list of lines has. That printing
  and parsing are inverse for sound rules is not proved, `TextParses` evaluates it.
* Files. `Around(lines, P, Q)` says that a file is P, the section, Q. A file is
  `Tidy` if it has a section of this form or none; writing, replacing and removing
  the section keep P and Q (`Leaves`). `ReadIsLoaded`: the rules that the check of the
  files reads are those that a boot loads.

The inductive invariant is
`IInv == Types /\ Section /\ Current /\ Steady /\ Keeps /\ Check`. `Section` is what
AdminLinesKept needs: without it the first and the last marker need not belong together. `Current`
says that a generated audit.rules is what augenrules made of the files, unless it failed
(`stuck`); BootCovered follows from it. `Steady`: the desired rules are read once, so
that a check compares with one and the same list from its beginning to its end.
`Keeps` follows what the administrator's rules selected when the check began
(`before`): a rule that a check deletes is auoms's own, or a desired rule of the
same key selects all that it did (`DeletedIs`). `Check` is the check in progress, place by
place: what is to be deleted passed `DeleteIt`; the kernel with what is still to be added
has all that is desired, so that it has it when the list is used up, which
together with `Keeps` is CheckCovers; and the next DiffRules then returns nothing,
which is NoChurn. Each action has its lemma
(`ListRulesKeeps`, `AddRuleKeeps`, ...); an administrator's act or a fault ends the calm, which
leaves little to show (`Uncalm`), and the steps that change files or the
kernel alone share `OnlyFiles` and `OnlyKernel`.

NoChurn does not say that a check acts only if something desired is not selected yet.
That is not so: the order of the fields is part of the merge key, so a desired rule
is added beside one of the administrator's that selects the same, once.

### Model-checked only

* Liveness properties, and anything else that needs fairness: out of the
  prover's reach.
* The events (`Accounted`, `ReadBack`, `CmdlineFaithful`, `BuilderAgrees`), the
  filters and the process tree (`TreeRight`, `JudgedRight`). What the layouts of EventBuilder
  and the arrangements of RawEvents compute for all inputs is induction over data with
  a hypothesis of its own at every turn, which the installed provers do not do; TLC
  evaluates them on the instances above. No module declares a RECURSIVE operator.
* Of the rules, `StaysLoaded` (liveness).
* `NoneSkipped` for logs in which an id comes twice, and for an output that the
  queue overtakes.

TLC checked each inductive invariant on its run's instance before it was proved (that
of the file with the one chain that the cells allow in place of the quantifier of `Loads`).

## What is left

In the order of use:

1. The parts of `Accounted` that do not depend on a fold, and `TreeRight`.
2. Output: Load with a changed ack mode (Output.cpp:351), outputs without ack
   mode.
3. ProcessTree's start: the inventory of /proc beside notifications that arrive.

The hazards of PROJECT.json that no property covers name these.

## Not modelled

* Formats and text: the writers of events, escapes, the translation tables
  (system calls, errno, record types), InterpretField by field type, the
  configuration files' syntax, the printed output of auomsctl. They are
  functions of strings; no property here tells their results apart.
* Metrics and the cache of users: no decision of the modelled parts depends on
  them.
* auomsctl's commands that only show or tap (status, show, is-enabled, monitor)
  and its checks of the caller.
* Options and configuration errors at the start of both programs, which end
  them before they take a lock.
* Errors of file operations in Queue and CursorWriter; a fork or exec of the
  collector that fails is a collector that dies at once.
* The restart limit of CollectionMonitor: a round takes ten seconds, so the
  starts that it allows in its window are never reached.
* Memory ordering and the undefined behaviour of data races (GetInfoForPid reads
  the map of processes without the lock, FiltersEngine has no mutex) beyond the
  steps named above.
