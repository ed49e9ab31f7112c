------------------------------- MODULE RawEvents -------------------------------
(***************************************************************************)
(* auomscollect from the text of a record to the event in its queue:        *)
(* RawEventRecord, RawEvent, RawEventAccumulator with its Cache, and the    *)
(* loops that feed it.  A record is a sequence of words; its size is their  *)
(* number.  Records of several events come interleaved, some get lost, and  *)
(* Flush may find any number of the oldest events old enough.               *)
(***************************************************************************)
EXTENDS EventBuilder

CONSTANTS
    MAX_EVENT_SIZE, MAX_EXECVE_ACCUM_SIZE, MAX_NUM_EXECVE_RECORDS,
    NUM_EXECVE_RH_PRESERVE, MAX_CACHE_ENTRY,
    Streams,   \* what the kernel may send: for each event its records in order
    SingleRecordTypes, \* IsSingleRecordEvent
    MaxQueued, \* bound: events in the queue before another record comes
    MaxOdd     \* bound: records lost before they get here, early flushes, restarts

Word(key, value) == [key |-> key, value |-> value]

-----------------------------------------------------------------------------
(* RawEventRecord *)

NoRecord == [ok |-> FALSE]

\* [node=] [type=] [msg=]audit(id): fields.  The type is known from netlink,
\* or named in the text.
Parse(type, line) ==
    LET key(i) == IF i \in DOMAIN line THEN line[i].key ELSE <<>>
        n == IF key(1) = <<"node">> THEN 1 ELSE 0
        t == IF key(n + 1) = <<"type">> THEN 1 ELSE 0
        fields == SubSeq(line, n + t + 2, Len(line))
        named == IF t = 0 THEN <<"UNKNOWN">> ELSE line[n + 1].value
        found == IF type = <<"UNKNOWN">> THEN named ELSE type
    IN  IF key(n + t + 1) # <<"audit">> THEN NoRecord
        ELSE [ok |-> TRUE, text |-> line, size |-> Len(line), id |-> line[n + t + 1].value[1],
              node |-> IF n = 0 THEN <<>> ELSE line[1].value,
              type |-> found,
              fields |-> IF found = <<"INTEGRITY_POLICY_RULE">>
                         THEN <<Word(<<"unparsed_text">>, fields)>> ELSE fields]

Field(name, raw, interp) == [name |-> name, raw |-> raw, interp |-> interp]

AddRawRecord(b, rec) ==
    LET node == IF rec.node = <<>> THEN <<>> ELSE <<Field(<<"node">>, rec.node, <<>>)>>
        rest == [i \in DOMAIN rec.fields |-> Field(rec.fields[i].key, rec.fields[i].value, <<>>)]
    IN  AddRecord(b, rec.type, rec.text, Len(rec.fields) + Len(node), node \o rest)
-----------------------------------------------------------------------------
(* RawEvent *)

NewEvent(id) == [id |-> id, records |-> <<>>, execve |-> <<>>, drops |-> <<>>,
                 num |-> 0, syscall |-> 0, size |-> 0, esize |-> 0]

Drop(drops, type) ==
    [t \in DOMAIN drops \cup {type} |-> (IF t \in DOMAIN drops THEN drops[t] ELSE 0)
                                        + (IF t = type THEN 1 ELSE 0)]

\* The place of the EXECVE record that makes room: the first after those at
\* the left, or before the last NUM_EXECVE_RH_PRESERVE.
DropIndex(execve) ==
    IF Len(execve) > NUM_EXECVE_RH_PRESERVE THEN Len(execve) - NUM_EXECVE_RH_PRESERVE ELSE 1

\* Mutant: the last record is given up.
DropExecve_Last(ev) ==
    [ev EXCEPT !.drops = Drop(@, <<"EXECVE">>), !.execve = Front(@),
               !.size = @ - Last(ev.execve).size, !.esize = @ - Last(ev.execve).size]

\* The kernel sends nothing large between the first EXECVE and the others, so
\* there is one to drop.
DropExecve(ev) ==
    LET i == DropIndex(ev.execve)
    IN  [ev EXCEPT !.drops = Drop(@, <<"EXECVE">>), !.execve = RemoveAt(@, i),
                   !.size = @ - ev.execve[i].size, !.esize = @ - ev.execve[i].size]

AddExecve(ev, rec) ==
    LET full == \/ rec.size + ev.size > MAX_EVENT_SIZE
                \/ rec.size + ev.esize > MAX_EXECVE_ACCUM_SIZE
                \/ ev.num + 1 > MAX_NUM_EXECVE_RECORDS
        room == IF ev.num > 0 /\ full THEN DropExecve(ev) ELSE ev
        counted == [room EXCEPT !.num = @ + 1, !.size = @ + rec.size, !.esize = @ + rec.size]
    IN  IF ev.num = 0 THEN [counted EXCEPT !.records = Append(@, rec)]
        ELSE [counted EXCEPT !.execve = Append(@, rec)]

\* num is never reduced: after too many EXECVE records nothing is kept.
AddOther(ev, rec) ==
    IF rec.size + ev.size > MAX_EVENT_SIZE \/ ev.num > MAX_NUM_EXECVE_RECORDS
    THEN [ev EXCEPT !.drops = Drop(@, rec.type)]
    ELSE [ev EXCEPT !.size = @ + rec.size, !.records = Append(@, rec),
                    !.syscall = IF rec.type = <<"SYSCALL">> /\ @ = 0 THEN Len(ev.records) + 1 ELSE @]

Completes(rec) == rec.type = <<"EOE">> \/ rec.type \in SingleRecordTypes

AddToEvent(ev, rec) ==
    CASE rec.type = <<"EOE">> -> ev
      [] rec.type = <<"EXECVE">> -> AddExecve(ev, rec)
      [] OTHER -> AddOther(ev, rec)

\* SYSCALL first, the other EXECVE records behind the first.
InOrder(ev) ==
    LET rest == SelectSeq([i \in DOMAIN ev.records |-> i], LAMBDA i : i # ev.syscall)
        with(i) == IF ev.records[i].type = <<"EXECVE">> THEN <<ev.records[i]>> \o ev.execve
                   ELSE <<ev.records[i]>>
    IN  (IF ev.syscall = 0 THEN <<>> ELSE <<ev.records[ev.syscall]>>)
            \o FlattenSeq([k \in DOMAIN rest |-> with(rest[k])])

\* One field for each type of which records were dropped, in any order.
DroppedFields(ev) ==
    LET types == SetToSeq(DOMAIN ev.drops)
    IN  [i \in DOMAIN types |-> Field(types[i], <<ev.drops[types[i]]>>, <<>>)]

\* Mutant: the record of the drops is not announced.
AddEvent_NoDrops(b, ev) ==
    LET begun == BeginEvent(b, ev.id, Len(ev.records) + Len(ev.execve))
        drops(filled) == IF ev.drops = <<>> THEN filled
                         ELSE AddRecord(filled, <<"AUOMS_DROPPED_RECORDS">>, <<>>,
                                        Cardinality(DOMAIN ev.drops), DroppedFields(ev))
    IN  Once(Once(Fold(AddRawRecord, begun, InOrder(ev)), drops), EndEvent)

AddEvent(b, ev) ==
    LET begun == BeginEvent(b, ev.id, Len(ev.records) + Len(ev.execve)
                                        + (IF ev.drops = <<>> THEN 0 ELSE 1))
        drops(filled) == IF ev.drops = <<>> THEN filled
                         ELSE AddRecord(filled, <<"AUOMS_DROPPED_RECORDS">>, <<>>,
                                        Cardinality(DOMAIN ev.drops), DroppedFields(ev))
    IN  Once(Once(Fold(AddRawRecord, begun, InOrder(ev)), drops), EndEvent)
-----------------------------------------------------------------------------
(* RawEventAccumulator *)

\* The records an event stands for.
Held(ev) == Len(ev.records) + Len(ev.execve) + FoldFunction(+, 0, ev.drops)

VARIABLES
    streams,   \* what the kernel will still send of each event
    odd,       \* lost records, early flushes and restarts so far
    cache,     \* _events, the one that was touched longest ago first
    builder,   \* the EventBuilder of the collector
    queue,     \* the events in the collector's queue, not yet processed
    came,      \* ghost: the records of each event that were accepted
    left       \* ghost: for each event what AddEvent was called with

cvars == <<streams, odd, cache, builder, queue, came, left>>

Ids == DOMAIN streams

InitRawEvents ==
    /\ streams \in Streams
    /\ odd = 0 /\ cache = <<>> /\ builder = NoBuilder /\ queue = <<>>
    /\ came = [id \in Ids |-> <<>>] /\ left = [id \in Ids |-> <<>>]

\* The events of evs are built and put in the queue, in this order; one
\* without records is not.
Build(evs) ==
    LET some == SelectSeq(evs, LAMBDA ev : ev.records # <<>> \/ ev.drops # <<>>)
    IN  \E built \in {Each(some, LAMBDA ev : AddEvent(builder, ev))} :
            /\ builder' = [NoBuilder EXCEPT !.threw = \E i \in DOMAIN built : built[i].threw]
            /\ queue' = queue \o Each(built, LAMBDA b : b.data)
            /\ left' = [id \in Ids |-> left[id] \o SelectSeq(evs, LAMBDA ev : ev.id = id)]

\* Cache::on with TOUCH: the event becomes the newest.
Touch(i, ev) == Append(RemoveAt(cache, i), ev)

AddRecordToCache(rec) ==
    \E found \in {SelectInSeq(cache, LAMBDA ev : ev.id = rec.id)} :
    \E ev \in {AddToEvent(IF found = 0 THEN NewEvent(rec.id) ELSE cache[found], rec)} :
    \E kept \in {IF found = 0 THEN (IF Completes(rec) THEN cache ELSE Append(cache, ev))
                 ELSE IF Completes(rec) THEN RemoveAt(cache, found) ELSE Touch(found, ev)} :
        LET over == IF Len(kept) > MAX_CACHE_ENTRY THEN Len(kept) - MAX_CACHE_ENTRY ELSE 0
        IN  /\ cache' = SubSeq(kept, over + 1, Len(kept))
            /\ Build((IF Completes(rec) THEN <<ev>> ELSE <<>>) \o SubSeq(kept, 1, over))

\* A line or a message, parsed and added; a record without fields is left out.
Collect ==
    /\ ~builder.threw /\ Len(queue) < MaxQueued
    /\ \E id \in Ids :
          /\ streams[id] # <<>>
          /\ streams' = [streams EXCEPT ![id] = Tail(@)]
          /\ \E rec \in {Parse(Head(streams[id]).type, Head(streams[id]).line)} :
                IF ~rec.ok \/ (rec.fields = <<>> /\ rec.type # <<"EOE">>)
                THEN UNCHANGED <<cache, builder, queue, came, left>>
                ELSE /\ AddRecordToCache(rec)
                     /\ came' = IF rec.type = <<"EOE">> THEN came
                                ELSE [came EXCEPT ![rec.id] = Append(@, rec)]
    /\ UNCHANGED odd

\* Netlink and auditd drop records when their buffers are full.
Lose ==
    /\ odd < MaxOdd
    /\ \E id \in Ids : streams[id] # <<>> /\ streams' = [streams EXCEPT ![id] = Tail(@)]
    /\ odd' = odd + 1
    /\ UNCHANGED <<cache, builder, queue, came, left>>

\* Mutant: events leave only when the cache is over its limit.
Flush_Full ==
    /\ ~builder.threw /\ Len(cache) > MAX_CACHE_ENTRY
    /\ Build(<<Head(cache)>>)
    /\ cache' = Tail(cache)
    /\ UNCHANGED <<streams, odd, came>>

\* Flush(200): the oldest are built until one is not old enough.  They are
\* early when the kernel has more of them.
Flush ==
    /\ ~builder.threw /\ Len(queue) < MaxQueued
    /\ \E n \in DOMAIN cache :
          /\ odd' = odd + Cardinality({i \in 1..n : streams[cache[i].id] # <<>>})
          /\ odd' <= MaxOdd
          /\ Build(SubSeq(cache, 1, n))
          /\ cache' = SubSeq(cache, n + 1, Len(cache))
    /\ UNCHANGED <<streams, came>>

\* End of stdin, a signal, another collector: Flush(0), and a collector is
\* started again.
Exit ==
    /\ odd < MaxOdd /\ odd' = odd + 1
    /\ ~builder.threw /\ Len(queue) < MaxQueued
    /\ cache # <<>> /\ cache' = <<>> /\ Build(cache)
    /\ UNCHANGED <<streams, came>>

\* What is in the cache of a collector that dies is lost.
Die ==
    /\ odd < MaxOdd /\ odd' = odd + 1
    /\ cache # <<>> /\ cache' = <<>> /\ builder' = NoBuilder
    /\ came' = [id \in Ids |-> SubSeq(came[id], 1, Len(came[id]) - Fold(LAMBDA n, ev :
                                    IF ev.id = id THEN n + Held(ev) ELSE n, 0, cache))]
    /\ UNCHANGED <<streams, queue, left>>

NextRawEvents == Collect \/ Lose \/ Flush \/ Exit \/ Die

\* The loops go on: what came gets old and is flushed.
CollectorFairness == WF_cvars(Collect) /\ WF_cvars(Flush)
-----------------------------------------------------------------------------
SumOf(recs) == Fold(LAMBDA n, rec : n + rec.size, 0, recs)

Execves(ev) == SelectSeq(ev.records, LAMBDA rec : rec.type = <<"EXECVE">>) \o ev.execve

\* An event's sizes are those of the records it still has.
SizesFollow(ev) ==
    /\ ev.size = SumOf(ev.records) + SumOf(ev.execve)
    /\ ev.esize = SumOf(Execves(ev))
    /\ ev.syscall # 0 => ev.records[ev.syscall].type = <<"SYSCALL">>

\* Every record that came is in exactly one event, built or in the cache, or
\* counted there as dropped; the events of one id split its records in their
\* order, and of the EXECVE records the first and the last ones are kept.  The
\* sizes follow, so that what was dropped does not count against the limits
\* (RawEventAccumulator.cpp:29-66).
Accounted ==
    \A id \in Ids :
        LET evs == left[id] \o SelectSeq(cache, LAMBDA ev : ev.id = id)
            upto[n \in 0..Len(evs)] ==
                IF n = 0 THEN 0
                ELSE upto[n - 1] + Held(evs[n])
        IN  /\ upto[Len(evs)] = Len(came[id])
            /\ \A n \in DOMAIN evs : SizesFollow(evs[n]) /\
                  LET mine == SubSeq(came[id], upto[n - 1] + 1, upto[n])
                      execve == SelectSeq(mine, LAMBDA rec : rec.type = <<"EXECVE">>)
                      all == evs[n].records \o evs[n].execve
                      last == IF Len(evs[n].execve) > NUM_EXECVE_RH_PRESERVE
                              THEN NUM_EXECVE_RH_PRESERVE + 1 ELSE Len(evs[n].execve)
                  IN  /\ IsInjective(all) /\ ToSet(all) \subseteq ToSet(mine)
                      /\ execve # <<>> =>
                            /\ execve[1] \in ToSet(evs[n].records)
                            /\ IsSuffix(SubSeq(execve, Len(execve) - last + 1, Len(execve)), evs[n].execve)
=============================================================================
