--------------------------- MODULE RawEventProcessor ---------------------------
(***************************************************************************)
(* auoms from the raw event to the event its outputs get:                  *)
(* RawEventProcessor and ExecveConverter, behind RawEvents.  The queues,    *)
(* connections and the process tree between and beside them are modelled    *)
(* elsewhere: here an event of the collector's queue is processed next, the *)
(* filters may hit any event, and container ids are all the same.           *)
(***************************************************************************)
EXTENDS RawEvents

CONSTANT Interpreted  \* the fields that InterpretField has a text for

VARIABLES
    done,     \* the event processed last: what was read and what was built
    running   \* the input loop has not ended

pvars == <<done, running>>
evars == <<cvars, pvars>>

Named(fields, name) == SelectSeq(fields, LAMBDA f : f.name = name)
Has(rec, name) == Named(rec.fields, name) # <<>>
OfType(recs, type) == SelectSeq(recs, LAMBDA rec : rec.type = type)
Sum(f(_), seq) == Fold(LAMBDA n, x : n + f(x), 0, seq)
-----------------------------------------------------------------------------
(* ExecveConverter: the names of fields are <<"a", n>>, <<"a", n, "_len">> with *)
(* a number as value, and <<"a", n, "[", i>>.  The command line is a sequence   *)
(* of pieces; blanks between arguments are left out.                            *)

ArgNum(f) == IF f.name[1] = "a" /\ Len(f.name) > 1 THEN f.name[2] ELSE 0

Piece(f) == <<"piece", f.raw>>
Missing == <<"missing">>
Gap(first, last) == <<"gap", first, last>>

NoArgs == [out |-> <<>>, num |-> 0, len |-> 0, accum |-> 0, idx |-> 0, tmp |-> <<>>]

\* The argument in parts ends before its parts are all there.
FillArg(c, n) ==
    IF ~(c.num < n /\ c.len > 0) THEN c
    ELSE [c EXCEPT !.out = IF c.accum = 0 THEN @
                           ELSE @ \o c.tmp \o (IF c.len > c.accum THEN <<Missing>> ELSE <<>>),
                   !.num = IF c.accum = 0 THEN @ ELSE @ + 1,
                   !.len = 0, !.accum = 0, !.idx = 0]

\* Mutant: the place holder ends one too late.
FillGap_TooFar(c, n) ==
    IF c.num < n THEN [c EXCEPT !.out = Append(@, Gap(c.num, n)), !.num = n] ELSE c

FillGap(c, n) ==
    IF c.num < n THEN [c EXCEPT !.out = Append(@, Gap(c.num, n - 1)), !.num = n] ELSE c

WholeArg(c, f) ==
    [c EXCEPT !.out = @ \o (IF c.len > 0 THEN Append(c.tmp, Missing) ELSE <<>>) \o <<Piece(f)>>,
              !.len = 0, !.idx = IF c.len > 0 THEN 0 ELSE @, !.num = @ + 1]

ArgLen(c, f) == [c EXCEPT !.len = f.raw[1], !.accum = 0, !.idx = 0, !.tmp = <<>>]

ArgPart(c, f) ==
    LET i == f.name[4]
        gap == c.idx < i
        out == c.out \o (IF gap THEN Append(c.tmp, Missing) ELSE <<>>)
        tmp == Append(IF gap THEN <<>> ELSE c.tmp, Piece(f))
        accum == c.accum + Len(f.raw)
    IN  IF c.len = 0 THEN c
        ELSE IF c.len <= accum
        THEN [c EXCEPT !.out = out \o tmp, !.tmp = tmp, !.len = 0, !.accum = 0, !.idx = 0, !.num = @ + 1]
        ELSE [c EXCEPT !.out = out, !.tmp = tmp, !.accum = accum, !.idx = (IF gap THEN i ELSE @) + 1]

ConvertField(c, f) ==
    LET filled == FillGap(FillArg(c, ArgNum(f)), ArgNum(f))
    IN  CASE f.name[1] # "a" \/ Len(f.name) = 1 -> c
          [] Len(f.name) = 2 -> WholeArg(filled, f)
          [] Len(f.name) = 3 -> ArgLen(filled, f)
          [] OTHER -> ArgPart(filled, f)

\* std::sort keeps the order of equal records, which are at most thirteen.
Convert(recs) ==
    LET last == Fold(LAMBDA n, rec : IF ArgNum(rec.fields[1]) > n THEN ArgNum(rec.fields[1]) ELSE n, 0, recs)
        sorted == FlattenSeq([n \in 1..(last + 1) |->
                                 SelectSeq(recs, LAMBDA rec : ArgNum(rec.fields[1]) = n - 1)])
        c == Fold(ConvertField, NoArgs, FlattenSeq([i \in DOMAIN sorted |-> sorted[i].fields]))
    IN  IF c.len = 0 THEN c.out
        ELSE c.out \o c.tmp \o (IF c.len > c.accum THEN <<Missing>> ELSE <<>>)
-----------------------------------------------------------------------------
(* RawEventProcessor.  First the fields are counted, then added. *)

First(recs) == Prefix(recs, 1)

\* The first record of a type that has a field of a name, and the field.
FirstWith(recs, type, name) ==
    First(SelectSeq(OfType(recs, type), LAMBDA rec : Has(rec, name)))

Types == {<<"SYSCALL">>, <<"EXECVE">>, <<"CWD">>, <<"PATH">>, <<"SOCKADDR">>, <<"INTEGRITY_RULE">>}

Others(recs) ==
    SelectSeq(recs, LAMBDA rec : rec.type \notin Types \cup {<<"PROCTITLE">>, <<"AUOMS_DROPPED_RECORDS">>})

\* argc is looked for among the first four fields of the first EXECVE.
Argc(recs) ==
    LET execve == First(OfType(recs, <<"EXECVE">>))
    IN  IF execve = <<>> THEN <<>>
        ELSE First(Named(Prefix(execve[1].fields, 4), <<"argc">>))

ItemZero(recs) ==
    First(SelectSeq(OfType(recs, <<"PATH">>),
                    LAMBDA rec : \E i \in DOMAIN rec.fields :
                        rec.fields[i].name = <<"item">> /\ rec.fields[i].raw = <<0>>))

NumSyscallFields(rec) ==
    Len(SelectSeq(rec.fields, LAMBDA f : f.name \notin {<<"type">>, <<"items">>}))

NumPathFields(rec) == Len(rec.fields) - 1 - Len(Named(rec.fields, <<"node">>))

NumHashes(rec) == Len(Named(rec.fields, <<"hash">>))

\* Mutant: proctitle is counted beside EXECVE.
NumFields_Proctitle(recs) ==
    Sum(NumSyscallFields, First(OfType(recs, <<"SYSCALL">>)))
    + (IF OfType(recs, <<"EXECVE">>) = <<>> THEN 0 ELSE 1 + Len(Argc(recs)))
    + Len(FirstWith(recs, <<"CWD">>, <<"cwd">>))
    + (IF OfType(recs, <<"PATH">>) = <<>> THEN 0 ELSE 5) + Sum(NumPathFields, ItemZero(recs))
    + Len(FirstWith(recs, <<"SOCKADDR">>, <<"saddr">>))
    + Sum(NumHashes, FirstWith(recs, <<"INTEGRITY_RULE">>, <<"hash">>))
    + Len(FirstWith(recs, <<"PROCTITLE">>, <<"proctitle">>))
    + Sum(LAMBDA rec : Len(rec.fields), Others(recs))

NumFields(recs) ==
    Sum(NumSyscallFields, First(OfType(recs, <<"SYSCALL">>)))
    + (IF OfType(recs, <<"EXECVE">>) = <<>> THEN 0 ELSE 1 + Len(Argc(recs)))
    + Len(FirstWith(recs, <<"CWD">>, <<"cwd">>))
    + (IF OfType(recs, <<"PATH">>) = <<>> THEN 0 ELSE 5) + Sum(NumPathFields, ItemZero(recs))
    + Len(FirstWith(recs, <<"SOCKADDR">>, <<"saddr">>))
    + Sum(NumHashes, FirstWith(recs, <<"INTEGRITY_RULE">>, <<"hash">>))
    + (IF OfType(recs, <<"EXECVE">>) # <<>> THEN 0
       ELSE Len(FirstWith(recs, <<"PROCTITLE">>, <<"proctitle">>)))
    + Sum(LAMBDA rec : Len(rec.fields), Others(recs))

\* process_field
Interpret(prefix, f) ==
    Field(prefix \o f.name, f.raw, IF f.name \in Interpreted THEN <<"interp">> \o f.raw ELSE <<>>)

Processed(prefix, fields) == Each(fields, LAMBDA f : Interpret(prefix, f))

AllFields(recs) == FlattenSeq(Each(recs, LAMBDA rec : rec.fields))

\* The values of one field of all PATH records; one that has none leaves no
\* place unless it is the first.
PathArray(recs, names) ==
    LET values(rec) == First(SelectSeq(rec.fields, LAMBDA f : f.name \in names))
        paths == OfType(recs, <<"PATH">>)
    IN  FlattenSeq([i \in DOMAIN paths |->
            IF values(paths[i]) # <<>> THEN values(paths[i])[1].raw ELSE IF i = 1 THEN <<"">> ELSE <<>>])

PathArrays(recs) ==
    IF OfType(recs, <<"PATH">>) = <<>> THEN <<>>
    ELSE <<Field(<<"path_name">>, PathArray(recs, {<<"name">>}), <<>>),
           Field(<<"path_nametype">>, PathArray(recs, {<<"nametype">>, <<"objtype">>}), <<>>),
           Field(<<"path_mode">>, PathArray(recs, {<<"mode">>}), <<>>),
           Field(<<"path_ouid">>, PathArray(recs, {<<"ouid">>}), <<>>),
           Field(<<"path_ogid">>, PathArray(recs, {<<"ogid">>}), <<>>)>>

FieldsOf(recs, type, name) == First(Named(AllFields(FirstWith(recs, type, name)), name))

\* Of several hashes the last is added.
Hash(recs) ==
    LET all == Named(AllFields(FirstWith(recs, <<"INTEGRITY_RULE">>, <<"hash">>)), <<"hash">>)
    IN  IF all = <<>> THEN <<>> ELSE <<Last(all)>>

Cmdline(recs) ==
    LET execve == OfType(recs, <<"EXECVE">>)
    IN  IF execve # <<>> THEN <<Field(<<"cmdline">>, Convert(execve), <<>>)>> ELSE <<>>

Proctitle(recs) ==
    IF OfType(recs, <<"EXECVE">>) # <<>> THEN <<>> ELSE FieldsOf(recs, <<"PROCTITLE">>, <<"proctitle">>)

Dropped(recs) ==
    LET all == AllFields(OfType(recs, <<"AUOMS_DROPPED_RECORDS">>))
    IN  Each(all, LAMBDA f : Field(<<"dropped">> \o f.name, f.raw, <<>>))

AddedFields(recs) ==
    LET others == Others(recs)
    IN  Processed(<<>>, SelectSeq(AllFields(First(OfType(recs, <<"SYSCALL">>))),
                                  LAMBDA f : f.name \notin {<<"type">>, <<"items">>}))
        \o Processed(<<>>, FieldsOf(recs, <<"CWD">>, <<"cwd">>))
        \o Processed(<<>>, SelectSeq(AllFields(ItemZero(recs)),
                                     LAMBDA f : f.name \notin {<<"item">>, <<"node">>}))
        \o PathArrays(recs) \o Processed(<<>>, Argc(recs)) \o Cmdline(recs)
        \o Processed(<<>>, FieldsOf(recs, <<"SOCKADDR">>, <<"saddr">>)) \o Processed(<<>>, Hash(recs))
        \o Proctitle(recs)
        \o FlattenSeq(Each(others, LAMBDA rec : Processed(rec.type, rec.fields)))
        \o Dropped(recs)
        \o <<Field(<<"containerid">>, <<"containerid">>, <<>>)>>

AuomsType(recs) ==
    LET call == First(Named(AllFields(First(OfType(recs, <<"SYSCALL">>))), <<"syscall">>))
    IN  IF OfType(recs, <<"SYSCALL">>) = <<>> THEN <<"AUOMS_SYSCALL_FRAGMENT">>
        ELSE IF call # <<>> /\ call[1].raw = <<"execve">> THEN <<"AUOMS_EXECVE">>
        ELSE <<"AUOMS_SYSCALL">>

\* One record with all that the records say; the count has one more for the
\* container.
SyscallEvent(id, recs) ==
    Once(AddRecord(BeginEvent(NoBuilder, id, 1), AuomsType(recs), <<>>,
                   NumFields(recs) + 1, AddedFields(recs)), EndEvent)

\* process_event: each record as it is.
PlainEvent(id, recs) ==
    Once(Fold(LAMBDA b, rec : AddRecord(b, rec.type, rec.text, Len(rec.fields),
                                        Processed(<<>>, rec.fields)),
              BeginEvent(NoBuilder, id, Len(recs)), recs), EndEvent)

IsSyscallEvent(recs) == recs[1].type \in Types /\ NumFields(recs) > 0

\* An exception of the builder ends the input loop.
Process ==
    /\ running /\ queue # <<>>
    /\ queue' = Tail(queue)
    /\ \E recs \in {Records(Head(queue))} :
       \E b \in {IF IsSyscallEvent(recs) THEN SyscallEvent(EventIdOf(Head(queue)), recs)
                ELSE PlainEvent(EventIdOf(Head(queue)), recs)} :
          IF ~Validate(Head(queue)) THEN UNCHANGED pvars
          ELSE /\ running' = ~b.threw
               /\ \/ ~b.threw /\ done' = <<[raw |-> recs, built |-> b.data]>>
                  \/ b.threw /\ done' = done
                  \/ IsSyscallEvent(recs) /\ done' = done
    /\ UNCHANGED <<streams, odd, cache, builder, came, left>>

InitEvents == InitRawEvents /\ done = <<>> /\ running = TRUE

NextEvents == (NextRawEvents /\ UNCHANGED pvars) \/ Process

SpecEvents ==
    InitEvents /\ [][NextEvents]_evars /\ CollectorFairness /\ WF_evars(Process)
-----------------------------------------------------------------------------
\* What is read of a field, when 16 bits leave enough of its size.
Cut(f) ==
    LET size == Cast16(Len(f.raw) + 1)
    IN  [f EXCEPT !.raw = IF size = 0 THEN Garbage ELSE Prefix(@, size - 1)]

Reads(data, type, text, fields) ==
    \E i \in DOMAIN Records(data) :
        LET rec == Records(data)[i]
        IN  rec.type = type /\ rec.text = text /\ rec.fields = [k \in DOMAIN fields |-> Cut(fields[k])]

\* Whoever reads an event finds what was put into it, the records in order and
\* each field in its place, unless a value is 64 KiB long: only its size
\* modulo 2^16 is kept (Event.cpp:479).  Validate accepts it.
ReadBack ==
    /\ \A i \in DOMAIN done :
          LET data == done[i].built
              recs == done[i].raw
          IN  /\ Validate(data) /\ Apart(data)
              /\ IF IsSyscallEvent(recs) THEN Reads(data, AuomsType(recs), <<>>, AddedFields(recs))
                 ELSE \A k \in DOMAIN recs :
                        Reads(data, recs[k].type, recs[k].text, Processed(<<>>, recs[k].fields))
    /\ \A i \in DOMAIN queue : Validate(queue[i]) /\ Apart(queue[i]) /\
          \E k \in DOMAIN left[EventIdOf(queue[i])] :
            LET recs == InOrder(left[EventIdOf(queue[i])][k])
            IN  /\ Len(Records(queue[i])) >= Len(recs)
                /\ \A n \in DOMAIN recs : Records(queue[i])[n].text = recs[n].text

TwoHashes(recs) == Sum(NumHashes, FirstWith(recs, <<"INTEGRITY_RULE">>, <<"hash">>)) > 1

\* The counts that are announced are those that are added, whatever records are
\* there, missing or doubled, so that the builder does not throw and the
\* collector and the input loop go on; there are two exceptions, an event with
\* dropped records (RawEventProcessor.cpp:324) and one with two hashes (299-309).
BuilderAgrees ==
    [][/\ ~builder'.threw
       /\ ~running \/ running' \/ LET recs == Records(Head(queue))
                      IN  OfType(recs, <<"AUOMS_DROPPED_RECORDS">>) # <<>> \/ TwoHashes(recs)]_evars

\* The arguments of a command line come in their order, with nothing twice; an
\* argument is there, or in a gap that says so, and what lacks a part is
\* marked (ExecveConverter.cpp:107-135).
Pieces(out) == {i \in DOMAIN out : out[i][1] = "piece"}

Before(p, q) == p[1] < q[1] \/ (p[1] = q[1] /\ p[2] < q[2])

Faithful(recs) ==
    LET out == Convert(recs)
        fields == ToSet(AllFields(recs))
        parts == {f \in fields : f.name[1] = "a" /\ Len(f.name) \in {2, 4}}
        at(i) == CHOOSE p \in {<<f.name[2], IF Len(f.name) = 4 THEN f.name[4] ELSE 0>> :
                                    f \in {g \in parts : g.raw = out[i][2]}} : TRUE
        shown == {at(i)[1] : i \in Pieces(out)}
        sized(n) == \E f \in fields : f.name[1] = "a" /\ Len(f.name) = 3 /\ f.name[2] = n
        gaps == {i \in DOMAIN out : out[i][1] = "gap"}
    IN  /\ \A i, j \in Pieces(out) : i < j => Before(at(i), at(j))
        /\ \A f \in parts : Len(f.name) = 2 \/ sized(f.name[2]) => f.name[2] \in shown
        /\ \A i \in gaps : shown \cap (out[i][2]..out[i][3]) = {}
        /\ \A n \in shown : \A m \in 0..n :
              m \in shown \/ \E i \in gaps : m \in out[i][2]..out[i][3]
        /\ \A n \in shown :
              LET mine == {i \in Pieces(out) : at(i)[1] = n}
                  have == FoldSet(LAMBDA i, sum : sum + Len(out[i][2]), 0, mine)
                  want == {f.raw[1] : f \in {g \in fields : g.name[1] = "a" /\ Len(g.name) = 3 /\ g.name[2] = n}}
              IN  \A len \in want : have < len =>
                    \E i \in mine : Missing \in {out[k] : k \in DOMAIN out \cap {i - 1, i + 1}}

CmdlineFaithful ==
    \A i \in DOMAIN done :
        LET execve == OfType(done[i].raw, <<"EXECVE">>)
        IN  execve # <<>> => Faithful(execve)

\* Every record that came leaves the accumulator and is processed, also when
\* the record that ends its event is lost.
AllProcessed ==
    <>(~running \/ (streams = [id \in Ids |-> <<>>] /\ cache = <<>> /\ queue = <<>>))

\* Event.cpp:458, "field count exceeds allocated number": the builder takes it
\* for an error of its caller.
LoopRuns == running
=============================================================================
