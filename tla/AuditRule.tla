------------------------------ MODULE AuditRule ------------------------------
(***************************************************************************)
(* Audit rules as AuditRules.cpp keeps, parses, prints, merges and compares *)
(* them.  A rule is a record: the filter and action of its -a option, the   *)
(* system calls of its mask and the sequence of its fields.  The words of a  *)
(* line are options [o |-> letter, v |-> value]; the value of a field is a     *)
(* set: permissions, keys or one other value.  Bad is a value that none of    *)
(* the conversions accepts, or a missing one.  A member of the set of -S that  *)
(* is not in Calls is a name that no system call has.                        *)
(*                                                                         *)
(* Calls are the bits of all words of the mask but the last: the comparison  *)
(* and IsSyscallAll leave the last one out.  The limits on the number of     *)
(* fields and on the length of keys are not reached.                         *)
(***************************************************************************)
EXTENDS Strict, FiniteSets

CONSTANTS
    Calls,      \* the system calls of a mask
    Perms,      \* r, w, x and a
    Dirs,       \* the paths that are directories
    Homeless,   \* the paths without a parent directory
    Features,   \* the fields that this kernel knows beyond the usual ones
    AuomsKey,   \* AUOMS_RULE_KEY
    AllCalls,   \* the value of -S all
    Bad,
    Shifted,    \* what AUDIT_BIT(-1) selects, see ParseS
    Words,      \* the letters of options, names of fields, operators, actions, filters
    Data        \* what is in the value of a field: a buffer of bounded size

ASSUME ShiftedCalls == Shifted \subseteq Calls

ASSUME FiniteData == IsFiniteSet(Data) /\ {AuomsKey, Bad, "b32"} \subseteq Data

ASSUME UsedWords ==
    {"=", "key", "perm", "path", "dir", "compare", "exit", "user", "always", "never",
     "augenrules", "start", "end"} \subseteq Words

NewRule == [del |-> FALSE, prepend |-> FALSE, filter |-> "user",
            action |-> "never", calls |-> {}, fields |-> <<>>]

Field(f, op, v) == [f |-> f, op |-> op, v |-> v]

Option(o, v) == [o |-> o, v |-> v]

Fields == [f : Words, op : Words, v : SUBSET Data]

Rules == [del : BOOLEAN, prepend : BOOLEAN, filter : Words, action : Words,
          calls : SUBSET Calls, fields : Seq(Fields)]

\* A value that is missing or not understood is Bad in every option, and so is
\* that of a word that is no option.
Options ==
    [o : Words, v : {Bad}]
    \cup [o : {"w", "W", "p"}, v : SUBSET Data]
    \cup [o : {"k"}, v : Data]
    \cup [o : {"S"}, v : {AllCalls} \cup SUBSET (Calls \cup Words)]
    \cup [o : {"F", "C"}, v : Fields]
    \cup [o : {"a", "A", "d"}, v : [action : Words, filter : Words]]

Lines == Seq(Options)

FieldsOf(rule, names) == Keep(rule.fields, LAMBDA x : x.f \in names)

HasField(rule, name) == FieldsOf(rule, {name}) # <<>>

Values(rule, name) == UNION {x.v : x \in ToSet(FieldsOf(rule, {name}))}

GetPerms(rule) == Values(rule, "perm")

GetKeys(rule) == Values(rule, "key")

AddField(rule, f, op, v) == [rule EXCEPT !.fields = Append(@, Field(f, op, v))]

RemoveField(rule, i) == [rule EXCEPT !.fields = RemoveAt(@, i)]

SetKeys(rule, keys) ==
    LET i == SelectInSeq(rule.fields, LAMBDA x : x.f = "key")
        rest == IF i = 0 THEN rule ELSE RemoveField(rule, i)
    IN  IF keys = {} THEN rest ELSE AddField(rest, "key", "=", keys)

AddKeys(rule, keys) ==
    IF keys \subseteq GetKeys(rule) THEN rule
    ELSE SetKeys(rule, GetKeys(rule) \cup keys)

\* Every field of permissions is changed, whatever its operator.
MapPerms(rule, F(_)) ==
    [rule EXCEPT !.fields = Each(@,
        LAMBDA x : IF x.f = "perm" THEN [x EXCEPT !.v = F(@)] ELSE x)]

AddPerms(rule, perms) == MapPerms(rule, LAMBDA v : v \cup perms)

SetPerms(rule, perms) == MapPerms(rule, LAMBDA v : perms)

AddSyscalls(rule, calls) == [rule EXCEPT !.calls = @ \cup (calls \cap Calls)]

SetSyscalls(rule, calls) == [rule EXCEPT !.calls = calls \cap Calls]

IsSyscallAll(rule) == rule.calls = Calls

SetSyscallAll(rule) == SetSyscalls(rule, Calls)

\* The first field arch=; an unknown architecture is stored as 0.
HasArch(rule) ==
    LET i == SelectInSeq(rule.fields, LAMBDA x : x.f = "arch" /\ x.op = "=")
    IN  i # 0 /\ rule.fields[i].v # {Bad}

IsWatch(rule) ==
    /\ HasField(rule, "perm")
    /\ \A x \in ToSet(rule.fields) : x.f \in {"perm", "path", "dir", "key"}
    /\ rule.filter \notin {"user", "task", "exclude"}
    /\ IsSyscallAll(rule)

IsLoadable(rule) ==
    /\ \A x \in ToSet(rule.fields) :
          x.f \in {"exe", "sessionid", "compare"} => x.f \in Features
    /\ "b64" \in Values(rule, "arch") => "b64" \in Features
    /\ IsSyscallAll(rule) \/ "syscall" \in Features
    /\ Values(rule, "dir") \subseteq Dirs
    /\ Values(rule, "path") \cap Homeless = {}
-----------------------------------------------------------------------------
(* Parsing.  A parse in progress or at its end is a record: what it is and    *)
(* the rule so far.  "none" is a line that is passed over without an error.   *)

Parsed(rule) == [is |-> "rule", rule |-> rule]

Failed == [is |-> "error", rule |-> NewRule]

PassedOver == [is |-> "none", rule |-> NewRule]

\* path is the set of the one path of the option.
WatchField(path) == IF path \subseteq Dirs THEN "dir" ELSE "path"

\* parse_add_w_arg and parse_add_a_arg
ParseHead(o) ==
    IF o.o \notin {"w", "W", "a", "A", "d"} THEN PassedOver
    ELSE IF o.v = Bad THEN Failed
    ELSE IF o.o \in {"w", "W"}
         THEN Parsed(AddField(SetSyscallAll([NewRule EXCEPT
                        !.del = (o.o = "W"), !.filter = "exit", !.action = "always"]),
                     WatchField(o.v), "=", o.v))
         ELSE Parsed([NewRule EXCEPT !.del = (o.o = "d"), !.prepend = (o.o = "A"),
                        !.action = o.v.action, !.filter = o.v.filter])

\* The comparison with AUDIT_FILTER_EXIT includes the flag of -A.
FieldFits(rule, f) ==
    /\ f = "exit" => rule.filter = "exit"
    /\ f = "msgtype" => rule.filter = "exclude"
    /\ f \in {"obj", "path", "dir", "filetype"} => rule.filter = "exit" /\ ~rule.prepend

\* Names of users, groups, errors, record types and file types, numbers and
\* letters of permissions.  An invalid architecture is an error text, but the
\* field is added and the parse goes on.
Converts(x) == x.f = "arch" \/ x.v # {Bad}

ParseF(rule, x) ==
    IF x = Bad \/ ~FieldFits(rule, x.f) \/ ~Converts(x) THEN Failed
    ELSE IF x.f = "key" THEN Parsed(AddKeys(rule, x.v))
    ELSE Parsed(AddField(rule, x.f, x.op, x.v))

\* Two fields, in one of the combinations that have a number.
ParseC(rule, x) == Parsed(AddField(rule, "compare", x.op, x.v))

\* A name that is no system call is an error text only: the parse goes on and
\* adds the call -1.  Its bit is 1U << 0xFFFFFFFF of the first word, undefined in C:
\* call 31 where the processor shifts modulo 32, as x86 and ARM64 do, none where
\* it shifts the bit out.  Shifted is what it is in this build.
ParseS(rule, v) ==
    IF v = AllCalls THEN Parsed(SetSyscallAll(rule))
    ELSE IF ~HasArch(rule) THEN Failed
    ELSE Parsed(AddSyscalls(rule, v \cup IF v \subseteq Calls THEN {} ELSE Shifted))

Allowed(rule, watch) ==
    IF watch THEN {"p", "k"}
    ELSE {"k", "F", "C"} \cup (IF rule.filter = "task" THEN {} ELSE {"S"})

ParseOption(st, o, watch) ==
    LET rule == st.rule
    IN  IF st.is # "rule" THEN st
        ELSE IF o.o \notin Allowed(rule, watch) \/ o.v = Bad THEN Failed
        ELSE CASE o.o = "p" -> Parsed(AddField(rule, "perm", "=", o.v))
               [] o.o = "k" -> Parsed(AddKeys(rule, {o.v}))
               [] o.o = "S" -> ParseS(rule, o.v)
               [] o.o = "F" -> ParseF(rule, o.v)
               [] o.o = "C" -> ParseC(rule, o.v)

Parse(line) ==
    IF line = <<>> THEN PassedOver
    ELSE LET watch == line[1].o \in {"w", "W"}
             Step(st, o) == ParseOption(st, o, watch)
         IN  Fold(Step, ParseHead(line[1]), Tail(line))

\* A line that gives a rule gives no error, even when it has an error text.
ParseRules(lines) ==
    Each(Keep(Each(lines, Parse), LAMBDA p : p.is = "rule"), LAMBDA p : p.rule)

HasErrors(lines) == \E line \in ToSet(lines) : Parse(line).is = "error"
-----------------------------------------------------------------------------
(* Printing *)

Head1(rule) ==
    Option(IF rule.del THEN "d" ELSE IF rule.prepend THEN "A" ELSE "a",
           [action |-> rule.action, filter |-> rule.filter])

\* An unknown architecture is printed as b32.
ArchText(x) == [x EXCEPT !.v = IF @ = {Bad} THEN {"b32"} ELSE @]

\* append_field prints a file type as a number, which parse_add_F_arg refuses;
\* in a watch it prints neither operator nor action.
FieldText(rule, x, watch) ==
    CASE x.f \in {"path", "dir"} /\ watch -> <<Option(IF rule.del THEN "W" ELSE "w", x.v)>>
      [] x.f = "perm" /\ watch -> <<Option("p", x.v)>>
      [] x.f = "key" -> Each(SetToSeq(x.v), LAMBDA k :
                            IF watch THEN Option("k", k) ELSE Option("F", Field("key", "=", {k})))
      [] x.f = "compare" -> <<Option("C", x)>>
      [] x.f = "arch" -> <<Option("F", ArchText(x))>>
      [] x.f = "filetype" -> <<Option("F", [x EXCEPT !.v = {Bad}])>>
      [] OTHER -> <<Option("F", x)>>

FieldTexts(rule, fields, watch) ==
    FlattenSeq(Each(fields, LAMBDA x : FieldText(rule, x, watch)))

SyscallText(rule) ==
    IF IsSyscallAll(rule) THEN <<Option("S", AllCalls)>>
    ELSE IF rule.calls = {} THEN <<>>
    ELSE <<Option("S", rule.calls)>>

CanonicalText(rule) ==
    LET others == Keep(rule.fields, LAMBDA x : x.f # "arch")
    IN  IF IsWatch(rule) THEN FieldTexts(rule, others, TRUE)
        ELSE <<Head1(rule)>> \o FieldTexts(rule, FieldsOf(rule, {"arch"}), FALSE)
                \o SyscallText(rule) \o FieldTexts(rule, others, FALSE)

\* The text without permissions, keys and system calls.  File types keep their
\* numbers here.
CanonicalMergeKey(rule) ==
    LET others == Keep(rule.fields, LAMBDA x : x.f \notin {"arch", "perm", "key"})
    IN  IF IsWatch(rule) THEN <<FieldTexts(rule, others, TRUE)>>
        ELSE <<Head1(rule), Each(FieldsOf(rule, {"arch"}), ArchText) \o others>>
-----------------------------------------------------------------------------
(* Merging and comparing *)

\* Only a watch has its permissions merged, although the merge key of every
\* rule leaves them out.
MergeRule(drule, srule) ==
    AddKeys(IF IsWatch(drule) THEN AddPerms(drule, GetPerms(srule))
            ELSE AddSyscalls(drule, srule.calls),
            GetKeys(srule))

\* The index of merge keys is filled when a rule is added and not changed when
\* another rule is merged into it.
Merge(merged, key, rule) ==
    Once(SelectInSeq(merged, LAMBDA x : x.key = key), LAMBDA i :
        IF i = 0 THEN Append(merged, [key |-> key, rule |-> rule])
        ELSE [merged EXCEPT ![i].rule = MergeRule(@, rule)])

MergeIn(merged, rule) == Once(CanonicalMergeKey(rule), LAMBDA key : Merge(merged, key, rule))

MergeRules(rules) == Each(Fold(MergeIn, <<>>, rules), LAMBDA x : x.rule)

IsSubset(drule, srule) ==
    IF IsWatch(drule) THEN GetPerms(srule) \subseteq GetPerms(drule)
    ELSE srule.calls \subseteq drule.calls

\* The rest of srule that drule does not have, in a copy of drule.
DiffRule(drule, srule) ==
    SetKeys(IF IsWatch(drule) THEN SetPerms(drule, GetPerms(srule) \ GetPerms(drule))
            ELSE SetSyscalls(drule, srule.calls \ drule.calls),
            GetKeys(srule))

\* What must be added to the actual rules, for one desired rule.
Lacking(actual, keys, rule) ==
    Once(SelectInSeq(keys, LAMBDA key : key = CanonicalMergeKey(rule)), LAMBDA i :
        IF i = 0 THEN <<rule>>
        ELSE IF IsSubset(actual[i], rule) THEN <<>>
        ELSE <<DiffRule(actual[i], rule)>>)

DiffRules(actual, desired) ==
    Once(actual, LAMBDA rules :
        Once(Each(rules, CanonicalMergeKey), LAMBDA keys :
            FlattenSeq(Each(desired, LAMBDA rule : Lacking(rules, keys, rule)))))
-----------------------------------------------------------------------------
(* What a set of rules selects, as a reference for merging and comparing: the   *)
(* points <<what the rule says otherwise, permission, system call>>.            *)

Points(rule) ==
    {[del |-> rule.del, action |-> rule.action, filter |-> rule.filter,
      fields |-> ToSet(Keep(rule.fields, LAMBDA x : x.f \notin {"perm", "key"}))]}
    \X (IF ~HasField(rule, "perm") THEN Perms ELSE GetPerms(rule))
    \X (rule.calls \cup IF rule.filter = "exit" THEN {} ELSE {"none"})

Covered(rules) == UNION {Points(rule) : rule \in ToSet(rules)}
=============================================================================
