----------------------------- MODULE FiltersEngine -----------------------------
(***************************************************************************)
(* FiltersEngine and ProcFilter: which processes the filters of the outputs *)
(* match and which of their system calls an output does not want.  The      *)
(* engine is one record; e.pos says for each filter its bit and the outputs *)
(* that have it.  User, group and command line of a process are left out:   *)
(* they are compared like its exe.                                          *)
(***************************************************************************)
EXTENDS Integers, FiniteSets, Strict

Call(name) == [not |-> FALSE, name |-> name]
Except(name) == [not |-> TRUE, name |-> name]
AllCalls == Call("*")

\* A process_filters entry of a configuration that ParseConfig refuses.
Bad == [bad |-> TRUE]

\* Only exceptions: everything else is meant; nothing: everything.
Completed(calls) ==
    IF \A i \in DOMAIN calls : calls[i].not THEN Append(calls, AllCalls) ELSE calls

\* The list of filters, none when an entry is refused.
ParseConfig(entries) ==
    IF \E i \in DOMAIN entries : entries[i] = Bad THEN {}
    ELSE {Each(entries, LAMBDA f : [f EXCEPT !.calls = Completed(@)])}
-----------------------------------------------------------------------------
NewEngine == [pos |-> <<>>, calls |-> <<>>, next |-> 0, outputs |-> {}, mask |-> {}]

\* A name with ! keeps it as a key, so that no system call finds it.
CallMap(calls) ==
    Fold(LAMBDA map, s : IF Call(s.name) \in DOMAIN map THEN map ELSE (s :> ~s.not) @@ map,
         <<>>, calls)

AddFilter(e, pfs, name) ==
    IF pfs \in DOMAIN e.pos
    THEN [e EXCEPT !.pos[pfs].outputs = @ \cup {name}, !.outputs = @ \cup {name}]
    ELSE [e EXCEPT !.pos = (pfs :> [bit |-> e.next, outputs |-> {name}]) @@ @,
                   !.calls = (e.next :> CallMap(pfs.calls)) @@ @,
                   !.next = @ + 1, !.outputs = @ \cup {name}]

\* The filters that all outputs have which have any.
SetCommonFlagsMask(e) ==
    [e EXCEPT !.mask = {e.pos[f].bit : f \in {g \in DOMAIN e.pos :
                            Cardinality(e.pos[g].outputs) = Cardinality(e.outputs)}}]

AddFilterList(e, list, name) ==
    SetCommonFlagsMask(Fold(LAMBDA d, pfs : AddFilter(d, pfs, name), e, list))

\* The bits that AddFilterList returns.
BitsOf(e, list) == {e.pos[list[i]].bit : i \in DOMAIN list}

Less(map, key) == [k \in DOMAIN map \ {key} |-> map[k]]

RemoveFilter(e, pfs, name) ==
    IF pfs \notin DOMAIN e.pos \/ name \notin e.pos[pfs].outputs THEN e
    ELSE IF e.pos[pfs].outputs = {name}
    THEN [e EXCEPT !.pos = Less(@, pfs), !.calls = Less(@, e.pos[pfs].bit)]
    ELSE [e EXCEPT !.pos[pfs].outputs = @ \ {name}]

RemoveFilterList(e, list, name) ==
    SetCommonFlagsMask([Fold(LAMBDA d, pfs : RemoveFilter(d, pfs, name), e, list)
                            EXCEPT !.outputs = @ \ {name}])

ProcessMatchFilter(exe, pfs, height) ==
    /\ pfs.depth = -1 \/ pfs.depth >= height
    /\ pfs.exe = exe

GetFlags(e, exe, height) ==
    {e.pos[f].bit : f \in {g \in DOMAIN e.pos : ProcessMatchFilter(exe, g, height)}}

SyscallIsFiltered(call, map) ==
    IF Call(call) \in DOMAIN map THEN map[Call(call)] ELSE AllCalls \in DOMAIN map

\* Mutant: any filter of the process counts.
IsEventFiltered_NoMask(e, call, p, mask) ==
    \E item \in p : \E i \in item.flags \cap DOMAIN e.calls : SyscallIsFiltered(call, e.calls[i])

\* p is a set: there may be no process.
IsEventFiltered(e, call, p, mask) ==
    \E item \in p : \E i \in (item.flags \cap mask) \cap DOMAIN e.calls :
        SyscallIsFiltered(call, e.calls[i])
=============================================================================
