------------------------------- MODULE MCFilters -------------------------------
(* Two processes and two outputs: a filter for all calls of one executable, one *)
(* for one call that passes to children, and configurations that are refused   *)
(* in each of the three places.                                                *)
EXTENDS Outputs
CONSTANTS p, q, root, o1, o2

Filter(exe, depth, calls) == [exe |-> exe, depth |-> depth, calls |-> calls]
Conf(entries) == [valid |-> TRUE, loads |-> TRUE, entries |-> entries]

All == Filter("a", 0, <<>>)
Opens == Filter("b", -1, <<Call("open")>>)

Both == Conf(<<All, Opens>>)
OneOpen == Conf(<<Opens>>)
Broken == [Both EXCEPT !.valid = FALSE]
NotStarted == [Conf(<<All, Bad>>) EXCEPT !.loads = FALSE]

MCNames == {o1, o2}
MCConfs == {OneOpen, NotStarted, Broken}
MCFirstDirs == {o1 :> Both}
MCPids == {p, q}
=============================================================================
