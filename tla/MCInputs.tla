------------------------------ MODULE MCInputs ------------------------------
(***************************************************************************)
(* The connections of one collector before and after it reconnects.        *)
(***************************************************************************)
EXTENDS Inputs

MCOrder == <<"old", "new">>
MCQuota == [old |-> 2, new |-> 1]
MCThreads == {"old", "new", "inputs"}
MCCallers == {"main", "signal", "inputs"}
=============================================================================
