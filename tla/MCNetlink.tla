------------------------------ MODULE MCNetlink ------------------------------
(***************************************************************************)
(* The kinds of requests that DoNetlinkCollection, CollectionMonitor and   *)
(* AuditRulesMonitor send, one retry each.                                 *)
(***************************************************************************)
EXTENDS Netlink

MCPlans == {<<"get", "set">>, <<"list">>}

\* A behaviour is followed up to the first overlap in _data: the properties
\* say nothing beyond it.
Whole == ~torn
=============================================================================
