------------------------------ MODULE MCOutput ------------------------------
(***************************************************************************)
(* Logs in which sent, filtered and unsent events alternate, and one with  *)
(* an event id that comes twice.                                           *)
(***************************************************************************)
EXTENDS Output

E(i, k) == [id |-> i, kind |-> k]

MCLogs == {
  <<E("a", "send"), E("b", "send"), E("c", "filter")>>,
  <<E("a", "send"), E("b", "filter"), E("c", "send")>>,
  <<E("a", "noop"), E("b", "send"), E("c", "send")>>,
  <<E("a", "send"), E("a", "send"), E("b", "send")>>,
  <<E("a", "send"), E("b", "send"), E("c", "send")>>}

MCSends == {<<E("a", "send"), E("b", "send")>>}

MCBoth == {NoFile, 0}
MCTail == {0}
MCNone == {NoFile}
=============================================================================
