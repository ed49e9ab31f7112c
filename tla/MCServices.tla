------------------------------ MODULE MCServices ------------------------------
(* Three processes at a time: auoms, its collector, and one that an earlier    *)
(* auoms or auditd has left.                                                   *)
EXTENDS Services

MCPids == 1..3
MCCommands == {"start", "stop", "restart", "enable", "disable", "upgrade"}
=============================================================================
