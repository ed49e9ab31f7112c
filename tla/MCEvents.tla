------------------------------- MODULE MCEvents -------------------------------
(***************************************************************************)
(* An execve with many EXECVE records beside a login, whose argument 1      *)
(* comes in three parts; and other system calls, with records that a        *)
(* processed event takes apart differently.                                 *)
(***************************************************************************)
EXTENDS RawEventProcessor

W(key, value) == Word(<<key>>, <<value>>)
Arg(n) == Word(<<"a", n>>, <<n, "whole">>)
ArgSize(n, size) == Word(<<"a", n, "_len">>, <<size>>)
Part(n, i) == Word(<<"a", n, "[", i>>, <<n, i, "part">>)
Line(type, id, words) == [type |-> <<type>>, line |-> <<W("audit", id)>> \o words]
Named0(type, id, words) ==
    [type |-> <<"UNKNOWN">>, line |-> <<W("node", "n"), W("type", type), W("audit", id)>> \o words]

Syscall(id, call) == Line("SYSCALL", id, <<W("syscall", call), W("items", 2), W("pid", 7)>>)
Path(id, item) == Line("PATH", id, <<W("item", item), W("name", "file"), W("nametype", "NORMAL"), W("mode", 6)>>)
Eoe(id) == Line("EOE", id, <<>>)

Exec ==
    <<Syscall(1, "execve"),
      Line("EXECVE", 1, <<W("argc", 5), Arg(0), ArgSize(1, 9), Part(1, 0)>>),
      Line("EXECVE", 1, <<Part(1, 1)>>),
      Line("EXECVE", 1, <<Part(1, 2), Arg(2)>>),
      Line("EXECVE", 1, <<Arg(3)>>), Line("EXECVE", 1, <<Arg(4)>>),
      Line("CWD", 1, <<W("cwd", "dir")>>), Path(1, 0),
      Line("PROCTITLE", 1, <<W("proctitle", "title")>>), Eoe(1)>>
Login == <<Line("USER_LOGIN", 2, <<W("pid", 8)>>)>>
Open == <<Named0("SYSCALL", 3, <<W("syscall", "openat")>>), Path(3, 0), Path(3, 1),
          Line("OTHER", 3, <<W("x", 1), W("y", 2)>>),
          Line("PROCTITLE", 3, <<W("proctitle", "title")>>), Eoe(3)>>
Bind == <<Line("SOCKADDR", 4, <<W("saddr", 1)>>), Line("INTEGRITY_RULE", 4, <<W("hash", 1), W("hash", 2)>>),
          Line("BAD", 4, <<>>),
          Named0("INTEGRITY_POLICY_RULE", 4, <<W("func", "BPRM"), W("uid", 0)>>)>>
Few == SubSeq(Exec, 1, 4) \o SubSeq(Exec, 8, 10)

MCStreams == {<<Exec, Login>>, <<Few, Login>>, <<<<>>, Login, Open, Bind>>}
MCSingles == {<<"USER_LOGIN">>, <<"AUOMS_DROPPED_RECORDS">>}
MCInterpreted == {<<"pid">>, <<"syscall">>}
=============================================================================
