------------------------------- MODULE MCRules -------------------------------
(* Two permissions, three system calls, a file and a directory.  The conf lines   *)
(* cover watches, rules of system calls, lines to be merged, a line with an     *)
(* error and a rule that is not sound.                                          *)
EXTENDS RulesMonitor
CONSTANTS c1, c2, c31, r, w, file, folder, k1

Opt(o, v) == Option(o, v)
F(f, v) == Option("F", Field(f, "=", {v}))
Exit == [action |-> "always", filter |-> "exit"]
Never == [action |-> "never", filter |-> "exit"]

WatchR == <<Opt("w", {file}), Opt("p", {r}), Opt("k", k1)>>
WatchRW == <<Opt("w", {file}), Opt("p", {r, w})>>
WatchDirW == <<Opt("w", {folder}), Opt("p", {w})>>
WatchDirRW == <<Opt("w", {folder}), Opt("p", {r, w})>>
CallsOne == <<Opt("a", Exit), F("arch", "b64"), Opt("S", {c1})>>
CallsTwo == <<Opt("a", Exit), F("arch", "b64"), Opt("S", {c2, "nosuch"}), Opt("k", k1)>>
NeverR == <<Opt("a", Never), Opt("S", AllCalls), F("path", file), F("perm", r)>>
NoArch == <<Opt("a", Exit), Opt("S", {c1})>>

MCConfs == {<<WatchR, WatchRW, CallsOne>>, <<CallsOne, NoArch, WatchDirW, CallsTwo>>,
            <<WatchRW, NeverR>>}
MCCalls == {c1, c2, c31}
MCShifted == {c31}
MCPerms == {r, w}
MCDirs == {folder}
MCData == {AuomsKey, Bad, r, w, file, folder, k1, "b32", "b64"}
MCWords == STRING
MCFeatures == {"b64", "syscall"}
Only(line) == Parse(line).rule
MCAdminRules == {Only(WatchDirRW), Only(NeverR), Only(CallsTwo)}
MCAdminLines == {WatchR, NoArch}
-----------------------------------------------------------------------------
(* The operators against what they are for, on every pair of sound rules of     *)
(* these lines: a watch or a rule of system calls with one more field or none,  *)
(* with any permissions or system calls, with a key or none.                    *)
Keyed == {<<>>, <<Opt("k", k1)>>}
Watches == {<<Opt("w", {x}), Opt("p", ps)>> \o k :
                x \in {file, folder}, ps \in SUBSET {r, w} \ {{}}, k \in Keyed}
OfCalls == {<<Opt("a", Exit), F("arch", "b64"), Opt("S", cs)>> \o x \o k :
                cs \in SUBSET MCCalls \ {{}}, x \in {<<>>, <<F("uid", r)>>}, k \in Keyed}
SoundRules == {Parse(line).rule : line \in Watches \cup OfCalls}

Alike(a, b) == [a EXCEPT !.fields = ToSet(@)] = [b EXCEPT !.fields = ToSet(@)]

\* What is written to a file is read back as it was.
ASSUME TextParses ==
    \A rule \in SoundRules : LET back == Parse(CanonicalText(rule))
                             IN  back.is = "rule" /\ Alike(back.rule, rule)

\* Merged rules select what the rules selected, and a difference what was missing.
ASSUME MergeExact ==
    \A a, b \in SoundRules : Covered(MergeRules(<<a, b>>)) = Covered(<<a, b>>)

ASSUME DiffSuffices ==
    \A a, b \in SoundRules : LET diff == DiffRules(<<a>>, <<b>>)
                             IN  /\ Covered(<<b>>) \subseteq Covered(<<a>> \o diff)
                                 /\ Covered(diff) \subseteq Covered(<<b>>)
=============================================================================
