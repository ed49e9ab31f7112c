-------------------------------- MODULE Strict --------------------------------
(***************************************************************************)
(* Application, map and fold written so that TLC computes an argument, and  *)
(* the elements of a sequence, once and not at every use.                   *)
(***************************************************************************)
EXTENDS Naturals, Sequences, SequencesExt

\* F(value)
Once(value, F(_)) == CHOOSE y \in {F(v) : v \in {value}} : TRUE

\* The sequence of F of each element.
Each(seq, F(_)) == Once(seq, LAMBDA s : <<>> \o [i \in DOMAIN s |-> F(s[i])])

\* F of the result so far and the next element, from the left.
Fold(F(_, _), first, seq) ==
    Once(seq, LAMBDA s :
        LET upto[n \in 0..Len(s)] ==
                IF n = 0 THEN first ELSE Once(upto[n - 1], LAMBDA y : F(y, s[n]))
        IN  upto[Len(s)])

\* The elements of seq at the positions that are in I, in their order.
KeepAt(seq, I) ==
    LET kept[n \in 0..Len(seq)] ==
            IF n = 0 THEN <<>> ELSE IF n \in I THEN Append(kept[n - 1], seq[n]) ELSE kept[n - 1]
    IN  kept[Len(seq)]

\* SelectSeq, by a set of positions: what KeepAt returns is stated and proved
\* once for all tests.
Keep(seq, Test(_)) == Once(seq, LAMBDA s : KeepAt(s, {i \in DOMAIN s : Test(s[i])}))
===============================================================================
