----------------------------- MODULE MCTransfer -----------------------------
(***************************************************************************)
(* Small instances of Transfer for TLC.  A bare value is read from a line  *)
(* as it was written and a quoted one as a bare one; the first line of a   *)
(* long one reads as a quoted one, its second line gives s2 a value.       *)
(***************************************************************************)
EXTENDS Transfer

CONSTANTS s1, s2, bare, quoted, long

MCTrimmed == [v \in Values |-> IF v = long THEN quoted ELSE bare]
MCMore == [v \in Values |-> IF v = long THEN <<[name |-> s2, value |-> bare]>> ELSE <<>>]
MCGarbage == <<[name |-> s1, value |-> bare]>>

\* two values for s2
MCTexts == {<<[name |-> s2, value |-> long], [name |-> s1, value |-> bare]>>}

Symmetry == Permutations(Procs)
=============================================================================
