----------------------------- MODULE MCIdentity -----------------------------
(***************************************************************************)
(* A small instance of Identity for TLC.  A node may read a secret unless  *)
(* a command of mevault is among its parents; an agent is denied.          *)
(***************************************************************************)
EXTENDS Identity, TLC

CONSTANTS mevault, node, s1

MCRules == {[exes |-> {node}, parentNot |-> {mevault}, secrets |-> {s1}]}

Symmetry == Permutations(Pids \ {Server})
=============================================================================
