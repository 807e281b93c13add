------------------------------ MODULE MCConfig ------------------------------
(***************************************************************************)
(* A small instance of Config for TLC.  The allow-list of a draft is the   *)
(* one that init writes, a wildcard for a pattern, or has a rule with one  *)
(* secret before it; the process rules are none, one with an opt-in, or    *)
(* one that lacks it.                                                      *)
(***************************************************************************)
EXTENDS Config, TLC

CONSTANTS anywhere, lib, node, s1, set1, set2

Exe(d) == [dir |-> d, file |-> node]
Allow(d, S) == [name |-> "rule", exe |-> Exe(d), secrets |-> S]
Rule(d, S, all) == [name |-> "rule", exe |-> Exe(d), secrets |-> S, all |-> all]

MCDefault == [settings |-> set1, allow |-> <<Allow(anywhere, {Star})>>, process |-> <<>>]
MCDrafts == {
  MCDefault,
  [settings |-> set2, allow |-> <<Allow(lib, {s1}), Allow(anywhere, {Star})>>,
   process |-> <<Rule(lib, {Star}, FALSE)>>],
  [settings |-> set1, allow |-> <<>>, process |-> <<Rule(lib, {Star}, TRUE), Rule(Bare, {s1}, FALSE)>>]}
MCInstalled == {Exe(lib), Exe(Bare)}

Symmetry == Permutations(Procs)
=============================================================================
