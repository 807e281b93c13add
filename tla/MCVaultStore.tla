---------------------------- MODULE MCVaultStore ----------------------------
(***************************************************************************)
(* Small instances of VaultStore for TLC.                                  *)
(***************************************************************************)
EXTENDS VaultStore, TLC

\* Threads, names, passwords and values are interchangeable: no action or
\* invariant singles one out.
Symmetry == Permutations(Procs) \cup Permutations(Names)
              \cup Permutations(Passwords) \cup Permutations(Values)
=============================================================================
