----------------------------- MODULE MCMachine -----------------------------
(***************************************************************************)
(* A small instance of Machine for TLC.                                    *)
(***************************************************************************)
EXTENDS Machine

CONSTANTS c1, r1

MCLaunchedBy == [c \in {c1} |-> r1]
=============================================================================
