-------------------------- MODULE MCSessionManager --------------------------
(***************************************************************************)
(* A small instance of SessionManager for TLC: its constants are model     *)
(* values and numbers.  No symmetry, which liveness would not allow.       *)
(***************************************************************************)
EXTENDS SessionManager
=============================================================================
