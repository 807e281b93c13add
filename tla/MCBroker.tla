------------------------------ MODULE MCBroker ------------------------------
(***************************************************************************)
(* Small instances of Broker for TLC: the child of `run` may read s1 by    *)
(* its grant and s2 by the allow-list, another client is the reverse.      *)
(***************************************************************************)
EXTENDS Broker

CONSTANTS c1, c2, s1, s2, main1

MCRules == {<<c1, s2>>, <<c2, s1>>}
MCHolders == {c1, c2, main1}
=============================================================================
