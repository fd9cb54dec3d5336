---------------------------- MODULE MCLivePresence ----------------------------
(* LivePresence for TLC: one session of one scope, one dashboard.          *)
EXTENDS LivePresence

CONSTANTS s, p

OneScope == [z \in {s} |-> p]
=============================================================================
