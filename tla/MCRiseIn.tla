------------------------------ MODULE MCRiseIn ------------------------------
(* Instances of RiseInPanel for TLC. *)
EXTENDS RiseInPanel, TLC

CONSTANTS w1, w2, t1, t2, e1, e2

Alike == Permutations({t1, t2}) \cup Permutations({w1, w2}) \cup Permutations({e1, e2})
=============================================================================
