----------------------------- MODULE MCSession -----------------------------
(* Instances of Session for TLC. *)
EXTENDS Session, TLC

CONSTANTS w1, w2, s1, s2, e1, e2

Slots == Permutations({s1, s2})
=============================================================================
