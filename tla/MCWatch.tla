------------------------------ MODULE MCWatch ------------------------------
(* Instances of Watch for TLC. *)
EXTENDS Watch

(* discovery, and the list "1,2-3,2" *)
TwoSpecs == {{}, {<<1, 1>>, <<2, 3>>, <<2, 2>>}}
=============================================================================
