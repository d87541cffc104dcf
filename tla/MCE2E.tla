------------------------------- MODULE MCE2E -------------------------------
(* Instances of E2E for TLC. *)
EXTENDS E2E

CONSTANTS b1, b2, b3

(* the scripts' two bids, one to outbid them with, and one that opens to   *)
(* something else than it commits to                                       *)
LowBid == [value |-> 1, escrow |-> 2, seal |-> "good"]
HighBid == [value |-> 2, escrow |-> 2, seal |-> "good"]
Offers == {LowBid, HighBid, [value |-> 3, escrow |-> 3, seal |-> "good"],
           [value |-> 3, escrow |-> 3, seal |-> "mismatch"]}
=============================================================================
