------------------------------ MODULE MCKeeper ------------------------------
(* Instances of Keeper for TLC. *)
EXTENDS Keeper, TLC

CONSTANTS b1, b2, k1, k2

O(v, e, s) == [value |-> v, escrow |-> e, seal |-> s]

(* a plain bid, a higher one, one above its escrow, and two bad seals *)
FiveOffers == {O(1, 1, "good"), O(2, 3, "good"), O(3, 2, "good"),
               O(2, 2, "mismatch"), O(2, 2, "garbage")}
OneOffer == {O(1, 2, "good")}

Bidders == Permutations({b1, b2})
=============================================================================
