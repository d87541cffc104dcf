--------------------------- MODULE MCBidderAgent ---------------------------
(* Instances of BidderAgent for TLC. *)
EXTENDS BidderAgent, TLC

CONSTANTS b1, b2

Offers == [value : 1..2, escrow : 1..2, seal : {"good"}]

Sound == [maxBid |-> 2, maxEscrow |-> 2, maxSpend |-> 1, price |-> 1, expires |-> 2,
          deadline |-> 1, authentic |-> TRUE]

(* A sound mandate and a forged one. *)
SoundAndForged == b1 :> Sound @@ b2 :> [Sound EXCEPT !.authentic = FALSE]

OneSession == b1 :> Sound
=============================================================================
