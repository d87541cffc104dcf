---------------------------- MODULE MandateCaps ----------------------------
(***************************************************************************)
(* The caps of a session mandate (services/agent/src/mandate.ts) and the   *)
(* web app's demonstration of them (lib/demoActions.ts).  Amounts are in   *)
(* stroops throughout.                                                     *)
(***************************************************************************)
EXTENDS Integers

assertAppraisalSpendAllowed(m, quoted, spent) ==
    quoted <= m.price /\ spent + quoted <= m.maxSpend

assertBidWithinMandate(m, value, escrow) ==
    value \in 1..m.maxBid /\ escrow \in 1..m.maxEscrow /\ value <= escrow

Clamped(m, suggests) == IF suggests > m.maxBid THEN m.maxBid ELSE suggests

(* mutant: bids what was suggested, unclamped and unchecked *)
bidFromAppraisalUnclamped(m, suggests) ==
    IF suggests > 0 THEN {[value |-> suggests, escrow |-> suggests, seal |-> "good"]} ELSE {}

(* The bid sized from an appraisal, as a singleton; empty when it throws.  *)
(* The escrow is the bid itself, the least that covers it.                 *)
bidFromAppraisal(m, suggests) ==
    LET value == Clamped(m, suggests) IN
    IF assertBidWithinMandate(m, value, value)
    THEN {[value |-> value, escrow |-> value, seal |-> "good"]}
    ELSE {}

(* The scenarios of the cap lab that come out as expected, for a mandate,  *)
(* a quoted price, a suggestion, and a bid revealed against an escrow.     *)
runCapSafetyDemos(m, quoted, suggests, bid, escrow) ==
    (IF assertAppraisalSpendAllowed(m, quoted, 0) THEN {} ELSE {"appraisal-cap"})
    \cup {"maxbid-clamp" : b \in {b \in bidFromAppraisal(m, suggests) : b.value = m.maxBid}}
    \cup (IF bid > 0 /\ bid <= escrow THEN {} ELSE {"escrow-onchain"})

=============================================================================
