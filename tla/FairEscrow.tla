----------------------------- MODULE FairEscrow -----------------------------
(***************************************************************************)
(* What a round promises the people whose money it holds, with no status,  *)
(* deadline, seal or keeper in sight: a bidder's tokens are locked while   *)
(* the round is undecided; one step decides it for everyone at once, and   *)
(* charges at most one bidder, who had locked enough, and pays exactly     *)
(* that to the operator; after it no balance moves again.                  *)
(***************************************************************************)
EXTENDS Integers

CONSTANTS Bidder, NoOne

VARIABLES wallet, till, done

fairVars == <<wallet, till, done>>

Init ==
    /\ wallet = [b \in Bidder |-> 0]
    /\ till = 0
    /\ done = FALSE

Lock(b) ==
    /\ ~done
    /\ wallet' = [wallet EXCEPT ![b] = wallet'[b]] /\ wallet'[b] < 0
    /\ UNCHANGED <<till, done>>

Decide(w) ==
    /\ ~done /\ done' = TRUE
    /\ IF w = NoOne THEN till' = 0 ELSE 0 < till' /\ till' <= -wallet[w]
    /\ wallet' = [b \in Bidder |-> IF b = w THEN -till' ELSE 0]

Next ==
    \/ \E b \in Bidder : Lock(b)
    \/ \E w \in Bidder \cup {NoOne} : Decide(w)

Spec == Init /\ [][Next]_fairVars

=============================================================================
