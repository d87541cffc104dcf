------------------------------- MODULE Round -------------------------------
(***************************************************************************)
(* One round of the deployed Round contract, as the keeper, the agent and  *)
(* the web app drive it.  The contract's Rust source is not in this        *)
(* repository: what is here is its generated bindings                      *)
(* (packages/round-bindings/src/index.ts) and the programs that call it,   *)
(* so every operation below is external and is modelled from that use.     *)
(* Where the callers do not fix an outcome (which failing check answers,   *)
(* a tie for the best bid, opening after the reveal deadline) the model    *)
(* leaves it open.  Rounds do not share state, so one round is enough.     *)
(*                                                                         *)
(* Time is in abstract units.  `clock' is the wall clock the off-chain     *)
(* programs read, `ledger' the timestamp of the last closed ledger, which  *)
(* follows the clock at most MaxSkew behind.                               *)
(***************************************************************************)
EXTENDS Integers, FiniteSets, FiniteSetsExt

CONSTANTS
    Bidder,             \* accounts that may bid
    Offer,              \* the sealed bids they may commit
    NoBid, NoOne,       \* "nothing committed", "no winner"
    HighestBid,         \* ClearingRule: TRUE for HighestBid, FALSE for LowestBid
    CommitDeadline, RevealTime, RevealDeadline, VoidGrace,
    MaxSkew,            \* how far the ledger's time may trail the clock
    MaxTime             \* bound on the clock

SealKinds == {"good", "mismatch", "garbage"}
Statuses == {"Open", "Revealing", "Cleared", "Settled", "Voided"}
Final == {"Settled", "Voided"}

(* An offer is the value its commitment H binds, the public escrow locked  *)
(* with it, and what its timelock seal is worth once R is out: it opens to *)
(* H's preimage ("good"), to something else ("mismatch"), or not at all.   *)
ASSUME OfferAssumption ==
    /\ Offer \subseteq [value : Int, escrow : Nat \ {0}, seal : SealKinds]
    /\ NoBid \notin Offer
    /\ IsFiniteSet(Bidder) /\ NoOne \notin Bidder
    /\ HighestBid \in BOOLEAN

(* Deadlines are ordered as create_round demands; the gap between the end  *)
(* of commits and R exceeds the ledger's lag (the web app leaves           *)
(* LIVE_COMMIT_CLOSE_BEFORE_REVEAL_SECONDS for it).                        *)
ASSUME TimeAssumption ==
    /\ {CommitDeadline, RevealTime, RevealDeadline, VoidGrace, MaxSkew, MaxTime} \subseteq Nat
    /\ CommitDeadline + MaxSkew < RevealTime
    /\ RevealTime < RevealDeadline
    /\ RevealDeadline + VoidGrace < MaxTime

VARIABLES
    clock, ledger,      \* wall clock; timestamp of the last closed ledger
    beacon,             \* has Drand published round R
    status,
    bids,               \* [Bidder -> Offer or NoBid]: the BidState of each bidder
    revealed,           \* bidders whose revealed_value is set
    seals,              \* bidders whose Seal is still in Temporary storage
    winner,
    wallet,             \* change of each bidder's token balance since the start
    till, vault         \* the same for the operator and for the contract

envVars == <<clock, ledger, beacon>>
chainVars == <<status, bids, revealed, seals, winner, wallet, till, vault>>
roundVars == <<clock, ledger, beacon, status, bids, revealed, seals, winner,
               wallet, till, vault>>

RoundTypeOK ==
    /\ clock \in 0..MaxTime /\ ledger \in 0..MaxTime
    /\ beacon \in BOOLEAN
    /\ status \in Statuses
    /\ bids \in [Bidder -> Offer \cup {NoBid}]
    /\ revealed \subseteq Bidder /\ seals \subseteq Bidder
    /\ winner \in Bidder \cup {NoOne}
    /\ wallet \in [Bidder -> Int] /\ till \in Int

RoundInit ==
    /\ clock = 0 /\ ledger = 0 /\ beacon = FALSE
    /\ status = "Open"
    /\ bids = [b \in Bidder |-> NoBid]
    /\ revealed = {} /\ seals = {} /\ winner = NoOne
    /\ wallet = [b \in Bidder |-> 0] /\ till = 0 /\ vault = 0

----------------------------------------------------------------------------
(* Derived views *)

Index == {b \in Bidder : bids[b] # NoBid}                  \* get_bidders
EscrowOf(b) == IF bids[b] = NoBid THEN 0 ELSE bids[b].escrow
EscrowTotal == MapThenSumSet(EscrowOf, Bidder)
WalletTotal == MapThenSumSet(LAMBDA b : wallet[b], Bidder)

(* valid = value > 0 and value <= escrow, whoever reveals it *)
Eligible(b) == bids[b] # NoBid /\ bids[b].value > 0 /\ bids[b].value <= bids[b].escrow
Valid(b) == b \in revealed /\ Eligible(b)

Better(x, y) == IF HighestBid THEN x >= y ELSE x <= y
BestOf(S) == {b \in S : \A c \in S : Better(bids[b].value, bids[c].value)}

----------------------------------------------------------------------------
(* The environment: clocks, Drand, storage expiry *)

Tick ==
    /\ clock < MaxTime /\ clock + 1 - ledger <= MaxSkew
    /\ clock' = clock + 1
    /\ UNCHANGED <<ledger, beacon>> /\ UNCHANGED chainVars

CloseLedger ==
    /\ ledger < clock
    /\ ledger' = ledger + 1
    /\ UNCHANGED <<clock, beacon>> /\ UNCHANGED chainVars

(* Drand may be late, or never produce R (a network stall). *)
PublishR ==
    /\ ~beacon /\ clock >= RevealTime
    /\ beacon' = TRUE
    /\ UNCHANGED <<clock, ledger>> /\ UNCHANGED chainVars

(* Temporary storage drops a seal some time after the reveal window. *)
ExpireSeal(b) ==
    /\ b \in seals /\ ledger > RevealDeadline
    /\ seals' = seals \ {b}
    /\ UNCHANGED <<status, bids, revealed, winner, wallet, till, vault>>
    /\ UNCHANGED envVars

----------------------------------------------------------------------------
(* The contract's operations, each a transaction that succeeds *)

(* Mutants of Commit: one ledger too late; old escrow kept on overwrite.   *)
CommitLate(b, o) ==
    /\ status = "Open" /\ ledger <= CommitDeadline + 1
    /\ bids' = [bids EXCEPT ![b] = o]
    /\ seals' = seals \cup {b}
    /\ wallet' = [wallet EXCEPT ![b] = @ + EscrowOf(b) - o.escrow]
    /\ vault' = vault - EscrowOf(b) + o.escrow
    /\ UNCHANGED <<status, revealed, winner, till>> /\ UNCHANGED envVars

CommitKeepsOldEscrow(b, o) ==
    /\ status = "Open" /\ ledger <= CommitDeadline
    /\ bids' = [bids EXCEPT ![b] = o]
    /\ seals' = seals \cup {b}
    /\ wallet' = [wallet EXCEPT ![b] = @ - o.escrow]
    /\ vault' = vault + o.escrow
    /\ UNCHANGED <<status, revealed, winner, till>> /\ UNCHANGED envVars

(* Submit, or overwrite before the deadline, a sealed bid and lock escrow. *)
Commit(b, o) ==
    /\ status = "Open" /\ ledger <= CommitDeadline
    /\ bids' = [bids EXCEPT ![b] = o]
    /\ seals' = seals \cup {b}
    /\ wallet' = [wallet EXCEPT ![b] = @ + EscrowOf(b) - o.escrow]
    /\ vault' = vault - EscrowOf(b) + o.escrow
    /\ UNCHANGED <<status, revealed, winner, till>> /\ UNCHANGED envVars

(* Opening needs R's signature and nothing else: no operator override. *)
OpenReveal ==
    /\ status = "Open" /\ beacon
    /\ status' = "Revealing"
    /\ UNCHANGED <<bids, revealed, seals, winner, wallet, till, vault>>
    /\ UNCHANGED envVars

(* Anyone who holds the preimage of H may reveal; no seal is needed. *)
Reveal(b) ==
    /\ status = "Revealing" /\ ledger <= RevealDeadline
    /\ bids[b] # NoBid /\ b \notin revealed
    /\ revealed' = revealed \cup {b}
    /\ UNCHANGED <<status, bids, seals, winner, wallet, till, vault>>
    /\ UNCHANGED envVars

RefundAll ==
    /\ wallet' = [b \in Bidder |-> wallet[b] + EscrowOf(b)]
    /\ vault' = vault - EscrowTotal

(* After the reveal deadline: the best valid bid wins; with none, void and *)
(* refund.                                                                 *)
Clear ==
    /\ status = "Revealing" /\ ledger > RevealDeadline
    /\ \/ \E w \in BestOf({b \in Bidder : Valid(b)}) :
            /\ winner' = w /\ status' = "Cleared"
            /\ UNCHANGED <<wallet, vault>>
       \/ /\ {b \in Bidder : Valid(b)} = {}
          /\ status' = "Voided" /\ RefundAll /\ UNCHANGED winner
    /\ UNCHANGED <<bids, revealed, seals, till>> /\ UNCHANGED envVars

(* Mutant of Settle: the winner's whole escrow goes to the operator.       *)
SettleTakesEscrow ==
    /\ status = "Cleared"
    /\ status' = "Settled"
    /\ till' = till + EscrowOf(winner)
    /\ wallet' = [b \in Bidder |-> wallet[b] + (IF b = winner THEN 0 ELSE EscrowOf(b))]
    /\ vault' = vault - EscrowTotal
    /\ UNCHANGED <<bids, revealed, seals, winner>> /\ UNCHANGED envVars

(* The winner pays its bid out of escrow; surplus and losers go home. *)
Settle ==
    /\ status = "Cleared"
    /\ status' = "Settled"
    /\ till' = till + bids[winner].value
    /\ wallet' = [b \in Bidder |->
                    wallet[b] + EscrowOf(b) - (IF b = winner THEN bids[b].value ELSE 0)]
    /\ vault' = vault - EscrowTotal
    /\ UNCHANGED <<bids, revealed, seals, winner>> /\ UNCHANGED envVars

(* Mutant of Void: an override that does not look at the status.           *)
VoidAnyRound ==
    /\ ledger > RevealDeadline + VoidGrace
    /\ status' = "Voided" /\ RefundAll
    /\ UNCHANGED <<bids, revealed, seals, winner, till>> /\ UNCHANGED envVars

(* The liveness valve: an Open round, grace after the reveal deadline. *)
Void ==
    /\ status = "Open" /\ ledger > RevealDeadline + VoidGrace
    /\ status' = "Voided" /\ RefundAll
    /\ UNCHANGED <<bids, revealed, seals, winner, till>> /\ UNCHANGED envVars

----------------------------------------------------------------------------
(* Refusals: the error codes a refused call may carry.  The order of the   *)
(* contract's checks is not visible here, so any check that fails may be   *)
(* the one that answers.                                                   *)

StatusErrors ==
    [Open      |-> {"RevealNotOpen", "NotCleared", "WrongStatus"},
     Revealing |-> {"RevealAlreadyOpen", "NotCleared", "NotVoidable", "WrongStatus"},
     Cleared   |-> {"AlreadyCleared", "NotVoidable", "WrongStatus"},
     Settled   |-> {"AlreadySettled", "AlreadyCleared", "NotVoidable", "WrongStatus"},
     Voided    |-> {"RoundVoided", "NotVoidable", "WrongStatus"}]

Unless(ok, codes) == IF ok THEN {} ELSE codes

OpenRefusals ==
    Unless(status = "Open", StatusErrors[status])
    \cup Unless(ledger <= RevealDeadline, {"RevealWindowClosed"})

RevealRefusals(b, hashes) ==
    Unless(status = "Revealing", StatusErrors[status])
    \cup Unless(ledger <= RevealDeadline, {"RevealWindowClosed"})
    \cup Unless(b \notin revealed, {"AlreadyRevealed"})
    \cup Unless(hashes, {"HashMismatch"})

ClearRefusals ==
    Unless(status = "Revealing", StatusErrors[status])
    \cup Unless(ledger > RevealDeadline, {"RevealStillOpen"})

SettleRefusals == Unless(status = "Cleared", StatusErrors[status])

VoidRefusals ==
    Unless(status = "Open", StatusErrors[status])
    \cup Unless(ledger > RevealDeadline + VoidGrace, {"NotVoidable"})

----------------------------------------------------------------------------
(* Everybody but the keepers: bidders, and anyone calling a permissionless *)
(* operation by hand (the operator's page, another program, a transaction  *)
(* whose sender stopped waiting for it).                                   *)

Bidding == \E b \in Bidder, o \in Offer : Commit(b, o)

Anyone ==
    \/ OpenReveal
    \/ \E b \in Bidder : Reveal(b)
    \/ Clear
    \/ Settle
    \/ Void

Passing == Tick \/ CloseLedger \/ PublishR \/ \E b \in Bidder : ExpireSeal(b)

----------------------------------------------------------------------------
(* What holds of the round whoever drives it *)

(* Tokens are neither made nor lost, and until the round is over the       *)
(* contract holds exactly the escrow of the bids in its index.  This is    *)
(* what Commit's refund on overwrite, assumed of the contract, amounts to; *)
(* the keepers and scripts only rely on it.                                *)
FundsConserved ==
    /\ vault + till + WalletTotal = 0
    /\ vault = IF status \in Final THEN 0 ELSE EscrowTotal

(* The balances the lifecycle test asserts: the operator gains the winning *)
(* bid, the winner pays it out of its escrow, everyone else is whole.      *)
SettlementExact ==
    /\ status = "Settled" =>
          /\ till = bids[winner].value /\ wallet[winner] = -till
          /\ till <= bids[winner].escrow
          /\ \A b \in Bidder \ {winner} : wallet[b] = 0
    /\ status = "Voided" => till = 0 /\ \A b \in Bidder : wallet[b] = 0

Voting == {"Open", "Revealing", "Cleared"}

(* the two clocks, and what the beacon says about the ledger's *)
TimeInv ==
    /\ ledger <= clock /\ clock - ledger <= MaxSkew
    /\ beacon => clock >= RevealTime

(* the contract's own records *)
ChainInv ==
    /\ status \in Voting => till = 0 /\ \A b \in Bidder : wallet[b] = -EscrowOf(b)
    /\ revealed \subseteq Index /\ seals \subseteq Index
    /\ status = "Open" => revealed = {}
    /\ status \in {"Cleared", "Settled"} => winner \in BestOf({b \in Bidder : Valid(b)})
    /\ status = "Voided" => \A b \in Bidder : ~Valid(b)

=============================================================================
