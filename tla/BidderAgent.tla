---------------------------- MODULE BidderAgent ----------------------------
(***************************************************************************)
(* Autonomous bidders (services/agent/src/bidder.ts, mandate.ts) and the   *)
(* x402-gated appraisal server they pay (services/appraisal-api/src/       *)
(* client.ts, server.ts).  Each bidder is a session key with a mandate     *)
(* signed by its principal; a run of runBidderAgent verifies the mandate,  *)
(* reads the round, pays for an appraisal, sizes and seals a bid from it   *)
(* and commits it.  Any await may reject or never return, and the operator *)
(* may then run the agent again on the same mandate; the server meanwhile  *)
(* carries on with the request it has.                                     *)
(*                                                                         *)
(* Amounts are in the smallest unit throughout: `suggests' is an           *)
(* appraisal's suggestedMaxBid after usdcToStroops.                        *)
(***************************************************************************)
EXTENDS Round, Sequences, MandateCaps

CONSTANTS
    Mandate,        \* [Bidder -> its session's mandate]
    Asked,          \* price of a call, as the server is configured
    Suggestions,    \* what an appraisal may suggest; 0 when it rounds to 0
    MaxPaid         \* bound on paid requests of a session

(* `authentic': version, signature, contract and round are the mandate's.  *)
(* Whatever a mandate allows can be bid.                                   *)
ASSUME MandateAssumption ==
    /\ \A b \in Bidder :
        /\ {Mandate[b].maxBid, Mandate[b].maxEscrow, Mandate[b].maxSpend, Mandate[b].price,
            Mandate[b].expires, Mandate[b].deadline} \subseteq Nat
        /\ Mandate[b].authentic \in BOOLEAN
        /\ \A v \in 1..Mandate[b].maxBid : [value |-> v, escrow |-> v, seal |-> "good"] \in Offer
    /\ Asked \in Nat /\ Suggestions \subseteq Nat /\ MaxPaid \in Nat

VARIABLES
    pc,         \* [Bidder -> the await its run is at, "idle" when none runs]
    plan,       \* [Bidder -> the bid the run has sized, or NoBid]
    requests    \* [Bidder -> the paid requests it ever sent, newest last]

agentVars == <<pc, plan, requests>>
vars == <<clock, ledger, beacon, status, bids, revealed, seals, winner,
          wallet, till, vault, pc, plan, requests>>

Stages == {"sent", "verified", "settled", "answered", "refused"}

TypeOK ==
    /\ RoundTypeOK
    /\ pc \in [Bidder -> {"idle", "getRound", "quote", "paid", "seal", "commit"}]
    /\ plan \in [Bidder -> Offer \cup {NoBid}]
    /\ \A b \in Bidder :
          /\ Len(requests[b]) <= MaxPaid
          /\ \A i \in DOMAIN requests[b] :
                /\ requests[b][i].stage \in Stages
                /\ requests[b][i].suggests \in Suggestions \cup {0}

Init ==
    /\ RoundInit
    /\ pc = [b \in Bidder |-> "idle"]
    /\ plan = [b \in Bidder |-> NoBid]
    /\ requests = [b \in Bidder |-> <<>>]

----------------------------------------------------------------------------
(* The mandate *)

Current(m) == clock <= m.expires /\ clock <= m.deadline

verifySessionMandate(m) ==
    m.authentic /\ Current(m) /\ m.maxBid <= m.maxEscrow /\ m.price <= m.maxSpend

----------------------------------------------------------------------------
(* A run of the agent *)

Goto(b, l) == pc' = [pc EXCEPT ![b] = l]

(* A rejected await, a failed check, a killed process: the run is over,    *)
(* and what it sent stays sent.                                            *)
Throw(b) ==
    /\ pc[b] # "idle"
    /\ Goto(b, "idle") /\ plan' = [plan EXCEPT ![b] = NoBid]
    /\ UNCHANGED requests /\ UNCHANGED roundVars

(* mutant: runs on whatever mandate it is given *)
StartUnverified(b) ==
    /\ pc[b] = "idle"
    /\ Goto(b, "getRound")
    /\ UNCHANGED <<plan, requests>> /\ UNCHANGED roundVars

(* runBidderAgent, up to its first await *)
Start(b) ==
    /\ pc[b] = "idle"
    /\ verifySessionMandate(Mandate[b])
    /\ Goto(b, "getRound")
    /\ UNCHANGED <<plan, requests>> /\ UNCHANGED roundVars

(* The price checked is the mandate's own, before the server has quoted    *)
(* one, and against nothing spent.                                         *)
GetRound(b) ==
    /\ pc[b] = "getRound" /\ status = "Open"
    /\ assertAppraisalSpendAllowed(Mandate[b], Mandate[b].price, 0)
    /\ Goto(b, "quote")
    /\ UNCHANGED <<plan, requests>> /\ UNCHANGED roundVars

(* A paid request, with what the appraisal of it will suggest; nothing if  *)
(* parseAppraisalRequest refuses the run's attributes.                     *)
NewRequests ==
    [stage : {"sent"}, amount : {Asked}, charged : {FALSE},
     wellFormed : {TRUE}, suggests : Suggestions]
    \cup [stage : {"sent"}, amount : {Asked}, charged : {FALSE},
          wellFormed : {FALSE}, suggests : {0}]

(* 402: paidFetch signs a payment of what the server asks and retries. *)
Quoted(b) ==
    /\ pc[b] = "quote" /\ Len(requests[b]) < MaxPaid
    /\ \E r \in NewRequests : requests' = [requests EXCEPT ![b] = Append(@, r)]
    /\ Goto(b, "paid")
    /\ UNCHANGED plan /\ UNCHANGED roundVars

(* mutant: takes an appraisal that was refused for one that was given *)
AppraisedAnyway(b) ==
    LET r == requests[b][Len(requests[b])] IN
    /\ pc[b] = "paid" /\ r.stage \in {"answered", "refused"}
    /\ \E o \in bidFromAppraisal(Mandate[b], r.suggests) : plan' = [plan EXCEPT ![b] = o]
    /\ Goto(b, "seal")
    /\ UNCHANGED requests /\ UNCHANGED roundVars

(* 200 with the appraisal of the run's own, newest request. *)
Appraised(b) ==
    LET r == requests[b][Len(requests[b])] IN
    /\ pc[b] = "paid" /\ r.stage = "answered"
    /\ \E o \in bidFromAppraisal(Mandate[b], r.suggests) : plan' = [plan EXCEPT ![b] = o]
    /\ Goto(b, "seal")
    /\ UNCHANGED requests /\ UNCHANGED roundVars

Sealed(b) ==
    /\ pc[b] = "seal"
    /\ Goto(b, "commit")
    /\ UNCHANGED <<plan, requests>> /\ UNCHANGED roundVars

(* The commit lands; whether its answer arrives makes no difference. *)
CommitBid(b) ==
    /\ pc[b] = "commit"
    /\ Commit(b, plan[b])
    /\ Goto(b, "idle") /\ plan' = [plan EXCEPT ![b] = NoBid]
    /\ UNCHANGED requests

----------------------------------------------------------------------------
(* The server, one handler per request *)

Advance(b, i, r) ==
    /\ requests' = [requests EXCEPT ![b][i] = r]
    /\ UNCHANGED <<pc, plan>> /\ UNCHANGED roundVars

(* processHTTPRequest: the payment is authorised, not captured. *)
VerifyPayment(b, i) ==
    LET r == requests[b][i] IN
    /\ r.stage = "sent"
    /\ \E s \in {"verified", "refused"} : Advance(b, i, [r EXCEPT !.stage = s])

(* mutant: captures the payment before it looks at the request *)
SettleFirst(b, i) ==
    LET r == requests[b][i] IN
    /\ r.stage = "verified"
    /\ Advance(b, i, [r EXCEPT !.charged = TRUE,
                               !.stage = IF r.wellFormed THEN "settled" ELSE "refused"])

(* A request that does not parse is refused before anything is captured.   *)
(* A settlement may fail, and may be reported as failed though it landed.  *)
SettlePayment(b, i) ==
    LET r == requests[b][i] IN
    /\ r.stage = "verified"
    /\ \/ Advance(b, i, [r EXCEPT !.stage = "refused"])
       \/ /\ r.wellFormed
          /\ \E s \in {"settled", "refused"} :
                Advance(b, i, [r EXCEPT !.charged = TRUE, !.stage = s])

AnswerRequest(b, i) ==
    LET r == requests[b][i] IN
    /\ r.stage = "settled"
    /\ Advance(b, i, [r EXCEPT !.stage = "answered"])

----------------------------------------------------------------------------

Agent(b) ==
    \/ Start(b) \/ GetRound(b) \/ Quoted(b) \/ Appraised(b) \/ Sealed(b)
    \/ CommitBid(b) \/ Throw(b)

Server(b, i) == VerifyPayment(b, i) \/ SettlePayment(b, i) \/ AnswerRequest(b, i)

Next ==
    \/ \E b \in Bidder : Agent(b) \/ \E i \in DOMAIN requests[b] : Server(b, i)
    \/ (Passing \/ Anyone) /\ UNCHANGED agentVars

Spec == Init /\ [][Next]_vars

----------------------------------------------------------------------------
(* Properties *)

Charges(b) == {i \in DOMAIN requests[b] : requests[b][i].charged}

Spent(b) == MapThenSumSet(LAMBDA i : requests[b][i].amount, Charges(b))

(* Whatever the appraisal says and however often the agent is run, what    *)
(* stands on chain for a session is a bid its principal authorised: within *)
(* maxBid and maxEscrow, valid for the contract's own check at reveal, and *)
(* made on an authentic, consistent mandate.                               *)
BidsWithinMandate ==
    \A b \in Bidder :
        bids[b] # NoBid =>
            /\ Mandate[b].authentic /\ Mandate[b].maxBid <= Mandate[b].maxEscrow
            /\ bids[b].value \in 1..Mandate[b].maxBid
            /\ bids[b].escrow \in bids[b].value..Mandate[b].maxEscrow

(* Over overwritten commits, refunds and settlement, a round never costs a *)
(* session more than maxEscrow while it runs, nor more than maxBid once it *)
(* is over.                                                                *)
LossWithinMandate ==
    \A b \in Bidder :
        /\ -wallet[b] <= Mandate[b].maxEscrow
        /\ status \in Final => -wallet[b] <= Mandate[b].maxBid

(* No bid stands that is not backed by an appraisal the session was        *)
(* charged for: a lost answer, a refused or an unsettled payment is never  *)
(* bid on, also not by a later run.                                        *)
PaidBeforeBid ==
    \A b \in Bidder :
        bids[b] # NoBid =>
            \E i \in Charges(b) : bids[b].value = Clamped(Mandate[b], requests[b][i].suggests)

(* server.ts:191-193: "only settle on a valid request so a malformed body  *)
(* never costs the caller"; and nobody is charged on a mandate that does   *)
(* not verify.                                                             *)
MalformedNeverCosts ==
    \A b \in Bidder :
        \A i \in Charges(b) : requests[b][i].wellFormed /\ Mandate[b].authentic

(* mandate.ts:35: "agent refuses if server asks more" than                 *)
(* appraisalPriceStroops.                                                  *)
RefusesHigherPrice ==
    \A b \in Bidder : \A i \in Charges(b) : requests[b][i].amount <= Mandate[b].price

(* mandate.ts:33: maxAppraisalSpendStroops is the "maximum total x402      *)
(* appraisal spend for this session".                                      *)
SpendWithinMandate == \A b \in Bidder : Spent(b) <= Mandate[b].maxSpend

=============================================================================
