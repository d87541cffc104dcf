--------------------------------- MODULE E2E ---------------------------------
(***************************************************************************)
(* The scripts that run whole rounds from the outside and report a         *)
(* verdict: agents-e2e, lifecycle-e2e and keeper-e2e (services), the       *)
(* mainnet settle, micro and verify runners and the live smoke test.  One  *)
(* of them runs here against one round, using the keeper's own keepRound   *)
(* and closeRound (the actions of Keeper, one per awaited call), while     *)
(* strangers may bid, anybody may call what is permissionless, Drand may   *)
(* be late, one call may fail, and the script itself may be slow.          *)
(*                                                                         *)
(* A script is the sequence of places Plan[kind]; `step' is where it is.   *)
(* What a script asserts at a place decides whether it goes on or ends     *)
(* "failed"; past its last place it has "passed".                          *)
(***************************************************************************)
EXTENDS Keeper, Sequences

CONSTANTS
    me,             \* the script's keeper account
    Own1, Own2,     \* the bidders the script signs for
    Rival,          \* bidders who may bid besides
    Low, High,      \* the bids it places
    MicroMax,       \* MAINNET_MICRO_MAX_ESCROW
    Margin,         \* seconds the scripts wait past the reveal deadline
    MaxPasses,      \* re-passes while the round is still Open
    MaxMeddling     \* bound on what strangers do during a run

Kinds == {"agents", "lifecycle", "keeper", "settle", "micro", "verify", "smoke"}

(* Nothing ties the ledger's lag to the margin the scripts leave for it. *)
ASSUME ScriptAssumption ==
    /\ me \in Keeper /\ {Own1, Own2} \cup Rival \subseteq Bidder /\ {Low, High} \subseteq Offer
    /\ Own1 # Own2
    /\ Low.value < High.value /\ High.value <= High.escrow /\ Low.value <= Low.escrow
    /\ Low.value > 0 /\ Low.seal = "good" /\ High.seal = "good" /\ HighestBid
    /\ RevealDeadline + Margin < MaxTime
    /\ {MicroMax, Margin, MaxPasses, MaxMeddling} \subseteq Nat

VARIABLES
    kind,       \* which script
    step,       \* its place in Plan[kind]
    verdict,    \* "running", "passed" or "failed"
    passes,     \* re-passes (keepRound) and retries (closeRound) so far
    final,      \* finalStatus of the last keepRound or closeRound
    closed,     \* what the last closeRound did: cleared, settled
    before,     \* balances read earlier: operator, contract, the two bidders
    blame,      \* history: what outside the script went against it
    meddled     \* history: what strangers did

scriptVars == <<kind, step, verdict, passes, final, closed, before, blame, meddled>>
allVars == <<vars, scriptVars>>

AgentsPlan == <<"bid1", "bid2", "index", "before", "keep", "wait", "close", "closed",
                "balances">>
LifecyclePlan == <<"before", "bid1", "bid2", "locked", "keep", "wait", "close", "closed",
                   "balances", "close", "closedAgain">>
KeeperPlan == <<"bid1", "keep", "bidState", "keepAgain">>
SettlePlan == <<"status", "keep", "wait", "close", "closed", "status">>
SmokePlan == <<"bid1", "status", "bidState">>

Plan == [agents |-> AgentsPlan, lifecycle |-> LifecyclePlan, keeper |-> KeeperPlan,
         settle |-> SettlePlan, micro |-> <<"bid1">>, verify |-> <<"verify">>,
         smoke |-> SmokePlan]

Here == Plan[kind][step]
Last == step = Len(Plan[kind])
At(place) == verdict = "running" /\ Here = place

(* The script signs for these; everyone else is a stranger to it. *)
Own == CASE kind \in {"agents", "lifecycle"} -> {Own1, Own2}
         [] kind \in {"keeper", "micro", "smoke"} -> {Own1}
         [] OTHER -> {}

(* agent-alpha bids first and highest; lifecycle's second bidder outbids. *)
FirstBid == IF kind = "agents" THEN High ELSE Low
SecondBid == IF kind = "agents" THEN Low ELSE High

ScriptInit ==
    /\ Init
    /\ kind \in Kinds /\ step = 1 /\ verdict = "running" /\ passes = 0
    /\ final = "none" /\ closed = [cleared |-> FALSE, settled |-> FALSE]
    /\ before = [till |-> 0, vault |-> 0, w1 |-> 0, w2 |-> 0]
    /\ blame = {} /\ meddled = 0

----------------------------------------------------------------------------
(* Control *)

Advance ==
    /\ IF Last THEN verdict' = "passed" /\ UNCHANGED step
               ELSE step' = step + 1 /\ UNCHANGED verdict
    /\ UNCHANGED kind

(* main().catch: report and exit(1) *)
Fail == verdict' = "failed" /\ UNCHANGED <<kind, step>>

Assert(ok) == IF ok THEN Advance ELSE Fail

Results == <<passes, final, closed, before, meddled>>

Blame(cause, holds) == blame' = IF holds THEN blame \cup {cause} ELSE blame

(* A place that only reads the chain and asserts. *)
Check(place, ok) ==
    /\ At(place) /\ Assert(ok)
    /\ Blame("late", place = "bidState" /\ ledger > RevealDeadline)
    /\ UNCHANGED Results /\ UNCHANGED vars

----------------------------------------------------------------------------
(* Committing *)

PlaceBid(b, o) ==
    /\ \/ Commit(b, o) /\ Advance /\ UNCHANGED blame
       \/ /\ status # "Open" \/ ledger > CommitDeadline
          /\ Fail /\ Blame("late", ledger > CommitDeadline) /\ UNCHANGED roundVars
    /\ UNCHANGED Results /\ UNCHANGED keeperVars

(* parseStroops: positive and micro; a bid its escrow covers *)
MicroInput(o) ==
    /\ 0 < o.value /\ o.value <= MicroMax /\ o.escrow <= MicroMax
    /\ o.value <= o.escrow

CommitMicro ==
    /\ At("bid1") /\ kind = "micro"
    /\ \E o \in Offer :
        \/ MicroInput(o) /\ PlaceBid(Own1, o)
        \/ /\ ~MicroInput(o) /\ Fail /\ Blame("input", TRUE)
           /\ UNCHANGED Results /\ UNCHANGED vars

CommitFirst == At("bid1") /\ kind # "micro" /\ PlaceBid(Own1, FirstBid)
CommitSecond == At("bid2") /\ PlaceBid(Own2, SecondBid)

(* getBidders: both agents, and nobody else *)
CheckIndex == Check("index", Index = {Own1, Own2})

CheckLocked == Check("locked", vault - before.vault = Low.escrow + High.escrow)

ReadBalances ==
    /\ At("before") /\ Advance
    /\ before' = [till |-> till, vault |-> vault, w1 |-> wallet[Own1], w2 |-> wallet[Own2]]
    /\ UNCHANGED <<passes, final, closed, blame, meddled>> /\ UNCHANGED vars

----------------------------------------------------------------------------
(* keepRound, and again while the round is Open *)

Keeping == verdict = "running" /\ Here \in {"keep", "keepAgain"}

StartKeep ==
    /\ Keeping /\ Read(me, "asleep", "keepRound")
    /\ UNCHANGED scriptVars

(* maxWaitSeconds outlasts R for a round the script created; a settle run  *)
(* may meet a round whose R is further off.                                *)
Waits == status = "Open" /\ ~RoundDue /\ kind # "settle"

KeepBody ==
    \/ ~Waits /\ KeepRound(me)
    \/ BeaconNotServed(me)
    \/ OpenRevealTx(me)
    \/ Reopened(me)
    \/ GetBidders(me)
    \/ NextBidder(me)
    \/ GetSeal(me)
    \/ RevealTx(me)
    \/ LoopDone(me)
    \/ Kept(me)

(* A call of the pass: it returns at "rewatch" and throws to "asleep". *)
KeepStep ==
    /\ Keeping /\ KeepBody
    /\ final' = IF pc'[me] = "rewatch" THEN status ELSE final
    /\ blame' = blame \cup (IF ledger > RevealDeadline THEN {"late"} ELSE {})
                      \cup (IF pc'[me] = "rewatch" /\ status = "Open" THEN {"drand"} ELSE {})
    /\ IF pc'[me] = "asleep" THEN Fail ELSE UNCHANGED <<kind, step, verdict>>
    /\ UNCHANGED <<passes, closed, before, meddled>>

Opened == "openedReveal" \in claims[me]

(* What each script demands of the pass's result. *)
AllRevealed == Own \subseteq revealedBy[me]
KeeperPass == (Opened \/ final = "Revealing") /\ Own1 \in revealedBy[me]
(* keeper-e2e's second pass: nothing re-done *)
KeeperPassAgain ==
    /\ ~Opened /\ revealedBy[me] = {}
    /\ skipped[me][Own1] \in {"already revealed", "race"}

PassAccepted ==
    CASE kind \in {"agents", "lifecycle"} -> AllRevealed
      [] kind = "keeper" -> IF Here = "keep" THEN KeeperPass ELSE KeeperPassAgain
      [] kind = "settle" -> final # "Open"

KeepReturned(again) ==
    /\ Keeping /\ pc[me] = "rewatch"
    /\ IF again
         THEN passes' = passes + 1 /\ UNCHANGED <<kind, step, verdict>>
         ELSE Assert(PassAccepted) /\ UNCHANGED passes
    /\ Sleep(me)
    /\ UNCHANGED <<final, closed, before, blame, meddled, faults, swept>> /\ UNCHANGED roundVars

(* mutant: re-pass for as long as the round is Open *)
RepassForever ==
    /\ Keeping /\ pc[me] = "rewatch" /\ final = "Open" /\ Here = "keep"
    /\ Sleep(me)
    /\ UNCHANGED <<scriptVars, faults, swept>> /\ UNCHANGED roundVars

Repass == final = "Open" /\ passes < MaxPasses /\ Here = "keep" /\ KeepReturned(TRUE)
PassDone == ~(final = "Open" /\ passes < MaxPasses /\ Here = "keep") /\ KeepReturned(FALSE)

----------------------------------------------------------------------------
(* Waiting out the reveal deadline, then closeRound *)

Waited == clock > RevealDeadline + Margin

(* mutant: no margin for the ledger *)
WaitDeadlineExact ==
    /\ At("wait") /\ clock > RevealDeadline
    /\ Advance /\ UNCHANGED Results /\ UNCHANGED blame /\ UNCHANGED vars

WaitDeadline ==
    /\ At("wait") /\ Waited
    /\ Advance /\ UNCHANGED Results /\ UNCHANGED blame /\ UNCHANGED vars

StartClose ==
    /\ At("close") /\ Read(me, "asleep", "closeRound")
    /\ closed' = [cleared |-> FALSE, settled |-> FALSE]
    /\ UNCHANGED <<kind, step, verdict, passes, final, before, blame, meddled>>

(* The reveal window is still open for a ledger that lags more than Margin. *)
TooFarBehind == ledger <= RevealDeadline /\ clock - ledger > Margin

(* A call of closeRound.  A refused clear that is not skipped throws, and  *)
(* so may a refused settle; every other way to "asleep" is its return.     *)
(* The contract goes by its ledger's time: if that is further behind than  *)
(* the margin, the clear may come too early for it.                        *)
CloseStep ==
    LET settledNow == pc[me] = "settle" /\ status = "Cleared" IN
    /\ At("close")
    /\ CloseRound(me) \/ ClearTx(me) \/ Cleared(me) \/ SettleTx(me)
    /\ closed' = [cleared |-> closed.cleared \/ "cleared" \in claims'[me],
                  settled |-> closed.settled \/ settledNow]
    /\ \/ pc'[me] # "asleep" /\ UNCHANGED <<kind, step, verdict, final>>
       \/ /\ pc'[me] = "asleep" /\ pc[me] # "clear"
          /\ Advance /\ final' = status'
       \/ /\ pc'[me] = "asleep" /\ pc[me] \in {"clear", "settle"} /\ ~settledNow
          /\ Fail /\ UNCHANGED final
    /\ Blame("lag", pc[me] = "clear" /\ TooFarBehind)
    /\ UNCHANGED <<passes, before, meddled>>

(* mainnet-settle tries once more after five seconds. *)
RetryClose ==
    /\ At("closed") /\ kind = "settle" /\ passes <= MaxPasses
    /\ ~closed.settled /\ final # "Settled"
    /\ step' = step - 1 /\ passes' = MaxPasses + 1
    /\ UNCHANGED <<kind, verdict, final, closed, before, blame, meddled>> /\ UNCHANGED vars

AgentsClosed == closed.cleared /\ closed.settled /\ final = "Settled"
LifecycleClosed == closed.cleared /\ closed.settled /\ winner = Own2

CheckClosed ==
    \/ kind = "agents" /\ Check("closed", AgentsClosed)
    \/ kind = "lifecycle" /\ Check("closed", LifecycleClosed)
    \/ /\ kind = "settle" /\ (passes > MaxPasses \/ closed.settled \/ final = "Settled")
       /\ Check("closed", TRUE)

CheckClosedAgain ==
    Check("closedAgain", ~closed.cleared /\ ~closed.settled /\ final = "Settled")

----------------------------------------------------------------------------
(* What is asserted of the chain at the end *)

(* mutant: the operator's gain is not compared *)
AgentsBalancesNoDelta == vault = 0

AgentsBalances == vault = 0 /\ till - before.till = High.value

LifecycleBalances ==
    /\ till - before.till = High.value
    /\ wallet[Own1] = before.w1 /\ before.w2 - wallet[Own2] = High.value
    /\ vault = 0

CheckBalances ==
    Check("balances", IF kind = "agents" THEN AgentsBalances ELSE LifecycleBalances)

(* the bid is revealed with its value, and valid *)
KeeperBidState == Own1 \in revealed /\ bids[Own1].value = Low.value /\ Valid(Own1)

(* the only bid, as it was sealed, not yet valid, its seal stored *)
SmokeBidState == Index = {Own1} /\ bids[Own1] = Low /\ ~Valid(Own1) /\ Own1 \in seals

CheckBidState ==
    Check("bidState", IF kind = "keeper" THEN KeeperBidState ELSE SmokeBidState)

(* settle: keep the round only while it is Open or Revealing, and demand   *)
(* Settled at the end; smoke: the round must still be Open.                *)
CheckStatus ==
    \/ kind = "smoke" /\ Check("status", status = "Open")
    \/ kind = "settle" /\ Last /\ Check("status", status = "Settled")
    \/ /\ kind = "settle" /\ ~Last /\ At("status")
       /\ step' = IF status \in {"Open", "Revealing"} THEN 2 ELSE 3
       /\ UNCHANGED <<kind, verdict, blame>> /\ UNCHANGED Results /\ UNCHANGED vars

(* The frozen artifact: one bidder, its bid and escrow, valid and settled. *)
CheckVerify ==
    Check("verify", /\ status = "Settled" /\ Cardinality(Index) = 1
                    /\ \A b \in Index : bids[b] = Low /\ Valid(b))

----------------------------------------------------------------------------
(* The world around the script *)

ScriptStep ==
    \/ CommitMicro \/ CommitFirst \/ CommitSecond
    \/ CheckIndex \/ CheckLocked \/ ReadBalances
    \/ StartKeep \/ KeepStep \/ Repass \/ PassDone
    \/ WaitDeadline \/ StartClose \/ CloseStep \/ RetryClose
    \/ CheckClosed \/ CheckClosedAgain
    \/ CheckBalances \/ CheckBidState \/ CheckStatus \/ CheckVerify

(* An awaited call throws, before or after its transaction landed. *)
CallFails ==
    /\ verdict = "running" /\ Fail
    /\ \/ pc[me] # "asleep" /\ RpcFails(me)
       \/ /\ pc[me] = "asleep" /\ faults < MaxFaults /\ faults' = faults + 1
          /\ \/ Here = "bid1" /\ kind # "micro" /\ Commit(Own1, FirstBid)
             \/ Here = "bid2" /\ Commit(Own2, SecondBid)
             \/ UNCHANGED roundVars
          /\ UNCHANGED <<pc, todo, current, decrypted, claims, revealedBy, skipped, swept>>
    /\ UNCHANGED Results /\ UNCHANGED blame

(* Strangers act at most MaxMeddling times; the bids of the round that     *)
(* settle or verify is pointed at, and its settlement before verify, are   *)
(* not meddling.                                                           *)
Stranger ==
    /\ \/ /\ \E b \in Rival \ Own, o \in Offer : bids[b] = NoBid /\ Commit(b, o)
          /\ meddled' = meddled + (IF Own = {} THEN 0 ELSE 1)
       \/ Anyone /\ meddled' = meddled + (IF kind = "verify" THEN 0 ELSE 1)
    /\ meddled' <= MaxMeddling

(* What happens after the verdict is not the script's any more. *)
ScriptNext ==
    /\ verdict = "running"
    /\ \/ ScriptStep
       \/ CallFails
       \/ /\ Stranger /\ UNCHANGED keeperVars
          /\ UNCHANGED <<kind, step, verdict, passes, final, closed, before, blame>>
       \/ Passing /\ UNCHANGED keeperVars /\ UNCHANGED scriptVars

ScriptSpec == ScriptInit /\ [][ScriptNext]_allVars

(* The script runs on, time passes and ledgers close; nothing else must    *)
(* happen: not the beacon, not a stranger's help.                          *)
ScriptFairSpec ==
    /\ ScriptSpec
    /\ WF_allVars(ScriptStep)
    /\ WF_allVars(Tick /\ UNCHANGED keeperVars /\ UNCHANGED scriptVars)
    /\ WF_allVars(CloseLedger /\ UNCHANGED keeperVars /\ UNCHANGED scriptVars)

----------------------------------------------------------------------------
(* Properties *)

(* The trace agents-e2e writes for the web demo: settled, contract empty,  *)
(* the operator paid alpha's bid, beta refunded, both bids revealed, valid.*)
AgentsReport ==
    /\ status = "Settled" /\ vault = 0 /\ till = High.value
    /\ wallet[Own2] = 0 /\ Valid(Own1) /\ Valid(Own2)

(* A green run means what its report says, whatever strangers, races and   *)
(* lost answers surrounded it.  lifecycle-e2e: bidder 2 won and paid its   *)
(* bid, everyone else is whole.  keeper-e2e: the bid is public and valid.  *)
(* mainnet-settle and -verify: settled.  mainnet-micro: a bid that can     *)
(* win.  live-smoke: the bid is stored.                                    *)
ReportTrue ==
    verdict = "passed" =>
        /\ kind = "agents" => AgentsReport
        /\ kind = "lifecycle" =>
              /\ status = "Settled" /\ winner = Own2 /\ vault = 0
              /\ till = High.value /\ wallet[Own2] = -till
              /\ \A b \in Bidder \ {Own2} : wallet[b] = 0
        /\ kind = "keeper" => Valid(Own1)
        /\ kind \in {"settle", "verify"} => status = "Settled" /\ vault = 0
        /\ kind = "micro" => Eligible(Own1)
        /\ kind = "smoke" => bids[Own1] = Low

(* A red run means something: a script fails only when a stranger stepped  *)
(* in, a call failed, Drand was late, the ledger was further behind than   *)
(* the margin (three seconds, agents-e2e.ts:365; ledgers close about every *)
(* five) when it cleared, the script missed a deadline or was given bad    *)
(* input.  Left alone it passes.  Two runners are no tests:                *)
(* mainnet-settle also refuses a round that had no valid bid, throws when  *)
(* a bid of the round opens to something else than it committed and the    *)
(* refusal comes without its name (keepRound), and verify fails until the  *)
(* round it is pointed at is the one it expects.                           *)
FailsOnlyForCause ==
    verdict = "failed" =>
        \/ blame # {} \/ faults > 0 \/ meddled > 0
        \/ kind = "settle" /\ status = "Voided"
        \/ kind = "settle" /\ \E b \in Index : bids[b].seal = "mismatch"
        \/ kind = "verify"

(* Every script ends: the waits are bounded by the clock, the re-passes by *)
(* their count, also when Drand never publishes R.                         *)
Ends == <>(verdict # "running")
----------------------------------------------------------------------------
(* The inductive invariant behind the two safety properties: what a script *)
(* that is still running knows of the round at each of its places.         *)

ScriptTypeOK ==
    /\ kind \in Kinds /\ step \in 1..Len(Plan[kind]) /\ {passes, meddled} \subseteq Nat
    /\ final \in Statuses \cup {"none"}
    /\ closed \in [cleared : BOOLEAN, settled : BOOLEAN]
    /\ blame \subseteq {"late", "drand", "lag", "input"}

TwoBids == {"agents", "lifecycle"}
Closing == {"agents", "lifecycle", "settle"}
Bid1At == IF kind = "lifecycle" THEN 2 ELSE 1
KeepAt == IF kind \in TwoBids THEN 5 ELSE 2
CloseAt == IF kind \in TwoBids THEN 7 ELSE 4
Retried == passes > MaxPasses

(* between two calls of the keeper's functions the script holds nothing *)
KeepLabels == {"asleep", "keepRound", "openReveal", "reopened", "getBidders", "nextBidder",
               "getSeal", "reveal", "kept", "rewatch"}
CloseLabels == {"asleep", "closeRound", "clear", "cleared", "settle"}

CallInv ==
    /\ pc[me] \in CASE Here \in {"keep", "keepAgain"} -> KeepLabels
                    [] Here = "close" -> CloseLabels
                    [] OTHER -> {"asleep"}
    /\ pc[me] \in {"asleep", "keepRound", "closeRound"} => claims[me] = {}

(* whatever goes on around the script: its bids are as it placed them, and *)
(* what it has asserted, waited for or done itself stays so                *)
SeenInv ==
    /\ kind \in {"agents", "lifecycle", "keeper", "smoke"} /\ step > Bid1At =>
          bids[Own1] = FirstBid
    /\ kind \in TwoBids /\ step > Bid1At + 1 => bids[Own2] = SecondBid
    /\ kind \in TwoBids /\ step > KeepAt => {Own1, Own2} \subseteq revealed
    /\ kind \in Closing /\ step >= CloseAt => Waited
    /\ closed.settled => kind \in Closing /\ step >= CloseAt /\ status = "Settled"
    /\ kind = "agents" =>
          /\ closed.settled \/ (step > 4 /\ status \in Voting) => before.till = 0
          /\ step = 9 => closed.settled
    /\ kind = "lifecycle" /\ step > 8 => status = "Settled" /\ winner = Own2
    /\ Retried => kind = "settle" /\ step >= CloseAt

(* a run nobody has disturbed so far *)
Clean == blame = {} /\ faults = 0 /\ meddled = 0

(* ... opens, clears and settles the round itself *)
NotOpened ==
    \/ kind \in {"micro", "smoke"} \/ step < KeepAt
    \/ step = KeepAt /\ pc[me] \in {"asleep", "keepRound", "openReveal"}
CloseBegun ==
    /\ kind \in Closing
    /\ \/ step > CloseAt
       \/ step = CloseAt /\ (pc[me] \in {"cleared", "settle"} \/ Retried)

StatusInv ==
    /\ NotOpened => status = "Open"
    /\ ~NotOpened /\ ~CloseBegun => status = "Revealing"
    /\ CloseBegun =>
          CASE step > CloseAt -> status \in {"Settled"} \cup (IF kind = "settle" THEN {"Voided"} ELSE {})
            [] step = CloseAt /\ Retried -> status = "Voided" /\ pc[me] \in {"asleep", "closeRound"}
            [] OTHER -> \/ status = "Cleared"
                        \/ status = "Voided" /\ kind = "settle" /\ pc[me] = "cleared"

(* ... has the index to itself and finds its seals where it left them *)
BidsInv ==
    /\ Index \subseteq Own
    /\ step <= Bid1At => Own1 \notin Index
    /\ step <= Bid1At + 1 => Own2 \notin Index
    /\ Index \subseteq seals \/ ledger > RevealDeadline
    /\ kind = "lifecycle" =>
          /\ step <= 4 => vault = (IF step > 2 THEN Low.escrow ELSE 0)
                                  + (IF step > 3 THEN High.escrow ELSE 0)
          /\ step > 1 => before = [till |-> 0, vault |-> 0, w1 |-> 0, w2 |-> 0]

(* ... reveals all there is to reveal in its first pass, *)
PassInv ==
    /\ step = KeepAt =>
          /\ revealed = revealedBy[me]
          /\ pc[me] = "rewatch" => final = "Revealing"
          /\ pc[me] = "reveal" => bids[current[me]].seal # "garbage"
    /\ step = KeepAt /\ Own # {} =>
          /\ SkippedBy(me) = {}
          /\ pc[me] = "rewatch" => revealed = Index
    /\ kind = "keeper" /\ step > KeepAt => Own1 \in revealed

(* nothing in a second one, *)
AgainInv ==
    /\ claims[me] = {} /\ revealedBy[me] = {}
    /\ pc[me] \notin {"openReveal", "reopened", "getSeal", "reveal"}
    /\ \A b \in SkippedBy(me) : skipped[me][b] = "already revealed"
    /\ pc[me] = "rewatch" => Own1 \in SkippedBy(me)

(* and reports of closeRound what it did *)
ClosedInv ==
    /\ step = CloseAt /\ pc[me] \in {"cleared", "settle"} => closed.cleared
    /\ step = CloseAt + 1 =>
          /\ final = status
          /\ kind # "settle" => closed.cleared /\ closed.settled
    /\ kind = "lifecycle" =>
          /\ step = 10 => pc[me] \in {"asleep", "closeRound"}
          /\ (step = 10 /\ pc[me] = "closeRound") \/ step = 11 => ~closed.cleared /\ ~closed.settled
          /\ step = 11 => final = "Settled"

LeftAlone ==
    /\ kind # "verify" => StatusInv
    /\ kind \notin {"settle", "verify"} => BidsInv
    /\ kind \in {"agents", "lifecycle", "keeper", "settle"} => PassInv
    /\ kind = "keeper" /\ step = 4 => AgainInv
    /\ kind \in Closing => ClosedInv

RunningInv ==
    /\ IInv /\ FundsConserved /\ SettlementExact
    /\ ScriptTypeOK /\ CallInv /\ SeenInv
    /\ Clean => LeftAlone

ScriptIInv ==
    /\ verdict \in {"running", "passed", "failed"}
    /\ verdict = "running" => RunningInv
    /\ ReportTrue /\ FailsOnlyForCause

=============================================================================
