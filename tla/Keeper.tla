------------------------------- MODULE Keeper -------------------------------
(***************************************************************************)
(* The watch-mode keeper (services/keeper/src/keeper.ts, watch.ts): any    *)
(* number of stateless processes that poll one round and drive it through  *)
(* void-if-stale, open_reveal, reveal, clear and settle, racing each other *)
(* and everyone else who may call the same permissionless operations.      *)
(*                                                                         *)
(* Each awaited RPC call is one step: what a keeper decides from an answer *)
(* is decided in the step that reads it, and whatever it submits next is   *)
(* judged against the chain as it is by then.  pc[k] names the call keeper *)
(* k makes next; "asleep" is the watch loop between two ticks.             *)
(***************************************************************************)
EXTENDS Round

CONSTANTS
    Keeper,
    DueTime,        \* when keepers take R to be out
    ErrorShapes,    \* how a refusal reaches the keeper: "named", "coded"
    MaxFaults       \* bound on RPC and Drand failures

(* errorMatches looks for the NAME of an error in the text of what was     *)
(* thrown.  A refusal the SDK decodes carries the name; one that surfaces  *)
(* as a host error carries its number only ("Contract, #15").              *)
ASSUME ShapeAssumption ==
    /\ ErrorShapes \subseteq {"named", "coded"} /\ ErrorShapes # {}
    /\ MaxFaults \in Nat

(* waitForRound computes genesis + period * R, one period after R is out   *)
(* (BeaconTime's timeOfRound, publishedAt).                                *)
ASSUME DueAssumption == DueTime \in Nat /\ RevealTime <= DueTime

VARIABLES
    pc,         \* [Keeper -> Label]
    todo,       \* [Keeper -> bidders the reveal loop has still to visit]
    current,    \* [Keeper -> the bidder it is revealing]
    decrypted,  \* [Keeper -> does the value it decrypted hash to H]
    claims,     \* [Keeper -> what its results claim: openedReveal, cleared, voided]
    revealedBy, \* [Keeper -> result.revealed of the pass under way]
    skipped,    \* [Keeper -> result.skipped: a reason per bidder, "-" if none]
    faults,     \* failures so far
    swept       \* history: has a reveal pass ended without giving any bid up

keeperVars == <<pc, todo, current, decrypted, claims, revealedBy, skipped, faults, swept>>
vars == <<clock, ledger, beacon, status, bids, revealed, seals, winner,
          wallet, till, vault, pc, todo, current, decrypted, claims,
          revealedBy, skipped, faults, swept>>

TxLabels == {"void", "openReveal", "reveal", "clear", "settle"}
ReadLabels == {"voidIfStale", "watch", "keepRound", "reopened", "getBidders",
               "nextBidder", "getSeal", "kept", "rewatch", "closeRound", "cleared"}
Labels == TxLabels \cup ReadLabels \cup {"asleep"}

Reasons == {"-", "state read failed", "already revealed", "seal expired/absent",
            "decrypt failed", "race", "hash mismatch", "window closed"}

Claims == {"openedReveal", "cleared", "voided"}
NoneSkipped == [b \in Bidder |-> "-"]

KeeperTypeOK ==
    /\ pc \in [Keeper -> Labels]
    /\ todo \in [Keeper -> SUBSET Bidder]
    /\ current \in [Keeper -> Bidder \cup {NoOne}]
    /\ decrypted \in [Keeper -> BOOLEAN]
    /\ claims \in [Keeper -> SUBSET Claims]
    /\ revealedBy \in [Keeper -> SUBSET Bidder]
    /\ skipped \in [Keeper -> [Bidder -> Reasons]]
    /\ faults \in 0..MaxFaults
    /\ swept \in BOOLEAN

(* A result lists bidders of the round, with no other reasons than those   *)
(* keepRound gives: whatever else goes wrong ends the tick.                *)
TypeOK == RoundTypeOK /\ KeeperTypeOK

Init ==
    /\ RoundInit
    /\ pc = [k \in Keeper |-> "asleep"]
    /\ todo = [k \in Keeper |-> {}]
    /\ current = [k \in Keeper |-> NoOne]
    /\ decrypted = [k \in Keeper |-> FALSE]
    /\ claims = [k \in Keeper |-> {}]
    /\ revealedBy = [k \in Keeper |-> {}]
    /\ skipped = [k \in Keeper |-> NoneSkipped]
    /\ faults = 0
    /\ swept = FALSE

----------------------------------------------------------------------------
(* Control *)

Goto(k, l) == pc' = [pc EXCEPT ![k] = l]

(* The loop variables and the result record die with the tick, whether it  *)
(* returned or threw: the watch loop logs either and keeps nothing.        *)
Sleep(k) ==
    /\ Goto(k, "asleep")
    /\ todo' = [todo EXCEPT ![k] = {}]
    /\ current' = [current EXCEPT ![k] = NoOne]
    /\ decrypted' = [decrypted EXCEPT ![k] = FALSE]
    /\ claims' = [claims EXCEPT ![k] = {}]
    /\ revealedBy' = [revealedBy EXCEPT ![k] = {}]
    /\ skipped' = [skipped EXCEPT ![k] = NoneSkipped]

LoopUnchanged == UNCHANGED <<todo, current, decrypted, revealedBy, skipped>>

Proceed(k, to) ==
    \/ to = "asleep" /\ Sleep(k)
    \/ to # "asleep" /\ Goto(k, to) /\ LoopUnchanged /\ UNCHANGED claims

(* A read that only decides where to go. *)
Read(k, from, to) ==
    /\ pc[k] = from /\ Proceed(k, to)
    /\ UNCHANGED <<faults, swept>> /\ UNCHANGED roundVars

(* A refused transaction: skipped if errorMatches finds one of the names   *)
(* the caller lists, else thrown, which ends the tick.                     *)
Refused(k, codes, skips, next) ==
    /\ \E code \in codes, shape \in ErrorShapes :
            IF shape = "named" /\ code \in skips THEN Proceed(k, next) ELSE Sleep(k)
    /\ UNCHANGED <<faults, swept>> /\ UNCHANGED roundVars

IDEMPOTENT_OPEN == {"RevealAlreadyOpen", "WrongStatus", "AlreadyCleared"}
(* mutant: as lenient as IDEMPOTENT_OPEN *)
IDEMPOTENT_REVEALLoose == {"AlreadyRevealed", "WrongStatus", "AlreadyCleared"}
IDEMPOTENT_REVEAL == {"AlreadyRevealed"}

----------------------------------------------------------------------------
(* watchRound and voidIfStale *)

StartTick(k) == Read(k, "asleep", "voidIfStale")

(* mutant: waits for a round that is revealing, not one that never opened *)
VoidIfStaleRevealing(k) ==
    Read(k, "voidIfStale",
         IF status = "Revealing" /\ clock > RevealDeadline + VoidGrace THEN "void" ELSE "watch")

VoidIfStale(k) ==
    Read(k, "voidIfStale",
         IF status = "Open" /\ clock > RevealDeadline + VoidGrace THEN "void" ELSE "watch")

VoidTx(k) ==
    /\ pc[k] = "void"
    /\ \/ /\ Void
          /\ claims' = [claims EXCEPT ![k] = @ \cup {"voided"}]
          /\ Goto(k, "watch") /\ LoopUnchanged /\ UNCHANGED <<faults, swept>>
       \/ Refused(k, VoidRefusals, {"NotVoidable", "WrongStatus", "AlreadyCleared"}, "watch")

(* mutant: a cleared round is taken for a finished one *)
WatchRoundNotCleared(k) ==
    Read(k, "watch", IF status \in {"Open", "Revealing"} THEN "keepRound" ELSE "asleep")

WatchRound(k) ==
    Read(k, "watch",
         CASE status \in {"Open", "Revealing"} -> "keepRound"
           [] status = "Cleared" -> "closeRound"
           [] OTHER -> "asleep")

RewatchRound(k) ==
    Read(k, "rewatch",
         IF status \in {"Revealing", "Cleared"} THEN "closeRound" ELSE "asleep")

----------------------------------------------------------------------------
(* keepRound, phase A: open the reveal window *)

(* waitForRound with maxWaitSeconds = 0: has R's wall-clock time come, as  *)
(* the keeper computes it.                                                 *)
RoundDue == clock >= DueTime

(* With R's signature in hand the pass goes on to open_reveal; a round     *)
(* that is not due, or whose beacon is not served, is left for the next.   *)
KeepRound(k) ==
    Read(k, "keepRound",
         CASE status = "Open" /\ RoundDue /\ beacon -> "openReveal"
           [] status = "Revealing" -> "getBidders"
           [] OTHER -> "rewatch")

(* Five tries found no replica serving the beacon. *)
BeaconNotServed(k) ==
    /\ pc[k] = "keepRound" /\ status = "Open" /\ RoundDue
    /\ faults < MaxFaults /\ faults' = faults + 1
    /\ Goto(k, "rewatch")
    /\ LoopUnchanged /\ UNCHANGED <<claims, swept>> /\ UNCHANGED roundVars

(* mutant: openedReveal is set after the catch, skip or not *)
OpenRevealTxClaimsSkip(k) ==
    /\ pc[k] = "openReveal"
    /\ \/ OpenReveal
       \/ OpenRefusals \cap IDEMPOTENT_OPEN # {} /\ UNCHANGED roundVars
    /\ claims' = [claims EXCEPT ![k] = @ \cup {"openedReveal"}]
    /\ Goto(k, "reopened") /\ LoopUnchanged /\ UNCHANGED <<faults, swept>>

OpenRevealTx(k) ==
    /\ pc[k] = "openReveal"
    /\ \/ /\ OpenReveal
          /\ claims' = [claims EXCEPT ![k] = @ \cup {"openedReveal"}]
          /\ Goto(k, "reopened") /\ LoopUnchanged /\ UNCHANGED <<faults, swept>>
       \/ Refused(k, OpenRefusals, IDEMPOTENT_OPEN, "reopened")

Reopened(k) ==
    Read(k, "reopened", IF status = "Revealing" THEN "getBidders" ELSE "rewatch")

----------------------------------------------------------------------------
(* keepRound, phase B: reveal every seal.  The loop visits the index in    *)
(* order; the model lets it visit the bidders in any order.                *)

(* mutant: the last bidder of the index is not visited *)
GetBiddersButOne(k) ==
    /\ pc[k] = "getBidders"
    /\ \E last \in Bidder : todo' = [todo EXCEPT ![k] = Index \ {last}]
    /\ Goto(k, "nextBidder")
    /\ UNCHANGED <<current, decrypted, claims, revealedBy, skipped, faults, swept>>
    /\ UNCHANGED roundVars

GetBidders(k) ==
    /\ pc[k] = "getBidders"
    /\ todo' = [todo EXCEPT ![k] = Index]
    /\ Goto(k, "nextBidder")
    /\ UNCHANGED <<current, decrypted, claims, revealedBy, skipped, faults, swept>>
    /\ UNCHANGED roundVars

(* continue: record why and move on to the next bidder *)
SkipBidder(k, b, why) ==
    /\ skipped' = [skipped EXCEPT ![k][b] = why]
    /\ todo' = [todo EXCEPT ![k] = @ \ {b}]
    /\ current' = [current EXCEPT ![k] = NoOne]
    /\ decrypted' = [decrypted EXCEPT ![k] = FALSE]
    /\ Goto(k, "nextBidder")
    /\ UNCHANGED <<claims, revealedBy>>

(* getBidState: skip a bid that is revealed; a failed read is skipped too. *)
NextBidder(k) ==
    /\ pc[k] = "nextBidder"
    /\ \E b \in todo[k] :
        \/ /\ b \in revealed /\ SkipBidder(k, b, "already revealed")
           /\ UNCHANGED faults
        \/ /\ b \notin revealed
           /\ current' = [current EXCEPT ![k] = b] /\ Goto(k, "getSeal")
           /\ UNCHANGED <<todo, decrypted, claims, revealedBy, skipped, faults>>
        \/ /\ faults < MaxFaults /\ faults' = faults + 1
           /\ SkipBidder(k, b, "state read failed")
    /\ UNCHANGED swept /\ UNCHANGED roundVars

(* getSeal, then openBid, which fetches R's beacon from Drand. *)
GetSeal(k) ==
    LET b == current[k] IN
    /\ pc[k] = "getSeal"
    /\ \/ /\ b \notin seals /\ SkipBidder(k, b, "seal expired/absent")
          /\ UNCHANGED faults
       \/ /\ b \in seals
          /\ \/ /\ bids[b].seal = "garbage" /\ UNCHANGED faults
             \/ faults < MaxFaults /\ faults' = faults + 1
          /\ SkipBidder(k, b, "decrypt failed")
       \/ /\ b \in seals /\ bids[b].seal # "garbage"
          /\ decrypted' = [decrypted EXCEPT ![k] = (bids[b].seal = "good")]
          /\ Goto(k, "reveal")
          /\ UNCHANGED <<todo, current, claims, revealedBy, skipped, faults>>
    /\ UNCHANGED swept /\ UNCHANGED roundVars

(* mutant: an error it does not know is recorded like the ones it does *)
RevealTxCatchesAll(k) ==
    LET b == current[k] IN
    /\ pc[k] = "reveal"
    /\ \/ /\ decrypted[k] /\ Reveal(b)
          /\ revealedBy' = [revealedBy EXCEPT ![k] = @ \cup {b}]
          /\ todo' = [todo EXCEPT ![k] = @ \ {b}]
          /\ current' = [current EXCEPT ![k] = NoOne]
          /\ decrypted' = [decrypted EXCEPT ![k] = FALSE]
          /\ Goto(k, "nextBidder") /\ UNCHANGED <<claims, skipped>>
       \/ /\ \E code \in RevealRefusals(b, decrypted[k]), shape \in ErrorShapes :
                CASE shape = "named" /\ code \in IDEMPOTENT_REVEAL -> SkipBidder(k, b, "race")
                  [] shape = "named" /\ code = "HashMismatch" -> SkipBidder(k, b, "hash mismatch")
                  [] shape = "named" /\ code = "RevealWindowClosed" -> SkipBidder(k, b, "window closed")
                  [] OTHER -> SkipBidder(k, b, code)
          /\ UNCHANGED roundVars
    /\ UNCHANGED <<faults, swept>>

RevealTx(k) ==
    LET b == current[k] IN
    /\ pc[k] = "reveal"
    /\ \/ /\ decrypted[k] /\ Reveal(b)
          /\ revealedBy' = [revealedBy EXCEPT ![k] = @ \cup {b}]
          /\ todo' = [todo EXCEPT ![k] = @ \ {b}]
          /\ current' = [current EXCEPT ![k] = NoOne]
          /\ decrypted' = [decrypted EXCEPT ![k] = FALSE]
          /\ Goto(k, "nextBidder") /\ UNCHANGED <<claims, skipped>>
       \/ /\ \E code \in RevealRefusals(b, decrypted[k]), shape \in ErrorShapes :
                CASE shape = "named" /\ code \in IDEMPOTENT_REVEAL -> SkipBidder(k, b, "race")
                  [] shape = "named" /\ code = "HashMismatch" -> SkipBidder(k, b, "hash mismatch")
                  [] shape = "named" /\ code = "RevealWindowClosed" -> SkipBidder(k, b, "window closed")
                  [] OTHER -> Sleep(k)
          /\ UNCHANGED roundVars
    /\ UNCHANGED <<faults, swept>>

(* Reasons that give a bid up although its seal may be good. *)
GaveUp == {"state read failed", "decrypt failed", "seal expired/absent", "window closed"}

(* The loop is done; the pass re-reads the round and returns. *)
LoopDone(k) ==
    /\ pc[k] = "nextBidder" /\ todo[k] = {}
    /\ Goto(k, "kept")
    /\ swept' = (swept \/ \A b \in Bidder :
                    skipped[k][b] \in GaveUp => bids[b].seal = "garbage")
    /\ LoopUnchanged /\ UNCHANGED <<claims, faults>> /\ UNCHANGED roundVars

Kept(k) == Read(k, "kept", "rewatch")

----------------------------------------------------------------------------
(* closeRound: clear after the deadline (by the keeper's own clock), then  *)
(* settle                                                                  *)

CloseRound(k) ==
    Read(k, "closeRound",
         CASE status = "Revealing" /\ clock > RevealDeadline -> "clear"
           [] status = "Cleared" -> "settle"
           [] OTHER -> "asleep")

ClearTx(k) ==
    /\ pc[k] = "clear"
    /\ \/ /\ Clear
          /\ claims' = [claims EXCEPT ![k] = @ \cup {"cleared"}
                                \cup (IF winner' = NoOne THEN {"voided"} ELSE {})]
          /\ Goto(k, "cleared") /\ LoopUnchanged /\ UNCHANGED <<faults, swept>>
       \/ Refused(k, ClearRefusals,
                  {"AlreadyCleared", "RevealStillOpen", "WrongStatus", "RoundVoided"}, "cleared")

Cleared(k) == Read(k, "cleared", IF status = "Cleared" THEN "settle" ELSE "asleep")

(* Nothing is done after settle but reads for the report. *)
SettleTx(k) ==
    /\ pc[k] = "settle"
    /\ \/ /\ Settle /\ Sleep(k) /\ UNCHANGED <<faults, swept>>
       \/ Refused(k, SettleRefusals, {"AlreadySettled", "NotCleared", "WrongStatus"}, "asleep")

----------------------------------------------------------------------------
(* Failure: any awaited call may throw, and so may a transaction after it  *)
(* landed (its answer is lost).  Nothing catches it before the watch loop, *)
(* which logs it and moves on; a crash and restart looks the same.         *)

RpcFails(k) ==
    /\ pc[k] # "asleep" /\ faults < MaxFaults
    /\ faults' = faults + 1
    /\ \/ UNCHANGED chainVars
       \/ pc[k] = "void" /\ Void
       \/ pc[k] = "openReveal" /\ OpenReveal
       \/ pc[k] = "reveal" /\ decrypted[k] /\ Reveal(current[k])
       \/ pc[k] = "clear" /\ Clear
       \/ pc[k] = "settle" /\ Settle
    /\ Sleep(k)
    /\ UNCHANGED swept /\ UNCHANGED envVars

KeeperStep(k) ==
    \/ StartTick(k)
    \/ VoidIfStale(k)
    \/ VoidTx(k)
    \/ WatchRound(k)
    \/ KeepRound(k)
    \/ OpenRevealTx(k)
    \/ Reopened(k)
    \/ GetBidders(k)
    \/ NextBidder(k)
    \/ GetSeal(k)
    \/ RevealTx(k)
    \/ LoopDone(k)
    \/ Kept(k)
    \/ RewatchRound(k)
    \/ CloseRound(k)
    \/ ClearTx(k)
    \/ Cleared(k)
    \/ SettleTx(k)

Others == (Bidding \/ Anyone \/ Passing) /\ UNCHANGED keeperVars

Next ==
    \/ \E k \in Keeper : KeeperStep(k)
    \/ \E k \in Keeper : BeaconNotServed(k) \/ RpcFails(k)
    \/ Others

Spec == Init /\ [][Next]_vars

(* Time passes, ledgers close, Temporary storage expires, and the watch    *)
(* loop keeps polling.  Nothing makes Drand publish, a bidder bid or       *)
(* anybody else act.                                                       *)
Fairness ==
    /\ WF_vars(Tick /\ UNCHANGED keeperVars)
    /\ WF_vars(CloseLedger /\ UNCHANGED keeperVars)
    /\ \A b \in Bidder : WF_vars(ExpireSeal(b) /\ UNCHANGED keeperVars)
    /\ \A k \in Keeper : WF_vars(KeeperStep(k))

FairSpec == Spec /\ Fairness

----------------------------------------------------------------------------
(* Properties *)

(* Once R is public nobody can place or change a bid (the sealed window    *)
(* closes before the seals can be opened), although commits are timed by   *)
(* the ledger, which lags, and the beacon by the wall clock.               *)
SealedUntilR == [][beacon => bids' = bids]_vars

SkippedBy(k) == {b \in Bidder : skipped[k][b] # "-"}

(* When a reveal pass ends without an exception (keepRound's loop), its    *)
(* result accounts for every bidder of the round exactly once, and what it *)
(* says is so on chain: "nothing can be missed" (get_bidders).             *)
PassAccountsForAll ==
    \A k \in Keeper :
        /\ revealedBy[k] \cap SkippedBy(k) = {}
        /\ revealedBy[k] \subseteq revealed
        /\ \A b \in SkippedBy(k) :
              /\ skipped[k][b] \in {"already revealed", "race"} => b \in revealed
              /\ skipped[k][b] = "window closed" => ledger > RevealDeadline
        /\ pc[k] = "kept" => revealedBy[k] \cup SkippedBy(k) = Index

(* If any keeper ever finished a reveal pass without giving a bid up, the  *)
(* auction is decided over every well-sealed bid, whatever races, late     *)
(* reveals or failures surrounded that pass: the winner beats all of them, *)
(* and the round is voided only if none was eligible.                      *)
Sound(b) == Eligible(b) /\ bids[b].seal = "good"

BestSealWins ==
    swept =>
        /\ status \in {"Cleared", "Settled"} =>
               /\ Valid(winner)
               /\ \A b \in Bidder : Sound(b) => Better(bids[winner].value, bids[b].value)
        /\ status = "Voided" => \A b \in Bidder : ~Sound(b)

(* Two keepers never take credit for the same transition in overlapping    *)
(* ticks, however their reads and transactions interleave.                 *)
NoDoubleCredit ==
    \A j, k \in Keeper :
        j # k =>
            /\ "openedReveal" \notin claims[j] \cap claims[k]
            /\ "cleared" \notin claims[j] \cap claims[k]
            /\ revealedBy[j] \cap revealedBy[k] = {}

(* The round as the people it holds money for see it. *)
Escrow == INSTANCE FairEscrow WITH done <- (status \in Final)
ImplementsFairEscrow == Escrow!Spec

(* With one keeper polling, every round is settled or voided in the end    *)
(* and the contract holds nothing of anybody's: even if Drand never        *)
(* publishes, no bidder cooperates, calls fail (finitely often), and       *)
(* refusals arrive in a shape errorMatches does not recognise.             *)
EventuallyOver == <>[](status \in Final /\ vault = 0)

(* keeper.ts:12-15: a step that somebody else did first is skipped, not    *)
(* failed.                                                                 *)
AlreadyDoneIsSkipped ==
    [][\A k \in Keeper :
        (pc'[k] = "asleep" /\ faults' = faults) =>
            /\ pc[k] = "openReveal" => status = "Open"
            /\ pc[k] = "reveal" => current[k] \notin revealed
            /\ pc[k] = "clear" => status = "Revealing"]_vars

(* keeper.ts:315: a keeper voids a round only if R never arrived. *)
VoidOnlyWithoutR ==
    [][\A k \in Keeper : pc[k] = "void" /\ "voided" \in claims'[k] => ~beacon]_vars

----------------------------------------------------------------------------
(* The inductive invariant behind the safety properties *)

InLoop == {"nextBidder", "getSeal", "reveal", "kept"}
BeforeLoop == {"asleep", "voidIfStale", "void", "watch", "keepRound",
               "openReveal", "reopened", "getBidders"}

(* a keeper's loop over the index: who is still to visit, who is done, and *)
(* why; the index is frozen while it runs                                  *)
ReasonHolds(b, why) ==
    /\ why \in {"already revealed", "race"} => b \in revealed
    /\ why = "window closed" => ledger > RevealDeadline
    /\ why = "hash mismatch" => bids[b].seal # "good"

LoopInv(k) ==
    /\ pc[k] \in BeforeLoop => todo[k] = {} /\ revealedBy[k] = {} /\ SkippedBy(k) = {}
    /\ pc[k] = "getBidders" => status # "Open"
    /\ pc[k] \in InLoop =>
          /\ status # "Open"
          /\ todo[k] \cup revealedBy[k] \cup SkippedBy(k) = Index
    /\ pc[k] = "kept" => todo[k] = {}
    /\ pc[k] \in {"getSeal", "reveal"} => current[k] \in todo[k]
    /\ pc[k] = "reveal" => decrypted[k] = (bids[current[k]].seal = "good")
    /\ todo[k] \cap (revealedBy[k] \cup SkippedBy(k)) = {}
    /\ revealedBy[k] \cap SkippedBy(k) = {}
    /\ revealedBy[k] \subseteq revealed
    /\ SkippedBy(k) # {} => status # "Open"
    /\ \A b \in Bidder : ReasonHolds(b, skipped[k][b])

(* after a clean pass every good seal is revealed, and stays so *)
SweepInv ==
    swept =>
        /\ status # "Open"
        /\ \A b \in Index : bids[b].seal = "good" => b \in revealed

IInv == TypeOK /\ TimeInv /\ ChainInv /\ SweepInv /\ \A k \in Keeper : LoopInv(k)

=============================================================================
