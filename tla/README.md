# Sub Rosa in TLA+

Models of the programs in this repository, checked with TLC, and theorems about them checked with TLAPS.
Every definition is translated from the source; `PROJECT.json` maps it to the lines it stands for.

## 1. The system and its parts

Sub Rosa runs sealed-bid rounds on Stellar. A bidder commits a hash H of its bid, a public escrow that
bounds the bid, and a timelock seal that opens with the signature of a future Drand round R. Once R is
published anyone may open the reveal window, decrypt and reveal every seal, clear the round (best valid
bid wins) and settle it. The repository also holds an independent teaching contract, Rise In, with a
wallet panel.

| Part | Source | State it keeps | Operations | Modelled by |
| --- | --- | --- | --- | --- |
| Round contract (source elsewhere; bindings here) | `packages/round-bindings` | status, bids, seals, reveals, winner, balances | commit, open_reveal, reveal, clear, settle, void, getters | `Round` (external) |
| Watch-mode keeper | `services/keeper/src/keeper.ts`, `watch.ts` | nothing between ticks; loop variables within one | voidIfStale, keepRound, closeRound, watchRound; discovery and the polling loop | `Keeper`, `Watch` |
| One-shot keeper | `services/keeper/src/run.ts` | none | one keepRound | `Keeper`, `Watch.RunOnce` |
| Bidder agent | `services/agent/src` | a mandate; nothing between runs | runBidderAgent | `BidderAgent`, `MandateCaps` |
| Appraisal API | `services/appraisal-api/src` | one handler per request | 402, authorise, parse and appraise, settle, answer | `BidderAgent`, `Valuation` |
| Rise In contract | `contracts/rise-in-round` | rounds, counts, commitments | create_round, submit_commit, get_round, get_commit | `RiseInRound` |
| Rise In panel | `components/RiseInOrangePanel.tsx`, `lib/risein-*.ts` | per tab: wallet, input, shown state, evidence, feedback, busy | connect, disconnect, pay, create, commit, refresh | `RiseInPanel` |
| Web round session | `hooks/useRoundSession.ts`, `lib/chain.ts`, `pages/DemoPage.tsx` | per use case: round id, seal, live snapshot; shared wallet and status | connect, create, join, commit, open and reveal, refresh, change of case | `Session`, `Panels` |
| Polling hooks | `hooks/useLiveRound.ts`, `useDrandCountdown.ts`, `DrandCountdownChip.tsx` | last snapshot, countdown | poll, set up and clean up | `Hooks`, `BeaconTime` |
| SDK client, submitter | `packages/sdk/src` | none | one call per contract operation, direct or relayed | `Relay` |
| Timelock library | `packages/tlock/src` | none | encode, commit, seal, open, identities, round arithmetic | `Sealing`, `BeaconTime` |
| Drand tools | `services/drand-tools/src` | none | round arithmetic, point encodings, message-variant search | `Sealing`, `BeaconTime` (partly) |
| End-to-end scripts | `services/*/scripts`, `packages/sdk/scripts` | one run | seven scripts that drive a round and judge it | `E2E` |
| Recorded demo, panels and pages | `apps/web/src/demo`, `lib/demoActions.ts`, `components` | display | outcome, auditor, cap lab, attack demo | `Panels`, `Sealing`, `MandateCaps` (partly) |
| x402 and set-up scripts | `appraisal-api/scripts`, `*/usdc-setup.ts` | - | friendbot, trustlines, one paid request | not modelled |

How they interact. The contract is the only shared state of a round. Keepers, agents, browsers and
scripts read it with simulated calls and change it with transactions; between any two awaits of one of
them the others, the ledger's clock and Drand go on. A call can be refused, can fail, and can take effect
while its answer is lost. Nobody is told of a change: everybody polls.

What is hard, and what makes each part correct:

* **Keeper**: stale reads before every transaction, other keepers, lost answers, bad seals in the middle
  of a loop, three clocks. Correct: nobody's bid is missed, the best sound bid wins, money adds up, the
  round always ends, two keepers never both claim a step.
* **Watch loop**: one slow or failing round must not starve the others. Correct: fair turns, every round
  in reach ends, a signal ends the process.
* **Agent and appraisal API**: payment, appraisal and commit are separate, each can fail half-way, and the
  whole run is repeated. Correct: no bid or loss beyond the mandate, no bid on an unpaid appraisal, no
  charge for a malformed request.
* **Rise In**: tabs that share an account sequence number, transactions that land after the page gave up.
  Correct: each commitment counts once, and what the page offers as evidence is on chain.
* **Web session and hooks**: overlapping handlers and polls, refreshes that answer late, a wallet or case
  that changes under a handler. Correct: what is stored belongs to its case, what is shown was true, what
  is announced happened, a gate opens only when R is out.
* **SDK**: two clients at once, relayed transactions that outlive the 60 s poll. Correct: an answer is the
  contract's own, a definite error is definite.
* **Scripts**: strangers and slow services around an assertion. Correct: green means what the report says,
  red has a cause.
* **Pure code**: byte order, sign bit, off-by-one Drand rounds, clamps. Correct: it agrees with its inverse
  or with what the contract makes of the same data.

The hazards, each at its line with the properties that watch it, are in `PROJECT.json`.

## 2. Modules

| Module | Content |
| --- | --- |
| `FairEscrow` | abstract specification: what a round promises the people whose money it holds |
| `Round` | the contract, ledger time, wall clock, Drand; everything others may do to a round; what holds of it whoever drives it |
| `BeaconTime` | arithmetic of Drand rounds and deadlines |
| `RoundProofs` | EXTENDS `Round`, `BeaconTime`: lemmas about `Round` that the modules driving a round need (typing, time, records, money); theorems about the deadlines of a round |
| `Keeper` | EXTENDS `Round`: any number of keepers; properties; `IInv` |
| `KeeperTicks` | EXTENDS `Keeper` with a history of what each tick found when it began; `TickIInv` |
| `Watch`, `WatchProofs` | one keeper process over several rounds; a theorem about it |
| `E2E` | EXTENDS `Keeper`: seven scripts that use the keeper's functions against one round; `ScriptIInv` |
| `KeeperProofs` | EXTENDS `E2E`, `KeeperTicks`, `RoundProofs`: theorems about the keepers, about a tick, and about the scripts |
| `MandateCaps` | the caps of a mandate and the sizing of a bid, as operators |
| `BidderAgent` | EXTENDS `Round`, `MandateCaps`: agents with mandates, and the appraisal server |
| `BidderAgentProofs` | EXTENDS `BidderAgent`, `RoundProofs`, `Library`: theorems about the agents, and about the operators of `Library` |
| `RiseInRound`, `RiseInPanel` | the Rise In contract; EXTENDS it with tabs, wallets, network |
| `RiseInProofs` | theorems about `RiseInPanel` |
| `Session` | a page of the web app: handlers of useRoundSession over rounds that others drive too |
| `SessionProofs` | theorems about `Session` |
| `Hooks`, `HooksProofs` | the two polling hooks; theorems about them |
| `Relay`, `RelayProofs` | the SDK client, direct and relayed; theorems about it |
| `Sealing`, `Valuation`, `Panels` | encodings and seals; the appraisal; what panels make of a round and its result |
| `Library` | properties of the five modules of operators over bounded inputs |
| `MC*` | values for the constants, symmetry |

### Round

The Rust source of the contract is not in the repository, so `Round` is written from the bindings (types,
error codes, comments) and from what the callers and the lifecycle scripts rely on. Where these leave an
outcome open, so does the model: which failing check answers, who wins a tie, whether open_reveal after
the reveal deadline is refused. An *offer* is a bid's value, its escrow, and what its seal is worth:
`good` (opens to the preimage of H), `mismatch`, or `garbage`. `wallet`, `till` and `vault` are changes of
balances since the start, so conservation is a sum equal to zero.

`clock` is the wall clock the programs read; `ledger` follows at most `MaxSkew` behind. `TimeAssumption`
says that commits close more than that lag before R; the web app leaves a fixed margin for it
(`BeaconTime`) and create_round orders the other deadlines. `Watch`, `Session`, `Hooks` and `Relay` are
about several rounds, or about a part of one, and keep their own smaller copy of the contract: the status
and what their program reads of it, with everybody else's steps as one action.

### Keeper

`pc[k]` is the awaited call keeper k makes next, and each step reads the answer and decides with it, as the
code between two awaits does.

| Code | Actions |
| --- | --- |
| watch loop | `StartTick`, `Sleep` (tick over, everything local forgotten) |
| voidIfStale | `VoidIfStale`, `VoidTx` |
| watchRound | `WatchRound`, `RewatchRound` |
| waitForRound, keepRound | `KeepRound`, `BeaconNotServed`, `OpenRevealTx`, `Reopened`, `GetBidders`, `NextBidder`, `GetSeal`, `RevealTx`, `LoopDone`, `Kept` |
| closeRound | `CloseRound`, `ClearTx`, `Cleared`, `SettleTx` |
| a rejected await, also of a transaction that landed | `RpcFails` |

`ErrorShapes` says how a refusal reaches the keeper. `errorMatches` looks for an error's *name*; a refusal
that surfaces as "Contract, #15" has none, so it is thrown. `swept` is a history variable: some pass ended
without giving a bid up. `waitForRound` waits until genesis + period * R, one period after Drand's nominal
time of R (`RevealTime`); that moment is `DueTime`, and all that is assumed is that it is not the earlier.

`KeeperTicks` adds `owed[k]`: the status in which k's tick found the round, if it could be moved on from
there (`Ripe`: stale, or R is due and served, or the reveal window over, or cleared). It is dropped when the
tick throws or gives up on a beacon that no replica served.

### Watch

What a visit does to its own round is `Keeper`'s subject and is reduced to the stage it reads and changes;
`Watch` is about which rounds are visited, how often, and what a failing one does to the others. `waited[r]`
is a history variable that counts the visits to others since the last to r.

| Code | Definitions |
| --- | --- |
| main: list, visit, sleep | `resolveRoundIds`, `ListFails`, `Visit`, `NoMore`, `Sleep`, `TickFailed`, `Signal` |
| parseRoundIdSpec, discoverRoundIds | same names; a list is its set of ranges, and an id's place the number of smaller ids (`Rank`); discovery is one getRound per step |
| watchRound | `Stage`, `voidIfStale`, `keepRound`, `closeRound`, `settleRound` |
| run.ts | `RunOnce`, a keeper beside the loop |

### E2E

A script is a sequence of places (`AgentsPlan`, `LifecyclePlan`, ...; one entry per await or assertion),
and `step` is where it is; at `keep` and `close` it runs `Keeper`'s own actions. `Stranger` bids, or calls
what anybody may call; `blame` is a history variable: what outside the script went against it.

### BidderAgent

One bidder is one session key with its mandate; `pc[b]` is the await its run is at. `Throw` is every
rejected await, failed check and killed process at once: the run ends, what it sent stays sent, and
`Start` may follow. Requests live in the server independently of the run that sent them, because a handler
goes on when its client is gone. `suggests` is drawn with the request: `appraise` is a pure function of it
(`Valuation`).

| Code | Definitions |
| --- | --- |
| runBidderAgent | `Start`, `GetRound`, `Quoted` (paidFetch after a 402), `Appraised`, `Sealed`, `CommitBid` |
| mandate.ts | `verifySessionMandate`; in `MandateCaps` `assertAppraisalSpendAllowed`, `assertBidWithinMandate`, `Clamped`, `bidFromAppraisal` |
| server.ts handler | `VerifyPayment`, `SettlePayment` (parse and appraise, then capture), `AnswerRequest` |

### RiseInRound and RiseInPanel

`sent` and `fate` are the network: a transaction lands when its sequence number is the account's next, and
may expire at any time before. Handlers of a tab are the names of the code; `call[t]` holds their local
variables. `Fail` is the catch of every handler. sendTransaction may be refused, accepted, or accepted with
the answer lost. Rounds may exist before the tabs open.

### Session

A handler is an activation in a slot: it captures case, round, wallet and stored ciphertext at the click
and goes on with those, whatever the page shows later. `Offered` is the one button the guide shows, dead
while "working"; Refresh and Reconnect are always live, so handlers overlap. `Done` is the end of a
handler's own work, before its refresh: it leaves "working" and announces success there. `asked` is a
history variable: the rounds created or joined for each case.

| Code | Definitions |
| --- | --- |
| PhaseGuide, committed, drandGate, revealedCount | same names |
| clicks | `connect`, `createRound`, `joinRound`, `commitEntry`, `openAndReveal`, `refresh`, `setActive` |
| connect | `access`, `network` |
| createRound, joinRound, commitEntry | `CreateTx`, `JoinRead`, `CommitTx` |
| openAndReveal | `OpenRead`, `OpenTx`, `Reread`, `GetBidders`, `GetBidState`, `GetSeal`, `RevealTx`, `RevealsDone` |
| refresh | `RefreshRound`, `RefreshBidders`, `RefreshBid`, `RefreshDone` |
| catch of a handler; an answer that is lost | `Throw`, `Lost`, `Catch` |

### Hooks

Both hooks poll at once and then on a timer that does not wait for the answer, so polls overlap, answer in
any order, fail, and outlive the effect that started them. They share nothing; a behaviour is of one.

| Code | Definitions |
| --- | --- |
| useEffect and its cleanup, setInterval | `Effect`, `Cleanup`, `Interval` |
| useLiveRound poll | `PollRound`, `PollBidders`, `PollBid`, `SetLive` |
| useDrandCountdown tick | `Countdown`, `CurrentRound`, `SetDrand`; `Fails` is the catch of either |
| DrandCountdownChip | `Chip` |

### Relay

`call[i]` is the i-th call: `tx` the fate of its transaction, `ret` what the contract returned, `told` and
`value` what the caller has of it. `Final` are the errors after which nothing can happen any more,
`Unsettled` those after which the transaction may still land.

| Code | Definitions |
| --- | --- |
| createRound ... void | same names (`voidRound`), each a `Call`: read the account, simulate |
| #sendUnwrap, direct | `Sign`, `signAndSend`, `SentResult` |
| #sendUnwrap, relayed; createOzChannelsSubmitter | `submitSignedTransaction`, `Poll`, `TimeOut` |
| ledger | `Land` (in the order of sequence numbers), `Drop` |

### Modules of operators

`Sealing` writes i128 values and field elements in digits of any base; ciphers, hashes and key agreement
are records that open to what was put in, with the right key and not before their round. `BeaconTime` has
the three ways the repository counts Drand rounds (the network, the tools, the countdown) and the
deadlines createRound derives from them. `Valuation` computes in integers what appraise computes in
floating point. `Panels` has
the table of the app's cases, the rows and the counter of CohortPanel for real and for simulated peers, and
the winner and tally of OutcomePanel; `Arrange` and `Filter` are JavaScript's stable sort and its filter. `Library` has one variable x, one input of one of nine kinds
(`AnyInput`); its specification `Inputs` lets nothing happen to it.

## 3. Properties

| Property | Statement |
| --- | --- |
| `PassAccountsForAll` | a reveal pass that ends without an exception accounts for every bidder once, and truthfully |
| `BestSealWins` | after one clean pass the winner beats every sound bid; a void means there was none |
| `SettlementExact` | the winner pays its bid out of its escrow to the operator, everybody else is whole |
| `TickMovesOn` | a tick that returns has moved the round on, if it could be moved on when the tick began, whatever an earlier tick left undone and whoever interferes |
| `SealedUntilR` | no bid is placed or changed once R is out |
| `NoDoubleCredit` | two keepers never both claim one transition |
| `EventuallyOver` | every round ends settled or voided, with the contract empty |
| `ImplementsFairEscrow` | the keepers and the contract implement `FairEscrow` |
| `FairTurns` | between two visits to a round every other one is visited at most once (discovered: two ticks' worth) |
| `EachRoundEnds`, `StopsOnSignal` | rounds in reach end although another never can; a signal ends the process |
| `ReportTrue`, `FailsOnlyForCause`, `Ends` | a script's verdict means what its report says, a failure has a cause its run met (a stranger, a failing call, a late beacon, its own slowness, a ledger further behind than the margin it waits), and there is a verdict |
| `BidsWithinMandate`, `LossWithinMandate` | what stands on chain is authorised; a round costs at most maxEscrow on the way and maxBid in the end |
| `PaidBeforeBid`, `MalformedNeverCosts` | no bid without a charged appraisal; no charge for a malformed request |
| `OnceEach` | however tabs retry, one commitment per wallet and round, and commit_count counts them |
| `EvidenceHolds`, `ShownWasTrue` | evidence and state on the page are, or were, true of the chain |
| `SentSettles` | an operation whose transaction was sent ends and gives the buttons back |
| `RoundsOfTheirCase`, `LiveWasTrue`, `ToastsHold` | what the page stores is of the case it was asked for, what it shows was true, what it announces happened |
| `AnswerIsTrue`, `ErrorIsFinal` | a call that returns has landed and returns what the contract returned; after a definite error nothing lands |
| `LastWordCounts` | a bid confirmed to its bidder is replaced only by a later one of the same bidder |
| `CallsEnd` | every SDK call returns or throws |
| `SnapshotComplete` | a snapshot of a round past its commits has every bidder, of one that is over every reveal |
| `PublishedIsOut`, `CatchesUp` | the gate opens only when R is out and agrees with the timer; both hooks reach the final state |
| `EncodingsExact`, `SealOpensToItsBid` | bytes and points decode to what was encoded; a seal opens at R to the bid its commitment binds, an identity only for its auditor |
| `BeaconTimesAgree` | commits of a created round close before R and not before the chosen window; the countdown is a period late |
| `SuggestionBounded` | a suggestion stays below the value (may meet it up to ten cents) and moves the right way with each attribute; prices and suggestions above the caps are refused and clamped |
| `AnnouncedOutcomeLeads` | the winner and the ballot announced lead what is revealed; with everything revealed it is the contract's winner; the cohort shows the same rows opened, and its counter counts the rest; every case of the app fits its form, its labels and its commit window |

`TypeOK` is checked and proved for `Keeper` (there it says that a pass lists bidders of the round with the
reasons keepRound gives: any other error ends the tick), `BidderAgent` and `RiseInPanel`; in the other modules the
types are part of the inductive invariant of the proofs.

## 4. Runs and bounds

| Run | Instance | Shows |
| --- | --- | --- |
| `keeper` | 1 keeper with the history of its ticks, 2 bidders, 5 offers, 1 fault | the safety properties of the keeper, the refinement, `TickMovesOn` |
| `keeper_race` | 2 keepers, 1 bidder, 1 offer, 1 fault | `NoDoubleCredit`, `EventuallyOver` |
| `watch` | 2 rounds, discovery or the list "1,2-3,2", round 1 never drivable, 1 fault | the loop |
| `scripts` | 7 scripts, 3 bidders, 1 pass repeated, 1 step of a stranger, 1 fault, ledger lag up to 2, margin 1 | the verdicts |
| `agent` | a sound and a forged mandate, 3 paid requests, suggestions 0, 1, 3 against maxBid 2 | the agent's properties |
| `agent_quote` | server's price 2, mandate's price 1 | the higher price is paid (finding) |
| `risein` | 2 tabs, each on either of 2 wallets, 1 round, 2 transactions, no payments | contract and display under contention |
| `risein_live` | 1 tab, 2 wallets, 2 rounds, 2 entries, 2 polls | `EvidenceHolds` over reconnects, `SentSettles` |
| `session` | 2 cases, 2 wallets, one of which also bids from elsewhere, 2 rounds, 2 handlers at once, 3 clicks | the page |
| `relay` | 2 clients, one relayed, 2 offers, 2 calls, 1 poll | the SDK |
| `hooks` | 2 bidders, targets 1 and 3, period 2, clock off by up to a period, 2 polls at once, 1 failure | the hooks |
| `library` | base 4 with two digits, three Drand periods, prices and levels at and beyond their ends, up to 3 other bids in any state, the 4 cases at 10 moments | the operators |

Why the bounds are enough. Time runs one unit past the last deadline, with one unit of ledger lag: every
order of clock, ledger and deadline occurs, and time beyond enables nothing new. In `scripts` the ledger may
lag two units while the scripts wait one past the deadline, so a clear can come too early for the ledger;
the round that mainnet-settle and -verify are pointed at has at most one bid there (passes over several are
the subject of `keeper`), and other actors stand in for a second keeper in `keeper`. Two bidders with five
kinds of offer give every pair of plain, higher, ineligible and unopenable bids, in either order of the
reveal loop; more bidders repeat the loop body. One fault is one failure or lost answer anywhere, and the
proofs cover any number. Two keepers are the least that race; keepers share nothing but the chain. Two
rounds and a listed id that does not exist are the least that can starve one another. For the
agent, three paid requests let a first run overwrite, a second be refused and a third differ; the
suggestions lie at zero, below and above the cap. In `risein` two transactions from two tabs are the least
that conflict: on the sequence number when both tabs hold one wallet, on the round's key when they hold two
and both simulated before either landed (rounds may exist at the start, so both can be commitments).
`Offered` leaves payments, which the contract never sees, to the one-tab run. `MaxPolls` stands for 30
polls (Rise In) or 60 seconds (SDK): a poll sees the transaction or does not, and all that matters is that
the last one may not. In `session` every handler can overlap every other, change the wallet or the case
under it, and be followed by a third; rounds may be at any stage others brought them to. In `relay` the
round starts at any stage, so two calls include every pair that is legal anywhere. In `hooks` two polls
are the least that overlap and two effects let one poll answer to the target before. In `library` base 4
with two digits has the same sign bit, wrap and ends as base 256 with sixteen.

Deadlock is checked except in `agent` (a finished round and an expired mandate leave nothing to do),
`session` (the clicks are used up), `watch` (the process has stopped), `scripts` (there is a verdict).
Symmetry (bidders, tabs, wallets, entries, slots) is used in runs without liveness properties only.

Every property of a passing run has a mutant: a plausible bug, defined just before the operator it
replaces, that makes the property fail.

### Fairness

* `Keeper`: weak fairness of time, of ledger closing, of the expiry of Temporary storage, and of each
  keeper's steps. That is the watch loop: a process that polls until it is stopped and whose calls return
  or throw. Nothing is assumed of bidders, of Drand, or of anybody else. Faults are finite (`MaxFaults`):
  if every call failed for ever no program could finish.
* `Watch`: weak fairness of the process and of each round's clock; nothing of Drand, other callers or
  signals.
* `E2E`: weak fairness of the script, of time and of ledger closing.
* `RiseInPanel`: weak fairness of each tab's answers: a request that was sent returns or throws. Nothing is
  assumed of the user, of the wallet's window, or of transactions landing.
* `Relay`: each call's own steps; nothing of the network, the relayer or the ledger.
* `Hooks`: timers fire, polls answer, time passes, and the round is driven to its end.
* `BidderAgent` and `Session` state safety only: users and agents may stop at any point.

### Findings and divergences

One run shows a disagreement between a comment and the code. `agent_quote`: mandate.ts:33-35 promises that
a higher price is refused; bidder.ts:91 compares the mandate's own price with the mandate before the server
has quoted one, and the payment client signs what the server asks.

More statements are defined in the modules, next to the properties, that say what a comment, a text or a
name in the repository suggests and that the code does not keep. No run checks them; adding the name to
the cfg given (as an invariant unless noted) shows a trace.

| Statement | Configuration | What happens |
| --- | --- | --- |
| `Keeper.AlreadyDoneIsSkipped` | Keeper.cfg, PROPERTY | keeper.ts:12-15 says "already done" is skipped; errorMatches (keeper.ts:67) needs the error's name, so a lost race may end the tick. `EventuallyOver` shows that the round still ends |
| `Keeper.VoidOnlyWithoutR` | Keeper.cfg, PROPERTY | keeper.ts:315 says the valve is for an R that never arrived; voidIfStale does not look |
| `Watch.EveryRoundDriven` | Watch.cfg with MaxProbe 1, no Bad, PROPERTY | watch.ts:1 says every in-flight round; discovery stops after maxProbe ids |
| `BidderAgent.SpendWithinMandate` | BidderAgent.cfg | each run starts from a spend of zero (bidder.ts:92), so repeated runs exceed the session's cap |
| `RiseInPanel.FailedMeansFailed` | RiseIn.cfg | transaction and read-back share a catch, and a poll limit is an error: "Commit failed" for a commitment that is stored |
| `RiseInPanel.ShownUnderItsId` | RiseInLive.cfg | the card labels the last state read with the current content of an input |
| `Session.CompleteMeansCleared` | Session.cfg | the guide says the round is done after the first reveal |
| `Session.PeersOfThisRound` | Session.cfg with one case, 5 clicks, no symmetry | a late refresh of the round before replaces the snapshot of the round displayed |
| `Hooks.UnlockedIsOut` | Hooks.cfg | the state of the target before stays until the first answer for the new one; the contract refuses the early open_reveal |

Also seen while modelling: when the first `info()` of the countdown fails, formatCountdown shows
"published" (0 seconds) while the gate is closed; `PublishedIsOut` compares the two when there is no error.

## 5. Proofs

Each theorem holds for every value of the constants that satisfies the named assumptions of the module
(deadlines in order, names of nobody outside the sets, finite sets of bidders and wallets, bounds in Nat);
TLC evaluates those on every run. Every proof about a state machine has the same shape: an inductive invariant (`IInv`, of the scripts
`ScriptIInv`, of the watch loop `TurnsInv`), a lemma that it holds at the start, one that each step keeps
it, and the theorem (`Inductive`: `Spec => []IInv`) from which the others follow. The invariants were
checked with TLC on the runs' instances before the proofs.

### Rounds and keepers (`RoundProofs`, `KeeperProofs`)

| Theorem | States |
| --- | --- |
| `TypeCorrect` | `Spec => []TypeOK` |
| `PassesAccount` | `Spec => []PassAccountsForAll` |
| `BestWins` | `Spec => []BestSealWins` |
| `SettlesExactly` | `Spec => []SettlementExact` |
| `NobodyTakesAnothersCredit` | `Spec => []NoDoubleCredit` |
| `NoLateBid` | `Spec => SealedUntilR` |
| `TicksMoveOn` | `TickSpec => TickMovesOn` |
| `Refinement` | `Spec => ImplementsFairEscrow` |

For any sets of keepers and (finitely many) bidders, any offers and deadlines, either clearing rule, any
error shapes and any number of faults. `PassAccountsForAll` says nothing of a loop half done, nor
`BestSealWins` of the reveals a pass relies on, so neither is inductive. `IInv` adds what a keeper in the
middle of a pass knows: the index is frozen (the round has left Open), the bidders still to visit, revealed
and skipped make up the index and do not overlap, and each recorded reason is still true (`LoopInv`); after
a clean pass every good seal is revealed (`SweepInv`); balances and winner follow from the status
(`ChainInv`); the beacon implies a wall clock past R and the ledger trails by at most `MaxSkew` (`TimeInv`).
Lemma `StepEffect` reduces every step to one operation of the round or none; `Forward` says operations only
move it forward; hence what one keeper recorded survives everybody else's steps (`Frame`), and its own
steps are `OwnLoop`.

`FundsConserved` (`Round`: tokens are neither made nor lost, the contract holds the escrow of its index) is
no property of this repository's code: that the escrow of an overwritten bid is refunded is an assumption
about the contract. It is kept as a lemma, because the scripts' balance checks rest on it. Its two sums are folds over the set of bidders, about which the library states nothing
a prover can instantiate. `RoundProofs` writes out the equation the fold solves (`Sums`), shows that it has
a solution (`SumsExist`), and argues about it by a least counterexample (`SmallestSubset`), which gives
`SumPlus`, `SumOne` and `SumZero`: changing one bidder's amount changes the sum by the difference. Each operation then moves equal amounts
between the wallets, the till and the vault (`FundsKept`). `NoDoubleCredit` follows from `CreditInv`: a
claim is made only by a transaction that found the round not yet that far, and a round does not come back.

`TickMovesOn` relates the state a tick begins in to the one it returns in. `OwedInv` says where a tick can
be while the round is still in the state it owes to move: before the call that moves it, with a condition
for that call (stale, due and served, window over) that time does not undo. `TickMove` lists how a step
leaves each await; every return from one of those places is then an exception, or finds the round moved on.

### Scripts (`KeeperProofs`, third part)

| Theorem | States |
| --- | --- |
| `ScriptInductive` | `ScriptSpec => []ScriptIInv` |
| `ReportsAreTrue` | `ScriptSpec => []ReportTrue` |
| `FailuresHaveCauses` | `ScriptSpec => []FailsOnlyForCause` |

For all seven scripts, any bidders, offers and deadlines, any number of strangers' steps, faults and
repeated passes, under `ScriptAssumption` (the script's two bidders are two, the higher offer is one that
can win). Nothing ties the ledger's lag to the margin that the scripts wait past the deadline
(agents-e2e.ts:365, lifecycle-e2e.ts:218: three seconds): a clear that comes too early for the ledger is a
cause of its own, `lag`, and blamed only when the ledger is before the deadline and further behind than the
margin (`TooFarBehind`). A script drives the round with `Keeper`'s own actions, so
`Keeper.IInv` is kept by everything it does. What it has seen (`SeenInv`) stays so because the round only
moves forward. What it may expect (`StatusInv`, `BidsInv`, `PassInv`, `AgainInv`, `ClosedInv`: how far the
round has come at each place of its plan) holds as long as nothing went against it; a failed check then
contradicts it, so somebody is to blame (`FailsOnlyForCause`). `ReportTrue` uses only what was seen and the
theorems about the round: with both bids revealed the winner is the higher one, and a balance that was
read tells how the round ended. Two things came out of the attempt: mainnet-settle's own first pass also
throws on a bid that opens to something else than it committed, a cause `FailsOnlyForCause` did not name;
and the balance checks of agents-e2e say nothing if its two bidders are one, which `ScriptAssumption` now
excludes (the script creates two).

### The watch loop (`WatchProofs`)

| Theorem | States |
| --- | --- |
| `TurnsAreFair` | `Spec => []FairTurns` |

For any number of rounds, lists of ids, start and depth of the discovery, rounds that cannot be driven, and
faults. `parseRoundIdSpec` lists every id once and in order (`RankOrders` and the lemmas after it). `TurnsInv`
then bounds what a round has waited by its place: of a given list, by the ids after it in the tick before and
those before it in this one (`ListTurns`); of discovered ids, which are consecutive and grow at the end, by
the ids before it and one tick's worth (`FoundTurns`).

### Agents (`BidderAgentProofs`)

| Theorem | States |
| --- | --- |
| `TypeCorrect` | `Spec => []TypeOK` |
| `MandateHolds` | `Spec => []BidsWithinMandate` |
| `LossBounded` | `Spec => []LossWithinMandate` |
| `BidsArePaidFor` | `Spec => []PaidBeforeBid` |
| `NoUnjustCharge` | `Spec => []MalformedNeverCosts` |

For any sessions and mandates, sound or not, any appraisals and any number of runs. A run gets past its
first await only on an authentic, consistent mandate (`RunsInv`), and only well-formed requests of such
runs are charged (`RequestsInv`). A plan, and then a bid on chain, is `Backed` by a request that was charged
and whose suggestion, clamped, is its value; charges and bids are not taken back (`Grows`). What a bid costs
follows from the round's own invariants in `RoundProofs`.

### Rise In (`RiseInProofs`)

| Theorem | States |
| --- | --- |
| `TypeCorrect` | `Spec => []TypeOK` |
| `StoredOnce` | `Spec => []OnceEach` |
| `EvidenceIsOnChain` | `Spec => []EvidenceHolds` |
| `ShownHasBeen` | `Spec => []ShownWasTrue` |

For any wallets, tabs and rounds and any number of transactions and polls. `LedgerInv` says that the
contract holds exactly what the landed transactions wrote; `Onward` that nothing a tab may rely on is taken
back (a landed transaction, an owner, a stored commitment); `CallInv` what each call in flight knows by the
await it is at. What a tab claims it has seen land.

### The web session (`SessionProofs`)

| Theorem | States |
| --- | --- |
| `CasesKeepTheirRounds` | `Spec => []RoundsOfTheirCase` |
| `SnapshotsWereTrue` | `Spec => []LiveWasTrue` |
| `AnnouncementsHold` | `Spec => []ToastsHold` |

For any cases, wallets, entries and rounds and any number of overlapping handlers. `ChainStep` says what
anybody may do to a round: bids come only while it is Open, reveals accumulate, stages and phases go
forward. `TaskSound` says of each handler what it has read so far (`ReadOf`), that a list read after the
round left Open is final (`FinalList`), and what an unbroken reveal loop has opened (`RevealSound`). Both
survive everybody's steps (`TaskLasts`), so that what is written to a case, or announced, is true when it is.

### Hooks and SDK client (`HooksProofs`, `RelayProofs`)

| Theorem | States |
| --- | --- |
| `HooksProofs.SnapshotsComplete` | `Spec => []SnapshotComplete` |
| `HooksProofs.GateOpensOnTime` | `Spec => []PublishedIsOut` |
| `RelayProofs.AnswersAreTrue` | `Spec => []AnswerIsTrue` |
| `RelayProofs.ErrorsAreFinal` | `Spec => []ErrorIsFinal` |
| `RelayProofs.LastWordsCount` | `Spec => []LastWordCounts` |

For any peers, targets, period, clock error up to a period and number of overlapping polls: what a poll has
read is still so (`StillSo`), because the status it read first has only moved on; and a countdown loses less
than a period by dividing, which is what the clock may be off (`CountedIsOut`). For any clients, offers,
calls and polls: a step makes a call, moves one on, or lands one; transactions of an account land in the
order of their calls (`InOrder`), and the bid on chain is the last that landed (`LastLanded`).

### Drand arithmetic (`RoundProofs`, last part)

| Theorem | States |
| --- | --- |
| `CommitsCloseBeforeR` | a created round closes its commits a fixed margin before R is out and keeps the reveal window open after (`ClosesBeforeR`) |
| `ChosenWindowKept` | the commit window is the chosen one and at most one period longer (`WindowKept`) |
| `CountdownNeverEarly` | the countdown opens the gate exactly one period after R is out (`CountdownIsLate`) |
| `CreatedTimesFit` | the deadlines of a created round satisfy `TimeAssumption` of `Round` |

For any genesis, period and margins that satisfy `BeaconAssumption`, any click and any commit window. A
click's chosen round has a nominal time within one period after the moment wished for (`ChosenRound`, from
the division facts), and the deadlines are offsets of it. `CreatedTimesFit` joins this to the other proofs:
what they assume of the deadlines is what createRound computes, for every lag of the ledger below
`CloseBefore - Period`.

### Operators (`BidderAgentProofs`, last part)

| Theorem | States |
| --- | --- |
| `SuggestionsAreBounded` | `Inputs => []SuggestionBounded` |
| `BeaconTimesHold` | `Inputs => []BeaconTimesAgree` |
| `EncodingsAreExact` | `Inputs => []EncodingsExact` |
| `SealsOpenToTheirBids` | `Inputs => []SealOpensToItsBid` |
| `OutcomesLead` | `Inputs => []AnnouncedOutcomeLeads` |

`Library`'s inputs never change, so these are facts about operators. The first holds for any integer prices
and any categories; attributes may be any integers that are multiples of 50 hundredths inside their range,
or absent, or malformed (`LibraryAssumption`: on those `Valuation`'s factors are exact). A factor moves one way with its attribute
(`Or50` and `Clamp` are monotone), a product of non-negative factors and its rounding are monotone, and the
suggestion is at most 95 hundredths of the value before it is rounded. The attempt corrected the
property: appraisal.ts:142 says the suggestion is below the value, and at a value of exactly ten cents
and full confidence rounding brings it back to it, so the strict bound holds from eleven cents on. The
run's instance has a price for it (13).

The encodings are proved for any even base and any widths of values, nonces and field elements. A recursive
function is a CHOOSE, which says nothing until some function is known to satisfy the equation: `Iterates`
builds one, by induction on its length (`UpTo`, from a least counterexample, since the library's
induction theorems take operators). `PowerFnsAgree` and `DigitsFns` then give `Power` and `Digits` their
equations, `DigitsOfBe` that digits read back what `be` wrote, `Complement` and `TopDigit` the sign bit,
and `PreimageOpens` that decodeBidPreimage inverts encodeBidPreimage. A seal opens to its bid because its
payload is that preimage, an identity because two keys agree only for the auditor it was sealed to.

`OutcomesLead` holds for any entries, ballots and moments that are integers, and for the app's own table of
cases, entry by entry (`CasesFit`); the peers are up to three, as in `Reveals`. Sorting and filtering place
each row by the number of rows before it (`Arrange`, `Filter`), not by recursion, so no induction is needed:
the ranks of a finite set under a total order are a bijection to an interval (`Arranged`), the first of a
ranking has nothing before it (`RankingLeads`), and the rows kept are exactly those that pass the test
(`Indices`). From there the winner is the highest row or your own (`WinnerLeads`), the ballot announced has
the most votes (`TallyLeads`), and the rows and the counter of the cohort are those of the outcome
(`RowsOfPeers`, `CounterOfPeers`). The counter never goes back because a seal, once its delay is over, stays
so (`CohortOpensInTime`).

### Only model-checked

* Liveness, which needs fairness and ENABLED: `EventuallyOver`, `EachRoundEnds`, `StopsOnSignal`, `Ends`,
  `SentSettles`, `CallsEnd`, `CatchesUp`. Every other property of the passing runs is a theorem.

## 6. Not modelled, and why

* Cryptography (BLS, timelock, hashing, signatures): a seal opens to the right thing, the wrong thing or
  nothing; a mandate is authentic or not. `Sealing` keeps the byte layouts and the round, not the ciphers.
* Texts, layout, formatting, logging, confetti, the recorded demo trace and the static pages: no protocol
  state.
* The passkey panel: it wraps an external wallet kit and touches no round.
* The x402 and set-up scripts: linear drivers of friendbot, trustlines and one paid request, which itself
  is in `BidderAgent`.
* Floating point in the appraisal: `Valuation` rounds once, exactly.
* The TypeScript checks of the bindings: `Round` has the contract's refusals, not the XDR.

* The contract's own correctness: `Round` states what its callers rely on.

## 7. Plan

1. *(done)* `FairEscrow`, `Round`, `Keeper`, `KeeperProofs`; `BidderAgent`; `RiseInRound`, `RiseInPanel`.
2. *(done)* `Watch`, `E2E`, `Session`, `Hooks`, `Relay`; the modules of operators and `Library`; the
   arithmetic of `BeaconTime`.
3. *(done)* Inductive invariants and safety theorems of the keepers, agents, Rise In panel, session, hooks
   and SDK client, for every value of their constants; the lemmas about rounds that they share.
4. *(done)* The scripts on top of the keepers' invariant, the turns of the watch loop, the operators of
   `Library`, and the bridge from createRound's deadlines to `TimeAssumption`.
5. Open: the liveness properties, once the prover has ENABLED.
