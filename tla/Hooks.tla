-------------------------------- MODULE Hooks --------------------------------
(***************************************************************************)
(* The two hooks a page reads the network with: useLiveRound, which polls  *)
(* a round through the SDK's views, and useDrandCountdown, which polls     *)
(* Drand and gates the reveal.  Both poll at once and then on a timer that *)
(* does not wait for the answer: polls overlap, answer in any order, fail, *)
(* and outlive the effect that started them, whose cleanup sets their      *)
(* `cancelled'.  The hooks share nothing, so a behaviour is of one of them *)
(* (`hook').  Drand publishes round R at Genesis + (R - 1) * Period; the   *)
(* page's clock is `skew' seconds off.                                     *)
(***************************************************************************)
EXTENDS Integers, FiniteSets, FiniteSetsExt

CONSTANTS
    Peer,           \* accounts that may bid in the round
    Target,         \* Drand rounds the page may wait for
    Genesis, Period,
    MaxSkew, MaxTime,
    Slot,           \* bound on polls under way
    MaxFaults,      \* bound on failed polls
    MaxEffects      \* bound on times the effect is set up again

ASSUME HooksAssumption ==
    /\ Target \subseteq Nat \ {0} /\ Target # {}
    /\ Genesis \in Nat /\ Period \in Nat \ {0}
    /\ MaxSkew \in 0..Period        \* beyond it nothing the page says of R holds
    /\ MaxTime \in Nat /\ MaxFaults \in Nat /\ MaxEffects \in Nat

VARIABLES
    hook,
    chain,      \* the round polled
    live,       \* LiveSnapshot
    now, skew,
    target,     \* the targetRound the page passes now
    drand,      \* DrandCountdown
    enabled,    \* the effect is set up
    poll,       \* [Slot -> a poll under way or Idle]
    faults, effects

vars == <<hook, chain, live, now, skew, target, drand, enabled, poll, faults, effects>>
liveVars == <<chain, live>>
drandVars == <<now, skew, target, drand>>

Idle == [at |-> "idle", cancelled |-> FALSE, target |-> 0, status |-> "Open",
         bidders |-> {}, ask |-> {}, revealed |-> {}]
NoLive == [status |-> "none", bidders |-> {}, revealed |-> {}]

timeOfRound(r) == Genesis + Period * r
Out(r) == now >= Genesis + (r - 1) * Period

Loading(r) == [target |-> r, loading |-> TRUE, error |-> FALSE, published |-> FALSE, seconds |-> 0]

Init ==
    /\ hook \in {"live", "drand"}
    /\ chain = [status |-> "Open", index |-> {}, revealed |-> {}]
    /\ live = NoLive
    /\ now \in IF hook = "drand" THEN 0..MaxTime ELSE {0}
    /\ skew \in IF hook = "drand" THEN (-MaxSkew)..MaxSkew ELSE {0}
    /\ target \in IF hook = "drand" THEN Target ELSE {0}
    /\ drand = Loading(target)
    /\ enabled = FALSE
    /\ poll = [s \in Slot |-> Idle]
    /\ faults = 0 /\ effects = 0

----------------------------------------------------------------------------
(* The world: the round moves on, and so does time *)

Round ==
    /\ hook = "live"
    /\ \/ chain.status = "Open" /\ \E p \in Peer \ chain.index : chain' = [chain EXCEPT !.index = @ \cup {p}]
       \/ chain.status = "Open" /\ chain' = [chain EXCEPT !.status = "Revealing"]
       \/ /\ chain.status = "Revealing"
          /\ \E p \in chain.index \ chain.revealed : chain' = [chain EXCEPT !.revealed = @ \cup {p}]
       \/ chain.status # "Over" /\ chain' = [chain EXCEPT !.status = "Over"]
    /\ UNCHANGED <<hook, live, enabled, poll, faults, effects>> /\ UNCHANGED drandVars

Tick ==
    /\ hook = "drand" /\ now < MaxTime
    /\ now' = now + 1
    /\ UNCHANGED <<hook, skew, target, drand, enabled, poll, faults, effects>>
    /\ UNCHANGED liveVars

----------------------------------------------------------------------------
(* The effect *)

First == IF hook = "live" THEN "round" ELSE "info"
Start(s) == [Idle EXCEPT !.at = First, !.target = target]

Interval(s) ==
    /\ enabled /\ poll[s] = Idle
    /\ poll' = [poll EXCEPT ![s] = Start(s)]
    /\ UNCHANGED <<hook, enabled, faults, effects>>
    /\ UNCHANGED liveVars /\ UNCHANGED drandVars

(* Setting the effect up, with the target there is now, polls at once. *)
Effect ==
    /\ ~enabled /\ effects < MaxEffects
    /\ enabled' = TRUE /\ effects' = effects + 1
    /\ \E s \in Slot : poll[s] = Idle /\ poll' = [poll EXCEPT ![s] = Start(s)]
    /\ UNCHANGED <<hook, faults>> /\ UNCHANGED liveVars /\ UNCHANGED drandVars

(* `enabled' turned off, or another targetRound; the state stays. *)
Cleanup ==
    /\ enabled /\ effects < MaxEffects
    /\ enabled' = FALSE
    /\ target' \in IF hook = "drand" THEN Target \ {target} ELSE {target}
    /\ poll' = [s \in Slot |-> IF poll[s] = Idle THEN Idle ELSE [poll[s] EXCEPT !.cancelled = TRUE]]
    /\ UNCHANGED <<hook, now, skew, drand, faults, effects>> /\ UNCHANGED liveVars

----------------------------------------------------------------------------
(* useLiveRound: getRound, getBidders, one getBidState each, one setState *)

Ends(s) == poll' = [poll EXCEPT ![s] = Idle]
Goto(s, p) == poll' = [poll EXCEPT ![s] = p]
OnlyPoll == UNCHANGED <<hook, enabled, faults, effects>> /\ UNCHANGED liveVars /\ UNCHANGED drandVars

PollRound(s) ==
    /\ poll[s].at = "round"
    /\ Goto(s, [poll[s] EXCEPT !.at = "bidders", !.status = chain.status])
    /\ OnlyPoll

PollBidders(s) ==
    /\ poll[s].at = "bidders"
    /\ Goto(s, [poll[s] EXCEPT !.at = "bids", !.bidders = chain.index, !.ask = chain.index])
    /\ OnlyPoll

PollBid(s) ==
    /\ poll[s].at = "bids"
    /\ \E p \in poll[s].ask :
          Goto(s, [poll[s] EXCEPT !.ask = @ \ {p}, !.revealed = @ \cup ({p} \cap chain.revealed)])
    /\ OnlyPoll

(* mutant: keeps the first snapshot *)
SetLiveOnce(s) ==
    /\ poll[s].at = "bids" /\ poll[s].ask = {}
    /\ live' = IF poll[s].cancelled \/ live # NoLive THEN live
               ELSE [status |-> poll[s].status, bidders |-> poll[s].bidders,
                     revealed |-> poll[s].revealed]
    /\ Ends(s)
    /\ UNCHANGED <<hook, chain, enabled, faults, effects>> /\ UNCHANGED drandVars

(* mutant: the round is read last *)
SetLiveLate(s) ==
    /\ poll[s].at = "bids" /\ poll[s].ask = {}
    /\ live' = IF poll[s].cancelled THEN live
               ELSE [status |-> chain.status, bidders |-> poll[s].bidders,
                     revealed |-> poll[s].revealed]
    /\ Ends(s)
    /\ UNCHANGED <<hook, chain, enabled, faults, effects>> /\ UNCHANGED drandVars

SetLive(s) ==
    /\ poll[s].at = "bids" /\ poll[s].ask = {}
    /\ live' = IF poll[s].cancelled THEN live
               ELSE [status |-> poll[s].status, bidders |-> poll[s].bidders,
                     revealed |-> poll[s].revealed]
    /\ Ends(s)
    /\ UNCHANGED <<hook, chain, enabled, faults, effects>> /\ UNCHANGED drandVars

----------------------------------------------------------------------------
(* useDrandCountdown: await info(), then read the clock and setState *)

Countdown(r, round) ==
    LET published == round >= r
        t == now + skew
    IN [target |-> r, loading |-> FALSE, error |-> FALSE, published |-> published,
        seconds |-> IF published THEN 0 ELSE Max({0, timeOfRound(r) - t})]

CurrentRound == (now + skew - Genesis) \div Period

TickAnswers(s, state) ==
    /\ poll[s].at = "info"
    /\ drand' = IF poll[s].cancelled THEN drand ELSE state
    /\ Ends(s)
    /\ UNCHANGED <<hook, now, skew, target, enabled, faults, effects>> /\ UNCHANGED liveVars

(* mutant: counts the current round from 1, as roundAt does *)
SetDrandFromOne(s) == TickAnswers(s, Countdown(poll[s].target, CurrentRound + 1))
SetDrand(s) == TickAnswers(s, Countdown(poll[s].target, CurrentRound))

(* the catch of either hook: the last answer stays on display *)
Fails(s) ==
    /\ poll[s] # Idle /\ faults < MaxFaults /\ faults' = faults + 1
    /\ drand' = IF poll[s].cancelled \/ hook = "live" THEN drand
                ELSE [drand EXCEPT !.loading = FALSE, !.error = TRUE]
    /\ Ends(s)
    /\ UNCHANGED <<hook, now, skew, target, enabled, effects>> /\ UNCHANGED liveVars

Answers(s) ==
    \/ PollRound(s) \/ PollBidders(s) \/ PollBid(s) \/ SetLive(s)
    \/ SetDrand(s)

Next ==
    \/ Round \/ Tick \/ Effect \/ Cleanup
    \/ \E s \in Slot : Interval(s) \/ Answers(s) \/ Fails(s)

(* Timers fire, answers come, time passes, and the round is driven to its  *)
(* end; React sets an effect up again after its cleanup.                   *)
Spec ==
    /\ Init /\ [][Next]_vars
    /\ WF_vars(Effect) /\ WF_vars(Tick) /\ WF_vars(Round)
    /\ \A s \in Slot : WF_vars(Interval(s)) /\ WF_vars(Answers(s))

----------------------------------------------------------------------------
(* What the page is shown *)

(* DrandCountdownChip *)
Chip ==
    CASE drand.loading -> "syncing"
      [] ~drand.loading /\ drand.error -> "offline"
      [] ~drand.loading /\ ~drand.error /\ drand.published -> "published"
      [] OTHER -> "waiting"

(* useLiveRound reads the round before its bidders and their bids: when it *)
(* shows a round past its commits the list of bidders is the final one,    *)
(* and for a round that is over so is what was revealed, whatever overlaps.*)
SnapshotComplete ==
    /\ live.status \in {"Revealing", "Over"} => live.bidders = chain.index
    /\ live.status = "Over" => live.revealed = chain.revealed

(* A round is called published only when Drand has it, on a page whose     *)
(* clock is wrong by no more than a period: useDrandCountdown counts       *)
(* rounds from 0 and Drand from 1, which leaves that margin.  The wait,    *)
(* which formatCountdown calls "published" at 0 seconds, and the chip, on  *)
(* which the gate opens, agree also at the boundary.                       *)
PublishedIsOut ==
    /\ drand.published => Out(drand.target)
    /\ Chip \in {"published", "waiting"} => ((Chip = "published") <=> (drand.seconds = 0))

(* However polls overlap, fail and answer late, a page left polling shows  *)
(* the end of the round, and opens the gate, for good.                     *)
CatchesUp ==
    /\ hook = "live" => <>[](live.status = "Over")
    /\ hook = "drand" => <>[](Chip = "published" /\ drand.target = target)

(* DrandCountdownChip.tsx:67, of the target the page has now: "Drand R=... *)
(* is published -- reveal is unlocked".                                    *)
UnlockedIsOut == drand.published => Out(target)

=============================================================================
