----------------------------- MODULE BeaconTime -----------------------------
(***************************************************************************)
(* When a Drand round is out, three ways: the network, roundAt and         *)
(* timeOfRound of the tools and the SDK, and the countdown of the web app; *)
(* and the deadlines the web app's createRound derives from them.  Rounds  *)
(* are numbered from 1 at Genesis, but timeOfRound(r) is Genesis + Period  *)
(* * r, one period after r is published, and the countdown's current round *)
(* is one behind.  Everything is in whole seconds.                         *)
(***************************************************************************)
EXTENDS Integers

CONSTANTS
    Genesis, Period,
    CloseBefore,    \* LIVE_COMMIT_CLOSE_BEFORE_REVEAL_SECONDS
    RevealWindow    \* LIVE_REVEAL_WINDOW_AFTER_REVEAL_SECONDS

ASSUME BeaconAssumption ==
    /\ Genesis \in Nat /\ Period \in Nat \ {0}
    /\ CloseBefore \in Nat /\ Period < CloseBefore
    /\ RevealWindow \in Nat \ {0}

publishedAt(r) == Genesis + Period * (r - 1)
timeOfRound(r) == Genesis + Period * r

(* before genesis the tools say 1 *)
roundAt(t) == IF t < Genesis THEN 1 ELSE ((t - Genesis) \div Period) + 1

roundInSeconds(t, seconds) == roundAt(t + seconds)

currentRound(t) == (t - Genesis) \div Period
published(t, r) == currentRound(t) >= r

(* mutant: deadlines from the time the round is really published *)
createRoundTimesAtR(t, window) ==
    LET r == roundInSeconds(t, window + CloseBefore)
    IN [reveal |-> r, commitDeadline |-> timeOfRound(r),
        revealDeadline |-> timeOfRound(r) + RevealWindow]

(* What a click at t with this commit window asks create_round for. *)
createRoundTimes(t, window) ==
    LET r == roundInSeconds(t, window + CloseBefore)
    IN [reveal |-> r, commitDeadline |-> timeOfRound(r) - CloseBefore,
        revealDeadline |-> timeOfRound(r) + RevealWindow]

----------------------------------------------------------------------------
(* Commits of a round made by createRound close before its beacon is out,  *)
(* by CloseBefore less the one period timeOfRound is late, and the reveal  *)
(* window opens after: whoever bids cannot have seen a seal open.          *)
ClosesBeforeR(t, window) ==
    LET times == createRoundTimes(t, window) IN
    /\ times.commitDeadline = publishedAt(times.reveal) - (CloseBefore - Period)
    /\ times.commitDeadline < publishedAt(times.reveal)
    /\ publishedAt(times.reveal) < times.revealDeadline

(* The bidder gets the commit window that was chosen, and at most a period *)
(* more, wherever in a period the button is pressed.                       *)
WindowKept(t, window) ==
    LET times == createRoundTimes(t, window) IN
    /\ t + window < times.commitDeadline
    /\ times.commitDeadline <= t + window + Period

(* The countdown is late, never early: it opens the gate a period after    *)
(* the round is out, which is when roundAt has already moved on.           *)
CountdownIsLate(t, r) ==
    published(t, r) <=> t >= publishedAt(r) + Period

=============================================================================
