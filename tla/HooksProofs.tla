---------------------------- MODULE HooksProofs ----------------------------
(***************************************************************************)
(* Proofs about Hooks, for any peers, targets, period, clock error up to a *)
(* period, and any number of overlapping polls.  The argument for the live *)
(* round: what a poll has read is still so, because the status it read     *)
(* first has since only moved on.  For the countdown: dividing by the      *)
(* period loses less than the period the clock may be off.                 *)
(***************************************************************************)
EXTENDS Hooks, TLAPS

StatusSet == {"Open", "Revealing", "Over"}
PollRec ==
    [at : {"idle", "round", "bidders", "bids", "info"}, cancelled : BOOLEAN, target : Int,
     status : StatusSet, bidders : SUBSET Peer, ask : SUBSET Peer, revealed : SUBSET Peer]
LiveRec ==
    [status : StatusSet \cup {"none"}, bidders : SUBSET Peer, revealed : SUBSET Peer]
DrandRec ==
    [target : Int, loading : BOOLEAN, error : BOOLEAN, published : BOOLEAN, seconds : Int]

LiveTyped ==
    /\ chain \in [status : StatusSet, index : SUBSET Peer, revealed : SUBSET Peer]
    /\ chain.revealed \subseteq chain.index
    /\ live \in LiveRec

DrandTyped ==
    /\ now \in Nat /\ skew \in (-MaxSkew)..MaxSkew
    /\ target \in Int
    /\ hook = "drand" => target \in Target /\ drand \in DrandRec

(* Of what was read at a status, what no longer changes.                   *)
StillSo(status, bidders, revealed, ask) ==
    /\ status \in {"Revealing", "Over"} => chain.status # "Open" /\ bidders = chain.index
    /\ status = "Over" => chain.status = "Over" /\ revealed = chain.revealed \cap (bidders \ ask)

(* What a poll under way has read so far. *)
PollSound(p) ==
    /\ p.at = "bidders" => /\ p.status # "Open" => chain.status # "Open"
                           /\ p.status = "Over" => chain.status = "Over"
    /\ p.at \in {"round", "bidders"} => p.revealed = {}
    /\ p.at = "bids" => /\ p.ask \subseteq p.bidders
                        /\ StillSo(p.status, p.bidders, p.revealed, p.ask)
    /\ p.at = "info" => hook = "drand" /\ p.target \in Target

PollsSound ==
    /\ poll \in [Slot -> PollRec]
    /\ \A s \in Slot : PollSound(poll[s])

LiveSound == StillSo(live.status, live.bidders, live.revealed, {})

DrandSound ==
    /\ hook = "live" => ~drand.published /\ drand.loading
    /\ drand.published => drand.target \in Target /\ Out(drand.target)
    /\ ~drand.loading /\ ~drand.error => (drand.published <=> drand.seconds = 0)

IInv ==
    /\ hook \in {"live", "drand"}
    /\ LiveTyped /\ DrandTyped /\ PollsSound /\ LiveSound /\ DrandSound

----------------------------------------------------------------------------
(* Arithmetic *)

LEMMA DivFacts ==
    ASSUME NEW x \in Int, NEW p \in Nat \ {0}
    PROVE  x \div p \in Int /\ p * (x \div p) <= x /\ x < p * (x \div p) + p
  OBVIOUS

LEMMA Multiples ==
    ASSUME NEW p \in Nat \ {0}, NEW q \in Int
    PROVE  p * q \in Int /\ p * (q + 1) = p * q + p /\ (q - 1) * p = p * q - p
  OBVIOUS

LEMMA Monotone ==
    ASSUME NEW p \in Nat \ {0}, NEW q \in Int, NEW r \in Int, q >= r
    PROVE  p * q >= p * r
  <1>1. p * (q - r) >= 0  OBVIOUS
  <1>2. p * (q - r) = p * q - p * r  OBVIOUS
  <1> QED  BY <1>1, <1>2

LEMMA MaxOfTwo ==
    ASSUME NEW x \in Int
    PROVE  Max({0, x}) \in Int /\ (x > 0 => Max({0, x}) = x)
  <1>1. \E m \in {0, x} : \A y \in {0, x} : m >= y  OBVIOUS
  <1>2. Max({0, x}) \in {0, x} /\ \A y \in {0, x} : Max({0, x}) >= y  BY <1>1 DEF Max
  <1> QED  BY <1>2

(* The page counts rounds from 0: round r by its count is out by Drand's,  *)
(* whichever way its clock is wrong.                                       *)
LEMMA CountedIsOut ==
    ASSUME now \in Nat, skew \in (-MaxSkew)..MaxSkew, NEW r \in Target
    PROVE  /\ CurrentRound >= r => Out(r)
           /\ ~(CurrentRound >= r) => timeOfRound(r) > now + skew
  <1> DEFINE x == now + skew - Genesis
             q == x \div Period
  <1>0. /\ Genesis \in Nat /\ Period \in Nat \ {0} /\ r \in Nat \ {0}
        /\ MaxSkew \in Nat /\ MaxSkew <= Period
    BY HooksAssumption
  <1>1. skew \in Int /\ skew <= Period  BY <1>0
  <1>2. x \in Int  BY <1>0, <1>1
  <1>3. q \in Int /\ Period * q <= x /\ x < Period * q + Period
    BY <1>0, <1>2, DivFacts
  <1>4. Period * r \in Int /\ (r - 1) * Period = Period * r - Period /\ Period * q \in Int
        /\ Period * (q + 1) = Period * q + Period
    BY <1>0, <1>3, Multiples
  <1>5. CASE q >= r
    <2>1. Period * q >= Period * r  BY <1>0, <1>3, <1>5, Monotone
    <2>2. now >= Genesis + (Period * r - Period)
      <3> HIDE DEF q
      <3> QED  BY <1>0, <1>1, <1>3, <1>4, <2>1
    <2> QED  BY <1>4, <1>5, <2>2 DEF Out, CurrentRound
  <1>6. CASE ~(q >= r)
    <2>1. r >= q + 1 /\ q + 1 \in Int  BY <1>0, <1>3, <1>6
    <2>2. Period * r >= Period * q + Period  BY <1>0, <1>4, <2>1, Monotone
    <2>3. Genesis + Period * r > now + skew
      <3> HIDE DEF q
      <3> QED  BY <1>0, <1>1, <1>3, <1>4, <2>2
    <2> QED  BY <1>6, <2>3 DEF timeOfRound, CurrentRound
  <1> QED  BY <1>5, <1>6

(* What a published round was stays so as time passes. *)
LEMMA OutLasts ==
    ASSUME now \in Nat, now' \in Nat, now' >= now, NEW r \in Target, Out(r)
    PROVE  Out(r)'
  <1>1. Genesis \in Nat /\ Period \in Nat \ {0} /\ r \in Nat  BY HooksAssumption
  <1>2. (r - 1) * Period \in Int  BY <1>1
  <1>3. now' >= Genesis + (r - 1) * Period  BY <1>1, <1>2 DEF Out
  <1> QED  BY <1>3 DEF Out

----------------------------------------------------------------------------
(* The initial states *)

LEMMA InitInv == ASSUME Init PROVE IInv
  <1>1. hook \in {"live", "drand"}  BY DEF Init
  <1>2. LiveTyped  BY DEF Init, LiveTyped, LiveRec, NoLive, StatusSet
  <1>3. DrandTyped
    <2>1. now \in Nat /\ skew \in (-MaxSkew)..MaxSkew
      BY HooksAssumption DEF Init
    <2>2. ASSUME hook = "drand" PROVE target \in Target /\ drand \in DrandRec
      <3>1. target \in Target /\ target \in Int  BY <2>2, HooksAssumption DEF Init
      <3> QED  BY <3>1 DEF Init, Loading, DrandRec
    <2>3. target \in Int  BY HooksAssumption DEF Init
    <2> QED  BY <2>1, <2>2, <2>3 DEF DrandTyped
  <1>4. PollsSound
    <2>1. Idle \in PollRec  BY DEF Idle, PollRec, StatusSet
    <2>2. \A s \in Slot : poll[s] = Idle  BY DEF Init
    <2>3. PollSound(Idle)  BY DEF PollSound, Idle
    <2>4. poll \in [Slot -> PollRec]  BY <2>1 DEF Init
    <2> QED  BY <2>2, <2>3, <2>4 DEF PollsSound
  <1>5. LiveSound  BY DEF Init, LiveSound, StillSo, NoLive
  <1>6. DrandSound  BY DEF Init, DrandSound, Loading
  <1> QED  BY <1>1, <1>2, <1>3, <1>4, <1>5, <1>6 DEF IInv

----------------------------------------------------------------------------
(* Steps of the world *)

(* The statuses go forward, and what was read at one stays so. *)
LEMMA RoundKeeps ==
    ASSUME IInv, Round PROVE IInv'
  <1> USE DEF IInv
  <1>1. LiveTyped'  BY DEF Round, LiveTyped, StatusSet
  <1>2. ASSUME NEW status, NEW bidders, NEW revealed, NEW ask,
               StillSo(status, bidders, revealed, ask)
        PROVE  StillSo(status, bidders, revealed, ask)'
    BY <1>2 DEF Round, StillSo, LiveTyped, StatusSet
  <1>3. PollsSound'
    <2>1. poll' = poll /\ hook' = hook  BY DEF Round
    <2>2. ASSUME NEW s \in Slot PROVE PollSound(poll[s])'
      <3>1. PollSound(poll[s])  BY DEF PollsSound
      <3>2. /\ chain.status # "Open" => chain'.status # "Open"
            /\ chain.status = "Over" => chain'.status = "Over"
        BY DEF Round, LiveTyped
      <3>3. poll[s].at = "bids" =>
                StillSo(poll[s].status, poll[s].bidders, poll[s].revealed, poll[s].ask)'
        BY <1>2, <2>1, <3>1 DEF PollSound
      <3> QED  BY <2>1, <3>1, <3>2, <3>3 DEF PollSound
    <2> QED  BY <2>1, <2>2 DEF PollsSound
  <1>4. LiveSound'
    <2>1. live' = live  BY DEF Round
    <2> QED  BY <1>2, <2>1 DEF LiveSound
  <1>5. DrandTyped' /\ DrandSound'
    BY DEF Round, drandVars, DrandTyped, DrandSound, Out
  <1> QED  BY <1>1, <1>3, <1>4, <1>5 DEF Round

LEMMA TickKeeps ==
    ASSUME IInv, Tick PROVE IInv'
  <1> USE DEF IInv
  <1>1. /\ hook' = hook /\ poll' = poll /\ chain' = chain /\ live' = live
        /\ skew' = skew /\ target' = target /\ drand' = drand
        /\ now' = now + 1 /\ now \in Nat
    BY DEF Tick, liveVars, DrandTyped
  <1>2. LiveTyped' /\ LiveSound'  BY <1>1 DEF LiveTyped, LiveSound, StillSo
  <1>3. DrandTyped'  BY <1>1 DEF DrandTyped
  <1>4. PollsSound'  BY <1>1 DEF PollsSound, PollSound, StillSo
  <1>5. DrandSound'
    <2>1. ASSUME drand.published PROVE Out(drand.target)'
      BY <1>1, <2>1, OutLasts DEF DrandSound
    <2> QED  BY <1>1, <2>1 DEF DrandSound, Out
  <1> QED  BY <1>1, <1>2, <1>3, <1>4, <1>5

----------------------------------------------------------------------------
(* Steps of the polls: one slot changes, to a poll that is sound. *)

LEMMA OnePoll ==
    ASSUME PollsSound, NEW s \in Slot, NEW p \in PollRec, PollSound(p),
           poll' = [poll EXCEPT ![s] = p], chain' = chain, hook' = hook
    PROVE  PollsSound'
  <1>1. \A t \in Slot : poll'[t] = IF t = s THEN p ELSE poll[t]  BY DEF PollsSound
  <1>2. poll' \in [Slot -> PollRec]  BY DEF PollsSound
  <1>3. ASSUME NEW t \in Slot PROVE PollSound(poll[t])'
    <2>1. PollSound(poll'[t])  BY <1>1 DEF PollsSound
    <2> QED  BY <2>1 DEF PollSound, StillSo
  <1> QED  BY <1>2, <1>3 DEF PollsSound

(* A step that leaves the displays and what they show alone keeps them. *)
LEMMA DisplaysKept ==
    ASSUME LiveTyped, LiveSound, DrandTyped, DrandSound,
           hook' = hook, UNCHANGED liveVars, UNCHANGED drandVars
    PROVE  LiveTyped' /\ LiveSound' /\ DrandTyped' /\ DrandSound'
  BY DEF liveVars, drandVars, LiveTyped, LiveSound, DrandTyped, DrandSound, StillSo, Out

LEMMA StartSound ==
    ASSUME IInv, NEW s \in Slot
    PROVE  Start(s) \in PollRec /\ PollSound(Start(s))
  <1> QED
    BY DEF Start, Idle, First, PollRec, PollSound, StatusSet, IInv, DrandTyped

LEMMA IdleSound == Idle \in PollRec /\ PollSound(Idle)
  BY DEF Idle, PollRec, PollSound, StatusSet

(* Interval, Effect and the reads of a poll: only the polls change. *)
LEMMA OnlyPollKeeps ==
    ASSUME IInv, NEW s \in Slot, NEW p \in PollRec, PollSound(p),
           poll' = [poll EXCEPT ![s] = p], hook' = hook, UNCHANGED liveVars, UNCHANGED drandVars
    PROVE  IInv'
  <1>1. PollsSound'  BY OnePoll DEF IInv, liveVars
  <1>2. LiveTyped' /\ LiveSound' /\ DrandTyped' /\ DrandSound'  BY DisplaysKept DEF IInv
  <1> QED  BY <1>1, <1>2 DEF IInv

LEMMA CleanupKeeps ==
    ASSUME IInv, Cleanup PROVE IInv'
  <1>1. /\ hook' = hook /\ chain' = chain /\ live' = live /\ now' = now /\ skew' = skew
        /\ drand' = drand
    BY DEF Cleanup, liveVars
  <1>2. PollsSound'
    <2>1. ASSUME NEW s \in Slot
          PROVE  poll'[s] \in PollRec /\ PollSound(poll[s])'
      <3>1. poll[s] \in PollRec /\ PollSound(poll[s])  BY DEF IInv, PollsSound
      <3>2. poll'[s] = poll[s] \/ poll'[s] = [poll[s] EXCEPT !.cancelled = TRUE]
        BY DEF Cleanup
      <3>3. /\ poll'[s] \in PollRec /\ poll'[s].at = poll[s].at
            /\ poll'[s].target = poll[s].target /\ poll'[s].status = poll[s].status
            /\ poll'[s].bidders = poll[s].bidders /\ poll'[s].ask = poll[s].ask
            /\ poll'[s].revealed = poll[s].revealed
        BY <3>1, <3>2 DEF PollRec
      <3> QED  BY <1>1, <3>1, <3>3 DEF PollSound, StillSo
    <2>2. DOMAIN poll' = Slot /\ poll' = [s \in Slot |-> poll'[s]]
      BY DEF Cleanup
    <2> QED  BY <2>1, <2>2 DEF PollsSound
  <1>3. LiveTyped' /\ LiveSound'  BY <1>1 DEF IInv, LiveTyped, LiveSound, StillSo
  <1>4. DrandTyped'
    <2>1. target' \in Int /\ (hook = "drand" => target' \in Target)
      BY HooksAssumption DEF Cleanup, IInv, DrandTyped
    <2> QED  BY <1>1, <2>1 DEF IInv, DrandTyped
  <1>5. DrandSound'  BY <1>1 DEF IInv, DrandSound, Out
  <1> QED  BY <1>1, <1>2, <1>3, <1>4, <1>5 DEF IInv

LEMMA PollReads ==
    ASSUME IInv, NEW s \in Slot, PollRound(s) \/ PollBidders(s) \/ PollBid(s)
    PROVE  IInv'
  <1>0. /\ poll[s] \in PollRec /\ PollSound(poll[s]) /\ LiveTyped
    BY DEF IInv, PollsSound
  <1>1. CASE PollRound(s)
    <2> DEFINE p == [poll[s] EXCEPT !.at = "bidders", !.status = chain.status]
    <2>1. p \in PollRec  BY <1>0 DEF PollRec, LiveTyped
    <2>2. p.at = "bidders" /\ p.status = chain.status /\ p.revealed = poll[s].revealed
      BY <1>0 DEF PollRec
    <2>3. PollSound(p)  BY <1>0, <1>1, <2>2 DEF PollSound, PollRound
    <2> QED  BY <1>1, <2>1, <2>3, OnlyPollKeeps DEF PollRound, Goto, OnlyPoll
  <1>2. CASE PollBidders(s)
    <2> DEFINE p == [poll[s] EXCEPT !.at = "bids", !.bidders = chain.index, !.ask = chain.index]
    <2>1. p \in PollRec  BY <1>0 DEF PollRec, LiveTyped
    <2>2. /\ p.at = "bids" /\ p.status = poll[s].status /\ p.revealed = poll[s].revealed
          /\ p.bidders = chain.index /\ p.ask = chain.index
      BY <1>0 DEF PollRec
    <2>3. PollSound(p)  BY <1>0, <1>2, <2>2 DEF PollSound, PollBidders, StillSo, PollRec, StatusSet
    <2> QED  BY <1>2, <2>1, <2>3, OnlyPollKeeps DEF PollBidders, Goto, OnlyPoll
  <1>3. CASE PollBid(s)
    <2>1. PICK b \in poll[s].ask :
            Goto(s, [poll[s] EXCEPT !.ask = @ \ {b},
                                    !.revealed = @ \cup ({b} \cap chain.revealed)])
      BY <1>3 DEF PollBid
    <2> DEFINE p == [poll[s] EXCEPT !.ask = @ \ {b},
                                    !.revealed = @ \cup ({b} \cap chain.revealed)]
    <2>2. poll[s].ask \subseteq Peer /\ poll[s].revealed \subseteq Peer /\ chain.revealed \subseteq Peer
      BY <1>0 DEF PollRec, LiveTyped
    <2>3. p \in PollRec  BY <1>0, <2>2 DEF PollRec
    <2>4. /\ p.at = "bids" /\ p.status = poll[s].status /\ p.bidders = poll[s].bidders
          /\ p.ask = poll[s].ask \ {b}
          /\ p.revealed = poll[s].revealed \cup ({b} \cap chain.revealed)
      BY <1>0, <1>3 DEF PollRec, PollBid
    <2>5. /\ StillSo(poll[s].status, poll[s].bidders, poll[s].revealed, poll[s].ask)
          /\ poll[s].ask \subseteq poll[s].bidders /\ b \in poll[s].ask
      BY <1>0, <1>3 DEF PollBid, PollSound
    <2>6. PollSound(p)
      <3> QED  BY <2>4, <2>5 DEF PollSound, StillSo
    <2> QED  BY <1>3, <2>1, <2>3, <2>6, OnlyPollKeeps DEF PollBid, Goto, OnlyPoll
  <1> QED  BY <1>1, <1>2, <1>3

LEMMA PollsStart ==
    ASSUME IInv, NEW s \in Slot, Interval(s) PROVE IInv'
  BY StartSound, OnlyPollKeeps DEF Interval

LEMMA EffectKeeps ==
    ASSUME IInv, Effect PROVE IInv'
  <1>1. PICK s \in Slot : poll' = [poll EXCEPT ![s] = Start(s)]  BY DEF Effect
  <1> QED  BY <1>1, StartSound, OnlyPollKeeps DEF Effect

(* a poll that ends *)
LEMMA EndsKeeps ==
    ASSUME IInv, NEW s \in Slot, Ends(s), chain' = chain, hook' = hook
    PROVE  PollsSound'
  BY IdleSound, OnePoll DEF IInv, Ends

(* The snapshot shown is the one the poll pieced together. *)
LEMMA SetLiveKeeps ==
    ASSUME IInv, NEW s \in Slot, SetLive(s) PROVE IInv'
  <1>0. /\ poll[s] \in PollRec /\ poll[s].at = "bids" /\ poll[s].ask = {}
        /\ StillSo(poll[s].status, poll[s].bidders, poll[s].revealed, {})
    BY DEF IInv, PollsSound, PollSound, SetLive
  <1>1. PollsSound'  BY EndsKeeps DEF SetLive
  <1>2. live' \in LiveRec /\ LiveSound'
    <2>1. CASE poll[s].cancelled
      BY <2>1 DEF SetLive, LiveSound, StillSo, IInv, LiveTyped
    <2>2. CASE ~poll[s].cancelled
      <3> DEFINE v == [status |-> poll[s].status, bidders |-> poll[s].bidders,
                       revealed |-> poll[s].revealed]
      <3>1. live' = v /\ chain' = chain  BY <2>2 DEF SetLive
      <3>2. v \in LiveRec  BY <1>0 DEF LiveRec, PollRec
      <3> QED  BY <1>0, <3>1, <3>2 DEF LiveSound, StillSo
    <2> QED  BY <2>1, <2>2
  <1>3. LiveTyped'  BY <1>2 DEF SetLive, IInv, LiveTyped
  <1>4. DrandTyped' /\ DrandSound'
    BY DEF SetLive, drandVars, IInv, DrandTyped, DrandSound, Out
  <1> QED  BY <1>1, <1>2, <1>3, <1>4 DEF IInv, SetLive

(* The countdown of a target is right of it at the time it is read. *)
LEMMA CountdownSound ==
    ASSUME IInv, NEW r \in Target
    PROVE  LET d == Countdown(r, CurrentRound) IN
           /\ d \in DrandRec /\ d.target = r
           /\ d.published => Out(r)
           /\ d.published <=> d.seconds = 0
  <1> DEFINE d == Countdown(r, CurrentRound)
             wait == timeOfRound(r) - (now + skew)
             published == CurrentRound >= r
  <1>0. /\ Genesis \in Nat /\ Period \in Nat \ {0} /\ r \in Nat \ {0}
        /\ now \in Nat /\ skew \in (-MaxSkew)..MaxSkew /\ skew \in Int
    BY HooksAssumption DEF IInv, DrandTyped
  <1>1. Period * r \in Int  BY <1>0
  <1>2. timeOfRound(r) \in Int  BY <1>0, <1>1 DEF timeOfRound
  <1>3. wait \in Int  BY <1>0, <1>2
  <1>4. published => Out(r)  BY <1>0, CountedIsOut
  <1>5. ~published => wait > 0
    <2>1. ~published => timeOfRound(r) > now + skew  BY <1>0, CountedIsOut
    <2> QED  BY <1>0, <1>2, <2>1
  <1>6. Max({0, wait}) \in Int /\ (~published => Max({0, wait}) > 0)
    <2> HIDE DEF wait
    <2> QED  BY <1>3, <1>5, MaxOfTwo
  <1>7. published \in BOOLEAN  OBVIOUS
  <1>8. d = [target |-> r, loading |-> FALSE, error |-> FALSE, published |-> published,
             seconds |-> IF published THEN 0 ELSE Max({0, wait})]
    BY DEF Countdown
  <1> HIDE DEF wait, published, d
  <1>9. /\ d.target = r /\ d.published = published
        /\ d.seconds = IF published THEN 0 ELSE Max({0, wait})
    BY <1>8
  <1>10. d.seconds \in Int /\ (d.published <=> d.seconds = 0)  BY <1>6, <1>7, <1>9
  <1>11. d \in DrandRec  BY <1>0, <1>7, <1>8, <1>9, <1>10 DEF DrandRec
  <1> QED  BY <1>4, <1>9, <1>10, <1>11 DEF d

LEMMA SetDrandKeeps ==
    ASSUME IInv, NEW s \in Slot, SetDrand(s) PROVE IInv'
  <1>0. /\ poll[s] \in PollRec /\ hook = "drand" /\ poll[s].target \in Target
    BY DEF IInv, PollsSound, PollSound, SetDrand, TickAnswers
  <1> DEFINE d == Countdown(poll[s].target, CurrentRound)
  <1>1. /\ d \in DrandRec /\ d.target = poll[s].target
        /\ d.published => Out(poll[s].target)
        /\ d.published <=> d.seconds = 0
    BY <1>0, CountdownSound
  <1> HIDE DEF d
  <1>2. /\ Ends(s) /\ chain' = chain /\ live' = live /\ hook' = hook
        /\ now' = now /\ skew' = skew /\ target' = target
        /\ drand' = IF poll[s].cancelled THEN drand ELSE d
    BY DEF SetDrand, TickAnswers, liveVars, d
  <1>3. PollsSound'  BY <1>2, EndsKeeps
  <1>4. LiveTyped' /\ LiveSound'  BY <1>2 DEF IInv, LiveTyped, LiveSound, StillSo
  <1>5. DrandTyped'  BY <1>1, <1>2 DEF IInv, DrandTyped
  <1>6. DrandSound'
    <2>1. CASE drand' = drand  BY <1>2, <2>1 DEF IInv, DrandSound, Out
    <2>2. CASE drand' = d
      BY <1>0, <1>1, <1>2, <2>2 DEF DrandSound, Out
    <2> QED  BY <1>2, <2>1, <2>2
  <1> QED  BY <1>2, <1>3, <1>4, <1>5, <1>6 DEF IInv

LEMMA FailsKeeps ==
    ASSUME IInv, NEW s \in Slot, Fails(s) PROVE IInv'
  <1>1. /\ Ends(s) /\ chain' = chain /\ live' = live /\ hook' = hook
        /\ now' = now /\ skew' = skew /\ target' = target
        /\ drand' = IF poll[s].cancelled \/ hook = "live" THEN drand
                    ELSE [drand EXCEPT !.loading = FALSE, !.error = TRUE]
    BY DEF Fails, liveVars
  <1>2. PollsSound'  BY <1>1, EndsKeeps
  <1>3. LiveTyped' /\ LiveSound'  BY <1>1 DEF IInv, LiveTyped, LiveSound, StillSo
  <1>4. CASE drand' = drand
    <2>1. DrandTyped' /\ DrandSound'  BY <1>1, <1>4 DEF IInv, DrandTyped, DrandSound, Out
    <2> QED  BY <1>1, <1>2, <1>3, <2>1 DEF IInv
  <1>5. CASE hook = "drand" /\ drand' = [drand EXCEPT !.loading = FALSE, !.error = TRUE]
    <2>1. drand \in DrandRec  BY <1>5 DEF IInv, DrandTyped
    <2>2. /\ drand' \in DrandRec /\ drand'.target = drand.target /\ drand'.error = TRUE
          /\ drand'.published = drand.published
      BY <1>5, <2>1 DEF DrandRec
    <2>3. DrandTyped'  BY <1>1, <2>2 DEF IInv, DrandTyped
    <2>4. DrandSound'  BY <1>1, <1>5, <2>2 DEF IInv, DrandSound, Out
    <2> QED  BY <1>1, <1>2, <1>3, <2>3, <2>4 DEF IInv
  <1> QED  BY <1>1, <1>4, <1>5 DEF IInv

----------------------------------------------------------------------------
(* The theorems *)

(* Whatever overlaps, fails or answers late, each poll under way and what  *)
(* is on display agree with the round and with Drand.                      *)
THEOREM Inductive == Spec => []IInv
  <1>1. ASSUME IInv, [Next]_vars PROVE IInv'
    <2>1. CASE Round  BY <1>1, <2>1, RoundKeeps
    <2>2. CASE Tick  BY <1>1, <2>2, TickKeeps
    <2>3. CASE Effect  BY <1>1, <2>3, EffectKeeps
    <2>4. CASE Cleanup  BY <1>1, <2>4, CleanupKeeps
    <2>5. ASSUME NEW s \in Slot, Interval(s) PROVE IInv'  BY <1>1, <2>5, PollsStart
    <2>6. ASSUME NEW s \in Slot, Answers(s) PROVE IInv'
      BY <1>1, <2>6, PollReads, SetLiveKeeps, SetDrandKeeps DEF Answers
    <2>7. ASSUME NEW s \in Slot, Fails(s) PROVE IInv'  BY <1>1, <2>7, FailsKeeps
    <2>8. CASE UNCHANGED vars
      BY <1>1, <2>8 DEF vars, IInv, LiveTyped, DrandTyped, PollsSound, PollSound, LiveSound,
                        DrandSound, StillSo, Out
    <2> QED  BY <1>1, <2>1, <2>2, <2>3, <2>4, <2>5, <2>6, <2>7, <2>8 DEF Next
  <1> QED  BY <1>1, InitInv, PTL DEF Spec

(* A snapshot of a round past its commits lists the final bidders, and of  *)
(* a round that is over all that was revealed (useLiveRound.tick).         *)
THEOREM SnapshotsComplete == Spec => []SnapshotComplete
  <1>1. ASSUME IInv PROVE SnapshotComplete
    BY <1>1 DEF IInv, LiveSound, StillSo, LiveTyped, LiveRec, SnapshotComplete
  <1> QED  BY <1>1, Inductive, PTL

(* The gate opens only on a round Drand has, and the chip and the countdown *)
(* agree on it (useDrandCountdown, DrandCountdownChip).                     *)
THEOREM GateOpensOnTime == Spec => []PublishedIsOut
  <1>1. ASSUME IInv PROVE PublishedIsOut
    <2>1. drand.published => Out(drand.target)  BY <1>1 DEF IInv, DrandSound
    <2>2. CASE hook = "live"
      <3>1. ~drand.published /\ drand.loading  BY <1>1, <2>2 DEF IInv, DrandSound
      <3>2. Chip = "syncing"  BY <3>1 DEF Chip
      <3> QED  BY <2>1, <3>2 DEF PublishedIsOut
    <2>3. CASE hook = "drand"
      <3>1. /\ drand.loading \in BOOLEAN /\ drand.error \in BOOLEAN
            /\ drand.published \in BOOLEAN
        BY <1>1, <2>3 DEF IInv, DrandTyped, DrandRec
      <3>2. drand.loading \/ drand.error => Chip \in {"syncing", "offline"}
        BY <3>1 DEF Chip
      <3>3. ~drand.loading /\ ~drand.error =>
                Chip = IF drand.published THEN "published" ELSE "waiting"
        BY <3>1 DEF Chip
      <3>4. ~drand.loading /\ ~drand.error => (drand.published <=> drand.seconds = 0)
        BY <1>1 DEF IInv, DrandSound
      <3> QED  BY <2>1, <3>1, <3>2, <3>3, <3>4 DEF PublishedIsOut
    <2> QED  BY <1>1, <2>2, <2>3 DEF IInv
  <1> QED  BY <1>1, Inductive, PTL

=============================================================================
