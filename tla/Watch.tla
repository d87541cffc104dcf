------------------------------- MODULE Watch -------------------------------
(***************************************************************************)
(* watch.ts: one keeper process that lists the rounds and drives them one  *)
(* after another, with the discovery of keeper.ts.  What a visit does to   *)
(* its own round is Keeper's subject and is reduced here to the status it  *)
(* reads and changes at each of its stages; this module is about the loop: *)
(* which rounds are visited, how often, and what a failing one does to the *)
(* others.                                                                 *)
(*                                                                         *)
(* pc is the await the process is at:                                      *)
(*   loop   the head of while (!stopping)                                  *)
(*   probe  discoverRoundIds, one getRound after the other                 *)
(*   next   the head of the for loop                                       *)
(*   void, keep, close, settle   inside watchRound(current)                *)
(*   sleep  until the next poll                                            *)
(***************************************************************************)
EXTENDS Integers, Sequences, FiniteSets

CONSTANTS
    MaxRound,   \* bound on rounds ever created
    From,       \* WATCH_FROM
    MaxProbe,   \* WATCH_MAX_ROUNDS
    Specs,      \* what WATCH_ROUND_IDS may say: sets of ranges; {} if unset
    Bad,        \* rounds whose bidders cannot be read: every reveal pass throws
    MaxFaults   \* bound on calls that fail by themselves

RoundId == 1..MaxRound

ASSUME WatchAssumption ==
    /\ MaxRound \in Nat \ {0} /\ From \in Nat \ {0} /\ MaxProbe \in Nat
    /\ Bad \subseteq RoundId /\ MaxFaults \in Nat
    /\ \A parts \in Specs : parts \subseteq Nat \X Nat /\ IsFiniteSet(parts)

VARIABLES
    stage, phase, beacon,   \* the rounds on chain, their clocks, their R
    spec, stopping,         \* the environment of the process; a signal came
    pc, ids, current,       \* ids: found so far (probe), then still to visit
    faults,
    waited                  \* history: visits to others since the last to r

chainVars == <<stage, phase, beacon>>
loopVars == <<pc, ids, current>>
vars == <<stage, phase, beacon, spec, stopping, pc, ids, current, faults, waited>>

Phases == <<"committing", "revealing", "over", "stale">>
Stages == {"Absent", "Open", "Revealing", "Cleared", "Settled", "Voided"}
Final == {"Settled", "Voided"}
Created == {r \in RoundId : stage[r] # "Absent"}
Enough == 2 * MaxRound      \* where the history stops counting

Init ==
    /\ stage = [r \in RoundId |-> "Absent"]
    /\ phase = [r \in RoundId |-> "committing"]
    /\ beacon = [r \in RoundId |-> FALSE]
    /\ spec \in Specs /\ stopping = FALSE
    /\ pc = "loop" /\ ids = <<>> /\ current = 0
    /\ faults = 0 /\ waited = [r \in RoundId |-> 0]

----------------------------------------------------------------------------
(* The chain *)

Becomes(r, s) == stage' = [stage EXCEPT ![r] = s]
OpenReveal(r) == stage[r] = "Open" /\ beacon[r] /\ Becomes(r, "Revealing")
Clear(r) ==
    /\ stage[r] = "Revealing" /\ phase[r] \in {"over", "stale"}
    /\ Becomes(r, "Cleared") \/ Becomes(r, "Voided")    \* with a valid bid, or without
Settle(r) == stage[r] = "Cleared" /\ Becomes(r, "Settled")
Void(r) == stage[r] = "Open" /\ phase[r] = "stale" /\ Becomes(r, "Voided")

(* create_round hands out consecutive ids *)
CreateRound ==
    /\ \E r \in RoundId : /\ Created = 1..(r - 1)
                          /\ Becomes(r, "Open")
    /\ UNCHANGED <<phase, beacon, spec, stopping, faults, waited>> /\ UNCHANGED loopVars

(* Somebody else, also run.ts: one keepRound over the round of its         *)
(* ROUND_ID, and no closeRound.  Of that pass only the stage it moves is   *)
(* kept; the reveals that follow change no stage.                          *)
RunOnce ==
    /\ \E r \in RoundId : OpenReveal(r)
    /\ UNCHANGED <<phase, beacon, spec, stopping, faults, waited>> /\ UNCHANGED loopVars

Anyone ==
    /\ \E r \in RoundId : Clear(r) \/ Settle(r) \/ Void(r)
    /\ UNCHANGED <<phase, beacon, spec, stopping, faults, waited>> /\ UNCHANGED loopVars

Pass(r) ==
    /\ stage[r] # "Absent" /\ phase[r] # "stale"
    /\ phase' = [phase EXCEPT ![r] = CASE @ = "committing" -> "revealing"
                                       [] @ = "revealing" -> "over"
                                       [] @ = "over" -> "stale"]
    /\ UNCHANGED <<stage, beacon, spec, stopping, faults, waited>> /\ UNCHANGED loopVars

(* Drand may be late, or never publish *)
PublishR(r) ==
    /\ phase[r] # "committing" /\ ~beacon[r]
    /\ beacon' = [beacon EXCEPT ![r] = TRUE]
    /\ UNCHANGED <<stage, phase, spec, stopping, faults, waited>> /\ UNCHANGED loopVars

Signal ==
    /\ ~stopping /\ stopping' = TRUE
    /\ UNCHANGED <<spec, faults, waited>> /\ UNCHANGED chainVars /\ UNCHANGED loopVars

----------------------------------------------------------------------------
(* The list of a tick *)

Goto(l) == pc' = l
OnlyLoop == UNCHANGED <<spec, stopping>> /\ UNCHANGED chainVars

(* "1,2,5" and "1-5": the ids of all parts, each once, in order *)
IdsOf(parts) == UNION {p[1]..p[2] : p \in parts}
Rank(id, S) == Cardinality({other \in S : other < id})
parseRoundIdSpec(parts) ==
    LET S == IdsOf(parts) IN
    [i \in 1..Cardinality(S) |-> CHOOSE id \in S : Rank(id, S) = i - 1]

(* mutant: only the for loop looks for the signal *)
resolveRoundIdsDeaf ==
    /\ pc = "loop"
    /\ IF spec # {} THEN Goto("next") /\ ids' = parseRoundIdSpec(spec)
       ELSE Goto("probe") /\ ids' = <<>>
    /\ UNCHANGED <<current, faults, waited>> /\ OnlyLoop

resolveRoundIds ==
    /\ pc = "loop"
    /\ CASE stopping                  -> Goto("stopped") /\ ids' = <<>>
         [] ~stopping /\ spec # {}     -> Goto("next") /\ ids' = parseRoundIdSpec(spec)
         [] ~stopping /\ spec = {}     -> Goto("probe") /\ ids' = <<>>
    /\ UNCHANGED <<current, faults, waited>> /\ OnlyLoop

(* Probing ends at the limit or at the first id that is not found. *)
discoverRoundIds ==
    LET id == From + Len(ids) IN
    /\ pc = "probe"
    /\ \/ /\ Len(ids) < MaxProbe /\ id \in Created
          /\ ids' = Append(ids, id) /\ UNCHANGED pc
       \/ /\ ~(Len(ids) < MaxProbe /\ id \in Created)
          /\ Goto("next") /\ UNCHANGED ids
    /\ UNCHANGED <<current, faults, waited>> /\ OnlyLoop

(* Any other error loses the whole list: the tick visits nobody. *)
ListFails ==
    /\ pc = "probe" /\ faults < MaxFaults
    /\ faults' = faults + 1
    /\ ids' = <<>> /\ Goto("sleep")
    /\ UNCHANGED <<current, waited>> /\ OnlyLoop

----------------------------------------------------------------------------
(* The for loop *)

Visit ==
    /\ pc = "next" /\ ids # <<>> /\ ~stopping
    /\ current' = Head(ids) /\ ids' = Tail(ids) /\ Goto("void")
    /\ waited' = [r \in RoundId |->
                    IF r = Head(ids) \/ stage[r] = "Absent" THEN 0
                    ELSE IF waited[r] < Enough THEN waited[r] + 1 ELSE waited[r]]
    /\ UNCHANGED faults /\ OnlyLoop

NoMore ==
    /\ pc = "next" /\ (ids = <<>> \/ stopping)
    /\ ids' = <<>> /\ Goto("sleep")
    /\ UNCHANGED <<current, faults, waited>> /\ OnlyLoop

Sleep ==
    /\ pc = "sleep" /\ Goto("loop")
    /\ UNCHANGED <<ids, current, faults, waited>> /\ OnlyLoop

(* The stages of watchRound; its getRound throws for an id that is not     *)
(* there.  Where it finds nothing to do it goes on to the next stage.      *)
Stage(from, to) ==
    /\ pc = from /\ current \in Created /\ Goto(to)
    /\ UNCHANGED <<phase, beacon, spec, stopping, ids, current, faults, waited>>

voidIfStale ==
    /\ Stage("void", "keep")
    /\ \/ Void(current)
       \/ ~(stage[current] = "Open" /\ phase[current] = "stale") /\ UNCHANGED stage

(* a pass that gets as far as the bidders *)
Opens ==
    \/ stage[current] = "Revealing"
    \/ stage[current] = "Open" /\ beacon[current]

keepRound ==
    /\ Stage("keep", "close")
    /\ ~(current \in Bad /\ Opens)
    /\ \/ OpenReveal(current)
       \/ ~(stage[current] = "Open" /\ beacon[current]) /\ UNCHANGED stage

closeRound ==
    /\ Stage("close", "settle")
    /\ \/ Clear(current)
       \/ /\ ~(stage[current] = "Revealing" /\ phase[current] \in {"over", "stale"})
          /\ UNCHANGED stage

settleRound ==
    /\ Stage("settle", "next")
    /\ \/ Settle(current)
       \/ stage[current] # "Cleared" /\ UNCHANGED stage

Visiting == pc \in {"void", "keep", "close", "settle"}

(* Why a visit may throw: the id is not there, its bidders cannot be read, *)
(* or a call fails.                                                        *)
Throws ==
    \/ current \notin Created /\ UNCHANGED faults
    \/ pc = "keep" /\ current \in Bad /\ Opens /\ UNCHANGED faults
    \/ faults < MaxFaults /\ faults' = faults + 1

(* what the call that threw may have done before *)
Landed ==
    \/ UNCHANGED stage
    \/ /\ current \in RoundId
       /\ \/ pc = "void" /\ Void(current)
          \/ pc = "keep" /\ OpenReveal(current)
          \/ pc = "close" /\ Clear(current)
          \/ pc = "settle" /\ Settle(current)

(* mutant: the try is around the for loop *)
TickFailedAll ==
    /\ Visiting /\ Throws /\ Landed
    /\ Goto("sleep") /\ ids' = <<>>
    /\ UNCHANGED <<phase, beacon, spec, stopping, current, waited>>

(* The catch inside the for loop: logged, and on to the next id. *)
TickFailed ==
    /\ Visiting /\ Throws /\ Landed
    /\ Goto("next")
    /\ UNCHANGED <<phase, beacon, spec, stopping, ids, current, waited>>

----------------------------------------------------------------------------

main ==
    \/ resolveRoundIds \/ discoverRoundIds \/ ListFails
    \/ Visit \/ NoMore \/ Sleep
    \/ voidIfStale \/ keepRound \/ closeRound \/ settleRound \/ TickFailed

Others ==
    \/ CreateRound \/ RunOnce \/ Anyone \/ Signal
    \/ \E r \in RoundId : Pass(r) \/ PublishR(r)

Next == main \/ Others

Spec == Init /\ [][Next]_vars

(* The process runs on, its calls return or throw, and time passes.        *)
(* Nothing makes Drand publish or anybody else act.                        *)
FairSpec == Spec /\ WF_vars(main) /\ \A r \in RoundId : WF_vars(Pass(r))

----------------------------------------------------------------------------
(* Properties *)

(* the rounds this process is set up to drive *)
Driven ==
    {r \in Created \ Bad :
        IF spec = {} THEN r >= From /\ r < From + MaxProbe
        ELSE r \in IdsOf(spec)}

(* No round is starved by the others, failing ones included: between two   *)
(* visits to it, or its creation and its first, each other id of a given   *)
(* list is visited at most once; discovery appends the newest, which may   *)
(* have to wait for the rest of one tick and all before it in the next.    *)
FairTurns ==
    \A r \in Driven :
        waited[r] <= IF spec = {} THEN 2 * (MaxRound - 1)
                     ELSE Len(parseRoundIdSpec(spec)) - 1

(* What bounds a wait: the place of the round in the list of the tick.     *)
InTick == pc \in {"next", "void", "keep", "close", "settle"}

(* A given list L: its first k ids have been visited in this tick.         *)
ListTurns(L) ==
    LET n == Len(L)
        k == n - Len(ids)
    IN  /\ InTick => k \in 0..n /\ \A i \in 1..Len(ids) : ids[i] = L[k + i]
        /\ \A p \in 1..n :
              L[p] \in Created =>
                 waited[L[p]] <= IF ~InTick THEN n - p
                                 ELSE IF p <= k THEN k - p ELSE n - p + k

(* Discovered ids: consecutive from From; ids[1] is the next one to visit, *)
(* and a round beyond the last one was created after the probe.            *)
FoundTurns ==
    /\ pc = "probe" \/ InTick =>
          \A i \in 1..Len(ids) : ids[i] \in Created /\ ids[i] = ids[1] + i - 1
    /\ ids # <<>> /\ InTick => ids[1] >= From
    /\ ids # <<>> /\ pc = "probe" => ids[1] = From
    /\ \A r \in Created \cap From..(From + MaxProbe - 1) :
          waited[r] <= IF ~InTick \/ ids = <<>> THEN MaxRound - 1
                       ELSE IF r < ids[1] THEN ids[1] - 1 - From
                       ELSE IF r < ids[1] + Len(ids) THEN MaxRound - 1 + ids[1] - From
                       ELSE ids[1] - From

(* The inductive invariant behind FairTurns.  After a signal nobody is     *)
(* visited any more.                                                       *)
TurnsInv ==
    /\ stage \in [RoundId -> Stages] /\ waited \in [RoundId -> Nat]
    /\ spec \in Specs /\ stopping \in BOOLEAN /\ ids \in Seq(Nat)
    /\ \A r \in Created : 1..r \subseteq Created
    /\ \A r \in RoundId \ Created : waited[r] = 0
    /\ pc = "probe" => spec = {}
    /\ ~stopping => IF spec = {} THEN FoundTurns ELSE ListTurns(parseRoundIdSpec(spec))
    /\ FairTurns

(* Rounds end although another can never be driven on, the list fails to   *)
(* load, and Drand may stay silent, unless the process is stopped.         *)
EachRoundEnds == \A r \in RoundId : r \in Driven ~> (stage[r] \in Final \/ stopping)

(* A signal ends the process, wherever in the loop it strikes. *)
StopsOnSignal == stopping ~> pc = "stopped"

(* watch.ts:1: drives "every in-flight round through open -> reveal ->     *)
(* clear -> settle (or void after grace)".                                 *)
EveryRoundDriven ==
    \A r \in RoundId \ Bad :
        (stage[r] # "Absent" /\ spec = {}) ~> (stage[r] \in Final \/ stopping)

=============================================================================
