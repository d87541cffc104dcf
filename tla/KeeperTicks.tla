----------------------------- MODULE KeeperTicks -----------------------------
(***************************************************************************)
(* What one tick of the watch loop owes the round.  A keeper remembers     *)
(* nothing between ticks (keeper.ts), so a crash, a failed call or a       *)
(* refusal in one tick costs nothing only if any later tick, begun from    *)
(* whatever state the round was left in, takes it up from there.  That is  *)
(* a relation between the state a tick begins in and the one it returns    *)
(* in, some twenty awaits later; a history variable holds the former.      *)
(***************************************************************************)
EXTENDS Keeper

VARIABLE owed   \* [Keeper -> the status its tick has to move on, or "none"]

tickVars == <<vars, owed>>

(* The round as a tick finds it can be moved on by whoever tries, now and  *)
(* until somebody does.                                                    *)
Ripe ==
    \/ status = "Open" /\ ledger > RevealDeadline + VoidGrace
    \/ status = "Open" /\ RoundDue /\ beacon
    \/ status = "Revealing" /\ ledger > RevealDeadline
    \/ status = "Cleared"

TickInit == Init /\ owed = [k \in Keeper |-> "none"]

Begins(k) == pc[k] = "asleep" /\ pc'[k] # "asleep"

(* Five tries found the beacon at none of Drand's replicas.                *)
Unserved(k) == pc[k] = "keepRound" /\ pc'[k] = "rewatch" /\ faults' # faults

Remember ==
    owed' = [k \in Keeper |->
                IF Begins(k) THEN (IF Ripe THEN status ELSE "none")
                ELSE IF pc'[k] = "asleep" \/ Unserved(k) THEN "none"
                ELSE owed[k]]

TickNext == Next /\ Remember

TickSpec == TickInit /\ [][TickNext]_tickVars

(* It returns from one of its reads, or after settle; every other way to   *)
(* "asleep" is an exception, which the watch loop reports as a failure.    *)
Returns(k) ==
    /\ pc[k] \in ReadLabels \cup {"settle"} /\ pc'[k] = "asleep"
    /\ faults' = faults

(* A tick that returns (watchRound) has not left the round in a state that *)
(* could be moved on when it began, whatever other keepers, strangers and  *)
(* the clocks did meanwhile: nothing is forgotten that an earlier tick,    *)
(* cut short by a crash or a failed call, had left to be done.             *)
TickMovesOn ==
    [][\A k \in Keeper : Returns(k) => status' # owed[k]]_tickVars

----------------------------------------------------------------------------
(* The inductive invariant: where a tick can be while the round is still   *)
(* in the state it has to move on                                          *)

OpeningLabels == {"voidIfStale", "void", "watch", "keepRound", "openReveal"}
ClosingLabels == {"voidIfStale", "watch", "keepRound", "getBidders", "nextBidder", "getSeal",
                  "reveal", "kept", "rewatch", "closeRound", "clear"}
SettlingLabels == {"voidIfStale", "watch", "closeRound", "settle"}

OwesOpen(k) ==
    \/ ledger > RevealDeadline + VoidGrace /\ pc[k] \in {"voidIfStale", "void"}
    \/ RoundDue /\ beacon /\ pc[k] \in OpeningLabels

OwedInv(k) ==
    /\ pc[k] = "asleep" => owed[k] = "none"
    /\ owed[k] = "Open" /\ status = "Open" => OwesOpen(k)
    /\ owed[k] = "Revealing" => status # "Open"
    /\ owed[k] = "Revealing" /\ status = "Revealing" =>
          ledger > RevealDeadline /\ pc[k] \in ClosingLabels
    /\ owed[k] = "Cleared" => status \in {"Cleared", "Settled"}
    /\ owed[k] = "Cleared" /\ status = "Cleared" => pc[k] \in SettlingLabels

TickIInv ==
    /\ owed \in [Keeper -> {"none", "Open", "Revealing", "Cleared"}]
    /\ \A k \in Keeper : OwedInv(k)

=============================================================================
