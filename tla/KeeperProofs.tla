---------------------------- MODULE KeeperProofs ----------------------------
(***************************************************************************)
(* Proofs about Keeper, for any number of keepers and bidders, any offers, *)
(* deadlines and fault budget.  The argument: a step changes the round     *)
(* only through one of its operations (StepEffect); operations only move   *)
(* it forward (Forward); so what a keeper's loop has recorded stays true   *)
(* under everybody else's steps (Frame), and its own steps keep it.        *)
(*                                                                         *)
(* The second part is about what a tick achieves (KeeperTicks): as long as *)
(* the round is in the state it owes to move on, the tick is at one of a   *)
(* few calls, and the last of them moves it.                               *)
(*                                                                         *)
(* The third part is about the scripts of E2E, whose run drives the same   *)
(* keepers; only its theorems use ScriptAssumption.                        *)
(***************************************************************************)
EXTENDS E2E, KeeperTicks, RoundProofs

(* keepers' steps leave the other keepers alone *)
LEMMA Locality ==
    ASSUME KeeperTypeOK, NEW k \in Keeper, KeeperStep(k) \/ BeaconNotServed(k) \/ RpcFails(k),
           NEW j \in Keeper, j # k
    PROVE  /\ pc'[j] = pc[j] /\ todo'[j] = todo[j] /\ current'[j] = current[j]
           /\ decrypted'[j] = decrypted[j] /\ claims'[j] = claims[j]
           /\ revealedBy'[j] = revealedBy[j] /\ skipped'[j] = skipped[j]
<1> USE DEF KeeperTypeOK, Goto, Sleep, LoopUnchanged, Proceed, Read, Refused, SkipBidder
<1>1. CASE StartTick(k) BY <1>1 DEF StartTick
<1>2. CASE VoidIfStale(k) BY <1>2 DEF VoidIfStale
<1>3. CASE VoidTx(k) BY <1>3 DEF VoidTx
<1>4. CASE WatchRound(k) BY <1>4 DEF WatchRound
<1>5. CASE KeepRound(k) BY <1>5 DEF KeepRound
<1>6. CASE OpenRevealTx(k) BY <1>6 DEF OpenRevealTx
<1>7. CASE Reopened(k) BY <1>7 DEF Reopened
<1>8. CASE GetBidders(k) BY <1>8 DEF GetBidders
<1>9. CASE NextBidder(k) BY <1>9 DEF NextBidder
<1>10. CASE GetSeal(k) BY <1>10 DEF GetSeal
<1>11. CASE RevealTx(k) BY <1>11 DEF RevealTx
<1>12. CASE LoopDone(k) BY <1>12 DEF LoopDone
<1>13. CASE Kept(k) BY <1>13 DEF Kept
<1>14. CASE RewatchRound(k) BY <1>14 DEF RewatchRound
<1>15. CASE CloseRound(k) BY <1>15 DEF CloseRound
<1>16. CASE ClearTx(k) BY <1>16 DEF ClearTx
<1>17. CASE Cleared(k) BY <1>17 DEF Cleared
<1>18. CASE SettleTx(k) BY <1>18 DEF SettleTx
<1>19. CASE BeaconNotServed(k) BY <1>19 DEF BeaconNotServed
<1>20. CASE RpcFails(k) BY <1>20 DEF RpcFails
<1>q. QED BY <1>1, <1>2, <1>3, <1>4, <1>5, <1>6, <1>7, <1>8, <1>9, <1>10, <1>11,
             <1>12, <1>13, <1>14, <1>15, <1>16, <1>17, <1>18, <1>19, <1>20 DEF KeeperStep

(* A keeper's step either leaves the round alone or is one operation of it. *)
LEMMA StepEffect ==
    ASSUME IInv, [Next]_vars
    PROVE  UNCHANGED roundVars \/ RoundStep
<1> USE DEF RoundStep, Read, Refused
<1>1. CASE UNCHANGED vars BY <1>1 DEF vars, roundVars
<1>2. CASE Others
  BY <1>2 DEF Others, Bidding, Anyone, Passing
<1>3. ASSUME NEW k \in Keeper, KeeperStep(k) PROVE UNCHANGED roundVars \/ RoundStep
  <2>1. CASE StartTick(k) BY <2>1 DEF StartTick
  <2>2. CASE VoidIfStale(k) BY <2>2 DEF VoidIfStale
  <2>3. CASE VoidTx(k) BY <2>3 DEF VoidTx
  <2>4. CASE WatchRound(k) BY <2>4 DEF WatchRound
  <2>5. CASE KeepRound(k) BY <2>5 DEF KeepRound
  <2>6. CASE OpenRevealTx(k) BY <2>6 DEF OpenRevealTx
  <2>7. CASE Reopened(k) BY <2>7 DEF Reopened
  <2>8. CASE GetBidders(k) BY <2>8 DEF GetBidders
  <2>9. CASE NextBidder(k) BY <2>9 DEF NextBidder
  <2>10. CASE GetSeal(k) BY <2>10 DEF GetSeal
  <2>11. CASE RevealTx(k)
    <3>1. pc[k] = "reveal" BY <2>11 DEF RevealTx
    <3>2. current[k] \in Bidder
      BY <3>1, <1>3 DEF IInv, LoopInv, TypeOK, KeeperTypeOK
    <3>q. QED BY <2>11, <3>2 DEF RevealTx
  <2>12. CASE LoopDone(k) BY <2>12 DEF LoopDone
  <2>13. CASE Kept(k) BY <2>13 DEF Kept
  <2>14. CASE RewatchRound(k) BY <2>14 DEF RewatchRound
  <2>15. CASE CloseRound(k) BY <2>15 DEF CloseRound
  <2>16. CASE ClearTx(k) BY <2>16 DEF ClearTx
  <2>17. CASE Cleared(k) BY <2>17 DEF Cleared
  <2>18. CASE SettleTx(k) BY <2>18 DEF SettleTx
  <2>q. QED BY <1>3, <2>1, <2>2, <2>3, <2>4, <2>5, <2>6, <2>7, <2>8, <2>9, <2>10, <2>11,
               <2>12, <2>13, <2>14, <2>15, <2>16, <2>17, <2>18 DEF KeeperStep
<1>4. ASSUME NEW k \in Keeper, BeaconNotServed(k) PROVE UNCHANGED roundVars
  BY <1>4 DEF BeaconNotServed
<1>5. ASSUME NEW k \in Keeper, RpcFails(k) PROVE UNCHANGED roundVars \/ RoundStep
  <2>1. pc[k] = "reveal" => current[k] \in Bidder
    BY <1>5 DEF IInv, LoopInv, TypeOK, KeeperTypeOK
  <2>q. QED BY <1>5, <2>1 DEF RpcFails, roundVars, chainVars, envVars
<1>q. QED BY <1>1, <1>2, <1>3, <1>4, <1>5 DEF Next

LEMMA SleepTyped ==
    ASSUME KeeperTypeOK, NEW k \in Keeper, Sleep(k), faults' \in 0..MaxFaults, swept' \in BOOLEAN
    PROVE  KeeperTypeOK'
<1>1. NoneSkipped \in [Bidder -> Reasons] BY DEF NoneSkipped, Reasons
<1>q. QED BY <1>1 DEF KeeperTypeOK, Sleep, Goto, Labels

LEMMA ProceedTyped ==
    ASSUME KeeperTypeOK, NEW k \in Keeper, NEW l \in Labels, Proceed(k, l),
           faults' \in 0..MaxFaults, swept' \in BOOLEAN
    PROVE  KeeperTypeOK'
<1>1. CASE Sleep(k) BY <1>1, SleepTyped
<1>2. CASE Goto(k, l) /\ LoopUnchanged /\ UNCHANGED claims
  BY <1>2 DEF KeeperTypeOK, Goto, LoopUnchanged
<1>q. QED BY <1>1, <1>2 DEF Proceed

LEMMA ReadTyped ==
    ASSUME KeeperTypeOK, NEW k \in Keeper, NEW from, NEW l \in Labels, Read(k, from, l)
    PROVE  KeeperTypeOK'
BY ProceedTyped DEF Read, KeeperTypeOK

LEMMA RefusedTyped ==
    ASSUME KeeperTypeOK, NEW k \in Keeper, NEW codes, NEW skips, NEW l \in Labels,
           Refused(k, codes, skips, l)
    PROVE  KeeperTypeOK'
BY ProceedTyped, SleepTyped DEF Refused, KeeperTypeOK

LEMMA ClaimTyped ==
    ASSUME KeeperTypeOK, NEW k \in Keeper, NEW l \in Labels, NEW C \in SUBSET Claims,
           claims' = [claims EXCEPT ![k] = @ \cup C], Goto(k, l), LoopUnchanged,
           UNCHANGED <<faults, swept>>
    PROVE  KeeperTypeOK'
BY DEF KeeperTypeOK, Goto, LoopUnchanged

LEMMA SkipTyped ==
    ASSUME KeeperTypeOK, NEW k \in Keeper, NEW b \in Bidder, NEW why \in Reasons,
           SkipBidder(k, b, why), faults' \in 0..MaxFaults, swept' \in BOOLEAN
    PROVE  KeeperTypeOK'
<1>1. skipped' \in [Keeper -> [Bidder -> Reasons]] BY DEF KeeperTypeOK, SkipBidder
<1>q. QED BY <1>1 DEF KeeperTypeOK, SkipBidder, Goto, Labels, ReadLabels

LEMMA KeeperTyped ==
    ASSUME IInv, [Next]_vars
    PROVE  KeeperTypeOK'
<1> USE DEF Labels, TxLabels, ReadLabels
<1>t. KeeperTypeOK /\ faults \in 0..MaxFaults /\ swept \in BOOLEAN /\ MaxFaults \in Nat
  BY ShapeAssumption DEF IInv, TypeOK, KeeperTypeOK
<1>f. faults < MaxFaults /\ faults' = faults + 1 => faults' \in 0..MaxFaults BY <1>t
<1>0. CASE UNCHANGED vars BY <1>t, <1>0 DEF vars, KeeperTypeOK
<1>00. CASE Others BY <1>t, <1>00 DEF Others, keeperVars, KeeperTypeOK
<1>k. ASSUME NEW k \in Keeper, KeeperStep(k) \/ BeaconNotServed(k) \/ RpcFails(k)
      PROVE  KeeperTypeOK'
  <2>1. CASE StartTick(k) BY <1>t, <2>1, ReadTyped DEF StartTick
  <2>2. CASE VoidIfStale(k) BY <1>t, <2>2, ReadTyped DEF VoidIfStale
  <2>3. CASE VoidTx(k) BY <1>t, <2>3, RefusedTyped, ClaimTyped DEF VoidTx, Claims
  <2>4. CASE WatchRound(k)
    <3>1. \E l \in Labels : Read(k, "watch", l) BY <2>4 DEF WatchRound
    <3>q. QED BY <1>t, <3>1, ReadTyped
  <2>5. CASE KeepRound(k)
    <3>1. \E l \in Labels : Read(k, "keepRound", l) BY <2>5 DEF KeepRound
    <3>q. QED BY <1>t, <3>1, ReadTyped
  <2>6. CASE OpenRevealTx(k) BY <1>t, <2>6, RefusedTyped, ClaimTyped DEF OpenRevealTx, Claims
  <2>7. CASE Reopened(k) BY <1>t, <2>7, ReadTyped DEF Reopened
  <2>8. CASE GetBidders(k) BY <1>t, <2>8 DEF GetBidders, Index, Goto, KeeperTypeOK
  <2>9. CASE NextBidder(k)
    <3>1. PICK b \in todo[k] :
            \/ SkipBidder(k, b, "already revealed") /\ faults' = faults
            \/ /\ current' = [current EXCEPT ![k] = b] /\ Goto(k, "getSeal")
               /\ UNCHANGED <<todo, decrypted, claims, revealedBy, skipped, faults>>
            \/ /\ faults < MaxFaults /\ faults' = faults + 1
               /\ SkipBidder(k, b, "state read failed")
      BY <2>9 DEF NextBidder
    <3>2. b \in Bidder /\ swept' = swept BY <1>t, <3>1, <2>9 DEF KeeperTypeOK, NextBidder
    <3>3. CASE SkipBidder(k, b, "already revealed") /\ faults' = faults
      BY <1>t, <3>2, <3>3, SkipTyped DEF Reasons
    <3>5. CASE /\ faults < MaxFaults /\ faults' = faults + 1
               /\ SkipBidder(k, b, "state read failed")
      BY <1>t, <1>f, <3>2, <3>5, SkipTyped DEF Reasons
    <3>4. CASE /\ current' = [current EXCEPT ![k] = b] /\ Goto(k, "getSeal")
               /\ UNCHANGED <<todo, decrypted, claims, revealedBy, skipped, faults>>
      BY <1>t, <3>2, <3>4 DEF KeeperTypeOK, Goto
    <3>q. QED BY <3>1, <3>3, <3>4, <3>5
  <2>c. pc[k] \in {"getSeal", "reveal"} => current[k] \in Bidder
    BY <1>t DEF IInv, LoopInv, KeeperTypeOK
  <2>10. CASE GetSeal(k)
    <3>1. current[k] \in Bidder /\ swept' = swept BY <2>10, <2>c DEF GetSeal
    <3>2. CASE SkipBidder(k, current[k], "seal expired/absent") /\ faults' = faults
      BY <1>t, <3>1, <3>2, SkipTyped DEF Reasons
    <3>4. CASE /\ faults' = faults \/ (faults < MaxFaults /\ faults' = faults + 1)
               /\ SkipBidder(k, current[k], "decrypt failed")
      BY <1>t, <1>f, <3>1, <3>4, SkipTyped DEF Reasons
    <3>3. CASE /\ decrypted' = [decrypted EXCEPT ![k] = (bids[current[k]].seal = "good")]
               /\ Goto(k, "reveal")
               /\ UNCHANGED <<todo, current, claims, revealedBy, skipped, faults>>
      BY <1>t, <3>1, <3>3 DEF KeeperTypeOK, Goto
    <3>q. QED BY <2>10, <3>2, <3>3, <3>4 DEF GetSeal
  <2>11. CASE RevealTx(k)
    <3>1. current[k] \in Bidder /\ swept' = swept /\ faults' = faults
      BY <2>11, <2>c DEF RevealTx
    <3>2. CASE \E why \in Reasons : SkipBidder(k, current[k], why)
      BY <1>t, <3>1, <3>2, SkipTyped
    <3>3. CASE Sleep(k) BY <1>t, <3>1, <3>3, SleepTyped
    <3>4. CASE /\ revealedBy' = [revealedBy EXCEPT ![k] = @ \cup {current[k]}]
               /\ todo' = [todo EXCEPT ![k] = @ \ {current[k]}]
               /\ current' = [current EXCEPT ![k] = NoOne]
               /\ decrypted' = [decrypted EXCEPT ![k] = FALSE]
               /\ Goto(k, "nextBidder") /\ UNCHANGED <<claims, skipped>>
      BY <1>t, <3>1, <3>4 DEF KeeperTypeOK, Goto
    <3>q. QED BY <2>11, <3>2, <3>3, <3>4 DEF RevealTx, Reasons
  <2>12. CASE LoopDone(k) BY <1>t, <2>12 DEF LoopDone, LoopUnchanged, Goto, KeeperTypeOK
  <2>13. CASE Kept(k) BY <1>t, <2>13, ReadTyped DEF Kept
  <2>14. CASE RewatchRound(k) BY <1>t, <2>14, ReadTyped DEF RewatchRound
  <2>15. CASE CloseRound(k)
    <3>1. \E l \in Labels : Read(k, "closeRound", l) BY <2>15 DEF CloseRound
    <3>q. QED BY <1>t, <3>1, ReadTyped
  <2>16. CASE ClearTx(k)
    <3>1. CASE Refused(k, ClearRefusals,
                  {"AlreadyCleared", "RevealStillOpen", "WrongStatus", "RoundVoided"}, "cleared")
      BY <1>t, <3>1, RefusedTyped
    <3>2. CASE \E C \in SUBSET Claims : /\ claims' = [claims EXCEPT ![k] = @ \cup C]
                                       /\ Goto(k, "cleared") /\ LoopUnchanged
                                       /\ UNCHANGED <<faults, swept>>
      BY <1>t, <3>2, ClaimTyped
    <3>3. CASE /\ claims' = [claims EXCEPT ![k] = @ \cup {"cleared"}
                                \cup (IF winner' = NoOne THEN {"voided"} ELSE {})]
               /\ Goto(k, "cleared") /\ LoopUnchanged /\ UNCHANGED <<faults, swept>>
      BY <1>t, <3>3 DEF Claims, KeeperTypeOK, Goto, LoopUnchanged
    <3>q. QED BY <2>16, <3>1, <3>3 DEF ClearTx
  <2>17. CASE Cleared(k) BY <1>t, <2>17, ReadTyped DEF Cleared
  <2>18. CASE SettleTx(k) BY <1>t, <2>18, SleepTyped, RefusedTyped DEF SettleTx
  <2>19. CASE BeaconNotServed(k)
    BY <1>t, <2>19 DEF BeaconNotServed, Goto, LoopUnchanged, KeeperTypeOK
  <2>20. CASE RpcFails(k) BY <1>t, <2>20, SleepTyped DEF RpcFails
  <2>q. QED BY <1>k, <2>1, <2>2, <2>3, <2>4, <2>5, <2>6, <2>7, <2>8, <2>9, <2>10, <2>11, <2>12,
               <2>13, <2>14, <2>15, <2>16, <2>17, <2>18, <2>19, <2>20 DEF KeeperStep
<1>q. QED BY <1>0, <1>00, <1>k DEF Next

----------------------------------------------------------------------------
(* The loop of keeper j, while anybody else moves, and when j itself goes  *)
(* from one call to the next outside the loop *)
Outside(j) ==
    /\ pc'[j] \in Labels \ InLoop
    /\ pc'[j] \in BeforeLoop => pc[j] \in BeforeLoop
    /\ pc'[j] = "getBidders" => status' # "Open"

LEMMA Frame ==
    ASSUME RoundTypeOK, KeeperTypeOK, NEW j \in Keeper, LoopInv(j),
           UNCHANGED roundVars \/ RoundStep,
           pc'[j] = pc[j] \/ Outside(j),
           todo'[j] = todo[j], current'[j] = current[j],
           decrypted'[j] = decrypted[j], revealedBy'[j] = revealedBy[j],
           skipped'[j] = skipped[j]
    PROVE  LoopInv(j)'
<1>1. /\ status # "Open" => status' # "Open" /\ bids' = bids
      /\ revealed \subseteq revealed' /\ ledger <= ledger'
  BY Forward
<1>2. SkippedBy(j)' = SkippedBy(j) BY DEF SkippedBy
<1>3. status # "Open" => Index' = Index BY <1>1 DEF Index
<1>4. ASSUME NEW b \in Bidder PROVE ReasonHolds(b, skipped[j][b])'
  <2>1. ReasonHolds(b, skipped[j][b]) BY DEF LoopInv
  <2>2. CASE b \in SkippedBy(j)
    <3>1. status # "Open" BY <2>2 DEF LoopInv
    <3>2. ledger \in Int /\ ledger' \in Int /\ RevealDeadline \in Int
      BY TimeAssumption, <1>1 DEF RoundTypeOK, RoundStep, Tick, CloseLedger, PublishR,
         ExpireSeal, Commit, OpenReveal, Clear, Settle, Void, Reveal, envVars, roundVars
    <3>3. ledger > RevealDeadline => ledger' > RevealDeadline BY <1>1, <3>2
    <3>4. bids' = bids BY <1>1, <3>1
    <3>5. skipped'[j][b] = skipped[j][b] OBVIOUS
    <3>q. QED BY <1>1, <2>1, <3>3, <3>4, <3>5 DEF ReasonHolds
  <2>3. CASE b \notin SkippedBy(j) BY <2>3 DEF SkippedBy, ReasonHolds
  <2>q. QED BY <2>2, <2>3
<1>5. CASE pc'[j] = pc[j] BY <1>1, <1>2, <1>3, <1>4, <1>5 DEF LoopInv, BeforeLoop, InLoop
<1>6. CASE Outside(j) BY <1>1, <1>2, <1>4, <1>6 DEF LoopInv, BeforeLoop, InLoop, Outside
<1>q. QED BY <1>5, <1>6

LEMMA SleepLoop ==
    ASSUME KeeperTypeOK, NEW k \in Keeper, Sleep(k)
    PROVE  LoopInv(k)'
<1>1. /\ pc'[k] = "asleep" /\ todo'[k] = {} /\ revealedBy'[k] = {}
      /\ skipped'[k] = NoneSkipped
  BY DEF KeeperTypeOK, Sleep, Goto
<1>2. \A b \in Bidder : skipped'[k][b] = "-" BY <1>1 DEF NoneSkipped
<1>3. SkippedBy(k)' = {} BY <1>2 DEF SkippedBy
<1>4. \A b \in Bidder : ReasonHolds(b, skipped[k][b])' BY <1>2 DEF ReasonHolds
<1>q. QED BY <1>1, <1>3, <1>4 DEF LoopInv, BeforeLoop, InLoop

LEMMA MoveLoop ==
    ASSUME RoundTypeOK, KeeperTypeOK, NEW k \in Keeper, LoopInv(k),
           UNCHANGED roundVars \/ RoundStep, LoopUnchanged,
           NEW l \in Labels \ InLoop, Goto(k, l),
           l \in BeforeLoop => pc[k] \in BeforeLoop,
           l = "getBidders" => status' # "Open"
    PROVE  LoopInv(k)'
<1>1. Outside(k) BY DEF Goto, KeeperTypeOK, Outside
<1>q. QED BY <1>1, Frame DEF LoopUnchanged

LEMMA ReadLoop ==
    ASSUME RoundTypeOK, KeeperTypeOK, NEW k \in Keeper, LoopInv(k),
           NEW from, NEW l \in Labels \ InLoop, Read(k, from, l),
           l \in BeforeLoop => from \in BeforeLoop,
           l = "getBidders" => status # "Open"
    PROVE  LoopInv(k)'
<1>1. pc[k] = from /\ UNCHANGED roundVars /\ status' = status BY DEF Read, roundVars
<1>2. CASE Sleep(k) BY <1>2, SleepLoop
<1>3. CASE Goto(k, l) /\ LoopUnchanged BY <1>1, <1>3, MoveLoop
<1>q. QED BY <1>2, <1>3 DEF Read, Proceed

LEMMA RefusedLoop ==
    ASSUME RoundTypeOK, KeeperTypeOK, NEW k \in Keeper, LoopInv(k),
           NEW codes, NEW skips, NEW l \in Labels \ InLoop, Refused(k, codes, skips, l),
           l \in BeforeLoop => pc[k] \in BeforeLoop,
           l # "getBidders"
    PROVE  LoopInv(k)'
<1>1. UNCHANGED roundVars BY DEF Refused
<1>2. CASE Sleep(k) BY <1>2, SleepLoop
<1>3. CASE Goto(k, l) /\ LoopUnchanged BY <1>1, <1>3, MoveLoop
<1>q. QED BY <1>2, <1>3 DEF Refused, Proceed

(* One bidder leaves todo with a reason that holds. *)
LEMMA SkipLoop ==
    ASSUME KeeperTypeOK, NEW k \in Keeper, LoopInv(k), UNCHANGED roundVars,
           pc[k] \in InLoop, NEW b \in todo[k], NEW why \in Reasons \ {"-"},
           ReasonHolds(b, why), SkipBidder(k, b, why)
    PROVE  LoopInv(k)'
<1>0. b \in Bidder BY DEF KeeperTypeOK
<1>1. /\ pc'[k] = "nextBidder" /\ todo'[k] = todo[k] \ {b} /\ revealedBy'[k] = revealedBy[k]
      /\ skipped'[k] = [skipped[k] EXCEPT ![b] = why]
  BY DEF KeeperTypeOK, SkipBidder, Goto
<1>2. \A c \in Bidder : skipped'[k][c] = IF c = b THEN why ELSE skipped[k][c]
  BY <1>0, <1>1 DEF KeeperTypeOK
<1>3. SkippedBy(k)' = SkippedBy(k) \cup {b} BY <1>0, <1>2 DEF SkippedBy
<1>4. UNCHANGED <<status, bids, revealed, ledger>> /\ Index' = Index
  BY DEF roundVars, Index
<1>5. \A c \in Bidder : ReasonHolds(c, skipped[k][c])'
  BY <1>2, <1>4 DEF ReasonHolds, LoopInv
<1>q. QED BY <1>1, <1>3, <1>4, <1>5 DEF LoopInv, BeforeLoop, InLoop

(* Keeper k's own steps keep its loop's bookkeeping. *)
LEMMA OwnLoop ==
    ASSUME IInv, [Next]_vars, UNCHANGED roundVars \/ RoundStep,
           NEW k \in Keeper, KeeperStep(k) \/ BeaconNotServed(k) \/ RpcFails(k)
    PROVE  LoopInv(k)'
<1>t. RoundTypeOK /\ KeeperTypeOK /\ LoopInv(k) BY DEF IInv, TypeOK
<1> USE DEF BeforeLoop, InLoop, Labels, TxLabels, ReadLabels
<1>1. CASE StartTick(k) BY <1>1, <1>t, ReadLoop DEF StartTick
<1>2. CASE VoidIfStale(k) BY <1>2, <1>t, ReadLoop DEF VoidIfStale
<1>3. CASE VoidTx(k)
  <2>1. pc[k] = "void" BY <1>3 DEF VoidTx
  <2>2. CASE Goto(k, "watch") /\ LoopUnchanged BY <2>1, <2>2, <1>t, MoveLoop
  <2>q. QED BY <1>3, <2>1, <2>2, <1>t, RefusedLoop DEF VoidTx
<1>4. CASE WatchRound(k)
  <2>1. Read(k, "watch", "keepRound") \/ Read(k, "watch", "closeRound") \/ Read(k, "watch", "asleep")
    BY <1>4 DEF WatchRound
  <2>q. QED BY <2>1, <1>t, ReadLoop
<1>5. CASE KeepRound(k)
  <2>1. \/ Read(k, "keepRound", "openReveal")
        \/ Read(k, "keepRound", "getBidders") /\ status # "Open"
        \/ Read(k, "keepRound", "rewatch")
    BY <1>5 DEF KeepRound
  <2>q. QED BY <2>1, <1>t, ReadLoop
<1>6. CASE OpenRevealTx(k)
  <2>1. pc[k] = "openReveal" BY <1>6 DEF OpenRevealTx
  <2>2. CASE Goto(k, "reopened") /\ LoopUnchanged BY <2>1, <2>2, <1>t, MoveLoop
  <2>q. QED BY <1>6, <2>1, <2>2, <1>t, RefusedLoop DEF OpenRevealTx
<1>7. CASE Reopened(k)
  <2>1. \/ Read(k, "reopened", "getBidders") /\ status # "Open"
        \/ Read(k, "reopened", "rewatch")
    BY <1>7 DEF Reopened
  <2>q. QED BY <2>1, <1>t, ReadLoop
<1>8. CASE GetBidders(k)
  <2>1. /\ pc[k] = "getBidders" /\ pc'[k] = "nextBidder" /\ todo'[k] = Index
        /\ revealedBy' = revealedBy /\ skipped' = skipped
    BY <1>8, <1>t DEF GetBidders, Goto, KeeperTypeOK
  <2>2. /\ UNCHANGED <<status, bids, revealed, ledger>> /\ Index' = Index
        /\ SkippedBy(k)' = SkippedBy(k)
    BY <1>8 DEF GetBidders, roundVars, Index, SkippedBy
  <2>3. \A b \in Bidder : ReasonHolds(b, skipped[k][b])'
    BY <1>t, <2>1, <2>2 DEF LoopInv, ReasonHolds
  <2>q. QED BY <1>t, <2>1, <2>2, <2>3 DEF LoopInv
<1>9. CASE NextBidder(k)
  <2>1. pc[k] = "nextBidder" /\ UNCHANGED roundVars BY <1>9 DEF NextBidder
  <2>2. PICK b \in todo[k] :
          \/ b \in revealed /\ SkipBidder(k, b, "already revealed")
          \/ /\ current' = [current EXCEPT ![k] = b] /\ Goto(k, "getSeal")
             /\ UNCHANGED <<todo, decrypted, claims, revealedBy, skipped, faults>>
          \/ SkipBidder(k, b, "state read failed")
    BY <1>9 DEF NextBidder
  <2>3. CASE b \in revealed /\ SkipBidder(k, b, "already revealed")
    BY <1>t, <2>1, <2>3, SkipLoop DEF ReasonHolds, Reasons
  <2>4. CASE SkipBidder(k, b, "state read failed")
    BY <1>t, <2>1, <2>4, SkipLoop DEF ReasonHolds, Reasons
  <2>5. CASE /\ current' = [current EXCEPT ![k] = b] /\ Goto(k, "getSeal")
             /\ UNCHANGED <<todo, decrypted, claims, revealedBy, skipped, faults>>
    <3>1. pc'[k] = "getSeal" /\ current'[k] = b
      BY <1>t, <2>5 DEF KeeperTypeOK, Goto
    <3>2. /\ UNCHANGED <<status, bids, revealed, ledger>> /\ Index' = Index
          /\ SkippedBy(k)' = SkippedBy(k)
      BY <2>1, <2>5 DEF roundVars, Index, SkippedBy
    <3>3. \A c \in Bidder : ReasonHolds(c, skipped[k][c])'
      BY <1>t, <2>5, <3>2 DEF LoopInv, ReasonHolds
    <3>q. QED BY <1>t, <2>1, <2>5, <3>1, <3>2, <3>3 DEF LoopInv
  <2>q. QED BY <2>2, <2>3, <2>4, <2>5
<1>c. pc[k] \in {"getSeal", "reveal"} => current[k] \in todo[k] BY <1>t DEF LoopInv
<1>10. CASE GetSeal(k)
  <2>1. pc[k] = "getSeal" /\ UNCHANGED roundVars /\ current[k] \in todo[k]
    BY <1>10, <1>c DEF GetSeal
  <2>2. CASE SkipBidder(k, current[k], "seal expired/absent")
    BY <1>t, <2>1, <2>2, SkipLoop DEF ReasonHolds, Reasons
  <2>3. CASE SkipBidder(k, current[k], "decrypt failed")
    BY <1>t, <2>1, <2>3, SkipLoop DEF ReasonHolds, Reasons
  <2>4. CASE /\ decrypted' = [decrypted EXCEPT ![k] = (bids[current[k]].seal = "good")]
             /\ Goto(k, "reveal")
             /\ UNCHANGED <<todo, current, claims, revealedBy, skipped, faults>>
    <3>1. pc'[k] = "reveal" /\ decrypted'[k] = (bids[current[k]].seal = "good")
      BY <1>t, <2>4 DEF KeeperTypeOK, Goto
    <3>2. /\ UNCHANGED <<status, bids, revealed, ledger>> /\ Index' = Index
          /\ SkippedBy(k)' = SkippedBy(k)
      BY <2>1, <2>4 DEF roundVars, Index, SkippedBy
    <3>3. \A c \in Bidder : ReasonHolds(c, skipped[k][c])'
      BY <1>t, <2>4, <3>2 DEF LoopInv, ReasonHolds
    <3>q. QED BY <1>t, <2>1, <2>4, <3>1, <3>2, <3>3 DEF LoopInv
  <2>q. QED BY <1>10, <2>2, <2>3, <2>4 DEF GetSeal
<1>11. CASE RevealTx(k)
  <2>1. pc[k] = "reveal" /\ current[k] \in todo[k] BY <1>11, <1>c DEF RevealTx
  <2>2. CASE Sleep(k) BY <1>t, <2>2, SleepLoop
  <2>3. CASE UNCHANGED roundVars /\ SkipBidder(k, current[k], "race") /\ current[k] \in revealed
    BY <1>t, <2>1, <2>3, SkipLoop DEF ReasonHolds, Reasons
  <2>4. CASE /\ UNCHANGED roundVars /\ SkipBidder(k, current[k], "hash mismatch")
             /\ bids[current[k]].seal # "good"
    BY <1>t, <2>1, <2>4, SkipLoop DEF ReasonHolds, Reasons
  <2>5. CASE /\ UNCHANGED roundVars /\ SkipBidder(k, current[k], "window closed")
             /\ ledger > RevealDeadline
    BY <1>t, <2>1, <2>5, SkipLoop DEF ReasonHolds, Reasons
  <2>6. CASE /\ Reveal(current[k])
             /\ revealedBy' = [revealedBy EXCEPT ![k] = @ \cup {current[k]}]
             /\ todo' = [todo EXCEPT ![k] = @ \ {current[k]}]
             /\ Goto(k, "nextBidder") /\ UNCHANGED <<claims, skipped>>
    <3>1. /\ pc'[k] = "nextBidder" /\ todo'[k] = todo[k] \ {current[k]}
          /\ revealedBy'[k] = revealedBy[k] \cup {current[k]}
      BY <1>t, <2>6 DEF KeeperTypeOK, Goto
    <3>2. /\ UNCHANGED <<status, bids, ledger>> /\ Index' = Index
          /\ revealed' = revealed \cup {current[k]} /\ SkippedBy(k)' = SkippedBy(k)
      BY <2>6 DEF Reveal, envVars, Index, SkippedBy
    <3>3. \A c \in Bidder : ReasonHolds(c, skipped[k][c])'
      BY <1>t, <2>6, <3>2 DEF LoopInv, ReasonHolds
    <3>q. QED BY <1>t, <2>1, <2>6, <3>1, <3>2, <3>3 DEF LoopInv
  <2>q. QED
    <3>1. decrypted[k] = (bids[current[k]].seal = "good") BY <1>t, <2>1 DEF LoopInv
    <3>2. ASSUME NEW code \in RevealRefusals(current[k], decrypted[k])
          PROVE  /\ code = "AlreadyRevealed" => current[k] \in revealed
                 /\ code = "HashMismatch" => ~decrypted[k]
                 /\ code = "RevealWindowClosed" => ledger > RevealDeadline
      BY <1>t, TimeAssumption DEF RevealRefusals, Unless, StatusErrors, RoundTypeOK, Statuses
    <3>q. QED BY <1>11, <2>2, <2>3, <2>4, <2>5, <2>6, <3>1, <3>2 DEF RevealTx, IDEMPOTENT_REVEAL
<1>12. CASE LoopDone(k)
  <2>1. /\ pc[k] = "nextBidder" /\ todo[k] = {} /\ pc'[k] = "kept"
        /\ UNCHANGED <<todo, revealedBy, skipped>>
    BY <1>12, <1>t DEF LoopDone, LoopUnchanged, Goto, KeeperTypeOK
  <2>2. /\ UNCHANGED <<status, bids, revealed, ledger>> /\ Index' = Index
        /\ SkippedBy(k)' = SkippedBy(k)
    BY <1>12, <2>1 DEF LoopDone, roundVars, Index, SkippedBy
  <2>3. \A c \in Bidder : ReasonHolds(c, skipped[k][c])'
    BY <1>t, <2>1, <2>2 DEF LoopInv, ReasonHolds
  <2>q. QED BY <1>t, <2>1, <2>2, <2>3 DEF LoopInv
<1>13. CASE Kept(k) BY <1>13, <1>t, ReadLoop DEF Kept
<1>14. CASE RewatchRound(k)
  <2>1. Read(k, "rewatch", "closeRound") \/ Read(k, "rewatch", "asleep")
    BY <1>14 DEF RewatchRound
  <2>2. Read(k, "rewatch", "asleep") => Sleep(k) BY DEF Read, Proceed
  <2>q. QED BY <1>t, <2>1, <2>2, ReadLoop, SleepLoop
<1>15. CASE CloseRound(k)
  <2>1. \/ Read(k, "closeRound", "clear") \/ Read(k, "closeRound", "settle")
        \/ Read(k, "closeRound", "asleep")
    BY <1>15 DEF CloseRound
  <2>2. Read(k, "closeRound", "asleep") => Sleep(k) BY DEF Read, Proceed
  <2>q. QED BY <1>t, <2>1, <2>2, ReadLoop, SleepLoop
<1>16. CASE ClearTx(k)
  <2>1. pc[k] = "clear" BY <1>16 DEF ClearTx
  <2>2. CASE Goto(k, "cleared") /\ LoopUnchanged BY <2>1, <2>2, <1>t, MoveLoop
  <2>q. QED BY <1>16, <2>1, <2>2, <1>t, RefusedLoop DEF ClearTx
<1>17. CASE Cleared(k)
  <2>1. Read(k, "cleared", "settle") \/ Read(k, "cleared", "asleep") BY <1>17 DEF Cleared
  <2>2. Read(k, "cleared", "asleep") => Sleep(k) BY DEF Read, Proceed
  <2>q. QED BY <1>t, <2>1, <2>2, ReadLoop, SleepLoop
<1>18. CASE SettleTx(k)
  <2>1. CASE Sleep(k) BY <1>t, <2>1, SleepLoop
  <2>q. QED BY <1>18, <2>1 DEF SettleTx, Refused, Proceed
<1>19. CASE BeaconNotServed(k)
  BY <1>19, <1>t, MoveLoop DEF BeaconNotServed
<1>20. CASE RpcFails(k) BY <1>20, <1>t, SleepLoop DEF RpcFails
<1>q. QED BY <1>1, <1>2, <1>3, <1>4, <1>5, <1>6, <1>7, <1>8, <1>9, <1>10, <1>11,
             <1>12, <1>13, <1>14, <1>15, <1>16, <1>17, <1>18, <1>19, <1>20 DEF KeeperStep

----------------------------------------------------------------------------
(* What a clean pass has established survives every step of the round. *)
LEMMA SweepFrame ==
    ASSUME RoundTypeOK, SweepInv, UNCHANGED roundVars \/ RoundStep, swept' = swept
    PROVE  SweepInv'
<1>1. SUFFICES ASSUME swept PROVE SweepInv'
  BY DEF SweepInv
<1>2. /\ status' # "Open" /\ bids' = bids /\ revealed \subseteq revealed'
  BY <1>1, Forward DEF SweepInv
<1>3. \A b \in Index' : bids'[b].seal = "good" => b \in revealed'
  BY <1>1, <1>2 DEF SweepInv, Index
<1>q. QED BY <1>2, <1>3 DEF SweepInv

LEMMA SweepKept ==
    ASSUME IInv, [Next]_vars, UNCHANGED roundVars \/ RoundStep
    PROVE  SweepInv'
<1>t. RoundTypeOK /\ KeeperTypeOK /\ SweepInv BY DEF IInv, TypeOK
<1>1. CASE swept' = swept BY <1>1, <1>t, SweepFrame
<1>2. ASSUME NEW k \in Keeper, LoopDone(k) PROVE SweepInv'
  <2>1. /\ pc[k] = "nextBidder" /\ todo[k] = {} /\ UNCHANGED <<status, bids, revealed>>
    BY <1>2 DEF LoopDone, roundVars
  <2>2. LoopInv(k) BY DEF IInv
  <2>3. CASE swept' = swept BY <1>1, <2>3
  <2>4. CASE \A b \in Bidder : skipped[k][b] \in GaveUp => bids[b].seal = "garbage"
    <3>1. status # "Open" BY <2>1, <2>2 DEF LoopInv, InLoop
    <3>2. ASSUME NEW b \in Index, bids[b].seal = "good" PROVE b \in revealed
      <4>0. b \in Bidder BY DEF Index
      <4>1. b \in revealedBy[k] \/ b \in SkippedBy(k) BY <2>1, <2>2 DEF LoopInv, InLoop
      <4>2. CASE b \in revealedBy[k] BY <2>2, <4>2 DEF LoopInv
      <4>3. CASE b \in SkippedBy(k)
        <5>1. skipped[k][b] \in Reasons \ GaveUp /\ skipped[k][b] # "-"
          BY <1>t, <2>4, <3>2, <4>0, <4>3 DEF KeeperTypeOK, SkippedBy
        <5>2. ReasonHolds(b, skipped[k][b]) BY <2>2, <4>0 DEF LoopInv
        <5>q. QED BY <3>2, <5>1, <5>2 DEF ReasonHolds, Reasons, GaveUp
      <4>q. QED BY <4>1, <4>2, <4>3
    <3>q. QED BY <2>1, <3>1, <3>2 DEF SweepInv, Index
  <2>q. QED BY <1>2, <2>3, <2>4, <1>t DEF LoopDone, KeeperTypeOK
<1>3. CASE UNCHANGED vars BY <1>1, <1>3 DEF vars
<1>4. CASE Others BY <1>1, <1>4 DEF Others, keeperVars
<1>5. ASSUME NEW k \in Keeper, BeaconNotServed(k) \/ RpcFails(k) PROVE SweepInv'
  BY <1>1, <1>5 DEF BeaconNotServed, RpcFails
<1>6. ASSUME NEW k \in Keeper, KeeperStep(k), ~LoopDone(k) PROVE swept' = swept
  BY <1>6 DEF KeeperStep, Read, Refused, StartTick, VoidIfStale, VoidTx, WatchRound, KeepRound,
     OpenRevealTx, Reopened, GetBidders, NextBidder, GetSeal, RevealTx, Kept, RewatchRound,
     CloseRound, ClearTx, Cleared, SettleTx
<1>q. QED BY <1>1, <1>2, <1>3, <1>4, <1>5, <1>6 DEF Next

----------------------------------------------------------------------------
(* The inductive invariant *)

LEMMA InitInv ==
    ASSUME Init PROVE IInv
<1> USE DEF Init, RoundInit
<1>0. MaxFaults \in Nat  BY ShapeAssumption
<1>1. RoundTypeOK /\ TimeInv /\ ChainInv  BY RoundInitInv
<1>2. NoneSkipped \in [Bidder -> Reasons] BY DEF NoneSkipped, Reasons
<1>3. KeeperTypeOK
  <2>1. faults \in 0..MaxFaults BY <1>0
  <2>2. pc \in [Keeper -> Labels] BY DEF Labels
  <2>3. skipped \in [Keeper -> [Bidder -> Reasons]] BY <1>2
  <2>4. current \in [Keeper -> Bidder \cup {NoOne}] OBVIOUS
  <2>q. QED BY <2>1, <2>2, <2>3, <2>4 DEF KeeperTypeOK
<1>6. SweepInv BY DEF SweepInv
<1>7. ASSUME NEW k \in Keeper PROVE LoopInv(k)
  BY <1>7 DEF LoopInv, BeforeLoop, InLoop, SkippedBy, NoneSkipped, ReasonHolds
<1>q. QED BY <1>1, <1>3, <1>6, <1>7 DEF IInv, TypeOK

LEMMA StepInv ==
    ASSUME IInv, [Next]_vars PROVE IInv'
<1>t. RoundTypeOK /\ KeeperTypeOK /\ TimeInv /\ ChainInv BY DEF IInv, TypeOK
<1>e. UNCHANGED roundVars \/ RoundStep BY StepEffect
<1>1. RoundTypeOK' BY <1>t, <1>e, RoundTyped
<1>2. KeeperTypeOK' BY KeeperTyped
<1>3. TimeInv' BY <1>t, <1>e, TimeKept
<1>4. ChainInv' BY <1>t, <1>e, ChainKept
<1>5. SweepInv' BY <1>e, SweepKept
<1>6. ASSUME NEW j \in Keeper PROVE LoopInv(j)'
  <2>0. LoopInv(j) BY DEF IInv
  <2>1. CASE UNCHANGED keeperVars BY <1>t, <1>e, <2>0, <2>1, Frame DEF keeperVars
  <2>2. ASSUME NEW k \in Keeper, KeeperStep(k) \/ BeaconNotServed(k) \/ RpcFails(k)
        PROVE  LoopInv(j)'
    <3>1. CASE j = k BY <1>e, <2>2, <3>1, OwnLoop
    <3>2. CASE j # k
      <4>1. /\ pc'[j] = pc[j] /\ todo'[j] = todo[j] /\ current'[j] = current[j]
            /\ decrypted'[j] = decrypted[j]
            /\ revealedBy'[j] = revealedBy[j] /\ skipped'[j] = skipped[j]
        BY <1>t, <2>2, <3>2, Locality
      <4>q. QED BY <1>t, <1>e, <2>0, <4>1, Frame
    <3>q. QED BY <3>1, <3>2
  <2>q. QED BY <2>1, <2>2 DEF Next, Others, vars, keeperVars
<1>q. QED BY <1>1, <1>2, <1>3, <1>4, <1>5, <1>6 DEF IInv, TypeOK

(* The invariant the other theorems rest on: types, the two clocks, the    *)
(* contract's records, every keeper's bookkeeping and what a clean pass    *)
(* established hold together in every reachable state.                     *)
THEOREM Inductive == Spec => []IInv
<1>1. Init => IInv BY InitInv
<1>2. IInv /\ [Next]_vars => IInv' BY StepInv
<1>q. QED BY <1>1, <1>2, PTL DEF Spec

----------------------------------------------------------------------------
(* What the runs check, for every value of the constants *)

(* Type correctness of the round and of every keeper's loop variables. *)
THEOREM TypeCorrect == Spec => []TypeOK
<1>1. IInv => TypeOK BY DEF IInv
<1>q. QED BY <1>1, Inductive, PTL

(* A reveal pass that ends without an exception (keepRound) accounts for   *)
(* every bidder of the round exactly once, and what it says is so.         *)
THEOREM PassesAccount == Spec => []PassAccountsForAll
<1>1. IInv => PassAccountsForAll
  <2>1. SUFFICES ASSUME IInv, NEW k \in Keeper
                 PROVE  /\ revealedBy[k] \cap SkippedBy(k) = {}
                        /\ revealedBy[k] \subseteq revealed
                        /\ \A b \in SkippedBy(k) :
                              /\ skipped[k][b] \in {"already revealed", "race"} => b \in revealed
                              /\ skipped[k][b] = "window closed" => ledger > RevealDeadline
                        /\ pc[k] = "kept" => revealedBy[k] \cup SkippedBy(k) = Index
    BY DEF PassAccountsForAll
  <2>2. LoopInv(k) BY <2>1 DEF IInv
  <2>3. \A b \in SkippedBy(k) : ReasonHolds(b, skipped[k][b])
    BY <2>2 DEF LoopInv, SkippedBy
  <2>q. QED BY <2>2, <2>3 DEF LoopInv, InLoop, ReasonHolds
<1>q. QED BY <1>1, Inductive, PTL

(* Once some keeper has finished a pass without giving a bid up, whatever  *)
(* else happened, the winner beats every well-sealed eligible bid, and the *)
(* round is voided only if there is none.                                  *)
THEOREM BestWins == Spec => []BestSealWins
<1>1. IInv => BestSealWins
  <2>1. SUFFICES ASSUME IInv, swept PROVE
            /\ status \in {"Cleared", "Settled"} =>
                   /\ Valid(winner)
                   /\ \A b \in Bidder : Sound(b) => Better(bids[winner].value, bids[b].value)
            /\ status = "Voided" => \A b \in Bidder : ~Sound(b)
    BY DEF BestSealWins
  <2>2. \A b \in Bidder : Sound(b) => Valid(b)
    BY <2>1 DEF IInv, SweepInv, Sound, Valid, Eligible, Index
  <2>3. /\ status \in {"Cleared", "Settled"} => winner \in BestOf({b \in Bidder : Valid(b)})
        /\ status = "Voided" => \A b \in Bidder : ~Valid(b)
    BY <2>1 DEF IInv, ChainInv
  <2>q. QED BY <2>2, <2>3 DEF BestOf
<1>q. QED BY <1>1, Inductive, PTL

(* A settled round has moved exactly the winning bid from the winner to    *)
(* the operator, and a voided one nothing.                                 *)
THEOREM SettlesExactly == Spec => []SettlementExact
<1>1. Init => SettlementExact BY RoundInitInv DEF Init
<1>2. IInv /\ SettlementExact /\ [Next]_vars => SettlementExact'
  BY StepEffect, OutcomeKept DEF IInv, TypeOK
<1>q. QED BY <1>1, <1>2, Inductive, PTL DEF Spec

(* No bid is placed or changed once R is public: commits are timed by the  *)
(* ledger, which may lag, but not by as much as CommitDeadline leaves.     *)
THEOREM NoLateBid == Spec => SealedUntilR
<1>1. IInv /\ [Next]_vars => [beacon => bids' = bids]_vars
  <2>1. SUFFICES ASSUME IInv, [Next]_vars, beacon PROVE bids' = bids
    OBVIOUS
  <2>2. ledger > CommitDeadline
    BY <2>1, TimeAssumption DEF IInv, TypeOK, RoundTypeOK, TimeInv
  <2>3. ASSUME NEW b \in Bidder, NEW o \in Offer, Commit(b, o) PROVE FALSE
    <3>1. ledger <= CommitDeadline BY <2>3 DEF Commit
    <3>2. ledger \in Int /\ CommitDeadline \in Int
      BY <2>1, TimeAssumption DEF IInv, TypeOK, RoundTypeOK
    <3>q. QED BY <2>2, <3>1, <3>2
  <2>4. UNCHANGED roundVars \/ RoundStep BY <2>1, StepEffect
  <2>q. QED BY <2>3, <2>4
            DEF RoundStep, roundVars, chainVars, Tick, CloseLedger, PublishR, ExpireSeal,
                OpenReveal, Clear, Settle, Void, Reveal
<1>q. QED BY <1>1, Inductive, PTL DEF Spec, SealedUntilR

(* What two overlapping ticks claim.  A claim is only ever made by a       *)
(* transaction that succeeded, which found the round not yet that far; and *)
(* once it has moved on it never comes back.                               *)
CreditInv ==
    /\ \A k \in Keeper :
          /\ "openedReveal" \in claims[k] => status # "Open"
          /\ "cleared" \in claims[k] => status \notin {"Open", "Revealing"}
    /\ NoDoubleCredit

NewClaims(k) == claims'[k] \ claims[k]

(* A keeper's step adds to its own claims what it has just done itself.    *)
LEMMA OwnCredit ==
    ASSUME KeeperTypeOK, NEW k \in Keeper, KeeperStep(k) \/ BeaconNotServed(k) \/ RpcFails(k)
    PROVE  /\ "openedReveal" \in NewClaims(k) => status = "Open" /\ status' # "Open"
           /\ "cleared" \in NewClaims(k) =>
                 status = "Revealing" /\ status' \notin {"Open", "Revealing"}
           /\ revealedBy'[k] \cap revealed \subseteq revealedBy[k]
<1> USE DEF KeeperTypeOK, Goto, LoopUnchanged, NewClaims
<1>s. Sleep(k) => claims'[k] = {} /\ revealedBy'[k] = {}  BY DEF Sleep
<1>p. ASSUME NEW l, Proceed(k, l)
      PROVE  claims'[k] \subseteq claims[k] /\ revealedBy'[k] \subseteq revealedBy[k]
  BY <1>s, <1>p DEF Proceed
<1>r. ASSUME NEW from, NEW l, Read(k, from, l)
      PROVE  claims'[k] \subseteq claims[k] /\ revealedBy'[k] \subseteq revealedBy[k]
  BY <1>p, <1>r DEF Read
<1>f. ASSUME NEW codes, NEW skips, NEW l, Refused(k, codes, skips, l)
      PROVE  claims'[k] \subseteq claims[k] /\ revealedBy'[k] \subseteq revealedBy[k]
  BY <1>p, <1>s, <1>f DEF Refused
<1>b. ASSUME NEW b, NEW why, SkipBidder(k, b, why)
      PROVE  claims'[k] = claims[k] /\ revealedBy'[k] = revealedBy[k]
  BY <1>b DEF SkipBidder
<1>1. CASE StartTick(k) BY <1>1, <1>r DEF StartTick
<1>2. CASE VoidIfStale(k) BY <1>2, <1>r DEF VoidIfStale
<1>3. CASE VoidTx(k)
  <2>1. CASE claims' = [claims EXCEPT ![k] = @ \cup {"voided"}] /\ LoopUnchanged  BY <2>1
  <2> QED  BY <1>3, <1>f, <2>1 DEF VoidTx
<1>4. CASE WatchRound(k)
  <2>1. \E l \in Labels : Read(k, "watch", l)
    BY <1>4 DEF WatchRound, Labels, TxLabels, ReadLabels
  <2> QED  BY <2>1, <1>r
<1>5. CASE KeepRound(k)
  <2>1. \E l \in Labels : Read(k, "keepRound", l)
    BY <1>5 DEF KeepRound, Labels, TxLabels, ReadLabels
  <2> QED  BY <2>1, <1>r
<1>6. CASE OpenRevealTx(k)
  <2>1. CASE /\ OpenReveal /\ LoopUnchanged
             /\ claims' = [claims EXCEPT ![k] = @ \cup {"openedReveal"}]
    <3>1. status = "Open" /\ status' = "Revealing"  BY <2>1 DEF OpenReveal
    <3> QED  BY <2>1, <3>1
  <2> QED  BY <1>6, <1>f, <2>1 DEF OpenRevealTx
<1>7. CASE Reopened(k) BY <1>7, <1>r DEF Reopened
<1>8. CASE GetBidders(k) BY <1>8 DEF GetBidders
<1>9. CASE NextBidder(k) BY <1>9, <1>b DEF NextBidder
<1>10. CASE GetSeal(k) BY <1>10, <1>b DEF GetSeal
<1>11. CASE RevealTx(k)
  <2>1. CASE /\ Reveal(current[k]) /\ UNCHANGED claims
             /\ revealedBy' = [revealedBy EXCEPT ![k] = @ \cup {current[k]}]
    <3>1. current[k] \notin revealed  BY <2>1 DEF Reveal
    <3> QED  BY <2>1, <3>1
  <2> QED  BY <1>11, <1>b, <1>s, <2>1 DEF RevealTx
<1>12. CASE LoopDone(k) BY <1>12 DEF LoopDone
<1>13. CASE Kept(k) BY <1>13, <1>r DEF Kept
<1>14. CASE RewatchRound(k) BY <1>14, <1>r DEF RewatchRound
<1>15. CASE CloseRound(k)
  <2>1. \E l \in Labels : Read(k, "closeRound", l)
    BY <1>15 DEF CloseRound, Labels, TxLabels, ReadLabels
  <2> QED  BY <2>1, <1>r
<1>16. CASE ClearTx(k)
  <2>1. CASE /\ Clear /\ LoopUnchanged
             /\ claims' = [claims EXCEPT ![k] = @ \cup {"cleared"}
                                \cup (IF winner' = NoOne THEN {"voided"} ELSE {})]
    <3>1. status = "Revealing" /\ status' \in {"Cleared", "Voided"}  BY <2>1 DEF Clear
    <3>2. "openedReveal" \notin NewClaims(k)  BY <2>1
    <3> QED  BY <2>1, <3>1, <3>2
  <2> QED  BY <1>16, <1>f, <2>1 DEF ClearTx
<1>17. CASE Cleared(k) BY <1>17, <1>r DEF Cleared
<1>18. CASE SettleTx(k) BY <1>18, <1>f, <1>s DEF SettleTx
<1>19. CASE BeaconNotServed(k) BY <1>19 DEF BeaconNotServed
<1>20. CASE RpcFails(k) BY <1>20, <1>s DEF RpcFails
<1>q. QED BY <1>1, <1>2, <1>3, <1>4, <1>5, <1>6, <1>7, <1>8, <1>9, <1>10, <1>11,
             <1>12, <1>13, <1>14, <1>15, <1>16, <1>17, <1>18, <1>19, <1>20 DEF KeeperStep

(* the order of statuses is never retraced *)
LEMMA StatusForward ==
    ASSUME UNCHANGED roundVars \/ RoundStep
    PROVE  /\ status # "Open" => status' # "Open"
           /\ status \notin {"Open", "Revealing"} => status' \notin {"Open", "Revealing"}
<1>1. CASE Clear  BY <1>1 DEF Clear
<1>2. CASE Settle  BY <1>2 DEF Settle
<1>3. CASE Void  BY <1>3 DEF Void
<1>4. CASE OpenReveal  BY <1>4 DEF OpenReveal
<1>5. CASE status' = status  BY <1>5
<1> QED
  BY <1>1, <1>2, <1>3, <1>4, <1>5
     DEF RoundStep, roundVars, chainVars, Tick, CloseLedger, PublishR, ExpireSeal, Commit, Reveal

(* Two keepers never take credit for the same transition of the round, nor *)
(* for the same bidder's reveal, in ticks that overlap.                    *)
THEOREM NobodyTakesAnothersCredit == Spec => []NoDoubleCredit
<1>1. Init => CreditInv  BY DEF Init, CreditInv, NoDoubleCredit
<1>2. IInv /\ CreditInv /\ [Next]_vars => CreditInv'
  <2>1. SUFFICES ASSUME IInv, CreditInv, [Next]_vars PROVE CreditInv'
    OBVIOUS
  <2>2. /\ status # "Open" => status' # "Open"
        /\ status \notin {"Open", "Revealing"} => status' \notin {"Open", "Revealing"}
    BY <2>1, StepEffect, StatusForward
  <2>3. CASE UNCHANGED <<claims, revealedBy>>
    BY <2>1, <2>2, <2>3 DEF CreditInv, NoDoubleCredit
  <2>4. ASSUME NEW k \in Keeper, KeeperStep(k) \/ BeaconNotServed(k) \/ RpcFails(k)
        PROVE  CreditInv'
    <3>1. KeeperTypeOK  BY <2>1 DEF IInv, TypeOK
    <3>2. \A j \in Keeper \ {k} : claims'[j] = claims[j] /\ revealedBy'[j] = revealedBy[j]
      BY <2>4, <3>1, Locality
    <3>3. /\ "openedReveal" \in NewClaims(k) => status = "Open" /\ status' # "Open"
          /\ "cleared" \in NewClaims(k) =>
                status = "Revealing" /\ status' \notin {"Open", "Revealing"}
          /\ revealedBy'[k] \cap revealed \subseteq revealedBy[k]
      BY <2>4, <3>1, OwnCredit
    <3>4. \A j \in Keeper : revealedBy[j] \subseteq revealed
      BY <2>1 DEF IInv, LoopInv
    <3>5. \A j \in Keeper :
            /\ "openedReveal" \in claims'[j] => status' # "Open"
            /\ "cleared" \in claims'[j] => status' \notin {"Open", "Revealing"}
      BY <2>1, <2>2, <3>2, <3>3 DEF CreditInv, NewClaims
    <3>6. ASSUME NEW j \in Keeper \ {k}
          PROVE  /\ "openedReveal" \notin claims'[j] \cap claims'[k]
                 /\ "cleared" \notin claims'[j] \cap claims'[k]
                 /\ revealedBy'[j] \cap revealedBy'[k] = {}
      <4>1. claims'[j] = claims[j] /\ revealedBy'[j] = revealedBy[j]  BY <3>2
      <4>2. /\ "openedReveal" \in claims[j] => status # "Open"
            /\ "cleared" \in claims[j] => status \notin {"Open", "Revealing"}
            /\ "openedReveal" \notin claims[j] \cap claims[k]
            /\ "cleared" \notin claims[j] \cap claims[k]
            /\ revealedBy[j] \cap revealedBy[k] = {}
        BY <2>1 DEF CreditInv, NoDoubleCredit
      <4> QED  BY <3>3, <3>4, <4>1, <4>2 DEF NewClaims
    <3>7. NoDoubleCredit'  BY <3>2, <3>6, <2>1 DEF NoDoubleCredit, CreditInv
    <3> QED  BY <3>5, <3>7 DEF CreditInv
  <2> QED  BY <2>1, <2>3, <2>4 DEF Next, Others, vars, keeperVars
<1>3. CreditInv => NoDoubleCredit  BY DEF CreditInv
<1>q. QED BY <1>1, <1>2, <1>3, Inductive, PTL DEF Spec

(* The keepers and the round together implement the escrow its users see:  *)
(* a bidder's own commit locks its tokens, one step decides for everyone,  *)
(* and every other step, of any keeper, leaves all balances alone.         *)
THEOREM Refinement == Spec => ImplementsFairEscrow
<1>1. Init => Escrow!Init
  BY DEF Init, RoundInit, Escrow!Init, Final
<1>2. IInv /\ [Next]_vars => [Escrow!Next]_(Escrow!fairVars)
  <2>1. SUFFICES ASSUME IInv, [Next]_vars
                 PROVE  Escrow!Next \/ UNCHANGED <<wallet, till, status \in Final>>
    BY DEF Escrow!fairVars
  <2>2. RoundTypeOK /\ ChainInv /\ (UNCHANGED roundVars \/ RoundStep)
    BY <2>1, StepEffect DEF IInv, TypeOK
  <2>3. ASSUME status \in {"Open", "Revealing"}, status' = "Voided", RefundAll, till' = till
        PROVE  Escrow!Decide(NoOne)
    <3>1. /\ till' = 0 /\ \A b \in Bidder : wallet[b] + EscrowOf(b) = 0
      BY <2>2, <2>3, EscrowType DEF ChainInv, Voting
    <3>2. wallet' = [b \in Bidder |-> 0] BY <2>3, <3>1 DEF RefundAll
    <3>3. wallet' = [b \in Bidder |-> IF b = NoOne THEN -till' ELSE 0]
      BY <3>2, OfferAssumption
    <3>q. QED BY <2>3, <3>1, <3>3 DEF Escrow!Decide, Final
  <2>4. ASSUME NEW b \in Bidder, NEW o \in Offer, Commit(b, o) PROVE Escrow!Next
    <3>1. wallet'[b] = -(o.escrow) /\ o.escrow > 0 /\ o.escrow \in Int
      BY <2>2, <2>4, EscrowType, OfferAssumption DEF Commit, ChainInv, Voting, RoundTypeOK
    <3>2. wallet' = [wallet EXCEPT ![b] = wallet'[b]]
      BY <2>2, <2>4 DEF Commit, RoundTypeOK
    <3>3. Escrow!Lock(b)
      BY <2>4, <3>1, <3>2 DEF Escrow!Lock, Commit, Final
    <3>q. QED BY <3>3 DEF Escrow!Next
  <2>5. CASE Clear
    <3>1. CASE status' = "Cleared" /\ UNCHANGED <<wallet, till>>
      BY <2>5, <3>1 DEF Clear, Final
    <3>2. CASE status' = "Voided" /\ RefundAll /\ till' = till
      BY <2>3, <2>5, <3>2 DEF Clear, Escrow!Next
    <3>q. QED BY <2>5, <3>1, <3>2 DEF Clear
  <2>6. CASE Settle
    <3>1. /\ winner \in Bidder /\ bids[winner].value \in Int /\ till = 0
          /\ bids[winner].value > 0 /\ bids[winner].value <= EscrowOf(winner)
          /\ \A b \in Bidder : wallet[b] = -EscrowOf(b)
      BY <2>2, <2>6, WinnerValid DEF Settle, ChainInv, Voting
    <3>2. till' = bids[winner].value BY <2>6, <3>1 DEF Settle
    <3>3. ASSUME NEW b \in Bidder
          PROVE  wallet[b] + EscrowOf(b) - (IF b = winner THEN bids[b].value ELSE 0)
                     = IF b = winner THEN -till' ELSE 0
      BY <2>2, <3>1, <3>2, EscrowType
    <3>4. wallet' = [b \in Bidder |-> IF b = winner THEN -till' ELSE 0]
      BY <2>6, <3>3 DEF Settle
    <3>5. winner # NoOne BY <3>1, OfferAssumption
    <3>6. 0 < till' /\ till' <= -wallet[winner]
      BY <2>2, <3>1, <3>2, EscrowType
    <3>7. Escrow!Decide(winner)
      BY <2>6, <3>4, <3>5, <3>6 DEF Escrow!Decide, Settle, Final
    <3>q. QED BY <3>1, <3>7 DEF Escrow!Next
  <2>7. CASE Void BY <2>3, <2>7 DEF Void, Escrow!Next
  <2>q. QED BY <2>2, <2>4, <2>5, <2>6, <2>7
            DEF RoundStep, roundVars, chainVars, Tick, CloseLedger, PublishR, ExpireSeal,
                OpenReveal, Reveal, Final
<1>q. QED BY <1>1, <1>2, Inductive, PTL DEF Spec, ImplementsFairEscrow, Escrow!Spec

----------------------------------------------------------------------------
(* What a tick achieves *)

(* The round only moves on, ... *)
LEMMA RoundOn ==
    ASSUME RoundTypeOK, UNCHANGED roundVars \/ RoundStep
    PROVE  /\ status' = "Open" => status = "Open"
           /\ status' = "Revealing" => status \in {"Open", "Revealing"}
           /\ status = "Cleared" => status' \in {"Cleared", "Settled"}
           /\ status = "Settled" => status' = "Settled"
           /\ ledger > RevealDeadline => ledger' > RevealDeadline
           /\ ledger > RevealDeadline + VoidGrace => ledger' > RevealDeadline + VoidGrace
           /\ beacon => beacon'
           /\ RoundDue => RoundDue'
<1>1. /\ status' = "Open" => status = "Open"
      /\ status' = "Revealing" => status \in {"Open", "Revealing"}
      /\ status = "Cleared" => status' \in {"Cleared", "Settled"}
      /\ status = "Settled" => status' = "Settled"
      /\ beacon => beacon'
  <2>1. CASE status' = status /\ (beacon => beacon')  BY <2>1
  <2>2. CASE OpenReveal  BY <2>2 DEF OpenReveal, envVars
  <2>3. CASE Clear  BY <2>3 DEF Clear, envVars
  <2>4. CASE Settle  BY <2>4 DEF Settle, envVars
  <2>5. CASE Void  BY <2>5 DEF Void, envVars
  <2> QED
    BY <2>1, <2>2, <2>3, <2>4, <2>5
       DEF RoundStep, roundVars, envVars, chainVars, Tick, CloseLedger, PublishR, ExpireSeal,
           Commit, Reveal
<1>2. ledger' = ledger \/ ledger' = ledger + 1
  BY DEF RoundStep, roundVars, envVars, Tick, CloseLedger, PublishR, ExpireSeal, Commit,
         OpenReveal, Reveal, Clear, Settle, Void
<1>3. clock' = clock \/ clock' = clock + 1
  BY DEF RoundStep, roundVars, envVars, Tick, CloseLedger, PublishR, ExpireSeal, Commit,
         OpenReveal, Reveal, Clear, Settle, Void
<1>4. clock \in Int /\ ledger \in Int /\ RevealDeadline \in Int /\ VoidGrace \in Int /\ DueTime \in Int
  BY TimeAssumption, DueAssumption DEF RoundTypeOK
<1>5. /\ ledger > RevealDeadline => ledger' > RevealDeadline
      /\ ledger > RevealDeadline + VoidGrace => ledger' > RevealDeadline + VoidGrace
  BY <1>2, <1>4
<1>6. RoundDue => RoundDue'  BY <1>3, <1>4 DEF RoundDue
<1> QED  BY <1>1, <1>5, <1>6

(* ... and a tick goes from call to call by what it reads of it. *)
FromRead(k) ==
    \/ pc[k] = "asleep" /\ pc'[k] = "voidIfStale" /\ UNCHANGED roundVars
    \/ /\ pc[k] = "voidIfStale"
       /\ pc'[k] = IF status = "Open" /\ clock > RevealDeadline + VoidGrace THEN "void" ELSE "watch"
    \/ /\ pc[k] = "watch"
       /\ \/ pc'[k] = "keepRound" /\ status \in {"Open", "Revealing"}
          \/ pc'[k] = "closeRound" /\ status = "Cleared"
          \/ pc'[k] = "asleep" /\ status \notin {"Open", "Revealing", "Cleared"}
    \/ /\ pc[k] = "keepRound"
       /\ \/ pc'[k] = "openReveal" /\ status = "Open"
          \/ pc'[k] = "getBidders" /\ status = "Revealing"
          \/ pc'[k] = "rewatch" /\ status # "Revealing" /\ ~(status = "Open" /\ RoundDue /\ beacon)
    \/ pc[k] = "reopened" /\ pc'[k] \in {"getBidders", "rewatch"}
    \/ /\ pc[k] = "rewatch"
       /\ \/ pc'[k] = "closeRound"
          \/ pc'[k] = "asleep" /\ status \notin {"Revealing", "Cleared"}
    \/ /\ pc[k] = "closeRound"
       /\ \/ pc'[k] = "clear" /\ status = "Revealing"
          \/ pc'[k] = "settle" /\ status = "Cleared"
          \/ /\ pc'[k] = "asleep" /\ status # "Cleared"
             /\ ~(status = "Revealing" /\ clock > RevealDeadline)
    \/ pc[k] = "cleared" /\ pc'[k] \in {"settle", "asleep"}

FromTx(k) ==
    \/ pc[k] = "void" /\ pc'[k] \in {"watch", "asleep"} /\ (status' # "Open" \/ VoidRefusals # {})
    \/ /\ pc[k] = "openReveal"
       /\ pc'[k] = "asleep" \/ (pc'[k] = "reopened" /\ (status # "Open" \/ status' # "Open"))
    \/ /\ pc[k] = "clear" /\ pc'[k] \in {"cleared", "asleep"}
       /\ status' # "Revealing" \/ ClearRefusals # {}
    \/ pc[k] = "settle" /\ pc'[k] = "asleep" /\ (status' # "Cleared" \/ status # "Cleared")

(* the loop over the bidders of the round *)
Looping == {"getBidders", "nextBidder", "getSeal", "reveal", "kept"}
FromLoop(k) ==
    /\ pc[k] \in Looping
    /\ pc'[k] \in Looping \cup {"rewatch"} \/ (pc[k] = "reveal" /\ pc'[k] = "asleep")

TickMove(k) ==
    \/ UNCHANGED faults /\ (FromRead(k) \/ FromTx(k) \/ FromLoop(k))
    \/ pc[k] = "keepRound" /\ pc'[k] = "rewatch" /\ faults' # faults
    \/ pc[k] \in Looping /\ pc'[k] \in Looping
    \/ pc[k] # "asleep" /\ pc'[k] = "asleep" /\ faults' # faults

LEMMA TickMoves ==
    ASSUME IInv, NEW k \in Keeper, KeeperStep(k) \/ BeaconNotServed(k) \/ RpcFails(k)
    PROVE  TickMove(k)
<1>t. KeeperTypeOK /\ faults \in Nat  BY ShapeAssumption DEF IInv, TypeOK, KeeperTypeOK
<1>g. \A l : Goto(k, l) => pc'[k] = l  BY <1>t DEF Goto, KeeperTypeOK
<1>s. Sleep(k) => pc'[k] = "asleep"  BY <1>t, <1>g DEF Sleep
<1>r. ASSUME NEW from, NEW l, Read(k, from, l)
      PROVE  pc[k] = from /\ pc'[k] = l /\ UNCHANGED roundVars /\ UNCHANGED faults
  BY <1>g, <1>s, <1>r DEF Read, Proceed
<1>1. CASE StartTick(k)
  BY <1>1, <1>r DEF StartTick, TickMove, FromRead
<1>2. CASE VoidIfStale(k)
  BY <1>2, <1>r DEF VoidIfStale, TickMove, FromRead
<1>3. CASE VoidTx(k)
  <2>1. CASE Void /\ Goto(k, "watch") /\ UNCHANGED faults
    BY <1>3, <1>g, <2>1 DEF VoidTx, Void, TickMove, FromTx
  <2>2. CASE Refused(k, VoidRefusals, {"NotVoidable", "WrongStatus", "AlreadyCleared"}, "watch")
    <3>1. pc'[k] \in {"watch", "asleep"} /\ VoidRefusals # {} /\ UNCHANGED faults
      BY <1>g, <1>s, <2>2 DEF Refused, Proceed
    <3> QED  BY <1>3, <3>1 DEF VoidTx, TickMove, FromTx
  <2> QED  BY <1>3, <2>1, <2>2 DEF VoidTx
<1>4. CASE WatchRound(k)
  <2>1. \/ Read(k, "watch", "keepRound") /\ status \in {"Open", "Revealing"}
        \/ Read(k, "watch", "closeRound") /\ status = "Cleared"
        \/ Read(k, "watch", "asleep") /\ status \notin {"Open", "Revealing", "Cleared"}
    BY <1>4 DEF WatchRound
  <2> QED  BY <1>r, <2>1 DEF TickMove, FromRead
<1>5. CASE KeepRound(k)
  <2>1. \/ Read(k, "keepRound", "openReveal") /\ status = "Open"
        \/ Read(k, "keepRound", "getBidders") /\ status = "Revealing"
        \/ /\ Read(k, "keepRound", "rewatch") /\ status # "Revealing"
           /\ ~(status = "Open" /\ RoundDue /\ beacon)
    BY <1>5 DEF KeepRound
  <2> QED  BY <1>r, <2>1 DEF TickMove, FromRead
<1>6. CASE OpenRevealTx(k)
  <2>1. CASE OpenReveal /\ Goto(k, "reopened") /\ UNCHANGED faults
    BY <1>6, <1>g, <2>1 DEF OpenRevealTx, OpenReveal, TickMove, FromTx
  <2>2. CASE Refused(k, OpenRefusals, IDEMPOTENT_OPEN, "reopened")
    <3>1. \/ Sleep(k)
          \/ Proceed(k, "reopened") /\ \E code \in OpenRefusals : code \in IDEMPOTENT_OPEN
      BY <2>2 DEF Refused
    <3>2. (\E code \in OpenRefusals : code \in IDEMPOTENT_OPEN) => status # "Open"
      BY DEF OpenRefusals, IDEMPOTENT_OPEN, Unless
    <3>3. Proceed(k, "reopened") => pc'[k] = "reopened"  BY <1>g DEF Proceed
    <3>4. UNCHANGED faults /\ pc[k] = "openReveal"  BY <1>6, <2>2 DEF Refused, OpenRevealTx
    <3> QED  BY <1>s, <3>1, <3>2, <3>3, <3>4 DEF TickMove, FromTx
  <2> QED  BY <1>6, <2>1, <2>2 DEF OpenRevealTx
<1>7. CASE Reopened(k)
  BY <1>7, <1>r DEF Reopened, TickMove, FromRead
<1>8. CASE GetBidders(k)
  BY <1>8, <1>g DEF GetBidders, TickMove, Looping
<1>9. CASE NextBidder(k)
  BY <1>9, <1>g DEF NextBidder, SkipBidder, TickMove, Looping
<1>10. CASE GetSeal(k)
  BY <1>10, <1>g DEF GetSeal, SkipBidder, TickMove, Looping
<1>11. CASE RevealTx(k)
  <2>1. pc[k] = "reveal" /\ UNCHANGED faults /\ pc'[k] \in {"nextBidder", "asleep"}
    BY <1>11, <1>g, <1>s DEF RevealTx, SkipBidder
  <2> QED  BY <2>1 DEF TickMove, FromLoop, Looping
<1>12. CASE LoopDone(k)
  BY <1>12, <1>g DEF LoopDone, TickMove, Looping
<1>13. CASE Kept(k)
  BY <1>13, <1>r DEF Kept, TickMove, FromLoop, Looping
<1>14. CASE RewatchRound(k)
  <2>1. \/ Read(k, "rewatch", "closeRound")
        \/ Read(k, "rewatch", "asleep") /\ status \notin {"Revealing", "Cleared"}
    BY <1>14 DEF RewatchRound
  <2> QED  BY <1>r, <2>1 DEF TickMove, FromRead
<1>15. CASE CloseRound(k)
  <2>1. \/ Read(k, "closeRound", "clear") /\ status = "Revealing"
        \/ Read(k, "closeRound", "settle") /\ status = "Cleared"
        \/ /\ Read(k, "closeRound", "asleep") /\ status # "Cleared"
           /\ ~(status = "Revealing" /\ clock > RevealDeadline)
    BY <1>15 DEF CloseRound
  <2> QED  BY <1>r, <2>1 DEF TickMove, FromRead
<1>16. CASE ClearTx(k)
  <2>1. CASE Clear /\ Goto(k, "cleared") /\ UNCHANGED faults
    BY <1>16, <1>g, <2>1 DEF ClearTx, Clear, TickMove, FromTx
  <2>2. CASE Refused(k, ClearRefusals,
                  {"AlreadyCleared", "RevealStillOpen", "WrongStatus", "RoundVoided"}, "cleared")
    <3>1. pc'[k] \in {"cleared", "asleep"} /\ ClearRefusals # {} /\ UNCHANGED faults
      BY <1>g, <1>s, <2>2 DEF Refused, Proceed
    <3> QED  BY <1>16, <3>1 DEF ClearTx, TickMove, FromTx
  <2> QED  BY <1>16, <2>1, <2>2 DEF ClearTx
<1>17. CASE Cleared(k)
  BY <1>17, <1>r DEF Cleared, TickMove, FromRead
<1>18. CASE SettleTx(k)
  <2>1. CASE Settle /\ Sleep(k) /\ UNCHANGED faults
    BY <1>18, <1>s, <2>1 DEF SettleTx, Settle, TickMove, FromTx
  <2>2. CASE Refused(k, SettleRefusals, {"AlreadySettled", "NotCleared", "WrongStatus"}, "asleep")
    <3>1. pc'[k] = "asleep" /\ UNCHANGED faults /\ SettleRefusals # {}
      BY <1>s, <2>2 DEF Refused, Proceed
    <3>2. status # "Cleared"  BY <3>1 DEF SettleRefusals, Unless
    <3> QED  BY <1>18, <3>1, <3>2 DEF SettleTx, TickMove, FromTx
  <2> QED  BY <1>18, <2>1, <2>2 DEF SettleTx
<1>19. CASE BeaconNotServed(k)
  BY <1>19, <1>g, <1>t DEF BeaconNotServed, TickMove
<1>20. CASE RpcFails(k)
  BY <1>20, <1>s, <1>t DEF RpcFails, TickMove
<1> QED  BY <1>1, <1>2, <1>3, <1>4, <1>5, <1>6, <1>7, <1>8, <1>9, <1>10, <1>11, <1>12, <1>13,
            <1>14, <1>15, <1>16, <1>17, <1>18, <1>19, <1>20 DEF KeeperStep

(* While anybody else moves, a tick is where it was. *)
LEMMA TickMovesOrWaits ==
    ASSUME IInv, Next, NEW k \in Keeper
    PROVE  TickMove(k) \/ pc'[k] = pc[k]
<1>t. KeeperTypeOK  BY DEF IInv, TypeOK
<1>1. CASE Others  BY <1>1 DEF Others, keeperVars
<1>2. ASSUME NEW j \in Keeper, KeeperStep(j) \/ BeaconNotServed(j) \/ RpcFails(j)
      PROVE  TickMove(k) \/ pc'[k] = pc[k]
  <2>1. CASE j = k  BY <1>2, <2>1, TickMoves
  <2>2. CASE j # k  BY <1>t, <1>2, <2>2, Locality
  <2> QED  BY <2>1, <2>2
<1> QED  BY <1>1, <1>2 DEF Next

(* The calls a tick can be at are what OwedInv says they are. *)
LEMMA OwedKept ==
    ASSUME IInv, TickIInv, TickNext, NEW k \in Keeper
    PROVE  OwedInv(k)' /\ (Returns(k) => status' # owed[k])
<1>1. Next /\ owed'[k] = IF Begins(k) THEN (IF Ripe THEN status ELSE "none")
                         ELSE IF pc'[k] = "asleep" \/ Unserved(k) THEN "none" ELSE owed[k]
  BY DEF TickNext, Remember
<1>2. UNCHANGED roundVars \/ RoundStep  BY <1>1, StepEffect
<1>3. RoundTypeOK /\ TimeInv /\ OwedInv(k) /\ owed[k] \in {"none", "Open", "Revealing", "Cleared"}
      /\ status' \in Statuses
  <2>1. IInv'  BY <1>1, StepInv
  <2> QED  BY <2>1 DEF IInv, TypeOK, TickIInv, RoundTypeOK
<1>4. /\ status' = "Open" => status = "Open"
      /\ status' = "Revealing" => status \in {"Open", "Revealing"}
      /\ status = "Cleared" => status' \in {"Cleared", "Settled"}
      /\ status = "Settled" => status' = "Settled"
      /\ ledger > RevealDeadline => ledger' > RevealDeadline
      /\ ledger > RevealDeadline + VoidGrace => ledger' > RevealDeadline + VoidGrace
      /\ beacon => beacon'
      /\ RoundDue => RoundDue'
  BY <1>2, <1>3, RoundOn
<1>5. TickMove(k) \/ pc'[k] = pc[k]  BY <1>1, TickMovesOrWaits
<1>6. /\ ledger > RevealDeadline => clock > RevealDeadline
      /\ ledger > RevealDeadline + VoidGrace => clock > RevealDeadline + VoidGrace
  BY <1>3, TimeAssumption DEF TimeInv, RoundTypeOK
<1>7. /\ status = "Open" /\ ledger > RevealDeadline + VoidGrace => VoidRefusals = {}
      /\ status = "Revealing" /\ ledger > RevealDeadline => ClearRefusals = {}
  BY DEF VoidRefusals, ClearRefusals, Unless
<1>8. CASE Begins(k)
  <2>1. pc[k] = "asleep" /\ pc'[k] = "voidIfStale" /\ UNCHANGED roundVars
    BY <1>5, <1>8 DEF Begins, TickMove, FromRead, FromTx, FromLoop, Looping
  <2>2. ~Returns(k)  BY <2>1 DEF Returns
  <2>3. status' = status /\ ledger' = ledger /\ beacon' = beacon /\ clock' = clock
    BY <2>1 DEF roundVars
  <2>4. OwedInv(k)'
    <3>1. CASE Ripe
      BY <1>1, <1>4, <1>8, <2>1, <2>3, <3>1
         DEF Ripe, OwedInv, OwesOpen, OpeningLabels, ClosingLabels, SettlingLabels
    <3>2. CASE ~Ripe  BY <1>1, <1>8, <2>1, <3>2 DEF OwedInv
    <3> QED  BY <3>1, <3>2
  <2> QED  BY <2>2, <2>4
<1>9. CASE pc'[k] = pc[k]
  <2>1. ~Begins(k) /\ ~Returns(k)
    BY <1>9 DEF Begins, Returns, ReadLabels
  <2>2. CASE pc[k] = "asleep" \/ Unserved(k)
    BY <1>1, <1>9, <2>1, <2>2 DEF OwedInv
  <2>3. CASE ~(pc[k] = "asleep" \/ Unserved(k))
    <3>1. owed'[k] = owed[k]  BY <1>1, <1>9, <2>1, <2>3
    <3> QED  BY <1>3, <1>4, <1>9, <2>1, <3>1, <2>3 DEF OwedInv, OwesOpen, Statuses
  <2> QED  BY <2>2, <2>3
<1>10. CASE TickMove(k) /\ pc'[k] = "asleep" /\ ~Begins(k)
  <2>1. OwedInv(k)'  BY <1>1, <1>10 DEF OwedInv
  <2>2. ASSUME Returns(k), status' = owed[k] PROVE FALSE
    <3>1. UNCHANGED faults /\ pc[k] \in {"watch", "rewatch", "closeRound", "cleared", "settle"}
          /\ (FromRead(k) \/ FromTx(k))
      BY <1>10, <2>2 DEF Returns, TickMove, FromRead, FromTx, FromLoop, Looping, ReadLabels
    <3>2. status = owed[k] /\ owed[k] \in {"Open", "Revealing", "Cleared"}
      BY <1>3, <1>4, <2>2 DEF OwedInv, Statuses
    <3>3. CASE owed[k] = "Open"
      BY <1>3, <1>10, <3>1, <3>2, <3>3
         DEF OwedInv, OwesOpen, OpeningLabels, FromRead, FromTx
    <3>4. CASE owed[k] = "Revealing"
      BY <1>3, <1>6, <1>10, <3>1, <3>2, <3>4 DEF OwedInv, ClosingLabels, FromRead, FromTx
    <3>5. CASE owed[k] = "Cleared"
      BY <1>3, <1>10, <2>2, <3>1, <3>2, <3>5 DEF OwedInv, SettlingLabels, FromRead, FromTx
    <3> QED  BY <3>2, <3>3, <3>4, <3>5
  <2> QED  BY <2>1, <2>2
<1>11. CASE TickMove(k) /\ pc'[k] # "asleep" /\ ~Begins(k) /\ pc'[k] # pc[k]
  <2>1. ~Returns(k)  BY <1>11 DEF Returns
  <2>2. CASE Unserved(k)
    <3>1. owed'[k] = "none"  BY <1>1, <1>11, <2>2
    <3>2. OwedInv(k)'  BY <3>1 DEF OwedInv
    <3> QED  BY <2>1, <3>2
  <2>3. CASE ~Unserved(k)
    <3>1. owed'[k] = owed[k]  BY <1>1, <1>11, <2>3
    <3>2. \/ FromRead(k) /\ pc[k] # "asleep"
          \/ FromTx(k)
          \/ pc[k] \in Looping /\ pc'[k] \in Looping \cup {"rewatch"}
      BY <1>11, <2>3 DEF TickMove, FromLoop, Unserved, Begins
    <3>3. ASSUME owed[k] = "Open", status' = "Open" PROVE OwesOpen(k)'
      <4>1. status = "Open" /\ OwesOpen(k)  BY <1>3, <1>4, <3>3 DEF OwedInv
      <4>2. CASE ledger > RevealDeadline + VoidGrace /\ pc[k] \in {"voidIfStale", "void"}
        <5>1. pc[k] = "voidIfStale" /\ pc'[k] = "void"
          BY <1>6, <1>7, <1>11, <3>2, <3>3, <4>1, <4>2 DEF FromRead, FromTx, Looping
        <5> QED  BY <1>4, <4>2, <5>1 DEF OwesOpen
      <4>3. CASE RoundDue /\ beacon /\ pc[k] \in OpeningLabels
        <5>1. pc'[k] \in OpeningLabels
          BY <1>11, <3>2, <3>3, <4>1, <4>3 DEF OpeningLabels, FromRead, FromTx, Looping
        <5> QED  BY <1>4, <4>3, <5>1 DEF OwesOpen
      <4> QED  BY <4>1, <4>2, <4>3 DEF OwesOpen
    <3>4. ASSUME owed[k] = "Revealing", status' = "Revealing"
          PROVE  ledger' > RevealDeadline /\ pc'[k] \in ClosingLabels
      <4>1. status = "Revealing" /\ ledger > RevealDeadline /\ pc[k] \in ClosingLabels
        BY <1>3, <1>4, <3>4 DEF OwedInv
      <4>2. pc'[k] \in ClosingLabels
        BY <1>7, <1>11, <3>2, <3>4, <4>1 DEF ClosingLabels, FromRead, FromTx, Looping
      <4> QED  BY <1>4, <4>1, <4>2
    <3>5. ASSUME owed[k] = "Cleared", status' = "Cleared" PROVE pc'[k] \in SettlingLabels
      <4>1. status = "Cleared" /\ pc[k] \in SettlingLabels
        BY <1>3, <1>4, <3>5 DEF OwedInv
      <4> QED  BY <1>11, <3>2, <4>1 DEF SettlingLabels, FromRead, FromTx, Looping
    <3>6. /\ owed[k] = "Revealing" => status' # "Open"
          /\ owed[k] = "Cleared" => status' \in {"Cleared", "Settled"}
      BY <1>3, <1>4 DEF OwedInv
    <3> QED  BY <1>11, <2>1, <3>1, <3>3, <3>4, <3>5, <3>6 DEF OwedInv
  <2> QED  BY <2>1, <2>2, <2>3
<1> QED  BY <1>5, <1>8, <1>9, <1>10, <1>11

LEMMA OwedTyped ==
    ASSUME IInv, TickIInv, TickNext
    PROVE  owed' \in [Keeper -> {"none", "Open", "Revealing", "Cleared"}]
<1>1. Ripe => status \in {"Open", "Revealing", "Cleared"}  BY DEF Ripe
<1> QED  BY <1>1 DEF TickNext, Remember, TickIInv

(* A tick of the watch loop that returns (watchRound) has moved on a round  *)
(* that could be moved on when it began, also one that an earlier tick left *)
(* half-way (a crash, a failed call): for any number of keepers and bidders.*)
THEOREM TicksMoveOn == TickSpec => TickMovesOn
<1>1. TickSpec => Spec
  <2>1. TickInit => Init  BY DEF TickInit
  <2>2. [TickNext]_tickVars => [Next]_vars  BY DEF TickNext, tickVars
  <2> QED  BY <2>1, <2>2, PTL DEF TickSpec, Spec
<1>2. TickInit => TickIInv
  <2>1. SUFFICES ASSUME TickInit PROVE TickIInv  OBVIOUS
  <2>2. owed = [k \in Keeper |-> "none"]  BY <2>1 DEF TickInit
  <2> QED  BY <2>2 DEF TickIInv, OwedInv
<1>3. IInv /\ TickIInv /\ [TickNext]_tickVars => TickIInv'
  <2>1. CASE UNCHANGED tickVars
    <3>1. UNCHANGED <<owed, pc, status, ledger, clock, beacon>>  BY <2>1 DEF tickVars, vars
    <3> QED  BY <3>1 DEF TickIInv, OwedInv, OwesOpen, RoundDue
  <2>2. ASSUME IInv, TickIInv, TickNext PROVE TickIInv'
    <3>1. \A k \in Keeper : OwedInv(k)'  BY <2>2, OwedKept
    <3> QED  BY <2>2, <3>1, OwedTyped DEF TickIInv
  <2> QED  BY <2>1, <2>2
<1>4. IInv /\ TickIInv /\ [TickNext]_tickVars =>
          [\A k \in Keeper : Returns(k) => status' # owed[k]]_tickVars
  BY OwedKept
<1> QED  BY <1>1, <1>2, <1>3, <1>4, Inductive, PTL DEF TickSpec, TickMovesOn

(***************************************************************************)
(* The end-to-end scripts, for any keepers, bidders and offers and any     *)
(* fault budget.  The argument: the place in the plan tells how far the    *)
(* round has come (the parts of ScriptIInv), a keeper's steps keep what    *)
(* the script knows, unless something went against the script that its     *)
(* verdict allows for, and so what it reports is what the chain holds.     *)
(***************************************************************************)

(* Where the places of the plans are. *)
LEMMA Places ==
    ASSUME ScriptTypeOK
    PROVE  /\ kind = "agents" =>
                 /\ Len(Plan[kind]) = 9 /\ step \in 1..9
                 /\ step = 1 => Here = "bid1"
                 /\ step = 2 => Here = "bid2"
                 /\ step = 3 => Here = "index"
                 /\ step = 4 => Here = "before"
                 /\ step = 5 => Here = "keep"
                 /\ step = 6 => Here = "wait"
                 /\ step = 7 => Here = "close"
                 /\ step = 8 => Here = "closed"
                 /\ step = 9 => Here = "balances"
           /\ kind = "lifecycle" =>
                 /\ Len(Plan[kind]) = 11 /\ step \in 1..11
                 /\ step = 1 => Here = "before"
                 /\ step = 2 => Here = "bid1"
                 /\ step = 3 => Here = "bid2"
                 /\ step = 4 => Here = "locked"
                 /\ step = 5 => Here = "keep"
                 /\ step = 6 => Here = "wait"
                 /\ step = 7 => Here = "close"
                 /\ step = 8 => Here = "closed"
                 /\ step = 9 => Here = "balances"
                 /\ step = 10 => Here = "close"
                 /\ step = 11 => Here = "closedAgain"
           /\ kind = "keeper" =>
                 /\ Len(Plan[kind]) = 4 /\ step \in 1..4
                 /\ step = 1 => Here = "bid1"
                 /\ step = 2 => Here = "keep"
                 /\ step = 3 => Here = "bidState"
                 /\ step = 4 => Here = "keepAgain"
           /\ kind = "settle" =>
                 /\ Len(Plan[kind]) = 6 /\ step \in 1..6
                 /\ step = 1 => Here = "status"
                 /\ step = 2 => Here = "keep"
                 /\ step = 3 => Here = "wait"
                 /\ step = 4 => Here = "close"
                 /\ step = 5 => Here = "closed"
                 /\ step = 6 => Here = "status"
           /\ kind = "micro" => Len(Plan[kind]) = 1 /\ step = 1 /\ Here = "bid1"
           /\ kind = "verify" => Len(Plan[kind]) = 1 /\ step = 1 /\ Here = "verify"
           /\ kind = "smoke" =>
                 /\ Len(Plan[kind]) = 3 /\ step \in 1..3
                 /\ step = 1 => Here = "bid1"
                 /\ step = 2 => Here = "status"
                 /\ step = 3 => Here = "bidState"
           /\ kind \in Kinds
<1> USE DEF ScriptTypeOK, Here
<1>1. CASE kind = "agents"
  <2>1. Plan[kind] = AgentsPlan  BY <1>1 DEF Plan
  <2>2. Len(AgentsPlan) = 9  BY DEF AgentsPlan
  <2> QED  BY <1>1, <2>1, <2>2 DEF AgentsPlan
<1>2. CASE kind = "lifecycle"
  <2>1. Plan[kind] = LifecyclePlan  BY <1>2 DEF Plan
  <2>2. Len(LifecyclePlan) = 11  BY DEF LifecyclePlan
  <2> QED  BY <1>2, <2>1, <2>2 DEF LifecyclePlan
<1>3. CASE kind = "keeper"
  <2>1. Plan[kind] = KeeperPlan  BY <1>3 DEF Plan
  <2> QED  BY <1>3, <2>1 DEF KeeperPlan
<1>4. CASE kind = "settle"
  <2>1. Plan[kind] = SettlePlan  BY <1>4 DEF Plan
  <2> QED  BY <1>4, <2>1 DEF SettlePlan
<1>5. CASE kind \in {"micro", "verify"}
  <2>1. Plan[kind] = IF kind = "micro" THEN <<"bid1">> ELSE <<"verify">>  BY <1>5 DEF Plan
  <2> QED  BY <1>5, <2>1
<1>6. CASE kind = "smoke"
  <2>1. Plan[kind] = SmokePlan  BY <1>6 DEF Plan
  <2> QED  BY <1>6, <2>1 DEF SmokePlan
<1> QED  BY <1>1, <1>2, <1>3, <1>4, <1>5, <1>6 DEF Kinds

LEMMA Where ==
    ASSUME ScriptTypeOK
    PROVE  /\ Here = "bid1" => kind \in {"agents", "lifecycle", "keeper", "micro", "smoke"} /\ step = Bid1At
           /\ Here = "bid2" => kind \in TwoBids /\ step = Bid1At + 1
           /\ Here = "index" => kind = "agents" /\ step = 3
           /\ Here = "locked" => kind = "lifecycle" /\ step = 4
           /\ Here = "before" => step = IF kind = "lifecycle" THEN 1 ELSE 4
           /\ Here = "before" => kind \in TwoBids
           /\ Here = "keep" <=> kind \in TwoBids \cup {"keeper", "settle"} /\ step = KeepAt
           /\ Here = "keepAgain" <=> kind = "keeper" /\ step = 4
           /\ Here = "wait" => kind \in Closing /\ step = CloseAt - 1
           /\ Here = "close" <=> (kind \in Closing /\ step = CloseAt) \/ (kind = "lifecycle" /\ step = 10)
           /\ Here = "closed" => kind \in Closing /\ step = CloseAt + 1
           /\ Here = "closedAgain" => kind = "lifecycle" /\ step = 11
           /\ Here = "balances" => kind \in TwoBids /\ step = 9
           /\ Here = "bidState" => kind \in {"keeper", "smoke"} /\ step = 3
           /\ Here = "status" => (kind = "smoke" /\ step = 2) \/ (kind = "settle" /\ step \in {1, 6})
           /\ Here = "verify" => kind = "verify"
           /\ step \in Nat
BY Places DEF Kinds, TwoBids, Closing, Bid1At, KeepAt, CloseAt, ScriptTypeOK

----------------------------------------------------------------------------
(* The keeper's invariant is kept by what a script does with the keeper's  *)
(* functions.                                                              *)
Core == IInv /\ FundsConserved /\ SettlementExact

LEMMA CoreNext ==
    ASSUME Core, [Next]_vars
    PROVE  Core' /\ (UNCHANGED roundVars \/ RoundStep)
<1> USE DEF Core
<1>1. UNCHANGED roundVars \/ RoundStep  BY StepEffect
<1>2. IInv'  BY StepInv
<1>3. RoundTypeOK /\ RoundTypeOK' /\ ChainInv  BY <1>2 DEF IInv, TypeOK
<1>4. FundsConserved'  BY <1>1, <1>3, FundsKept
<1>5. SettlementExact'  BY <1>1, <1>3, OutcomeKept
<1> QED  BY <1>1, <1>2, <1>4, <1>5

(* Calling one of the functions, and its return, leave the round alone. *)
LEMMA CoreCall ==
    ASSUME Core, UNCHANGED roundVars, UNCHANGED <<faults, swept>>,
           Sleep(me) \/ (pc[me] = "asleep" /\ \E l \in {"keepRound", "closeRound"} :
                            Goto(me, l) /\ LoopUnchanged /\ UNCHANGED claims)
    PROVE  Core'
<1> USE DEF Core
<1>t. /\ RoundTypeOK /\ KeeperTypeOK /\ TimeInv /\ ChainInv /\ SweepInv /\ LoopInv(me)
      /\ faults \in 0..MaxFaults /\ swept \in BOOLEAN /\ me \in Keeper
      /\ \A j \in Keeper : LoopInv(j)
  BY ScriptAssumption DEF IInv, TypeOK, KeeperTypeOK
<1>1. RoundTypeOK' /\ TimeInv' /\ ChainInv' /\ SettlementExact'
  BY <1>t, RoundTyped, TimeKept, ChainKept, OutcomeKept
<1>2. FundsConserved'  BY <1>t, <1>1, FundsKept
<1>3. SweepInv'  BY <1>t, SweepFrame
<1>4. ASSUME NEW l \in {"keepRound", "closeRound"}, pc[me] = "asleep",
             Goto(me, l), LoopUnchanged, UNCHANGED claims
      PROVE  KeeperTypeOK' /\ LoopInv(me)'
  <2>1. l \in Labels \ InLoop /\ l # "getBidders" /\ "asleep" \in BeforeLoop
    BY DEF Labels, TxLabels, ReadLabels, InLoop, BeforeLoop
  <2>2. KeeperTypeOK'  BY <1>t, <1>4, <2>1, ProceedTyped DEF Proceed
  <2>3. LoopInv(me)'  BY <1>t, <1>4, <2>1, MoveLoop
  <2> QED  BY <2>2, <2>3
<1>6. KeeperTypeOK' /\ LoopInv(me)'
  BY <1>4, <1>t, SleepTyped, SleepLoop
<1>7. ASSUME NEW j \in Keeper, j # me PROVE LoopInv(j)'
  <2>1. /\ pc'[j] = pc[j] /\ todo'[j] = todo[j] /\ current'[j] = current[j]
        /\ decrypted'[j] = decrypted[j] /\ revealedBy'[j] = revealedBy[j]
        /\ skipped'[j] = skipped[j]
    BY <1>t, <1>7 DEF Sleep, Goto, LoopUnchanged, KeeperTypeOK
  <2> QED  BY <1>t, <2>1, Frame
<1>8. \A j \in Keeper : LoopInv(j)'  BY <1>6, <1>7
<1> QED  BY <1>1, <1>2, <1>3, <1>6, <1>8 DEF IInv, TypeOK

----------------------------------------------------------------------------
(* What the rest of the world does. *)

LEMMA Onward ==
    ASSUME RoundTypeOK, ChainInv, UNCHANGED roundVars \/ RoundStep
    PROVE  /\ status = "Settled" => status' = "Settled" /\ winner' = winner
           /\ status' \in Voting => status \in Voting
           /\ status # "Open" => status' # "Open" /\ bids' = bids
           /\ revealed \subseteq revealed' /\ ledger <= ledger'
           /\ ledger > RevealDeadline => ledger' > RevealDeadline
<1>1. /\ status # "Open" => status' # "Open" /\ bids' = bids
      /\ revealed \subseteq revealed' /\ ledger <= ledger'
  BY Forward
<1>2. RoundTypeOK'  BY RoundTyped
<1>3. ledger > RevealDeadline => ledger' > RevealDeadline
  BY <1>1, <1>2, TimeAssumption DEF RoundTypeOK
<1>4. CASE status' = status /\ winner' = winner  BY <1>1, <1>3, <1>4
<1>5. CASE OpenReveal  BY <1>1, <1>3, <1>5 DEF OpenReveal, Voting
<1>6. CASE Clear  BY <1>1, <1>3, <1>6 DEF Clear, Voting
<1>7. CASE Settle  BY <1>1, <1>3, <1>7 DEF Settle, Voting
<1>8. CASE Void  BY <1>1, <1>3, <1>8 DEF Void, Voting
<1> QED
  BY <1>4, <1>5, <1>6, <1>7, <1>8
     DEF RoundStep, roundVars, chainVars, Tick, CloseLedger, PublishR, ExpireSeal, Commit, Reveal

LEMMA WaitedOn ==
    ASSUME RoundTypeOK, UNCHANGED roundVars \/ RoundStep, Waited
    PROVE  Waited'
<1>1. clock' = clock \/ clock' = clock + 1
  BY DEF RoundStep, roundVars, envVars, Tick, CloseLedger, PublishR, ExpireSeal, Commit,
         OpenReveal, Reveal, Clear, Settle, Void
<1> QED  BY <1>1, TimeAssumption, ScriptAssumption DEF Waited, RoundTypeOK

(* What the script has seen stays so, also while it stays where it is. *)
LEMMA SeenKept ==
    ASSUME Core, ScriptTypeOK, SeenInv, UNCHANGED roundVars \/ RoundStep,
           UNCHANGED <<kind, step, before>>, Retried' => Retried,
           closed'.settled = closed.settled,
           kind \in {"agents", "lifecycle", "keeper", "smoke"} /\ step > Bid1At =>
              bids'[Own1] = bids[Own1],
           kind \in TwoBids /\ step > Bid1At + 1 => bids'[Own2] = bids[Own2]
    PROVE  SeenInv'
<1>1. RoundTypeOK /\ ChainInv  BY DEF Core, IInv, TypeOK
<1>2. /\ status = "Settled" => status' = "Settled" /\ winner' = winner
      /\ status' \in Voting => status \in Voting
      /\ revealed \subseteq revealed'
      /\ Waited => Waited'
  BY <1>1, Onward, WaitedOn
<1>3. Bid1At' = Bid1At /\ KeepAt' = KeepAt /\ CloseAt' = CloseAt /\ FirstBid' = FirstBid
      /\ SecondBid' = SecondBid
  BY DEF Bid1At, KeepAt, CloseAt, FirstBid, SecondBid
<1> QED  BY <1>2, <1>3 DEF SeenInv

(* and what it made of the round, as long as nobody changes that. *)
LEMMA AloneKept ==
    ASSUME ScriptTypeOK, LeftAlone, UNCHANGED scriptVars, UNCHANGED keeperVars,
           UNCHANGED <<status, revealed>>, status # "Open" => bids' = bids,
           kind \notin {"settle", "verify"} =>
              /\ UNCHANGED <<bids, vault>>
              /\ seals \subseteq seals' \/ ledger' > RevealDeadline
              /\ ledger > RevealDeadline => ledger' > RevealDeadline
    PROVE  LeftAlone'
<1> USE DEF scriptVars, keeperVars, Bid1At, KeepAt, CloseAt
<1>1. kind # "verify" => StatusInv'
  BY DEF LeftAlone, StatusInv, NotOpened, CloseBegun, Retried
<1>2. kind \notin {"settle", "verify"} => BidsInv'
  BY DEF LeftAlone, BidsInv, Index, Own
<1>3. kind \in {"agents", "lifecycle", "keeper", "settle"} => PassInv'
  <2>1. kind # "verify" /\ step = KeepAt /\ pc[me] = "reveal" => bids' = bids
    BY DEF LeftAlone, StatusInv, NotOpened, CloseBegun, Closing, TwoBids
  <2> QED  BY <2>1 DEF LeftAlone, PassInv, Index, Own, SkippedBy
<1>4. kind = "keeper" /\ step = 4 => AgainInv'
  BY DEF LeftAlone, AgainInv, SkippedBy
<1>5. kind \in Closing => ClosedInv'  BY DEF LeftAlone, ClosedInv
<1> QED  BY <1>1, <1>2, <1>3, <1>4, <1>5 DEF LeftAlone

LEMMA Own0 ==
    ASSUME ScriptTypeOK
    PROVE  Own = {} <=> kind \in {"settle", "verify"}
<1> QED  BY DEF Own, ScriptTypeOK, Kinds

World ==
    \/ /\ Stranger /\ UNCHANGED keeperVars
       /\ UNCHANGED <<kind, step, verdict, passes, final, closed, before, blame>>
    \/ Passing /\ UNCHANGED keeperVars /\ UNCHANGED scriptVars

LEMMA WorldKeeps ==
    ASSUME RunningInv, verdict = "running", World
    PROVE  ScriptIInv'
<1> USE DEF RunningInv
<1>1. /\ Core /\ RoundTypeOK /\ ChainInv /\ TimeInv /\ ScriptTypeOK /\ me \in Keeper
      /\ {Own1, Own2} \subseteq Bidder
  BY ScriptAssumption DEF Core, IInv, TypeOK
<1>2. /\ UNCHANGED <<kind, step, verdict, passes, final, closed, before, blame>>
      /\ UNCHANGED keeperVars
  BY DEF World, scriptVars
<1>3. Passing \/ Anyone \/ \E b \in Rival \ Own, o \in Offer : Commit(b, o)
  BY DEF World, Stranger
<1>4. [Next]_vars
  <2>1. Rival \ Own \subseteq Bidder  BY ScriptAssumption
  <2> QED  BY <1>2, <1>3, <2>1 DEF Next, Others, Bidding
<1>5. Core' /\ (UNCHANGED roundVars \/ RoundStep)  BY <1>1, <1>4, CoreNext
<1>6. kind \in {"agents", "lifecycle", "keeper", "smoke"} => bids'[Own1] = bids[Own1]
  <2>1. ASSUME NEW b \in Rival \ Own, NEW o \in Offer, Commit(b, o),
               kind \in {"agents", "lifecycle", "keeper", "smoke"}
        PROVE  bids'[Own1] = bids[Own1]
    <3>1. b # Own1 /\ b \in Bidder  BY <2>1, ScriptAssumption DEF Own
    <3> QED  BY <1>1, <2>1, <3>1 DEF Commit, RoundTypeOK
  <2>2. Passing \/ Anyone => bids' = bids
    BY DEF Passing, Anyone, Tick, CloseLedger, PublishR, ExpireSeal, OpenReveal, Reveal, Clear,
           Settle, Void, chainVars
  <2> QED  BY <1>3, <2>1, <2>2
<1>7. kind \in TwoBids => bids'[Own2] = bids[Own2]
  <2>1. ASSUME NEW b \in Rival \ Own, NEW o \in Offer, Commit(b, o), kind \in TwoBids
        PROVE  bids'[Own2] = bids[Own2]
    <3>1. b # Own2 /\ b \in Bidder  BY <2>1, ScriptAssumption DEF Own, TwoBids
    <3> QED  BY <1>1, <2>1, <3>1 DEF Commit, RoundTypeOK
  <2>2. Passing \/ Anyone => bids' = bids
    BY DEF Passing, Anyone, Tick, CloseLedger, PublishR, ExpireSeal, OpenReveal, Reveal, Clear,
           Settle, Void, chainVars
  <2> QED  BY <1>3, <2>1, <2>2
<1>8. SeenInv'  BY <1>1, <1>2, <1>5, <1>6, <1>7, SeenKept DEF Retried
<1>9. CallInv'  BY <1>2 DEF CallInv, keeperVars, Here
<1>10. ScriptTypeOK'
  BY <1>1, <1>2 DEF ScriptTypeOK, World, Stranger, scriptVars
<1>11. ASSUME Clean' PROVE LeftAlone'
  <2>1. Clean  BY <1>1, <1>2, <1>11 DEF Clean, keeperVars, World, Stranger, scriptVars, ScriptTypeOK
  <2>2. CASE Passing /\ UNCHANGED scriptVars
    <3>1. UNCHANGED <<status, revealed, bids, vault>>
      BY <2>2 DEF Passing, Tick, CloseLedger, PublishR, ExpireSeal, chainVars
    <3>2. ledger > RevealDeadline => ledger' > RevealDeadline  BY <1>1, <1>5, Onward
    <3>3. seals \subseteq seals' \/ ledger' > RevealDeadline
      BY <2>2, <3>2 DEF Passing, Tick, CloseLedger, PublishR, ExpireSeal, chainVars
    <3> QED  BY <1>1, <1>2, <2>1, <2>2, <3>1, <3>2, <3>3, AloneKept
  <2>3. CASE kind = "settle" /\ \E b \in Rival \ Own, o \in Offer : Commit(b, o)
    <3>1. UNCHANGED <<status, revealed>> /\ status = "Open"  BY <2>3 DEF Commit
    <3>2. meddled' = meddled  BY <1>1, <1>11, <2>1 DEF World, Stranger, Clean, scriptVars
    <3>3. UNCHANGED scriptVars  BY <1>2, <3>2 DEF scriptVars
    <3> QED  BY <1>1, <1>2, <2>1, <2>3, <3>1, <3>3, AloneKept
  <2>4. CASE kind = "verify"
    BY <1>2, <2>4 DEF LeftAlone, Closing
  <2>5. CASE Stranger /\ kind # "verify" /\ ~(kind = "settle" /\ \E b \in Rival \ Own, o \in Offer : Commit(b, o))
    <3>1. meddled' = meddled + 1
      BY <1>1, <2>5, Own0 DEF Stranger
    <3> QED  BY <1>1, <1>11, <3>1 DEF Clean, ScriptTypeOK
  <2> QED  BY <2>2, <2>3, <2>4, <2>5 DEF World
<1>12. verdict' = "running"  BY <1>2
<1> QED
  BY <1>5, <1>8, <1>9, <1>10, <1>11, <1>12
     DEF ScriptIInv, RunningInv, Core, ReportTrue, FailsOnlyForCause

----------------------------------------------------------------------------
(* What the script does.  At its end it has a verdict: *)

LEMMA Caused ==
    ASSUME verdict' = "failed", faults' \in Nat, meddled' \in Nat, ~Clean'
    PROVE  ScriptIInv'
BY DEF Clean, ScriptIInv, ReportTrue, FailsOnlyForCause

LEMMA CoreStay ==
    ASSUME Core, UNCHANGED vars
    PROVE  Core'
BY CoreNext

(* until then a check that held takes it to the next place. *)
LEMMA Advanced ==
    ASSUME RunningInv, UNCHANGED vars, UNCHANGED Results, kind' = kind, step' = step + 1,
           blame \subseteq blame' /\ blame' \subseteq blame \cup {"late"},
           Here \in {"index", "locked", "wait", "closed", "balances", "bidState", "status"}, ~Last,
           kind # "settle" \/ Here # "status",
           Here = "wait" => Waited,
           Here = "closed" /\ kind # "settle" => closed.settled,
           Here = "closed" /\ kind = "lifecycle" => winner = Own2,
           Here = "bidState" => Own1 \in revealed
    PROVE  RunningInv'
<1> USE DEF RunningInv
<1>1. /\ Core /\ ScriptTypeOK /\ me \in Keeper /\ LoopInv(me) /\ ChainInv /\ SeenInv
      /\ faults \in Nat
  BY ScriptAssumption, ShapeAssumption DEF Core, IInv, TypeOK, KeeperTypeOK
<1>2. Core'  BY <1>1, CoreStay
<1>3. pc[me] = "asleep" /\ claims[me] = {}  BY DEF CallInv
<1>4. /\ revealedBy[me] = {} /\ SkippedBy(me) = {}
      /\ status = "Open" => revealed = {}
  BY <1>1, <1>3 DEF LoopInv, BeforeLoop, ChainInv
<1>5. /\ pc' = pc /\ claims' = claims /\ revealedBy' = revealedBy /\ skipped' = skipped
      /\ UNCHANGED <<status, bids, revealed, seals, winner, vault, ledger, faults>>
      /\ Waited' = Waited
  BY DEF vars, Waited
<1>6. UNCHANGED <<passes, final, closed, before, meddled>>  BY DEF Results
<1>7. ScriptTypeOK'
  <2>1. step + 1 \in 1..Len(Plan[kind])  BY <1>1, Places DEF Last, Kinds, ScriptTypeOK
  <2> QED  BY <1>1, <1>6, <2>1 DEF ScriptTypeOK
<1>8. CallInv'
  <2>1. pc'[me] = "asleep" /\ claims'[me] = {}  BY <1>3, <1>5
  <2> QED  BY <2>1 DEF CallInv, KeepLabels, CloseLabels
<1>9. SeenInv'
  BY <1>1, <1>5, <1>6, Where, Places
     DEF SeenInv, Bid1At, KeepAt, CloseAt, TwoBids, Closing, Retried, FirstBid, SecondBid, Last
<1>10. ASSUME Clean' PROVE LeftAlone'
  <2>1. Clean /\ LeftAlone  BY <1>5, <1>6, <1>10 DEF Clean
  <2>2. /\ SkippedBy(me)' = {} /\ Index' = Index /\ Own' = Own
    BY <1>4, <1>5 DEF SkippedBy, Index, Own
  <2>3. kind # "verify" => StatusInv'
    BY <1>1, <1>3, <1>5, <1>6, <2>1, Where
       DEF LeftAlone, StatusInv, NotOpened, CloseBegun, Retried, KeepAt, CloseAt, TwoBids, Closing,
           SeenInv
  <2>4. kind \notin {"settle", "verify"} => BidsInv'
    BY <1>1, <1>5, <1>6, <2>1, <2>2, Where
       DEF LeftAlone, BidsInv, Bid1At, CloseAt, TwoBids, Closing
  <2>5. kind \in {"agents", "lifecycle", "keeper", "settle"} => PassInv'
    BY <1>1, <1>3, <1>4, <1>5, <1>6, <2>1, <2>2, Where
       DEF LeftAlone, PassInv, KeepAt, CloseAt, TwoBids, Closing, StatusInv, NotOpened
  <2>6. kind = "keeper" /\ step' = 4 => AgainInv'
    BY <1>3, <1>4, <1>5, <2>2 DEF AgainInv
  <2>7. kind \in Closing => ClosedInv'
    BY <1>1, <1>3, <1>5, <1>6, <2>1, Where DEF LeftAlone, ClosedInv, CloseAt, TwoBids, Closing
  <2> QED  BY <2>3, <2>4, <2>5, <2>6, <2>7 DEF LeftAlone
<1> QED  BY <1>2, <1>7, <1>8, <1>9, <1>10 DEF Core

LEMMA OwnOffers ==
    /\ {Low, High} \subseteq Offer /\ NoBid \notin Offer
    /\ Low.value \in Int /\ Low.escrow \in Int /\ High.value \in Int /\ High.escrow \in Int
    /\ 0 < Low.value /\ Low.value < High.value
    /\ High.value <= High.escrow /\ Low.value <= Low.escrow
    /\ Own1 \in Bidder /\ Own2 \in Bidder /\ Own1 # Own2
BY ScriptAssumption, OfferAssumption

(* Of two bidders the one that bid High wins. *)
LEMMA HighWins ==
    ASSUME Core, status \in {"Cleared", "Settled"}, NEW a \in Bidder, NEW b \in Bidder,
           Index \subseteq {a, b}, bids[a] = High, bids[b] = Low, a \in revealed
    PROVE  winner = a
<1>1. winner \in BestOf({c \in Bidder : Valid(c)}) /\ RoundTypeOK /\ ChainInv
  BY DEF Core, IInv, TypeOK, ChainInv
<1>2. Valid(a)  BY OwnOffers DEF Valid, Eligible
<1>3. Better(bids[winner].value, High.value)  BY <1>1, <1>2 DEF BestOf
<1>4. winner \in {a, b}
  <2>1. winner \in Bidder /\ bids[winner] # NoBid  BY <1>1 DEF BestOf, Valid, Eligible
  <2> QED  BY <2>1 DEF Index
<1> QED  BY <1>3, <1>4, OwnOffers, ScriptAssumption DEF Better

(* The facts of a check: it read the chain and went on or failed. *)
LEMMA Checking ==
    ASSUME NEW place, NEW ok, Check(place, ok)
    PROVE  /\ Here = place /\ kind' = kind /\ UNCHANGED vars /\ UNCHANGED Results
           /\ blame \subseteq blame' /\ blame' \subseteq blame \cup {"late"}
           /\ place = "bidState" /\ ledger > RevealDeadline => "late" \in blame'
           /\ \/ ok /\ ~Last /\ verdict' = "running" /\ step' = step + 1
              \/ ok /\ Last /\ verdict' = "passed" /\ step' = step
              \/ ~ok /\ verdict' = "failed"
<1>1. CASE ok  BY <1>1 DEF Check, At, Assert, Advance, Blame
<1>2. CASE ~ok  BY <1>2 DEF Check, At, Assert, Fail, Blame
<1> QED  BY <1>1, <1>2

LEMMA WentOn ==
    ASSUME RunningInv', verdict' = "running"
    PROVE  ScriptIInv'
BY DEF ScriptIInv, ReportTrue, FailsOnlyForCause

LEMMA Passed ==
    ASSUME ReportTrue', verdict' = "passed"
    PROVE  ScriptIInv'
BY DEF ScriptIInv, FailsOnlyForCause

(* A failed check is excused by what went wrong before it. *)
LEMMA CheckFailed ==
    ASSUME RunningInv, UNCHANGED vars, UNCHANGED Results, blame \subseteq blame',
           verdict' = "failed", ~(Clean /\ LeftAlone /\ blame' = {})
    PROVE  ScriptIInv'
<1>1. faults' \in Nat /\ meddled' \in Nat /\ faults' = faults /\ meddled' = meddled
  BY ShapeAssumption
     DEF RunningInv, ScriptTypeOK, IInv, TypeOK, KeeperTypeOK, vars, Results
<1>2. ~Clean'
  BY <1>1 DEF RunningInv, Clean
<1> QED  BY <1>1, <1>2, Caused

(* One that held takes the script on. *)
LEMMA CheckHeld ==
    ASSUME RunningInv, NEW place, NEW ok, Check(place, ok), ok, ~Last,
           place \in {"index", "locked", "closed", "balances", "bidState", "status"},
           kind # "settle" \/ place # "status",
           place = "closed" /\ kind # "settle" => closed.settled,
           place = "closed" /\ kind = "lifecycle" => winner = Own2,
           place = "bidState" => Own1 \in revealed
    PROVE  ScriptIInv'
<1>1. /\ kind' = kind /\ step' = step + 1 /\ verdict' = "running" /\ Here = place
      /\ UNCHANGED vars /\ UNCHANGED Results
      /\ blame \subseteq blame' /\ blame' \subseteq blame \cup {"late"}
  BY Checking
<1>2. RunningInv'  BY <1>1, Advanced
<1> QED  BY <1>1, <1>2, WentOn

LEMMA CheckIndexKeeps ==
    ASSUME RunningInv, CheckIndex PROVE ScriptIInv'
<1> DEFINE ok == Index = {Own1, Own2}
<1>1. Check("index", ok)  BY DEF CheckIndex
<1> HIDE DEF ok
<1>2. kind = "agents" /\ step = 3 /\ Len(Plan[kind]) = 9
  BY <1>1, Checking, Where, Places DEF RunningInv
<1>3. CASE ok
  <2>1. ~Last  BY <1>2 DEF Last
  <2> QED  BY <1>1, <1>2, <1>3, <2>1, CheckHeld
<1>4. CASE ~ok
  <2>1. ASSUME LeftAlone PROVE FALSE
    <3>1. Index \subseteq {Own1, Own2}  BY <1>2, <2>1 DEF LeftAlone, BidsInv, Own
    <3>2. bids[Own1] = High /\ bids[Own2] = Low
      BY <1>2 DEF RunningInv, SeenInv, Bid1At, TwoBids, FirstBid, SecondBid
    <3> QED  BY <1>4, <3>1, <3>2, OwnOffers DEF ok, Index
  <2> QED  BY <1>1, <1>4, <2>1, Checking, CheckFailed
<1> QED  BY <1>3, <1>4

LEMMA CheckLockedKeeps ==
    ASSUME RunningInv, CheckLocked PROVE ScriptIInv'
<1> DEFINE ok == vault - before.vault = Low.escrow + High.escrow
<1>1. Check("locked", ok)  BY DEF CheckLocked
<1> HIDE DEF ok
<1>2. kind = "lifecycle" /\ step = 4 /\ Len(Plan[kind]) = 11
  BY <1>1, Checking, Where, Places DEF RunningInv
<1>3. CASE ok
  <2>1. ~Last  BY <1>2 DEF Last
  <2> QED  BY <1>1, <1>2, <1>3, <2>1, CheckHeld
<1>4. CASE ~ok
  <2>1. ASSUME LeftAlone PROVE FALSE
    <3>1. vault = Low.escrow + High.escrow /\ before.vault = 0
      BY <1>2, <2>1 DEF LeftAlone, BidsInv
    <3> QED  BY <1>4, <3>1, OwnOffers DEF ok
  <2> QED  BY <1>1, <1>4, <2>1, Checking, CheckFailed
<1> QED  BY <1>3, <1>4

(* Both bids revealed and the round settled: the higher one has won. *)
LEMMA TwoSettled ==
    ASSUME RunningInv, kind \in TwoBids, step > KeepAt, status \in {"Cleared", "Settled"}, 
           Index \subseteq {Own1, Own2}
    PROVE  winner = IF kind = "agents" THEN Own1 ELSE Own2
<1>1. Core  BY DEF RunningInv, Core
<1>2. {Own1, Own2} \subseteq revealed /\ bids[Own1] = FirstBid /\ bids[Own2] = SecondBid
  BY Places DEF RunningInv, SeenInv, TwoBids, KeepAt, Bid1At, ScriptTypeOK
<1>3. CASE kind = "agents"
  <2>1. bids[Own1] = High /\ bids[Own2] = Low  BY <1>2, <1>3 DEF FirstBid, SecondBid
  <2> QED  BY <1>1, <1>2, <1>3, <2>1, HighWins, OwnOffers
<1>4. CASE kind = "lifecycle"
  <2>1. bids[Own1] = Low /\ bids[Own2] = High  BY <1>2, <1>4 DEF FirstBid, SecondBid
  <2> QED  BY <1>1, <1>2, <1>4, <2>1, HighWins, OwnOffers
<1> QED  BY <1>3, <1>4 DEF TwoBids

LEMMA CheckClosedKeeps ==
    ASSUME RunningInv, CheckClosed PROVE ScriptIInv'
<1> DEFINE settleOk == TRUE
           agentsOk == AgentsClosed
           lifecycleOk == LifecycleClosed
<1>1. \/ kind = "settle" /\ Check("closed", settleOk)
      \/ kind = "agents" /\ Check("closed", agentsOk)
      \/ kind = "lifecycle" /\ Check("closed", lifecycleOk)
  BY DEF CheckClosed
<1>2. settleOk  OBVIOUS
<1>3. agentsOk => closed.settled  BY DEF AgentsClosed
<1>4. lifecycleOk => closed.settled /\ winner = Own2  BY DEF LifecycleClosed
<1>5. final = "Settled" /\ closed.cleared /\ closed.settled /\ winner = Own2 => lifecycleOk
  BY DEF LifecycleClosed
<1>6. final = "Settled" /\ closed.cleared /\ closed.settled => agentsOk  BY DEF AgentsClosed
<1> HIDE DEF settleOk, agentsOk, lifecycleOk
<1>7. ~Last /\ (kind \in TwoBids => step = 8)
  <2>1. Here = "closed"  BY <1>1, Checking
  <2>2. kind \in Closing /\ step = CloseAt + 1 /\ ScriptTypeOK  BY <2>1, Where DEF RunningInv
  <2>3. CASE kind = "agents"
    BY <2>2, <2>3, Places DEF Last, CloseAt, TwoBids
  <2>4. CASE kind = "lifecycle"
    BY <2>2, <2>4, Places DEF Last, CloseAt, TwoBids
  <2>5. CASE kind = "settle"
    BY <2>2, <2>5, Places DEF Last, CloseAt, TwoBids
  <2> QED  BY <2>2, <2>3, <2>4, <2>5 DEF Closing
<1>8. ASSUME LeftAlone, kind \in TwoBids
      PROVE  (kind = "agents" => agentsOk) /\ (kind = "lifecycle" => lifecycleOk)
  <2>1. final = status /\ closed.cleared /\ closed.settled
    BY <1>7, <1>8 DEF LeftAlone, ClosedInv, CloseAt, TwoBids, Closing
  <2>2. status = "Settled"  BY <2>1 DEF RunningInv, SeenInv
  <2>3. Index \subseteq {Own1, Own2}
    BY <1>8 DEF LeftAlone, BidsInv, Own, TwoBids
  <2>4. winner = IF kind = "agents" THEN Own1 ELSE Own2
    BY <1>7, <1>8, <2>2, <2>3, TwoSettled DEF KeepAt
  <2> QED  BY <1>5, <1>6, <2>1, <2>2, <2>4
<1>9. CASE kind = "settle" /\ Check("closed", settleOk)
  BY <1>2, <1>7, <1>9, CheckHeld
<1>10. CASE kind = "agents" /\ Check("closed", agentsOk)
  <2>1. CASE agentsOk  BY <1>3, <1>7, <1>10, <2>1, CheckHeld
  <2>2. CASE ~agentsOk
    <3>1. ~LeftAlone  BY <1>8, <1>10, <2>2 DEF TwoBids
    <3> QED  BY <1>10, <2>2, <3>1, Checking, CheckFailed
  <2> QED  BY <2>1, <2>2
<1>11. CASE kind = "lifecycle" /\ Check("closed", lifecycleOk)
  <2>1. CASE lifecycleOk  BY <1>4, <1>7, <1>11, <2>1, CheckHeld
  <2>2. CASE ~lifecycleOk
    <3>1. ~LeftAlone  BY <1>8, <1>11, <2>2 DEF TwoBids
    <3> QED  BY <1>11, <2>2, <3>1, Checking, CheckFailed
  <2> QED  BY <2>1, <2>2
<1> QED  BY <1>1, <1>9, <1>10, <1>11

(* What lifecycle-e2e reports, from what it has seen. *)
LEMMA LifecycleTold ==
    ASSUME RunningInv, UNCHANGED vars, kind' = kind, kind = "lifecycle", step > 8
    PROVE  ReportTrue'
<1>1. status = "Settled" /\ winner = Own2 /\ bids[Own2] = High
  BY Places DEF RunningInv, SeenInv, TwoBids, Bid1At, SecondBid, ScriptTypeOK
<1>2. vault = 0  BY <1>1 DEF RunningInv, FundsConserved, Final
<1>3. till = High.value /\ wallet[Own2] = -till /\ \A b \in Bidder \ {Own2} : wallet[b] = 0
  BY <1>1 DEF RunningInv, SettlementExact
<1> QED  BY <1>1, <1>2, <1>3 DEF ReportTrue, vars

LEMMA CheckClosedAgainKeeps ==
    ASSUME RunningInv, CheckClosedAgain PROVE ScriptIInv'
<1> DEFINE ok == ~closed.cleared /\ ~closed.settled /\ final = "Settled"
<1>1. Check("closedAgain", ok)  BY DEF CheckClosedAgain
<1> HIDE DEF ok
<1>2. kind = "lifecycle" /\ step = 11 /\ Last
  BY <1>1, Checking, Where, Places DEF RunningInv, Last
<1>3. CASE ok
  <2>1. UNCHANGED vars /\ kind' = kind /\ verdict' = "passed"  BY <1>1, <1>2, <1>3, Checking
  <2> QED  BY <1>2, <2>1, LifecycleTold, Passed
<1>4. CASE ~ok
  <2>1. LeftAlone => ok  BY <1>2 DEF LeftAlone, ClosedInv, Closing, ok
  <2> QED  BY <1>1, <1>4, <2>1, Checking, CheckFailed
<1> QED  BY <1>3, <1>4
(* The money of a settled round whose two bids the script placed. *)
LEMMA TwoSettledMoney ==
    ASSUME RunningInv, LeftAlone, kind \in TwoBids, step = 9
    PROVE  /\ status = "Settled" /\ vault = 0 /\ till = High.value /\ before.till = 0
           /\ kind = "lifecycle" =>
                 /\ wallet[Own1] = 0 /\ wallet[Own2] = -till /\ before.w1 = 0 /\ before.w2 = 0
<1>1. status = "Settled" /\ (kind = "agents" => before.till = 0)
  BY DEF RunningInv, SeenInv, TwoBids
<1>2. vault = 0  BY <1>1 DEF RunningInv, FundsConserved, Final
<1>3. Index \subseteq {Own1, Own2}  BY DEF LeftAlone, BidsInv, Own, TwoBids
<1>4. winner = IF kind = "agents" THEN Own1 ELSE Own2
  BY <1>1, <1>3, TwoSettled DEF KeepAt
<1>5. bids[Own1] = FirstBid /\ bids[Own2] = SecondBid
  BY DEF RunningInv, SeenInv, TwoBids, Bid1At
<1>6. till = bids[winner].value /\ wallet[winner] = -till
      /\ \A b \in Bidder \ {winner} : wallet[b] = 0
  BY <1>1 DEF RunningInv, SettlementExact
<1>7. CASE kind = "agents"
  BY <1>1, <1>2, <1>4, <1>5, <1>6, <1>7 DEF FirstBid
<1>8. CASE kind = "lifecycle"
  <2>1. before = [till |-> 0, vault |-> 0, w1 |-> 0, w2 |-> 0]
    BY <1>8 DEF LeftAlone, BidsInv
  <2> QED  BY <1>1, <1>2, <1>4, <1>5, <1>6, <1>8, <2>1, OwnOffers DEF SecondBid
<1> QED  BY <1>7, <1>8 DEF TwoBids

(* The operator's gain tells agents-e2e who has won. *)
LEMMA AgentsTold ==
    ASSUME RunningInv, kind = "agents", step = 9, AgentsBalances
    PROVE  AgentsReport
<1>1. status = "Settled" /\ before.till = 0  BY DEF RunningInv, SeenInv
<1>2. RoundTypeOK /\ ChainInv  BY DEF RunningInv, IInv, TypeOK
<1>3. vault = 0 /\ till = High.value
  BY <1>1, <1>2 DEF AgentsBalances, RoundTypeOK
<1>4. /\ bids[Own1] = High /\ bids[Own2] = Low /\ {Own1, Own2} \subseteq revealed
  BY DEF RunningInv, SeenInv, TwoBids, Bid1At, KeepAt, FirstBid, SecondBid
<1>5. Valid(Own1) /\ Valid(Own2)  BY <1>4, OwnOffers DEF Valid, Eligible
<1>6. till = bids[winner].value /\ \A b \in Bidder \ {winner} : wallet[b] = 0
  BY <1>1 DEF RunningInv, SettlementExact
<1>7. winner # Own2  BY <1>3, <1>4, <1>6, OwnOffers
<1>8. wallet[Own2] = 0  BY <1>6, <1>7, OwnOffers
<1> QED  BY <1>1, <1>3, <1>5, <1>8 DEF AgentsReport

LEMMA CheckBalancesKeeps ==
    ASSUME RunningInv, CheckBalances PROVE ScriptIInv'
<1> DEFINE ok == IF kind = "agents" THEN AgentsBalances ELSE LifecycleBalances
<1>1. Check("balances", ok)  BY DEF CheckBalances
<1>2. kind = "agents" => (ok <=> AgentsBalances)  OBVIOUS
<1>3. kind = "lifecycle" => (ok <=> LifecycleBalances)  OBVIOUS
<1> HIDE DEF ok
<1>4. kind \in TwoBids /\ step = 9 /\ (Last <=> kind = "agents")
  BY <1>1, Checking, Where, Places DEF RunningInv, Last, TwoBids
<1>5. CASE ok /\ kind = "agents"
  <2>1. UNCHANGED vars /\ kind' = kind /\ verdict' = "passed"  BY <1>1, <1>4, <1>5, Checking
  <2>2. AgentsReport  BY <1>2, <1>4, <1>5, AgentsTold
  <2>3. AgentsReport'  BY <2>1, <2>2 DEF AgentsReport, vars, Valid, Eligible
  <2> QED  BY <1>5, <2>1, <2>3, Passed DEF ReportTrue
<1>6. CASE ok /\ kind = "lifecycle"
  BY <1>1, <1>4, <1>6, CheckHeld
<1>7. CASE ~ok
  <2>1. ASSUME LeftAlone PROVE ok
    <3>1. RoundTypeOK  BY DEF RunningInv, IInv, TypeOK
    <3> QED
      BY <1>2, <1>3, <1>4, <2>1, <3>1, TwoSettledMoney, OwnOffers
         DEF AgentsBalances, LifecycleBalances, TwoBids, RoundTypeOK
  <2> QED  BY <1>1, <1>7, <2>1, Checking, CheckFailed
<1> QED  BY <1>4, <1>5, <1>6, <1>7 DEF TwoBids

LEMMA CheckVerifyKeeps ==
    ASSUME RunningInv, CheckVerify PROVE ScriptIInv'
<1> DEFINE ok == /\ status = "Settled" /\ Cardinality(Index) = 1
                 /\ \A b \in Index : bids[b] = Low /\ Valid(b)
<1>1. Check("verify", ok)  BY DEF CheckVerify
<1>2. ok => status = "Settled"  OBVIOUS
<1> HIDE DEF ok
<1>3. kind = "verify" /\ Last
  BY <1>1, Checking, Where, Places DEF RunningInv, Last
<1>4. UNCHANGED vars /\ kind' = kind  BY <1>1, Checking
<1>5. CASE ok
  <2>1. verdict' = "passed"  BY <1>1, <1>3, <1>5, Checking
  <2>2. status = "Settled" /\ vault = 0
    BY <1>2, <1>5 DEF RunningInv, FundsConserved, Final
  <2> QED  BY <1>3, <1>4, <2>1, <2>2, Passed DEF ReportTrue, vars
<1>6. CASE ~ok
  <2>1. verdict' = "failed"  BY <1>1, <1>6, Checking
  <2> QED  BY <1>3, <1>4, <2>1 DEF ScriptIInv, ReportTrue, FailsOnlyForCause
<1> QED  BY <1>5, <1>6

LEMMA CheckBidStateKeeps ==
    ASSUME RunningInv, CheckBidState PROVE ScriptIInv'
<1> DEFINE ok == IF kind = "keeper" THEN KeeperBidState ELSE SmokeBidState
<1>1. Check("bidState", ok)  BY DEF CheckBidState
<1>2. kind = "keeper" => (ok <=> KeeperBidState)  OBVIOUS
<1>3. kind = "smoke" => (ok <=> SmokeBidState)  OBVIOUS
<1> HIDE DEF ok
<1>4. kind \in {"keeper", "smoke"} /\ step = 3 /\ (Last <=> kind = "smoke")
  BY <1>1, Checking, Where, Places DEF RunningInv, Last
<1>5. bids[Own1] = Low  BY <1>4 DEF RunningInv, SeenInv, Bid1At, FirstBid
<1>6. CASE ok /\ kind = "keeper"
  <2>1. Own1 \in revealed  BY <1>2, <1>6 DEF KeeperBidState
  <2> QED  BY <1>1, <1>4, <1>6, <2>1, CheckHeld
<1>7. CASE ok /\ kind = "smoke"
  <2>1. UNCHANGED vars /\ kind' = kind /\ verdict' = "passed"  BY <1>1, <1>4, <1>7, Checking
  <2> QED  BY <1>5, <1>7, <2>1, Passed DEF ReportTrue, vars
<1>8. CASE ~ok
  <2>1. ASSUME LeftAlone, kind = "keeper" PROVE ok
    <3>1. Own1 \in revealed  BY <1>4, <2>1 DEF LeftAlone, PassInv, KeepAt, TwoBids
    <3> QED  BY <1>2, <1>5, <2>1, <3>1, OwnOffers DEF KeeperBidState, Valid, Eligible
  <2>2. ASSUME LeftAlone, kind = "smoke", ~(ledger > RevealDeadline) PROVE ok
    <3>1. status = "Open"  BY <1>4, <2>2 DEF LeftAlone, StatusInv, NotOpened
    <3>2. revealed = {}  BY <3>1 DEF RunningInv, IInv, ChainInv
    <3>3. Index \subseteq {Own1} /\ Index \subseteq seals
      BY <1>4, <2>2 DEF LeftAlone, BidsInv, Own
    <3>4. Own1 \in Index  BY <1>5, OwnOffers DEF Index
    <3> QED  BY <1>3, <1>5, <2>2, <3>2, <3>3, <3>4 DEF SmokeBidState, Valid
  <2>3. ledger > RevealDeadline => blame' # {}  BY <1>1, Checking
  <2> QED  BY <1>1, <1>4, <1>8, <2>1, <2>2, <2>3, Checking, CheckFailed
<1> QED  BY <1>4, <1>6, <1>7, <1>8

(* mainnet-settle looks whether there is a pass to make. *)
LEMMA StatusBranchKeeps ==
    ASSUME RunningInv, kind = "settle", ~Last, At("status"),
           step' = IF status \in {"Open", "Revealing"} THEN 2 ELSE 3,
           UNCHANGED <<kind, verdict, blame>>, UNCHANGED Results, UNCHANGED vars
    PROVE  ScriptIInv'
<1> USE DEF RunningInv
<1>1. /\ Core /\ ScriptTypeOK /\ me \in Keeper /\ LoopInv(me) /\ ChainInv /\ SeenInv
  BY ScriptAssumption DEF Core, IInv, TypeOK
<1>2. Core'  BY <1>1, CoreStay
<1>3. Here = "status" /\ verdict = "running"  BY DEF At
<1>4. step = 1 /\ step' \in {2, 3} /\ Len(Plan[kind]) = 6
  BY <1>1, <1>3, Where, Places DEF Last
<1>5. pc[me] = "asleep" /\ claims[me] = {}  BY <1>3 DEF CallInv
<1>6. revealedBy[me] = {} /\ (status = "Open" => revealed = {})
  BY <1>1, <1>5 DEF LoopInv, BeforeLoop, ChainInv
<1>7. /\ UNCHANGED <<pc, claims, revealedBy, status, revealed, faults>>
      /\ UNCHANGED <<passes, final, closed, before, meddled>>
  BY DEF vars, Results
<1>8. ScriptTypeOK'  BY <1>1, <1>4, <1>7 DEF ScriptTypeOK
<1>9. CallInv'
  <2>1. pc'[me] = "asleep" /\ claims'[me] = {}  BY <1>5, <1>7
  <2> QED  BY <2>1 DEF CallInv, KeepLabels, CloseLabels
<1>10. SeenInv'
  BY <1>1, <1>4, <1>7 DEF SeenInv, CloseAt, TwoBids, Closing, Retried
<1>11. ASSUME Clean' PROVE LeftAlone'
  <2>1. LeftAlone  BY <1>7, <1>11 DEF Clean
  <2>2. status = "Open"  BY <1>4, <2>1 DEF LeftAlone, StatusInv, NotOpened, KeepAt, TwoBids
  <2>3. step' = 2  BY <2>2
  <2>4. StatusInv'
    BY <1>5, <1>7, <2>2, <2>3
       DEF StatusInv, NotOpened, CloseBegun, KeepAt, CloseAt, TwoBids, Closing
  <2>5. PassInv'
    BY <1>5, <1>6, <1>7, <2>2, <2>3 DEF PassInv, KeepAt, TwoBids, Own
  <2>6. ClosedInv'  BY <1>5, <1>7, <2>3 DEF ClosedInv, CloseAt, TwoBids
  <2> QED  BY <2>4, <2>5, <2>6 DEF LeftAlone
<1>12. verdict' = "running"  BY <1>3
<1> QED  BY <1>2, <1>8, <1>9, <1>10, <1>11, <1>12, WentOn DEF Core

LEMMA CheckStatusKeeps ==
    ASSUME RunningInv, CheckStatus PROVE ScriptIInv'
<1> DEFINE openOk == status = "Open"
           settledOk == status = "Settled"
<1>1. \/ kind = "smoke" /\ Check("status", openOk)
      \/ kind = "settle" /\ Last /\ Check("status", settledOk)
      \/ /\ kind = "settle" /\ ~Last /\ At("status")
         /\ step' = IF status \in {"Open", "Revealing"} THEN 2 ELSE 3
         /\ UNCHANGED <<kind, verdict, blame>> /\ UNCHANGED Results /\ UNCHANGED vars
  BY DEF CheckStatus
<1>2. (openOk <=> status = "Open") /\ (settledOk <=> status = "Settled")  OBVIOUS
<1> HIDE DEF openOk, settledOk
<1>3. CASE kind = "smoke" /\ Check("status", openOk)
  <2>1. step = 2 /\ ~Last
    BY <1>3, Checking, Where, Places DEF RunningInv, Last
  <2>2. LeftAlone => openOk
    BY <1>2, <1>3 DEF LeftAlone, StatusInv, NotOpened
  <2>3. CASE openOk  BY <1>3, <2>1, <2>3, CheckHeld
  <2>4. CASE ~openOk  BY <1>3, <2>2, <2>4, Checking, CheckFailed
  <2> QED  BY <2>3, <2>4
<1>4. CASE kind = "settle" /\ Last /\ Check("status", settledOk)
  <2>1. step = 6
    BY <1>4, Places DEF RunningInv, Last
  <2>2. UNCHANGED vars /\ kind' = kind  BY <1>4, Checking
  <2>3. CASE settledOk
    <3>1. verdict' = "passed"  BY <1>4, <2>3, Checking
    <3>2. status = "Settled" /\ vault = 0
      BY <1>2, <2>3 DEF RunningInv, FundsConserved, Final
    <3> QED  BY <1>4, <2>2, <3>1, <3>2, Passed DEF ReportTrue, vars
  <2>4. CASE ~settledOk /\ status = "Voided"
    <3>1. verdict' = "failed"  BY <1>4, <2>4, Checking
    <3> QED  BY <1>4, <2>2, <2>4, <3>1 DEF ScriptIInv, ReportTrue, FailsOnlyForCause, vars
  <2>5. CASE ~settledOk /\ status # "Voided"
    <3>1. ~LeftAlone
      BY <1>2, <1>4, <2>1, <2>5
         DEF LeftAlone, StatusInv, CloseBegun, CloseAt, TwoBids, Closing
    <3> QED  BY <1>4, <2>5, <3>1, Checking, CheckFailed
  <2> QED  BY <2>3, <2>4, <2>5
<1> QED  BY <1>1, <1>3, <1>4, StatusBranchKeeps

----------------------------------------------------------------------------
(* Committing, and the balances read around it *)

(* Before its bids are in a script has opened nothing and called nobody. *)
LEMMA BeforeKeep ==
    ASSUME RunningInv, Here \in {"bid1", "bid2", "before"}
    PROVE  /\ kind \in {"agents", "lifecycle", "keeper", "micro", "smoke"}
           /\ step < KeepAt /\ step \in Nat /\ ~closed.settled /\ ~Retried
           /\ pc[me] = "asleep" /\ claims[me] = {} /\ revealedBy[me] = {} /\ SkippedBy(me) = {}
           /\ status = "Open" => revealed = {}
           /\ LeftAlone => status = "Open"
           /\ faults \in Nat /\ meddled \in Nat
           /\ Here = "bid1" => step = Bid1At
           /\ Here = "bid2" => step = Bid1At + 1 /\ kind \in TwoBids
           /\ Here = "before" => \/ kind = "lifecycle" /\ step = 1
                                 \/ kind = "agents" /\ step = 4
<1> USE DEF RunningInv
<1>1. ScriptTypeOK /\ ChainInv /\ LoopInv(me) /\ KeeperTypeOK
  BY ScriptAssumption DEF IInv, TypeOK
<1>2. /\ kind \in {"agents", "lifecycle", "keeper", "micro", "smoke"}
      /\ step < KeepAt /\ step \in Nat
  BY <1>1, Where DEF KeepAt, Bid1At, TwoBids
<1>3. ~closed.settled /\ ~Retried
  BY <1>2 DEF SeenInv, KeepAt, CloseAt, TwoBids, Closing
<1>4. pc[me] = "asleep" /\ claims[me] = {}  BY DEF CallInv
<1>5. /\ revealedBy[me] = {} /\ SkippedBy(me) = {}
      /\ status = "Open" => revealed = {}
  BY <1>1, <1>4 DEF LoopInv, BeforeLoop, ChainInv
<1>6. LeftAlone => status = "Open"  BY <1>2 DEF LeftAlone, StatusInv, NotOpened
<1>7. faults \in Nat /\ meddled \in Nat
  BY <1>1, ShapeAssumption DEF KeeperTypeOK, ScriptTypeOK
<1> QED  BY <1>1, <1>2, <1>3, <1>4, <1>5, <1>6, <1>7, Where DEF TwoBids

LEMMA ReadBalancesKeeps ==
    ASSUME RunningInv, ReadBalances PROVE ScriptIInv'
<1> USE DEF RunningInv
<1>1. /\ Core /\ ScriptTypeOK /\ ChainInv /\ SeenInv /\ RoundTypeOK
  BY DEF Core, IInv, TypeOK
<1>2. Here = "before" /\ verdict = "running" /\ UNCHANGED vars
      /\ UNCHANGED <<passes, final, closed, blame, meddled>> /\ kind' = kind
      /\ before' = [till |-> till, vault |-> vault, w1 |-> wallet[Own1], w2 |-> wallet[Own2]]
  BY DEF ReadBalances, At, Advance
<1>3. (kind = "lifecycle" /\ step = 1) \/ (kind = "agents" /\ step = 4)  BY <1>2, BeforeKeep
<1>4. ~Last  BY <1>1, <1>3, Places DEF Last
<1>5. step' = step + 1 /\ verdict' = "running"  BY <1>2, <1>4 DEF ReadBalances, Advance
<1>6. Core'  BY <1>1, <1>2, CoreStay
<1>7. /\ UNCHANGED <<pc, claims, revealedBy, skipped, faults>>
      /\ UNCHANGED <<status, bids, revealed, seals, winner, vault, till, wallet, ledger>>
  BY <1>2 DEF vars
<1>8. ScriptTypeOK'
  <2>1. step + 1 \in 1..Len(Plan[kind])
    BY <1>1, <1>4, Places DEF Last, ScriptTypeOK, Kinds
  <2> QED  BY <1>1, <1>2, <1>5, <2>1 DEF ScriptTypeOK
<1>9. CallInv'
  <2>1. pc'[me] = "asleep" /\ claims'[me] = {}  BY <1>2, <1>7, BeforeKeep
  <2> QED  BY <2>1 DEF CallInv, KeepLabels, CloseLabels
<1>10. SeenInv'
  <2>1. status \in Voting => before'.till = 0  BY <1>1, <1>2 DEF ChainInv
  <2> QED
    BY <1>1, <1>2, <1>3, <1>5, <1>7, <2>1, BeforeKeep
       DEF SeenInv, Bid1At, KeepAt, CloseAt, TwoBids, Closing, Retried, FirstBid, SecondBid
<1>11. ASSUME Clean' PROVE LeftAlone'
  <2>1. LeftAlone  BY <1>2, <1>7, <1>11 DEF Clean
  <2>2. status = "Open"  BY <1>2, <2>1, BeforeKeep
  <2>3. SkippedBy(me)' = {} /\ Index' = Index /\ Own' = Own
    BY <1>2, <1>7, BeforeKeep DEF SkippedBy, Index, Own
  <2>4. StatusInv'
    BY <1>2, <1>3, <1>5, <1>7, <2>2, BeforeKeep
       DEF StatusInv, NotOpened, CloseBegun, KeepAt, CloseAt, TwoBids, Closing
  <2>5. ASSUME kind = "lifecycle" PROVE BidsInv'
    <3>1. BidsInv /\ step = 1  BY <1>3, <2>1, <2>5 DEF LeftAlone
    <3>2. vault = 0 /\ Own1 \notin Index /\ Own2 \notin Index
      BY <2>5, <3>1 DEF BidsInv, Bid1At
    <3>3. till = 0 /\ wallet[Own1] = 0 /\ wallet[Own2] = 0
      BY <1>1, <2>2, <3>2, OwnOffers DEF ChainInv, Voting, Index, EscrowOf
    <3> QED
      BY <1>2, <1>5, <1>7, <2>3, <2>5, <3>1, <3>2, <3>3 DEF BidsInv, Bid1At
  <2>6. ASSUME kind = "agents" PROVE BidsInv'
    BY <1>2, <1>3, <1>5, <1>7, <2>1, <2>3, <2>6 DEF LeftAlone, BidsInv, Bid1At
  <2>7. PassInv'
    BY <1>2, <1>3, <1>5, <1>7, <2>2, <2>3, BeforeKeep DEF PassInv, KeepAt, TwoBids
  <2>8. ClosedInv'
    BY <1>2, <1>3, <1>5, <1>7, BeforeKeep DEF ClosedInv, CloseAt, TwoBids
  <2> QED  BY <1>2, <1>3, <2>4, <2>5, <2>6, <2>7, <2>8 DEF LeftAlone
<1> QED  BY <1>5, <1>6, <1>8, <1>9, <1>10, <1>11, WentOn DEF Core

LEMMA CoreCommit ==
    ASSUME Core, NEW b \in Bidder, NEW o \in Offer, Commit(b, o), UNCHANGED keeperVars
    PROVE  Core'
<1>1. [Next]_vars  BY DEF Next, Others, Bidding
<1> QED  BY <1>1, CoreNext

(* The bid is in, and the script at its next place. *)
LEMMA BidPlaced ==
    ASSUME RunningInv, NEW b, NEW o, Commit(b, o), step' = step + 1, verdict' = "running",
           kind' = kind, UNCHANGED blame, UNCHANGED Results, UNCHANGED keeperVars, ~Last,
           \/ Here = "bid1" /\ kind # "micro" /\ b = Own1 /\ o = FirstBid
           \/ Here = "bid2" /\ b = Own2 /\ o = SecondBid
    PROVE  ScriptIInv'
<1> USE DEF RunningInv
<1>1. /\ Core /\ ScriptTypeOK /\ ChainInv /\ SeenInv /\ RoundTypeOK
  BY DEF Core, IInv, TypeOK
<1>2. b \in Bidder /\ o \in Offer /\ {FirstBid, SecondBid} \subseteq Offer
  BY OwnOffers DEF FirstBid, SecondBid
<1>3. Core'  BY <1>1, <1>2, CoreCommit
<1>4. /\ UNCHANGED <<pc, claims, revealedBy, skipped, faults>>
      /\ UNCHANGED <<passes, final, closed, before, meddled>>
  BY DEF keeperVars, Results
<1>5. /\ bids' = [bids EXCEPT ![b] = o] /\ seals' = seals \cup {b}
      /\ vault' = vault - EscrowOf(b) + o.escrow
      /\ status = "Open" /\ UNCHANGED <<status, revealed, ledger>>
  BY DEF Commit, envVars
<1>6. /\ step < KeepAt /\ step \in Nat /\ ~closed.settled /\ ~Retried
      /\ kind \in {"agents", "lifecycle", "keeper", "smoke"}
      /\ pc[me] = "asleep" /\ claims[me] = {} /\ revealedBy[me] = {} /\ SkippedBy(me) = {}
      /\ revealed = {}
      /\ \/ step = Bid1At /\ b = Own1 /\ o = FirstBid
         \/ step = Bid1At + 1 /\ kind \in TwoBids /\ b = Own2 /\ o = SecondBid
  BY <1>5, BeforeKeep DEF TwoBids
<1>7. ScriptTypeOK'
  <2>1. step + 1 \in 1..Len(Plan[kind])
    BY <1>1, Places DEF Last, ScriptTypeOK, Kinds
  <2> QED  BY <1>1, <1>4, <2>1 DEF ScriptTypeOK
<1>8. CallInv'
  <2>1. pc'[me] = "asleep" /\ claims'[me] = {}  BY <1>4, <1>6
  <2> QED  BY <2>1 DEF CallInv, KeepLabels, CloseLabels
<1>9. bids'[b] = o /\ \A c \in Bidder : c # b => bids'[c] = bids[c]
  BY <1>1, <1>2, <1>5 DEF RoundTypeOK
<1>10. SeenInv'
  BY <1>1, <1>4, <1>6, <1>9, OwnOffers
     DEF SeenInv, Bid1At, KeepAt, CloseAt, TwoBids, Closing, Retried, FirstBid, SecondBid
<1>11. ASSUME Clean' PROVE LeftAlone'
  <2>1. LeftAlone  BY <1>4, <1>11 DEF Clean
  <2>2. Index' = Index \cup {b}  BY <1>2, <1>9, OwnOffers DEF Index
  <2>3. SkippedBy(me)' = {} /\ Own' = Own  BY <1>4, <1>6 DEF SkippedBy, Own
  <2>4. StatusInv'
    BY <1>4, <1>5, <1>6 DEF StatusInv, NotOpened, CloseBegun, KeepAt, CloseAt, TwoBids, Closing,
       Bid1At
  <2>5. BidsInv  BY <1>6, <2>1 DEF LeftAlone
  <2>6. b \in Own  BY <1>6 DEF Own, TwoBids
  <2>7. kind = "lifecycle" /\ step <= 4 => vault' = vault + o.escrow
    <3>1. b \notin Index  BY <1>6, <2>5 DEF BidsInv
    <3>2. EscrowOf(b) = 0  BY <1>2, <3>1 DEF Index, EscrowOf
    <3>3. kind = "lifecycle" /\ step <= 4 => vault \in Int
      BY <2>5, OwnOffers DEF BidsInv
    <3> QED  BY <1>5, <3>2, <3>3
  <2>8. kind = "lifecycle" =>
           \/ step = 2 /\ o.escrow = Low.escrow
           \/ step = 3 /\ o.escrow = High.escrow
    BY <1>6 DEF Bid1At, FirstBid, SecondBid
  <2>9. BidsInv'
    <3>1. /\ Index' \subseteq Own
          /\ step' <= Bid1At => Own1 \notin Index'
          /\ step' <= Bid1At + 1 => Own2 \notin Index'
          /\ Index' \subseteq seals' \/ ledger' > RevealDeadline
      BY <1>5, <1>6, <2>2, <2>5, <2>6, OwnOffers DEF BidsInv, Bid1At
    <3>2. kind = "lifecycle" =>
            /\ step' <= 4 => vault' = (IF step' > 2 THEN Low.escrow ELSE 0)
                                      + (IF step' > 3 THEN High.escrow ELSE 0)
            /\ before = [till |-> 0, vault |-> 0, w1 |-> 0, w2 |-> 0]
      BY <1>6, <2>5, <2>7, <2>8, OwnOffers DEF BidsInv
    <3> QED  BY <1>4, <2>3, <3>1, <3>2 DEF BidsInv, Bid1At
  <2>10. PassInv'
    BY <1>4, <1>5, <1>6, <2>3 DEF PassInv, KeepAt, TwoBids
  <2>11. ClosedInv'
    BY <1>4, <1>6 DEF ClosedInv, CloseAt, TwoBids, KeepAt
  <2>12. ~(kind = "keeper" /\ step' = 4)  BY <1>6 DEF KeepAt, TwoBids
  <2> QED  BY <2>4, <2>9, <2>10, <2>11, <2>12 DEF LeftAlone
<1> QED  BY <1>3, <1>7, <1>8, <1>10, <1>11, WentOn DEF Core

LEMMA PlaceBidFails ==
    ASSUME RunningInv, Here \in {"bid1", "bid2"}, verdict' = "failed",
           status # "Open" \/ ledger > CommitDeadline, Blame("late", ledger > CommitDeadline),
           UNCHANGED Results, UNCHANGED keeperVars
    PROVE  ScriptIInv'
<1>1. faults' = faults /\ meddled' = meddled /\ faults' \in Nat /\ meddled' \in Nat
  BY BeforeKeep DEF keeperVars, Results
<1>2. blame \subseteq blame' /\ (ledger > CommitDeadline => blame' # {})  BY DEF Blame
<1>3. ~Clean'
  <2>1. SUFFICES ASSUME Clean' PROVE FALSE  OBVIOUS
  <2>2. Clean  BY <1>1, <1>2, <2>1 DEF Clean
  <2>3. LeftAlone  BY <2>2 DEF RunningInv
  <2> QED  BY <1>2, <2>1, <2>3, BeforeKeep DEF Clean
<1> QED  BY <1>1, <1>3, Caused

LEMMA CommitKeeps ==
    ASSUME RunningInv, CommitFirst \/ CommitSecond PROVE ScriptIInv'
<1>1. PICK b \in {Own1, Own2}, o \in {FirstBid, SecondBid} :
        /\ PlaceBid(b, o) /\ verdict = "running"
        /\ \/ Here = "bid1" /\ kind # "micro" /\ b = Own1 /\ o = FirstBid
           \/ Here = "bid2" /\ b = Own2 /\ o = SecondBid
  BY DEF CommitFirst, CommitSecond, At
<1>2. UNCHANGED Results /\ UNCHANGED keeperVars  BY <1>1 DEF PlaceBid
<1>3. ~Last
  BY <1>1, Where, Places
     DEF RunningInv, Last, Bid1At, TwoBids, ScriptTypeOK, Kinds
<1>4. CASE Commit(b, o) /\ Advance /\ UNCHANGED blame
  <2>1. step' = step + 1 /\ verdict' = "running" /\ kind' = kind
    BY <1>1, <1>3, <1>4 DEF Advance
  <2> QED  BY <1>1, <1>2, <1>3, <1>4, <2>1, BidPlaced
<1>5. CASE /\ status # "Open" \/ ledger > CommitDeadline
           /\ Fail /\ Blame("late", ledger > CommitDeadline)
  <2>1. verdict' = "failed"  BY <1>5 DEF Fail
  <2> QED  BY <1>1, <1>2, <1>5, <2>1, PlaceBidFails
<1> QED  BY <1>1, <1>4, <1>5 DEF PlaceBid

(* The micro runner checks its input and places one bid. *)
LEMMA CommitMicroKeeps ==
    ASSUME RunningInv, CommitMicro PROVE ScriptIInv'
<1>1. Here = "bid1" /\ kind = "micro" /\ Last
  BY Places DEF RunningInv, CommitMicro, At, Last
<1>2. PICK o \in Offer :
        \/ MicroInput(o) /\ PlaceBid(Own1, o)
        \/ /\ ~MicroInput(o) /\ Fail /\ Blame("input", TRUE)
           /\ UNCHANGED Results /\ UNCHANGED vars
  BY DEF CommitMicro
<1>3. CASE MicroInput(o) /\ Commit(Own1, o) /\ Advance
  <2>1. verdict' = "passed" /\ kind' = "micro"  BY <1>1, <1>3 DEF Advance
  <2>2. RoundTypeOK  BY DEF RunningInv, IInv, TypeOK
  <2>3. bids'[Own1] = o  BY <1>3, <2>2, OwnOffers DEF Commit, RoundTypeOK
  <2>4. Eligible(Own1)'  BY <1>3, <2>3, OwnOffers DEF Eligible, MicroInput
  <2> QED  BY <2>1, <2>4, Passed DEF ReportTrue
<1>4. CASE /\ PlaceBid(Own1, o)
           /\ status # "Open" \/ ledger > CommitDeadline
           /\ Fail /\ Blame("late", ledger > CommitDeadline)
  <2>1. verdict' = "failed" /\ UNCHANGED Results /\ UNCHANGED keeperVars
    BY <1>4 DEF Fail, PlaceBid
  <2> QED  BY <1>1, <1>4, <2>1, PlaceBidFails
<1>5. CASE Fail /\ Blame("input", TRUE) /\ UNCHANGED Results /\ UNCHANGED vars
  <2>1. verdict' = "failed" /\ "input" \in blame'  BY <1>5 DEF Fail, Blame
  <2>2. blame \subseteq blame' /\ ~(Clean /\ LeftAlone /\ blame' = {})
    BY <1>5, <2>1 DEF Blame
  <2> QED  BY <1>5, <2>1, <2>2, CheckFailed
<1> QED  BY <1>2, <1>3, <1>4, <1>5 DEF PlaceBid

----------------------------------------------------------------------------
(* Calling the keeper's functions *)

(* Entering and leaving a call: the round is as it was, and so is what the *)
(* script has seen of it. *)
LEMMA StartKeepKeeps ==
    ASSUME RunningInv, StartKeep PROVE ScriptIInv'
<1> USE DEF RunningInv
<1>1. /\ Core /\ ScriptTypeOK /\ SeenInv /\ KeeperTypeOK /\ me \in Keeper
  BY ScriptAssumption DEF Core, IInv, TypeOK
<1>2. /\ verdict = "running" /\ Here \in {"keep", "keepAgain"} /\ UNCHANGED scriptVars
      /\ Goto(me, "keepRound") /\ LoopUnchanged /\ UNCHANGED claims /\ pc[me] = "asleep"
      /\ UNCHANGED <<faults, swept>> /\ UNCHANGED roundVars
  BY DEF StartKeep, Keeping, Read, Proceed
<1>3. Core'  BY <1>1, <1>2, CoreCall
<1>4. pc'[me] = "keepRound"  BY <1>1, <1>2 DEF Goto, KeeperTypeOK
<1>5. UNCHANGED <<kind, step, verdict, passes, final, closed, before, blame, meddled>>
  BY <1>2 DEF scriptVars
<1>6. ScriptTypeOK'  BY <1>1, <1>5 DEF ScriptTypeOK
<1>7. CallInv'
  BY <1>2, <1>4, <1>5 DEF CallInv, KeepLabels, Here
<1>8. SeenInv'
  <2>1. bids' = bids  BY <1>2 DEF roundVars
  <2> QED  BY <1>1, <1>2, <1>5, <2>1, SeenKept DEF Retried
<1>9. ASSUME Clean' PROVE LeftAlone'
  <2>1. LeftAlone  BY <1>2, <1>5, <1>9 DEF Clean
  <2>2. /\ UNCHANGED <<revealedBy, skipped, claims>>
        /\ UNCHANGED <<status, bids, revealed, seals, vault, ledger>>
    BY <1>2 DEF LoopUnchanged, roundVars
  <2>3. kind \in Closing => step < CloseAt /\ step # 10
    BY <1>1, <1>2, Where DEF KeepAt, CloseAt, TwoBids, Closing
  <2>4. kind # "verify" => StatusInv'
    <3>1. step \in Nat /\ CloseAt \in Nat  BY <1>1, Where DEF CloseAt
    <3>2. ~CloseBegun /\ ~CloseBegun'
      BY <1>5, <2>3, <3>1 DEF CloseBegun, Closing, CloseAt, TwoBids
    <3>3. NotOpened' = NotOpened
      BY <1>2, <1>4, <1>5 DEF NotOpened, KeepAt, TwoBids
    <3> QED  BY <1>5, <2>1, <2>2, <3>2, <3>3 DEF LeftAlone, StatusInv
  <2>5. kind \notin {"settle", "verify"} => BidsInv'
    BY <1>5, <2>1, <2>2 DEF LeftAlone, BidsInv, Index, Own, Bid1At
  <2>6. kind \in {"agents", "lifecycle", "keeper", "settle"} => PassInv'
    BY <1>4, <1>5, <2>1, <2>2 DEF LeftAlone, PassInv, Own, SkippedBy, KeepAt, TwoBids
  <2>7. kind = "keeper" /\ step = 4 => AgainInv'
    BY <1>4, <1>5, <2>1, <2>2 DEF LeftAlone, AgainInv, SkippedBy
  <2>8. kind \in Closing => ClosedInv'
    BY <1>4, <1>5, <2>1, <2>2, <2>3 DEF LeftAlone, ClosedInv, CloseAt, TwoBids, Closing
  <2> QED  BY <1>5, <2>4, <2>5, <2>6, <2>7, <2>8 DEF LeftAlone
<1> QED  BY <1>2, <1>3, <1>5, <1>6, <1>7, <1>8, <1>9, WentOn DEF Core

----------------------------------------------------------------------------
(* A pass of keepRound, call by call *)

SameResult ==
    revealedBy'[me] = revealedBy[me] /\ skipped'[me] = skipped[me] /\ claims'[me] = claims[me]
SkipsOne(b, why) ==
    /\ pc'[me] = "nextBidder" /\ revealedBy'[me] = revealedBy[me] /\ claims'[me] = claims[me]
    /\ skipped'[me] = [skipped[me] EXCEPT ![b] = why]

FirstCalls ==
    \/ /\ pc[me] = "keepRound" /\ UNCHANGED <<status, revealed>> /\ SameResult
       /\ \/ pc'[me] = "openReveal" /\ status = "Open"
          \/ pc'[me] = "getBidders" /\ status = "Revealing"
          \/ pc'[me] = "rewatch" /\ status # "Revealing"
    \/ /\ pc[me] = "openReveal" /\ UNCHANGED revealed
       /\ \/ /\ pc'[me] = "reopened" /\ status = "Open" /\ status' = "Revealing"
             /\ revealedBy'[me] = revealedBy[me] /\ skipped'[me] = skipped[me]
          \/ pc'[me] \in {"reopened", "asleep"} /\ OpenRefusals # {}
    \/ /\ pc[me] = "reopened" /\ UNCHANGED <<status, revealed>> /\ SameResult
       /\ \/ pc'[me] = "getBidders" /\ status = "Revealing"
          \/ pc'[me] = "rewatch" /\ status # "Revealing"
    \/ /\ pc[me] = "getBidders" /\ UNCHANGED <<status, revealed>> /\ SameResult
       /\ pc'[me] = "nextBidder"

LoopCalls ==
    \/ /\ pc[me] = "nextBidder" /\ UNCHANGED <<status, revealed>>
       /\ \/ \E b \in todo[me] \cap revealed : SkipsOne(b, "already revealed")
          \/ (\E b \in todo[me] : b \notin revealed) /\ SameResult /\ pc'[me] = "getSeal"
          \/ todo[me] = {} /\ SameResult /\ pc'[me] = "kept"
    \/ /\ pc[me] = "getSeal" /\ UNCHANGED <<status, revealed>>
       /\ \/ /\ current[me] \notin seals \/ bids[current[me]].seal = "garbage"
             /\ \E why \in Reasons : SkipsOne(current[me], why)
          \/ /\ bids[current[me]].seal # "garbage" /\ SameResult /\ pc'[me] = "reveal"
             /\ current'[me] = current[me]
    \/ /\ pc[me] = "reveal" /\ UNCHANGED status
       /\ \/ /\ pc'[me] = "nextBidder" /\ revealed' = revealed \cup {current[me]}
             /\ revealedBy'[me] = revealedBy[me] \cup {current[me]}
             /\ skipped'[me] = skipped[me] /\ claims'[me] = claims[me]
          \/ /\ RevealRefusals(current[me], decrypted[me]) # {} /\ UNCHANGED revealed
             /\ \/ pc'[me] = "asleep"
                \/ \E why \in Reasons : SkipsOne(current[me], why)
    \/ /\ pc[me] = "kept" /\ UNCHANGED <<status, revealed>> /\ SameResult
       /\ pc'[me] = "rewatch"

LEMMA KeepMoves ==
    ASSUME Core, KeepBody, faults' = faults
    PROVE  /\ UNCHANGED <<bids, seals, vault, ledger>>
           /\ FirstCalls \/ LoopCalls
<1>t. KeeperTypeOK /\ me \in Keeper /\ faults \in Nat /\ LoopInv(me)
  BY ScriptAssumption, ShapeAssumption DEF Core, IInv, TypeOK, KeeperTypeOK
<1>f. faults' # faults + 1  BY <1>t
<1>g. \A l : Goto(me, l) => pc'[me] = l  BY <1>t DEF Goto, KeeperTypeOK
<1>s. Sleep(me) => pc'[me] = "asleep"  BY <1>g DEF Sleep
<1>k. ASSUME NEW b \in Bidder, NEW why, SkipBidder(me, b, why)
      PROVE  SkipsOne(b, why)
  BY <1>t, <1>g, <1>k DEF SkipBidder, SkipsOne, KeeperTypeOK
<1>r. ASSUME NEW from, NEW l, l # "asleep", Read(me, from, l)
      PROVE  pc[me] = from /\ pc'[me] = l /\ UNCHANGED roundVars /\ SameResult
  BY <1>t, <1>g, <1>r DEF Read, Proceed, LoopUnchanged, SameResult
<1>u. UNCHANGED roundVars => UNCHANGED <<bids, seals, vault, ledger, status, revealed>>
  BY DEF roundVars
<1>1. CASE KeepRound(me)
  <2>1. \/ Read(me, "keepRound", "openReveal") /\ status = "Open"
        \/ Read(me, "keepRound", "getBidders") /\ status = "Revealing"
        \/ Read(me, "keepRound", "rewatch") /\ status # "Revealing"
    BY <1>1 DEF KeepRound
  <2> QED  BY <1>r, <1>u, <2>1 DEF FirstCalls
<1>2. CASE BeaconNotServed(me)  BY <1>t, <1>2 DEF BeaconNotServed
<1>3. CASE OpenRevealTx(me)
  <2>1. CASE OpenReveal /\ Goto(me, "reopened") /\ LoopUnchanged
    <3>1. /\ UNCHANGED <<bids, seals, vault, ledger, revealed>>
          /\ status = "Open" /\ status' = "Revealing"
      BY <2>1 DEF OpenReveal, envVars
    <3> QED  BY <1>g, <1>3, <2>1, <3>1 DEF OpenRevealTx, LoopUnchanged, FirstCalls
  <2>2. CASE Refused(me, OpenRefusals, IDEMPOTENT_OPEN, "reopened")
    <3>1. pc'[me] \in {"reopened", "asleep"} /\ OpenRefusals # {} /\ UNCHANGED roundVars
      BY <1>g, <1>s, <2>2 DEF Refused, Proceed
    <3> QED  BY <1>3, <1>u, <3>1 DEF OpenRevealTx, FirstCalls
  <2> QED  BY <1>3, <2>1, <2>2 DEF OpenRevealTx
<1>4. CASE Reopened(me)
  <2>1. \/ Read(me, "reopened", "getBidders") /\ status = "Revealing"
        \/ Read(me, "reopened", "rewatch") /\ status # "Revealing"
    BY <1>4 DEF Reopened
  <2> QED  BY <1>r, <1>u, <2>1 DEF FirstCalls
<1>5. CASE GetBidders(me)
  BY <1>g, <1>u, <1>5 DEF GetBidders, SameResult, FirstCalls
<1>6. CASE NextBidder(me)
  <2>1. PICK b \in todo[me] :
          \/ b \in revealed /\ SkipBidder(me, b, "already revealed")
          \/ /\ b \notin revealed /\ Goto(me, "getSeal")
             /\ UNCHANGED <<todo, decrypted, claims, revealedBy, skipped, faults>>
    BY <1>f, <1>6 DEF NextBidder
  <2>2. b \in Bidder  BY <1>t DEF KeeperTypeOK
  <2>3. pc[me] = "nextBidder" /\ UNCHANGED roundVars  BY <1>6 DEF NextBidder
  <2> QED  BY <1>g, <1>k, <1>u, <2>1, <2>2, <2>3 DEF SameResult, LoopCalls
<1>c. pc[me] \in {"getSeal", "reveal"} => current[me] \in Bidder
  BY <1>t DEF LoopInv, KeeperTypeOK
<1>7. CASE GetSeal(me)
  <2>1. pc[me] = "getSeal" /\ current[me] \in Bidder /\ UNCHANGED roundVars
    BY <1>c, <1>7 DEF GetSeal
  <2>2. CASE /\ current[me] \notin seals \/ bids[current[me]].seal = "garbage"
             /\ \E why \in Reasons : SkipBidder(me, current[me], why)
    BY <1>k, <1>u, <2>1, <2>2 DEF LoopCalls
  <2>3. CASE /\ bids[current[me]].seal # "garbage" /\ Goto(me, "reveal")
             /\ UNCHANGED <<todo, current, claims, revealedBy, skipped, faults>>
    BY <1>g, <1>u, <2>1, <2>3 DEF LoopCalls, SameResult
  <2>4. \/ current[me] \notin seals /\ SkipBidder(me, current[me], "seal expired/absent")
        \/ bids[current[me]].seal = "garbage" /\ SkipBidder(me, current[me], "decrypt failed")
        \/ /\ bids[current[me]].seal # "garbage" /\ Goto(me, "reveal")
           /\ UNCHANGED <<todo, current, claims, revealedBy, skipped, faults>>
    BY <1>f, <1>7 DEF GetSeal
  <2> QED  BY <2>2, <2>3, <2>4 DEF Reasons
<1>8. CASE RevealTx(me)
  <2>1. pc[me] = "reveal" /\ current[me] \in Bidder  BY <1>c, <1>8 DEF RevealTx
  <2>2. CASE /\ Reveal(current[me])
             /\ revealedBy' = [revealedBy EXCEPT ![me] = @ \cup {current[me]}]
             /\ Goto(me, "nextBidder") /\ UNCHANGED <<claims, skipped>>
    <3>1. /\ UNCHANGED <<bids, seals, vault, ledger, status>>
          /\ revealed' = revealed \cup {current[me]}
      BY <2>2 DEF Reveal, envVars
    <3>2. revealedBy'[me] = revealedBy[me] \cup {current[me]}
      BY <1>t, <2>2 DEF KeeperTypeOK
    <3> QED  BY <1>g, <2>1, <2>2, <3>1, <3>2 DEF LoopCalls
  <2>3. CASE /\ RevealRefusals(current[me], decrypted[me]) # {} /\ UNCHANGED roundVars
             /\ Sleep(me) \/ \E why \in Reasons : SkipBidder(me, current[me], why)
    BY <1>k, <1>s, <1>u, <2>1, <2>3 DEF LoopCalls
  <2> QED  BY <1>8, <2>2, <2>3 DEF RevealTx, Reasons
<1>9. CASE LoopDone(me)
  BY <1>g, <1>u, <1>9 DEF LoopDone, LoopUnchanged, SameResult, LoopCalls
<1>10. CASE Kept(me)  BY <1>r, <1>u, <1>10 DEF Kept, LoopCalls
<1> QED
  BY <1>1, <1>2, <1>3, <1>4, <1>5, <1>6, <1>7, <1>8, <1>9, <1>10 DEF KeepBody

LEMMA KeepAny ==
    ASSUME Core, KeepBody
    PROVE  /\ bids' = bids /\ (UNCHANGED roundVars \/ RoundStep)
           /\ pc'[me] \in KeepLabels \ {"keepRound"}
           /\ faults' \in Nat /\ (faults' = faults \/ faults' = faults + 1)
           /\ Core'
<1>t. KeeperTypeOK /\ me \in Keeper /\ faults \in Nat /\ LoopInv(me)
  BY ScriptAssumption, ShapeAssumption DEF Core, IInv, TypeOK, KeeperTypeOK
<1>g. \A l : Goto(me, l) => pc'[me] = l  BY <1>t DEF Goto, KeeperTypeOK
<1>s. \A b, why : SkipBidder(me, b, why) => pc'[me] = "nextBidder"  BY <1>g DEF SkipBidder
<1>z. Sleep(me) => pc'[me] = "asleep"  BY <1>g DEF Sleep
<1>n. [Next]_vars
  <2>1. ~Waits /\ KeepRound(me) => KeeperStep(me)  BY DEF KeeperStep
  <2>2. KeeperStep(me) \/ BeaconNotServed(me)  BY <2>1 DEF KeepBody, KeeperStep
  <2> QED  BY <1>t, <2>2 DEF Next
<1>c. Core' /\ (UNCHANGED roundVars \/ RoundStep)  BY <1>n, CoreNext
<1>1. faults' = faults \/ faults' = faults + 1
  BY DEF KeepBody, KeepRound, BeaconNotServed, OpenRevealTx, Reopened, GetBidders, NextBidder,
         GetSeal, RevealTx, LoopDone, Kept, Read, Refused
<1>2. bids' = bids
  BY DEF KeepBody, KeepRound, BeaconNotServed, OpenRevealTx, Reopened, GetBidders, NextBidder,
         GetSeal, RevealTx, LoopDone, Kept, Read, Refused, roundVars, OpenReveal, Reveal
<1>3. CASE faults' = faults
  <2>1. CASE FirstCalls  BY <1>t, <1>2, <1>3, <1>c, <2>1 DEF FirstCalls, KeepLabels
  <2>2. CASE LoopCalls
    <3>1. pc'[me] \in {"nextBidder", "getSeal", "reveal", "kept", "rewatch", "asleep"}
      BY <2>2 DEF LoopCalls, SkipsOne
    <3> QED  BY <1>t, <1>2, <1>3, <1>c, <3>1 DEF KeepLabels
  <2> QED  BY <1>3, <2>1, <2>2, KeepMoves
<1>4. CASE faults' = faults + 1
  <2>0. faults' # faults  BY <1>t, <1>4
  <2>1. BeaconNotServed(me) \/ NextBidder(me) \/ GetSeal(me)
    BY <2>0 DEF KeepBody, KeepRound, OpenRevealTx, Reopened, GetBidders, RevealTx,
       LoopDone, Kept, Read, Refused
  <2>2. pc'[me] \in {"rewatch", "nextBidder"}
    <3>1. CASE BeaconNotServed(me)  BY <1>g, <3>1 DEF BeaconNotServed
    <3>2. CASE NextBidder(me)  BY <1>s, <2>0, <3>2 DEF NextBidder
    <3>3. CASE GetSeal(me)  BY <1>s, <2>0, <3>3 DEF GetSeal
    <3> QED  BY <2>1, <3>1, <3>2, <3>3
  <2> QED  BY <1>t, <1>1, <1>2, <1>c, <2>2 DEF KeepLabels
<1> QED  BY <1>1, <1>3, <1>4

(* The bids of an undisturbed run are the script's own, well sealed. *)
LEMMA OwnSeals ==
    ASSUME RunningInv, LeftAlone, kind \in {"agents", "lifecycle", "keeper"}, step >= KeepAt
    PROVE  /\ \A b \in Index : bids[b].seal = "good"
           /\ Index = Own
<1>1. Index \subseteq Own  BY DEF LeftAlone, BidsInv
<1>2. bids[Own1] = FirstBid /\ (kind \in TwoBids => bids[Own2] = SecondBid)
  BY Places DEF RunningInv, SeenInv, Bid1At, KeepAt, TwoBids, ScriptTypeOK
<1>3. Own = IF kind = "keeper" THEN {Own1} ELSE {Own1, Own2}  BY DEF Own
<1>4. FirstBid.seal = "good" /\ SecondBid.seal = "good" /\ {FirstBid, SecondBid} \subseteq Offer
  BY ScriptAssumption DEF FirstBid, SecondBid
<1>5. \A b \in Own : bids[b].seal = "good" /\ b \in Index
  BY <1>2, <1>3, <1>4, OwnOffers DEF Index, TwoBids
<1> QED  BY <1>1, <1>5

(* An undisturbed first pass opens the round and reveals it all; only a    *)
(* bid that opens to something else than it committed stops it. *)
LEMMA FirstPass ==
    ASSUME RunningInv, LeftAlone, Here = "keep", KeepBody, faults' = faults,
           ~(ledger > RevealDeadline), ~(pc'[me] = "rewatch" /\ status = "Open")
    PROVE  /\ pc'[me] = "asleep" =>
                 kind = "settle" /\ \E b \in Index : bids[b].seal = "mismatch"
           /\ pc'[me] # "asleep" =>
                 /\ status' = IF pc'[me] = "openReveal" THEN "Open" ELSE "Revealing"
                 /\ revealed' = revealedBy'[me]
                 /\ pc'[me] = "rewatch" => status = "Revealing"
                 /\ pc'[me] = "reveal" => bids'[current'[me]].seal # "garbage"
                 /\ Own # {} => /\ SkippedBy(me)' = {}
                                /\ pc'[me] = "rewatch" => revealed' = Index
<1> USE DEF RunningInv
<1>1. /\ Core /\ ScriptTypeOK /\ RoundTypeOK /\ KeeperTypeOK /\ me \in Keeper /\ LoopInv(me)
  BY ScriptAssumption DEF Core, IInv, TypeOK
<1>2. step = KeepAt /\ kind \in TwoBids \cup {"keeper", "settle"}  BY <1>1, Where
<1>3. FirstCalls \/ LoopCalls  BY <1>1, KeepMoves
<1>4. UNCHANGED <<bids, seals, vault, ledger>>  BY <1>1, KeepMoves
<1>5. PassInv /\ StatusInv  BY <1>2 DEF LeftAlone, TwoBids
<1>6. /\ revealed = revealedBy[me]
      /\ pc[me] = "reveal" => bids[current[me]].seal # "garbage"
      /\ Own # {} => SkippedBy(me) = {}
  BY <1>2, <1>5 DEF PassInv
<1>7. status = IF pc[me] \in {"asleep", "keepRound", "openReveal"} THEN "Open" ELSE "Revealing"
  <2>1. ~CloseBegun
    BY <1>2, Where, <1>1 DEF CloseBegun, KeepAt, CloseAt, TwoBids, Closing
  <2>2. NotOpened <=> pc[me] \in {"asleep", "keepRound", "openReveal"}
    BY <1>1, <1>2, Where DEF NotOpened, KeepAt, TwoBids
  <2> QED  BY <1>5, <2>1, <2>2 DEF StatusInv
<1>8. Own # {} => kind \in {"agents", "lifecycle", "keeper"}
  BY <1>1, <1>2, Own0 DEF TwoBids
<1>9. CASE FirstCalls
  <2>1. pc[me] = "openReveal" => OpenRefusals = {}
    BY <1>1, <1>7, TimeAssumption DEF OpenRefusals, Unless, RoundTypeOK
  <2>2. revealedBy'[me] = revealedBy[me] /\ skipped'[me] = skipped[me] /\ revealed' = revealed
    BY <1>9, <2>1 DEF FirstCalls, SameResult
  <2>3. SkippedBy(me)' = SkippedBy(me)  BY <2>2 DEF SkippedBy
  <2>4. /\ pc'[me] \in {"openReveal", "getBidders", "reopened", "nextBidder"}
        /\ status' = IF pc'[me] = "openReveal" THEN "Open" ELSE "Revealing"
    BY <1>7, <1>9, <2>1 DEF FirstCalls
  <2> QED  BY <1>6, <2>2, <2>3, <2>4
<1>10. CASE LoopCalls
  <2>1. pc[me] \in {"nextBidder", "getSeal", "reveal", "kept"} /\ status = "Revealing"
        /\ status' = "Revealing"
    BY <1>7, <1>10 DEF LoopCalls
  <2>2. /\ todo[me] \cup revealedBy[me] \cup SkippedBy(me) = Index
        /\ todo[me] \cap revealedBy[me] = {}
        /\ pc[me] \in {"getSeal", "reveal"} => current[me] \in todo[me]
        /\ pc[me] = "reveal" => decrypted[me] = (bids[current[me]].seal = "good")
        /\ pc[me] = "kept" => todo[me] = {}
    BY <1>1, <2>1 DEF LoopInv, InLoop
  <2>3. todo[me] \cap revealed = {}  BY <1>6, <2>2
  <2>4. Own # {} => \A b \in todo[me] : bids[b].seal = "good" /\ b \in seals
    <3>1. Index \subseteq seals \/ kind = "settle"
      BY <1>2, <1>8 DEF LeftAlone, BidsInv, TwoBids
    <3> QED  BY <1>1, <1>2, <1>8, <2>2, <3>1, OwnSeals, Where DEF KeepAt
  <2>5. pc[me] = "reveal" /\ bids[current[me]].seal = "good" =>
          RevealRefusals(current[me], decrypted[me]) = {}
    <3>1. pc[me] = "reveal" /\ bids[current[me]].seal = "good" => decrypted[me] = TRUE
      BY <2>2
    <3>2. ledger <= RevealDeadline  BY <1>1, TimeAssumption DEF RoundTypeOK
    <3>3. pc[me] = "reveal" => current[me] \notin revealed  BY <2>2, <2>3
    <3> QED  BY <2>1, <3>1, <3>2, <3>3 DEF RevealRefusals, Unless
  <2>6. pc[me] = "reveal" /\ bids[current[me]].seal # "good" =>
          /\ kind = "settle" /\ current[me] \in Index
          /\ bids[current[me]].seal = "mismatch"
    <3>1. SUFFICES ASSUME pc[me] = "reveal", bids[current[me]].seal # "good"
          PROVE  /\ kind = "settle" /\ current[me] \in Index
                 /\ bids[current[me]].seal = "mismatch"
      OBVIOUS
    <3>2. current[me] \in Index /\ current[me] \in todo[me]  BY <2>2, <3>1
    <3>3. kind = "settle"  BY <1>1, <1>2, <2>4, <3>1, <3>2, Own0 DEF TwoBids
    <3>4. bids[current[me]] \in Offer  BY <1>1, <3>2 DEF RoundTypeOK, Index
    <3>5. bids[current[me]].seal \in SealKinds  BY <3>4, OfferAssumption
    <3> QED  BY <1>6, <3>1, <3>2, <3>3, <3>5 DEF SealKinds
  <2>7. CASE pc[me] = "nextBidder"
    <3>1. UNCHANGED revealed /\ SameResult /\ pc'[me] \in {"getSeal", "kept"}
      BY <1>10, <2>3, <2>7 DEF LoopCalls
    <3>2. SkippedBy(me)' = SkippedBy(me)  BY <3>1 DEF SkippedBy, SameResult
    <3> QED  BY <1>6, <2>1, <3>1, <3>2 DEF SameResult
  <2>8. CASE pc[me] = "getSeal"
    <3>1. CASE /\ current[me] \notin seals \/ bids[current[me]].seal = "garbage"
               /\ \E why \in Reasons : SkipsOne(current[me], why)
      <4>1. Own = {}  BY <2>2, <2>4, <2>8, <3>1
      <4>2. UNCHANGED revealed /\ revealedBy'[me] = revealedBy[me] /\ pc'[me] = "nextBidder"
        BY <1>10, <2>8, <3>1 DEF LoopCalls, SkipsOne
      <4> QED  BY <1>6, <2>1, <4>1, <4>2
    <3>2. CASE /\ bids[current[me]].seal # "garbage" /\ SameResult /\ pc'[me] = "reveal"
               /\ current'[me] = current[me]
      <4>1. UNCHANGED revealed  BY <1>10, <2>8 DEF LoopCalls
      <4>2. SkippedBy(me)' = SkippedBy(me)  BY <3>2 DEF SkippedBy, SameResult
      <4> QED  BY <1>4, <1>6, <2>1, <3>2, <4>1, <4>2 DEF SameResult
    <3> QED  BY <1>10, <2>8, <3>1, <3>2 DEF LoopCalls
  <2>9. CASE pc[me] = "reveal"
    <3>1. CASE /\ pc'[me] = "nextBidder" /\ revealed' = revealed \cup {current[me]}
               /\ revealedBy'[me] = revealedBy[me] \cup {current[me]}
               /\ skipped'[me] = skipped[me] /\ claims'[me] = claims[me]
      <4>1. SkippedBy(me)' = SkippedBy(me)  BY <3>1 DEF SkippedBy
      <4> QED  BY <1>6, <2>1, <3>1, <4>1
    <3>2. CASE /\ RevealRefusals(current[me], decrypted[me]) # {} /\ UNCHANGED revealed
               /\ \/ pc'[me] = "asleep"
                  \/ \E why \in Reasons : SkipsOne(current[me], why)
      <4>1. /\ kind = "settle" /\ current[me] \in Index
            /\ bids[current[me]].seal = "mismatch"
        BY <2>5, <2>6, <2>9, <3>2
      <4>2. Own = {}  BY <1>1, <4>1, Own0
      <4>3. pc'[me] # "asleep" => pc'[me] = "nextBidder" /\ revealedBy'[me] = revealedBy[me]
        BY <3>2 DEF SkipsOne
      <4> QED  BY <1>6, <2>1, <3>2, <4>1, <4>2, <4>3
    <3> QED  BY <1>10, <2>9, <3>1, <3>2 DEF LoopCalls
  <2>10. CASE pc[me] = "kept"
    <3>1. UNCHANGED revealed /\ SameResult /\ pc'[me] = "rewatch"
      BY <1>10, <2>10 DEF LoopCalls
    <3>2. SkippedBy(me)' = SkippedBy(me)  BY <3>1 DEF SkippedBy, SameResult
    <3>3. Own # {} => revealedBy[me] = Index  BY <1>6, <2>2, <2>10
    <3> QED  BY <1>6, <2>1, <3>1, <3>2, <3>3 DEF SameResult
  <2> QED  BY <2>1, <2>7, <2>8, <2>9, <2>10
<1> QED  BY <1>3, <1>9, <1>10

(* An undisturbed second pass finds the bid revealed and does nothing. *)
LEMMA SecondPass ==
    ASSUME RunningInv, LeftAlone, kind = "keeper", step = 4, KeepBody, faults' = faults
    PROVE  /\ pc'[me] # "asleep" /\ status' = "Revealing" /\ revealed' = revealed
           /\ claims'[me] = {} /\ revealedBy'[me] = {}
           /\ pc'[me] \notin {"openReveal", "reopened", "getSeal", "reveal"}
           /\ \A b \in SkippedBy(me)' : skipped'[me][b] = "already revealed"
           /\ pc'[me] = "rewatch" => Own1 \in SkippedBy(me)'
<1> USE DEF RunningInv
<1>1. /\ Core /\ ScriptTypeOK /\ KeeperTypeOK /\ me \in Keeper /\ LoopInv(me)
  BY ScriptAssumption DEF Core, IInv, TypeOK
<1>2. FirstCalls \/ LoopCalls  BY <1>1, KeepMoves
<1>3. /\ AgainInv /\ StatusInv /\ Own1 \in revealed
  BY DEF LeftAlone, PassInv, KeepAt, TwoBids
<1>4. status = "Revealing"
  BY <1>3 DEF StatusInv, NotOpened, CloseBegun, KeepAt, TwoBids, Closing
<1>5. Index = {Own1}  BY OwnSeals DEF KeepAt, TwoBids, Own
<1>6. /\ claims[me] = {} /\ revealedBy[me] = {}
      /\ pc[me] \notin {"openReveal", "reopened", "getSeal", "reveal"}
      /\ \A b \in SkippedBy(me) : skipped[me][b] = "already revealed"
  BY <1>3 DEF AgainInv
<1>7. /\ pc[me] \in InLoop => todo[me] \cup revealedBy[me] \cup SkippedBy(me) = Index
      /\ pc[me] = "kept" => todo[me] = {}
  BY <1>1 DEF LoopInv
<1>8. CASE /\ UNCHANGED <<status, revealed>> /\ SameResult
           /\ \/ pc'[me] \in {"getBidders", "nextBidder"}
              \/ pc[me] = "nextBidder" /\ pc'[me] = "kept"
              \/ pc[me] = "kept" /\ pc'[me] = "rewatch"
  <2>1. SkippedBy(me)' = SkippedBy(me)  BY <1>8 DEF SkippedBy, SameResult
  <2>2. pc[me] = "kept" => Own1 \in SkippedBy(me)  BY <1>5, <1>6, <1>7 DEF InLoop
  <2> QED  BY <1>4, <1>6, <1>8, <2>1, <2>2 DEF SameResult
<1>9. CASE /\ UNCHANGED <<status, revealed>>
           /\ \E b \in todo[me] : SkipsOne(b, "already revealed")
  <2>1. PICK b \in todo[me] : SkipsOne(b, "already revealed")  BY <1>9
  <2>2. b \in Bidder /\ skipped[me] \in [Bidder -> Reasons]  BY <1>1 DEF KeeperTypeOK
  <2>3. \A c \in Bidder : skipped'[me][c] = IF c = b THEN "already revealed" ELSE skipped[me][c]
    BY <2>1, <2>2 DEF SkipsOne
  <2>4. \A c \in SkippedBy(me)' : skipped'[me][c] = "already revealed"
    BY <1>6, <2>3 DEF SkippedBy
  <2> QED  BY <1>4, <1>6, <1>9, <2>1, <2>4 DEF SkipsOne
<1>10. CASE FirstCalls  BY <1>4, <1>6, <1>8, <1>10 DEF FirstCalls
<1>11. CASE LoopCalls
  <2>1. pc[me] = "nextBidder" => \A b \in todo[me] : b \in revealed
    BY <1>3, <1>5, <1>7 DEF InLoop
  <2> QED  BY <1>6, <1>8, <1>9, <1>11, <2>1 DEF LoopCalls
<1> QED  BY <1>2, <1>10, <1>11

(* The pass goes on. *)
LEMMA PassKept ==
    ASSUME RunningInv, LeftAlone, Here \in {"keep", "keepAgain"}, KeepBody, faults' = faults,
           ~(ledger > RevealDeadline), ~(pc'[me] = "rewatch" /\ status = "Open"),
           pc'[me] # "asleep", final' = IF pc'[me] = "rewatch" THEN status ELSE final,
           UNCHANGED <<kind, step, passes, closed, before, meddled>>
    PROVE  LeftAlone'
<1> USE DEF RunningInv
<1>1. /\ Core /\ ScriptTypeOK  BY DEF Core
<1>2. /\ kind \in TwoBids \cup {"keeper", "settle"} /\ step \in Nat
      /\ step = KeepAt \/ (kind = "keeper" /\ step = 4)
      /\ step = KeepAt <=> Here = "keep"
  BY <1>1, Where DEF KeepAt, TwoBids
<1>3. UNCHANGED <<bids, seals, vault, ledger>> /\ revealed \subseteq revealed'
  <2>1. UNCHANGED <<bids, seals, vault, ledger>>  BY <1>1, KeepMoves
  <2>2. RoundTypeOK /\ ChainInv /\ (UNCHANGED roundVars \/ RoundStep)
    BY <1>1, KeepAny DEF Core, IInv, TypeOK
  <2> QED  BY <2>1, <2>2, Onward
<1>4. Index' = Index /\ Own' = Own  BY <1>3 DEF Index, Own
<1>5. pc'[me] \in KeepLabels \ {"keepRound"}  BY <1>1, KeepAny
<1>6. /\ ~CloseBegun'
      /\ kind \in Closing => step < CloseAt /\ step # 10
      /\ NotOpened' <=> step = KeepAt /\ pc'[me] = "openReveal"
  BY <1>2, <1>5 DEF CloseBegun, NotOpened, KeepAt, CloseAt, TwoBids, Closing
<1>7. BidsInv => BidsInv'  BY <1>3, <1>4 DEF BidsInv, Bid1At
<1>8. kind \in Closing => ClosedInv'
  BY <1>2, <1>6 DEF ClosedInv, CloseAt, KeepAt, TwoBids, Closing
<1>9. CASE step = KeepAt
  <2>1. /\ status' = IF pc'[me] = "openReveal" THEN "Open" ELSE "Revealing"
        /\ revealed' = revealedBy'[me]
        /\ pc'[me] = "rewatch" => status = "Revealing"
        /\ pc'[me] = "reveal" => bids'[current'[me]].seal # "garbage"
        /\ Own # {} => SkippedBy(me)' = {} /\ (pc'[me] = "rewatch" => revealed' = Index)
    BY <1>2, <1>9, FirstPass
  <2>2. StatusInv'  BY <1>6, <1>9, <2>1 DEF StatusInv
  <2>3. PassInv'
    BY <1>2, <1>4, <1>9, <2>1 DEF PassInv, KeepAt, TwoBids
  <2>4. ~(kind = "keeper" /\ step = 4)  BY <1>9 DEF KeepAt, TwoBids
  <2> QED  BY <1>7, <1>8, <2>2, <2>3, <2>4 DEF LeftAlone
<1>10. CASE kind = "keeper" /\ step = 4
  <2>1. /\ status' = "Revealing" /\ revealed' = revealed
        /\ claims'[me] = {} /\ revealedBy'[me] = {}
        /\ pc'[me] \notin {"openReveal", "reopened", "getSeal", "reveal"}
        /\ \A b \in SkippedBy(me)' : skipped'[me][b] = "already revealed"
        /\ pc'[me] = "rewatch" => Own1 \in SkippedBy(me)'
    BY <1>10, SecondPass
  <2>2. StatusInv'  BY <1>6, <1>10, <2>1 DEF StatusInv, KeepAt, TwoBids
  <2>3. PassInv'
    <3>1. KeepAt = 2 /\ KeepAt' = 2  BY <1>10 DEF KeepAt, TwoBids
    <3>2. Own1 \in revealed  BY <1>10, <3>1 DEF LeftAlone, PassInv
    <3>3. step' # KeepAt'  BY <1>10, <3>1
    <3>4. Own1 \in revealed'  BY <2>1, <3>2
    <3> QED  BY ONLY <3>3, <3>4 DEF PassInv
  <2>4. AgainInv'  BY <2>1 DEF AgainInv
  <2>5. BidsInv'  BY <1>7, <1>10 DEF LeftAlone
  <2>6. ~(kind \in Closing)  BY <1>10 DEF Closing
  <2> QED  BY <1>10, <2>2, <2>3, <2>4, <2>5, <2>6 DEF LeftAlone, Closing
<1> QED  BY <1>2, <1>9, <1>10

LEMMA KeepStepKeeps ==
    ASSUME RunningInv, KeepStep PROVE ScriptIInv'
<1> USE DEF RunningInv
<1>1. /\ Core /\ ScriptTypeOK /\ SeenInv  BY DEF Core
<1>2. /\ verdict = "running" /\ Here \in {"keep", "keepAgain"} /\ KeepBody
      /\ final' = IF pc'[me] = "rewatch" THEN status ELSE final
      /\ IF pc'[me] = "asleep" THEN Fail ELSE UNCHANGED <<kind, step, verdict>>
      /\ UNCHANGED <<passes, closed, before, meddled>>
  BY DEF KeepStep, Keeping
<1>3. /\ blame \subseteq blame' /\ blame' \subseteq blame \cup {"late", "drand"}
      /\ blame' = {} => ~(ledger > RevealDeadline) /\ ~(pc'[me] = "rewatch" /\ status = "Open")
  BY DEF KeepStep
<1>4. /\ bids' = bids /\ (UNCHANGED roundVars \/ RoundStep)
      /\ pc'[me] \in KeepLabels \ {"keepRound"}
      /\ faults' \in Nat /\ (faults' = faults \/ faults' = faults + 1) /\ Core'
  BY <1>1, <1>2, KeepAny
<1>5. faults \in Nat /\ meddled \in Nat
  BY <1>1, ShapeAssumption DEF Core, IInv, TypeOK, KeeperTypeOK, ScriptTypeOK
<1>6. ASSUME Clean' PROVE LeftAlone /\ blame' = {} /\ faults' = faults
  <2>1. blame' = {} /\ faults' = 0 /\ meddled' = 0  BY <1>6 DEF Clean
  <2>2. Clean  BY <1>2, <1>3, <1>4, <1>5, <2>1 DEF Clean
  <2> QED  BY <1>4, <1>5, <2>1, <2>2 DEF Clean
<1>7. CASE pc'[me] = "asleep"
  <2>1. verdict' = "failed" /\ kind' = kind  BY <1>2, <1>7 DEF Fail
  <2>2. CASE ~Clean'  BY <1>2, <1>4, <1>5, <2>1, <2>2, Caused
  <2>3. CASE Clean'
    <3>1. LeftAlone /\ blame' = {} /\ faults' = faults  BY <1>6, <2>3
    <3>2. Here = "keep"
      <4>1. ASSUME Here = "keepAgain" PROVE FALSE
        <5>1. kind = "keeper" /\ step = 4  BY <1>1, <4>1, Where
        <5> QED  BY <1>2, <1>7, <3>1, <5>1, SecondPass
      <4> QED  BY <1>2, <4>1
    <3>3. kind = "settle" /\ \E b \in Index : bids[b].seal = "mismatch"
      BY <1>2, <1>3, <1>7, <3>1, <3>2, FirstPass
    <3>4. Index' = Index  BY <1>4 DEF Index
    <3> QED
      BY <1>4, <2>1, <3>3, <3>4 DEF ScriptIInv, ReportTrue, FailsOnlyForCause
  <2> QED  BY <2>2, <2>3
<1>8. CASE pc'[me] # "asleep"
  <2>1. UNCHANGED <<kind, step, verdict>>  BY <1>2, <1>8
  <2>2. ScriptTypeOK'
    <3>1. status \in Statuses  BY <1>1 DEF Core, IInv, TypeOK, RoundTypeOK
    <3> QED  BY <1>1, <1>2, <1>3, <2>1, <3>1 DEF ScriptTypeOK
  <2>3. CallInv'
    BY <1>2, <1>4, <1>8, <2>1 DEF CallInv, KeepLabels, Here
  <2>4. SeenInv'  BY <1>1, <1>2, <1>4, <2>1, SeenKept DEF Retried
  <2>5. ASSUME Clean' PROVE LeftAlone'
    <3>1. LeftAlone /\ blame' = {} /\ faults' = faults  BY <1>6, <2>5
    <3> QED  BY <1>2, <1>3, <1>8, <2>1, <3>1, PassKept
  <2> QED  BY <1>2, <1>4, <2>1, <2>2, <2>3, <2>4, <2>5, WentOn DEF Core
<1> QED  BY <1>7, <1>8

----------------------------------------------------------------------------
(* What a pass that returned is good for *)

(* The facts of a return, whether the script tries again or not. *)
LEMMA Returned ==
    ASSUME RunningInv, NEW again, KeepReturned(again)
    PROVE  /\ Here \in {"keep", "keepAgain"} /\ verdict = "running" /\ pc[me] = "rewatch"
           /\ UNCHANGED <<final, closed, before, blame, meddled, faults>> /\ UNCHANGED roundVars
           /\ Core' /\ pc'[me] = "asleep" /\ claims'[me] = {} /\ revealedBy'[me] = {}
           /\ SkippedBy(me)' = {}
           /\ faults \in Nat /\ meddled \in Nat
<1> USE DEF RunningInv
<1>1. Core /\ KeeperTypeOK /\ me \in Keeper /\ ScriptTypeOK
  BY ScriptAssumption DEF Core, IInv, TypeOK
<1>2. /\ Here \in {"keep", "keepAgain"} /\ verdict = "running" /\ pc[me] = "rewatch"
      /\ UNCHANGED <<final, closed, before, blame, meddled, faults, swept>>
      /\ UNCHANGED roundVars /\ Sleep(me)
  BY DEF KeepReturned, Keeping
<1>3. Core'  BY <1>1, <1>2, CoreCall
<1>4. pc'[me] = "asleep" /\ claims'[me] = {}
  BY <1>1, <1>2 DEF Sleep, Goto, KeeperTypeOK
<1>5. revealedBy'[me] = {} /\ SkippedBy(me)' = {}
  <2>1. LoopInv(me)'  BY <1>1, <1>2, SleepLoop
  <2> QED  BY <1>4, <2>1 DEF LoopInv, BeforeLoop
<1>6. faults \in Nat /\ meddled \in Nat
  BY <1>1, ShapeAssumption DEF KeeperTypeOK, ScriptTypeOK
<1> QED  BY <1>2, <1>3, <1>4, <1>5, <1>6

(* A pass is repeated only when Drand was late. *)
LEMMA RepassKeeps ==
    ASSUME RunningInv, Repass PROVE ScriptIInv'
<1> USE DEF RunningInv
<1> DEFINE again == TRUE
<1>1. KeepReturned(again) /\ final = "Open" /\ passes < MaxPasses /\ Here = "keep"
  BY DEF Repass
<1>2. passes' = passes + 1 /\ UNCHANGED <<kind, step, verdict>>  BY <1>1 DEF KeepReturned
<1> HIDE DEF again
<1>3. /\ verdict = "running" /\ pc[me] = "rewatch"
      /\ UNCHANGED <<final, closed, before, blame, meddled, faults>> /\ UNCHANGED roundVars
      /\ Core' /\ pc'[me] = "asleep" /\ claims'[me] = {}
  BY <1>1, Returned
<1>4. Core /\ ScriptTypeOK /\ SeenInv  BY DEF Core
<1>5. ScriptTypeOK'  BY <1>2, <1>3, <1>4 DEF ScriptTypeOK
<1>6. CallInv'  BY <1>3 DEF CallInv, KeepLabels, CloseLabels
<1>7. SeenInv'
  <2>1. bids' = bids  BY <1>3 DEF roundVars
  <2>2. ~Retried'
    BY <1>1, <1>2, <1>4, ScriptAssumption DEF Retried, ScriptTypeOK
  <2> QED  BY <1>2, <1>3, <1>4, <2>1, <2>2, SeenKept
<1>8. ~Clean'
  <2>1. SUFFICES ASSUME Clean' PROVE FALSE  OBVIOUS
  <2>2. Clean  BY <1>3, <2>1 DEF Clean
  <2>3. kind \in TwoBids \cup {"keeper", "settle"} /\ step = KeepAt  BY <1>1, <1>4, Where
  <2>4. final = "Revealing"
    BY <1>3, <2>2, <2>3 DEF LeftAlone, PassInv, TwoBids
  <2> QED  BY <1>1, <2>4
<1> QED  BY <1>2, <1>3, <1>5, <1>6, <1>7, <1>8, WentOn DEF Core

(* An undisturbed pass is accepted. *)
LEMMA PassGood ==
    ASSUME RunningInv, LeftAlone, Here \in {"keep", "keepAgain"}, pc[me] = "rewatch"
    PROVE  PassAccepted
<1> USE DEF RunningInv
<1>1. ScriptTypeOK  OBVIOUS
<1>2. CASE Here = "keep"
  <2>1. kind \in TwoBids \cup {"keeper", "settle"} /\ step = KeepAt /\ step \in Nat
    BY <1>1, <1>2, Where
  <2>2. PassInv  BY <2>1 DEF LeftAlone, TwoBids
  <2>3. final = "Revealing" /\ revealed = revealedBy[me]  BY <2>1, <2>2 DEF PassInv
  <2>4. ASSUME kind # "settle" PROVE Own = revealedBy[me]
    <3>1. Own # {}  BY <1>1, <2>1, <2>4, Own0 DEF TwoBids
    <3>2. revealed = Index  BY <2>1, <2>2, <3>1 DEF PassInv
    <3>3. Index = Own  BY <2>1, <2>4, OwnSeals DEF TwoBids
    <3> QED  BY <2>3, <3>2, <3>3
  <2>5. CASE kind \in TwoBids  BY <2>4, <2>5 DEF TwoBids, PassAccepted, AllRevealed
  <2>6. CASE kind = "keeper"
    <3>1. Own1 \in Own  BY <2>6 DEF Own
    <3>2. KeeperPass  BY <2>3, <2>4, <2>6, <3>1 DEF KeeperPass
    <3> QED  BY <1>2, <2>6, <3>2 DEF PassAccepted
  <2>7. CASE kind = "settle"  BY <2>3, <2>7 DEF PassAccepted
  <2> QED  BY <2>1, <2>5, <2>6, <2>7
<1>3. CASE Here = "keepAgain"
  <2>1. kind = "keeper" /\ step = 4  BY <1>1, <1>3, Where
  <2>2. AgainInv  BY <2>1 DEF LeftAlone
  <2>3. KeeperPassAgain  BY <2>2 DEF AgainInv, KeeperPassAgain, Opened
  <2> QED  BY <1>3, <2>1, <2>3 DEF PassAccepted
<1> QED  BY <1>2, <1>3

(* The script goes on from it, ... *)
LEMMA PassOn ==
    ASSUME RunningInv, NEW again, KeepReturned(again), Here = "keep", UNCHANGED <<kind, passes>>,
           step' = step + 1, verdict' = "running", PassAccepted
    PROVE  ScriptIInv'
<1> USE DEF RunningInv
<1>1. /\ pc[me] = "rewatch"
      /\ UNCHANGED <<final, closed, before, blame, meddled, faults>> /\ UNCHANGED roundVars
      /\ Core' /\ pc'[me] = "asleep" /\ claims'[me] = {} /\ SkippedBy(me)' = {}
  BY Returned
<1>2. /\ Core /\ ScriptTypeOK /\ SeenInv /\ LoopInv(me) /\ me \in Keeper
  BY ScriptAssumption DEF Core, IInv
<1>3. kind \in TwoBids \cup {"keeper", "settle"} /\ step = KeepAt /\ step \in Nat
  BY <1>2, Where
<1>4. UNCHANGED <<status, bids, revealed, seals, vault, ledger, winner>> /\ Index' = Index
      /\ Own' = Own
  BY <1>1 DEF roundVars, Index, Own
<1>5. ScriptTypeOK'
  <2>1. ~Last  BY <1>2, <1>3, Places DEF Last, KeepAt, TwoBids
  <2>2. step + 1 \in 1..Len(Plan[kind])
    BY <1>2, <2>1, Places DEF Last, ScriptTypeOK, Kinds
  <2> QED  BY <1>1, <1>2, <2>2 DEF ScriptTypeOK
<1>6. CallInv'  BY <1>1 DEF CallInv, KeepLabels, CloseLabels
<1>7. kind \in TwoBids => {Own1, Own2} \subseteq revealed
  <2>1. kind \in TwoBids => Own \subseteq revealedBy[me]
    BY DEF TwoBids, PassAccepted, AllRevealed
  <2>2. revealedBy[me] \subseteq revealed  BY <1>2 DEF LoopInv
  <2> QED  BY <2>1, <2>2 DEF TwoBids, Own
<1>8. SeenInv'
  BY <1>1, <1>2, <1>3, <1>4, <1>7
     DEF SeenInv, Bid1At, KeepAt, CloseAt, TwoBids, Closing, Retried, FirstBid, SecondBid
<1>9. ASSUME Clean' PROVE LeftAlone'
  <2>1. LeftAlone  BY <1>1, <1>9 DEF Clean
  <2>2. /\ ~NotOpened /\ ~CloseBegun /\ ~NotOpened' /\ ~CloseBegun'
    BY <1>1, <1>3 DEF NotOpened, CloseBegun, KeepAt, CloseAt, TwoBids, Closing
  <2>3. StatusInv'
    BY <1>3, <1>4, <2>1, <2>2 DEF LeftAlone, StatusInv, TwoBids
  <2>4. BidsInv => BidsInv'
    BY <1>1, <1>3, <1>4 DEF BidsInv, Bid1At, KeepAt, TwoBids
  <2>5. kind = "keeper" => Own1 \in revealed
    <3>1. SUFFICES ASSUME kind = "keeper" PROVE Own1 \in revealed  OBVIOUS
    <3>2. Own1 \in Own  BY <3>1 DEF Own
    <3>3. revealed = Index  BY <1>1, <1>3, <2>1, <3>1, <3>2 DEF LeftAlone, PassInv
    <3>4. Index = Own  BY <1>3, <2>1, <3>1, OwnSeals
    <3> QED  BY <3>2, <3>3, <3>4
  <2>6. PassInv'
    <3>1. step' # KeepAt'  BY <1>3 DEF KeepAt, TwoBids
    <3>2. kind' = "keeper" => Own1 \in revealed'  BY <1>4, <2>5
    <3> QED  BY ONLY <3>1, <3>2 DEF PassInv
  <2>7. ClosedInv'
    BY <1>1, <1>3 DEF ClosedInv, KeepAt, CloseAt, TwoBids
  <2>8. ~(kind = "keeper" /\ step' = 4)  BY <1>3 DEF KeepAt, TwoBids
  <2> QED  BY <2>1, <2>3, <2>4, <2>6, <2>7, <2>8 DEF LeftAlone
<1> QED  BY <1>1, <1>5, <1>6, <1>8, <1>9, WentOn DEF Core

(* ... fails, or has come to its end. *)
LEMMA PassDoneKeeps ==
    ASSUME RunningInv, PassDone PROVE ScriptIInv'
<1> USE DEF RunningInv
<1> DEFINE again == FALSE
           ok == PassAccepted
<1>1. KeepReturned(again)  BY DEF PassDone
<1>2. Assert(ok) /\ UNCHANGED passes  BY <1>1 DEF KeepReturned
<1>3. ok <=> PassAccepted  OBVIOUS
<1> HIDE DEF again, ok
<1>4. /\ Here \in {"keep", "keepAgain"} /\ pc[me] = "rewatch" /\ verdict = "running"
      /\ UNCHANGED <<blame, meddled, faults>> /\ faults \in Nat /\ meddled \in Nat
      /\ UNCHANGED roundVars
  BY <1>1, Returned
<1>5. CASE ~ok
  <2>1. verdict' = "failed"  BY <1>2, <1>5 DEF Assert, Fail
  <2>2. ~Clean'
    <3>1. Clean' => Clean  BY <1>4 DEF Clean
    <3> QED  BY <1>3, <1>4, <1>5, <3>1, PassGood
  <2> QED  BY <1>4, <2>1, <2>2, Caused
<1>6. CASE ok /\ Here = "keep"
  <2>1. ~Last
    BY <1>6, Where, Places DEF Last, KeepAt, TwoBids
  <2>2. step' = step + 1 /\ verdict' = "running" /\ kind' = kind
    BY <1>2, <1>4, <1>6, <2>1 DEF Assert, Advance
  <2> QED  BY <1>1, <1>2, <1>3, <1>6, <2>2, PassOn
<1>7. CASE ok /\ Here = "keepAgain"
  <2>1. kind = "keeper" /\ step = 4 /\ Last  BY <1>7, Where, Places DEF Last
  <2>2. verdict' = "passed" /\ kind' = kind  BY <1>2, <1>7, <2>1 DEF Assert, Advance
  <2>3. KeeperPassAgain  BY <1>3, <1>7, <2>1 DEF PassAccepted
  <2>4. LoopInv(me)  BY ScriptAssumption DEF IInv
  <2>5. Own1 \in revealed
    BY <2>3, <2>4, OwnOffers DEF KeeperPassAgain, LoopInv, ReasonHolds
  <2>6. bids[Own1] = Low  BY <2>1 DEF SeenInv, Bid1At, FirstBid
  <2>7. Valid(Own1)'  BY <1>4, <2>5, <2>6, OwnOffers DEF Valid, Eligible, roundVars
  <2> QED  BY <2>1, <2>2, <2>7, Passed DEF ReportTrue
<1> QED  BY <1>4, <1>5, <1>6, <1>7

----------------------------------------------------------------------------
(* Waiting out the deadline, and a call of closeRound *)

LEMMA WaitDeadlineKeeps ==
    ASSUME RunningInv, WaitDeadline PROVE ScriptIInv'
<1>1. /\ Here = "wait" /\ verdict = "running" /\ Waited /\ Advance
      /\ UNCHANGED Results /\ UNCHANGED blame /\ UNCHANGED vars
  BY DEF WaitDeadline, At
<1>2. ~Last
  BY <1>1, Where, Places DEF RunningInv, Last, CloseAt, TwoBids, Closing
<1>3. kind' = kind /\ step' = step + 1 /\ verdict' = "running"  BY <1>1, <1>2 DEF Advance
<1>4. blame \subseteq blame' /\ blame' \subseteq blame \cup {"late"}  BY <1>1
<1>5. RunningInv'  BY <1>1, <1>2, <1>3, <1>4, Advanced
<1> QED  BY <1>3, <1>5, WentOn

(* Where the script is when it calls closeRound. *)
LEMMA AtClose ==
    ASSUME RunningInv, Here = "close"
    PROVE  /\ kind \in Closing /\ step \in Nat /\ ScriptTypeOK /\ Core /\ SeenInv
           /\ step >= CloseAt /\ step # KeepAt
           /\ kind = "settle" => step = 4
           /\ kind = "agents" => step = 7
           /\ kind = "lifecycle" => step = 7 \/ step = 10
           /\ CloseAt = IF kind = "settle" THEN 4 ELSE 7
           /\ KeepAt = IF kind = "settle" THEN 2 ELSE 5
           /\ Waited /\ ~Last
<1>1. ScriptTypeOK /\ Core /\ SeenInv  BY DEF RunningInv, Core
<1>2. (kind \in Closing /\ step = CloseAt) \/ (kind = "lifecycle" /\ step = 10)
  BY <1>1, Where
<1>3. /\ CloseAt = IF kind = "settle" THEN 4 ELSE 7
      /\ KeepAt = IF kind = "settle" THEN 2 ELSE 5
      /\ Bid1At = IF kind = "lifecycle" THEN 2 ELSE 1
      /\ kind \in Closing
  BY <1>2 DEF CloseAt, KeepAt, Bid1At, TwoBids, Closing
<1>4. ~Last  BY <1>1, <1>2, <1>3, Places DEF Last, Closing
<1>5. Waited  BY <1>1, <1>2, <1>3 DEF SeenInv, Closing
<1> QED  BY <1>1, <1>2, <1>3, <1>4, <1>5 DEF Closing

LEMMA StartCloseKeeps ==
    ASSUME RunningInv, StartClose PROVE ScriptIInv'
<1> USE DEF RunningInv
<1>1. KeeperTypeOK /\ me \in Keeper  BY ScriptAssumption DEF IInv, TypeOK
<1>2. /\ verdict = "running" /\ Here = "close" /\ pc[me] = "asleep"
      /\ Goto(me, "closeRound") /\ LoopUnchanged /\ UNCHANGED claims
      /\ UNCHANGED <<faults, swept>> /\ UNCHANGED roundVars
      /\ closed' = [cleared |-> FALSE, settled |-> FALSE]
      /\ UNCHANGED <<kind, step, verdict, passes, final, before, blame, meddled>>
  BY DEF StartClose, At, Read, Proceed
<1>3. /\ kind \in Closing /\ step \in Nat /\ ScriptTypeOK /\ Core /\ SeenInv
      /\ kind = "settle" => step = 4
      /\ kind = "agents" => step = 7
      /\ kind = "lifecycle" => step = 7 \/ step = 10
      /\ CloseAt = IF kind = "settle" THEN 4 ELSE 7
      /\ KeepAt = IF kind = "settle" THEN 2 ELSE 5
  BY <1>2, AtClose
<1>4. Core'  BY <1>2, <1>3, CoreCall
<1>5. pc'[me] = "closeRound"  BY <1>1, <1>2 DEF Goto, KeeperTypeOK
<1>6. ScriptTypeOK'  BY <1>2, <1>3 DEF ScriptTypeOK
<1>7. CallInv'  BY <1>2, <1>5 DEF CallInv, CloseLabels, Here
<1>8. UNCHANGED <<status, bids, revealed, seals, vault, ledger, winner>> /\ Waited' = Waited
  BY <1>2 DEF roundVars, Waited
<1>9. SeenInv'
  BY <1>2, <1>3, <1>8
     DEF SeenInv, Bid1At, KeepAt, CloseAt, TwoBids, Closing, Retried, FirstBid, SecondBid
<1>10. ASSUME Clean' PROVE LeftAlone'
  <2>1. LeftAlone  BY <1>2, <1>10 DEF Clean
  <2>2. ~NotOpened /\ ~NotOpened' /\ CloseBegun' = CloseBegun
    BY <1>2, <1>3, <1>5 DEF NotOpened, CloseBegun, KeepAt, CloseAt, TwoBids, Closing, Retried
  <2>3. StatusInv'
    <3>1. StatusInv  BY <1>3, <2>1 DEF LeftAlone, Closing
    <3>2. CloseAt' = CloseAt /\ Retried' = Retried  BY <1>2 DEF CloseAt, Retried
    <3>3. ~(pc[me] \in {"cleared", "settle"}) /\ ~(pc'[me] \in {"cleared", "settle"})
      BY <1>2, <1>5
    <3>4. CASE ~CloseBegun  BY <1>8, <2>2, <3>1, <3>4 DEF StatusInv
    <3>5. CASE CloseBegun
      <4>1. step > CloseAt \/ (step = CloseAt /\ Retried)
        BY <3>3, <3>5 DEF CloseBegun
      <4> QED
        BY <1>2, <1>3, <1>5, <1>8, <2>2, <3>1, <3>2, <3>5, <4>1 DEF StatusInv
    <3> QED  BY <3>4, <3>5
  <2>4. Index' = Index /\ Own' = Own  BY <1>2, <1>8 DEF Index, Own
  <2>5. kind # "settle" => BidsInv'
    BY <1>2, <1>3, <1>8, <2>1, <2>4 DEF LeftAlone, BidsInv, Bid1At, Closing
  <2>6. PassInv'
    <3>1. step' # KeepAt' /\ kind' # "keeper"
      BY <1>2, <1>3 DEF KeepAt, TwoBids, Closing
    <3> QED  BY ONLY <3>1 DEF PassInv
  <2>7. ClosedInv'
    BY <1>2, <1>3, <1>5 DEF ClosedInv, CloseAt, TwoBids, Closing
  <2> QED
    BY <1>2, <1>3, <2>3, <2>5, <2>6, <2>7 DEF LeftAlone, Closing
<1> QED  BY <1>2, <1>4, <1>6, <1>7, <1>9, <1>10, WentOn DEF Core

(* mainnet-settle tries again after a close that settled nothing. *)
LEMMA RetryCloseKeeps ==
    ASSUME RunningInv, RetryClose PROVE ScriptIInv'
<1> USE DEF RunningInv
<1>1. /\ verdict = "running" /\ Here = "closed" /\ kind = "settle" /\ ~closed.settled
      /\ final # "Settled" /\ step' = step - 1 /\ passes' = MaxPasses + 1
      /\ UNCHANGED <<kind, verdict, final, closed, before, blame, meddled>> /\ UNCHANGED vars
  BY DEF RetryClose, At
<1>2. Core /\ ScriptTypeOK /\ SeenInv  BY DEF Core
<1>3. step = 5 /\ step' = 4  BY <1>1, <1>2, Where DEF CloseAt, TwoBids
<1>4. Core'  BY <1>1, <1>2, CoreStay
<1>5. pc[me] = "asleep" /\ claims[me] = {}  BY <1>1 DEF CallInv
<1>6. UNCHANGED <<pc, claims, revealedBy, skipped, faults, status, revealed, ledger>>
      /\ Waited' = Waited
  BY <1>1 DEF vars, Waited
<1>7. ScriptTypeOK'
  BY <1>1, <1>2, <1>3, Places, ScriptAssumption DEF ScriptTypeOK
<1>8. CallInv'
  <2>1. pc'[me] = "asleep" /\ claims'[me] = {}  BY <1>5, <1>6
  <2> QED  BY <2>1 DEF CallInv, KeepLabels, CloseLabels
<1>9. SeenInv'
  BY <1>1, <1>2, <1>3, <1>6 DEF SeenInv, CloseAt, TwoBids, Closing
<1>10. ASSUME Clean' PROVE LeftAlone'
  <2>1. LeftAlone  BY <1>1, <1>6, <1>10 DEF Clean
  <2>2. status = "Voided"
    BY <1>1, <1>3, <2>1
       DEF LeftAlone, StatusInv, ClosedInv, CloseBegun, CloseAt, TwoBids, Closing
  <2>3. Retried' /\ CloseAt' = 4 /\ KeepAt' = 2
    BY <1>1, ScriptAssumption DEF Retried, CloseAt, KeepAt, TwoBids
  <2>4. StatusInv'
    <3>1. CloseBegun' /\ ~NotOpened'
      BY <1>1, <1>3, <2>3 DEF CloseBegun, NotOpened, Closing
    <3> QED  BY <1>3, <1>5, <1>6, <2>2, <2>3, <3>1 DEF StatusInv
  <2>5. PassInv'
    <3>1. step' # KeepAt' /\ kind' # "keeper"  BY <1>1, <1>3, <2>3
    <3> QED  BY ONLY <3>1 DEF PassInv
  <2>6. ClosedInv'
    BY <1>1, <1>3, <1>5, <1>6, <2>3 DEF ClosedInv
  <2> QED  BY <1>1, <2>4, <2>5, <2>6 DEF LeftAlone
<1> QED  BY <1>1, <1>4, <1>7, <1>8, <1>9, <1>10, WentOn DEF Core

(* An awaited call that throws is a cause. *)
LEMMA CallFailsKeeps ==
    ASSUME RunningInv, CallFails PROVE ScriptIInv'
<1>1. faults \in Nat /\ meddled \in Nat
  BY ShapeAssumption DEF RunningInv, IInv, TypeOK, KeeperTypeOK, ScriptTypeOK
<1>2. verdict' = "failed" /\ meddled' = meddled /\ faults' = faults + 1
  BY DEF CallFails, Fail, Results, RpcFails
<1>3. ~Clean'  BY <1>1, <1>2 DEF Clean
<1> QED  BY <1>1, <1>2, <1>3, Caused

(* closeRound, call by call.  A settle that is refused met a round that    *)
(* was not Cleared. *)
CloseMove ==
    \/ /\ pc[me] = "closeRound" /\ UNCHANGED roundVars
       /\ \/ pc'[me] = "clear" /\ status = "Revealing" /\ claims'[me] = claims[me]
          \/ pc'[me] = "settle" /\ status = "Cleared" /\ claims'[me] = claims[me]
          \/ /\ pc'[me] = "asleep" /\ claims'[me] = {} /\ status # "Cleared"
             /\ ~(status = "Revealing" /\ clock > RevealDeadline)
    \/ /\ pc[me] = "clear"
       /\ \/ Clear /\ pc'[me] = "cleared" /\ "cleared" \in claims'[me]
          \/ /\ UNCHANGED roundVars /\ ClearRefusals # {}
             /\ pc'[me] \in {"cleared", "asleep"}
    \/ /\ pc[me] = "cleared" /\ UNCHANGED roundVars
       /\ \/ pc'[me] = "settle" /\ status = "Cleared"
          \/ pc'[me] = "asleep" /\ status # "Cleared"
    \/ /\ pc[me] = "settle" /\ pc'[me] = "asleep"
       /\ \/ Settle
          \/ UNCHANGED roundVars /\ status # "Cleared"

LEMMA CloseMoves ==
    ASSUME Core, CloseRound(me) \/ ClearTx(me) \/ Cleared(me) \/ SettleTx(me)
    PROVE  /\ CloseMove /\ faults' = faults /\ bids' = bids /\ revealed' = revealed
           /\ UNCHANGED <<seals, ledger>> /\ (UNCHANGED roundVars \/ RoundStep)
           /\ pc'[me] = "asleep" => claims'[me] = {}
           /\ Core'
<1>t. KeeperTypeOK /\ me \in Keeper
  BY ScriptAssumption DEF Core, IInv, TypeOK
<1>g. \A l : Goto(me, l) => pc'[me] = l  BY <1>t DEF Goto, KeeperTypeOK
<1>s. Sleep(me) => pc'[me] = "asleep" /\ claims'[me] = {}  BY <1>t, <1>g DEF Sleep, KeeperTypeOK
<1>r. ASSUME NEW from, NEW l, Read(me, from, l)
      PROVE  /\ pc[me] = from /\ pc'[me] = l /\ UNCHANGED roundVars /\ faults' = faults
             /\ claims'[me] = IF l = "asleep" THEN {} ELSE claims[me]
  BY <1>g, <1>s, <1>r DEF Read, Proceed
<1>n. [Next]_vars
  <2>1. KeeperStep(me)  BY DEF KeeperStep
  <2> QED  BY <1>t, <2>1 DEF Next
<1>c. Core' /\ (UNCHANGED roundVars \/ RoundStep)  BY <1>n, CoreNext
<1>1. CASE CloseRound(me)
  <2>1. \/ Read(me, "closeRound", "clear") /\ status = "Revealing"
        \/ Read(me, "closeRound", "settle") /\ status = "Cleared"
        \/ /\ Read(me, "closeRound", "asleep") /\ status # "Cleared"
           /\ ~(status = "Revealing" /\ clock > RevealDeadline)
    BY <1>1 DEF CloseRound
  <2> QED  BY <1>c, <1>r, <2>1 DEF CloseMove, roundVars
<1>2. CASE ClearTx(me)
  <2>0. pc[me] = "clear"  BY <1>2 DEF ClearTx
  <2>1. CASE /\ Clear /\ Goto(me, "cleared") /\ faults' = faults
             /\ claims' = [claims EXCEPT ![me] = @ \cup {"cleared"}
                              \cup (IF winner' = NoOne THEN {"voided"} ELSE {})]
    <3>1. pc'[me] = "cleared" /\ "cleared" \in claims'[me]  BY <1>t, <1>g, <2>1 DEF KeeperTypeOK
    <3>2. bids' = bids /\ revealed' = revealed /\ UNCHANGED <<seals, ledger>>
      BY <2>1 DEF Clear, envVars
    <3> QED  BY <1>c, <2>0, <2>1, <3>1, <3>2 DEF CloseMove
  <2>2. CASE Refused(me, ClearRefusals,
                  {"AlreadyCleared", "RevealStillOpen", "WrongStatus", "RoundVoided"}, "cleared")
    <3>1. /\ pc'[me] = "cleared" \/ (pc'[me] = "asleep" /\ claims'[me] = {})
          /\ ClearRefusals # {} /\ UNCHANGED roundVars /\ faults' = faults
      BY <1>g, <1>s, <2>2 DEF Refused, Proceed
    <3> QED  BY <1>c, <2>0, <3>1 DEF CloseMove, roundVars
  <2> QED  BY <1>2, <2>1, <2>2 DEF ClearTx
<1>3. CASE Cleared(me)
  <2>1. \/ Read(me, "cleared", "settle") /\ status = "Cleared"
        \/ Read(me, "cleared", "asleep") /\ status # "Cleared"
    BY <1>3 DEF Cleared
  <2> QED  BY <1>c, <1>r, <2>1 DEF CloseMove, roundVars
<1>4. CASE SettleTx(me)
  <2>0. pc[me] = "settle"  BY <1>4 DEF SettleTx
  <2>1. CASE Settle /\ Sleep(me) /\ UNCHANGED <<faults, swept>>
    <3>1. bids' = bids /\ revealed' = revealed /\ UNCHANGED <<seals, ledger>>
      BY <2>1 DEF Settle, envVars
    <3> QED  BY <1>c, <1>s, <2>0, <2>1, <3>1 DEF CloseMove
  <2>2. CASE Refused(me, SettleRefusals, {"AlreadySettled", "NotCleared", "WrongStatus"}, "asleep")
    <3>1. pc'[me] = "asleep" /\ claims'[me] = {} /\ UNCHANGED roundVars /\ faults' = faults
          /\ SettleRefusals # {}
      BY <1>s, <2>2 DEF Refused, Proceed
    <3>2. status # "Cleared"  BY <3>1 DEF SettleRefusals, Unless
    <3> QED  BY <1>c, <2>0, <3>1, <3>2 DEF CloseMove, roundVars
  <2> QED  BY <1>4, <2>1, <2>2 DEF SettleTx
<1> QED  BY <1>1, <1>2, <1>3, <1>4

(* What an undisturbed call of closeRound does. *)
LEMMA CloseAlone ==
    ASSUME RunningInv, LeftAlone, Here = "close", CloseMove, claims[me] = {} \/ pc[me] # "closeRound",
           pc[me] = "clear" => ledger > RevealDeadline
    PROVE  \/ /\ step = CloseAt /\ ~Retried /\ pc[me] = "closeRound"
              /\ pc'[me] = "clear" /\ status' = "Revealing"
           \/ /\ step = CloseAt /\ ~Retried /\ pc[me] = "clear" /\ pc'[me] = "cleared"
              /\ "cleared" \in claims'[me]
              /\ status' = "Cleared" \/ (status' = "Voided" /\ kind = "settle")
           \/ /\ step = CloseAt /\ ~Retried /\ pc[me] = "cleared" /\ pc'[me] = "settle"
              /\ status' = "Cleared"
           \/ /\ step = CloseAt /\ ~Retried /\ pc[me] = "cleared" /\ pc'[me] = "asleep"
              /\ status' = "Voided" /\ kind = "settle"
           \/ /\ step = CloseAt /\ ~Retried /\ pc[me] = "settle" /\ pc'[me] = "asleep"
              /\ status = "Cleared" /\ status' = "Settled"
           \/ /\ step = CloseAt /\ Retried /\ pc[me] = "closeRound" /\ pc'[me] = "asleep"
              /\ status' = "Voided" /\ kind = "settle"
           \/ /\ kind = "lifecycle" /\ step = 10 /\ pc[me] = "closeRound" /\ pc'[me] = "asleep"
              /\ status' = "Settled" /\ claims'[me] = {}
<1> USE DEF RunningInv
<1>1. /\ kind \in Closing /\ step \in Nat /\ ScriptTypeOK /\ Core /\ SeenInv
      /\ kind = "settle" => step = 4
      /\ kind = "agents" => step = 7
      /\ kind = "lifecycle" => step = 7 \/ step = 10
      /\ CloseAt = IF kind = "settle" THEN 4 ELSE 7
      /\ KeepAt = IF kind = "settle" THEN 2 ELSE 5
      /\ Waited
  BY AtClose
<1>2. StatusInv /\ ClosedInv  BY <1>1 DEF LeftAlone, Closing
<1>3. clock > RevealDeadline
  BY <1>1, TimeAssumption, ScriptAssumption DEF Waited, Core, IInv, TypeOK, RoundTypeOK
<1>4. status # "Open"
  BY <1>1, <1>2 DEF StatusInv, NotOpened, CloseBegun, Closing
<1>5. CASE step = CloseAt /\ ~Retried
  <2>1. status = "Revealing" \/ pc[me] \in {"cleared", "settle"}
    BY <1>1, <1>2, <1>5 DEF StatusInv, NotOpened, CloseBegun, Closing
  <2>2. pc[me] \in {"cleared", "settle"} =>
          status = "Cleared" \/ (status = "Voided" /\ kind = "settle" /\ pc[me] = "cleared")
    BY <1>1, <1>2, <1>5 DEF StatusInv, CloseBegun, Closing
  <2>3. CASE pc[me] = "closeRound"
    <3>1. status = "Revealing"  BY <2>1, <2>3
    <3> QED  BY <1>3, <1>5, <2>3, <3>1 DEF CloseMove, roundVars
  <2>4. CASE pc[me] = "clear"
    <3>1. status = "Revealing"  BY <2>1, <2>4
    <3>2. ClearRefusals = {}  BY <2>4, <3>1 DEF ClearRefusals, Unless
    <3>3. Clear /\ pc'[me] = "cleared" /\ "cleared" \in claims'[me]
      BY <2>4, <3>2 DEF CloseMove
    <3>4. kind # "settle" => {b \in Bidder : Valid(b)} # {}
      <4>1. SUFFICES ASSUME kind # "settle" PROVE Valid(Own1)  BY OwnOffers
      <4>2. bids[Own1] = FirstBid /\ Own1 \in revealed
        BY <1>1, <1>5, <4>1 DEF SeenInv, Bid1At, TwoBids, Closing
      <4> QED  BY <4>2, OwnOffers DEF Valid, Eligible, FirstBid
    <3>5. status' = "Cleared" \/ (status' = "Voided" /\ kind = "settle")
      BY <3>3, <3>4 DEF Clear
    <3> QED  BY <1>5, <2>4, <3>3, <3>5
  <2>5. CASE pc[me] = "cleared"  BY <1>5, <2>2, <2>5 DEF CloseMove, roundVars
  <2>6. CASE pc[me] = "settle"
    <3>1. status = "Cleared"  BY <2>2, <2>6
    <3>2. Settle /\ pc'[me] = "asleep"  BY <2>6, <3>1 DEF CloseMove
    <3>3. status' = "Settled"  BY <3>2 DEF Settle
    <3> QED  BY <1>5, <2>6, <3>1, <3>2, <3>3
  <2> QED  BY <2>3, <2>4, <2>5, <2>6 DEF CloseMove
<1>6. CASE step = CloseAt /\ Retried
  <2>1. kind = "settle" /\ status = "Voided" /\ pc[me] \in {"asleep", "closeRound"}
    BY <1>1, <1>2, <1>6 DEF StatusInv, CloseBegun, Closing, SeenInv
  <2> QED  BY <1>6, <2>1 DEF CloseMove, roundVars
<1>7. CASE step # CloseAt
  <2>1. kind = "lifecycle" /\ step = 10  BY <1>1, <1>7 DEF Closing
  <2>2. status = "Settled"  BY <1>1, <2>1 DEF SeenInv
  <2>3. pc[me] \in {"asleep", "closeRound"}  BY <1>2, <2>1 DEF ClosedInv
  <2> QED  BY <2>1, <2>2, <2>3 DEF CloseMove, roundVars
<1> QED  BY <1>5, <1>6, <1>7

(* What a call of closeRound changes of the script.  A clear that comes too *)
(* early for the ledger after the script's wait is the ledger's fault. *)
Lag ==
    /\ blame \subseteq blame' /\ blame' \subseteq blame \cup {"lag"}
    /\ pc[me] = "clear" /\ ~(ledger > RevealDeadline) => blame' # {}

SettledNow == pc[me] = "settle" /\ status = "Cleared"

LEMMA CloseStepMoves ==
    ASSUME RunningInv, CloseStep
    PROVE  /\ Here = "close" /\ verdict = "running" /\ CloseMove /\ Core'
           /\ UNCHANGED <<bids, revealed, seals, ledger, faults>>
           /\ UNCHANGED roundVars \/ RoundStep
           /\ pc'[me] = "asleep" => claims'[me] = {}
           /\ UNCHANGED <<kind, passes, before, meddled>> /\ Lag
           /\ closed' = [cleared |-> closed.cleared \/ "cleared" \in claims'[me],
                         settled |-> closed.settled \/ SettledNow]
           /\ \/ pc'[me] # "asleep" /\ UNCHANGED <<step, verdict, final>>
              \/ /\ pc'[me] = "asleep" /\ step' = step + 1 /\ verdict' = "running"
                 /\ final' = status'
              \/ /\ pc'[me] = "asleep" /\ pc[me] \in {"clear", "settle"} /\ ~SettledNow
                 /\ verdict' = "failed" /\ UNCHANGED step
           /\ SettledNow => status' = "Settled" /\ pc'[me] = "asleep"
<1>1. /\ At("close")
      /\ CloseRound(me) \/ ClearTx(me) \/ Cleared(me) \/ SettleTx(me)
      /\ closed' = [cleared |-> closed.cleared \/ "cleared" \in claims'[me],
                    settled |-> closed.settled \/ SettledNow]
      /\ \/ pc'[me] # "asleep" /\ UNCHANGED <<kind, step, verdict, final>>
         \/ /\ pc'[me] = "asleep" /\ pc[me] # "clear"
            /\ Advance /\ final' = status'
         \/ /\ pc'[me] = "asleep" /\ pc[me] \in {"clear", "settle"} /\ ~SettledNow
            /\ Fail /\ UNCHANGED final
      /\ UNCHANGED <<passes, before, meddled>>
      /\ blame' = IF pc[me] = "clear" /\ TooFarBehind THEN blame \cup {"lag"} ELSE blame
  BY DEF CloseStep, SettledNow, Blame
<1>2. Here = "close" /\ verdict = "running"  BY <1>1 DEF At
<1>3. Core  BY DEF RunningInv, Core
<1>4. /\ CloseMove /\ faults' = faults /\ bids' = bids /\ revealed' = revealed
      /\ UNCHANGED <<seals, ledger>> /\ (UNCHANGED roundVars \/ RoundStep)
      /\ pc'[me] = "asleep" => claims'[me] = {}
      /\ Core'
  BY <1>1, <1>3, CloseMoves
<1>5. ~Last  BY <1>2, AtClose
<1>6. Advance => step' = step + 1 /\ verdict' = "running" /\ kind' = kind
  BY <1>2, <1>5 DEF Advance
<1>7. SettledNow => status' = "Settled" /\ pc'[me] = "asleep"
  BY <1>4 DEF SettledNow, CloseMove, Settle
<1>8. Fail => verdict' = "failed" /\ UNCHANGED step /\ kind' = kind  BY DEF Fail
<1>9. Lag
  <2>1. Waited /\ RoundTypeOK  BY <1>2, <1>3, AtClose DEF Core, IInv, TypeOK
  <2>2. ~(ledger > RevealDeadline) => TooFarBehind
    BY <2>1, TimeAssumption, ScriptAssumption DEF Waited, TooFarBehind, RoundTypeOK
  <2>3. blame' = blame \/ blame' = blame \cup {"lag"}  BY <1>1
  <2>4. pc[me] = "clear" /\ ~(ledger > RevealDeadline) => "lag" \in blame'  BY <1>1, <2>2
  <2> QED  BY <2>3, <2>4 DEF Lag
<1> QED  BY <1>1, <1>2, <1>4, <1>6, <1>7, <1>8, <1>9

LEMMA CloseTyped ==
    ASSUME RunningInv, CloseStep, verdict' = "running"
    PROVE  ScriptTypeOK' /\ CallInv' /\ SeenInv'
<1>1. /\ Here = "close" /\ Core' /\ CloseMove
      /\ UNCHANGED <<bids, revealed, seals, ledger, faults>>
      /\ UNCHANGED roundVars \/ RoundStep
      /\ pc'[me] = "asleep" => claims'[me] = {}
      /\ UNCHANGED <<kind, passes, before, meddled>> /\ Lag
      /\ closed'.settled = (closed.settled \/ SettledNow)
      /\ closed' \in [cleared : BOOLEAN, settled : BOOLEAN]
      /\ \/ pc'[me] # "asleep" /\ UNCHANGED <<step, final>>
         \/ pc'[me] = "asleep" /\ step' = step + 1 /\ final' = status'
      /\ SettledNow => status' = "Settled" /\ pc'[me] = "asleep"
  <2>1. closed.cleared \in BOOLEAN /\ closed.settled \in BOOLEAN  BY DEF RunningInv, ScriptTypeOK
  <2>2. closed' = [cleared |-> closed.cleared \/ "cleared" \in claims'[me],
                   settled |-> closed.settled \/ SettledNow]
    BY CloseStepMoves
  <2>3. /\ closed'.settled = (closed.settled \/ SettledNow)
        /\ closed' \in [cleared : BOOLEAN, settled : BOOLEAN]
    BY <2>1, <2>2 DEF SettledNow
  <2>4. /\ Here = "close" /\ Core' /\ CloseMove
        /\ UNCHANGED <<bids, revealed, seals, ledger, faults>>
        /\ UNCHANGED roundVars \/ RoundStep
        /\ pc'[me] = "asleep" => claims'[me] = {}
        /\ UNCHANGED <<kind, passes, before, meddled>> /\ Lag
        /\ SettledNow => status' = "Settled" /\ pc'[me] = "asleep"
    BY CloseStepMoves
  <2>5. \/ pc'[me] # "asleep" /\ UNCHANGED <<step, final>>
        \/ pc'[me] = "asleep" /\ step' = step + 1 /\ final' = status'
    BY CloseStepMoves
  <2> QED  BY <2>3, <2>4, <2>5
<1>2. /\ kind \in Closing /\ step \in Nat /\ ScriptTypeOK /\ Core /\ SeenInv
      /\ step >= CloseAt /\ step # KeepAt
      /\ kind = "settle" => step = 4
      /\ kind = "agents" => step = 7
      /\ kind = "lifecycle" => step = 7 \/ step = 10
      /\ CloseAt = IF kind = "settle" THEN 4 ELSE 7
      /\ KeepAt = IF kind = "settle" THEN 2 ELSE 5
      /\ Waited /\ ~Last
  BY <1>1, AtClose
<1>3. status' \in Statuses  BY <1>1 DEF Core, IInv, TypeOK, RoundTypeOK
<1>4. ScriptTypeOK'
  <2>1. step' \in 1..Len(Plan[kind])
    <3>1. step \in 1..Len(Plan[kind])  BY <1>2 DEF ScriptTypeOK
    <3>2. step' \in {step, step + 1}  BY <1>1
    <3>3. step + 1 \in 1..Len(Plan[kind])
      <4>1. ScriptTypeOK /\ ~Last  BY <1>2
      <4> QED  BY <4>1, Places DEF Last, ScriptTypeOK, Kinds
    <3> QED  BY <3>1, <3>2, <3>3
  <2>2. final' \in Statuses \cup {"none"}  BY <1>1, <1>2, <1>3 DEF ScriptTypeOK
  <2> QED  BY <1>1, <1>2, <2>1, <2>2 DEF ScriptTypeOK, Lag
<1>5. CallInv'
  <2>1. CASE pc'[me] = "asleep"  BY <1>1, <2>1 DEF CallInv, KeepLabels, CloseLabels
  <2>2. CASE pc'[me] # "asleep"
    <3>1. Here' = "close"  BY <1>1, <2>2 DEF Here
    <3>2. pc'[me] \in {"clear", "cleared", "settle"}  BY <1>1, <2>2 DEF CloseMove
    <3> QED  BY <3>1, <3>2 DEF CallInv, CloseLabels
  <2> QED  BY <2>1, <2>2
<1>6. SeenInv'
  <2>1. CASE pc'[me] # "asleep"
    <3>1. closed'.settled = closed.settled /\ step' = step
      BY <1>1, <1>2, <2>1 DEF ScriptTypeOK
    <3>2. Retried' => Retried  BY <1>1 DEF Retried
    <3> QED  BY <1>1, <1>2, <3>1, <3>2, SeenKept
  <2>2. CASE pc'[me] = "asleep"
    <3>1. RoundTypeOK /\ ChainInv  BY <1>2 DEF Core, IInv, TypeOK
    <3>2. /\ status = "Settled" => status' = "Settled" /\ winner' = winner
          /\ status' \in Voting => status \in Voting
      BY <1>1, <3>1, Onward
    <3>3. /\ CloseAt' = CloseAt /\ KeepAt' = KeepAt /\ Bid1At' = Bid1At
          /\ FirstBid' = FirstBid /\ SecondBid' = SecondBid /\ Retried' = Retried
      BY <1>1 DEF CloseAt, KeepAt, Bid1At, FirstBid, SecondBid, Retried
    <3>4. Bid1At \in 1..2  BY DEF Bid1At
    <3>5. step' = step + 1  BY <1>1, <2>2
    <3>6. /\ kind' \in {"agents", "lifecycle", "keeper", "smoke"} /\ step' > Bid1At' =>
                bids'[Own1] = FirstBid'
          /\ kind' \in TwoBids /\ step' > Bid1At' + 1 => bids'[Own2] = SecondBid'
          /\ kind' \in TwoBids /\ step' > KeepAt' => {Own1, Own2} \subseteq revealed'
      BY <1>1, <1>2, <3>3, <3>4, <3>5 DEF SeenInv, TwoBids, Closing
    <3>7. Waited'  BY <1>1, <1>2, <3>1, WaitedOn
    <3>8. closed'.settled => kind' \in Closing /\ step' >= CloseAt' /\ status' = "Settled"
      BY <1>1, <1>2, <3>2, <3>3, <3>5 DEF SeenInv
    <3>9. kind' = "agents" =>
              /\ closed'.settled \/ (step' > 4 /\ status' \in Voting) => before'.till = 0
              /\ step' = 9 => closed'.settled
      <4>1. SettledNow => status \in Voting  BY DEF SettledNow, Voting
      <4> QED  BY <1>1, <1>2, <3>2, <3>5, <4>1 DEF SeenInv
    <3>10. kind' = "lifecycle" /\ step' > 8 => status' = "Settled" /\ winner' = Own2
      BY <1>1, <1>2, <3>2, <3>5 DEF SeenInv
    <3>11. Retried' => kind' = "settle" /\ step' >= CloseAt'
      BY <1>1, <1>2, <3>3, <3>5 DEF SeenInv
    <3> QED  BY <3>6, <3>7, <3>8, <3>9, <3>10, <3>11 DEF SeenInv
  <2> QED  BY <2>1, <2>2
<1> QED  BY <1>4, <1>5, <1>6

LEMMA CloseLeft ==
    ASSUME RunningInv, CloseStep, verdict' = "running", Clean'
    PROVE  LeftAlone'
<1>1. /\ Here = "close" /\ CloseMove
      /\ UNCHANGED <<bids, revealed, seals, ledger, faults>>
      /\ pc'[me] = "asleep" => claims'[me] = {}
      /\ UNCHANGED <<kind, passes, before, meddled>> /\ Lag
      /\ closed'.cleared = (closed.cleared \/ "cleared" \in claims'[me])
      /\ closed'.settled = (closed.settled \/ SettledNow)
      /\ \/ pc'[me] # "asleep" /\ UNCHANGED <<step, final>>
         \/ pc'[me] = "asleep" /\ step' = step + 1 /\ final' = status'
  BY CloseStepMoves
<1>2. /\ kind \in Closing /\ step \in Nat /\ ScriptTypeOK
      /\ kind = "settle" => step = 4
      /\ kind = "agents" => step = 7
      /\ kind = "lifecycle" => step = 7 \/ step = 10
      /\ CloseAt = IF kind = "settle" THEN 4 ELSE 7
      /\ KeepAt = IF kind = "settle" THEN 2 ELSE 5
      /\ step >= CloseAt
  BY <1>1, AtClose
<1>3. LeftAlone /\ (pc[me] = "clear" => ledger > RevealDeadline)
  BY <1>1 DEF RunningInv, Clean, Lag
<1>4. claims[me] = {} \/ pc[me] # "closeRound"  BY DEF RunningInv, CallInv
<1>5. \/ /\ step = CloseAt /\ ~Retried /\ pc[me] = "closeRound"
         /\ pc'[me] = "clear" /\ status' = "Revealing"
      \/ /\ step = CloseAt /\ ~Retried /\ pc[me] = "clear" /\ pc'[me] = "cleared"
         /\ "cleared" \in claims'[me]
         /\ status' = "Cleared" \/ (status' = "Voided" /\ kind = "settle")
      \/ /\ step = CloseAt /\ ~Retried /\ pc[me] = "cleared" /\ pc'[me] = "settle"
         /\ status' = "Cleared"
      \/ /\ step = CloseAt /\ ~Retried /\ pc[me] = "cleared" /\ pc'[me] = "asleep"
         /\ status' = "Voided" /\ kind = "settle"
      \/ /\ step = CloseAt /\ ~Retried /\ pc[me] = "settle" /\ pc'[me] = "asleep"
         /\ status = "Cleared" /\ status' = "Settled"
      \/ /\ step = CloseAt /\ Retried /\ pc[me] = "closeRound" /\ pc'[me] = "asleep"
         /\ status' = "Voided" /\ kind = "settle"
      \/ /\ kind = "lifecycle" /\ step = 10 /\ pc[me] = "closeRound" /\ pc'[me] = "asleep"
         /\ status' = "Settled" /\ claims'[me] = {}
  BY <1>1, <1>3, <1>4, CloseAlone
<1>6. /\ CloseAt' = CloseAt /\ KeepAt' = KeepAt /\ Retried' = Retried
      /\ Index' = Index /\ Own' = Own /\ Bid1At \in 1..2 /\ Bid1At' = Bid1At
  BY <1>1 DEF CloseAt, KeepAt, Retried, Index, Own, Bid1At
<1>7. StatusInv /\ PassInv /\ ClosedInv /\ (kind # "settle" => BidsInv)
  BY <1>2, <1>3 DEF LeftAlone, Closing
<1>8. step' \in {step, step + 1} /\ kind' = kind  BY <1>1
<1>9. ~NotOpened'
  BY <1>2, <1>6, <1>8 DEF NotOpened, Closing
<1>10. StatusInv'
  <2>1. CASE pc'[me] # "asleep"
    <3>1. step' = step /\ step = CloseAt /\ ~Retried  BY <1>1, <1>5, <2>1
    <3>2. CloseBegun' <=> pc'[me] \in {"cleared", "settle"}
      BY <1>2, <1>6, <1>8, <3>1 DEF CloseBegun
    <3>3. \/ pc'[me] = "clear" /\ status' = "Revealing"
          \/ pc'[me] = "cleared" /\ (status' = "Cleared" \/ (status' = "Voided" /\ kind = "settle"))
          \/ pc'[me] = "settle" /\ status' = "Cleared"
      BY <1>5, <2>1, <3>1
    <3> QED  BY <1>2, <1>6, <1>8, <1>9, <3>1, <3>2, <3>3 DEF StatusInv
  <2>2. CASE pc'[me] = "asleep"
    <3>1. step' = step + 1 /\ step' > CloseAt'  BY <1>1, <1>2, <1>6, <2>2
    <3>2. CloseBegun'  BY <1>2, <1>8, <3>1 DEF CloseBegun
    <3>3. status' = "Settled" \/ (status' = "Voided" /\ kind = "settle")  BY <1>5, <2>2
    <3>4. step' # CloseAt'  BY <1>2, <1>6, <3>1
    <3> QED  BY <1>8, <1>9, <3>1, <3>2, <3>3, <3>4 DEF StatusInv
  <2> QED  BY <2>1, <2>2
<1>11. kind # "settle" => BidsInv'
  <2>1. SUFFICES ASSUME kind # "settle" PROVE BidsInv'  OBVIOUS
  <2>2. step > 4 /\ step' > 4 /\ kind \in TwoBids  BY <1>2, <1>8, <2>1 DEF Closing, TwoBids
  <2> QED  BY <1>1, <1>2, <1>6, <1>7, <2>1, <2>2 DEF BidsInv
<1>12. PassInv'
  <2>1. step' # KeepAt' /\ kind' # "keeper"  BY <1>2, <1>6, <1>8 DEF Closing
  <2> QED  BY ONLY <2>1 DEF PassInv
<1>13. ClosedInv'
  <2>1. step' = CloseAt' /\ pc'[me] \in {"cleared", "settle"} => closed'.cleared
    <3>1. SUFFICES ASSUME step' = CloseAt', pc'[me] \in {"cleared", "settle"}
                   PROVE  closed'.cleared
      OBVIOUS
    <3>2. step = CloseAt  BY <1>1, <1>6, <3>1
    <3>3. "cleared" \in claims'[me] \/ pc[me] = "cleared"  BY <1>5, <3>1
    <3> QED  BY <1>1, <1>7, <3>2, <3>3 DEF ClosedInv
  <2>2. step' = CloseAt' + 1 =>
            final' = status' /\ (kind' # "settle" => closed'.cleared /\ closed'.settled)
    <3>1. SUFFICES ASSUME step' = CloseAt' + 1
                   PROVE  final' = status' /\ (kind' # "settle" => closed'.cleared /\ closed'.settled)
      OBVIOUS
    <3>2. step = CloseAt /\ pc'[me] = "asleep" /\ final' = status'
      BY <1>1, <1>2, <1>6, <3>1 DEF Closing
    <3>3. kind # "settle" => pc[me] = "settle" /\ SettledNow
      BY <1>2, <1>5, <3>2 DEF SettledNow, Closing
    <3> QED  BY <1>1, <1>7, <1>8, <3>2, <3>3 DEF ClosedInv
  <2>3. kind' = "lifecycle" /\ step' = 10 => pc'[me] \in {"asleep", "closeRound"}
    BY <1>1, <1>2, <1>5, <1>8
  <2>4. kind' = "lifecycle" /\ ((step' = 10 /\ pc'[me] = "closeRound") \/ step' = 11) =>
            ~closed'.cleared /\ ~closed'.settled
    <3>1. SUFFICES ASSUME kind = "lifecycle", (step' = 10 /\ pc'[me] = "closeRound") \/ step' = 11
                   PROVE  ~closed'.cleared /\ ~closed'.settled
      BY <1>8
    <3>2. step = 10 /\ pc[me] = "closeRound" /\ claims'[me] = {}
      BY <1>1, <1>2, <1>5, <1>8, <3>1
    <3> QED  BY <1>1, <1>7, <3>1, <3>2 DEF ClosedInv, SettledNow
  <2>5. kind' = "lifecycle" /\ step' = 11 => final' = "Settled"
    BY <1>1, <1>2, <1>5, <1>8
  <2> QED  BY <2>1, <2>2, <2>3, <2>4, <2>5 DEF ClosedInv
<1> QED  BY <1>2, <1>8, <1>10, <1>11, <1>12, <1>13 DEF LeftAlone, Closing

(* An undisturbed script is not refused by closeRound. *)
LEMMA CloseStepKeeps ==
    ASSUME RunningInv, CloseStep PROVE ScriptIInv'
<1>1. /\ Here = "close" /\ verdict = "running" /\ CloseMove /\ Core'
      /\ UNCHANGED <<faults, meddled>> /\ Lag
      /\ \/ verdict' = "running"
         \/ /\ pc'[me] = "asleep" /\ pc[me] \in {"clear", "settle"} /\ ~SettledNow
            /\ verdict' = "failed"
  BY CloseStepMoves
<1>2. faults \in Nat /\ meddled \in Nat
  BY ShapeAssumption DEF RunningInv, IInv, TypeOK, KeeperTypeOK, ScriptTypeOK
<1>3. CASE verdict' = "running"
  <2>1. ScriptTypeOK' /\ CallInv' /\ SeenInv'  BY <1>3, CloseTyped
  <2>2. Clean' => LeftAlone'  BY <1>3, CloseLeft
  <2> QED  BY <1>1, <1>3, <2>1, <2>2, WentOn DEF RunningInv, Core
<1>4. CASE verdict' # "running"
  <2>1. ~Clean'
    <3>1. SUFFICES ASSUME Clean' PROVE FALSE  OBVIOUS
    <3>2. LeftAlone /\ (pc[me] = "clear" => ledger > RevealDeadline)
      BY <1>1, <3>1 DEF RunningInv, Clean, Lag
    <3>3. claims[me] = {} \/ pc[me] # "closeRound"  BY DEF RunningInv, CallInv
    <3>4. pc[me] \in {"clear", "settle"} /\ pc'[me] = "asleep" => SettledNow
      BY <1>1, <3>2, <3>3, CloseAlone DEF SettledNow
    <3> QED  BY <1>1, <1>4, <3>4
  <2> QED  BY <1>1, <1>2, <1>4, <2>1, Caused
<1> QED  BY <1>3, <1>4

----------------------------------------------------------------------------
LEMMA ScriptInitInv ==
    ASSUME ScriptInit PROVE ScriptIInv
<1>1. /\ Init /\ kind \in Kinds /\ step = 1 /\ verdict = "running" /\ passes = 0
      /\ final = "none" /\ closed = [cleared |-> FALSE, settled |-> FALSE]
      /\ before = [till |-> 0, vault |-> 0, w1 |-> 0, w2 |-> 0]
      /\ blame = {} /\ meddled = 0
  BY DEF ScriptInit
<1>2. IInv /\ FundsConserved /\ SettlementExact
  BY <1>1, InitInv, FundsInit, RoundInitInv DEF Init
<1>3. ScriptTypeOK
  <2>2. 1 \in 1..Len(Plan[kind])
    <3>1. CASE kind = "agents"
      <4>1. Plan[kind] = AgentsPlan  BY <3>1 DEF Plan
      <4> QED  BY <4>1 DEF AgentsPlan
    <3>2. CASE kind = "lifecycle"
      <4>1. Plan[kind] = LifecyclePlan  BY <3>2 DEF Plan
      <4> QED  BY <4>1 DEF LifecyclePlan
    <3>3. CASE kind = "keeper"
      <4>1. Plan[kind] = KeeperPlan  BY <3>3 DEF Plan
      <4> QED  BY <4>1 DEF KeeperPlan
    <3>4. CASE kind = "settle"
      <4>1. Plan[kind] = SettlePlan  BY <3>4 DEF Plan
      <4> QED  BY <4>1 DEF SettlePlan
    <3>5. CASE kind \in {"micro", "verify"}
      <4>1. Plan[kind] = IF kind = "micro" THEN <<"bid1">> ELSE <<"verify">>  BY <3>5 DEF Plan
      <4> QED  BY <4>1
    <3>6. CASE kind = "smoke"
      <4>1. Plan[kind] = SmokePlan  BY <3>6 DEF Plan
      <4> QED  BY <4>1 DEF SmokePlan
    <3> QED  BY <1>1, <3>1, <3>2, <3>3, <3>4, <3>5, <3>6 DEF Kinds
  <2> QED  BY <1>1, <2>2 DEF ScriptTypeOK
<1>4. pc[me] = "asleep" /\ claims[me] = {}
  BY <1>1, ScriptAssumption DEF Init
<1>5. CallInv  BY <1>4 DEF CallInv, KeepLabels, CloseLabels
<1>6. /\ Bid1At \in 1..2 /\ KeepAt \in {2, 5} /\ CloseAt \in {4, 7} /\ ~Retried
      /\ kind = "lifecycle" => Bid1At = 2
  BY <1>1, ScriptAssumption DEF Bid1At, KeepAt, CloseAt, Retried
<1>7. SeenInv  BY <1>1, <1>6 DEF SeenInv
<1>8. /\ status = "Open" /\ vault = 0 /\ bids = [b \in Bidder |-> NoBid]
  BY <1>1 DEF Init, RoundInit
<1>9. LeftAlone
  <2>1. StatusInv  BY <1>1, <1>6, <1>8 DEF StatusInv, NotOpened, CloseBegun
  <2>2. BidsInv
    <3>1. Index = {}  BY <1>8 DEF Index
    <3> QED  BY <1>1, <1>6, <1>8, <3>1 DEF BidsInv
  <2>3. PassInv  BY <1>1, <1>6 DEF PassInv
  <2>4. ClosedInv  BY <1>1, <1>6 DEF ClosedInv
  <2>5. ~(kind = "keeper" /\ step = 4)  BY <1>1
  <2> QED  BY <2>1, <2>2, <2>3, <2>4, <2>5 DEF LeftAlone
<1>10. ReportTrue /\ FailsOnlyForCause  BY <1>1 DEF ReportTrue, FailsOnlyForCause
<1> QED  BY <1>1, <1>2, <1>3, <1>5, <1>7, <1>9, <1>10 DEF ScriptIInv, RunningInv

LEMMA ScriptStepInv ==
    ASSUME ScriptIInv, [ScriptNext]_allVars PROVE ScriptIInv'
<1>1. CASE UNCHANGED allVars
  <2>1. UNCHANGED vars /\ UNCHANGED scriptVars  BY <1>1 DEF allVars
  <2>2. /\ verdict' = verdict /\ kind' = kind /\ step' = step /\ Here' = Here /\ pc' = pc
        /\ UNCHANGED <<passes, final, closed, before, blame, meddled, faults, status, bids,
                       revealed, seals, vault, ledger, winner, claims, revealedBy, skipped,
                       current, till, wallet, Waited>>
    BY <2>1 DEF vars, scriptVars, Here, Waited
  <2>3. CASE verdict = "running"
    <3>1. RunningInv  BY <2>3 DEF ScriptIInv
    <3>2. Core'  BY <2>1, <3>1, CoreStay DEF RunningInv, Core
    <3>3. ScriptTypeOK' /\ CallInv'  BY <2>2, <3>1 DEF RunningInv, ScriptTypeOK, CallInv
    <3>4. SeenInv'
      BY <2>2, <3>1 DEF RunningInv, SeenInv, Bid1At, KeepAt, CloseAt, Retried, FirstBid, SecondBid
    <3>5. Clean' => LeftAlone'
      <4>1. SUFFICES ASSUME Clean' PROVE LeftAlone'  OBVIOUS
      <4>2. LeftAlone /\ ScriptTypeOK
        <5>1. Clean  BY <2>2, <4>1 DEF Clean
        <5> QED  BY <3>1, <5>1 DEF RunningInv
      <4>3. UNCHANGED keeperVars /\ UNCHANGED scriptVars /\ seals \subseteq seals'
            /\ UNCHANGED <<status, revealed, bids, vault, ledger>>
        BY <2>1, <2>2 DEF vars, keeperVars
      <4> QED  BY <4>2, <4>3, AloneKept
    <3>6. verdict' = "running"  BY <2>2, <2>3
    <3> QED  BY <3>2, <3>3, <3>4, <3>5, <3>6, WentOn DEF RunningInv, Core
  <2>4. CASE verdict # "running"
    <3>1. ReportTrue'
      BY <2>2 DEF ScriptIInv, ReportTrue, AgentsReport, Valid, Eligible
    <3>2. FailsOnlyForCause'  BY <2>2 DEF ScriptIInv, FailsOnlyForCause, Index
    <3> QED  BY <2>2, <2>4, <3>1, <3>2 DEF ScriptIInv
  <2> QED  BY <2>3, <2>4
<1>2. CASE ScriptNext
  <2>1. verdict = "running" /\ RunningInv  BY <1>2 DEF ScriptNext, ScriptIInv
  <2>2. CASE ScriptStep
    BY <2>1, <2>2, CheckIndexKeeps, CheckLockedKeeps, CheckClosedKeeps, CheckClosedAgainKeeps,
       CheckBalancesKeeps, CheckVerifyKeeps, CheckBidStateKeeps, CheckStatusKeeps,
       ReadBalancesKeeps, CommitKeeps, CommitMicroKeeps, StartKeepKeeps, KeepStepKeeps,
       RepassKeeps, PassDoneKeeps, WaitDeadlineKeeps, StartCloseKeeps, CloseStepKeeps,
       RetryCloseKeeps DEF ScriptStep
  <2>3. CASE CallFails  BY <2>1, <2>3, CallFailsKeeps
  <2>4. CASE World  BY <2>1, <2>4, WorldKeeps
  <2> QED  BY <1>2, <2>2, <2>3, <2>4 DEF ScriptNext, World
<1> QED  BY <1>1, <1>2

(* What a script that is still running knows of the round at each of its   *)
(* places (E2E's inductive invariant) holds in every run of every script.  *)
THEOREM ScriptInductive == ScriptSpec => []ScriptIInv
<1>1. ScriptInit => ScriptIInv  BY ScriptInitInv
<1>2. ScriptIInv /\ [ScriptNext]_allVars => ScriptIInv'  BY ScriptStepInv
<1> QED  BY <1>1, <1>2, PTL DEF ScriptSpec

(* A script that passes (agents-e2e, lifecycle-e2e, keeper-e2e, the mainnet *)
(* runners, live-smoke) reports what is so, whatever strangers, failing     *)
(* calls, a late beacon and its own delays did to it.                       *)
THEOREM ReportsAreTrue == ScriptSpec => []ReportTrue
<1>1. ScriptIInv => ReportTrue  BY DEF ScriptIInv
<1> QED  BY <1>1, ScriptInductive, PTL

(* A script that fails was disturbed: by a stranger, a failing call, a late *)
(* beacon, a ledger further behind than the margin it left, its own         *)
(* lateness or bad input, with the named exceptions of the mainnet runners. *)
(* Nothing is assumed of how far ledgers lag.                               *)
THEOREM FailuresHaveCauses == ScriptSpec => []FailsOnlyForCause
<1>1. ScriptIInv => FailsOnlyForCause  BY DEF ScriptIInv
<1> QED  BY <1>1, ScriptInductive, PTL

=============================================================================
