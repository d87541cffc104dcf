---------------------------- MODULE RiseInRound ----------------------------
(***************************************************************************)
(* The Rise In educational contract (contracts/rise-in-round/src/lib.rs):  *)
(* rounds created once each, and one 32-byte commitment per participant    *)
(* and round.  An operation either applies as a whole or panics and        *)
(* changes nothing.  A round's title and creation time are written with    *)
(* its owner, once, and never read by the contract: `owner' stands for     *)
(* all three, NoOne for an absent Round key.                               *)
(***************************************************************************)
EXTENDS Integers, FiniteSets

CONSTANTS Wallet, RoundId, Entry, NoOne, NoEntry

ASSUME RiseInAssumption ==
    /\ NoOne \notin Wallet /\ NoEntry \notin Entry
    /\ IsFiniteSet(Wallet)

VARIABLES
    owner,      \* [RoundId -> Wallet or NoOne]: DataKey::Round
    count,      \* [RoundId -> commit_count]
    commits     \* [RoundId \X Wallet -> Entry or NoEntry]: DataKey::Commit

contractVars == <<owner, count, commits>>

ContractTypeOK ==
    /\ owner \in [RoundId -> Wallet \cup {NoOne}]
    /\ count \in [RoundId -> Nat]
    /\ commits \in [RoundId \X Wallet -> Entry \cup {NoEntry}]

HasRound(id) == owner[id] # NoOne                               \* get_round
HasCommit(id, w) == commits[<<id, w>>] # NoEntry                \* get_commit
Committers(id) == {w \in Wallet : HasCommit(id, w)}

(* mutant: no look at the round's own key *)
create_roundAgain(id, w, empty) ==
    /\ ~empty
    /\ owner' = [owner EXCEPT ![id] = w]
    /\ count' = [count EXCEPT ![id] = 0]
    /\ UNCHANGED commits

create_round(id, w, empty) ==
    /\ ~empty /\ ~HasRound(id)
    /\ owner' = [owner EXCEPT ![id] = w]
    /\ count' = [count EXCEPT ![id] = 0]
    /\ UNCHANGED commits

submit_commit(id, w, e) ==
    /\ HasRound(id) /\ ~HasCommit(id, w)
    /\ commits' = [commits EXCEPT ![<<id, w>>] = e]
    /\ count' = [count EXCEPT ![id] = @ + 1]
    /\ UNCHANGED owner

(* What makes an operation panic (and its simulation fail). *)
CreatePanics(id, empty) == empty \/ HasRound(id)
CommitPanics(id, w) == ~HasRound(id) \/ HasCommit(id, w)

=============================================================================
