---------------------------- MODULE RiseInPanel ----------------------------
(***************************************************************************)
(* The Rise In panel (apps/web/src/components/RiseInOrangePanel.tsx with   *)
(* lib/risein-contract.ts and lib/risein-stellar.ts): browser tabs that    *)
(* connect a wallet, send transactions to the Rise In contract and show    *)
(* what came of them.  Every await is a step of its own; between two steps *)
(* transactions land or expire, and other tabs, of the same wallet or of   *)
(* another, act.  Continuations that run without an await in between are   *)
(* one step.                                                               *)
(*                                                                         *)
(* pc[t] names the call tab t is waiting for, call[t] holds the handler's  *)
(* local variables.                                                        *)
(***************************************************************************)
EXTENDS RiseInRound, Sequences

CONSTANTS
    Tab,
    Offered,    \* which of the panel's three forms the users submit
    MaxTx,      \* bound on transactions sent
    MaxPolls    \* polls of a sent transaction (30 in the code)

ASSUME PanelAssumption ==
    /\ Offered \subseteq {"pay", "create", "commit"}
    /\ MaxTx \in Nat /\ MaxPolls \in Nat \ {0}

VARIABLES
    sequence,   \* [Wallet -> the ledger's sequence number of the account]
    sent,       \* transactions ever accepted by an RPC or Horizon server
    fate,       \* what became of each: "pending", "success", "failed", "dropped"
    address,    \* [Tab -> the connected wallet or NoOne]
    field,      \* [Tab -> what the Round ID input holds]
    shown,      \* [Tab -> the contract state displayed, or NoRound]
    evidence,   \* [Tab -> "Latest commitment", or NoEvidence]
    feedback,   \* [Tab -> the feedback displayed]
    busy,       \* [Tab -> BusyState, "none" for null]
    pc,
    call

networkVars == <<sequence, sent, fate>>
viewVars == <<address, field, shown, evidence>>
vars == <<owner, count, commits, sequence, sent, fate, address, field, shown,
          evidence, feedback, busy, pc, call>>

Kinds == {"connect", "balance", "pay", "create", "commit", "sync"}
NoRound == [id |-> 0, owner |-> NoOne, count |-> 0]
NoEvidence == [id |-> 0, by |-> NoOne, entry |-> NoEntry]
NoFeedback == [kind |-> "none", of |-> "none", tx |-> 0]
NewCall(kind, id, entry) ==
    [kind |-> kind, id |-> id, entry |-> entry, seq |-> 0, tx |-> 0, polls |-> 0]
NoCall == NewCall("none", 0, NoEntry)

TypeOK ==
    /\ ContractTypeOK
    /\ sequence \in [Wallet -> Nat]
    /\ Len(sent) <= MaxTx /\ DOMAIN fate = DOMAIN sent
    /\ \A i \in DOMAIN sent :
          /\ sent[i].src \in Wallet /\ sent[i].kind \in {"pay", "create", "commit"}
          /\ fate[i] \in {"pending", "success", "failed", "dropped"}
    /\ address \in [Tab -> Wallet \cup {NoOne}] /\ field \in [Tab -> RoundId]
    /\ \A t \in Tab : call[t].polls < MaxPolls /\ call[t].tx \in 0..Len(sent)

(* Rounds may have been created before these tabs were opened. *)
Init ==
    /\ owner \in [RoundId -> Wallet \cup {NoOne}]
    /\ count = [id \in RoundId |-> 0]
    /\ commits = [key \in RoundId \X Wallet |-> NoEntry]
    /\ sequence = [w \in Wallet |-> 0] /\ sent = <<>> /\ fate = <<>>
    /\ address = [t \in Tab |-> NoOne]
    /\ field \in [Tab -> RoundId]
    /\ shown = [t \in Tab |-> NoRound] /\ evidence = [t \in Tab |-> NoEvidence]
    /\ feedback = [t \in Tab |-> NoFeedback]
    /\ busy = [t \in Tab |-> "none"] /\ pc = [t \in Tab |-> "idle"]
    /\ call = [t \in Tab |-> NoCall]

----------------------------------------------------------------------------
(* The network *)

Panics(tx) ==
    CASE tx.kind = "create" -> CreatePanics(tx.id, FALSE)
      [] tx.kind = "commit" -> CommitPanics(tx.id, tx.src)
      [] OTHER -> FALSE

(* A ledger includes a transaction whose sequence number is the account's  *)
(* next; its operation applies, or it fails and changes nothing else.      *)
Land(i) ==
    LET tx == sent[i] IN
    /\ fate[i] = "pending" /\ tx.seq = sequence[tx.src] + 1
    /\ sequence' = [sequence EXCEPT ![tx.src] = @ + 1]
    /\ \/ /\ tx.kind = "create" /\ create_round(tx.id, tx.src, FALSE)
          /\ fate' = [fate EXCEPT ![i] = "success"]
       \/ /\ tx.kind = "commit" /\ submit_commit(tx.id, tx.src, tx.entry)
          /\ fate' = [fate EXCEPT ![i] = "success"]
       \/ /\ tx.kind = "pay" /\ UNCHANGED contractVars
          /\ fate' \in {[fate EXCEPT ![i] = f] : f \in {"success", "failed"}}
       \/ /\ Panics(tx) /\ UNCHANGED contractVars
          /\ fate' = [fate EXCEPT ![i] = "failed"]
    /\ UNCHANGED <<sent, feedback, busy, pc, call>> /\ UNCHANGED viewVars

(* Its time bounds pass, or its sequence number is taken. *)
Expire(i) ==
    /\ fate[i] = "pending"
    /\ fate' = [fate EXCEPT ![i] = "dropped"]
    /\ UNCHANGED <<sequence, sent, feedback, busy, pc, call>>
    /\ UNCHANGED viewVars /\ UNCHANGED contractVars

----------------------------------------------------------------------------
(* Control *)

Goto(t, l, b) == pc' = [pc EXCEPT ![t] = l] /\ busy' = [busy EXCEPT ![t] = b]

Return(t) == Goto(t, "idle", "none") /\ call' = [call EXCEPT ![t] = NoCall]

Say(t, kind) ==
    feedback' = [feedback EXCEPT ![t] =
                   [kind |-> kind, of |-> call[t].kind, tx |-> call[t].tx]]

(* The catch of every handler: an error under the handler's own label. *)
Fail(t) ==
    /\ Say(t, "error") /\ Return(t)
    /\ UNCHANGED viewVars /\ UNCHANGED networkVars /\ UNCHANGED contractVars

Idle(t) == pc[t] = "idle" /\ busy[t] = "none"

----------------------------------------------------------------------------
(* Wallet *)

connectWallet(t) ==
    /\ Idle(t) /\ address[t] = NoOne
    /\ Goto(t, "access", "connecting")
    /\ call' = [call EXCEPT ![t] = NewCall("connect", 0, NoEntry)]
    /\ feedback' = [feedback EXCEPT ![t] = NoFeedback]
    /\ UNCHANGED viewVars /\ UNCHANGED networkVars /\ UNCHANGED contractVars

(* The wallet answers with an account, on Testnet, or with an error. *)
Access(t) ==
    /\ pc[t] = "access"
    /\ \/ Fail(t)
       \/ /\ \E w \in Wallet : address' = [address EXCEPT ![t] = w]
          /\ Goto(t, "balance", "refreshing")
          /\ UNCHANGED <<field, shown, evidence, feedback, call>>
          /\ UNCHANGED networkVars /\ UNCHANGED contractVars

refreshBalance(t) ==
    /\ Idle(t) /\ address[t] # NoOne
    /\ Goto(t, "balance", "refreshing")
    /\ call' = [call EXCEPT ![t] = NewCall("balance", 0, NoEntry)]
    /\ UNCHANGED feedback
    /\ UNCHANGED viewVars /\ UNCHANGED networkVars /\ UNCHANGED contractVars

(* A balance that cannot be read is reported, but not over a payment. *)
BalanceRead(t) ==
    /\ pc[t] = "balance"
    /\ \/ call[t].kind = "pay" /\ Say(t, "success")
       \/ call[t].kind # "pay" /\ (UNCHANGED feedback \/ Say(t, "error"))
    /\ Return(t)
    /\ UNCHANGED viewVars /\ UNCHANGED networkVars /\ UNCHANGED contractVars

(* mutant: leaves the evidence of the last wallet on the page *)
disconnectWalletKeeps(t) ==
    /\ Idle(t) /\ address[t] # NoOne
    /\ address' = [address EXCEPT ![t] = NoOne]
    /\ shown' = [shown EXCEPT ![t] = NoRound]
    /\ feedback' = [feedback EXCEPT ![t] = NoFeedback]
    /\ UNCHANGED <<field, evidence, busy, pc, call>>
    /\ UNCHANGED networkVars /\ UNCHANGED contractVars

disconnectWallet(t) ==
    /\ Idle(t) /\ address[t] # NoOne
    /\ address' = [address EXCEPT ![t] = NoOne]
    /\ shown' = [shown EXCEPT ![t] = NoRound]
    /\ evidence' = [evidence EXCEPT ![t] = NoEvidence]
    /\ feedback' = [feedback EXCEPT ![t] = NoFeedback]
    /\ UNCHANGED <<field, busy, pc, call>>
    /\ UNCHANGED networkVars /\ UNCHANGED contractVars

editRoundId(t) ==
    /\ Idle(t)
    /\ \E id \in RoundId \ {field[t]} : field' = [field EXCEPT ![t] = id]
    /\ UNCHANGED <<address, shown, evidence, feedback, busy, pc, call>>
    /\ UNCHANGED networkVars /\ UNCHANGED contractVars

----------------------------------------------------------------------------
(* sendPayment, createRound, submitCommit: invoke, then read back *)

BusyAs(kind) ==
    CASE kind = "pay" -> "sending" [] kind = "create" -> "creating"
      [] kind = "commit" -> "committing" [] OTHER -> "syncing"

(* Clears the feedback; invalid input is refused on the spot. *)
Submit(t, kind, entry) ==
    /\ Idle(t) /\ address[t] # NoOne /\ kind \in Offered
    /\ \/ /\ feedback' = [feedback EXCEPT ![t] = [kind |-> "error", of |-> kind, tx |-> 0]]
          /\ UNCHANGED <<busy, pc, call>>
       \/ /\ feedback' = [feedback EXCEPT ![t] = NoFeedback]
          /\ Goto(t, "account", BusyAs(kind))
          /\ call' = [call EXCEPT ![t] = NewCall(kind, field[t], entry)]
    /\ UNCHANGED viewVars /\ UNCHANGED networkVars /\ UNCHANGED contractVars

sendPayment(t) == Submit(t, "pay", NoEntry)
createRound(t) == Submit(t, "create", NoEntry)
submitCommit(t) == \E e \in Entry : Submit(t, "commit", e)

(* The next sequence number as of now: it may be taken when this           *)
(* transaction is sent, or by one that is still pending.                   *)
sourceAccount(t) ==
    /\ pc[t] = "account"
    /\ \/ Fail(t)
       \/ /\ call' = [call EXCEPT ![t].seq = sequence[address[t]] + 1]
          /\ Goto(t, IF call[t].kind = "pay" THEN "sign" ELSE "prepare", busy[t])
          /\ UNCHANGED feedback
          /\ UNCHANGED viewVars /\ UNCHANGED networkVars /\ UNCHANGED contractVars

Transaction(t) ==
    [src |-> address[t], seq |-> call[t].seq, kind |-> call[t].kind,
     id |-> call[t].id, entry |-> call[t].entry]

(* prepareTransaction simulates, and throws what the simulation throws. *)
prepareTransaction(t) ==
    /\ pc[t] = "prepare"
    /\ \/ Fail(t)
       \/ /\ ~Panics(Transaction(t))
          /\ Goto(t, "sign", busy[t])
          /\ UNCHANGED <<feedback, call>>
          /\ UNCHANGED viewVars /\ UNCHANGED networkVars /\ UNCHANGED contractVars

(* Freighter left Testnet, the user refused, or a signature. *)
signXdr(t) ==
    /\ pc[t] = "sign"
    /\ \/ Fail(t)
       \/ /\ Goto(t, "send", busy[t])
          /\ UNCHANGED <<feedback, call>>
          /\ UNCHANGED viewVars /\ UNCHANGED networkVars /\ UNCHANGED contractVars

(* The server refuses, or accepts; then its answer may still be lost. *)
sendTransaction(t) ==
    /\ pc[t] = "send"
    /\ \/ Fail(t)
       \/ /\ Len(sent) < MaxTx
          /\ sent' = Append(sent, Transaction(t))
          /\ fate' = Append(fate, "pending")
          /\ \/ /\ Goto(t, IF call[t].kind = "pay" THEN "horizon" ELSE "poll", busy[t])
                /\ call' = [call EXCEPT ![t].tx = Len(sent) + 1]
                /\ UNCHANGED feedback
             \/ /\ feedback' = [feedback EXCEPT ![t] =
                       [kind |-> "error", of |-> call[t].kind, tx |-> Len(sent) + 1]]
                /\ Return(t)
          /\ UNCHANGED sequence /\ UNCHANGED viewVars /\ UNCHANGED contractVars

(* mutant: takes a sent transaction for a stored one *)
pollTransactionBlind(t) ==
    /\ pc[t] = "poll"
    /\ Goto(t, "sync", "syncing")
    /\ evidence' = IF call[t].kind = "create" THEN evidence
                   ELSE [evidence EXCEPT ![t] = [id |-> call[t].id, by |-> address[t],
                                                 entry |-> call[t].entry]]
    /\ UNCHANGED <<address, field, shown, feedback, call>>
    /\ UNCHANGED networkVars /\ UNCHANGED contractVars

(* mutant: polls for as long as the transaction is not found *)
pollTransactionForever(t) ==
    /\ pc[t] = "poll"
    /\ \/ fate[call[t].tx] = "failed" /\ Fail(t)
       \/ /\ fate[call[t].tx] = "success"
          /\ Goto(t, "sync", "syncing")
          /\ UNCHANGED <<call, feedback>> /\ UNCHANGED viewVars
          /\ UNCHANGED networkVars /\ UNCHANGED contractVars

(* mutant: one poll too many *)
pollTransactionMore(t) ==
    /\ pc[t] = "poll" /\ fate[call[t].tx] = "pending" /\ call[t].polls < MaxPolls
    /\ call' = [call EXCEPT ![t].polls = @ + 1]
    /\ UNCHANGED <<feedback, busy, pc>>
    /\ UNCHANGED viewVars /\ UNCHANGED networkVars /\ UNCHANGED contractVars

(* One of MaxPolls polls.  A stored commitment is shown before read back.  *)
pollTransaction(t) ==
    /\ pc[t] = "poll"
    /\ \/ Fail(t)
       \/ /\ fate[call[t].tx] \in {"pending", "dropped"} /\ call[t].polls + 1 < MaxPolls
          /\ call' = [call EXCEPT ![t].polls = @ + 1]
          /\ UNCHANGED <<feedback, busy, pc>>
          /\ UNCHANGED viewVars /\ UNCHANGED networkVars /\ UNCHANGED contractVars
       \/ /\ fate[call[t].tx] = "success"
          /\ Goto(t, "sync", "syncing")
          /\ evidence' = IF call[t].kind = "create" THEN evidence
                         ELSE [evidence EXCEPT ![t] = [id |-> call[t].id, by |-> address[t],
                                                       entry |-> call[t].entry]]
          /\ UNCHANGED <<address, field, shown, feedback, call>>
          /\ UNCHANGED networkVars /\ UNCHANGED contractVars

(* submitTransaction waits for the ledger, or for its own timeout. *)
submitTransaction(t) ==
    /\ pc[t] = "horizon"
    /\ \/ Fail(t)
       \/ /\ fate[call[t].tx] = "success"
          /\ Goto(t, "balance", "refreshing")
          /\ UNCHANGED <<feedback, call>>
          /\ UNCHANGED viewVars /\ UNCHANGED networkVars /\ UNCHANGED contractVars

refreshState(t) ==
    /\ Idle(t) /\ address[t] # NoOne
    /\ Goto(t, "sync", "syncing")
    /\ call' = [call EXCEPT ![t] = NewCall("sync", field[t], NoEntry)]
    /\ UNCHANGED feedback
    /\ UNCHANGED viewVars /\ UNCHANGED networkVars /\ UNCHANGED contractVars

(* mutant: counts the caller's own commitment before reading it back *)
syncStateOptimistic(t) ==
    LET id == call[t].id IN
    /\ pc[t] = "sync"
    /\ shown' = [shown EXCEPT ![t] = [id |-> id, owner |-> owner[id], count |-> count[id] + 1]]
    /\ Return(t)
    /\ UNCHANGED <<address, field, evidence, feedback>>
    /\ UNCHANGED networkVars /\ UNCHANGED contractVars

(* getRiseInRound, then success for the handler that asked; a read that    *)
(* throws fails that handler, whatever its transaction did.                *)
syncState(t) ==
    LET id == call[t].id IN
    /\ pc[t] = "sync"
    /\ \/ Fail(t)
       \/ /\ shown' = [shown EXCEPT ![t] =
                         IF HasRound(id)
                         THEN [id |-> id, owner |-> owner[id], count |-> count[id]]
                         ELSE NoRound]
          /\ CASE call[t].kind # "sync" -> Say(t, "success")
               [] call[t].kind = "sync" /\ ~HasRound(id) -> Say(t, "error")
               [] OTHER -> UNCHANGED feedback
          /\ Return(t)
          /\ UNCHANGED <<address, field, evidence>>
          /\ UNCHANGED networkVars /\ UNCHANGED contractVars

----------------------------------------------------------------------------

User(t) ==
    \/ connectWallet(t) \/ refreshBalance(t) \/ disconnectWallet(t) \/ editRoundId(t)
    \/ sendPayment(t) \/ createRound(t) \/ submitCommit(t) \/ refreshState(t)

Wallets(t) == Access(t) \/ signXdr(t)

Answers(t) ==
    \/ BalanceRead(t) \/ sourceAccount(t) \/ prepareTransaction(t)
    \/ sendTransaction(t) \/ pollTransaction(t) \/ submitTransaction(t) \/ syncState(t)

Next ==
    \/ \E t \in Tab : User(t) \/ Wallets(t) \/ Answers(t)
    \/ \E i \in DOMAIN sent : Land(i) \/ Expire(i)

Spec == Init /\ [][Next]_vars

(* Every network call is answered or throws.  Nothing makes the user act,  *)
(* the wallet's window close or a transaction land.                        *)
Fairness == \A t \in Tab : WF_vars(Answers(t))

FairSpec == Spec /\ Fairness

----------------------------------------------------------------------------
(* Properties *)

Landed(kind, id) ==
    {i \in DOMAIN sent : fate[i] = "success" /\ sent[i].kind = kind /\ sent[i].id = id}

(* However often tabs retry after lost answers, timeouts and stale         *)
(* sequence numbers, a round is created once, a wallet's commitment is     *)
(* stored once and is the one its only successful transaction carried,     *)
(* and commit_count counts exactly those.                                  *)
OnceEach ==
    \A id \in RoundId :
        /\ \A i, j \in Landed("create", id) : i = j
        /\ \A i \in Landed("create", id) : owner[id] = sent[i].src
        /\ \A i, j \in Landed("commit", id) : sent[i].src = sent[j].src => i = j
        /\ \A i \in Landed("commit", id) : commits[<<id, sent[i].src>>] = sent[i].entry
        /\ count[id] = Cardinality(Landed("commit", id))
        /\ count[id] = Cardinality(Committers(id))

(* What the panel offers as evidence is on chain: the transaction it links *)
(* succeeded and is the connected wallet's, and the latest commitment is   *)
(* what the contract holds for that wallet.                                *)
EvidenceHolds ==
    \A t \in Tab :
        /\ feedback[t].kind = "success" =>
              /\ fate[feedback[t].tx] = "success"
              /\ sent[feedback[t].tx].kind = feedback[t].of
              /\ sent[feedback[t].tx].src = address[t]
        /\ evidence[t] # NoEvidence =>
              /\ evidence[t].by = address[t]
              /\ commits[<<evidence[t].id, evidence[t].by>>] = evidence[t].entry

(* The state shown is one the contract has been in: a round that exists,   *)
(* with its owner, and never more commitments than there are.              *)
ShownWasTrue ==
    \A t \in Tab :
        shown[t] # NoRound =>
            /\ owner[shown[t].id] = shown[t].owner /\ shown[t].owner # NoOne
            /\ shown[t].count <= count[shown[t].id]

(* Once its transaction is sent an operation ends, whatever the network    *)
(* does with the transaction, and gives the buttons back: `busy' is reset  *)
(* on every path through the calls it makes (poll, syncState,              *)
(* refreshBalance).                                                        *)
SentSettles ==
    \A t \in Tab :
        pc[t] \in {"poll", "horizon", "sync", "balance"} ~> pc[t] = "idle" /\ busy[t] = "none"

(* RiseInOrangePanel.tsx:241 and 277: "Create round failed", "Commit       *)
(* failed" are said of transactions that did not succeed.                  *)
FailedMeansFailed ==
    \A t \in Tab :
        (feedback[t].kind = "error" /\ feedback[t].tx # 0) => fate[feedback[t].tx] # "success"

(* RiseInOrangePanel.tsx:445 and 450: the state shown under "Round #id",   *)
(* "getter-synchronized", is that of round id.                             *)
ShownUnderItsId == \A t \in Tab : shown[t] # NoRound => shown[t].id = field[t]

=============================================================================
