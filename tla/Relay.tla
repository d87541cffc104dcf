-------------------------------- MODULE Relay --------------------------------
(***************************************************************************)
(* The SDK client (packages/sdk/src/client.ts): one state-changing call    *)
(* from the simulation to what the caller is told, sent directly or handed *)
(* to a relayer (submitter.ts), and the transactions behind the calls,     *)
(* which land or run out whatever the caller has been told meanwhile.      *)
(*                                                                         *)
(* call[i] is the i-th call made: `tx' is the fate of its transaction,     *)
(* `ret' what the contract returned when it landed, `told' and `value'     *)
(* what the caller has of it.  The contract is reduced to what the calls   *)
(* return and to the order they are legal in; a deadline may refuse any of *)
(* them, so no clock is kept.                                              *)
(***************************************************************************)
EXTENDS Integers, Sequences

CONSTANTS
    Client,
    Relayed,    \* the clients configured with a submitter
    Offer, NoBid, NoOne,
    MaxPolls,   \* polls that fit in the 60 seconds
    MaxCalls    \* bound on calls ever made

ASSUME RelayAssumption ==
    /\ Relayed \subseteq Client /\ NoOne \notin Client /\ Offer # {} /\ NoBid \notin Offer
    /\ MaxPolls \in Nat \ {0} /\ MaxCalls \in Nat

VARIABLES
    call,
    account,    \* sequence number of each client's account
    rounds,     \* rounds the contract has created
    status, bid, revealed, winner       \* the round the other calls are about

chainVars == <<rounds, status, bid, revealed, winner>>
vars == <<call, account, rounds, status, bid, revealed, winner>>

NoArg == NoOne
Ops == {"create_round", "commit", "open_reveal", "reveal", "clear", "settle", "void"}

(* How a call may end.  A "lost" call got no usable answer, a "late" one   *)
(* is past the 60 seconds, an "odd" one succeeded without a return value.  *)
Final == {"unsigned", "refused", "failed"}
Unsettled == {"lost", "nohash", "late", "odd"}

(* The clients meet the round at any stage it has been brought to; what   *)
(* was bid before is all the same.                                         *)
Init ==
    /\ call = << >>
    /\ account = [c \in Client |-> 0]
    /\ rounds = 1
    /\ LET any == CHOOSE o \in Offer : TRUE
           Bids(S) == bid = [c \in Client |-> IF c \in S THEN any ELSE NoBid]
       IN \/ status = "Open" /\ Bids({}) /\ revealed = {} /\ winner = NoOne
          \/ /\ status = "Revealing" /\ Bids(Client) /\ winner = NoOne
             /\ revealed \in SUBSET Client
          \/ /\ status = "Cleared" /\ Bids(Client) /\ revealed = Client
             /\ winner \in Client

----------------------------------------------------------------------------
(* The contract *)

Legal(t) ==
    CASE t.op = "create_round" -> TRUE
      [] t.op \in {"commit", "open_reveal", "void"} -> status = "Open"
      [] t.op = "reveal" -> status = "Revealing" /\ bid[t.arg] # NoBid /\ t.arg \notin revealed
      [] t.op = "clear"  -> status = "Revealing"
      [] t.op = "settle" -> status = "Cleared"

(* what it may return now: an id, the winner if any, or nothing of use *)
Answers(t) ==
    CASE t.op = "create_round" -> {rounds + 1}
      [] t.op = "clear" -> revealed \cup {NoOne}
      [] OTHER -> {NoOne}

Apply(t, ret) ==
    /\ rounds' = IF t.op = "create_round" THEN ret ELSE rounds
    /\ bid' = IF t.op = "commit" THEN [bid EXCEPT ![t.by] = t.arg] ELSE bid
    /\ revealed' = IF t.op = "reveal" THEN revealed \cup {t.arg} ELSE revealed
    /\ winner' = IF t.op = "clear" THEN ret ELSE winner
    /\ status' = CASE t.op = "open_reveal" -> "Revealing"
                   [] t.op = "clear"  -> IF ret = NoOne THEN "Voided" ELSE "Cleared"
                   [] t.op = "settle" -> "Settled"
                   [] t.op = "void"   -> "Voided"
                   [] OTHER -> status

(* A transaction lands in the order of its account's sequence numbers, and *)
(* uses one up also when the contract refuses it.                          *)
Land(i) ==
    LET t == call[i] IN
    /\ t.tx = "queued" /\ t.seq = account[t.by] + 1
    /\ account' = [account EXCEPT ![t.by] = t.seq]
    /\ \/ /\ call' = [call EXCEPT ![i].tx = "failed"]
          /\ UNCHANGED chainVars
       \/ /\ Legal(t)
          /\ \E ret \in Answers(t) :
                /\ Apply(t, ret)
                /\ call' = [call EXCEPT ![i].tx = "ok", ![i].ret = ret]

(* its time bounds, or its sequence number, are past *)
Drop(i) ==
    /\ call[i].tx = "queued"
    /\ call' = [call EXCEPT ![i].tx = "gone"]
    /\ UNCHANGED account /\ UNCHANGED chainVars

----------------------------------------------------------------------------
(* The client *)

Running(i, at) == call[i].told = "running" /\ call[i].at = at
Busy(c) == \E i \in DOMAIN call : call[i].by = c /\ call[i].told = "running"

OnlyCalls == UNCHANGED account /\ UNCHANGED chainVars
Told(i, what) == [call EXCEPT ![i].told = what, ![i].at = "end"]

(* Building the transaction reads the account and simulates: a refusal     *)
(* throws here.  The prediction is in tx.result, which nobody uses.        *)
Call(c, op, arg) ==
    /\ Len(call) < MaxCalls /\ ~Busy(c)
    /\ LET t == [by |-> c, op |-> op, arg |-> arg, seq |-> account[c] + 1, tx |-> "unsent",
                 ret |-> NoOne, told |-> "running", at |-> "sign", tries |-> 0,
                 value |-> NoOne, sim |-> NoOne]
       IN \/ call' = Append(call, [t EXCEPT !.told = "refused", !.at = "end"])
          \/ /\ Legal(t)
             /\ \E r \in Answers(t) : call' = Append(call, [t EXCEPT !.sim = r])
    /\ OnlyCalls

createRound(c) == Call(c, "create_round", NoArg)
commit(c) == \E o \in Offer : Call(c, "commit", o)
openReveal(c) == Call(c, "open_reveal", NoArg)
reveal(c) == \E b \in Client : Call(c, "reveal", b)
clear(c) == Call(c, "clear", NoArg)
settle(c) == Call(c, "settle", NoArg)
voidRound(c) == Call(c, "void", NoArg)

Sign(i) ==
    /\ Running(i, "sign")
    /\ \/ call' = [call EXCEPT ![i].at = IF call[i].by \in Relayed THEN "submit" ELSE "send"]
       \/ call' = Told(i, "unsigned")
    /\ OnlyCalls

(* signAndSend: refused at the door, an answer that does not arrive (the   *)
(* transaction taken or not), or taken and awaited.                        *)
signAndSend(i) ==
    /\ Running(i, "send")
    /\ \/ call' = Told(i, "failed")
       \/ call' = Told(i, "lost")
       \/ call' = [Told(i, "lost") EXCEPT ![i].tx = "queued"]
       \/ call' = [call EXCEPT ![i].tx = "queued", ![i].at = "await"]
    /\ OnlyCalls

(* sent.result: what landed, or an error while it is still pending *)
SentResult(i) ==
    /\ Running(i, "await")
    /\ \/ call[i].tx = "ok" /\ call' = [Told(i, "ok") EXCEPT ![i].value = call[i].ret]
       \/ call[i].tx = "failed" /\ call' = Told(i, "failed")
       \/ call' = Told(i, "late")
    /\ OnlyCalls

(* submitSignedTransaction: the relayer may take the transaction and the   *)
(* caller not learn it, or take it without naming a hash.                  *)
submitSignedTransaction(i) ==
    /\ Running(i, "submit")
    /\ \/ call' = Told(i, "lost")
       \/ call' = [Told(i, "lost") EXCEPT ![i].tx = "queued"]
       \/ call' = [Told(i, "nohash") EXCEPT ![i].tx = "queued"]
       \/ call' = [call EXCEPT ![i].tx = "queued", ![i].at = "poll"]
    /\ OnlyCalls

(* mutant: the value the simulation predicted *)
PollSimulated(i) ==
    /\ Running(i, "poll") /\ call[i].tries < MaxPolls
    /\ \/ call' = [call EXCEPT ![i].tries = @ + 1]
       \/ call[i].tx = "ok" /\ call' = [Told(i, "ok") EXCEPT ![i].value = call[i].sim]
       \/ call[i].tx = "failed" /\ call' = Told(i, "failed")
    /\ OnlyCalls

(* mutant: polls until it is found *)
PollForever(i) ==
    /\ Running(i, "poll")
    /\ \/ call' = [call EXCEPT ![i].tries = IF @ = MaxPolls THEN 0 ELSE @ + 1]
       \/ call[i].tx = "ok" /\ call' = [Told(i, "ok") EXCEPT ![i].value = call[i].ret]
       \/ call[i].tx = "failed" /\ call' = Told(i, "failed")
    /\ OnlyCalls

(* getTransaction: the RPC node may not have it yet, or not answer *)
Poll(i) ==
    /\ Running(i, "poll") /\ call[i].tries < MaxPolls
    /\ \/ call' = [call EXCEPT ![i].tries = @ + 1]
       \/ call[i].tx = "ok" /\ call' = [Told(i, "ok") EXCEPT ![i].value = call[i].ret]
       \/ call[i].tx = "ok" /\ call' = Told(i, "odd")
       \/ call[i].tx = "failed" /\ call' = Told(i, "failed")
       \/ call' = Told(i, "lost")
    /\ OnlyCalls

(* mutants: not found in time taken for failed; for accepted *)
TimeOutFailed(i) ==
    /\ Running(i, "poll") /\ call[i].tries = MaxPolls
    /\ call' = Told(i, "failed")
    /\ OnlyCalls

TimeOutAccepted(i) ==
    /\ Running(i, "poll") /\ call[i].tries = MaxPolls
    /\ call' = [Told(i, "ok") EXCEPT ![i].value = call[i].sim]
    /\ OnlyCalls

TimeOut(i) ==
    /\ Running(i, "poll") /\ call[i].tries = MaxPolls
    /\ call' = Told(i, "late")
    /\ OnlyCalls

Calls(c) ==
    \/ createRound(c) \/ commit(c) \/ openReveal(c) \/ reveal(c)
    \/ clear(c) \/ settle(c) \/ voidRound(c)

Step(i) ==
    \/ Sign(i) \/ signAndSend(i) \/ SentResult(i)
    \/ submitSignedTransaction(i) \/ Poll(i) \/ TimeOut(i)

Done ==
    /\ Len(call) = MaxCalls
    /\ \A i \in DOMAIN call : call[i].told # "running" /\ call[i].tx # "queued"
    /\ UNCHANGED vars

Next ==
    \/ \E c \in Client : Calls(c)
    \/ \E i \in DOMAIN call : Step(i) \/ Land(i) \/ Drop(i)
    \/ Done

Spec == Init /\ [][Next]_vars

(* The event loop runs each call on; nothing is assumed of the network, of *)
(* the relayer or of the ledger.                                           *)
FairSpec ==
    Spec /\ \A i \in 1..MaxCalls : WF_vars(i \in DOMAIN call /\ Step(i))

----------------------------------------------------------------------------
(* What a caller is told *)

(* #sendUnwrap: a call that returns has landed, and what it returns is what *)
(* the contract returned then, not what it would have when the call was    *)
(* simulated: another round may have been created, another bid revealed.   *)
AnswerIsTrue ==
    \A i \in DOMAIN call : call[i].told = "ok" =>
        call[i].tx = "ok" /\ call[i].value = call[i].ret

(* Which errors of #sendUnwrap a caller may read as "nothing happened, and *)
(* nothing will".  After the others the transaction may be on its way.     *)
ErrorIsFinal ==
    \A i \in DOMAIN call : call[i].told \in Final => call[i].tx \notin {"ok", "queued"}

(* A bidder that was told a commit went through has that bid on chain, or  *)
(* one it sent later: an earlier attempt it had given up on does not come  *)
(* back over it.                                                           *)
LastWordCounts ==
    \A i \in DOMAIN call : call[i].told = "ok" /\ call[i].op = "commit" =>
        \E j \in i..Len(call) : /\ call[j].by = call[i].by /\ call[j].op = "commit"
                                /\ call[j].tx = "ok" /\ bid[call[i].by] = call[j].arg

(* #sendUnwrap: a call always ends, whatever becomes of the transaction. *)
CallsEnd ==
    \A i \in 1..MaxCalls :
        (i \in DOMAIN call) ~> (i \in DOMAIN call /\ call[i].told # "running")

=============================================================================
