---------------------------- MODULE RelayProofs ----------------------------
(***************************************************************************)
(* Proofs about Relay, for any clients, offers, number of calls and polls. *)
(* The argument: a step adds a call, moves one call on without touching    *)
(* its bid or its sequence number, or lands one; and transactions of an    *)
(* account land in the order of their calls.                               *)
(***************************************************************************)
EXTENDS Relay, SequenceTheorems, TLAPS

Arg == Offer \cup Client \cup {NoOne}
Value == Client \cup {NoOne} \cup Nat
CallRec ==
    [by : Client, op : Ops, arg : Arg, seq : Nat,
     tx : {"unsent", "queued", "ok", "failed", "gone"}, ret : Value,
     told : {"running", "ok"} \cup Final \cup Unsettled,
     at : {"sign", "send", "await", "submit", "poll", "end"},
     tries : Nat, value : Value, sim : Value]

TypeInv ==
    /\ call \in Seq(CallRec)
    /\ account \in [Client -> Nat]
    /\ rounds \in Nat
    /\ bid \in [Client -> Arg \cup {NoBid}]
    /\ revealed \subseteq Client

(* What one call knows of its own transaction. *)
Sound(t) ==
    /\ t.told = "running" /\ t.at \in {"sign", "send", "submit"} => t.tx = "unsent"
    /\ t.told = "ok" => t.tx = "ok" /\ t.value = t.ret
    /\ t.told \in Final => t.tx \notin {"ok", "queued"}
    /\ t.op = "reveal" => t.arg \in Client

(* Calls of a client take sequence numbers in their order, and those that  *)
(* have landed are behind the account.                                     *)
InOrder ==
    /\ \A i \in DOMAIN call :
          /\ call[i].seq <= account[call[i].by] + 1
          /\ call[i].tx = "ok" => call[i].seq <= account[call[i].by]
    /\ \A i, j \in DOMAIN call :
          i < j /\ call[i].by = call[j].by => call[i].seq <= call[j].seq

(* The bid on chain is of a landed commit, as late a call as any landed.   *)
LastLanded ==
    \A i \in DOMAIN call : call[i].tx = "ok" /\ call[i].op = "commit" =>
        \E j \in i..Len(call) : /\ call[j].by = call[i].by /\ call[j].op = "commit"
                                /\ call[j].tx = "ok" /\ bid[call[i].by] = call[j].arg

IInv ==
    /\ TypeInv
    /\ \A i \in DOMAIN call : Sound(call[i])
    /\ InOrder
    /\ LastLanded

----------------------------------------------------------------------------
(* the ways a step changes the calls *)

(* A call that has just been made: nothing was sent. *)
Fresh(t) ==
    /\ t \in CallRec /\ t.tx = "unsent" /\ t.told \in {"running", "refused"}
    /\ t.seq = account[t.by] + 1
    /\ t.op = "reveal" => t.arg \in Client

(* A call that goes on as r: who, what and its number stay, and it has     *)
(* landed if and only if it had.                                           *)
GoesOn(t, r) ==
    /\ r \in CallRec /\ Sound(r)
    /\ r.by = t.by /\ r.op = t.op /\ r.arg = t.arg /\ r.seq = t.seq
    /\ r.tx = "ok" <=> t.tx = "ok"

LEMMA CallMade ==
    ASSUME IInv, NEW c \in Client, Calls(c)
    PROVE  /\ \E t : Fresh(t) /\ call' = Append(call, t)
           /\ UNCHANGED account /\ UNCHANGED chainVars
<1>1. ASSUME NEW op \in Ops, NEW arg \in Arg, op = "reveal" => arg \in Client, Call(c, op, arg)
      PROVE  /\ \E t : Fresh(t) /\ call' = Append(call, t)
             /\ UNCHANGED account /\ UNCHANGED chainVars
  <2> DEFINE t == [by |-> c, op |-> op, arg |-> arg, seq |-> account[c] + 1, tx |-> "unsent",
                   ret |-> NoOne, told |-> "running", at |-> "sign", tries |-> 0,
                   value |-> NoOne, sim |-> NoOne]
             refused == [t EXCEPT !.told = "refused", !.at = "end"]
             sent(r) == [t EXCEPT !.sim = r]
  <2>1. account[c] + 1 \in Nat  BY DEF IInv, TypeInv
  <2>2. Fresh(refused)
    BY <1>1, <2>1 DEF Fresh, CallRec, Value, Final, Unsettled
  <2>3. ASSUME NEW r \in Answers(t) PROVE Fresh(sent(r))
    <3>1. r \in Value  BY <2>3 DEF Answers, Value, IInv, TypeInv
    <3> QED  BY <1>1, <2>1, <3>1 DEF Fresh, CallRec, Value, Final, Unsettled
  <2>4. call' = Append(call, refused) \/ \E r \in Answers(t) : call' = Append(call, sent(r))
    BY <1>1 DEF Call
  <2> HIDE DEF t, refused, sent
  <2> QED  BY <1>1, <2>2, <2>3, <2>4 DEF Call, OnlyCalls
<1>2. QED
  BY <1>1 DEF Calls, createRound, commit, openReveal, reveal, clear, settle, voidRound, Ops, Arg, NoArg

LEMMA CallGoesOn ==
    ASSUME IInv, NEW i \in DOMAIN call, Step(i) \/ Drop(i)
    PROVE  /\ \E r : GoesOn(call[i], r) /\ call' = [call EXCEPT ![i] = r]
           /\ UNCHANGED account /\ UNCHANGED chainVars
<1> DEFINE t == call[i]
<1>0. t \in CallRec /\ Sound(t)  BY DEF IInv, TypeInv
<1> USE <1>0 DEF GoesOn, Sound, CallRec, Final, Unsettled, Told, Running, OnlyCalls
<1>1. CASE Sign(i)
  <2>1. CASE call' = Told(i, "unsigned")
    <3> DEFINE r == [t EXCEPT !.told = "unsigned", !.at = "end"]
    <3> QED  BY <1>1, <2>1 DEF Sign
  <2>2. CASE call' = [call EXCEPT ![i].at = IF t.by \in Relayed THEN "submit" ELSE "send"]
    <3> DEFINE r == [t EXCEPT !.at = IF t.by \in Relayed THEN "submit" ELSE "send"]
    <3>1. GoesOn(t, r)  BY <1>1 DEF Sign
    <3> QED  BY <1>1, <2>2, <3>1 DEF Sign
  <2> QED  BY <1>1, <2>1, <2>2 DEF Sign
<1>2. CASE signAndSend(i)
  <2>1. ASSUME NEW what \in {"failed", "lost"}, call' = Told(i, what)
        PROVE  \E r : GoesOn(t, r) /\ call' = [call EXCEPT ![i] = r]
    <3> WITNESS [t EXCEPT !.told = what, !.at = "end"]
    <3> QED  BY <1>2, <2>1 DEF signAndSend
  <2>2. CASE call' = [Told(i, "lost") EXCEPT ![i].tx = "queued"]
    <3> DEFINE r == [t EXCEPT !.told = "lost", !.at = "end", !.tx = "queued"]
    <3> QED  BY <1>2, <2>2 DEF signAndSend
  <2>3. CASE call' = [call EXCEPT ![i].tx = "queued", ![i].at = "await"]
    <3> DEFINE r == [t EXCEPT !.tx = "queued", !.at = "await"]
    <3> QED  BY <1>2, <2>3 DEF signAndSend
  <2> QED  BY <1>2, <2>1, <2>2, <2>3 DEF signAndSend
<1>3. CASE SentResult(i)
  <2>1. CASE t.tx = "ok" /\ call' = [Told(i, "ok") EXCEPT ![i].value = t.ret]
    <3> DEFINE r == [t EXCEPT !.told = "ok", !.at = "end", !.value = t.ret]
    <3> QED  BY <1>3, <2>1 DEF SentResult
  <2>2. ASSUME NEW what \in {"failed", "late"}, what = "failed" => t.tx = "failed",
               call' = Told(i, what)
        PROVE  \E r : GoesOn(t, r) /\ call' = [call EXCEPT ![i] = r]
    <3> WITNESS [t EXCEPT !.told = what, !.at = "end"]
    <3> QED  BY <1>3, <2>2 DEF SentResult
  <2> QED  BY <1>3, <2>1, <2>2 DEF SentResult
<1>4. CASE submitSignedTransaction(i)
  <2>1. CASE call' = Told(i, "lost")
    <3> DEFINE r == [t EXCEPT !.told = "lost", !.at = "end"]
    <3> QED  BY <1>4, <2>1 DEF submitSignedTransaction
  <2>2. ASSUME NEW what \in {"lost", "nohash"},
               call' = [Told(i, what) EXCEPT ![i].tx = "queued"]
        PROVE  \E r : GoesOn(t, r) /\ call' = [call EXCEPT ![i] = r]
    <3> WITNESS [t EXCEPT !.told = what, !.at = "end", !.tx = "queued"]
    <3> QED  BY <1>4, <2>2 DEF submitSignedTransaction
  <2>3. CASE call' = [call EXCEPT ![i].tx = "queued", ![i].at = "poll"]
    <3> DEFINE r == [t EXCEPT !.tx = "queued", !.at = "poll"]
    <3> QED  BY <1>4, <2>3 DEF submitSignedTransaction
  <2> QED  BY <1>4, <2>1, <2>2, <2>3 DEF submitSignedTransaction
<1>5. CASE Poll(i)
  <2>1. CASE call' = [call EXCEPT ![i].tries = @ + 1]
    <3> DEFINE r == [t EXCEPT !.tries = @ + 1]
    <3>1. GoesOn(t, r)  BY <1>5 DEF Poll
    <3> QED  BY <1>5, <2>1, <3>1 DEF Poll
  <2>2. CASE t.tx = "ok" /\ call' = [Told(i, "ok") EXCEPT ![i].value = t.ret]
    <3> DEFINE r == [t EXCEPT !.told = "ok", !.at = "end", !.value = t.ret]
    <3> QED  BY <1>5, <2>2 DEF Poll
  <2>3. ASSUME NEW what \in {"failed", "odd", "lost"}, what = "failed" => t.tx = "failed",
               call' = Told(i, what)
        PROVE  \E r : GoesOn(t, r) /\ call' = [call EXCEPT ![i] = r]
    <3> WITNESS [t EXCEPT !.told = what, !.at = "end"]
    <3> QED  BY <1>5, <2>3 DEF Poll
  <2> QED  BY <1>5, <2>1, <2>2, <2>3 DEF Poll
<1>6. CASE TimeOut(i)
  <2> DEFINE r == [t EXCEPT !.told = "late", !.at = "end"]
  <2> QED  BY <1>6 DEF TimeOut
<1>7. CASE Drop(i)
  <2> DEFINE r == [t EXCEPT !.tx = "gone"]
  <2> QED  BY <1>7 DEF Drop
<1> QED  BY <1>1, <1>2, <1>3, <1>4, <1>5, <1>6, <1>7 DEF Step

(* A transaction that lands is the next of its account, and only a commit  *)
(* that is accepted changes a bid.                                         *)
LEMMA CallLands ==
    ASSUME IInv, NEW i \in DOMAIN call, Land(i)
    PROVE  LET t == call[i] IN
           /\ t.seq = account[t.by] + 1
           /\ account' = [account EXCEPT ![t.by] = t.seq]
           /\ rounds' \in Nat /\ revealed' \subseteq Client
           /\ \E r \in CallRec :
                 /\ call' = [call EXCEPT ![i] = r] /\ Sound(r)
                 /\ r.by = t.by /\ r.op = t.op /\ r.arg = t.arg /\ r.seq = t.seq
                 /\ bid' = IF r.tx = "ok" /\ r.op = "commit"
                           THEN [bid EXCEPT ![t.by] = t.arg] ELSE bid
<1> DEFINE t == call[i]
<1>0. t \in CallRec /\ Sound(t)  BY DEF IInv, TypeInv
<1> USE <1>0
<1>1. CASE call' = [call EXCEPT ![i].tx = "failed"] /\ UNCHANGED chainVars
  <2> DEFINE r == [t EXCEPT !.tx = "failed"]
  <2>1. r \in CallRec /\ Sound(r)
    BY <1>1 DEF Land, CallRec, Sound, Final, Unsettled
  <2>2. call' = [call EXCEPT ![i] = r]  BY <1>1 DEF CallRec
  <2>3. UNCHANGED <<rounds, revealed, bid>>  BY <1>1 DEF chainVars
  <2>4. rounds' \in Nat /\ revealed' \subseteq Client  BY <2>3 DEF IInv, TypeInv
  <2>5. r.by = t.by /\ r.op = t.op /\ r.arg = t.arg /\ r.seq = t.seq /\ r.tx = "failed"
    BY DEF CallRec
  <2> HIDE DEF r
  <2> QED  BY <2>1, <2>2, <2>3, <2>4, <2>5 DEF Land
<1>2. ASSUME NEW ret \in Answers(t), Legal(t), Apply(t, ret),
             call' = [call EXCEPT ![i].tx = "ok", ![i].ret = ret]
      PROVE  /\ rounds' \in Nat /\ revealed' \subseteq Client
             /\ \E r \in CallRec :
                 /\ call' = [call EXCEPT ![i] = r] /\ Sound(r)
                 /\ r.by = t.by /\ r.op = t.op /\ r.arg = t.arg /\ r.seq = t.seq
                 /\ bid' = IF r.tx = "ok" /\ r.op = "commit"
                           THEN [bid EXCEPT ![t.by] = t.arg] ELSE bid
  <2> DEFINE r == [t EXCEPT !.tx = "ok", !.ret = ret]
  <2>1. ret \in Value /\ (t.op = "create_round" => ret \in Nat)
    BY <1>2 DEF Answers, Value, IInv, TypeInv
  <2>2. r \in CallRec /\ Sound(r)
    BY <2>1, Land(i) DEF Land, CallRec, Sound, Final, Unsettled
  <2>3. call' = [call EXCEPT ![i] = r]  BY <1>2 DEF CallRec
  <2>4. rounds' \in Nat  BY <1>2, <2>1 DEF Apply, IInv, TypeInv
  <2>5. revealed' \subseteq Client
    BY <1>2 DEF Apply, Sound, IInv, TypeInv
  <2>6. r.by = t.by /\ r.op = t.op /\ r.arg = t.arg /\ r.seq = t.seq /\ r.tx = "ok"
    BY DEF CallRec
  <2>7. bid' = IF t.op = "commit" THEN [bid EXCEPT ![t.by] = t.arg] ELSE bid
    BY <1>2 DEF Apply
  <2> HIDE DEF r
  <2> QED  BY <2>2, <2>3, <2>4, <2>5, <2>6, <2>7
<1> QED  BY <1>1, <1>2 DEF Land
----------------------------------------------------------------------------
(* each of the three keeps the invariant *)

LEMMA AppendKeepsIInv ==
    ASSUME IInv, NEW t, Fresh(t), call' = Append(call, t),
           UNCHANGED account, UNCHANGED chainVars
    PROVE  IInv'
<1>1. /\ t \in CallRec /\ call \in Seq(CallRec)
      /\ Len(call') = Len(call) + 1 /\ DOMAIN call' = 1..(Len(call) + 1)
      /\ DOMAIN call = 1..Len(call) /\ Len(call) \in Nat
      /\ \A i \in DOMAIN call : call'[i] = call[i] /\ call[i] \in CallRec
      /\ call'[Len(call) + 1] = t /\ call' \in Seq(CallRec)
  BY AppendProperties DEF IInv, TypeInv, Fresh
<1>2. TypeInv'
  BY <1>1 DEF IInv, TypeInv, chainVars
<1>3. \A i \in DOMAIN call' : Sound(call'[i])
  BY <1>1 DEF IInv, Sound, Fresh, Final
<1>4. InOrder'
  <2>1. t.seq = account[t.by] + 1 /\ t.tx = "unsent" /\ t.by \in Client
    BY <1>1 DEF Fresh, CallRec
  <2>2. account \in [Client -> Nat]  BY DEF IInv, TypeInv
  <2>3. ASSUME NEW i \in DOMAIN call'
        PROVE  /\ call'[i].seq <= account[call'[i].by] + 1
               /\ call'[i].tx = "ok" => call'[i].seq <= account[call'[i].by]
    BY <1>1, <2>1, <2>2 DEF IInv, InOrder
  <2>4. ASSUME NEW i \in DOMAIN call', NEW j \in DOMAIN call', i < j,
               call'[i].by = call'[j].by
        PROVE  call'[i].seq <= call'[j].seq
    <3>1. i \in DOMAIN call  BY <1>1, <2>4
    <3>2. CASE j \in DOMAIN call  BY <1>1, <2>4, <3>1, <3>2 DEF IInv, InOrder
    <3>3. CASE j = Len(call) + 1  BY <1>1, <2>1, <2>4, <3>1, <3>3 DEF IInv, InOrder
    <3> QED  BY <1>1, <3>2, <3>3
  <2> QED  BY <2>3, <2>4 DEF InOrder
<1>5. LastLanded'
  <2> SUFFICES ASSUME NEW i \in DOMAIN call', call'[i].tx = "ok", call'[i].op = "commit"
               PROVE  \E j \in i..Len(call') :
                         /\ call'[j].by = call'[i].by /\ call'[j].op = "commit"
                         /\ call'[j].tx = "ok" /\ bid'[call'[i].by] = call'[j].arg
    BY DEF LastLanded
  <2>1. i \in DOMAIN call /\ call[i].tx = "ok" /\ call[i].op = "commit" /\ call'[i] = call[i]
    BY <1>1 DEF Fresh
  <2>2. PICK j \in i..Len(call) : /\ call[j].by = call[i].by /\ call[j].op = "commit"
                                  /\ call[j].tx = "ok" /\ bid[call[i].by] = call[j].arg
    BY <2>1 DEF IInv, LastLanded
  <2> QED  BY <1>1, <2>1, <2>2 DEF chainVars
<1> QED  BY <1>2, <1>3, <1>4, <1>5 DEF IInv

LEMMA GoesOnKeepsIInv ==
    ASSUME IInv, NEW k \in DOMAIN call, NEW r, GoesOn(call[k], r),
           call' = [call EXCEPT ![k] = r], UNCHANGED account, UNCHANGED chainVars
    PROVE  IInv'
<1>1. /\ call \in Seq(CallRec) /\ r \in CallRec /\ Sound(r)
      /\ DOMAIN call' = DOMAIN call /\ Len(call') = Len(call)
      /\ call' \in Seq(CallRec) /\ DOMAIN call = 1..Len(call) /\ Len(call) \in Nat
  BY ExceptSeq DEF IInv, TypeInv, GoesOn
<1>2. \A i \in DOMAIN call :
          /\ call'[i].by = call[i].by /\ call'[i].op = call[i].op
          /\ call'[i].arg = call[i].arg /\ call'[i].seq = call[i].seq
          /\ call'[i].tx = "ok" <=> call[i].tx = "ok"
          /\ Sound(call'[i])
  BY <1>1 DEF GoesOn, IInv
<1>3. UNCHANGED bid  BY DEF chainVars
<1>4. TypeInv'  BY <1>1 DEF IInv, TypeInv, chainVars
<1> HIDE DEF chainVars
<1>5. InOrder'  BY <1>1, <1>2 DEF IInv, InOrder
<1>6. LastLanded'
  <2> SUFFICES ASSUME NEW i \in DOMAIN call, call[i].tx = "ok", call[i].op = "commit"
               PROVE  \E j \in i..Len(call) :
                         /\ call'[j].by = call'[i].by /\ call'[j].op = "commit"
                         /\ call'[j].tx = "ok" /\ bid[call'[i].by] = call'[j].arg
    BY <1>1, <1>2, <1>3 DEF LastLanded
  <2>1. PICK j \in i..Len(call) : /\ call[j].by = call[i].by /\ call[j].op = "commit"
                                  /\ call[j].tx = "ok" /\ bid[call[i].by] = call[j].arg
    BY DEF IInv, LastLanded
  <2>2. j \in DOMAIN call  BY <1>1
  <2> QED  BY <1>2, <2>1, <2>2
<1> QED  BY <1>1, <1>2, <1>4, <1>5, <1>6 DEF IInv

LEMMA LandKeepsIInv ==
    ASSUME IInv, NEW k \in DOMAIN call, Land(k)
    PROVE  IInv'
<1> DEFINE t == call[k]
<1>1. PICK r \in CallRec :
         /\ call' = [call EXCEPT ![k] = r] /\ Sound(r)
         /\ r.by = t.by /\ r.op = t.op /\ r.arg = t.arg /\ r.seq = t.seq
         /\ bid' = IF r.tx = "ok" /\ r.op = "commit"
                   THEN [bid EXCEPT ![t.by] = t.arg] ELSE bid
  BY CallLands
<1>2. /\ t.seq = account[t.by] + 1 /\ account' = [account EXCEPT ![t.by] = t.seq]
      /\ rounds' \in Nat /\ revealed' \subseteq Client
      /\ t.tx = "queued"
  BY CallLands DEF Land
<1>3. /\ call \in Seq(CallRec) /\ t \in CallRec
      /\ DOMAIN call' = DOMAIN call /\ Len(call') = Len(call)
      /\ call' \in Seq(CallRec) /\ DOMAIN call = 1..Len(call) /\ Len(call) \in Nat
      /\ \A i \in DOMAIN call : call[i] \in CallRec /\ call'[i] = IF i = k THEN r ELSE call[i]
  BY <1>1, ExceptSeq DEF IInv, TypeInv
<1>4. t.by \in Client /\ t.arg \in Arg /\ t.seq \in Nat  BY <1>3 DEF CallRec
<1>5. account \in [Client -> Nat] /\ bid \in [Client -> Arg \cup {NoBid}]
  BY DEF IInv, TypeInv
<1>6. TypeInv'
  BY <1>1, <1>2, <1>3, <1>4, <1>5 DEF TypeInv
<1>7. \A i \in DOMAIN call' : Sound(call'[i])
  BY <1>1, <1>3 DEF IInv
<1>8. \A i \in DOMAIN call :
         /\ call'[i].by = call[i].by /\ call'[i].op = call[i].op
         /\ call'[i].arg = call[i].arg /\ call'[i].seq = call[i].seq
         /\ i # k => call'[i] = call[i]
  BY <1>1, <1>3
<1>9. InOrder'
  <2>1. ASSUME NEW i \in DOMAIN call
        PROVE  /\ call'[i].seq <= account'[call'[i].by] + 1
               /\ call'[i].tx = "ok" => call'[i].seq <= account'[call'[i].by]
    <3>1. call[i].by \in Client /\ call[i].seq \in Nat  BY <1>3 DEF CallRec
    <3>2. account[call[i].by] <= account'[call[i].by] /\ account'[call[i].by] \in Nat
      BY <1>2, <1>4, <1>5, <3>1
    <3>3. /\ call[i].seq <= account[call[i].by] + 1
          /\ call[i].tx = "ok" => call[i].seq <= account[call[i].by]
      BY DEF IInv, InOrder
    <3>4. CASE i = k  BY <1>2, <1>4, <1>5, <1>8, <3>4
    <3>5. CASE i # k  BY <1>5, <1>8, <3>1, <3>2, <3>3, <3>5
    <3> QED  BY <3>4, <3>5
  <2> QED  BY <1>3, <1>8, <2>1 DEF IInv, InOrder
<1>10. LastLanded'
  <2> SUFFICES ASSUME NEW i \in DOMAIN call, call'[i].tx = "ok", call'[i].op = "commit"
               PROVE  \E j \in i..Len(call) :
                         /\ call'[j].by = call'[i].by /\ call'[j].op = "commit"
                         /\ call'[j].tx = "ok" /\ bid'[call'[i].by] = call'[j].arg
    BY <1>3 DEF LastLanded
  <2>1. CASE r.tx = "ok" /\ r.op = "commit" /\ call[i].by = t.by
    (* transaction k is the last of its account to have landed *)
    <3>1. i <= k
      <4>1. CASE i = k  BY <1>3, <4>1
      <4>2. CASE i # k
        <5>1. call[i].seq <= account[t.by] /\ call[i].seq \in Nat
          BY <1>3, <1>8, <2>1, <4>2 DEF IInv, InOrder, CallRec
        <5>2. ~(k < i)
          BY <1>2, <1>4, <1>5, <2>1, <5>1 DEF IInv, InOrder
        <5> QED  BY <1>3, <5>2
      <4> QED  BY <4>1, <4>2
    <3>2. bid'[t.by] = t.arg  BY <1>1, <1>4, <1>5, <2>1
    <3> QED  BY <1>1, <1>3, <1>8, <2>1, <3>1, <3>2
  <2>2. CASE ~(r.tx = "ok" /\ r.op = "commit" /\ call[i].by = t.by)
    <3>1. i # k  BY <1>1, <1>3, <2>2
    <3>2. call[i].tx = "ok" /\ call[i].op = "commit"  BY <1>8, <3>1
    <3>3. PICK j \in i..Len(call) : /\ call[j].by = call[i].by /\ call[j].op = "commit"
                                    /\ call[j].tx = "ok" /\ bid[call[i].by] = call[j].arg
      BY <3>2 DEF IInv, LastLanded
    <3>4. j # k /\ j \in DOMAIN call  BY <1>2, <1>3, <3>3
    <3>5. call[i].by \in Client  BY <1>3 DEF CallRec
    <3>6. bid'[call[i].by] = bid[call[i].by]  BY <1>1, <1>5, <2>2, <3>5
    <3> QED  BY <1>8, <3>1, <3>3, <3>4, <3>6
  <2> QED  BY <2>1, <2>2
<1> QED  BY <1>3, <1>6, <1>7, <1>9, <1>10 DEF IInv

----------------------------------------------------------------------------
(* the invariant, and what it says of each call *)

LEMMA IInvInit == Init => IInv
<1> SUFFICES ASSUME Init PROVE IInv  OBVIOUS
<1>1. call = << >> /\ DOMAIN call = {} /\ call \in Seq(CallRec)  BY DEF Init
<1>2. account \in [Client -> Nat] /\ rounds \in Nat  BY DEF Init
<1>3. bid \in [Client -> Arg \cup {NoBid}] /\ revealed \subseteq Client
  <2> DEFINE any == CHOOSE o \in Offer : TRUE
             Bids(S) == [c \in Client |-> IF c \in S THEN any ELSE NoBid]
  <2>1. any \in Offer  BY RelayAssumption
  <2>2. bid = Bids({}) \/ bid = Bids(Client)  BY DEF Init
  <2>3. revealed \subseteq Client  BY DEF Init
  <2> HIDE DEF any
  <2> QED  BY <2>1, <2>2, <2>3 DEF Arg
<1> QED  BY <1>1, <1>2, <1>3 DEF IInv, TypeInv, InOrder, LastLanded

LEMMA IInvStep == IInv /\ [Next]_vars => IInv'
<1> SUFFICES ASSUME IInv, [Next]_vars PROVE IInv'  OBVIOUS
<1>1. ASSUME NEW c \in Client, Calls(c) PROVE IInv'
  BY <1>1, CallMade, AppendKeepsIInv
<1>2. ASSUME NEW i \in DOMAIN call, Step(i) \/ Drop(i) PROVE IInv'
  BY <1>2, CallGoesOn, GoesOnKeepsIInv
<1>3. ASSUME NEW i \in DOMAIN call, Land(i) PROVE IInv'
  BY <1>3, LandKeepsIInv
<1>4. CASE UNCHANGED vars
  BY <1>4 DEF vars, IInv, TypeInv, InOrder, LastLanded
<1> QED  BY <1>1, <1>2, <1>3, <1>4 DEF Next, Done

(* The client's own types, what each call knows of its transaction, that   *)
(* an account's transactions land in the order of their calls, and that    *)
(* the bid on chain is the last to land, hold in every reachable state.    *)
THEOREM Inductive == Spec => []IInv
BY IInvInit, IInvStep, PTL DEF Spec

(* A call that returns has landed, and returns what the contract did. *)
THEOREM AnswersAreTrue == Spec => []AnswerIsTrue
<1>1. IInv => AnswerIsTrue  BY DEF IInv, Sound, AnswerIsTrue
<1> QED  BY <1>1, Inductive, PTL

(* Nothing happened, and nothing will, after an error that says so. *)
THEOREM ErrorsAreFinal == Spec => []ErrorIsFinal
<1>1. IInv => ErrorIsFinal  BY DEF IInv, Sound, ErrorIsFinal
<1> QED  BY <1>1, Inductive, PTL

(* A commit that was reported is not undone by an earlier attempt. *)
THEOREM LastWordsCount == Spec => []LastWordCounts
<1>1. IInv => LastWordCounts
  BY DEF IInv, Sound, LastLanded, LastWordCounts
<1> QED  BY <1>1, Inductive, PTL

=============================================================================
