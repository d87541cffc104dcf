------------------------- MODULE BidderAgentProofs -------------------------
(***************************************************************************)
(* Proofs about BidderAgent, for any sessions, mandates, appraisals and    *)
(* deadlines.  The argument: a run gets past its first await only on an    *)
(* authentic, consistent mandate; it sizes a bid only from a request that  *)
(* was charged and answered; and charges, like bids, are never taken back, *)
(* so what backs a plan still backs the bid once it stands on chain.  What *)
(* the bid can then cost follows from the round's own invariants.          *)
(*                                                                         *)
(* The last part is about the pure algorithms of Library an agent and its  *)
(* round rely on; it shares nothing with the rest but RoundProofs' lemmas. *)
(***************************************************************************)
EXTENDS BidderAgent, RoundProofs, Library, SequenceTheorems

Request ==
    [stage : Stages, amount : {Asked}, charged : BOOLEAN, wellFormed : BOOLEAN,
     suggests : Suggestions \cup {0}]

Consistent(m) == m.authentic /\ m.maxBid <= m.maxEscrow

(* A bid is the session's own, if any: sized within an authentic mandate   *)
(* from an appraisal that was paid for.                                    *)
Backed(b, o) ==
    o # NoBid =>
        /\ Consistent(Mandate[b])
        /\ o.value \in 1..Mandate[b].maxBid /\ o.escrow = o.value
        /\ \E i \in Charges(b) : o.value = Clamped(Mandate[b], requests[b][i].suggests)

RequestsInv ==
    /\ requests \in [Bidder -> Seq(Request)]
    /\ \A b \in Bidder : \A i \in DOMAIN requests[b] :
          LET r == requests[b][i] IN
          /\ Consistent(Mandate[b])
          /\ r.stage \in {"settled", "answered"} => r.charged
          /\ r.charged => r.wellFormed

RunsInv ==
    \A b \in Bidder :
        /\ pc[b] # "idle" => Consistent(Mandate[b])
        /\ pc[b] = "paid" => requests[b] # << >>
        /\ pc[b] \in {"seal", "commit"} => plan[b] # NoBid
        /\ Backed(b, plan[b])

IInv ==
    /\ TypeOK /\ ChainInv /\ SettlementExact
    /\ RequestsInv /\ RunsInv
    /\ \A b \in Bidder : Backed(b, bids[b])

----------------------------------------------------------------------------
(* how the requests change *)

(* Requests are added and answered, and what was charged stays charged. *)
Grows ==
    \A b \in Bidder :
        /\ DOMAIN requests[b] \subseteq DOMAIN requests'[b]
        /\ \A i \in DOMAIN requests[b] :
              /\ requests'[b][i].suggests = requests[b][i].suggests
              /\ requests[b][i].charged => requests'[b][i].charged

LEMMA BackingKept ==
    ASSUME Grows, NEW b \in Bidder
    PROVE  \A o : Backed(b, o) => Backed(b, o)'
BY DEF Grows, Backed, Charges

LEMMA SameRequests ==
    ASSUME RequestsInv, UNCHANGED requests
    PROVE  RequestsInv' /\ Grows
<1>1. RequestsInv'  BY DEF RequestsInv
<1>2. Grows  BY DEF Grows
<1> QED  BY <1>1, <1>2

LEMMA RequestAdded ==
    ASSUME RequestsInv, NEW b \in Bidder, Consistent(Mandate[b]), NEW r \in NewRequests,
           requests' = [requests EXCEPT ![b] = Append(@, r)]
    PROVE  /\ RequestsInv' /\ Grows /\ requests'[b] # << >>
           /\ Len(requests'[b]) = Len(requests[b]) + 1
<1>1. r \in Request /\ r.stage = "sent" /\ ~r.charged
  BY DEF NewRequests, Request, Stages
<1>2. requests \in [Bidder -> Seq(Request)]  BY DEF RequestsInv
<1>3. /\ requests'[b] \in Seq(Request) /\ requests'[b] # << >>
      /\ Len(requests'[b]) = Len(requests[b]) + 1
      /\ \A i \in 1..Len(requests[b]) : requests'[b][i] = requests[b][i]
      /\ requests'[b][Len(requests[b]) + 1] = r
  BY <1>1, <1>2, AppendProperties
<1>4. \A c \in Bidder \ {b} : requests'[c] = requests[c]  BY <1>2
<1>5. requests' \in [Bidder -> Seq(Request)]  BY <1>2, <1>3
<1>6. ASSUME NEW c \in Bidder, NEW i \in DOMAIN requests'[c]
      PROVE  LET q == requests'[c][i] IN
             /\ Consistent(Mandate[c])
             /\ q.stage \in {"settled", "answered"} => q.charged
             /\ q.charged => q.wellFormed
  <2>1. CASE c # b \/ i \in DOMAIN requests[b]
    BY <1>2, <1>3, <1>4, <2>1 DEF RequestsInv
  <2>2. CASE c = b /\ i = Len(requests[b]) + 1
    BY <1>1, <1>3, <2>2
  <2> QED  BY <1>2, <1>3, <1>6, <2>1, <2>2
<1>7. Grows  BY <1>2, <1>3, <1>4 DEF Grows
<1> QED  BY <1>3, <1>5, <1>6, <1>7 DEF RequestsInv

LEMMA RequestAdvanced ==
    ASSUME RequestsInv, NEW b \in Bidder, NEW k \in DOMAIN requests[b], NEW r \in Request,
           requests' = [requests EXCEPT ![b][k] = r],
           r.suggests = requests[b][k].suggests,
           requests[b][k].charged => r.charged,
           r.stage \in {"settled", "answered"} => r.charged,
           r.charged => r.wellFormed
    PROVE  /\ RequestsInv' /\ Grows
           /\ \A c \in Bidder : /\ Len(requests'[c]) = Len(requests[c])
                                /\ requests'[c] = << >> <=> requests[c] = << >>
<1>1. requests \in [Bidder -> Seq(Request)]  BY DEF RequestsInv
<1>2. requests' = [requests EXCEPT ![b] = [requests[b] EXCEPT ![k] = r]]  BY <1>1
<1>3. /\ requests'[b] \in Seq(Request) /\ Len(requests'[b]) = Len(requests[b])
      /\ DOMAIN requests[b] = 1..Len(requests[b])
      /\ \A i \in DOMAIN requests[b] : requests'[b][i] = IF i = k THEN r ELSE requests[b][i]
  BY <1>1, <1>2, ExceptSeq
<1>4. \A c \in Bidder \ {b} : requests'[c] = requests[c]  BY <1>1, <1>2
<1>5. requests' \in [Bidder -> Seq(Request)]  BY <1>1, <1>2, <1>3
<1>6. \A c \in Bidder : /\ Len(requests'[c]) = Len(requests[c])
                        /\ DOMAIN requests'[c] = DOMAIN requests[c]
  BY <1>1, <1>3, <1>4, <1>5
<1>7. \A c \in Bidder : requests'[c] = << >> <=> requests[c] = << >>
  BY <1>1, <1>5, <1>6, EmptySeq
<1>8. RequestsInv'  BY <1>3, <1>4, <1>5, <1>6 DEF RequestsInv
<1>9. Grows  BY <1>3, <1>4, <1>6 DEF Grows
<1> QED  BY <1>6, <1>7, <1>8, <1>9

----------------------------------------------------------------------------
(* what a step does *)

(* A step drives the round only through its operations, and the only bid   *)
(* it may put there is one a run has sized.                                *)
LEMMA StepEffect ==
    ASSUME IInv, [Next]_vars
    PROVE  /\ UNCHANGED roundVars \/ RoundStep
           /\ \A c \in Bidder : bids'[c] = bids[c] \/ bids'[c] = plan[c]
<1>t. /\ bids \in [Bidder -> Offer \cup {NoBid}] /\ plan \in [Bidder -> Offer \cup {NoBid}]
      /\ RunsInv
  BY DEF IInv, TypeOK, RoundTypeOK
<1>1. ASSUME NEW b \in Bidder, CommitBid(b)
      PROVE  RoundStep /\ \A c \in Bidder : bids'[c] = bids[c] \/ bids'[c] = plan[c]
  <2>1. plan[b] \in Offer  BY <1>t, <1>1 DEF CommitBid, RunsInv
  <2>2. Commit(b, plan[b])  BY <1>1 DEF CommitBid
  <2>3. bids' = [bids EXCEPT ![b] = plan[b]]  BY <2>2 DEF Commit
  <2>4. \A c \in Bidder : bids'[c] = bids[c] \/ bids'[c] = plan[c]  BY <1>t, <2>3
  <2> QED  BY <2>1, <2>2, <2>4 DEF RoundStep
<1>2. ASSUME NEW b \in Bidder, Agent(b), ~CommitBid(b) PROVE UNCHANGED roundVars
  BY <1>2 DEF Agent, Start, GetRound, Quoted, Appraised, Sealed, Throw
<1>3. ASSUME NEW b \in Bidder, NEW i \in DOMAIN requests[b], Server(b, i)
      PROVE  UNCHANGED roundVars
  BY <1>3 DEF Server, VerifyPayment, SettlePayment, AnswerRequest, Advance
<1>4. CASE Passing \/ Anyone
  <2>1. RoundStep  BY <1>4 DEF Passing, Anyone, RoundStep
  <2>2. bids' = bids
    BY <1>4 DEF Passing, Anyone, Tick, CloseLedger, PublishR, ExpireSeal, OpenReveal, Reveal,
                Clear, Settle, Void, chainVars
  <2> QED  BY <2>1, <2>2
<1>5. CASE UNCHANGED vars  BY <1>5 DEF vars, roundVars
<1>6. UNCHANGED roundVars => bids' = bids  BY DEF roundVars
<1> QED  BY <1>1, <1>2, <1>3, <1>4, <1>5, <1>6 DEF Next

(* The requests of a step: none, a new one of a run, or one the server     *)
(* has moved on.                                                           *)
LEMMA RequestsKept ==
    ASSUME IInv, [Next]_vars
    PROVE  /\ RequestsInv' /\ Grows
           /\ \A c \in Bidder : /\ Len(requests'[c]) <= MaxPaid
                                /\ requests[c] # << >> => requests'[c] # << >>
                                /\ Quoted(c) => requests'[c] # << >>
<1>t. /\ RequestsInv /\ RunsInv /\ MaxPaid \in Nat
      /\ \A c \in Bidder : Len(requests[c]) <= MaxPaid /\ Len(requests[c]) \in Nat
  BY MandateAssumption DEF IInv, TypeOK, RequestsInv
<1> DEFINE Goal == /\ RequestsInv' /\ Grows
                   /\ \A c \in Bidder : /\ Len(requests'[c]) <= MaxPaid
                                        /\ requests[c] # << >> => requests'[c] # << >>
<1>1. ASSUME NEW b \in Bidder, Quoted(b) PROVE Goal /\ requests'[b] # << >>
  <2>1. PICK r \in NewRequests : requests' = [requests EXCEPT ![b] = Append(@, r)]
    BY <1>1 DEF Quoted
  <2>2. Consistent(Mandate[b]) /\ Len(requests[b]) < MaxPaid
    BY <1>1, <1>t DEF Quoted, RunsInv
  <2>3. /\ RequestsInv' /\ Grows /\ requests'[b] # << >>
        /\ Len(requests'[b]) = Len(requests[b]) + 1
    BY <1>t, <2>1, <2>2, RequestAdded
  <2>4. \A c \in Bidder \ {b} : requests'[c] = requests[c]
    BY <1>t, <2>1 DEF RequestsInv
  <2> QED  BY <1>t, <2>2, <2>3, <2>4
<1>2. ASSUME NEW b \in Bidder, NEW i \in DOMAIN requests[b], Server(b, i) PROVE Goal
  <2> DEFINE r == requests[b][i]
  <2>1. r \in Request  BY <1>t DEF RequestsInv
  <2>2. PICK s \in Stages, c \in BOOLEAN :
           /\ requests' = [requests EXCEPT ![b][i] = [r EXCEPT !.stage = s, !.charged = c]]
           /\ r.charged => c
           /\ s \in {"settled", "answered"} => c
           /\ c => r.wellFormed
    <3>0. /\ r.charged => r.wellFormed
          /\ r.stage \in {"settled", "answered"} => r.charged
      BY <1>t DEF RequestsInv
    <3>1. \A s : [r EXCEPT !.stage = s] = [r EXCEPT !.stage = s, !.charged = r.charged]
      BY <2>1 DEF Request
    <3>2. CASE VerifyPayment(b, i)
      <4>1. PICK s \in {"verified", "refused"} :
               requests' = [requests EXCEPT ![b][i] = [r EXCEPT !.stage = s]]
        BY <3>2 DEF VerifyPayment, Advance
      <4>2. s \in Stages /\ r.charged \in BOOLEAN  BY <2>1 DEF Stages, Request
      <4> QED  BY <3>0, <3>1, <4>1, <4>2
    <3>3. CASE SettlePayment(b, i)
      <4>1. CASE requests' = [requests EXCEPT ![b][i] = [r EXCEPT !.stage = "refused"]]
        <5>1. "refused" \in Stages /\ r.charged \in BOOLEAN  BY <2>1 DEF Stages, Request
        <5> QED  BY <3>0, <3>1, <4>1, <5>1
      <4>2. CASE r.wellFormed /\ \E s \in {"settled", "refused"} :
               requests' = [requests EXCEPT ![b][i] = [r EXCEPT !.charged = TRUE, !.stage = s]]
        <5>1. PICK s \in {"settled", "refused"} :
                 requests' = [requests EXCEPT ![b][i] = [r EXCEPT !.charged = TRUE, !.stage = s]]
          BY <4>2
        <5>2. [r EXCEPT !.charged = TRUE, !.stage = s] = [r EXCEPT !.stage = s, !.charged = TRUE]
          BY <2>1 DEF Request
        <5>3. s \in Stages  BY DEF Stages
        <5> QED  BY <4>2, <5>1, <5>2, <5>3
      <4> QED  BY <3>3, <4>1, <4>2 DEF SettlePayment, Advance
    <3>4. CASE AnswerRequest(b, i)
      <4>1. requests' = [requests EXCEPT ![b][i] = [r EXCEPT !.stage = "answered"]]
        BY <3>4 DEF AnswerRequest, Advance
      <4>2. "answered" \in Stages /\ r.charged \in BOOLEAN  BY <2>1 DEF Stages, Request
      <4>3. r.charged  BY <3>0, <3>4 DEF AnswerRequest
      <4> QED  BY <3>0, <3>1, <4>1, <4>2, <4>3
    <3> QED  BY <1>2, <3>2, <3>3, <3>4 DEF Server
  <2>3. [r EXCEPT !.stage = s, !.charged = c] \in Request  BY <2>1 DEF Request
  <2> DEFINE q == [r EXCEPT !.stage = s, !.charged = c]
  <2>4. q.suggests = r.suggests /\ q.charged = c /\ q.stage = s /\ q.wellFormed = r.wellFormed
    BY <2>1 DEF Request
  <2> HIDE DEF q
  <2>5. /\ RequestsInv' /\ Grows
        /\ \A d \in Bidder : /\ Len(requests'[d]) = Len(requests[d])
                             /\ requests'[d] = << >> <=> requests[d] = << >>
    BY <1>t, <2>2, <2>3, <2>4, RequestAdvanced DEF q
  <2> QED  BY <1>t, <2>5
<1>3. ASSUME UNCHANGED requests PROVE Goal
  <2>1. RequestsInv' /\ Grows  BY <1>t, <1>3, SameRequests
  <2> QED  BY <1>t, <1>3, <2>1
<1>4. ASSUME NEW b \in Bidder, Agent(b), ~Quoted(b) PROVE UNCHANGED requests
  BY <1>4 DEF Agent, Start, GetRound, Appraised, Sealed, CommitBid, Throw
<1>5. Goal
  BY <1>1, <1>2, <1>3, <1>4 DEF Next, agentVars, vars
<1> QED  BY <1>1, <1>5

(* The runs' own variables. *)
LEMMA RunsKept ==
    ASSUME IInv, [Next]_vars
    PROVE  /\ RunsInv'
           /\ pc' \in [Bidder -> {"idle", "getRound", "quote", "paid", "seal", "commit"}]
           /\ plan' \in [Bidder -> Offer \cup {NoBid}]
<1> DEFINE Labels == {"idle", "getRound", "quote", "paid", "seal", "commit"}
<1>t. /\ pc \in [Bidder -> Labels] /\ plan \in [Bidder -> Offer \cup {NoBid}]
      /\ RequestsInv /\ RunsInv
  BY DEF IInv, TypeOK
<1>g. /\ Grows
      /\ \A c \in Bidder : /\ requests[c] # << >> => requests'[c] # << >>
                           /\ Quoted(c) => requests'[c] # << >>
  BY RequestsKept
<1>k. \A c \in Bidder : \A o : Backed(c, o) => Backed(c, o)'  BY <1>g, BackingKept
<1> HIDE DEF Labels
(* one run moves to l, with plan o *)
<1>m. ASSUME NEW b \in Bidder, NEW l \in Labels, NEW o \in Offer \cup {NoBid},
             pc' = [pc EXCEPT ![b] = l], plan' = [plan EXCEPT ![b] = o],
             l # "idle" => Consistent(Mandate[b]),
             l = "paid" => requests'[b] # << >>,
             l \in {"seal", "commit"} => o # NoBid,
             Backed(b, o)
      PROVE  RunsInv' /\ pc' \in [Bidder -> Labels] /\ plan' \in [Bidder -> Offer \cup {NoBid}]
  <2>1. pc' \in [Bidder -> Labels] /\ plan' \in [Bidder -> Offer \cup {NoBid}]
    BY <1>t, <1>m
  <2>2. ASSUME NEW c \in Bidder
        PROVE  /\ pc'[c] # "idle" => Consistent(Mandate[c])
               /\ pc'[c] = "paid" => requests'[c] # << >>
               /\ pc'[c] \in {"seal", "commit"} => plan'[c] # NoBid
               /\ Backed(c, plan[c])'
    <3>1. CASE c = b
      <4>1. pc'[c] = l /\ plan'[c] = o  BY <1>t, <1>m, <3>1
      <4>2. Backed(b, o)'  BY <1>k, <1>m
      <4>3. Backed(c, plan[c])'  BY <3>1, <4>1, <4>2 DEF Backed, Charges
      <4> QED  BY <1>m, <3>1, <4>1, <4>3
    <3>2. CASE c # b
      <4>1. pc'[c] = pc[c] /\ plan'[c] = plan[c]  BY <1>t, <1>m, <3>2
      <4>2. Backed(c, plan[c])  BY <1>t DEF RunsInv
      <4>3. Backed(c, plan[c])'  BY <1>k, <4>1, <4>2 DEF Backed, Charges
      <4> QED  BY <1>t, <1>g, <4>1, <4>3 DEF RunsInv
    <3> QED  BY <3>1, <3>2
  <2> QED  BY <2>1, <2>2 DEF RunsInv
<1>s. ASSUME NEW b \in Bidder PROVE plan = [plan EXCEPT ![b] = plan[b]]  BY <1>t
<1>1. ASSUME NEW b \in Bidder, Agent(b)
      PROVE  RunsInv' /\ pc' \in [Bidder -> Labels] /\ plan' \in [Bidder -> Offer \cup {NoBid}]
  <2>0. /\ plan[b] \in Offer \cup {NoBid} /\ Backed(b, plan[b]) /\ Backed(b, NoBid)
        /\ pc[b] # "idle" => Consistent(Mandate[b])
        /\ pc[b] \in {"seal", "commit"} => plan[b] # NoBid
    BY <1>t DEF RunsInv, Backed
  <2> USE DEF Labels
  <2>1. CASE Start(b)
    BY <1>m, <1>s, <2>0, <2>1 DEF Start, Goto, verifySessionMandate, Consistent
  <2>2. CASE GetRound(b)
    BY <1>m, <1>s, <2>0, <2>2 DEF GetRound, Goto
  <2>3. CASE Quoted(b)
    BY <1>g, <1>m, <1>s, <2>0, <2>3 DEF Quoted, Goto
  <2>4. CASE Appraised(b)
    <3> DEFINE n == Len(requests[b])
               r == requests[b][n]
    <3>1. /\ pc[b] = "paid" /\ r.stage = "answered" /\ Goto(b, "seal")
          /\ \E o \in bidFromAppraisal(Mandate[b], r.suggests) : plan' = [plan EXCEPT ![b] = o]
      BY <2>4 DEF Appraised
    <3>2. PICK o \in bidFromAppraisal(Mandate[b], r.suggests) : plan' = [plan EXCEPT ![b] = o]
      BY <3>1
    <3>3. n \in DOMAIN requests[b] /\ r \in Request
      BY <1>t, <3>1, EmptySeq DEF RunsInv, RequestsInv
    <3>4. r.charged /\ Consistent(Mandate[b])  BY <1>t, <3>1, <3>3 DEF RequestsInv
    <3>5. o \in Offer
      <4>1. o.value \in 1..Mandate[b].maxBid
        BY <3>2 DEF bidFromAppraisal, assertBidWithinMandate
      <4>2. o = [value |-> o.value, escrow |-> o.value, seal |-> "good"]
        BY <3>2 DEF bidFromAppraisal
      <4> QED  BY <4>1, <4>2, MandateAssumption
    <3>6. Backed(b, o)
      <4>1. o.value = Clamped(Mandate[b], r.suggests) /\ o.escrow = o.value
        BY <3>2 DEF bidFromAppraisal
      <4>2. o.value \in 1..Mandate[b].maxBid
        BY <3>2, <4>1 DEF bidFromAppraisal, assertBidWithinMandate
      <4>3. n \in Charges(b)  BY <3>3, <3>4 DEF Charges
      <4> QED  BY <3>4, <4>1, <4>2, <4>3 DEF Backed
    <3>7. o # NoBid  BY <3>5, OfferAssumption
    <3> QED  BY <1>m, <3>1, <3>2, <3>4, <3>5, <3>6, <3>7 DEF Goto
  <2>5. CASE Sealed(b)
    BY <1>m, <1>s, <2>0, <2>5 DEF Sealed, Goto
  <2>6. CASE CommitBid(b)
    BY <1>m, <2>0, <2>6 DEF CommitBid, Goto
  <2>7. CASE Throw(b)
    BY <1>m, <2>0, <2>7 DEF Throw, Goto
  <2> QED  BY <1>1, <2>1, <2>2, <2>3, <2>4, <2>5, <2>6, <2>7 DEF Agent
<1>2. CASE UNCHANGED <<pc, plan>>
  <2>1. \A c \in Bidder : Backed(c, plan[c])'
    BY <1>t, <1>k, <1>2 DEF RunsInv, Backed, Charges
  <2>2. RunsInv'
    BY <1>t, <1>g, <1>2, <2>1 DEF RunsInv
  <2>3. pc' \in [Bidder -> Labels] /\ plan' \in [Bidder -> Offer \cup {NoBid}]
    BY <1>t, <1>2
  <2> QED  BY <2>2, <2>3 DEF Labels
<1>3. ASSUME NEW b \in Bidder, NEW i \in DOMAIN requests[b], Server(b, i)
      PROVE  UNCHANGED <<pc, plan>>
  BY <1>3 DEF Server, VerifyPayment, SettlePayment, AnswerRequest, Advance
<1> QED  BY <1>1, <1>2, <1>3 DEF Next, vars, agentVars, Labels

LEMMA BidsKept ==
    ASSUME IInv, [Next]_vars
    PROVE  \A c \in Bidder : Backed(c, bids[c])'
<1> SUFFICES ASSUME NEW c \in Bidder PROVE Backed(c, bids[c])'
  OBVIOUS
<1>1. Backed(c, bids[c]) /\ Backed(c, plan[c])  BY DEF IInv, RunsInv
<1>2. \A o : Backed(c, o) => Backed(c, o)'  BY RequestsKept, BackingKept
<1>3. bids'[c] = bids[c] \/ bids'[c] = plan[c]  BY StepEffect
<1> QED  BY <1>1, <1>2, <1>3 DEF Backed, Charges

LEMMA IInvInit == Init => IInv
<1> SUFFICES ASSUME Init PROVE IInv  OBVIOUS
<1>1. RoundTypeOK /\ ChainInv /\ SettlementExact  BY RoundInitInv DEF Init
<1>2. \A b \in Bidder : requests[b] = << >> /\ pc[b] = "idle" /\ plan[b] = NoBid /\ bids[b] = NoBid
  BY DEF Init, RoundInit
<1>3. RequestsInv  BY <1>2, EmptySeq DEF Init, RequestsInv
<1>4. RunsInv /\ \A b \in Bidder : Backed(b, bids[b])  BY <1>2 DEF RunsInv, Backed
<1>5. TypeOK  BY <1>1, <1>2, EmptySeq, MandateAssumption DEF Init, TypeOK
<1> QED  BY <1>1, <1>3, <1>4, <1>5 DEF IInv

LEMMA IInvStep == IInv /\ [Next]_vars => IInv'
<1> SUFFICES ASSUME IInv, [Next]_vars PROVE IInv'  OBVIOUS
<1>0. /\ RoundTypeOK /\ ChainInv /\ SettlementExact
      /\ UNCHANGED roundVars \/ RoundStep
  BY StepEffect DEF IInv, TypeOK
<1>1. RoundTypeOK' /\ ChainInv' /\ SettlementExact'
  BY <1>0, RoundTyped, ChainKept, OutcomeKept
<1>2. RequestsInv' /\ RunsInv' /\ \A b \in Bidder : Backed(b, bids[b])'
  BY RequestsKept, RunsKept, BidsKept
<1>3. TypeOK'
  <2>1. ASSUME NEW b \in Bidder, NEW i \in DOMAIN requests'[b]
        PROVE  requests'[b][i].stage \in Stages /\ requests'[b][i].suggests \in Suggestions \cup {0}
    <3>1. requests'[b][i] \in Request  BY <1>2 DEF RequestsInv
    <3> QED  BY <3>1 DEF Request
  <2> QED  BY <1>1, <2>1, RequestsKept, RunsKept DEF TypeOK
<1> QED  BY <1>1, <1>2, <1>3 DEF IInv

----------------------------------------------------------------------------

(* The invariant of the sessions, their requests and the round together. *)
THEOREM Inductive == Spec => []IInv
BY IInvInit, IInvStep, PTL DEF Spec

(* Types of the round, the runs and the requests. *)
THEOREM TypeCorrect == Spec => []TypeOK
<1>1. IInv => TypeOK  BY DEF IInv
<1> QED  BY <1>1, Inductive, PTL

(* What stands on chain for a session is a bid its principal authorised. *)
THEOREM MandateHolds == Spec => []BidsWithinMandate
<1>1. IInv => BidsWithinMandate
  BY MandateAssumption DEF IInv, Backed, BidsWithinMandate, Consistent
<1> QED  BY <1>1, Inductive, PTL

(* A round costs a session no more than its escrow cap, and no more than   *)
(* its bid cap in the end.                                                 *)
THEOREM LossBounded == Spec => []LossWithinMandate
<1>1. IInv => LossWithinMandate
  <2> SUFFICES ASSUME IInv, NEW b \in Bidder
               PROVE  /\ -wallet[b] <= Mandate[b].maxEscrow
                      /\ status \in Final => -wallet[b] <= Mandate[b].maxBid
    BY DEF LossWithinMandate
  <2>1. /\ RoundTypeOK /\ ChainInv /\ SettlementExact /\ Backed(b, bids[b])
        /\ Mandate[b].maxBid \in Nat /\ Mandate[b].maxEscrow \in Nat
    BY MandateAssumption DEF IInv, TypeOK
  <2>2. /\ EscrowOf(b) \in Int
        /\ EscrowOf(b) <= Mandate[b].maxEscrow /\ EscrowOf(b) <= Mandate[b].maxBid
    BY <2>1 DEF EscrowOf, Backed, Consistent
  <2>3. CASE status \in Voting
    BY <2>1, <2>2, <2>3 DEF ChainInv, Voting, Final
  <2>4. CASE status = "Voided"
    BY <2>1, <2>4 DEF SettlementExact
  <2>5. CASE status = "Settled"
    <3>1. winner \in Bidder /\ bids[winner] \in Offer /\ bids[winner].value \in Int
      BY <2>1, <2>5, WinnerValid
    <3>2. CASE b = winner
      <4>1. -wallet[b] = bids[b].value /\ bids[b] # NoBid
        BY <2>1, <2>5, <3>1, <3>2, OfferAssumption DEF SettlementExact
      <4>2. bids[b].value <= Mandate[b].maxBid /\ Mandate[b].maxBid <= Mandate[b].maxEscrow
        BY <2>1, <4>1 DEF Backed, Consistent
      <4> QED  BY <2>1, <3>1, <3>2, <4>1, <4>2
    <3>3. CASE b # winner
      BY <2>1, <2>5, <3>3 DEF SettlementExact
    <3> QED  BY <3>2, <3>3
  <2> QED  BY <2>1, <2>3, <2>4, <2>5 DEF RoundTypeOK, Statuses, Voting
<1> QED  BY <1>1, Inductive, PTL

(* No bid stands that no appraisal the session was charged for backs. *)
THEOREM BidsArePaidFor == Spec => []PaidBeforeBid
<1>1. IInv => PaidBeforeBid  BY DEF IInv, Backed, PaidBeforeBid
<1> QED  BY <1>1, Inductive, PTL

(* Neither a malformed request nor an unverified mandate is ever charged. *)
THEOREM NoUnjustCharge == Spec => []MalformedNeverCosts
<1>1. IInv => MalformedNeverCosts
  BY DEF IInv, RequestsInv, MalformedNeverCosts, Charges, Consistent
<1> QED  BY <1>1, Inductive, PTL

(***************************************************************************)
(* What the agents rely on: the appraisal (Valuation), the mandate's caps  *)
(* (MandateCaps) and the times of a round (BeaconTime), for every input of *)
(* Library, whatever prices and attribute levels are tried.  The factors   *)
(* of a value are natural numbers that move one way with their attribute,  *)
(* products and rounding are monotone, and the suggestion is at most 95    *)
(* hundredths of the value before it is rounded.                           *)
(***************************************************************************)

Grade == 0..100 \cup {Absent}
QualityF(v)  == 5 + Or50(v) \div 10
DemandF(v)   == 6 + (8 * Or50(v)) \div 100
ScarcityF(v) == 7 + (6 * Or50(v)) \div 100
RiskF(v)     == 10 - (4 * Or50(v)) \div 100

LEMMA Factors ==
    ASSUME NEW v \in Grade
    PROVE  QualityF(v) \in Nat /\ DemandF(v) \in Nat /\ ScarcityF(v) \in Nat /\ RiskF(v) \in Nat
<1>1. Or50(v) \in 0..100  BY DEF Or50, Grade
<1> DEFINE u == Or50(v)
<1> HIDE DEF u
<1>2. ASSUME u \in 0..100
      PROVE  /\ 5 + u \div 10 \in Nat /\ 6 + (8 * u) \div 100 \in Nat
             /\ 7 + (6 * u) \div 100 \in Nat /\ 10 - (4 * u) \div 100 \in Nat
  BY <1>2
<1> QED  BY <1>1, <1>2 DEF u, QualityF, DemandF, ScarcityF, RiskF

LEMMA FactorsMove ==
    ASSUME NEW v \in 0..100, NEW w \in 0..100, v <= w
    PROVE  /\ QualityF(v) <= QualityF(w) /\ DemandF(v) <= DemandF(w)
           /\ ScarcityF(v) <= ScarcityF(w) /\ RiskF(w) <= RiskF(v)
<1>1. Or50(v) = v /\ Or50(w) = w  BY LibraryAssumption DEF Or50
<1>2. /\ v \div 10 <= w \div 10 /\ (8 * v) \div 100 <= (8 * w) \div 100
      /\ (6 * v) \div 100 <= (6 * w) \div 100 /\ (4 * v) \div 100 <= (4 * w) \div 100
  OBVIOUS
<1>3. /\ v \div 10 \in Int /\ w \div 10 \in Int /\ (8 * v) \div 100 \in Int /\ (8 * w) \div 100 \in Int
      /\ (6 * v) \div 100 \in Int /\ (6 * w) \div 100 \in Int /\ (4 * v) \div 100 \in Int
      /\ (4 * w) \div 100 \in Int
  OBVIOUS
<1> QED  BY <1>1, <1>2, <1>3 DEF QualityF, DemandF, ScarcityF, RiskF

LEMMA TimesMono ==
    ASSUME NEW a \in Nat, NEW b \in Nat, NEW c \in Nat, NEW d \in Nat, a <= b, c <= d
    PROVE  a * c \in Nat /\ b * d \in Nat /\ a * c <= b * d
<1>1. c * (b - a) >= 0 /\ b * (d - c) >= 0  OBVIOUS
<1>2. c * (b - a) = b * c - a * c /\ b * (d - c) = b * d - b * c  OBVIOUS
<1> QED  BY <1>1, <1>2

(* the product fairValue rounds *)
Product(b, q, d, s, r, m) == b * q * d * s * r * m

LEMMA ProductMono ==
    ASSUME NEW b \in Nat, NEW m \in Nat,
           NEW q \in Nat, NEW d \in Nat, NEW s \in Nat, NEW r \in Nat,
           NEW Q \in Nat, NEW D \in Nat, NEW S \in Nat, NEW R \in Nat,
           q <= Q, d <= D, s <= S, r <= R
    PROVE  /\ Product(b, q, d, s, r, m) \in Nat /\ Product(b, Q, D, S, R, m) \in Nat
           /\ Product(b, q, d, s, r, m) <= Product(b, Q, D, S, R, m)
<1>1. b * q \in Nat /\ b * Q \in Nat /\ b * q <= b * Q  BY TimesMono
<1>2. b * q * d \in Nat /\ b * Q * D \in Nat /\ b * q * d <= b * Q * D
  BY ONLY <1>1, TimesMono, d \in Nat, D \in Nat, d <= D
<1>3. b * q * d * s \in Nat /\ b * Q * D * S \in Nat /\ b * q * d * s <= b * Q * D * S
  BY ONLY <1>2, TimesMono, s \in Nat, S \in Nat, s <= S
<1>4. /\ b * q * d * s * r \in Nat /\ b * Q * D * S * R \in Nat
      /\ b * q * d * s * r <= b * Q * D * S * R
  BY ONLY <1>3, TimesMono, r \in Nat, R \in Nat, r <= R
<1>5. m <= m  OBVIOUS
<1>6. /\ b * q * d * s * r * m \in Nat /\ b * Q * D * S * R * m \in Nat
      /\ b * q * d * s * r * m <= b * Q * D * S * R * m
  BY ONLY <1>4, <1>5, TimesMono, m \in Nat
<1> QED  BY <1>6 DEF Product

LEMMA Multipliers == ASSUME NEW category PROVE Multiplier(category) \in Nat
  BY DEF Multiplier

(* fairValue of a request, factor by factor *)
LEMMA FairValueIs ==
    ASSUME NEW req
    PROVE  fairValue(req) =
             Rounded(Product(req.basePrice, QualityF(req.attributes["quality"]),
                             DemandF(req.attributes["demand"]),
                             ScarcityF(req.attributes["scarcity"]),
                             RiskF(req.attributes["risk"]), Multiplier(req.category)), 200000)
  BY DEF fairValue, Product, QualityF, DemandF, ScarcityF, RiskF

LEMMA RoundedValue ==
    ASSUME NEW m \in Nat, NEW n \in Nat, m <= n
    PROVE  Rounded(m, 200000) \in Nat /\ Rounded(n, 200000) \in Nat
           /\ Rounded(m, 200000) <= Rounded(n, 200000)
  BY DEF Rounded

LEMMA OneMore ==
    ASSUME NEW S, IsFiniteSet(S), NEW e
    PROVE  /\ IsFiniteSet(S \cup {e})
           /\ Cardinality(S) \in Nat /\ Cardinality(S \cup {e}) \in Nat
           /\ Cardinality(S \cup {e}) <= Cardinality(S) + 1
<1>1. Cardinality(S) \in Nat  BY FS_CardinalityType
<1>2. /\ IsFiniteSet(S \cup {e})
      /\ Cardinality(S \cup {e}) = IF e \in S THEN Cardinality(S) ELSE Cardinality(S) + 1
  BY FS_AddElement
<1> QED  BY <1>1, <1>2

LEMMA FourAtMost ==
    ASSUME NEW a, NEW b, NEW c, NEW d
    PROVE  /\ IsFiniteSet({a, b, c, d})
           /\ Cardinality({a, b, c, d}) \in Nat /\ Cardinality({a, b, c, d}) <= 4
<1> DEFINE S0 == {}  S1 == S0 \cup {a}  S2 == S1 \cup {b}  S3 == S2 \cup {c}  S4 == S3 \cup {d}
<1>0. IsFiniteSet(S0) /\ Cardinality(S0) = 0  BY FS_EmptySet
<1>5. {a, b, c, d} = S4  OBVIOUS
<1> HIDE DEF S0
<1>1. /\ IsFiniteSet(S1) /\ Cardinality(S0) \in Nat /\ Cardinality(S1) \in Nat
      /\ Cardinality(S1) <= Cardinality(S0) + 1
  BY <1>0, OneMore
<1> HIDE DEF S1
<1>2. /\ IsFiniteSet(S2) /\ Cardinality(S2) \in Nat /\ Cardinality(S2) <= Cardinality(S1) + 1
  BY <1>1, OneMore
<1> HIDE DEF S2
<1>3. /\ IsFiniteSet(S3) /\ Cardinality(S3) \in Nat /\ Cardinality(S3) <= Cardinality(S2) + 1
  BY <1>2, OneMore
<1> HIDE DEF S3
<1>4. /\ IsFiniteSet(S4) /\ Cardinality(S4) \in Nat /\ Cardinality(S4) <= Cardinality(S3) + 1
  BY <1>3, OneMore
<1> HIDE DEF S4
<1>6. Cardinality(S4) <= 4  BY <1>0, <1>1, <1>2, <1>3, <1>4
<1> QED  BY <1>4, <1>5, <1>6

LEMMA Confidences ==
    ASSUME NEW req
    PROVE  confidence(req) \in {50, 63, 75, 88, 100}
<1> DEFINE given == {a \in Attributes : req.attributes[a] # Absent}
<1>1. IsFiniteSet(Attributes) /\ Cardinality(Attributes) \in Nat /\ Cardinality(Attributes) <= 4
  BY FourAtMost DEF Attributes
<1>2. given \in SUBSET Attributes  OBVIOUS
<1> HIDE DEF given
<1>3. Cardinality(given) \in Nat /\ Cardinality(given) <= 4
  BY <1>1, <1>2, FS_Subset, FS_CardinalityType
<1>4. provided(req) \in {0, 1, 2, 3, 4}  BY <1>3 DEF provided, given
<1> QED  BY <1>4 DEF confidence, Rounded

(* What appraise makes of a fair value f and a confidence c. *)
BandHolds(f, c) ==
    /\ 0 <= Rounded(f * (100 + c), 200) /\ Rounded(f * (100 + c), 200) <= f
    /\ f <= Rounded(f * (300 - c), 200)
    /\ Rounded(f * (8000 + 15 * c), 10000) <= f
    /\ f > 10 => /\ Rounded(f * (8000 + 15 * c), 10000) < f
                 /\ Rounded(f * (8000 + 15 * c), 10000) > 0

LEMMA BandAround ==
    ASSUME NEW f \in Nat, NEW c \in {50, 63, 75, 88, 100}
    PROVE  BandHolds(f, c)
<1>1. CASE c = 50  BY <1>1 DEF BandHolds, Rounded
<1>2. CASE c = 63  BY <1>2 DEF BandHolds, Rounded
<1>3. CASE c = 75  BY <1>3 DEF BandHolds, Rounded
<1>4. CASE c = 88  BY <1>4 DEF BandHolds, Rounded
<1>5. CASE c = 100  BY <1>5 DEF BandHolds, Rounded
<1> QED  BY <1>1, <1>2, <1>3, <1>4, <1>5

LEMMA SuggestionMono ==
    ASSUME NEW f \in Nat, NEW g \in Nat, f <= g, NEW c \in {50, 63, 75, 88, 100}
    PROVE  Rounded(f * (8000 + 15 * c), 10000) <= Rounded(g * (8000 + 15 * c), 10000)
<1>1. CASE c = 50  BY <1>1 DEF Rounded
<1>2. CASE c = 63  BY <1>2 DEF Rounded
<1>3. CASE c = 75  BY <1>3 DEF Rounded
<1>4. CASE c = 88  BY <1>4 DEF Rounded
<1>5. CASE c = 100  BY <1>5 DEF Rounded
<1> QED  BY <1>1, <1>2, <1>3, <1>4, <1>5

(* What is made of a request: its attributes are grades, and a request that *)
(* differs from it only in a given attribute, given too, is as confident.   *)
LEMMA Parsed ==
    ASSUME NEW q \in AppraisalRequest, Accepted(q)
    PROVE  /\ parseAppraisalRequest(q).basePrice \in Nat
           /\ parseAppraisalRequest(q).category = q.category
           /\ parseAppraisalRequest(q).attributes =
                [a \in Attributes |-> IF q.attributes[a] = Absent THEN Absent
                                      ELSE Clamp(q.attributes[a])]
           /\ \A a \in Attributes :
                 /\ parseAppraisalRequest(q).attributes[a] \in Grade
                 /\ q.attributes[a] \in Levels \cup {Absent}
<1>1. q.basePrice \in Int /\ q.basePrice > 0
  BY LibraryAssumption DEF AppraisalRequest, Accepted
<1>2. \A a \in Attributes : q.attributes[a] \in Levels \cup {Absent}
  BY DEF AppraisalRequest, Accepted
<1>3. \A v \in Int : Clamp(v) \in 0..100  BY DEF Clamp
<1> DEFINE F == [a \in Attributes |-> IF q.attributes[a] = Absent THEN Absent
                                      ELSE Clamp(q.attributes[a])]
<1>4. \A a \in Attributes : F[a] \in Grade  BY <1>2, <1>3, LibraryAssumption DEF Grade
<1> HIDE DEF F
<1>5. parseAppraisalRequest(q) = [basePrice |-> q.basePrice, category |-> q.category, attributes |-> F]
  BY DEF parseAppraisalRequest, F
<1>6. /\ parseAppraisalRequest(q).basePrice \in Nat /\ parseAppraisalRequest(q).category = q.category
      /\ parseAppraisalRequest(q).attributes = F
  BY <1>1, <1>5
<1> QED  BY <1>2, <1>4, <1>6 DEF F

LEMMA MoreOf ==
    ASSUME NEW q \in AppraisalRequest, Accepted(q),
           NEW k \in Attributes, NEW v \in Levels,
           q.attributes[k] # Absent, q.attributes[k] <= v
    PROVE  LET req == parseAppraisalRequest(q)
               more == parseAppraisalRequest([q EXCEPT !.attributes[k] = v])
           IN /\ req.basePrice \in Nat /\ more.basePrice = req.basePrice
              /\ more.category = req.category
              /\ \A a \in Attributes : /\ req.attributes[a] \in Grade
                                       /\ more.attributes[a] \in Grade
                                       /\ a # k => more.attributes[a] = req.attributes[a]
              /\ req.attributes[k] \in 0..100 /\ more.attributes[k] \in 0..100
              /\ req.attributes[k] <= more.attributes[k]
              /\ confidence(more) = confidence(req)
<1> DEFINE Q == [q EXCEPT !.attributes[k] = v]
           req == parseAppraisalRequest(q)
           more == parseAppraisalRequest(Q)
<1>1. /\ Q.basePrice = q.basePrice /\ Q.category = q.category
      /\ \A a \in Attributes : Q.attributes[a] = IF a = k THEN v ELSE q.attributes[a]
  BY DEF AppraisalRequest
<1>2. /\ req.basePrice \in Nat /\ req.category = q.category
      /\ \A a \in Attributes :
            /\ req.attributes[a] = IF q.attributes[a] = Absent THEN Absent
                                   ELSE Clamp(q.attributes[a])
            /\ req.attributes[a] \in Grade
  BY Parsed
<1>3. /\ more.basePrice = req.basePrice /\ more.category = req.category
      /\ \A a \in Attributes : more.attributes[a] =
            IF Q.attributes[a] = Absent THEN Absent ELSE Clamp(Q.attributes[a])
  BY <1>1 DEF parseAppraisalRequest
<1>4. v \in Int /\ v # Absent /\ q.attributes[k] \in Int /\ Absent \notin 0..100
  BY LibraryAssumption, Parsed
<1> HIDE DEF req, more, Q
<1>5. \A a \in Attributes : a # k => more.attributes[a] = req.attributes[a]
  BY <1>1, <1>2, <1>3
<1>6. req.attributes[k] = Clamp(q.attributes[k]) /\ more.attributes[k] = Clamp(v)
  BY <1>1, <1>2, <1>3, <1>4
<1>7. /\ req.attributes[k] \in 0..100 /\ more.attributes[k] \in 0..100
      /\ req.attributes[k] <= more.attributes[k]
  BY <1>4, <1>6 DEF Clamp
<1>8. \A a \in Attributes : more.attributes[a] \in Grade
  BY <1>2, <1>5, <1>7 DEF Grade
<1>9. {a \in Attributes : req.attributes[a] # Absent} = {a \in Attributes : more.attributes[a] # Absent}
  BY <1>4, <1>5, <1>7
<1>10. confidence(more) = confidence(req)  BY <1>9 DEF confidence, provided
<1> QED  BY <1>2, <1>3, <1>5, <1>7, <1>8, <1>10 DEF req, more, Q

(* More of an attribute moves the fair value its factor's way. *)
LEMMA FairValueMoves ==
    ASSUME NEW q \in AppraisalRequest, Accepted(q),
           NEW k \in Attributes, NEW v \in Levels,
           q.attributes[k] # Absent, q.attributes[k] <= v
    PROVE  LET f == fairValue(parseAppraisalRequest(q))
               g == fairValue(parseAppraisalRequest([q EXCEPT !.attributes[k] = v]))
           IN f \in Nat /\ g \in Nat /\ (IF k = "risk" THEN g <= f ELSE f <= g)
<1> DEFINE req == parseAppraisalRequest(q)
           more == parseAppraisalRequest([q EXCEPT !.attributes[k] = v])
           m == Multiplier(req.category)
           P(r) == Product(req.basePrice, QualityF(r.attributes["quality"]),
                           DemandF(r.attributes["demand"]), ScarcityF(r.attributes["scarcity"]),
                           RiskF(r.attributes["risk"]), m)
<1>1. /\ req.basePrice \in Nat /\ more.basePrice = req.basePrice /\ more.category = req.category
      /\ \A a \in Attributes : /\ req.attributes[a] \in Grade /\ more.attributes[a] \in Grade
                               /\ a # k => more.attributes[a] = req.attributes[a]
      /\ req.attributes[k] \in 0..100 /\ more.attributes[k] \in 0..100
      /\ req.attributes[k] <= more.attributes[k]
  BY MoreOf
<1>2. m \in Nat  BY Multipliers
<1>3. fairValue(req) = Rounded(P(req), 200000)  BY FairValueIs
<1>4. fairValue(more) = Rounded(P(more), 200000)
  <2> HIDE DEF req
  <2> QED  BY <1>1, FairValueIs
<1> HIDE DEF req, more, m
<1>5. \A r \in {req, more} :
         /\ QualityF(r.attributes["quality"]) \in Nat /\ DemandF(r.attributes["demand"]) \in Nat
         /\ ScarcityF(r.attributes["scarcity"]) \in Nat /\ RiskF(r.attributes["risk"]) \in Nat
  BY <1>1, Factors DEF Attributes
<1>6. CASE k = "risk"
  <2>1. /\ more.attributes["quality"] = req.attributes["quality"]
        /\ more.attributes["demand"] = req.attributes["demand"]
        /\ more.attributes["scarcity"] = req.attributes["scarcity"]
        /\ RiskF(more.attributes["risk"]) <= RiskF(req.attributes["risk"])
    BY <1>1, <1>6, FactorsMove DEF Attributes
  <2>2. \A n \in Nat : n <= n  OBVIOUS
  <2>3. P(more) \in Nat /\ P(req) \in Nat /\ P(more) <= P(req)
    BY <1>1, <1>2, <1>5, <2>1, <2>2, ProductMono
  <2> HIDE DEF P
  <2> QED  BY <1>3, <1>4, <1>6, <2>3, RoundedValue DEF req, more
<1>7. CASE k # "risk"
  <2>1. /\ more.attributes["risk"] = req.attributes["risk"]
        /\ QualityF(req.attributes["quality"]) <= QualityF(more.attributes["quality"])
        /\ DemandF(req.attributes["demand"]) <= DemandF(more.attributes["demand"])
        /\ ScarcityF(req.attributes["scarcity"]) <= ScarcityF(more.attributes["scarcity"])
    <3>1. more.attributes["risk"] = req.attributes["risk"]  BY <1>1, <1>7 DEF Attributes
    <3>2. \A n \in Nat : n <= n  OBVIOUS
    <3>3. QualityF(req.attributes["quality"]) <= QualityF(more.attributes["quality"])
      <4>1. CASE k = "quality"  BY <1>1, <4>1, FactorsMove
      <4>2. CASE k # "quality"  BY <1>1, <1>5, <3>2, <4>2 DEF Attributes
      <4> QED  BY <4>1, <4>2
    <3>4. DemandF(req.attributes["demand"]) <= DemandF(more.attributes["demand"])
      <4>1. CASE k = "demand"  BY <1>1, <4>1, FactorsMove
      <4>2. CASE k # "demand"  BY <1>1, <1>5, <3>2, <4>2 DEF Attributes
      <4> QED  BY <4>1, <4>2
    <3>5. ScarcityF(req.attributes["scarcity"]) <= ScarcityF(more.attributes["scarcity"])
      <4>1. CASE k = "scarcity"  BY <1>1, <4>1, FactorsMove
      <4>2. CASE k # "scarcity"  BY <1>1, <1>5, <3>2, <4>2 DEF Attributes
      <4> QED  BY <4>1, <4>2
    <3> QED  BY <3>1, <3>3, <3>4, <3>5
  <2>2. \A n \in Nat : n <= n  OBVIOUS
  <2>3. P(more) \in Nat /\ P(req) \in Nat /\ P(req) <= P(more)
    BY <1>1, <1>2, <1>5, <2>1, <2>2, ProductMono
  <2> HIDE DEF P
  <2> QED  BY <1>3, <1>4, <1>7, <2>3, RoundedValue DEF req, more
<1> QED  BY <1>6, <1>7

LEMMA FairValueType ==
    ASSUME NEW q \in AppraisalRequest, Accepted(q)
    PROVE  fairValue(parseAppraisalRequest(q)) \in Nat
<1> DEFINE req == parseAppraisalRequest(q)
           P == Product(req.basePrice, QualityF(req.attributes["quality"]),
                        DemandF(req.attributes["demand"]), ScarcityF(req.attributes["scarcity"]),
                        RiskF(req.attributes["risk"]), Multiplier(req.category))
<1>1. req.basePrice \in Nat /\ \A a \in Attributes : req.attributes[a] \in Grade  BY Parsed
<1>2. Multiplier(req.category) \in Nat  BY Multipliers
<1>3. fairValue(req) = Rounded(P, 200000)  BY FairValueIs
<1> HIDE DEF req
<1>4. /\ QualityF(req.attributes["quality"]) \in Nat /\ DemandF(req.attributes["demand"]) \in Nat
      /\ ScarcityF(req.attributes["scarcity"]) \in Nat /\ RiskF(req.attributes["risk"]) \in Nat
  BY <1>1, Factors DEF Attributes
<1>5. \A n \in Nat : n <= n  OBVIOUS
<1>6. P \in Nat  BY <1>1, <1>2, <1>4, <1>5, ProductMono
<1> HIDE DEF P
<1> QED  BY <1>3, <1>5, <1>6, RoundedValue DEF req

(* demoActions.ts:27, for any mandate record whose caps are numbers. *)
LEMMA CapLab ==
    ASSUME NEW m, {m.maxBid, m.maxEscrow, m.maxSpend, m.price} \subseteq Nat,
           NEW quoted \in Nat, NEW suggests \in Nat, NEW bid \in Nat, NEW escrow \in Nat,
           m.maxBid \in 1..m.maxEscrow, m.price <= m.maxSpend
    PROVE  LET passed == runCapSafetyDemos(m, quoted, suggests, bid, escrow) IN
           /\ quoted > m.price => "appraisal-cap" \in passed
           /\ suggests >= m.maxBid => "maxbid-clamp" \in passed
           /\ assertBidWithinMandate(m, bid, escrow) => "escrow-onchain" \notin passed
<1> DEFINE passed == runCapSafetyDemos(m, quoted, suggests, bid, escrow)
<1>1. quoted > m.price => "appraisal-cap" \in passed
  BY DEF runCapSafetyDemos, assertAppraisalSpendAllowed
<1>2. ASSUME suggests >= m.maxBid PROVE "maxbid-clamp" \in passed
  <2>1. Clamped(m, suggests) = m.maxBid  BY <1>2 DEF Clamped
  <2>2. assertBidWithinMandate(m, m.maxBid, m.maxBid)  BY DEF assertBidWithinMandate
  <2>3. [value |-> m.maxBid, escrow |-> m.maxBid, seal |-> "good"] \in bidFromAppraisal(m, suggests)
    BY <2>1, <2>2 DEF bidFromAppraisal
  <2> QED  BY <2>3 DEF runCapSafetyDemos
<1>3. assertBidWithinMandate(m, bid, escrow) => "escrow-onchain" \notin passed
  BY DEF runCapSafetyDemos, assertBidWithinMandate
<1> QED  BY <1>1, <1>2, <1>3

(* Once an input always that input: what holds of every input holds always. *)
LEMMA InputKinds ==
    ASSUME AnyInput
    PROVE  /\ Given("time") => x \in Click
           /\ Given("appraisal") => x \in AppraisalRequest
           /\ Given("caps") => x \in Lab
  BY DEF AnyInput, Given, Bid, Opening, Point, Variant, Click, AppraisalRequest, Lab, Reveals, Demo

LEMMA SuggestionBoundedNow == AnyInput => SuggestionBounded
<1> SUFFICES ASSUME AnyInput PROVE SuggestionBounded  OBVIOUS
<1> DEFINE req == parseAppraisalRequest(x)
           a == appraise(req)
<1>1. ASSUME Given("appraisal"), Accepted(x)
      PROVE  /\ 0 <= a.low /\ a.low <= a.fairValue /\ a.fairValue <= a.high
             /\ a.suggestedMaxBid <= a.fairValue
             /\ a.fairValue > 10 => a.suggestedMaxBid < a.fairValue /\ a.suggestedMaxBid > 0
  <2>1. x \in AppraisalRequest  BY <1>1, InputKinds
  <2>2. fairValue(req) \in Nat  BY <1>1, <2>1, FairValueType
  <2>3. confidence(req) \in {50, 63, 75, 88, 100}  BY Confidences
  <2> DEFINE f == fairValue(req)  c == confidence(req)
  <2> HIDE DEF req
  <2>4. /\ a.fairValue = f
        /\ a.low = Rounded(f * (100 + c), 200) /\ a.high = Rounded(f * (300 - c), 200)
        /\ a.suggestedMaxBid = Rounded(f * (8000 + 15 * c), 10000)
    BY DEF appraise
  <2> HIDE DEF a, f, c
  <2>5. f \in Nat /\ c \in {50, 63, 75, 88, 100}  BY <2>2, <2>3 DEF f, c
  <2> DEFINE low == Rounded(f * (100 + c), 200)  high == Rounded(f * (300 - c), 200)
             suggested == Rounded(f * (8000 + 15 * c), 10000)
  <2>6. 0 <= low /\ low <= f /\ f <= high /\ suggested <= f /\ (f > 10 => suggested < f /\ suggested > 0)
    <3>1. BandHolds(f, c)  BY ONLY <2>5, BandAround
    <3> QED  BY ONLY <3>1 DEF BandHolds
  <2> HIDE DEF low, high, suggested
  <2>7. a.fairValue = f /\ a.low = low /\ a.high = high /\ a.suggestedMaxBid = suggested
    BY <2>4 DEF low, high, suggested
  <2> QED  BY ONLY <2>6, <2>7
<1>2. ASSUME Given("appraisal"), Accepted(x), NEW k \in Attributes, NEW v \in Levels,
             x.attributes[k] # Absent, x.attributes[k] <= v
      PROVE  LET then == appraise(parseAppraisalRequest([x EXCEPT !.attributes[k] = v])).suggestedMaxBid
             IN IF k = "risk" THEN then <= a.suggestedMaxBid ELSE a.suggestedMaxBid <= then
  <2> DEFINE more == parseAppraisalRequest([x EXCEPT !.attributes[k] = v])
             c == confidence(req)  f == fairValue(req)  g == fairValue(more)
  <2>1. x \in AppraisalRequest  BY <1>2, InputKinds
  <2>2. f \in Nat /\ g \in Nat /\ (IF k = "risk" THEN g <= f ELSE f <= g)
    BY <1>2, <2>1, FairValueMoves
  <2>3. confidence(more) = c  BY <1>2, <2>1, MoreOf
  <2>4. c \in {50, 63, 75, 88, 100}  BY Confidences
  <2> HIDE DEF req, more
  <2>5. /\ a.suggestedMaxBid = Rounded(f * (8000 + 15 * c), 10000)
        /\ appraise(more).suggestedMaxBid = Rounded(g * (8000 + 15 * c), 10000)
    BY <2>3 DEF appraise
  <2> HIDE DEF c, f, g, a
  <2> QED  BY <2>2, <2>4, <2>5, SuggestionMono DEF more
<1>3. ASSUME Given("caps"), x.maxBid \in 1..x.maxEscrow, x.price <= x.maxSpend
      PROVE  LET passed == runCapSafetyDemos(x, x.quoted, x.suggests, x.bid, x.escrow) IN
             /\ x.quoted > x.price => "appraisal-cap" \in passed
             /\ x.suggests >= x.maxBid => "maxbid-clamp" \in passed
             /\ assertBidWithinMandate(x, x.bid, x.escrow) => "escrow-onchain" \notin passed
  <2>1. /\ {x.maxBid, x.maxEscrow, x.maxSpend, x.price} \subseteq Nat
        /\ x.quoted \in Nat /\ x.suggests \in Nat /\ x.bid \in Nat /\ x.escrow \in Nat
    BY <1>3, InputKinds DEF Lab
  <2> QED  BY <1>3, <2>1, CapLab
<1> QED  BY <1>1, <1>2, <1>3 DEF SuggestionBounded

LEMMA BeaconTimesAgreeNow == AnyInput => BeaconTimesAgree
<1> SUFFICES ASSUME AnyInput, Given("time") PROVE BeaconTimesAgree  BY DEF BeaconTimesAgree
<1>0. Genesis \in Nat /\ Period \in Nat \ {0}  BY BeaconAssumption
<1>1. x.t \in Nat /\ x.t >= Genesis /\ x.window \in Nat
  <2>1. x \in Click  BY InputKinds
  <2> QED  BY <1>0, <2>1 DEF Click
<1>2. ClosesBeforeR(x.t, x.window) /\ WindowKept(x.t, x.window)
  BY <1>1, CommitsCloseBeforeR, ChosenWindowKept
<1>3. \A r \in 1..5 : CountdownIsLate(x.t, r)
  BY <1>0, <1>1, CountdownNeverEarly
<1>4. \A n \in Int : (Period * n) \div Period = n
  <2> TAKE n \in Int
  <2> DEFINE d == (Period * n) \div Period
  <2>1. Period * n \in Int  BY <1>0
  <2>2. d \in Int /\ Period * d <= Period * n /\ Period * n < Period * d + Period
    BY <1>0, <2>1, DivFacts
  <2>3. Period * (d + 1) = Period * d + Period /\ Period * (n + 1) = Period * n + Period
    BY <1>0, <2>2, NextRound
  <2>4. ~(d >= n + 1)
    <3> SUFFICES ASSUME d >= n + 1 PROVE FALSE  OBVIOUS
    <3>1. Period * d >= Period * (n + 1)  BY <1>0, <2>2, Monotone
    <3> HIDE DEF d
    <3> QED  BY <1>0, <2>1, <2>2, <2>3, <3>1
  <2>5. ~(n >= d + 1)
    <3> SUFFICES ASSUME n >= d + 1 PROVE FALSE  OBVIOUS
    <3>1. d + 1 \in Int  BY <2>2
    <3>2. Period * n >= Period * (d + 1)  BY <1>0, <3>1, Monotone
    <3> HIDE DEF d
    <3>3. Period * d \in Int  BY <1>0, <2>2
    <3> QED  BY <1>0, <2>1, <2>2, <2>3, <3>2, <3>3
  <2> HIDE DEF d
  <2>6. d = n  BY <2>2, <2>4, <2>5
  <2> QED  BY <2>6 DEF d
<1>5. \A n \in Nat : Period * n \in Nat
  BY <1>0
<1>6. roundAt(timeOfRound(x.window + 1)) = x.window + 2
  <2>1. Period * (x.window + 1) \in Nat /\ (Period * (x.window + 1)) \div Period = x.window + 1
    BY <1>1, <1>4, <1>5
  <2> DEFINE p == Period * (x.window + 1)
  <2>2. Genesis + p - Genesis = p /\ ~(Genesis + p < Genesis)  BY <1>0, <2>1
  <2>5. p \in Nat  BY <2>1
  <2> HIDE DEF p
  <2>3. timeOfRound(x.window + 1) = Genesis + p  BY DEF timeOfRound, p
  <2>4. roundAt(Genesis + p) = p \div Period + 1  BY <1>0, <2>2, <2>5 DEF roundAt
  <2> QED  BY <1>1, <2>1, <2>3, <2>4 DEF p
<1>7. roundAt(publishedAt(x.window + 1)) = x.window + 1
  <2>1. x.window + 1 - 1 = x.window  BY <1>1
  <2>2. Period * x.window \in Nat /\ (Period * x.window) \div Period = x.window
    BY <1>1, <1>4, <1>5
  <2> DEFINE p == Period * x.window
  <2>3. Genesis + p - Genesis = p /\ ~(Genesis + p < Genesis)  BY <1>0, <2>2
  <2>6. p \in Nat  BY <2>2
  <2> HIDE DEF p
  <2>4. publishedAt(x.window + 1) = Genesis + p
    <3>1. publishedAt(x.window + 1) = Genesis + Period * (x.window + 1 - 1)  BY <1>0, <1>1 DEF publishedAt
    <3> QED  BY <2>1, <3>1 DEF p
  <2>5. roundAt(Genesis + p) = p \div Period + 1  BY <1>0, <2>3, <2>6 DEF roundAt
  <2> QED  BY <2>2, <2>4, <2>5 DEF p
<1> QED  BY <1>2, <1>3, <1>6, <1>7 DEF BeaconTimesAgree

(* SuggestionBounded of Library, for every price and attribute level: the  *)
(* suggestion of appraise stays below the fair value and moves the right   *)
(* way with each attribute, and the caps of a mandate hold.                *)
THEOREM SuggestionsAreBounded == Inputs => []SuggestionBounded
<1>1. AnyInput /\ [UNCHANGED x]_x => AnyInput'
  BY DEF AnyInput
<1> QED  BY <1>1, SuggestionBoundedNow, PTL DEF Inputs

(* BeaconTimesAgree of Library, for every genesis, period, margin and      *)
(* reveal window: createRound's deadlines lie on the right side of R, and  *)
(* the three clocks of it differ by exactly one period.                    *)
THEOREM BeaconTimesHold == Inputs => []BeaconTimesAgree
<1>1. AnyInput /\ [UNCHANGED x]_x => AnyInput'
  BY DEF AnyInput
<1> QED  BY <1>1, BeaconTimesAgreeNow, PTL DEF Inputs

----------------------------------------------------------------------------
(* Sealing: digits.  A recursive function is given by its equation, which  *)
(* only the iterates satisfy; the induction is over the number of digits,  *)
(* by a least counterexample.                                              *)

(* induction up to L, for a set *)
LEMMA UpTo ==
    ASSUME NEW L \in Nat, NEW S, 0 \in S, \A i \in 1..L : i - 1 \in S => i \in S
    PROVE  \A i \in 0..L : i \in S
<1> DEFINE T == {i \in 0..L : i \notin S}
<1> SUFFICES ASSUME T # {} PROVE FALSE  OBVIOUS
<1>1. PICK n \in T : \A m \in T : n <= m
  <2>1. T \subseteq Nat /\ T # {}  OBVIOUS
  <2> HIDE DEF T
  <2> QED  BY <2>1, LeastNat
<1>2. n \in 1..L /\ n - 1 \in 0..L /\ n - 1 \notin T  BY <1>1
<1> QED  BY <1>1, <1>2

(* A value computed step by step from a is defined. *)
Iteration(f, L, a, G) == f = [i \in 0..L |-> IF i = 0 THEN a ELSE G[i][f[i - 1]]]

LEMMA Iterates ==
    ASSUME NEW L \in Nat, NEW a \in Int, NEW G \in [1..L -> [Int -> Int]]
    PROVE  \E f \in [0..L -> Int] : Iteration(f, L, a, G)
<1> DEFINE S == {n \in 0..L : \E f \in [0..n -> Int] : Iteration(f, n, a, G)}
<1>1. 0 \in S
  <2>1. [i \in 0..0 |-> a] \in [0..0 -> Int] /\ Iteration([i \in 0..0 |-> a], 0, a, G)
    BY DEF Iteration
  <2> QED  BY <2>1
<1>2. ASSUME NEW n \in 1..L, n - 1 \in S PROVE n \in S
  <2>1. PICK f \in [0..(n - 1) -> Int] : Iteration(f, n - 1, a, G)  BY <1>2
  <2> DEFINE g == [i \in 0..n |-> IF i = n THEN G[n][f[n - 1]] ELSE f[i]]
  <2>2. f[n - 1] \in Int /\ G[n] \in [Int -> Int]  BY <2>1
  <2>3. g \in [0..n -> Int]
    <3>1. \A i \in 0..n : i # n => f[i] \in Int
      <4>1. \A i \in 0..n : i # n => i \in 0..(n - 1)  OBVIOUS
      <4> QED  BY <2>1, <4>1
    <3>2. G[n][f[n - 1]] \in Int  BY <2>2
    <3> QED  BY <3>1, <3>2
  <2>4. \A i \in 0..(n - 1) : f[i] = IF i = 0 THEN a ELSE G[i][f[i - 1]]
    BY <2>1 DEF Iteration
  <2>5. \A i \in 0..n : g[i] = IF i = 0 THEN a ELSE G[i][g[i - 1]]
    <3> TAKE i \in 0..n
    <3>1. CASE i = n
      <4>1. g[n] = G[n][f[n - 1]] /\ g[n - 1] = f[n - 1] /\ n # 0  OBVIOUS
      <4> QED  BY <3>1, <4>1
    <3>2. CASE i # n /\ i # 0
      <4>1. i \in 0..(n - 1) /\ i - 1 \in 0..n /\ i - 1 # n  BY <3>2
      <4>2. g[i] = f[i] /\ g[i - 1] = f[i - 1]  BY <3>2, <4>1
      <4> HIDE DEF g
      <4> QED  BY <2>4, <3>2, <4>1, <4>2
    <3>3. CASE i = 0  BY <2>4, <3>3
    <3> QED  BY <3>1, <3>2, <3>3
  <2>6. Iteration(g, n, a, G)
    <3> HIDE DEF g
    <3> QED  BY <2>3, <2>5 DEF Iteration
  <2> HIDE DEF g
  <2> QED  BY <2>3, <2>6
<1> HIDE DEF S
<1>3. \A i \in 0..L : i \in S  BY <1>1, <1>2, UpTo
<1>4. L \in 0..L  OBVIOUS
<1> QED  BY <1>3, <1>4 DEF S

PowerFn(p, n) == p = [i \in 0..n |-> IF i = 0 THEN 1 ELSE Base * p[i - 1]]

LEMMA PowerFns ==
    ASSUME NEW n \in Nat
    PROVE  \E p : PowerFn(p, n) /\ Power(n) = p[n]
<1> DEFINE G == [i \in 1..n |-> [v \in Int |-> Base * v]]
<1>0. Base \in Nat  BY SealingAssumption
<1>1. G \in [1..n -> [Int -> Int]]  BY <1>0
<1>2. PICK f \in [0..n -> Int] : Iteration(f, n, 1, G)
  <2> HIDE DEF G
  <2>1. 1 \in Int  OBVIOUS
  <2> QED  BY <1>1, <2>1, Iterates, Zenon
<1>3. PowerFn(f, n)
  <2>1. \A i \in 0..n : i # 0 => f[i - 1] \in Int  BY <1>2
  <2>2. \A i \in 0..n : i # 0 => G[i][f[i - 1]] = Base * f[i - 1]  BY <2>1
  <2> HIDE DEF G
  <2>3. [i \in 0..n |-> IF i = 0 THEN 1 ELSE G[i][f[i - 1]]]
          = [i \in 0..n |-> IF i = 0 THEN 1 ELSE Base * f[i - 1]]
    BY <2>2
  <2> QED  BY <1>2, <2>3 DEF Iteration, PowerFn
<1> DEFINE it == CHOOSE p : PowerFn(p, n)
<1>4. PowerFn(it, n)  BY <1>3
<1>5. Power(n) = it[n]  BY DEF Power, PowerFn
<1> QED  BY <1>4, <1>5

LEMMA PowerFnsAgree ==
    ASSUME NEW n \in Nat, NEW m \in Nat, n <= m, NEW p, NEW q, PowerFn(p, n), PowerFn(q, m)
    PROVE  \A i \in 0..n : p[i] = q[i] /\ p[i] \in Nat \ {0}
<1> DEFINE S == {i \in 0..n : p[i] = q[i] /\ p[i] \in Nat \ {0}}
<1>0. Base \in Nat \ {0}  BY SealingAssumption
<1>1. \A i \in 0..n : /\ p[i] = IF i = 0 THEN 1 ELSE Base * p[i - 1]
                      /\ q[i] = IF i = 0 THEN 1 ELSE Base * q[i - 1]
  BY DEF PowerFn
<1>2. 0 \in S  BY <1>1
<1>3. ASSUME NEW i \in 1..n, i - 1 \in S PROVE i \in S
  <2>1. p[i - 1] = q[i - 1] /\ p[i - 1] \in Nat \ {0}  BY <1>3
  <2>2. p[i] = Base * p[i - 1] /\ q[i] = Base * q[i - 1]  BY <1>1
  <2>3. \A k \in Nat \ {0} : Base * k \in Nat \ {0}  BY <1>0
  <2> QED  BY <2>1, <2>2, <2>3
<1> HIDE DEF S
<1>4. \A i \in 0..n : i \in S  BY <1>2, <1>3, UpTo
<1> QED  BY <1>4 DEF S

(* Power is Base to the n *)
LEMMA Powers ==
    ASSUME NEW n \in Nat
    PROVE  /\ Power(0) = 1 /\ Power(n) \in Nat \ {0}
           /\ Power(n + 1) = Base * Power(n)
<1>1. PICK p : PowerFn(p, n) /\ Power(n) = p[n]  BY PowerFns
<1>2. PICK q : PowerFn(q, n + 1) /\ Power(n + 1) = q[n + 1]  BY PowerFns
<1>3. PICK z : PowerFn(z, 0) /\ Power(0) = z[0]  BY PowerFns
<1>4. z[0] = 1  BY <1>3 DEF PowerFn
<1>5. p[n] = q[n] /\ p[n] \in Nat \ {0}
  <2>1. n + 1 \in Nat /\ n <= n + 1 /\ n \in 0..n  OBVIOUS
  <2> QED  BY <1>1, <1>2, <2>1, PowerFnsAgree
<1>6. q[n + 1] = Base * q[n]
  <2>1. n + 1 \in 0..(n + 1) /\ n + 1 # 0 /\ n + 1 - 1 = n  OBVIOUS
  <2>2. \A i \in 0..(n + 1) : q[i] = IF i = 0 THEN 1 ELSE Base * q[i - 1]  BY <1>2 DEF PowerFn
  <2>3. q[n + 1] = Base * q[n + 1 - 1]  BY <2>1, <2>2
  <2> QED  BY <2>1, <2>3
<1> QED  BY <1>1, <1>2, <1>3, <1>4, <1>5, <1>6

(* The quotient is the number of times the divisor fits. *)
LEMMA DivUnique ==
    ASSUME NEW a \in Int, NEW p \in Nat \ {0}, NEW k \in Int, p * k <= a, a < p * k + p
    PROVE  a \div p = k
<1> DEFINE d == a \div p
<1>1. d \in Int /\ p * d <= a /\ a < p * d + p  BY DivFacts
<1> HIDE DEF d
<1>2. p * (d + 1) = p * d + p /\ p * (k + 1) = p * k + p /\ p * d \in Int /\ p * k \in Int
  BY <1>1, NextRound
<1>3. ~(d >= k + 1)
  <2> SUFFICES ASSUME d >= k + 1 PROVE FALSE  OBVIOUS
  <2>1. p * d >= p * (k + 1)  BY <1>1, Monotone
  <2> QED  BY <1>1, <1>2, <2>1
<1>4. ~(k >= d + 1)
  <2> SUFFICES ASSUME k >= d + 1 PROVE FALSE  OBVIOUS
  <2>1. d + 1 \in Int  BY <1>1
  <2>2. p * k >= p * (d + 1)  BY <2>1, Monotone
  <2> QED  BY <1>1, <1>2, <2>2
<1>5. d = k  BY <1>1, <1>3, <1>4
<1> QED  BY <1>5 DEF d

LEMMA DivDiv ==
    ASSUME NEW u \in Nat, NEW p \in Nat \ {0}, NEW b \in Nat \ {0}
    PROVE  u \div (b * p) = (u \div p) \div b
<1> DEFINE q == u \div p  s == q \div b
<1>1. q \in Int /\ p * q <= u /\ u < p * q + p  BY DivFacts
<1> HIDE DEF q
<1>2. s \in Int /\ b * s <= q /\ q < b * s + b  BY <1>1, DivFacts
<1> HIDE DEF s
<1>3. b * s \in Int /\ p * (b * s) = (b * p) * s  BY <1>2
<1>4. p * q >= p * (b * s)  BY <1>1, <1>2, <1>3, Monotone
<1>5. p * (b * s + b) >= p * (q + 1)
  <2>1. b * s + b \in Int /\ q + 1 \in Int /\ b * s + b >= q + 1  BY <1>1, <1>2, <1>3
  <2> QED  BY <2>1, Monotone
<1>6. p * (q + 1) = p * q + p  BY <1>1, NextRound
<1>7. p * (b * s + b) = (b * p) * s + b * p  BY <1>2
<1>8. b * p \in Nat \ {0}  OBVIOUS
<1>9. (b * p) * s \in Int /\ p * q \in Int  BY <1>1, <1>2, <1>8
<1> DEFINE bp == b * p
<1>10. bp * s <= u /\ u < bp * s + bp
  BY <1>1, <1>3, <1>4, <1>5, <1>6, <1>7, <1>8, <1>9
<1>11. bp \in Nat \ {0}  BY <1>8
<1> HIDE DEF bp
<1>12. u \div bp = s  BY <1>2, <1>10, <1>11, DivUnique
<1> QED  BY <1>12 DEF bp, s, q

LEMMA DivMod ==
    ASSUME NEW q \in Int, NEW b \in Nat \ {0}
    PROVE  q % b \in 0..(b - 1) /\ q = (q \div b) * b + (q % b)
  OBVIOUS

LEMMA ModUnique ==
    ASSUME NEW a \in Int, NEW p \in Nat \ {0}, NEW k \in Int, p * k <= a, a < p * k + p
    PROVE  a % p = a - p * k
<1>1. a \div p = k  BY DivUnique
<1>2. a = (a \div p) * p + (a % p) /\ a % p \in Int  BY DivMod
<1> QED  BY <1>1, <1>2

----------------------------------------------------------------------------
(* Bytes.  The digits of u, read back from the first, are u divided by ever *)
(* lower powers.                                                            *)

LEMMA BeBytes ==
    ASSUME NEW n \in Nat, NEW u \in Nat
    PROVE  /\ be(n, u) \in Seq(Byte) /\ Len(be(n, u)) = n
           /\ \A i \in 1..n : be(n, u)[i] = (u \div Power(n - i)) % Base
<1>0. Base \in Nat \ {0}  BY SealingAssumption
<1>1. \A i \in 1..n : (u \div Power(n - i)) % Base \in Byte
  <2> TAKE i \in 1..n
  <2>1. n - i \in Nat  OBVIOUS
  <2>2. Power(n - i) \in Nat \ {0}  BY <2>1, Powers
  <2> DEFINE p == Power(n - i)
  <2> HIDE DEF p
  <2>3. u \div p \in Int  BY <2>2, DivFacts DEF p
  <2>4. (u \div p) % Base \in 0..(Base - 1)  BY <1>0, <2>3, DivMod
  <2> QED  BY <2>4 DEF p, Byte
<1> QED  BY <1>1 DEF be

DigitsFn(d, bytes) ==
    d = [i \in 0..Len(bytes) |-> IF i = 0 THEN 0 ELSE d[i - 1] * Base + bytes[i]]

LEMMA DigitsFns ==
    ASSUME NEW bytes \in Seq(Byte)
    PROVE  \E d : DigitsFn(d, bytes) /\ Digits(bytes) = d[Len(bytes)]
<1> DEFINE n == Len(bytes)
           G == [i \in 1..n |-> [v \in Int |-> v * Base + bytes[i]]]
<1>0. Base \in Nat /\ n \in Nat /\ \A i \in 1..n : bytes[i] \in Int
  BY SealingAssumption, ElementOfSeq DEF Byte
<1> HIDE DEF n
<1>1. G \in [1..n -> [Int -> Int]]  BY <1>0
<1>2. PICK f \in [0..n -> Int] : Iteration(f, n, 0, G)
  <2> HIDE DEF G
  <2>1. 0 \in Int  OBVIOUS
  <2> QED  BY <1>0, <1>1, <2>1, Iterates, Zenon
<1>3. DigitsFn(f, bytes)
  <2>1. \A i \in 0..n : i # 0 => f[i - 1] \in Int  BY <1>0, <1>2
  <2>2. \A i \in 0..n : i # 0 => G[i][f[i - 1]] = f[i - 1] * Base + bytes[i]  BY <1>0, <2>1
  <2> HIDE DEF G
  <2>3. [i \in 0..n |-> IF i = 0 THEN 0 ELSE G[i][f[i - 1]]]
          = [i \in 0..n |-> IF i = 0 THEN 0 ELSE f[i - 1] * Base + bytes[i]]
    BY <2>2
  <2> QED  BY <1>2, <2>3 DEF Iteration, DigitsFn, n
<1> DEFINE it == CHOOSE d : DigitsFn(d, bytes)
<1>4. DigitsFn(it, bytes)  BY <1>3
<1>5. Digits(bytes) = it[n]  BY DEF Digits, DigitsFn, n
<1> QED  BY <1>4, <1>5 DEF n

(* What was written big-endian reads back, for any base and width. *)
LEMMA DigitsOfBe ==
    ASSUME NEW n \in Nat, NEW u \in 0..(Power(n) - 1)
    PROVE  Digits(be(n, u)) = u
<1>0. Base \in Nat \ {0} /\ Power(n) \in Nat \ {0} /\ u \in Nat
  BY SealingAssumption, Powers
<1>1. /\ be(n, u) \in Seq(Byte) /\ Len(be(n, u)) = n
      /\ \A i \in 1..n : be(n, u)[i] = (u \div Power(n - i)) % Base
  BY <1>0, BeBytes
<1> DEFINE bytes == be(n, u)
<1> HIDE DEF bytes
<1>2. PICK d : DigitsFn(d, bytes) /\ Digits(bytes) = d[n]  BY <1>1, DigitsFns DEF bytes
<1>3. \A i \in 0..n : d[i] = IF i = 0 THEN 0 ELSE d[i - 1] * Base + bytes[i]
  BY <1>1, <1>2 DEF DigitsFn, bytes
<1> DEFINE S == {i \in 0..n : d[i] = u \div Power(n - i)}
<1>4. 0 \in S
  <2>1. u \div Power(n) = 0
    <3>1. Power(n) * 0 <= u /\ u < Power(n) * 0 + Power(n)  BY <1>0
    <3> QED  BY <1>0, <3>1, DivUnique
  <2>2. n - 0 = n /\ d[0] = 0  BY <1>3
  <2> QED  BY <2>1, <2>2
<1>5. ASSUME NEW i \in 1..n, i - 1 \in S PROVE i \in S
  <2> DEFINE p == Power(n - i)  q == u \div p
  <2>1. n - i \in Nat /\ n - (i - 1) = (n - i) + 1  OBVIOUS
  <2>2. p \in Nat \ {0} /\ Power(n - (i - 1)) = Base * p  BY <2>1, Powers
  <2>3. d[i - 1] = u \div Power(n - (i - 1))  BY <1>5
  <2>4. bytes[i] = q % Base  BY <1>1 DEF bytes
  <2> HIDE DEF p
  <2>5. d[i - 1] = q \div Base
    <3>1. u \div (Base * p) = (u \div p) \div Base  BY <1>0, <2>2, DivDiv
    <3> QED  BY <2>2, <2>3, <3>1
  <2>6. q \in Int  BY <1>0, <2>2, DivFacts
  <2> HIDE DEF q
  <2>7. d[i] = (q \div Base) * Base + (q % Base)  BY <1>3, <2>4, <2>5
  <2>8. d[i] = q  BY <1>0, <2>6, <2>7, DivMod
  <2> QED  BY <2>8 DEF q, p
<1> HIDE DEF S
<1>6. \A i \in 0..n : i \in S  BY <1>4, <1>5, UpTo
<1>7. n \in 0..n /\ n - n = 0  OBVIOUS
<1>8. d[n] = u \div Power(0)  BY <1>6, <1>7 DEF S
<1>9. u \div 1 = u  BY <1>0
<1>10. Power(0) = 1  BY <1>0, Powers
<1> QED  BY <1>2, <1>8, <1>9, <1>10 DEF bytes

(* The first digit tells the upper half from the lower. *)
LEMMA TopDigit ==
    ASSUME NEW n \in Nat \ {0}, NEW u \in 0..(Power(n) - 1)
    PROVE  be(n, u)[1] >= Base \div 2 <=> u >= Power(n) \div 2
<1> DEFINE p == Power(n - 1)  h == Base \div 2  q == u \div p
<1>0. Base \in Nat \ {0} /\ h \in Nat /\ Base = 2 * h  BY SealingAssumption
<1>1. n - 1 \in Nat /\ n - 1 + 1 = n  OBVIOUS
<1>2. p \in Nat \ {0} /\ Power(n) = Base * p  BY <1>1, Powers
<1> HIDE DEF p, h
<1>3. u \in Nat /\ u < Base * p  BY <1>0, <1>2
<1>4. be(n, u)[1] = q % Base  BY <1>3, BeBytes DEF p
<1>5. q \in Int /\ p * q <= u /\ u < p * q + p  BY <1>2, <1>3, DivFacts
<1> HIDE DEF q
<1>6. p * (q + 1) = p * q + p /\ p * q \in Int  BY <1>2, <1>5, NextRound
<1>7. q >= 0
  <2> SUFFICES ASSUME 0 >= q + 1 PROVE FALSE  BY <1>5
  <2>1. p * 0 >= p * (q + 1)  BY <1>2, <1>5, Monotone
  <2> DEFINE m == p * q
  <2>2. p * 0 = 0  BY <1>2
  <2>3. m \in Int /\ 0 >= m + p /\ u < m + p  BY <1>5, <1>6, <2>1, <2>2
  <2> HIDE DEF m
  <2> QED  BY <1>2, <1>3, <2>3
<1>8. q < Base
  <2> SUFFICES ASSUME q >= Base PROVE FALSE  BY <1>0, <1>5
  <2>1. p * q >= p * Base  BY <1>0, <1>2, <1>5, Monotone
  <2> DEFINE m == p * q  k == p * Base
  <2>2. k = Base * p /\ k \in Int /\ m \in Int /\ m >= k /\ m <= u  BY <1>0, <1>2, <1>5, <1>6, <2>1
  <2>3. u < k  BY <1>3, <2>2
  <2> HIDE DEF m, k
  <2> QED  BY <1>3, <2>2, <2>3
<1>9. q % Base = q  BY <1>0, <1>5, <1>7, <1>8
<1>10. Power(n) \div 2 = h * p
  <2>1. Base * p = 2 * (h * p) /\ h * p \in Int  BY <1>0, <1>2
  <2> DEFINE k == h * p
  <2> HIDE DEF k
  <2>2. k \in Int /\ Power(n) = 2 * k  BY <1>2, <2>1 DEF k
  <2>3. Power(n) \div 2 = k  BY <2>2
  <2> QED  BY <2>3 DEF k
<1>11. h * p = p * h /\ p * h \in Int  BY <1>0, <1>2
<1>12. ASSUME q >= h PROVE u >= p * h
  <2>1. p * q >= p * h  BY <1>0, <1>2, <1>5, <1>12, Monotone
  <2> QED  BY <1>3, <1>5, <1>6, <1>11, <2>1
<1>13. ASSUME ~(q >= h) PROVE ~(u >= p * h)
  <2>1. h >= q + 1 /\ q + 1 \in Int  BY <1>0, <1>5, <1>13
  <2>2. p * h >= p * (q + 1)  BY <1>0, <1>2, <2>1, Monotone
  <2> DEFINE m == p * q  k == p * h
  <2>3. m \in Int /\ k \in Int /\ k >= m + p /\ u < m + p  BY <1>5, <1>6, <1>11, <2>2
  <2> HIDE DEF m, k
  <2>4. ~(u >= k)  BY <1>2, <1>3, <2>3
  <2> QED  BY <2>4 DEF k
<1>14. be(n, u)[1] = q  BY <1>4, <1>9
<1> QED  BY <1>10, <1>11, <1>12, <1>13, <1>14 DEF h

(* commitment.ts: the bytes of a value that fits are those of its two's     *)
(* complement, and they read back as the value.                             *)
LEMMA Complement ==
    ASSUME NEW v \in Min128..Max128
    PROVE  /\ v % Two128 \in 0..(Two128 - 1)
           /\ (v % Two128) - v \in {0, Two128}
           /\ v < 0 <=> v % Two128 >= Two128 \div 2
           /\ v = IF v % Two128 >= Two128 \div 2 THEN (v % Two128) - Two128 ELSE v % Two128
<1> DEFINE t == Two128  h == t \div 2
<1>0. t \in Nat \ {0} /\ h \in Nat /\ 2 * h <= t /\ t < 2 * h + 2
  <2>1. t \in Nat \ {0}  BY SealingAssumption, Powers DEF Two128
  <2> HIDE DEF t
  <2> QED  BY <2>1
<1>1. v \in Int /\ v >= 0 - h /\ v <= h - 1  BY <1>0 DEF Min128, Max128
<1> HIDE DEF t, h
<1>2. CASE v >= 0
  <2>1. t * 0 <= v /\ v < t * 0 + t  BY <1>0, <1>1, <1>2
  <2>2. v % t = v - t * 0  BY <1>0, <1>1, <2>1, ModUnique
  <2>3. v % t = v  BY <1>0, <1>1, <2>2
  <2>4. v % t \in 0..(t - 1) /\ (v % t) - v = 0 /\ ~(v % t >= h)  BY <1>0, <1>1, <1>2, <2>3
  <2> QED  BY <1>2, <2>3, <2>4 DEF h, t
<1>3. CASE v < 0
  <2>1. t * (0 - 1) <= v /\ v < t * (0 - 1) + t  BY <1>0, <1>1, <1>3
  <2>2. 0 - 1 \in Int  OBVIOUS
  <2>3. v % t = v - t * (0 - 1)  BY <1>0, <1>1, <2>1, <2>2, ModUnique
  <2>4. v % t = v + t  BY <1>0, <1>1, <2>3
  <2>5. v % t \in 0..(t - 1) /\ (v % t) - v = t /\ v % t >= h /\ (v % t) - t = v
    BY <1>0, <1>1, <1>3, <2>4
  <2> QED  BY <1>3, <2>5 DEF h, t
<1> QED  BY <1>1, <1>2, <1>3

LEMMA ValueBytesExact ==
    ASSUME NEW v \in Min128..Max128
    PROVE  /\ i128ToBeBytes(v) \in Seq(Byte) /\ Len(i128ToBeBytes(v)) = ValueBytes
           /\ Digits(i128ToBeBytes(v)) - v \in {0, Two128}
           /\ v < 0 <=> i128ToBeBytes(v)[1] >= Base \div 2
           /\ beBytesToI128(i128ToBeBytes(v)) = v
<1> DEFINE u == v % Two128  bytes == be(ValueBytes, u)
<1>0. ValueBytes \in Nat \ {0}  BY SealingAssumption
<1>1. Two128 \in Nat \ {0}  BY <1>0, Powers DEF Two128
<1>2. v \in Int /\ ~(v < Min128) /\ ~(v > Max128)
  BY <1>1 DEF Min128, Max128
<1>3. i128ToBeBytes(v) = bytes  BY <1>2 DEF i128ToBeBytes
<1>4. /\ u \in 0..(Two128 - 1) /\ u - v \in {0, Two128}
      /\ v < 0 <=> u >= Two128 \div 2
      /\ v = IF u >= Two128 \div 2 THEN u - Two128 ELSE u
  BY Complement
<1> HIDE DEF u
<1>5. bytes \in Seq(Byte) /\ Len(bytes) = ValueBytes  BY <1>0, <1>1, <1>4, BeBytes
<1>6. Digits(bytes) = u  BY <1>0, <1>4, DigitsOfBe DEF Two128
<1>7. bytes[1] >= Base \div 2 <=> u >= Two128 \div 2  BY <1>0, <1>4, TopDigit DEF Two128
<1> HIDE DEF bytes
<1>8. beBytesToI128(bytes) = v  BY <1>4, <1>5, <1>6 DEF beBytesToI128
<1> QED  BY <1>3, <1>4, <1>5, <1>6, <1>7, <1>8

----------------------------------------------------------------------------
(* Seals *)

LEMMA PreimageOpens ==
    ASSUME NEW v \in Min128..Max128, NEW nonce \in Seq(Byte), Len(nonce) = NonceBytes
    PROVE  /\ encodeBidPreimage(v, nonce) \in Seq(Byte)
           /\ encodeBidPreimage(v, nonce) # Throws
           /\ decodeBidPreimage(encodeBidPreimage(v, nonce)) = [value |-> v, nonce |-> nonce]
           /\ commitment(v, nonce) = [sha256 |-> encodeBidPreimage(v, nonce)]
<1> DEFINE bytes == i128ToBeBytes(v)  p == bytes \o nonce
<1>0. ValueBytes \in Nat \ {0} /\ NonceBytes \in Nat \ {0} /\ Throws \notin Seq(Byte)
  BY SealingAssumption, ThrowsAssumption
<1>1. bytes \in Seq(Byte) /\ Len(bytes) = ValueBytes /\ beBytesToI128(bytes) = v
  BY ValueBytesExact
<1> HIDE DEF bytes
<1>2. encodeBidPreimage(v, nonce) = p  BY <1>0, <1>1 DEF encodeBidPreimage, bytes
<1>3. p \in Seq(Byte) /\ Len(p) = ValueBytes + NonceBytes  BY <1>1, ConcatProperties
<1>4. SubSeq(p, 1, ValueBytes) = bytes
  <2>1. SubSeq(p, 1, ValueBytes) = SubSeq(bytes, 1, ValueBytes)
    <3>1. 1 \in 1..Len(bytes) /\ ValueBytes \in 1..Len(bytes)  BY <1>0, <1>1
    <3> QED  BY <1>1, <3>1, SubSeqOfConcat1
  <2> QED  BY <1>1, <2>1, SubSeqFull
<1>5. SubSeq(p, ValueBytes + 1, Len(p)) = nonce
  <2> DEFINE i == ValueBytes + 1  j == Len(p)
  <2>1. /\ i \in Len(bytes) + 1 .. Len(bytes) + Len(nonce)
        /\ j \in Len(bytes) + 1 .. Len(bytes) + Len(nonce)
        /\ i - Len(bytes) = 1 /\ j - Len(bytes) = Len(nonce)
    BY <1>0, <1>1, <1>3
  <2> HIDE DEF i, j
  <2>2. SubSeq(p, i, j) = SubSeq(nonce, i - Len(bytes), j - Len(bytes))
    BY <1>1, <2>1, SubSeqOfConcat2
  <2>3. SubSeq(p, i, j) = nonce  BY <2>1, <2>2, SubSeqFull
  <2> QED  BY <2>3 DEF i, j
<1> HIDE DEF p
<1>6. decodeBidPreimage(p) = [value |-> v, nonce |-> nonce]
  BY <1>1, <1>3, <1>4, <1>5 DEF decodeBidPreimage
<1>7. p # Throws  BY <1>0, <1>3
<1> QED  BY <1>2, <1>3, <1>6, <1>7 DEF commitment

(* what cannot be made is not half made *)
LEMMA PreimageRefused ==
    ASSUME NEW v, NEW nonce \in Seq(Byte), v \in Int, v \notin Min128..Max128 \/ Len(nonce) # NonceBytes
    PROVE  encodeBidPreimage(v, nonce) = Throws
<1>1. Min128 \in Int /\ Max128 \in Int
  <2>1. Two128 \in Nat \ {0}  BY SealingAssumption, Powers DEF Two128
  <2> QED  BY <2>1 DEF Min128, Max128
<1> QED  BY <1>1 DEF encodeBidPreimage, i128ToBeBytes

(* seal.ts, for any bid p and round of it: the seal of a bid that can be    *)
(* sealed, and what openBid makes of it when the network is at `latest'.    *)
LEMMA SealOpens ==
    ASSUME NEW p, p.value \in Min128..Max128, p.nonce \in Seq(Byte), Len(p.nonce) = NonceBytes,
           (p.identity = None) <=> (p.auditor = None), p.round \in Nat, NEW latest \in Nat, NEW eph
    PROVE  LET s == sealBid(p, eph) o == openBid(s.ciphertext, latest) IN
           /\ s \in [commitment : {[sha256 |-> encodeBidPreimage(p.value, p.nonce)]},
                     ciphertext : {[round |-> p.round, payload |-> encodeBidPreimage(p.value, p.nonce)]},
                     auditorBlob : {IF p.identity = None THEN << >>
                                    ELSE sealIdentity(p.identity, p.auditor, eph)}]
           /\ s.commitment = [sha256 |-> encodeBidPreimage(p.value, p.nonce)]
           /\ o = IF latest < p.round THEN Throws ELSE [value |-> p.value, nonce |-> p.nonce]
           /\ o # Throws <=> latest >= p.round
<1> DEFINE pre == encodeBidPreimage(p.value, p.nonce)  s == sealBid(p, eph)
           blob == IF p.identity = None THEN << >> ELSE sealIdentity(p.identity, p.auditor, eph)
<1>1. /\ pre \in Seq(Byte) /\ pre # Throws
      /\ decodeBidPreimage(pre) = [value |-> p.value, nonce |-> p.nonce]
      /\ commitment(p.value, p.nonce) = [sha256 |-> pre]
  BY PreimageOpens
<1>2. s = [commitment |-> commitment(p.value, p.nonce),
           ciphertext |-> [round |-> p.round, payload |-> pre], auditorBlob |-> blob]
  BY <1>1 DEF sealBid
<1> HIDE DEF pre, blob
<1>3. Throws \notin [value : Int, nonce : Seq(Byte)]  BY ThrowsAssumption
<1>4. p.value \in Int
  <2>1. Min128 \in Int /\ Max128 \in Int
    <3>1. Two128 \in Nat \ {0}  BY SealingAssumption, Powers DEF Two128
    <3> QED  BY <3>1 DEF Min128, Max128
  <2> QED  BY <2>1
<1>5. [value |-> p.value, nonce |-> p.nonce] # Throws
  BY <1>3, <1>4
<1>6. s \in [commitment : {[sha256 |-> pre]}, ciphertext : {[round |-> p.round, payload |-> pre]},
           auditorBlob : {blob}]
  BY <1>1, <1>2
<1> HIDE DEF s
<1>7. openBid(s.ciphertext, latest)
        = IF latest < p.round THEN Throws ELSE [value |-> p.value, nonce |-> p.nonce]
  BY <1>1, <1>2 DEF openBid
<1>8. s.commitment = [sha256 |-> pre]  BY <1>1, <1>2
<1> QED  BY <1>5, <1>6, <1>7, <1>8 DEF s, pre, blob

(* auditor.ts: the holder of the key an identity was sealed to reads it,    *)
(* and nobody else.                                                         *)
LEMMA IdentityOpens ==
    ASSUME NEW blob \in Blobs, NEW secret \in {"a", "b"}
    PROVE  /\ blob # << >> => openIdentity(blob, secret) \in {"bidder", Throws}
           /\ blob # << >> /\ openIdentity(blob, secret) = "bidder"
                <=> blob = sealIdentity("bidder", secret, "e")
<1>0. Throws # "bidder"  BY LibraryAssumption
<1>1. CASE blob = << >>
  BY <1>1 DEF sealIdentity
<1>2. CASE blob = <<"e">>
  BY <1>0, <1>2 DEF openIdentity, sealIdentity
<1>3. ASSUME NEW auditor \in {"a", "b"}, blob = sealIdentity("bidder", auditor, "e")
      PROVE  /\ openIdentity(blob, secret) = IF auditor = secret THEN "bidder" ELSE Throws
             /\ blob # << >>
             /\ blob = sealIdentity("bidder", secret, "e") <=> auditor = secret
  <2> DEFINE key(a) == deriveKey(Shared("e", a), "e", a)
  <2>1. Shared(secret, "e") = Shared("e", secret)  BY DEF Shared
  <2>2. key(auditor) = key(secret) <=> auditor = secret  BY DEF deriveKey
  <2>3. blob = <<"e", "nonce", [key |-> key(auditor), text |-> "bidder"]>>
    BY <1>3 DEF sealIdentity
  <2>4. sealIdentity("bidder", secret, "e") = <<"e", "nonce", [key |-> key(secret), text |-> "bidder"]>>
    BY DEF sealIdentity
  <2> HIDE DEF key
  <2>5. /\ Len(blob) = 3 /\ blob[1] = "e" /\ blob[3].key = key(auditor) /\ blob[3].text = "bidder"
        /\ blob # << >>
    BY <2>3
  <2>6. deriveKey(Shared(secret, "e"), "e", secret) = key(secret)  BY <2>1 DEF key
  <2>7. openIdentity(blob, secret) = IF auditor = secret THEN "bidder" ELSE Throws
    BY <2>2, <2>5, <2>6 DEF openIdentity
  <2>8. blob = sealIdentity("bidder", secret, "e") <=> auditor = secret
    BY <2>2, <2>3, <2>4
  <2> QED  BY <2>5, <2>7, <2>8
<1>4. CASE blob \in {sealIdentity("bidder", "a", "e"), sealIdentity("bidder", "b", "e")}
  BY <1>0, <1>3, <1>4
<1> QED  BY <1>1, <1>2, <1>4 DEF Blobs

(* bls.ts, encode.ts: a coordinate is read back from its place. *)
FieldAt(bytes, i) == Digits(SubSeq(bytes, (i - 1) * FieldBytes + 1, i * FieldBytes))

LEMMA Coordinate ==
    ASSUME NEW c \in Coordinates
    PROVE  /\ be(FieldBytes, c) \in Seq(Byte) /\ Len(be(FieldBytes, c)) = FieldBytes
           /\ Digits(be(FieldBytes, c)) = c
<1>1. FieldBytes \in Nat \ {0}  BY SealingAssumption
<1>2. Power(FieldBytes) \in Nat \ {0}  BY <1>1, Powers
<1>3. c \in 0..(Power(FieldBytes) - 1)  BY LibraryAssumption
<1>4. c \in Nat  BY <1>2, <1>3
<1> QED  BY <1>1, <1>3, <1>4, BeBytes, DigitsOfBe

LEMMA LastPart ==
    ASSUME NEW s \in Seq(Byte), NEW t \in Seq(Byte), Len(t) # 0
    PROVE  SubSeq(s \o t, Len(s) + 1, Len(s) + Len(t)) = t
<1> DEFINE i == Len(s) + 1  j == Len(s) + Len(t)
<1>1. /\ i \in Len(s) + 1 .. Len(s) + Len(t) /\ j \in Len(s) + 1 .. Len(s) + Len(t)
      /\ i - Len(s) = 1 /\ j - Len(s) = Len(t)
  BY LenProperties
<1> HIDE DEF i, j
<1>2. SubSeq(s \o t, i, j) = SubSeq(t, i - Len(s), j - Len(s))  BY <1>1, SubSeqOfConcat2
<1>3. SubSeq(s \o t, i, j) = t  BY <1>1, <1>2, SubSeqFull
<1> QED  BY <1>3 DEF i, j

LEMMA TwoParts ==
    ASSUME NEW a \in Coordinates, NEW b \in Coordinates
    PROVE  LET ab == be(FieldBytes, a) \o be(FieldBytes, b) IN
           /\ ab \in Seq(Byte) /\ Len(ab) = 2 * FieldBytes
           /\ FieldAt(ab, 1) = a /\ FieldAt(ab, 2) = b
<1> DEFINE A == be(FieldBytes, a)  B == be(FieldBytes, b)  F == FieldBytes  ab == A \o B
<1>0. F \in Nat \ {0}  BY SealingAssumption
<1>1. /\ A \in Seq(Byte) /\ Len(A) = F /\ Digits(A) = a
      /\ B \in Seq(Byte) /\ Len(B) = F /\ Digits(B) = b
  BY Coordinate
<1> HIDE DEF A, B
<1>2. ab \in Seq(Byte) /\ Len(ab) = 2 * F  BY <1>0, <1>1, ConcatProperties
<1>3. SubSeq(ab, 1, F) = A
  <2>1. 1 \in 1..Len(A) /\ F \in 1..Len(A)  BY <1>0, <1>1
  <2>2. SubSeq(ab, 1, F) = SubSeq(A, 1, F)  BY <1>1, <2>1, SubSeqOfConcat1
  <2> QED  BY <1>1, <2>2, SubSeqFull
<1>4. SubSeq(ab, F + 1, F + F) = B
  <2>1. SubSeq(ab, Len(A) + 1, Len(A) + Len(B)) = B  BY <1>0, <1>1, LastPart
  <2> QED  BY <1>1, <2>1
<1> HIDE DEF ab
<1>5. /\ (1 - 1) * FieldBytes + 1 = 1 /\ 1 * FieldBytes = F
      /\ (2 - 1) * FieldBytes + 1 = F + 1 /\ 2 * FieldBytes = F + F
  BY <1>0
<1>6. FieldAt(ab, 1) = a /\ FieldAt(ab, 2) = b  BY <1>1, <1>3, <1>4, <1>5 DEF FieldAt
<1> QED  BY <1>2, <1>6 DEF ab, A, B

LEMMA FourParts ==
    ASSUME NEW a \in Coordinates, NEW b \in Coordinates, NEW c \in Coordinates, NEW d \in Coordinates
    PROVE  LET all == be(FieldBytes, a) \o be(FieldBytes, b) \o be(FieldBytes, c) \o be(FieldBytes, d)
           IN /\ FieldAt(all, 1) = a /\ FieldAt(all, 2) = b
              /\ FieldAt(all, 3) = c /\ FieldAt(all, 4) = d
<1> DEFINE F == FieldBytes  ab == be(F, a) \o be(F, b)  C == be(F, c)  D == be(F, d)
           abc == ab \o C  all == abc \o D
<1>0. F \in Nat \ {0}  BY SealingAssumption
<1>1. /\ ab \in Seq(Byte) /\ Len(ab) = 2 * F /\ FieldAt(ab, 1) = a /\ FieldAt(ab, 2) = b
  BY TwoParts
<1>2. /\ C \in Seq(Byte) /\ Len(C) = F /\ Digits(C) = c
      /\ D \in Seq(Byte) /\ Len(D) = F /\ Digits(D) = d
  BY Coordinate
<1> HIDE DEF ab, C, D
<1>3. abc \in Seq(Byte) /\ Len(abc) = 3 * F
  <2>1. abc \in Seq(Byte) /\ Len(abc) = Len(ab) + Len(C)
    <3> HIDE DEF F
    <3> QED  BY <1>1, <1>2, ConcatProperties
  <2>2. Len(ab) + Len(C) = 3 * F
    <3>1. Len(ab) = 2 * F /\ Len(C) = F  BY <1>1, <1>2
    <3> QED  BY <1>0, <3>1
  <2> QED  BY <2>1, <2>2
<1>4. SubSeq(abc, 2 * F + 1, 2 * F + F) = C
  <2>1. SubSeq(abc, Len(ab) + 1, Len(ab) + Len(C)) = C  BY <1>0, <1>1, <1>2, LastPart
  <2> QED  BY <1>1, <1>2, <2>1
<1>5. \A i, j \in 1..(2 * F) : SubSeq(abc, i, j) = SubSeq(ab, i, j)
  BY <1>1, <1>2, SubSeqOfConcat1
<1> HIDE DEF abc
<1>6. SubSeq(all, 3 * F + 1, 3 * F + F) = D
  <2>1. SubSeq(all, Len(abc) + 1, Len(abc) + Len(D)) = D  BY <1>0, <1>2, <1>3, LastPart
  <2> QED  BY <1>2, <1>3, <2>1
<1>7. \A i, j \in 1..(3 * F) : SubSeq(all, i, j) = SubSeq(abc, i, j)
  BY <1>2, <1>3, SubSeqOfConcat1
<1> HIDE DEF all
<1>8. ASSUME NEW i \in 1..(2 * F), NEW j \in 1..(2 * F)
      PROVE  SubSeq(all, i, j) = SubSeq(ab, i, j)
  <2>1. i \in 1..(3 * F) /\ j \in 1..(3 * F)  BY <1>0
  <2>2. SubSeq(all, i, j) = SubSeq(abc, i, j)  BY <1>7, <2>1
  <2>3. SubSeq(abc, i, j) = SubSeq(ab, i, j)  BY <1>5
  <2> QED  BY <2>2, <2>3
<1>9. /\ (1 - 1) * FieldBytes + 1 \in 1..(2 * F) /\ 1 * FieldBytes \in 1..(2 * F)
      /\ (2 - 1) * FieldBytes + 1 \in 1..(2 * F) /\ 2 * FieldBytes \in 1..(2 * F)
      /\ (3 - 1) * FieldBytes + 1 = 2 * F + 1 /\ 3 * FieldBytes = 2 * F + F
      /\ (4 - 1) * FieldBytes + 1 = 3 * F + 1 /\ 4 * FieldBytes = 3 * F + F
      /\ 2 * F + 1 \in 1..(3 * F) /\ 2 * F + F \in 1..(3 * F)
  BY <1>0
<1>10. FieldAt(all, 1) = a  BY <1>1, <1>8, <1>9 DEF FieldAt
<1>11. FieldAt(all, 2) = b  BY <1>1, <1>8, <1>9 DEF FieldAt
<1>12. FieldAt(all, 3) = c
  <2>1. SubSeq(all, 2 * F + 1, 2 * F + F) = C  BY <1>4, <1>7, <1>9
  <2> QED  BY <1>2, <1>9, <2>1 DEF FieldAt
<1>13. FieldAt(all, 4) = d  BY <1>2, <1>6, <1>9 DEF FieldAt
<1> QED  BY <1>10, <1>11, <1>12, <1>13 DEF all, abc, ab, C, D

(* parity.ts: a construction that verifies is found, and none that does not *)
LEMMA VariantFound ==
    ASSUME NEW verify \in [{"sha256(be8)", "be8"} -> {TRUE, FALSE, Throws}]
    PROVE  LET v == detectMessageVariant(verify) IN
           /\ v # None => verify[v] = TRUE
           /\ (harness(verify) = 1) <=> (\A u \in DOMAIN verify : verify[u] # TRUE)
<1> DEFINE v == detectMessageVariant(verify)
           I == {i \in 1..Len(Variants) : verify[Variants[i]] = TRUE}
           i == IF I # {} THEN Min(I) ELSE 0
<1>0. None \notin {"sha256(be8)", "be8"}  BY LibraryAssumption
<1>1. detectMessageVariant(verify) = IF i = 0 THEN None ELSE Variants[i]
  BY DEF detectMessageVariant, SelectInSeq
<1>2. Len(Variants) = 2 /\ Variants[1] = "sha256(be8)" /\ Variants[2] = "be8"  BY DEF Variants
<1>3. \A k : k \in I <=> k \in {1, 2} /\ verify[Variants[k]] = TRUE  BY <1>2
<1>4. I # {} => i \in I /\ i \in {1, 2}
  <2> SUFFICES ASSUME I # {} PROVE Min(I) \in I  BY <1>3
  <2>1. \E m \in I : \A k \in I : m <= k
    <3> HIDE DEF I
    <3> QED  BY <1>3
  <2> HIDE DEF I
  <2> QED  BY <2>1 DEF Min
<1>5. CASE I = {}
  <2>1. v = None  BY <1>1, <1>5
  <2>2. \A u \in DOMAIN verify : verify[u] # TRUE  BY <1>2, <1>3, <1>5
  <2>3. harness(verify) = 1  BY <2>1 DEF harness
  <2> QED  BY <2>1, <2>2, <2>3
<1>6. CASE I # {}
  <2>1. v = Variants[i] /\ Variants[i] \in {"sha256(be8)", "be8"}
    BY <1>1, <1>2, <1>4, <1>6
  <2>2. verify[Variants[i]] = TRUE  BY <1>3, <1>4, <1>6
  <2> HIDE DEF i, I
  <2>3. v # None  BY <1>0, <2>1
  <2>4. verify[v] = TRUE  BY <2>1, <2>2
  <2>5. ~(\A u \in DOMAIN verify : verify[u] # TRUE)  BY <2>1, <2>4
  <2>6. harness(verify) # 1  BY <2>3 DEF harness
  <2> QED  BY <2>4, <2>5, <2>6
<1> QED  BY <1>5, <1>6

LEMMA SealInputs ==
    ASSUME AnyInput
    PROVE  /\ Given("bid") => x \in Bid
           /\ Given("open") => x \in Opening
           /\ Given("point") => x \in Point
           /\ Given("variant") => x \in Variant
  BY DEF AnyInput, Given, Bid, Opening, Point, Variant, Click, AppraisalRequest, Lab, Reveals, Demo

LEMMA EncodingsExactNow == AnyInput => EncodingsExact
<1> SUFFICES ASSUME AnyInput PROVE EncodingsExact  OBVIOUS
<1>1. ASSUME Given("bid")
      PROVE  LET bytes == i128ToBeBytes(x.value) IN
             IF x.value \in Min128..Max128
             THEN /\ Len(bytes) = ValueBytes /\ \A i \in DOMAIN bytes : bytes[i] \in Byte
                  /\ Digits(bytes) - x.value \in {0, Two128}
                  /\ x.value < 0 <=> bytes[1] >= Base \div 2
             ELSE bytes = Throws
  <2>1. x.value \in (Min128 - 1)..(Max128 + 1)  BY <1>1, SealInputs DEF Bid
  <2>2. Min128 \in Int /\ Max128 \in Int
    <3>1. Two128 \in Nat \ {0}  BY SealingAssumption, Powers DEF Two128
    <3> QED  BY <3>1 DEF Min128, Max128
  <2>3. CASE x.value \in Min128..Max128
    <3> DEFINE bytes == i128ToBeBytes(x.value)
    <3>1. /\ bytes \in Seq(Byte) /\ Len(bytes) = ValueBytes
          /\ Digits(bytes) - x.value \in {0, Two128}
          /\ x.value < 0 <=> bytes[1] >= Base \div 2
      BY <2>3, ValueBytesExact
    <3> HIDE DEF bytes
    <3>2. \A i \in DOMAIN bytes : bytes[i] \in Byte  BY <3>1, LenProperties, ElementOfSeq
    <3> QED  BY <2>3, <3>1, <3>2 DEF bytes
  <2>4. CASE x.value \notin Min128..Max128
    <3>1. i128ToBeBytes(x.value) = Throws  BY <2>1, <2>2, <2>4 DEF i128ToBeBytes
    <3> QED  BY <2>4, <3>1
  <2> QED  BY <2>3, <2>4
<1>2. ASSUME Given("point")
      PROVE  LET part(bytes, i) == Digits(SubSeq(bytes, (i - 1) * FieldBytes + 1, i * FieldBytes))
                 g2 == encodeG2(x, "c1c0")
                 g1 == encodeG1([x |-> x.x[1], y |-> x.y[1]])
             IN /\ <<part(g1, 1), part(g1, 2)>> = <<x.x[1], x.y[1]>>
                /\ <<part(g2, 2), part(g2, 1)>> = x.x /\ <<part(g2, 4), part(g2, 3)>> = x.y
                /\ (g2 = encodeG2(x, "c0c1")) <=> (x.x[1] = x.x[2] /\ x.y[1] = x.y[2])
  <2> DEFINE g2 == encodeG2(x, "c1c0")  h2 == encodeG2(x, "c0c1")
             g1 == encodeG1([x |-> x.x[1], y |-> x.y[1]])
  <2>1. x.x \in Coordinates \X Coordinates /\ x.y \in Coordinates \X Coordinates
    BY <1>2, SealInputs DEF Point
  <2>2. /\ x.x[1] \in Coordinates /\ x.x[2] \in Coordinates
        /\ x.y[1] \in Coordinates /\ x.y[2] \in Coordinates
        /\ x.x = <<x.x[1], x.x[2]>> /\ x.y = <<x.y[1], x.y[2]>>
    BY <2>1
  <2>3. FieldAt(g1, 1) = x.x[1] /\ FieldAt(g1, 2) = x.y[1]
    BY <2>2, TwoParts DEF encodeG1
  <2>4. /\ FieldAt(g2, 1) = x.x[2] /\ FieldAt(g2, 2) = x.x[1]
        /\ FieldAt(g2, 3) = x.y[2] /\ FieldAt(g2, 4) = x.y[1]
    <3>1. g2 = be(FieldBytes, x.x[2]) \o be(FieldBytes, x.x[1])
               \o be(FieldBytes, x.y[2]) \o be(FieldBytes, x.y[1])
      BY DEF encodeG2
    <3> HIDE DEF g2
    <3> QED  BY <2>2, <3>1, FourParts
  <2>5. FieldAt(h2, 1) = x.x[1] /\ FieldAt(h2, 3) = x.y[1]
    <3>1. h2 = be(FieldBytes, x.x[1]) \o be(FieldBytes, x.x[2])
               \o be(FieldBytes, x.y[1]) \o be(FieldBytes, x.y[2])
      BY DEF encodeG2
    <3> HIDE DEF h2
    <3> QED  BY <2>2, <3>1, FourParts
  <2>6. (x.x[1] = x.x[2] /\ x.y[1] = x.y[2]) => g2 = h2  BY DEF encodeG2
  <2> HIDE DEF g1, g2, h2
  <2>7. (g2 = h2) <=> (x.x[1] = x.x[2] /\ x.y[1] = x.y[2])  BY <2>4, <2>5, <2>6
  <2> QED  BY <2>2, <2>3, <2>4, <2>7 DEF g1, g2, h2, FieldAt
<1>3. ASSUME Given("variant")
      PROVE  LET v == detectMessageVariant(x.verify) IN
             /\ v # None => x.verify[v] = TRUE
             /\ (harness(x.verify) = 1) <=> (\A u \in DOMAIN x.verify : x.verify[u] # TRUE)
  <2>1. x.verify \in [{"sha256(be8)", "be8"} -> {TRUE, FALSE, Throws}]
    BY <1>3, SealInputs DEF Variant
  <2> QED  BY <2>1, VariantFound
<1> QED  BY <1>1, <1>2, <1>3 DEF EncodingsExact

LEMMA SealOpensToItsBidNow == AnyInput => SealOpensToItsBid
<1> SUFFICES ASSUME AnyInput PROVE SealOpensToItsBid  OBVIOUS
<1>1. ASSUME Given("bid")
      PROVE  LET s == sealBid(x, "e") IN
             IF s = Throws
             THEN \/ Len(x.nonce) # NonceBytes \/ x.value \notin Min128..Max128
                  \/ (x.identity = None) # (x.auditor = None)
             ELSE LET o == openBid(s.ciphertext, x.latest)
                      out == x.latest >= x.round
                  IN /\ (o # Throws) <=> out
                     /\ out => /\ o = [value |-> x.value, nonce |-> x.nonce]
                               /\ commitment(o.value, o.nonce) = s.commitment
                     /\ LET demo == runSealAttackDemo(x, "e", x.latest)
                        IN "Early read" \notin demo.off /\ (demo.on = {} <=> ~out)
                     /\ runBidDecryptDemo(x, "e", x.latest) <=> out
  <2> DEFINE s == sealBid(x, "e")
             fits == /\ x.value \in Min128..Max128 /\ Len(x.nonce) = NonceBytes
                     /\ (x.identity = None) <=> (x.auditor = None)
  <2>1. /\ x.value \in (Min128 - 1)..(Max128 + 1) /\ x.nonce \in Nonces /\ x.round = 2
        /\ x.latest \in 0..3 /\ x.identity \in {None, "bidder"} /\ x.auditor \in {None, "a"}
    BY <1>1, SealInputs DEF Bid
  <2>2. x.nonce \in Seq(Byte)  BY <2>1, LibraryAssumption
  <2>3. CASE ~fits
    <3>1. x.value \in Int
      <4>1. Min128 \in Int /\ Max128 \in Int
        <5>1. Two128 \in Nat \ {0}  BY SealingAssumption, Powers DEF Two128
        <5> QED  BY <5>1 DEF Min128, Max128
      <4> QED  BY <2>1, <4>1
    <3>2. s = Throws
      <4>1. CASE (x.identity = None) # (x.auditor = None)  BY <4>1 DEF sealBid
      <4>2. CASE x.value \notin Min128..Max128 \/ Len(x.nonce) # NonceBytes
        <5>1. encodeBidPreimage(x.value, x.nonce) = Throws
          BY <2>2, <3>1, <4>2, PreimageRefused
        <5> QED  BY <5>1 DEF sealBid
      <4> QED  BY <2>3, <4>1, <4>2
    <3> QED  BY <2>3, <3>2
  <2>4. CASE fits
    <3> DEFINE pre == encodeBidPreimage(x.value, x.nonce)
               o == openBid(s.ciphertext, x.latest)
               out == x.latest >= x.round
               bid == [value |-> x.value, nonce |-> x.nonce]
               blob == IF x.identity = None THEN << >> ELSE sealIdentity(x.identity, x.auditor, "e")
    <3>0. x.round \in Nat /\ x.latest \in Nat  BY <2>1
    <3>1. /\ s \in [commitment : {[sha256 |-> pre]},
                    ciphertext : {[round |-> x.round, payload |-> pre]}, auditorBlob : {blob}]
          /\ s.commitment = [sha256 |-> pre]
          /\ o = IF x.latest < x.round THEN Throws ELSE bid
          /\ o # Throws <=> x.latest >= x.round
      BY <2>2, <2>4, <3>0, SealOpens
    <3>2. /\ pre \in Seq(Byte) /\ pre # Throws
          /\ commitment(x.value, x.nonce) = [sha256 |-> pre]
      BY <2>2, <2>4, PreimageOpens
    <3>3. blob \in Blobs
      <4>1. x.identity # None => x.identity = "bidder" /\ x.auditor = "a"  BY <2>1, <2>4
      <4> QED  BY <4>1 DEF Blobs
    <3> HIDE DEF pre, o, s, blob
    <3>4. s # Throws
      <4>1. s \in [commitment : [sha256 : Seq(Byte)], auditorBlob : Blobs,
                   ciphertext : [round : Nat, payload : Seq(Byte)]]
        BY <3>0, <3>1, <3>2, <3>3
      <4> QED  BY <4>1, LibraryAssumption
    <3>5. (o # Throws) <=> out  BY <3>1
    <3>6. out => o = bid  BY <3>0, <3>1
    <3>7. commitment(bid.value, bid.nonce) = s.commitment
      <4>1. bid.value = x.value /\ bid.nonce = x.nonce  OBVIOUS
      <4> QED  BY <3>1, <3>2, <4>1
    <3>8. LET demo == runSealAttackDemo(x, "e", x.latest)
          IN "Early read" \notin demo.off /\ (demo.on = {} <=> ~out)
      <4> DEFINE demo == runSealAttackDemo(x, "e", x.latest)
                 opened == IF x.latest = 0 THEN Throws ELSE o
      <4>1. opened # Throws <=> out  BY <2>1, <3>5
      <4>2. /\ demo.off = {"Selective abort"} \cup (IF pre = Throws THEN {"Early read"} ELSE {})
            /\ demo.on = (IF opened # Throws THEN {"Decrypt before R", "Demo integrity"} ELSE {})
                         \cup (IF commitment(x.value, x.nonce) # s.commitment
                               THEN {"Commitment binding"} ELSE {})
        BY DEF runSealAttackDemo, pre, o, s
      <4> HIDE DEF demo, opened
      <4>3. demo.off = {"Selective abort"}  BY <3>2, <4>2
      <4>4. demo.on = IF out THEN {"Decrypt before R", "Demo integrity"} ELSE {}
        BY <3>1, <3>2, <4>1, <4>2
      <4>5. "Early read" \notin demo.off /\ (demo.on = {} <=> ~out)  BY <4>3, <4>4
      <4> QED  BY <4>5 DEF demo
    <3>9. runBidDecryptDemo(x, "e", x.latest) <=> out
      <4>1. runBidDecryptDemo(x, "e", x.latest) <=> o # Throws /\ o.value = x.value
        BY DEF runBidDecryptDemo, o, s
      <4>2. out => o.value = x.value  BY <3>6
      <4> QED  BY <3>5, <4>1, <4>2
    <3>10. out => commitment(o.value, o.nonce) = s.commitment  BY <3>6, <3>7
    <3> QED  BY <3>4, <3>5, <3>6, <3>8, <3>9, <3>10 DEF o, s
  <2> QED  BY <2>3, <2>4
<1>2. ASSUME Given("open"), x.secret # None
      PROVE  LET rows == decryptIdentities(x.blobs, x.secret) IN
             /\ rows # Throws
             /\ \A i \in 1..2 :
                   (rows[i] = "bidder") <=> (x.blobs[i] = sealIdentity("bidder", x.secret, "e"))
  <2> DEFINE rows == decryptIdentities(x.blobs, x.secret)
             Row(i) == IF x.blobs[i] = << >> THEN "no auditor blob in trace"
                       ELSE openIdentity(x.blobs[i], x.secret)
  <2>1. x.blobs \in Blobs \X Blobs /\ x.secret \in {"a", "b"}
    BY <1>2, SealInputs DEF Opening
  <2>2. DOMAIN x.blobs = 1..2 /\ x.blobs[1] \in Blobs /\ x.blobs[2] \in Blobs  BY <2>1
  <2>3. rows = [i \in 1..2 |-> Row(i)]  BY <1>2, <2>2 DEF decryptIdentities
  <2>4. ASSUME NEW i \in 1..2
        PROVE  /\ Row(i) \in {"bidder", "no auditor blob in trace", Throws}
               /\ Row(i) = "bidder" <=> x.blobs[i] = sealIdentity("bidder", x.secret, "e")
    <3>1. x.blobs[i] \in Blobs  BY <2>2
    <3> DEFINE b == x.blobs[i]
    <3>2. /\ b # << >> => openIdentity(b, x.secret) \in {"bidder", Throws}
          /\ b # << >> /\ openIdentity(b, x.secret) = "bidder"
                <=> b = sealIdentity("bidder", x.secret, "e")
      BY <2>1, <3>1, IdentityOpens
    <3> HIDE DEF b
    <3>3. CASE b = << >>
      <4>1. b # sealIdentity("bidder", x.secret, "e")  BY <3>2, <3>3
      <4>2. Row(i) = "no auditor blob in trace"  BY <3>3 DEF b
      <4> QED  BY <4>1, <4>2 DEF b
    <3>4. CASE b # << >>
      <4>1. Row(i) = openIdentity(b, x.secret)  BY <3>4 DEF b
      <4> HIDE DEF Row
      <4> QED  BY <3>2, <3>4, <4>1 DEF b
    <3> QED  BY <3>3, <3>4
  <2> HIDE DEF rows, Row
  <2>5. rows \in [1..2 -> {"bidder", "no auditor blob in trace", Throws}]  BY <2>3, <2>4
  <2>6. rows # Throws  BY <2>5, LibraryAssumption
  <2>7. \A i \in 1..2 : rows[i] = Row(i)  BY <2>3
  <2>8. \A i \in 1..2 :
           (rows[i] = "bidder") <=> (x.blobs[i] = sealIdentity("bidder", x.secret, "e"))
    BY <2>4, <2>7
  <2> QED  BY <2>6, <2>8 DEF rows
<1> QED  BY <1>1, <1>2 DEF SealOpensToItsBid

(* What the contract reads is what was written: the bytes of i128ToBeBytes *)
(* in range, the coordinates encodeG1 and encodeG2 lay out, the variant    *)
(* detectMessageVariant names, for bytes of any base and any width.        *)
THEOREM EncodingsAreExact == Inputs => []EncodingsExact
<1>1. AnyInput /\ [UNCHANGED x]_x => AnyInput'
  BY DEF AnyInput
<1> QED  BY <1>1, EncodingsExactNow, PTL DEF Inputs

(* sealBid, openBid and openIdentity: a seal opens from its round on, to   *)
(* the bid its commitment binds, and the two demos report just that; an    *)
(* identity is read by the auditor it was sealed to and by nobody else.    *)
THEOREM SealsOpenToTheirBids == Inputs => []SealOpensToItsBid
<1>1. AnyInput /\ [UNCHANGED x]_x => AnyInput'
  BY DEF AnyInput
<1> QED  BY <1>1, SealOpensToItsBidNow, PTL DEF Inputs

----------------------------------------------------------------------------
(* Panels: the outcome announced *)

(* A finite set in the order of a total relation. *)
LEMMA Arranged ==
    ASSUME NEW K, IsFiniteSet(K), NEW R, \A i \in K : <<i, i>> \notin R,
           \A i, j \in K : i # j => <<i, j>> \in R \/ <<j, i>> \in R,
           \A i, j, k \in K : <<i, j>> \in R /\ <<j, k>> \in R => <<i, k>> \in R
    PROVE  LET n == Cardinality(K) a == Arrange(K, R) IN
           /\ n \in Nat /\ a \in [1..n -> K]
           /\ \A i \in K : \E m \in 1..n : a[m] = i
           /\ \A l, m \in 1..n : l < m => <<a[l], a[m]>> \in R
<1> DEFINE n == Cardinality(K)
           B(i) == {j \in K : <<j, i>> \in R}
           rank == [i \in K |-> Cardinality(B(i))]
           at(m) == CHOOSE i \in K : Cardinality(B(i)) = m - 1
           a == [m \in 1..n |-> at(m)]
<1>1. n \in Nat  BY FS_CardinalityType
<1>2. \A i \in K : IsFiniteSet(B(i)) /\ Cardinality(B(i)) \in Nat
  <2>1. SUFFICES ASSUME NEW i \in K PROVE IsFiniteSet(B(i)) /\ Cardinality(B(i)) \in Nat  OBVIOUS
  <2>2. B(i) \in SUBSET K  OBVIOUS
  <2>3. IsFiniteSet(B(i))  BY <2>2, FS_Subset
  <2> QED  BY <2>3, FS_CardinalityType
<1>3. ASSUME NEW i \in K PROVE rank[i] \in 0..(n - 1)
  <2>1. B(i) \in SUBSET K /\ i \notin B(i)  OBVIOUS
  <2>2. B(i) # K  BY <2>1
  <2>3. Cardinality(B(i)) <= n /\ Cardinality(B(i)) # n  BY <2>1, <2>2, FS_Subset
  <2> QED  BY <1>1, <1>2, <2>3
<1>4. ASSUME NEW i \in K, NEW j \in K, <<i, j>> \in R PROVE rank[i] < rank[j]
  <2>1. i \in B(j) /\ i \notin B(i)  BY <1>4
  <2>2. B(i) \in SUBSET B(j)
    <3>1. \A k \in B(i) : k \in B(j)  BY <1>4
    <3> HIDE DEF B
    <3> QED  BY <3>1
  <2>3. Cardinality(B(i)) <= Cardinality(B(j)) /\ Cardinality(B(i)) # Cardinality(B(j))
    <3> HIDE DEF B
    <3> QED  BY <1>2, <2>1, <2>2, FS_Subset
  <2>4. Cardinality(B(i)) < Cardinality(B(j))
    <3> HIDE DEF B
    <3> QED  BY <1>2, <2>3
  <2> QED  BY <2>4
<1>5. \A i, j \in K : rank[i] = rank[j] => i = j
  <2>1. SUFFICES ASSUME NEW i \in K, NEW j \in K, rank[i] = rank[j], i # j PROVE FALSE  OBVIOUS
  <2>2. rank[i] \in Int /\ rank[j] \in Int
    <3> HIDE DEF rank
    <3> QED  BY <1>3
  <2>3. <<i, j>> \in R \/ <<j, i>> \in R  BY <2>1
  <2>4. rank[i] < rank[j] \/ rank[j] < rank[i]
    <3> HIDE DEF rank
    <3> QED  BY <1>4, <2>3
  <2> HIDE DEF rank
  <2> QED  BY <2>1, <2>2, <2>4
<1> HIDE DEF n
<1>6. rank \in Injection(K, 0..(n - 1))
  <2>1. rank = [i \in K |-> rank[i]]  OBVIOUS
  <2> HIDE DEF rank
  <2> QED  BY <1>3, <1>5, <2>1 DEF Injection, IsInjective
<1>7. IsFiniteSet(0..(n - 1)) /\ Cardinality(0..(n - 1)) = n
  <2>1. 0 \in Int /\ n - 1 \in Int  BY <1>1
  <2>2. IsFiniteSet(0..(n - 1)) /\ Cardinality(0..(n - 1)) = IF 0 > n - 1 THEN 0 ELSE n - 1 - 0 + 1
    BY <2>1, FS_Interval
  <2> QED  BY <1>1, <2>2
<1>8. rank \in Surjection(K, 0..(n - 1))
  <2> HIDE DEF rank
  <2> QED  BY <1>6, <1>7, FS_Injection DEF n
<1>9. ASSUME NEW m \in 1..n PROVE a[m] \in K /\ rank[a[m]] = m - 1
  <2>1. \E i \in K : rank[i] = m - 1
    <3>1. m - 1 \in 0..(n - 1)  BY <1>1
    <3> HIDE DEF rank
    <3> QED  BY <1>8, <3>1 DEF Surjection
  <2>2. \E i \in K : Cardinality(B(i)) = m - 1  BY <2>1
  <2>3. a[m] \in K /\ Cardinality(B(a[m])) = m - 1
    <3> HIDE DEF B
    <3> QED  BY <2>2
  <2> HIDE DEF a
  <2> QED  BY <2>3
<1>10. a = [m \in 1..n |-> a[m]]
  <2> HIDE DEF at
  <2> QED  OBVIOUS
<1>11. Arrange(K, R) = a  BY DEF Arrange, n
<1> HIDE DEF a, rank
<1>12. a \in [1..n -> K]  BY <1>9, <1>10
<1>13. ASSUME NEW i \in K PROVE \E m \in 1..n : a[m] = i
  <2> DEFINE m == rank[i] + 1
  <2>1. m \in 1..n /\ m - 1 = rank[i]  BY <1>1, <1>3
  <2> HIDE DEF m
  <2>2. a[m] \in K /\ rank[a[m]] = m - 1  BY <1>9, <2>1
  <2> QED  BY <1>5, <2>1, <2>2
<1>14. ASSUME NEW l \in 1..n, NEW m \in 1..n, l < m PROVE <<a[l], a[m]>> \in R
  <2>1. /\ a[l] \in K /\ a[m] \in K /\ rank[a[l]] = l - 1 /\ rank[a[m]] = m - 1  BY <1>9
  <2>2. l - 1 < m - 1 /\ l - 1 # m - 1 /\ ~(m - 1 < l - 1)  BY <1>14
  <2>3. a[l] # a[m]  BY <2>1, <2>2
  <2>4. <<a[m], a[l]>> \notin R
    <3>1. <<a[m], a[l]>> \in R => rank[a[m]] < rank[a[l]]  BY <1>4, <2>1
    <3> QED  BY <2>1, <2>2, <3>1
  <2> QED  BY <2>1, <2>3, <2>4
<1> QED  BY <1>1, <1>11, <1>12, <1>13, <1>14 DEF n

(* The indices Filter keeps. *)
Up(K) == {p \in K \X K : p[1] < p[2]}

LEMMA Indices ==
    ASSUME NEW K, K \subseteq Int, IsFiniteSet(K)
    PROVE  LET n == Cardinality(K) a == Arrange(K, Up(K)) IN
           /\ n \in Nat /\ a \in [1..n -> K] /\ DOMAIN a = 1..n
           /\ \A i \in K : \E m \in 1..n : a[m] = i
<1>1. \A i, j \in K : <<i, j>> \in Up(K) <=> i < j  BY DEF Up
<1>2. /\ \A i \in K : <<i, i>> \notin Up(K)
      /\ \A i, j \in K : i # j => <<i, j>> \in Up(K) \/ <<j, i>> \in Up(K)
      /\ \A i, j, k \in K : <<i, j>> \in Up(K) /\ <<j, k>> \in Up(K) => <<i, k>> \in Up(K)
  BY <1>1
<1> DEFINE R == Up(K)
<1>3. LET n == Cardinality(K) a == Arrange(K, R) IN
      /\ n \in Nat /\ a \in [1..n -> K] /\ \A i \in K : \E m \in 1..n : a[m] = i
  <2>1. /\ \A i \in K : <<i, i>> \notin R
        /\ \A i, j \in K : i # j => <<i, j>> \in R \/ <<j, i>> \in R
        /\ \A i, j, k \in K : <<i, j>> \in R /\ <<j, k>> \in R => <<i, k>> \in R
    BY <1>2
  <2> HIDE DEF R
  <2>2. LET n == Cardinality(K) a == Arrange(K, R) IN
        /\ n \in Nat /\ a \in [1..n -> K]
        /\ \A i \in K : \E m \in 1..n : a[m] = i
        /\ \A l, m \in 1..n : l < m => <<a[l], a[m]>> \in R
    BY <2>1, Arranged
  <2> QED  BY <2>2
<1> QED  BY <1>3

(* A filter that keeps everything, and one that keeps nothing. *)
LEMMA AllIndices ==
    ASSUME NEW n \in Nat
    PROVE  Arrange(1..n, Up(1..n)) = [i \in 1..n |-> i]
<1> DEFINE K == 1..n
           B(i) == {j \in K : <<j, i>> \in Up(K)}
<1>1. Cardinality(K) = n
  <2>1. Cardinality(1..n) = IF 1 > n THEN 0 ELSE n - 1 + 1  BY FS_Interval
  <2> QED  BY <2>1
<1>2. ASSUME NEW i \in K PROVE Cardinality(B(i)) = i - 1
  <2>1. B(i) = 1..(i - 1)  BY DEF Up
  <2>2. Cardinality(1..(i - 1)) = IF 1 > i - 1 THEN 0 ELSE i - 1 - 1 + 1  BY FS_Interval
  <2>3. Cardinality(B(i)) = IF 1 > i - 1 THEN 0 ELSE i - 1 - 1 + 1  BY <2>1, <2>2
  <2> HIDE DEF B
  <2> QED  BY <2>3
<1>3. ASSUME NEW m \in 1..n PROVE (CHOOSE i \in K : Cardinality(B(i)) = m - 1) = m
  <2>1. \A i \in K : Cardinality(B(i)) = m - 1 <=> i = m  BY <1>2
  <2> HIDE DEF B
  <2> QED  BY <2>1
<1>4. Arrange(K, Up(K)) = [m \in 1..n |-> CHOOSE i \in K : Cardinality(B(i)) = m - 1]
  BY <1>1 DEF Arrange
<1> HIDE DEF B
<1> QED  BY <1>3, <1>4

LEMMA NoIndices == Arrange({}, Up({})) = << >>
<1>1. Cardinality({}) = 0  BY FS_EmptySet
<1> QED  BY <1>1 DEF Arrange

(* What the page has of a peer of the round. *)
Shown(b) == [name |-> b, value |-> x.peers[b].value, sealed |-> x.peers[b].state # "none",
             revealed |-> x.peers[b].state = "revealed"]

LEMMA PeersOfReveal ==
    ASSUME x \in Reveals
    PROVE  /\ DOMAIN x.peers \subseteq {"a", "b", "c"} /\ IsFiniteSet(DOMAIN x.peers)
           /\ x.you \in Int /\ x.committed \in BOOLEAN
           /\ \A b \in DOMAIN x.peers : /\ x.peers[b].value \in Int
                                        /\ x.peers[b].state \in {"none", "sealed", "revealed"}
<1> DEFINE Peer == [value : Ballots, state : {"none", "sealed", "revealed"}]
<1>1. /\ x.you \in Ballots /\ x.committed \in BOOLEAN
      /\ x.peers \in UNION {[b -> Peer] : b \in {{}, {"a"}, {"a", "b"}, {"a", "b", "c"}}}
  BY DEF Reveals
<1>2. PICK B \in {{}, {"a"}, {"a", "b"}, {"a", "b", "c"}} : x.peers \in [B -> Peer]
  <2> HIDE DEF Peer
  <2> QED  BY <1>1
<1>3. Ballots \subseteq Int  BY LibraryAssumption
<1>4. DOMAIN x.peers = B /\ \A b \in B : x.peers[b] \in Peer
  <2> HIDE DEF Peer
  <2> QED  BY <1>2
<1>5. IsFiniteSet({"a", "b", "c"})
  <2>1. IsFiniteSet({"a"})  BY FS_Singleton
  <2>2. IsFiniteSet({"a"} \cup {"b"})  BY <2>1, FS_AddElement
  <2>3. IsFiniteSet(({"a"} \cup {"b"}) \cup {"c"})  BY <2>2, FS_AddElement
  <2>4. ({"a"} \cup {"b"}) \cup {"c"} = {"a", "b", "c"}  OBVIOUS
  <2> QED  BY <2>3, <2>4
<1>6. B \in SUBSET {"a", "b", "c"}  BY <1>2
<1>7. IsFiniteSet(B)  BY <1>5, <1>6, FS_Subset
<1>8. \A b \in B : x.peers[b].value \in Ballots /\ x.peers[b].state \in {"none", "sealed", "revealed"}
  BY <1>4
<1> QED  BY <1>1, <1>3, <1>4, <1>6, <1>7, <1>8

(* Others lists the peers of the round, each at some place. *)
LEMMA OthersAre ==
    ASSUME x \in Reveals
    PROVE  LET P == DOMAIN x.peers n == Cardinality(DOMAIN Others) IN
           /\ n \in Nat /\ DOMAIN Others = 1..n /\ Others = [i \in 1..n |-> Others[i]]
           /\ \A i \in 1..n : \E b \in P : Others[i] = Shown(b)
           /\ \A b \in P : \E i \in 1..n : Others[i] = Shown(b)
<1> DEFINE P == DOMAIN x.peers  k == Cardinality(P)  q == SetToSeq(P)
           bs == <<"You">> \o q
           K == {i \in DOMAIN bs : bs[i] # "You"}
           at == Arrange(K, Up(K))
           n == Cardinality(K)
           st == [b \in {"You"} \cup P |->
                    IF b = "You" THEN [value |-> x.you, state |-> "sealed"] ELSE x.peers[b]]
           row(b) == [name |-> b, value |-> st[b].value, sealed |-> st[b].state # "none",
                      revealed |-> st[b].state = "revealed"]
           os == [m \in 1..n |-> bs[at[m]]]
<1>1. IsFiniteSet(P) /\ "You" \notin P /\ k \in Nat  BY PeersOfReveal, FS_CardinalityType
<1>2. q \in [1..k -> P] /\ \A b \in P : \E i \in 1..k : q[i] = b
  <2>1. \E f \in [1..k -> P] : IsInjective(f)
    <3>1. ExistsBijection(1..k, P)  BY <1>1, FS_CardinalityType
    <3> QED  BY <3>1 DEF ExistsBijection, Bijection, Injection, IsInjective
  <2>2. q \in [1..k -> P] /\ IsInjective(q)
    <3> HIDE DEF P, k
    <3> QED  BY <2>1 DEF SetToSeq, k
  <2>3. q \in Injection(1..k, P)
    <3> HIDE DEF P, k, q
    <3> QED  BY <2>2 DEF Injection, IsInjective
  <2>4. Cardinality(1..k) = k
    <3>1. Cardinality(1..k) = IF 1 > k THEN 0 ELSE k - 1 + 1  BY <1>1, FS_Interval
    <3> HIDE DEF k
    <3> QED  BY <1>1, <3>1
  <2>5. q \in Surjection(1..k, P)
    <3> HIDE DEF P, q
    <3> QED  BY <1>1, <2>3, <2>4, FS_Injection
  <2> HIDE DEF P, k, q
  <2> QED  BY <2>2, <2>5 DEF Surjection
<1> HIDE DEF q
<1>3. /\ DOMAIN bs = 1..(1 + k) /\ bs[1] = "You"
      /\ \A i \in 2..(1 + k) : bs[i] = q[i - 1] /\ i - 1 \in 1..k
  <2> HIDE DEF P, k
  <2>1. q \in Seq(P) /\ Len(q) = k  BY <1>1, <1>2
  <2> QED  BY <1>1, <2>1
<1> HIDE DEF bs, P, k
<1>4. K = 2..(1 + k)
  <2>1. \A i \in DOMAIN bs : i = 1 \/ i \in 2..(1 + k)  BY <1>1, <1>3
  <2>2. \A i \in 2..(1 + k) : bs[i] \in P  BY <1>2, <1>3
  <2>3. \A i \in 2..(1 + k) : i \in DOMAIN bs  BY <1>1, <1>3
  <2>4. \A i \in K : i \in 2..(1 + k)  BY <1>3, <2>1
  <2>5. \A i \in 2..(1 + k) : i \in K  BY <1>1, <2>2, <2>3
  <2> HIDE DEF K
  <2> QED  BY <2>4, <2>5
<1>5. K \subseteq Int /\ IsFiniteSet(K)
  <2> HIDE DEF K
  <2>1. 2 \in Int /\ 1 + k \in Int  BY <1>1
  <2>2. IsFiniteSet(2..(1 + k))  BY <2>1, FS_Interval
  <2> QED  BY <1>4, <2>2
<1>6. /\ n \in Nat /\ at \in [1..n -> K] /\ DOMAIN at = 1..n
      /\ \A i \in K : \E m \in 1..n : at[m] = i
  <2> HIDE DEF K
  <2> QED  BY <1>5, Indices
<1>7. Others = [m \in 1..n |-> row(os[m])]
  <2>1. Filter(bs, LAMBDA b : b # "You") = [m \in DOMAIN at |-> bs[at[m]]]  BY DEF Filter, Up
  <2>2. DOMAIN os = 1..n  OBVIOUS
  <2>3. Filter(bs, LAMBDA b : b # "You") = os  BY <1>6, <2>1
  <2>4. Others = RealPeers(bs, st, "You")  BY DEF Others, bs, q, P
  <2> HIDE DEF st, os
  <2> QED  BY <2>2, <2>3, <2>4 DEF RealPeers
<1>8. \A m \in 1..n : os[m] \in P
  <2>1. SUFFICES ASSUME NEW m \in 1..n PROVE bs[at[m]] \in P  OBVIOUS
  <2>2. at[m] \in 2..(1 + k)  BY <1>4, <1>6
  <2> QED  BY <1>2, <1>3, <2>2
<1>9. \A b \in P : \E m \in 1..n : os[m] = b
  <2>1. SUFFICES ASSUME NEW b \in P PROVE \E m \in 1..n : bs[at[m]] = b  OBVIOUS
  <2>2. PICK i \in 1..k : q[i] = b  BY <1>2
  <2>3. i + 1 \in 2..(1 + k) /\ i + 1 - 1 = i  BY <1>1
  <2>4. i + 1 \in K /\ bs[i + 1] = b  BY <1>3, <1>4, <2>2, <2>3
  <2> QED  BY <1>6, <2>4
<1>10. \A b \in P : row(b) = Shown(b)
  <2>1. \A b \in P : b # "You" /\ st[b] = x.peers[b]  BY <1>1
  <2> HIDE DEF st
  <2> QED  BY <2>1 DEF Shown
<1> HIDE DEF K, at, n, st, os, row
<1>11. DOMAIN Others = 1..n /\ \A m \in 1..n : Others[m] = row(os[m])  BY <1>7
<1>12. Cardinality(DOMAIN Others) = n
  <2>1. Cardinality(1..n) = IF 1 > n THEN 0 ELSE n - 1 + 1  BY <1>6, FS_Interval
  <2> QED  BY <1>6, <1>11, <2>1
<1>13. \A m \in 1..n : \E b \in P : Others[m] = Shown(b)  BY <1>8, <1>10, <1>11
<1>14. \A b \in P : \E m \in 1..n : Others[m] = Shown(b)
  <2>1. SUFFICES ASSUME NEW b \in P PROVE \E m \in 1..n : Others[m] = Shown(b)  OBVIOUS
  <2>2. PICK m \in 1..n : os[m] = b  BY <1>9
  <2> QED  BY <1>10, <1>11, <2>2
<1>15. Others = [m \in 1..n |-> Others[m]]  BY <1>7
<1> QED  BY <1>6, <1>11, <1>12, <1>13, <1>14, <1>15 DEF P

LEMMA NobodyElse ==
    ASSUME x \in Reveals
    PROVE  Others = << >> <=> DOMAIN x.peers = {}
<1> DEFINE P == DOMAIN x.peers  n == Cardinality(DOMAIN Others)
<1>1. /\ n \in Nat /\ DOMAIN Others = 1..n /\ Others = [i \in 1..n |-> Others[i]]
      /\ \A i \in 1..n : \E b \in P : Others[i] = Shown(b)
      /\ \A b \in P : \E i \in 1..n : Others[i] = Shown(b)
  BY OthersAre
<1> HIDE DEF n
<1>2. ASSUME P = {} PROVE Others = << >>
  <2>1. \A i \in 1..n : FALSE  BY <1>1, <1>2
  <2>2. n = 0
    <3>1. n # 0 => 1 \in 1..n  BY <1>1
    <3> QED  BY <2>1, <3>1
  <2> QED  BY <1>1, <2>2
<1>3. ASSUME P # {} PROVE Others # << >>
  <2>1. DOMAIN Others # {}  BY <1>1, <1>3
  <2> QED  BY <2>1
<1> QED  BY <1>2, <1>3

(* CohortPanel opens the rows the outcome is made of. *)
TheCohort == CohortRows(Others, Members, {0}, 0, TRUE)

LEMMA RowsWithoutPeers ==
    ASSUME Others = << >>
    PROVE  /\ Rows = [i \in 1..1 |-> [name |-> Members[1].name, value |-> Members[1].value]]
           /\ Opened(TheCohort) = Rows
           /\ sealedTotal(Others, Members, {0}, 0, TRUE, x.committed) + Waiting(TheCohort)
                = Len(TheCohort) + (IF x.committed THEN 1 ELSE 0)
<1> DEFINE row == [name |-> Members[1].name, value |-> Members[1].value, state |-> "revealed"]
           out == [name |-> Members[1].name, value |-> Members[1].value]
           c == [i \in 1..1 |-> row]
<1>1. DOMAIN Members = 1..1  BY SMT DEF Members
<1>2. Rows = [i \in 1..1 |-> out]  BY <1>1 DEF Rows, OutcomePeers
<1>3. TheCohort = c
  BY <1>1 DEF TheCohort, CohortRows, peerStateAt
<1>4. Opened(c) = [i \in 1..1 |-> out]
  <2> DEFINE K == {i \in DOMAIN c : c[i].state = "revealed"}
             at == Arrange(K, Up(K))
             f == [m \in 1..1 |-> row]
  <2>1. K = 1..1  OBVIOUS
  <2>2. at = [i \in 1..1 |-> i]
    <3>1. 1 \in Nat  OBVIOUS
    <3> HIDE DEF K
    <3> QED  BY <2>1, <3>1, AllIndices
  <2>3. Filter(c, LAMBDA r : r.state = "revealed") = [m \in DOMAIN at |-> c[at[m]]]
    BY DEF Filter, Up
  <2>4. DOMAIN at = 1..1 /\ \A m \in 1..1 : c[at[m]] = row
    <3> HIDE DEF at, row
    <3> QED  BY <2>2
  <2> HIDE DEF at, c, row
  <2>5. Filter(c, LAMBDA r : r.state = "revealed") = f  BY <2>3, <2>4
  <2>6. DOMAIN f = 1..1 /\ \A m \in 1..1 : f[m].name = Members[1].name /\ f[m].value = Members[1].value
    BY DEF row
  <2> HIDE DEF f
  <2> QED  BY <2>5, <2>6 DEF Opened
<1>5. sealedTotal(Others, Members, {0}, 0, TRUE, x.committed) = (IF x.committed THEN 1 ELSE 0) + 1
  <2>1. {i \in DOMAIN Members : peerStateAt(Members[i], {0}, 0, TRUE) # "pending"} = {1}
    BY <1>1 DEF peerStateAt
  <2>2. Cardinality({1}) = 1  BY FS_Singleton
  <2> QED  BY <2>1, <2>2 DEF sealedTotal
<1>6. Waiting(c) = 0
  <2>1. {i \in DOMAIN c : c[i].state = "pending"} = {}  OBVIOUS
  <2>2. Cardinality({}) = 0  BY FS_EmptySet
  <2> QED  BY <2>1, <2>2 DEF Waiting
<1>7. Len(c) = 1  OBVIOUS
<1> DEFINE you == IF x.committed THEN 1 ELSE 0
<1>8. you \in Int  OBVIOUS
<1> HIDE DEF c, row, you
<1>9. you + 1 + 0 = 1 + you  BY <1>8
<1>10. Opened(TheCohort) = Rows  BY <1>2, <1>3, <1>4
<1>11. sealedTotal(Others, Members, {0}, 0, TRUE, x.committed) + Waiting(TheCohort)
         = Len(TheCohort) + you
  BY <1>3, <1>5, <1>6, <1>7, <1>9 DEF you
<1> QED  BY <1>2, <1>10, <1>11 DEF you

LEMMA RowsOfPeers ==
    ASSUME x \in Reveals, Others # << >>
    PROVE  LET P == DOMAIN x.peers n == Cardinality(DOMAIN Rows) IN
           /\ n \in Nat /\ DOMAIN Rows = 1..n /\ Rows = [i \in 1..n |-> Rows[i]]
           /\ \A i \in 1..n : \E b \in P : Rows[i] = [name |-> b, value |-> x.peers[b].value]
           /\ \A b \in P : x.peers[b].state = "revealed" =>
                 \E i \in 1..n : Rows[i] = [name |-> b, value |-> x.peers[b].value]
           /\ Opened(TheCohort) = Rows
<1> DEFINE P == DOMAIN x.peers  k == Cardinality(DOMAIN Others)
           K == {i \in DOMAIN Others : Others[i].revealed}
           at == Arrange(K, Up(K))
           n == Cardinality(K)
           c == [i \in DOMAIN Others |->
                   [name |-> Others[i].name, value |-> Others[i].value,
                    state |-> IF Others[i].revealed THEN "revealed"
                              ELSE IF Others[i].sealed THEN "sealed" ELSE "pending"]]
           out == [m \in 1..n |-> [name |-> Others[at[m]].name, value |-> Others[at[m]].value]]
<1>1. /\ k \in Nat /\ DOMAIN Others = 1..k
      /\ \A i \in 1..k : \E b \in P : Others[i] = Shown(b)
      /\ \A b \in P : \E i \in 1..k : Others[i] = Shown(b)
  BY OthersAre
<1> HIDE DEF k, P
<1>2. K \subseteq 1..k  BY <1>1
<1>3. K \subseteq Int /\ IsFiniteSet(K)
  <2> HIDE DEF K
  <2>1. IsFiniteSet(1..k)  BY <1>1, FS_Interval
  <2>2. K \in SUBSET (1..k)  BY <1>2
  <2>3. IsFiniteSet(K)  BY <2>1, <2>2, FS_Subset
  <2> QED  BY <1>2, <2>3
<1>4. /\ n \in Nat /\ at \in [1..n -> K] /\ DOMAIN at = 1..n
      /\ \A i \in K : \E m \in 1..n : at[m] = i
  <2> HIDE DEF K
  <2> QED  BY <1>3, Indices
<1>5. Rows = out
  <2> DEFINE f == [m \in 1..n |-> Others[at[m]]]
  <2>1. Filter(Others, LAMBDA p : p.revealed) = [m \in DOMAIN at |-> Others[at[m]]]
    BY DEF Filter, Up
  <2>2. Filter(Others, LAMBDA p : p.revealed) = f  BY <1>4, <2>1
  <2>3. DOMAIN f = 1..n  OBVIOUS
  <2>4. Rows = [i \in DOMAIN f |-> [name |-> f[i].name, value |-> f[i].value]]
    <3> HIDE DEF f
    <3> QED  BY <2>2 DEF Rows, OutcomePeers
  <2>5. \A m \in 1..n : f[m] = Others[at[m]]  OBVIOUS
  <2> HIDE DEF f, at, n
  <2> QED  BY <2>3, <2>4, <2>5
<1>6. TheCohort = c  BY DEF TheCohort, CohortRows
<1>7. Opened(c) = out
  <2> DEFINE f == [m \in 1..n |-> c[at[m]]]
  <2>1. {i \in DOMAIN c : c[i].state = "revealed"} = K  OBVIOUS
  <2>2. Filter(c, LAMBDA r : r.state = "revealed") = [m \in DOMAIN at |-> c[at[m]]]
    <3> HIDE DEF K, c
    <3> QED  BY <2>1 DEF Filter, Up
  <2>3. Filter(c, LAMBDA r : r.state = "revealed") = f
    <3> HIDE DEF c
    <3> QED  BY <1>4, <2>2
  <2>4. DOMAIN f = 1..n  OBVIOUS
  <2>5. Opened(c) = [i \in DOMAIN f |-> [name |-> f[i].name, value |-> f[i].value]]
    <3> HIDE DEF f, c
    <3> QED  BY <2>3 DEF Opened
  <2>6. ASSUME NEW m \in 1..n
        PROVE f[m].name = Others[at[m]].name /\ f[m].value = Others[at[m]].value
    <3>1. f[m] = c[at[m]]  OBVIOUS
    <3>2. at[m] \in DOMAIN Others
      <4> HIDE DEF K
      <4> QED  BY <1>1, <1>2, <1>4
    <3> HIDE DEF f, at
    <3> QED  BY <3>1, <3>2
  <2> HIDE DEF f, at, n, c
  <2> QED  BY <2>4, <2>5, <2>6
<1>8. \A m \in 1..n : \E b \in P : out[m] = [name |-> b, value |-> x.peers[b].value]
  <2>1. SUFFICES ASSUME NEW m \in 1..n
                 PROVE \E b \in P : out[m] = [name |-> b, value |-> x.peers[b].value]
    OBVIOUS
  <2>2. at[m] \in 1..k
    <3> HIDE DEF K
    <3> QED  BY <1>2, <1>4
  <2>3. PICK b \in P : Others[at[m]] = Shown(b)  BY <1>1, <2>2
  <2> HIDE DEF at, n
  <2> QED  BY <2>3 DEF Shown
<1>9. \A b \in P : x.peers[b].state = "revealed" =>
         \E m \in 1..n : out[m] = [name |-> b, value |-> x.peers[b].value]
  <2>1. SUFFICES ASSUME NEW b \in P, x.peers[b].state = "revealed"
                 PROVE \E m \in 1..n : out[m] = [name |-> b, value |-> x.peers[b].value]
    OBVIOUS
  <2>2. PICK i \in 1..k : Others[i] = Shown(b)  BY <1>1
  <2>3. i \in K
    <3>1. Others[i].revealed = (x.peers[b].state = "revealed")  BY <2>2 DEF Shown
    <3>2. Others[i].revealed = TRUE  BY <2>1, <3>1
    <3> QED  BY <1>1, <3>2
  <2>4. PICK m \in 1..n : at[m] = i
    <3> HIDE DEF K
    <3> QED  BY <1>4, <2>3
  <2>5. Others[at[m]] = Shown(b)  BY <2>2, <2>4
  <2> HIDE DEF at, n
  <2> QED  BY <2>5 DEF Shown
<1>10. DOMAIN out = 1..n  OBVIOUS
<1>11. out = [m \in 1..n |-> out[m]]
  <2> HIDE DEF at, n
  <2> QED  OBVIOUS
<1> HIDE DEF out, n, c
<1>12. Cardinality(DOMAIN out) = n
  <2>1. Cardinality(1..n) = IF 1 > n THEN 0 ELSE n - 1 + 1  BY <1>4, FS_Interval
  <2> QED  BY <1>4, <1>10, <2>1
<1>13. DOMAIN Rows = 1..n /\ Cardinality(DOMAIN Rows) = n /\ n \in Nat  BY <1>4, <1>5, <1>10, <1>12
<1>14. Opened(TheCohort) = Rows  BY <1>5, <1>6, <1>7
<1>15. Rows = [m \in 1..n |-> Rows[m]]  BY <1>5, <1>11
<1> QED  BY <1>5, <1>8, <1>9, <1>13, <1>14, <1>15 DEF P

LEMMA CounterOfPeers ==
    ASSUME x \in Reveals, Others # << >>
    PROVE  sealedTotal(Others, Members, {0}, 0, TRUE, x.committed) + Waiting(TheCohort)
             = Len(TheCohort) + (IF x.committed THEN 1 ELSE 0)
<1> DEFINE P == DOMAIN x.peers  k == Cardinality(DOMAIN Others)
           S == {i \in 1..k : Others[i].sealed}
           W == {i \in 1..k : TheCohort[i].state = "pending"}
           you == IF x.committed THEN 1 ELSE 0
<1>1. /\ k \in Nat /\ DOMAIN Others = 1..k
      /\ \A i \in 1..k : \E b \in P : Others[i] = Shown(b)
  BY OthersAre
<1>2. you \in Nat  OBVIOUS
<1> HIDE DEF k, you
<1>3. /\ TheCohort = [i \in 1..k |->
                   [name |-> Others[i].name, value |-> Others[i].value,
                    state |-> IF Others[i].revealed THEN "revealed"
                              ELSE IF Others[i].sealed THEN "sealed" ELSE "pending"]]
  BY <1>1 DEF TheCohort, CohortRows
<1>4. DOMAIN TheCohort = 1..k /\ Len(TheCohort) = k  BY <1>1, <1>3
<1>5. \A i \in 1..k : TheCohort[i].state = "pending" <=> ~Others[i].sealed
  <2>1. SUFFICES ASSUME NEW i \in 1..k
                 PROVE TheCohort[i].state = "pending" <=> ~Others[i].sealed
    OBVIOUS
  <2>2. PICK b \in P : Others[i] = Shown(b)  BY <1>1
  <2>3. /\ Others[i].revealed = (x.peers[b].state = "revealed")
        /\ Others[i].sealed = (x.peers[b].state # "none")
    BY <2>2 DEF Shown
  <2>4. Others[i].revealed => Others[i].sealed  BY <2>3
  <2>5. TheCohort[i].state = IF Others[i].revealed THEN "revealed"
                             ELSE IF Others[i].sealed THEN "sealed" ELSE "pending"
    BY <1>3
  <2> QED  BY <2>4, <2>5
<1>6. W = (1..k) \ S  BY <1>5
<1>7. IsFiniteSet(1..k) /\ Cardinality(1..k) = k
  <2>1. IsFiniteSet(1..k) /\ Cardinality(1..k) = IF 1 > k THEN 0 ELSE k - 1 + 1
    BY <1>1, FS_Interval
  <2> QED  BY <1>1, <2>1
<1>8. Cardinality(S) \in Nat /\ Cardinality(W) = k - Cardinality(S)
  <2>1. S \in SUBSET (1..k)  OBVIOUS
  <2> HIDE DEF S, W
  <2>2. IsFiniteSet(S) /\ Cardinality(S) \in Nat  BY <1>7, <2>1, FS_Subset, FS_CardinalityType
  <2>3. (1..k) \cap S = S  BY <2>1
  <2>4. Cardinality((1..k) \ S) = Cardinality(1..k) - Cardinality((1..k) \cap S)
    BY <1>7, FS_Difference
  <2> QED  BY <1>6, <1>7, <2>2, <2>3, <2>4
<1>9. Waiting(TheCohort) = Cardinality(W)  BY <1>4 DEF Waiting
<1>10. sealedTotal(Others, Members, {0}, 0, TRUE, x.committed) = you + Cardinality(S)
  BY <1>1 DEF sealedTotal, you
<1> HIDE DEF S, W
<1>11. you + Cardinality(S) + (k - Cardinality(S)) = k + you  BY <1>1, <1>2, <1>8
<1> QED  BY <1>4, <1>8, <1>9, <1>10, <1>11 DEF you

(* The first row of a ranking leads the others. *)
LEMMA RankingLeads ==
    ASSUME NEW n \in Nat \ {0}, NEW rows, DOMAIN rows = 1..n, \A i \in 1..n : rows[i].value \in Int
    PROVE  LET w == Ranking(rows)[1] IN
           \E k \in 1..n : w = rows[k] /\ \A i \in 1..n : rows[i].value <= w.value
<1> DEFINE K == 1..n
           Before(i, j) == \/ rows[i].value > rows[j].value
                           \/ rows[i].value = rows[j].value /\ i < j
           R == {p \in K \X K : Before(p[1], p[2])}
           order == Arrange(K, R)
<1>1. IsFiniteSet(K) /\ Cardinality(K) = n
  <2>1. IsFiniteSet(1..n) /\ Cardinality(1..n) = IF 1 > n THEN 0 ELSE n - 1 + 1  BY FS_Interval
  <2> QED  BY <2>1
<1>2. \A i, j \in K : <<i, j>> \in R <=> Before(i, j)
  <2> HIDE DEF Before
  <2> QED  OBVIOUS
<1>3. \A i \in K : rows[i].value \in Int  OBVIOUS
<1>4. /\ \A i \in K : <<i, i>> \notin R
      /\ \A i, j \in K : i # j => <<i, j>> \in R \/ <<j, i>> \in R
      /\ \A i, j, k \in K : <<i, j>> \in R /\ <<j, k>> \in R => <<i, k>> \in R
  <2> HIDE DEF R
  <2>1. \A i \in K : <<i, i>> \notin R  BY <1>2, <1>3
  <2>2. \A i, j \in K : i # j => <<i, j>> \in R \/ <<j, i>> \in R  BY <1>2, <1>3
  <2>3. \A i, j, k \in K : <<i, j>> \in R /\ <<j, k>> \in R => <<i, k>> \in R
    <3>1. SUFFICES ASSUME NEW i \in K, NEW j \in K, NEW k \in K, Before(i, j), Before(j, k)
                   PROVE Before(i, k)
      BY <1>2
    <3>2. i \in Int /\ j \in Int /\ k \in Int  OBVIOUS
    <3> QED  BY <1>3, <3>1, <3>2
  <2> QED  BY <2>1, <2>2, <2>3
<1> HIDE DEF K
<1>5. /\ order \in [1..n -> K]
      /\ \A i \in K : \E m \in 1..n : order[m] = i
      /\ \A l, m \in 1..n : l < m => <<order[l], order[m]>> \in R
  <2> HIDE DEF R
  <2>1. LET c == Cardinality(K) a == Arrange(K, R) IN
        /\ c \in Nat /\ a \in [1..c -> K]
        /\ \A i \in K : \E m \in 1..c : a[m] = i
        /\ \A l, m \in 1..c : l < m => <<a[l], a[m]>> \in R
    BY <1>1, <1>4, Arranged
  <2> QED  BY <1>1, <2>1
<1>6. Ranking(rows) = [m \in DOMAIN order |-> rows[order[m]]]
  BY DEF Ranking, K
<1> HIDE DEF order, R
<1>7. 1 \in 1..n /\ DOMAIN order = 1..n  BY <1>5
<1>8. Ranking(rows)[1] = rows[order[1]] /\ order[1] \in 1..n  BY <1>5, <1>6, <1>7 DEF K
<1>9. ASSUME NEW i \in 1..n PROVE rows[i].value <= rows[order[1]].value
  <2>1. PICK m \in 1..n : order[m] = i  BY <1>5 DEF K
  <2>2. CASE m = 1  BY <1>3, <1>8, <2>1, <2>2 DEF K
  <2>3. CASE m # 1
    <3>1. 1 < m  BY <2>3
    <3>2. <<order[1], i>> \in R  BY <1>5, <1>7, <2>1, <3>1
    <3>3. Before(order[1], i)  BY <1>2, <1>8, <3>2 DEF K
    <3>4. rows[i].value \in Int /\ rows[order[1]].value \in Int  BY <1>3, <1>8 DEF K
    <3> QED  BY <3>3, <3>4
  <2> QED  BY <2>2, <2>3
<1> QED  BY <1>8, <1>9

(* OutcomePanel's winner *)
LEMMA WinnerLeads ==
    ASSUME NEW n \in Nat, NEW R, NEW rows \in [1..n -> R], NEW you \in Int,
           \A i \in 1..n : rows[i].value \in Int
    PROVE  LET w == HighestOutcome(rows, you) IN
           /\ w.value \in Int /\ you <= w.value /\ \A i \in 1..n : rows[i].value <= w.value
           /\ w = [name |-> "You", value |-> you] \/ \E i \in 1..n : w = rows[i]
<1> DEFINE e == [name |-> "You", value |-> you]
           S == {rows[i] : i \in 1..n} \cup {e}
           s == Append(rows, e)
           w == Ranking(s)[1]
<1>1. DOMAIN s = 1..(n + 1) /\ s[n + 1] = e /\ \A i \in 1..n : s[i] = rows[i]
  <2>1. e \in S /\ \A i \in 1..n : rows[i] \in S  OBVIOUS
  <2> HIDE DEF S, e
  <2>2. rows \in Seq(S) /\ Len(rows) = n  BY <2>1
  <2> QED  BY <2>1, <2>2
<1>2. e.value = you  OBVIOUS
<1> HIDE DEF e
<1>3. \A i \in 1..(n + 1) : s[i].value \in Int
  <2>1. SUFFICES ASSUME NEW i \in 1..(n + 1) PROVE s[i].value \in Int  OBVIOUS
  <2>2. i = n + 1 \/ i \in 1..n  OBVIOUS
  <2> HIDE DEF s
  <2> QED  BY <1>1, <1>2, <2>2
<1> HIDE DEF s
<1>4. n + 1 \in Nat \ {0}  OBVIOUS
<1>5. PICK k \in 1..(n + 1) : w = s[k] /\ \A i \in 1..(n + 1) : s[i].value <= w.value
  BY <1>1, <1>3, <1>4, RankingLeads
<1>6. HighestOutcome(rows, you) = w  BY DEF HighestOutcome, s, e
<1> HIDE DEF w
<1>7. w.value \in Int  BY <1>3, <1>5
<1>8. n + 1 \in 1..(n + 1) /\ \A i \in 1..n : i \in 1..(n + 1)  OBVIOUS
<1>9. you <= w.value /\ \A i \in 1..n : rows[i].value <= w.value
  <2>1. s[n + 1].value <= w.value  BY <1>5, <1>8
  <2>2. \A i \in 1..n : s[i].value <= w.value  BY <1>5, <1>8
  <2> QED  BY <1>1, <1>2, <2>1, <2>2
<1>10. w = e \/ \E i \in 1..n : w = rows[i]
  <2>1. k = n + 1 \/ k \in 1..n  OBVIOUS
  <2> QED  BY <1>1, <1>5, <2>1
<1> QED  BY <1>6, <1>7, <1>9, <1>10 DEF e

(* OutcomePanel's tally *)
LEMMA TallyLeads ==
    ASSUME NEW m \in Nat, NEW values, DOMAIN values = 1..m, NEW b \in {"yes", "no", "abstain"}
    PROVE  Count(values, b) <= Count(values, Tally(values))
<1> DEFINE name == <<"yes", "no", "abstain">>
           rows == [i \in 1..3 |-> [name |-> name[i], value |-> Count(values, name[i])]]
           w == Ranking(rows)[1]
<1>1. \A t : Count(values, t) \in Nat
  <2>1. SUFFICES ASSUME NEW t PROVE Count(values, t) \in Nat  OBVIOUS
  <2> DEFINE S == {i \in 1..m : ballotBucket(values[i]) = t}
  <2>2. S \in SUBSET (1..m)  OBVIOUS
  <2>3. Count(values, t) = Cardinality(S)  BY DEF Count
  <2>4. IsFiniteSet(1..m)  BY FS_Interval
  <2> HIDE DEF S
  <2>5. IsFiniteSet(S)  BY <2>2, <2>4, FS_Subset
  <2> QED  BY <2>3, <2>5, FS_CardinalityType
<1>2. Tally(values) = w.name  BY DEF Tally
<1>3. name[1] = "yes" /\ name[2] = "no" /\ name[3] = "abstain"  OBVIOUS
<1> HIDE DEF name
<1>4. DOMAIN rows = 1..3
      /\ \A i \in 1..3 : rows[i].name = name[i] /\ rows[i].value = Count(values, name[i])
  OBVIOUS
<1> HIDE DEF rows
<1>5. PICK k \in 1..3 : w = rows[k] /\ \A i \in 1..3 : rows[i].value <= w.value
  <2>1. 3 \in Nat \ {0} /\ \A i \in 1..3 : rows[i].value \in Int  BY <1>1, <1>4
  <2> QED  BY <1>4, <2>1, RankingLeads
<1> HIDE DEF w
<1>6. w.value = Count(values, w.name)  BY <1>4, <1>5
<1>7. PICK i \in 1..3 : name[i] = b
  <2>1. 1 \in 1..3 /\ 2 \in 1..3 /\ 3 \in 1..3  OBVIOUS
  <2> QED  BY <1>3, <2>1
<1>8. Count(values, b) <= w.value  BY <1>4, <1>5, <1>7
<1> QED  BY <1>2, <1>6, <1>8

LEMMA RevealLeads ==
    ASSUME x \in Reveals
    PROVE  LET w == HighestOutcome(Rows, x.you)
               all == Append([i \in DOMAIN Rows |-> Rows[i].value], x.you)
               everyone == /\ DOMAIN x.peers # {}
                           /\ \A b \in DOMAIN x.peers : x.peers[b].state = "revealed"
               cohort == CohortRows(Others, Members, {0}, 0, TRUE)
           IN /\ \A i \in DOMAIN all : all[i] <= w.value
              /\ \A b \in {"yes", "no", "abstain"} : Count(all, b) <= Count(all, Tally(all))
              /\ Opened(cohort) = Rows
              /\ sealedTotal(Others, Members, {0}, 0, TRUE, x.committed) + Waiting(cohort)
                   = Len(cohort) + (IF x.committed THEN 1 ELSE 0)
              /\ everyone =>
                    LET offers == {toDemoEscrowAmount(v) :
                                   v \in {x.you} \cup {x.peers[b].value : b \in DOMAIN x.peers}}
                    IN /\ toDemoEscrowAmount(w.value) = Max(offers)
                       /\ \/ w.name = "You" /\ w.value = x.you
                          \/ w.name \in DOMAIN x.peers /\ x.peers[w.name].value = w.value
<1> DEFINE P == DOMAIN x.peers
           n == Cardinality(DOMAIN Rows)
           w == HighestOutcome(Rows, x.you)
           vs == [i \in DOMAIN Rows |-> Rows[i].value]
           all == Append(vs, x.you)
           row(b) == [name |-> b, value |-> x.peers[b].value]
<1>1. /\ x.you \in Int /\ \A b \in P : x.peers[b].value \in Int  BY PeersOfReveal
<1>2. Others = << >> <=> P = {}  BY NobodyElse
<1>3. /\ n \in Nat /\ DOMAIN Rows = 1..n /\ Rows = [i \in 1..n |-> Rows[i]]
      /\ \A i \in 1..n : Rows[i].value \in Int
      /\ Opened(TheCohort) = Rows
      /\ sealedTotal(Others, Members, {0}, 0, TRUE, x.committed) + Waiting(TheCohort)
           = Len(TheCohort) + (IF x.committed THEN 1 ELSE 0)
  <2>1. CASE Others = << >>
    <3>1. Members[1].value \in Int  BY SMT DEF Members
    <3>2. /\ Rows = [i \in 1..1 |-> [name |-> Members[1].name, value |-> Members[1].value]]
          /\ Opened(TheCohort) = Rows
          /\ sealedTotal(Others, Members, {0}, 0, TRUE, x.committed) + Waiting(TheCohort)
               = Len(TheCohort) + (IF x.committed THEN 1 ELSE 0)
      BY <2>1, RowsWithoutPeers
    <3>3. DOMAIN Rows = 1..1 /\ Rows[1].value = Members[1].value  BY <3>2
    <3>4. n = 1
      <4>1. 1..1 = {1}  OBVIOUS
      <4>2. Cardinality({1}) = 1  BY FS_Singleton
      <4> QED  BY <3>3, <4>1, <4>2
    <3> HIDE DEF n
    <3>5. \A i \in 1..1 : Rows[i].value \in Int  BY <3>1, <3>3
    <3>6. Rows = [i \in 1..1 |-> Rows[i]]  BY <3>2
    <3> QED  BY <3>2, <3>3, <3>4, <3>5, <3>6
  <2>2. CASE Others # << >>
    <3>1. /\ n \in Nat /\ DOMAIN Rows = 1..n /\ Rows = [i \in 1..n |-> Rows[i]]
          /\ \A i \in 1..n : \E b \in P : Rows[i] = row(b)
          /\ Opened(TheCohort) = Rows
      BY <2>2, RowsOfPeers
    <3>2. \A b \in P : row(b).value \in Int  BY <1>1
    <3> HIDE DEF n, row, P
    <3>3. \A i \in 1..n : Rows[i].value \in Int  BY <3>1, <3>2
    <3> QED  BY <2>2, <3>1, <3>3, CounterOfPeers
  <2> QED  BY <2>1, <2>2
<1>4. P # {} => /\ \A i \in 1..n : \E b \in P : Rows[i] = row(b)
                /\ \A b \in P : x.peers[b].state = "revealed" => \E i \in 1..n : Rows[i] = row(b)
  <2> SUFFICES ASSUME P # {} PROVE /\ \A i \in 1..n : \E b \in P : Rows[i] = row(b)
                                   /\ \A b \in P : x.peers[b].state = "revealed" =>
                                         \E i \in 1..n : Rows[i] = row(b)
    OBVIOUS
  <2> QED  BY <1>2, RowsOfPeers
<1> HIDE DEF n
<1>5. /\ w.value \in Int /\ x.you <= w.value /\ \A i \in 1..n : Rows[i].value <= w.value
      /\ w = [name |-> "You", value |-> x.you] \/ \E i \in 1..n : w = Rows[i]
  <2> DEFINE R == {Rows[i] : i \in 1..n}
  <2>1. Rows \in [1..n -> R]  BY <1>3
  <2>2. n \in Nat /\ x.you \in Int /\ \A i \in 1..n : Rows[i].value \in Int  BY <1>1, <1>3
  <2> HIDE DEF R
  <2> QED  BY <2>1, <2>2, WinnerLeads
<1> HIDE DEF w
<1>6. DOMAIN all = 1..(n + 1) /\ all[n + 1] = x.you /\ \A i \in 1..n : all[i] = Rows[i].value
  <2>1. vs = [i \in 1..n |-> Rows[i].value]  BY <1>3
  <2>2. vs \in Seq(Int) /\ Len(vs) = n /\ \A i \in 1..n : vs[i] = Rows[i].value  BY <1>3, <2>1
  <2> HIDE DEF vs
  <2> QED  BY <1>1, <1>3, <2>2
<1> HIDE DEF all
<1>7. \A i \in DOMAIN all : all[i] <= w.value
  <2>1. SUFFICES ASSUME NEW i \in 1..(n + 1) PROVE all[i] <= w.value  BY <1>6
  <2>2. i = n + 1 \/ i \in 1..n  BY <1>3
  <2> QED  BY <1>5, <1>6, <2>2
<1>8. \A b \in {"yes", "no", "abstain"} : Count(all, b) <= Count(all, Tally(all))
  <2>1. n + 1 \in Nat  BY <1>3
  <2> QED  BY <1>6, <2>1, TallyLeads
<1>9. ASSUME P # {}, \A b \in P : x.peers[b].state = "revealed"
      PROVE  LET offers == {toDemoEscrowAmount(v) : v \in {x.you} \cup {x.peers[b].value : b \in P}}
             IN /\ toDemoEscrowAmount(w.value) = Max(offers)
                /\ \/ w.name = "You" /\ w.value = x.you
                   \/ w.name \in P /\ x.peers[w.name].value = w.value
  <2> DEFINE V == {x.you} \cup {x.peers[b].value : b \in P}
             offers == {toDemoEscrowAmount(v) : v \in V}
             top == toDemoEscrowAmount(w.value)
  <2>1. /\ \A i \in 1..n : \E b \in P : Rows[i] = row(b)
        /\ \A b \in P : \E i \in 1..n : Rows[i] = row(b)
    BY <1>4, <1>9
  <2>2. \/ w.name = "You" /\ w.value = x.you
        \/ w.name \in P /\ x.peers[w.name].value = w.value
    <3>1. CASE w = [name |-> "You", value |-> x.you]  BY <3>1
    <3>2. ASSUME NEW i \in 1..n, w = Rows[i] PROVE w.name \in P /\ x.peers[w.name].value = w.value
      <4>1. PICK b \in P : Rows[i] = row(b)  BY <2>1
      <4> QED  BY <3>2, <4>1
    <3> QED  BY <1>5, <3>1, <3>2
  <2>3. V \subseteq Int  BY <1>1
  <2>4. w.value \in V  BY <2>2
  <2>5. \A v \in V : v <= w.value
    <3>1. ASSUME NEW b \in P PROVE x.peers[b].value <= w.value
      <4>1. PICK i \in 1..n : Rows[i] = row(b)  BY <2>1
      <4>2. Rows[i].value = x.peers[b].value  BY <4>1
      <4> QED  BY <1>5, <4>2
    <3> QED  BY <1>5, <3>1
  <2> HIDE DEF V
  <2>6. \A v \in V : toDemoEscrowAmount(v) \in Int /\ toDemoEscrowAmount(v) <= top
    BY <1>5, <2>3, <2>5 DEF toDemoEscrowAmount
  <2>7. top \in offers  BY <2>4
  <2>8. \A c \in offers : c \in Int /\ c <= top  BY <2>6
  <2> HIDE DEF offers, top
  <2>9. Max(offers) = top
    <3>1. top \in offers /\ \A c \in offers : top >= c  BY <2>7, <2>8
    <3>2. \A t \in offers : (\A c \in offers : t >= c) => t = top  BY <2>7, <2>8
    <3> QED  BY <3>1, <3>2 DEF Max
  <2> QED  BY <2>2, <2>9 DEF offers, top, V
<1> QED  BY <1>3, <1>7, <1>8, <1>9 DEF w, all, TheCohort

LEMMA MomentsOfDemo ==
    ASSUME x \in Demo
    PROVE  /\ x.created \in {{}, {0}} /\ x.revealed \in BOOLEAN /\ x.committed \in BOOLEAN
           /\ x.now \in Moments /\ x.now \in Int /\ \A later \in Moments : later \in Int
<1>1. Moments \subseteq Int  BY LibraryAssumption
<1>2. /\ x.created \in {{}, {0}} /\ x.revealed \in BOOLEAN /\ x.committed \in BOOLEAN
      /\ x.now \in Moments
  BY SMT DEF Demo
<1> QED  BY <1>1, <1>2

LEMMA FourIsFinite == IsFiniteSet(1..4)
<1>1. PICK m \in Int : m = 4  OBVIOUS
<1>2. IsFiniteSet(1..m)  BY FS_Interval
<1> QED  BY <1>1, <1>2

(* Four members, each of which seals within twelve seconds. *)
Prompt(c) == DOMAIN c = 1..4 /\ \A i \in 1..4 : c[i].delayMs \in Int /\ c[i].delayMs <= 12000

(* The simulated members whose delays are twelve seconds at most open only *)
(* with the round, no counter goes back as time passes, and all have       *)
(* sealed before the shortest commit window is over.                       *)
LEMMA CohortOpensInTime ==
    ASSUME x \in Demo, NEW c, Prompt(c)
    PROVE  LET rows(now) == CohortRows(<< >>, c, x.created, now, x.revealed)
               Counter(now) == sealedTotal(<< >>, c, x.created, now, x.revealed, x.committed)
           IN /\ Opened(rows(x.now)) = (IF x.revealed THEN OutcomePeers(<< >>, c) ELSE << >>)
              /\ \A later \in Moments : later >= x.now => Counter(x.now) <= Counter(later)
              /\ x.created # {} /\ x.now >= 27000 =>
                    \A i \in 1..4 : rows(x.now)[i].state \in {"sealed", "revealed"}
<1> DEFINE State(i, now) == peerStateAt(c[i], x.created, now, x.revealed)
           rows(now) == CohortRows(<< >>, c, x.created, now, x.revealed)
           Counter(now) == sealedTotal(<< >>, c, x.created, now, x.revealed, x.committed)
<1>1. /\ x.created \in {{}, {0}} /\ x.revealed \in BOOLEAN /\ x.committed \in BOOLEAN
      /\ x.now \in Moments /\ x.now \in Int /\ \A later \in Moments : later \in Int
  BY MomentsOfDemo
<1>0. DOMAIN c = 1..4 /\ \A i \in 1..4 : c[i].delayMs \in Int /\ c[i].delayMs <= 12000
  BY DEF Prompt
<1>2. ASSUME NEW i \in 1..4, NEW now \in Int
      PROVE  /\ State(i, now) = "revealed" <=> x.revealed
             /\ State(i, now) = "pending" <=>
                  ~x.revealed /\ \A t \in x.created : now - t < c[i].delayMs - 600
             /\ x.created # {} /\ now >= 27000 => State(i, now) \in {"sealed", "revealed"}
  <2>1. c[i].delayMs \in Int /\ c[i].delayMs <= 12000 /\ \A t \in x.created : t = 0
    BY <1>0, <1>1, SMT
  <2> QED  BY <1>1, <2>1, SMT DEF peerStateAt
<1>3. ASSUME NEW now
      PROVE  /\ DOMAIN rows(now) = 1..4
             /\ \A i \in 1..4 : /\ rows(now)[i].name = c[i].name /\ rows(now)[i].value = c[i].value
                                /\ rows(now)[i].state = State(i, now)
  <2>1. rows(now) = [i \in 1..4 |->
                       [name |-> c[i].name, value |-> c[i].value, state |-> State(i, now)]]
    BY <1>0 DEF CohortRows
  <2> HIDE DEF State, rows
  <2> QED  BY <2>1
<1> DEFINE out == [i \in 1..4 |-> [name |-> c[i].name, value |-> c[i].value]]
<1>4. OutcomePeers(<< >>, c) = out  BY <1>0 DEF OutcomePeers
<1>5. Opened(rows(x.now)) = IF x.revealed THEN out ELSE << >>
  <2> DEFINE r == rows(x.now)
             K == {i \in DOMAIN r : r[i].state = "revealed"}
             at == Arrange(K, Up(K))
             f == [m \in DOMAIN at |-> r[at[m]]]
  <2>1. DOMAIN r = 1..4 /\ \A i \in 1..4 : r[i].name = c[i].name /\ r[i].value = c[i].value
                                            /\ r[i].state = State(i, x.now)
    <3> HIDE DEF State, rows
    <3> QED  BY <1>3
  <2> HIDE DEF r, State
  <2>2. Filter(r, LAMBDA t : t.state = "revealed") = f  BY DEF Filter, Up
  <2>3. Opened(r) = [i \in DOMAIN f |-> [name |-> f[i].name, value |-> f[i].value]]
    <3> HIDE DEF f
    <3> QED  BY <2>2 DEF Opened
  <2>4. CASE x.revealed
    <3>1. K = 1..4  BY <1>1, <1>2, <2>1, <2>4
    <3>2. at = [i \in 1..4 |-> i]
      <4>1. PICK n \in Nat : n = 4  OBVIOUS
      <4>2. Arrange(1..n, Up(1..n)) = [i \in 1..n |-> i]  BY AllIndices
      <4> HIDE DEF K
      <4> QED  BY <3>1, <4>1, <4>2
    <3> HIDE DEF at
    <3>3. DOMAIN f = 1..4 /\ \A i \in 1..4 : f[i] = r[i]  BY <3>2
    <3> HIDE DEF f
    <3>4. Opened(r) = out  BY <2>1, <2>3, <3>3
    <3> HIDE DEF out, rows
    <3> QED  BY <2>4, <3>4 DEF r
  <2>5. CASE ~x.revealed
    <3>1. K = {}  BY <1>1, <1>2, <2>1, <2>5
    <3>2. at = << >>
      <4> HIDE DEF K
      <4> QED  BY <3>1, NoIndices
    <3> HIDE DEF at
    <3>3. DOMAIN f = {}  BY <3>2
    <3> HIDE DEF f
    <3>4. Opened(r) = << >>  BY <2>3, <3>3
    <3> QED  BY <2>5, <3>4 DEF r
  <2> QED  BY <1>1, <2>4, <2>5
<1>6. ASSUME NEW later \in Moments, later >= x.now PROVE Counter(x.now) <= Counter(later)
  <2> DEFINE S(now) == {i \in 1..4 : State(i, now) # "pending"}
             you == IF x.committed THEN 1 ELSE 0
  <2>1. Counter(x.now) = you + Cardinality(S(x.now)) /\ Counter(later) = you + Cardinality(S(later))
    BY <1>0 DEF sealedTotal
  <2>2. \A i \in S(x.now) : i \in S(later)
    <3>1. SUFFICES ASSUME NEW i \in 1..4, State(i, x.now) # "pending"
                   PROVE State(i, later) # "pending"
      OBVIOUS
    <3>2. /\ c[i].delayMs \in Int /\ \A t \in x.created : t = 0
          /\ later \in Int /\ x.now \in Int /\ later >= x.now
      BY <1>0, <1>1, <1>6, SMT
    <3> HIDE DEF State
    <3>3. CASE x.revealed  BY <1>2, <3>2, <3>3
    <3>4. CASE ~x.revealed
      <4>1. PICK t \in x.created : ~(x.now - t < c[i].delayMs - 600)  BY <1>2, <3>1, <3>2, <3>4
      <4>2. ~(later - t < c[i].delayMs - 600)  BY <3>2, <4>1, SMT
      <4> QED  BY <1>2, <3>2, <4>1, <4>2
    <3> QED  BY <1>1, <3>3, <3>4
  <2>3. IsFiniteSet(1..4)  BY FourIsFinite
  <2>4. S(x.now) \in SUBSET (1..4) /\ S(later) \in SUBSET (1..4)  OBVIOUS
  <2>5. S(x.now) \in SUBSET S(later)
    <3> HIDE DEF S
    <3> QED  BY <2>2
  <2>6. you \in Int  OBVIOUS
  <2> HIDE DEF S, Counter, you
  <2>7. IsFiniteSet(S(later)) /\ IsFiniteSet(S(x.now))  BY <2>3, <2>4, FS_Subset
  <2>8. /\ Cardinality(S(later)) \in Nat /\ Cardinality(S(x.now)) \in Nat
        /\ Cardinality(S(x.now)) <= Cardinality(S(later))
    BY <2>5, <2>7, FS_Subset, FS_CardinalityType
  <2> QED  BY <2>1, <2>6, <2>8
<1>7. ASSUME x.created # {}, x.now >= 27000, NEW i \in 1..4
      PROVE rows(x.now)[i].state \in {"sealed", "revealed"}
  <2>1. rows(x.now)[i].state = State(i, x.now)
    <3> HIDE DEF State, rows
    <3> QED  BY <1>3
  <2> HIDE DEF State, rows
  <2> QED  BY <1>1, <1>2, <1>7, <2>1
<1> HIDE DEF State, rows, Counter, out
<1> QED  BY <1>4, <1>5, <1>6, <1>7 DEF rows, Counter

(* What the form of a case takes, and how its ballots are labelled. *)
FormFits(demo) ==
    /\ \A e \in {demo.entry} \cup Range(demo.picks) :
          e \in demo.min..demo.max /\ (e - demo.min) % demo.step = 0
    /\ demo.outcome = "tally" =>
          \A e \in Range(demo.picks) : ballotBucket(e * 10000) = formatBallot(e \div 10)

LEMMA CaseFitsIf ==
    ASSUME x \in Demo, NEW demo, Prompt(demo.cohort), FormFits(demo)
    PROVE  CaseFits(demo)
<1> DEFINE c == demo.cohort
           rows(now) == CohortRows(<< >>, c, x.created, now, x.revealed)
           Counter(now) == sealedTotal(<< >>, c, x.created, now, x.revealed, x.committed)
<1>1. /\ Opened(rows(x.now)) = (IF x.revealed THEN OutcomePeers(<< >>, c) ELSE << >>)
      /\ \A later \in Moments : later >= x.now => Counter(x.now) <= Counter(later)
      /\ x.created # {} /\ x.now >= 27000 =>
            \A i \in 1..4 : rows(x.now)[i].state \in {"sealed", "revealed"}
  BY CohortOpensInTime
<1> QED  BY <1>1 DEF CaseFits, FormFits

(* What the buttons hold. *)
LEMMA Picked == \A s : Range(s) = {s[i] : i \in DOMAIN s}
BY DEF Range

(* The four cases, by their numbers.  *)
LEMMA CasesFit == ASSUME x \in Demo PROVE CaseFits(USE_CASES[x.case])
<1> DEFINE demo == USE_CASES[x.case]
<1>1. x.case \in {"grants", "bounty", "allocation", "dao"}
  <2>1. x.case \in DOMAIN USE_CASES  BY DEF Demo
  <2>2. DOMAIN USE_CASES = {"grants", "bounty", "allocation", "dao"}  BY SMT DEF USE_CASES
  <2> QED  BY <2>1, <2>2
<1>2. CASE x.case = "grants"
  <2>1. demo.cohort = Simulated(<<82, 91, 76, 88>>, <<1500, 4200, 7800, 11200>>)
    BY <1>2, SMT DEF USE_CASES
  <2>2. FormFits(demo)
    <3>1. /\ demo.min = 0 /\ demo.max = 100 /\ demo.step = 5 /\ demo.entry = 80
          /\ demo.picks = << >> /\ demo.outcome = "leaderboard"
      BY <1>2, SMT DEF USE_CASES
    <3> HIDE DEF demo
    <3>2. Range(demo.picks) = {}  BY <3>1, Picked
    <3> QED  BY <3>1, <3>2, SMT DEF FormFits
  <2> HIDE DEF demo
  <2>3. Prompt(demo.cohort)  BY <2>1, SMT DEF Prompt, Simulated
  <2> QED  BY <2>2, <2>3, CaseFitsIf DEF demo
<1>3. CASE x.case = "bounty"
  <2>1. demo.cohort = Simulated(<<4800, 5200, 4100, 6000>>, <<1300, 4400, 7900, 11800>>)
    BY <1>3, SMT DEF USE_CASES
  <2>2. FormFits(demo)
    <3>1. /\ demo.min = 500 /\ demo.max = 50000 /\ demo.step = 500 /\ demo.entry = 5000
          /\ demo.picks = <<1000, 2500, 5000, 10000>> /\ demo.outcome = "highest"
      BY <1>3, SMT DEF USE_CASES
    <3> HIDE DEF demo
    <3>2. Range(demo.picks) = {1000, 2500, 5000, 10000}  BY <3>1, Picked, SMT
    <3> QED  BY <3>1, <3>2, SMT DEF FormFits
  <2> HIDE DEF demo
  <2>3. Prompt(demo.cohort)  BY <2>1, SMT DEF Prompt, Simulated
  <2> QED  BY <2>2, <2>3, CaseFitsIf DEF demo
<1>4. CASE x.case = "allocation"
  <2>1. demo.cohort = Simulated(<<52000, 66500, 44000, 81000>>, <<1400, 4600, 8200, 12000>>)
    BY <1>4, SMT DEF USE_CASES
  <2>2. FormFits(demo)
    <3>1. /\ demo.min = 1000 /\ demo.max = 250000 /\ demo.step = 1000 /\ demo.entry = 50000
          /\ demo.picks = <<5000, 15000, 50000, 120000>> /\ demo.outcome = "distribution"
      BY <1>4, SMT DEF USE_CASES
    <3> HIDE DEF demo
    <3>2. Range(demo.picks) = {5000, 15000, 50000, 120000}  BY <3>1, Picked, SMT
    <3>3. \A e \in {50000, 5000, 15000, 120000} :
             e \in Int /\ 1000 <= e /\ e <= 250000 /\ (e - 1000) % 1000 = 0
      BY SMT
    <3> DEFINE E == {50000, 5000, 15000, 120000}
    <3>4. {demo.entry} \cup Range(demo.picks) = E  BY <3>1, <3>2
    <3>5. \A e \in E : (e - demo.min) % demo.step = 0  BY <3>1, <3>3, SMT
    <3>6. \A e \in E : e \in demo.min..demo.max
      <4>1. /\ demo.min \in Int /\ demo.max \in Int
            /\ \A e \in E : e \in Int /\ demo.min <= e /\ e <= demo.max
        BY <3>1, <3>3, SMT
      <4> HIDE DEF E
      <4> QED  BY <4>1
    <3>7. demo.outcome # "tally"  BY <3>1, SMT
    <3> HIDE DEF E
    <3> QED  BY <3>4, <3>5, <3>6, <3>7 DEF FormFits
  <2> HIDE DEF demo
  <2>3. Prompt(demo.cohort)  BY <2>1, SMT DEF Prompt, Simulated
  <2> QED  BY <2>2, <2>3, CaseFitsIf DEF demo
<1>5. CASE x.case = "dao"
  <2>1. demo.cohort = Simulated(<<1000, 1000, 0, 500>>, <<1200, 3800, 7400, 11600>>)
    BY <1>5, SMT DEF USE_CASES
  <2>2. FormFits(demo)
    <3>1. /\ demo.min = 0 /\ demo.max = 1000 /\ demo.step = 500 /\ demo.entry = 1000
          /\ demo.picks = <<1000, 500, 0>> /\ demo.outcome = "tally"
      BY <1>5, SMT DEF USE_CASES
    <3> HIDE DEF demo
    <3>2. Range(demo.picks) = {1000, 500, 0}  BY <3>1, Picked, SMT
    <3> QED  BY <3>1, <3>2, SMT DEF FormFits, ballotBucket, formatBallot
  <2> HIDE DEF demo
  <2>3. Prompt(demo.cohort)  BY <2>1, SMT DEF Prompt, Simulated
  <2> QED  BY <2>2, <2>3, CaseFitsIf DEF demo
<1> QED  BY <1>1, <1>2, <1>3, <1>4, <1>5

LEMMA OutcomeLeadsNow == ASSUME AnyInput PROVE AnnouncedOutcomeLeads
<1>1. ASSUME Given("reveal") PROVE x \in Reveals
  <2>1. x.kind = "reveal"  BY <1>1 DEF Given
  <2>2. x \notin Bid /\ x \notin Opening /\ x \notin Point /\ x \notin Variant /\ x \notin Click
        /\ x \notin AppraisalRequest /\ x \notin Lab /\ x \notin Demo
    BY <2>1 DEF Bid, Opening, Point, Variant, Click, AppraisalRequest, Lab, Demo
  <2> QED  BY <2>2 DEF AnyInput
<1>2. ASSUME Given("cohort") PROVE x \in Demo
  <2>1. x.kind = "cohort"  BY <1>2 DEF Given
  <2>2. x \notin Bid /\ x \notin Opening /\ x \notin Point /\ x \notin Variant /\ x \notin Click
        /\ x \notin AppraisalRequest /\ x \notin Lab /\ x \notin Reveals
    BY <2>1 DEF Bid, Opening, Point, Variant, Click, AppraisalRequest, Lab, Reveals
  <2> QED  BY <2>2 DEF AnyInput
<1>3. Given("cohort") => CaseFits(USE_CASES[x.case])  BY <1>2, CasesFit
<1>4. ASSUME x \in Reveals
      PROVE  LET w == HighestOutcome(Rows, x.you)
                 all == Append([i \in DOMAIN Rows |-> Rows[i].value], x.you)
                 everyone == /\ DOMAIN x.peers # {}
                             /\ \A b \in DOMAIN x.peers : x.peers[b].state = "revealed"
                 cohort == CohortRows(Others, Members, {0}, 0, TRUE)
             IN /\ \A i \in DOMAIN all : all[i] <= w.value
                /\ \A b \in {"yes", "no", "abstain"} : Count(all, b) <= Count(all, Tally(all))
                /\ Opened(cohort) = Rows
                /\ sealedTotal(Others, Members, {0}, 0, TRUE, x.committed) + Waiting(cohort)
                     = Len(cohort) + (IF x.committed THEN 1 ELSE 0)
                /\ everyone =>
                      LET offers == {toDemoEscrowAmount(v) :
                                     v \in {x.you} \cup {x.peers[b].value : b \in DOMAIN x.peers}}
                      IN /\ toDemoEscrowAmount(w.value) = Max(offers)
                         /\ \/ w.name = "You" /\ w.value = x.you
                            \/ w.name \in DOMAIN x.peers /\ x.peers[w.name].value = w.value
  BY <1>4, RevealLeads
<1> QED  BY <1>1, <1>3, <1>4 DEF AnnouncedOutcomeLeads

(* OutcomePanel.tsx, CohortPanel.tsx, useCases.ts: AnnouncedOutcomeLeads   *)
(* for every entry, every ballot and every moment, and the four cases of   *)
(* the app: the rows shown opened are those the outcome is made of, no bid *)
(* among them is above the winner announced and no ballot has more votes   *)
(* than the one announced, and once all peers are revealed the winner's    *)
(* bid is the highest of all, as the contract clears it; a case's form     *)
(* takes its own buttons and its cohort has sealed when commits close.     *)
THEOREM OutcomesLead == Inputs => []AnnouncedOutcomeLeads
<1>1. AnyInput /\ [UNCHANGED x]_x => AnyInput'  BY DEF AnyInput
<1>2. AnyInput => AnnouncedOutcomeLeads  BY OutcomeLeadsNow
<1> QED  BY <1>1, <1>2, PTL DEF Inputs

=============================================================================
