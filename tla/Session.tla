------------------------------ MODULE Session ------------------------------
(***************************************************************************)
(* A browser page of the web app: useRoundSession.ts with the controls     *)
(* DemoPage.tsx offers, over several rounds of the contract.               *)
(*                                                                         *)
(* A handler is an activation in a slot: it captures the case, the round,  *)
(* the wallet and the stored ciphertext when it is clicked and goes on     *)
(* with those whatever the page shows later; task[s].at is the call it     *)
(* awaits.  Several run at once: Refresh and Reconnect are always live,    *)
(* and a handler leaves "working" before its own refresh.                  *)
(*                                                                         *)
(* chain[r] is the contract as a page can tell it apart: "Over" stands for *)
(* Cleared, Settled and Voided.  `phase' is where the clock is between the *)
(* deadlines; a commit may still land in "gap", on a ledger that trails.   *)
(***************************************************************************)
EXTENDS Integers, FiniteSets

CONSTANTS
    Case,       \* UseCaseId
    Wallet, NoOne,
    Peer,       \* bound: the wallets that bid from elsewhere
    Entry, Junk, NoEntry,   \* sealed entries of the page; one that does not open
    MaxRound,   \* bound on rounds ever created
    Slot,       \* bound on handlers running at once
    MaxClicks   \* bound on handlers ever started

RoundId == 1..MaxRound

ASSUME SessionAssumption ==
    /\ NoOne \notin Wallet /\ Peer \subseteq Wallet
    /\ Junk \notin Entry /\ NoEntry \notin Entry \cup {Junk}
    /\ MaxRound \in Nat /\ MaxClicks \in Nat
    /\ IsFiniteSet(Wallet)

VARIABLES
    chain,      \* [RoundId -> the contract's state of the round]
    address, active, status,
    session,    \* [Case -> CaseSession]
    task,       \* [Slot -> a running handler or Idle]
    toast,      \* the last success or error announced
    asked,      \* history: rounds created or joined for each case
    clicks

pageVars == <<address, active, status, session, toast, asked>>
vars == <<chain, address, active, status, session, task, toast, asked, clicks>>

Stages == <<"Absent", "Open", "Revealing", "Over">>
Phases == <<"commit", "gap", "reveal", "late">>
Rank(seq, x) == CHOOSE i \in DOMAIN seq : seq[i] = x

NoLive == [id |-> 0, status |-> "Absent", bidders |-> {}, revealed |-> {}]
EmptySession == [round |-> 0, sealed |-> NoEntry, live |-> NoLive]
NoToast == [kind |-> "none", op |-> "none", round |-> 0, by |-> NoOne, clean |-> TRUE]
Handler(op, at, case, round, by, copy) ==
    [op |-> op, at |-> at, case |-> case, round |-> round, by |-> by,
     entry |-> NoEntry, copy |-> copy, ask |-> {}, todo |-> {}, who |-> NoOne,
     revealed |-> 0, clean |-> TRUE, snap |-> NoLive]
Idle == Handler("none", "none", "none", 0, NoOne, NoEntry)

Index(r) == {w \in Wallet : chain[r].entry[w] # NoEntry}        \* get_bidders

Init ==
    /\ chain = [r \in RoundId |-> [status |-> "Absent", phase |-> "commit",
                   entry |-> [w \in Wallet |-> NoEntry], revealed |-> {}, seals |-> {}]]
    /\ address = NoOne /\ active \in Case /\ status = "idle"
    /\ session = [c \in Case |-> EmptySession]
    /\ task = [s \in Slot |-> Idle]
    /\ toast = NoToast /\ asked = [c \in Case |-> {}] /\ clicks = 0

----------------------------------------------------------------------------
(* The contract's operations; each is refused outside its guard. *)

Create(r) ==
    /\ chain[r].status = "Absent" /\ \A q \in 1..(r - 1) : chain[q].status # "Absent"
    /\ chain' = [chain EXCEPT ![r].status = "Open"]

Commit(r, w, e) ==
    /\ chain[r].status = "Open" /\ chain[r].phase \in {"commit", "gap"}
    /\ chain' = [chain EXCEPT ![r].entry[w] = e, ![r].seals = @ \cup {w}]

OpenReveal(r) ==
    /\ chain[r].status = "Open" /\ chain[r].phase \in {"reveal", "late"}
    /\ chain' = [chain EXCEPT ![r].status = "Revealing"]

(* the preimage must hash to the bidder's own commitment *)
Reveal(r, w, e) ==
    /\ chain[r].status = "Revealing" /\ chain[r].phase = "reveal"
    /\ w \notin chain[r].revealed /\ chain[r].entry[w] = e /\ e \in Entry
    /\ chain' = [chain EXCEPT ![r].revealed = @ \cup {w}]

(* Other pages, agents and keepers; storage; time. *)
Others ==
    /\ \E r \in RoundId :
          \/ \E w \in Peer, e \in Entry \cup {Junk} : w \notin Index(r) /\ Commit(r, w, e)
          \/ OpenReveal(r)
          \/ \E w \in Index(r) : w \in chain[r].seals /\ Reveal(r, w, chain[r].entry[w])
          \/ /\ chain[r].status \in {"Open", "Revealing"} /\ chain[r].phase = "late"
             /\ chain' = [chain EXCEPT ![r].status = "Over"]
          \/ /\ chain[r].phase \in {"reveal", "late"}
             /\ \E w \in chain[r].seals : chain' = [chain EXCEPT ![r].seals = @ \ {w}]
          \/ /\ chain[r].status # "Absent" /\ chain[r].phase # "late"
             /\ chain' = [chain EXCEPT ![r].phase = Phases[Rank(Phases, @) + 1]]
    /\ UNCHANGED <<task, clicks>> /\ UNCHANGED pageVars

----------------------------------------------------------------------------
(* What the page shows of the active case *)

live == session[active].live
roundId == session[active].round

commitClosed == live # NoLive /\ chain[live.id].phase # "commit"
committed == address \in live.bidders \/ (session[active].sealed # NoEntry /\ live = NoLive)
revealedCount == Cardinality(live.revealed)
(* without a snapshot the countdown runs for the recorded demo's round,    *)
(* published long ago                                                      *)
drandGate == live = NoLive \/ chain[live.id].phase \in {"reveal", "late"}

(* PhaseGuide: the one step the page offers next *)
PhaseGuide ==
    CASE address = NoOne                     -> "connect"
      [] address # NoOne /\ roundId = 0      -> "create"
      [] roundId # 0 /\ ~committed /\ ~commitClosed -> "commit"
      [] roundId # 0 /\ ~committed /\ commitClosed  -> "missed"
      [] committed /\ revealedCount > 0      -> "complete"
      [] committed /\ revealedCount = 0 /\ ~drandGate -> "wait"
      [] OTHER                               -> "reveal"

realPeers == live.bidders \ {address}

----------------------------------------------------------------------------
(* Starting a handler *)

Run(s, t) ==
    /\ task[s] = Idle /\ clicks < MaxClicks
    /\ clicks' = clicks + 1
    /\ task' = [task EXCEPT ![s] = t]
    /\ UNCHANGED chain

Captured(op, at) ==
    Handler(op, at, active, roundId, address, session[active].sealed)

(* the button of the phase, dead while "working" *)
Offered(phases) == PhaseGuide \in phases /\ status # "working" /\ address # NoOne

Work == status' = "working" /\ UNCHANGED <<address, active, session, toast, asked>>

connect(s) == Run(s, Captured("connect", "access")) /\ Work

createRound(s) == Offered({"create", "missed"}) /\ Run(s, Captured("create", "create")) /\ Work

joinRound(s) ==
    /\ Offered({"create"})
    /\ \E r \in RoundId : Run(s, [Captured("join", "join") EXCEPT !.round = r])
    /\ Work

commitEntry(s) ==
    /\ Offered({"commit"})
    /\ \E e \in Entry : Run(s, [Captured("commit", "commit") EXCEPT !.entry = e])
    /\ Work

openAndReveal(s) == Offered({"reveal"}) /\ Run(s, Captured("reveal", "open")) /\ Work

refresh(s) ==
    /\ address # NoOne /\ roundId # 0
    /\ Run(s, Captured("refresh", "refresh")) /\ UNCHANGED pageVars

setActive ==
    /\ \E c \in Case \ {active} : active' = c
    /\ UNCHANGED <<chain, address, status, session, task, toast, asked, clicks>>

----------------------------------------------------------------------------
(* The steps of a handler, one per await *)

At(s, op, at) == task[s].op = op /\ task[s].at = at
Goto(s, at) == task' = [task EXCEPT ![s].at = at]
End(s) == task' = [task EXCEPT ![s] = Idle]

updateSession(c, patch) == session' = [session EXCEPT ![c] = patch]

Told(s, kind) ==
    toast' = [kind |-> kind, op |-> task[s].op, round |-> task[s].round,
              by |-> task[s].by, clean |-> task[s].clean]

(* The catch of a handler.  The Refresh button has none: its rejection is  *)
(* nobody's.                                                               *)
Catch(s) ==
    /\ End(s)
    /\ IF task[s].op = "refresh" THEN UNCHANGED <<status, toast>>
       ELSE status' = "error" /\ Told(s, "error")
    /\ UNCHANGED <<address, active, session, asked, clicks>>

(* A read that throws, a refused signature or transaction. *)
Throw(s) == task[s] # Idle /\ Catch(s) /\ UNCHANGED chain

(* the transaction took effect and the answer is lost *)
Lost(s) == Catch(s)

access(s) ==
    /\ At(s, "connect", "access")
    /\ \E w \in Wallet : address' = w
    /\ Goto(s, "network")
    /\ UNCHANGED <<chain, active, status, session, toast, asked, clicks>>

network(s) ==
    /\ At(s, "connect", "network")
    /\ End(s) /\ status' = "ok" /\ Told(s, "success")
    /\ UNCHANGED <<chain, address, active, session, asked, clicks>>

(* What a handler does when its own work is done: it stops "working",      *)
(* announces success and awaits a refresh, still inside its try.           *)
Done(s, c, patch, r) ==
    /\ updateSession(c, patch)
    /\ status' = "ok"
    /\ toast' = [kind |-> "success", op |-> task[s].op, round |-> r,
                 by |-> task[s].by, clean |-> task[s].clean]
    /\ task' = [task EXCEPT ![s].at = "refresh", ![s].round = r]
    /\ UNCHANGED <<address, active, clicks>>

CreateTx(s) ==
    /\ At(s, "create", "create")
    /\ \E r \in RoundId :
          /\ Create(r)
          /\ \/ /\ Done(s, task[s].case, [EmptySession EXCEPT !.round = r], r)
                /\ asked' = [asked EXCEPT ![task[s].case] = @ \cup {r}]
             \/ Lost(s)

(* mutant: the case on display, not the one the button was pressed in *)
JoinReadActive(s) ==
    LET r == task[s].round IN
    /\ At(s, "join", "join")
    /\ chain[r].status = "Open" /\ chain[r].phase = "commit"
    /\ Done(s, active, [EmptySession EXCEPT !.round = r], r)
    /\ asked' = [asked EXCEPT ![task[s].case] = @ \cup {r}]
    /\ UNCHANGED chain

JoinRead(s) ==
    LET r == task[s].round IN
    /\ At(s, "join", "join")
    /\ chain[r].status = "Open" /\ chain[r].phase = "commit"
    /\ Done(s, task[s].case, [EmptySession EXCEPT !.round = r], r)
    /\ asked' = [asked EXCEPT ![task[s].case] = @ \cup {r}]
    /\ UNCHANGED chain

(* mutant: announces the seal before the transaction is confirmed *)
CommitTxEager(s) ==
    LET r == task[s].round IN
    /\ At(s, "commit", "commit") /\ UNCHANGED <<chain, asked>>
    /\ Done(s, task[s].case, [session[task[s].case] EXCEPT !.sealed = task[s].entry], r)

(* get_round, sealBid, then commit as the wallet connected at the click *)
CommitTx(s) ==
    LET r == task[s].round IN
    /\ At(s, "commit", "commit")
    /\ Commit(r, task[s].by, task[s].entry)
    /\ \/ Done(s, task[s].case, [session[task[s].case] EXCEPT !.sealed = task[s].entry], r)
       \/ Lost(s)
    /\ UNCHANGED asked

OnlyTask == UNCHANGED chain /\ UNCHANGED clicks /\ UNCHANGED pageVars

(* Open: fetch R's signature, which Drand serves from then on. *)
OpenRead(s) ==
    LET r == task[s].round IN
    /\ At(s, "reveal", "open")
    /\ \/ /\ chain[r].status = "Open" /\ chain[r].phase \in {"reveal", "late"}
          /\ Goto(s, "openTx")
       \/ chain[r].status = "Revealing" /\ Goto(s, "bidders")
    /\ OnlyTask

OpenTx(s) ==
    /\ At(s, "reveal", "openTx")
    /\ OpenReveal(task[s].round)
    /\ \/ /\ Goto(s, "reread") /\ UNCHANGED clicks /\ UNCHANGED pageVars
       \/ Lost(s)

(* the status after open_reveal; anything but Revealing throws *)
Reread(s) ==
    /\ At(s, "reveal", "reread") /\ chain[task[s].round].status = "Revealing"
    /\ Goto(s, "bidders") /\ OnlyTask

GetBidders(s) ==
    LET index == Index(task[s].round) IN
    /\ At(s, "reveal", "bidders") /\ index # {}
    /\ task' = [task EXCEPT ![s].at = "states", ![s].ask = index, ![s].todo = {}]
    /\ OnlyTask

(* get_bid_state, one bidder after the other *)
GetBidState(s) ==
    /\ At(s, "reveal", "states")
    /\ \/ \E w \in task[s].ask :
             task' = [task EXCEPT ![s].ask = @ \ {w},
                         ![s].todo = IF w \in chain[task[s].round].revealed THEN @
                                     ELSE @ \cup {w}]
       \/ task[s].ask = {} /\ Goto(s, "next")
    /\ OnlyTask

(* get_seal; for the page's own bid the copy it kept.  With neither, the   *)
(* bidder is skipped and reported so.  Opening Junk throws.                *)
GetSeal(s) ==
    LET t == task[s] IN
    /\ At(s, "reveal", "next")
    /\ \E w \in t.todo :
          LET sealed == IF w \in chain[t.round].seals THEN chain[t.round].entry[w]
                        ELSE IF w = t.by THEN t.copy ELSE NoEntry
          IN task' = [task EXCEPT ![s].todo = @ \ {w},
                         ![s].at = IF sealed = NoEntry THEN "next" ELSE "seal",
                         ![s].entry = sealed, ![s].who = w,
                         ![s].clean = @ /\ sealed # NoEntry]
    /\ OnlyTask

RevealTx(s) ==
    LET t == task[s] IN
    /\ At(s, "reveal", "seal")
    /\ Reveal(t.round, t.who, t.entry)
    /\ \/ /\ task' = [task EXCEPT ![s].at = "next", ![s].revealed = @ + 1]
          /\ UNCHANGED clicks /\ UNCHANGED pageVars
       \/ Lost(s)

(* nobody left; a pass that revealed nothing itself throws *)
RevealsDone(s) ==
    LET t == task[s] IN
    /\ At(s, "reveal", "next") /\ t.todo = {} /\ t.revealed > 0
    /\ Done(s, t.case, session[t.case], t.round)
    /\ UNCHANGED <<chain, asked>>

(* refresh(id): get_round, get_bidders, one get_bid_state each, then the   *)
(* snapshot replaces the case's, whichever round that shows by now.        *)
RefreshRound(s) ==
    LET r == task[s].round IN
    /\ task[s].at = "refresh" /\ chain[r].status # "Absent"
    /\ task' = [task EXCEPT ![s].at = "index",
                    ![s].snap = [NoLive EXCEPT !.id = r, !.status = chain[r].status]]
    /\ OnlyTask

RefreshBidders(s) ==
    LET r == task[s].round IN
    /\ task[s].at = "index"
    /\ task' = [task EXCEPT ![s].at = "bids", ![s].snap.bidders = Index(r), ![s].ask = Index(r)]
    /\ OnlyTask

RefreshBid(s) ==
    /\ task[s].at = "bids"
    /\ \E w \in task[s].ask :
          task' = [task EXCEPT ![s].ask = @ \ {w},
                      ![s].snap.revealed = @ \cup ({w} \cap chain[task[s].round].revealed)]
    /\ OnlyTask

(* mutant: reads the round last, after its bidders *)
RefreshDoneReread(s) ==
    LET c == task[s].case IN
    /\ task[s].at = "bids" /\ task[s].ask = {}
    /\ updateSession(c, [session[c] EXCEPT
          !.live = [task[s].snap EXCEPT !.status = chain[task[s].round].status]])
    /\ End(s)
    /\ UNCHANGED <<chain, address, active, status, toast, asked, clicks>>

RefreshDone(s) ==
    LET c == task[s].case IN
    /\ task[s].at = "bids" /\ task[s].ask = {}
    /\ updateSession(c, [session[c] EXCEPT !.live = task[s].snap])
    /\ End(s)
    /\ UNCHANGED <<chain, address, active, status, toast, asked, clicks>>

----------------------------------------------------------------------------

User(s) ==
    \/ connect(s) \/ createRound(s) \/ joinRound(s) \/ commitEntry(s)
    \/ openAndReveal(s) \/ refresh(s)

Continue(s) ==
    \/ Throw(s) \/ access(s) \/ network(s) \/ CreateTx(s) \/ JoinRead(s) \/ CommitTx(s)
    \/ OpenRead(s) \/ OpenTx(s) \/ Reread(s) \/ GetBidders(s) \/ GetBidState(s)
    \/ GetSeal(s) \/ RevealTx(s) \/ RevealsDone(s)
    \/ RefreshRound(s) \/ RefreshBidders(s) \/ RefreshBid(s) \/ RefreshDone(s)

Next == Others \/ setActive \/ \E s \in Slot : User(s) \/ Continue(s)

Spec == Init /\ [][Next]_vars

----------------------------------------------------------------------------
(* Properties *)

(* Whatever case is on display when an answer arrives, a case holds only   *)
(* rounds that were created or joined for it.                              *)
RoundsOfTheirCase ==
    \A c \in Case : session[c].round # 0 => session[c].round \in asked[c]

(* A snapshot pieced together from many reads never runs ahead of the      *)
(* chain, and once it says that commits are over its list is the final     *)
(* one, whoever commits, opens and reveals meanwhile.                      *)
LiveWasTrue ==
    \A c \in Case :
        LET v == session[c].live IN
        v # NoLive =>
            /\ Rank(Stages, v.status) <= Rank(Stages, chain[v.id].status)
            /\ v.bidders \subseteq Index(v.id) /\ v.revealed \subseteq chain[v.id].revealed
            /\ v.status # "Open" => v.bidders = Index(v.id)

(* "Reveal complete" with nothing skipped: every bid of that round is      *)
(* open.  "Entry sealed on-chain": the wallet has a bid there.  "Round     *)
(* created", "Joined round": it exists.                                    *)
ToastsHold ==
    toast.kind = "success" /\ toast.round # 0 /\ toast.op # "connect" =>
        /\ chain[toast.round].status # "Absent"
        /\ toast.op = "commit" => toast.by \in Index(toast.round)
        /\ toast.op = "reveal" /\ toast.clean =>
              chain[toast.round].revealed = Index(toast.round)

(* DemoPage.tsx:584: the peers shown are "real on-chain peers              *)
(* participating in this round".                                           *)
PeersOfThisRound == roundId # 0 => realPeers \subseteq Index(roundId)

(* DemoPage.tsx:203: "sealed entries opened on-chain.  The contract        *)
(* cleared deterministically."                                             *)
CompleteMeansCleared == PhaseGuide = "complete" => chain[live.id].status = "Over"

=============================================================================
