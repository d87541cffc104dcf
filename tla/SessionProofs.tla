--------------------------- MODULE SessionProofs ---------------------------
(***************************************************************************)
(* Proofs about Session, for any cases, wallets, entries, rounds and any   *)
(* number of handlers at once.  The argument: whoever moves, a round only  *)
(* goes forward, takes bids only while it is open, and loses nothing that  *)
(* was revealed; so what a handler has read of it so far stays true while  *)
(* it awaits the next answer, and what it says at its end is true too.     *)
(***************************************************************************)
EXTENDS Session, TLAPS

StageSet == {"Absent", "Open", "Revealing", "Over"}
PhaseSet == {"commit", "gap", "reveal", "late"}
Sealed == Entry \cup {Junk, NoEntry}
OpSet == {"none", "connect", "create", "join", "commit", "reveal", "refresh"}
AtSet == {"none", "access", "network", "create", "join", "commit", "open", "openTx",
          "reread", "bidders", "states", "next", "seal", "refresh", "index", "bids"}

ChainRec ==
    [status : StageSet, phase : PhaseSet, entry : [Wallet -> Sealed],
     revealed : SUBSET Wallet, seals : SUBSET Wallet]
LiveRec ==
    [id : 0..MaxRound, status : StageSet, bidders : SUBSET Wallet, revealed : SUBSET Wallet]
SessionRec == [round : 0..MaxRound, sealed : Sealed, live : LiveRec]
TaskRec ==
    [op : OpSet, at : AtSet, case : Case \cup {"none"}, round : 0..MaxRound,
     by : Wallet \cup {NoOne}, entry : Sealed, copy : Sealed, ask : SUBSET Wallet,
     todo : SUBSET Wallet, who : Wallet \cup {NoOne}, revealed : Nat, clean : BOOLEAN,
     snap : LiveRec]
ToastRec ==
    [kind : {"none", "success", "error"}, op : OpSet, round : 0..MaxRound,
     by : Wallet \cup {NoOne}, clean : BOOLEAN]

PageTyped ==
    /\ address \in Wallet \cup {NoOne} /\ active \in Case
    /\ session \in [Case -> SessionRec]
    /\ asked \in [Case -> SUBSET RoundId]

(* Of a round, for good: only bidders have revealed. *)
ChainInv ==
    /\ chain \in [RoundId -> ChainRec]
    /\ \A r \in RoundId : chain[r].revealed \subseteq Index(r)

(* how the contract orders what a round may be *)
NotAfter(a, b) ==
    \/ a = "Absent" \/ b = "Over" \/ a = b
    \/ a = "Open" /\ b = "Revealing"

Past(r) == chain[r].status \in {"Revealing", "Over"}

(* A snapshot of round r, but for whether its list of bidders is final. *)
ReadOf(v, r) ==
    /\ r \in RoundId /\ v.id = r
    /\ v.status \in StageSet \ {"Absent"} /\ NotAfter(v.status, chain[r].status)
    /\ v.bidders \subseteq Index(r) /\ v.revealed \subseteq chain[r].revealed

FinalList(v, r) == v.status # "Open" => v.bidders = Index(r)

LiveSound(v) == v # NoLive => ReadOf(v, v.id) /\ FinalList(v, v.id)

(* What the handler that reveals knows of the round, and whom it accounts  *)
(* for: those revealed, those to ask about, those to reveal.               *)
InHand(t) == t.ask \cup t.todo \cup (IF t.at = "seal" THEN {t.who} ELSE {})
RevealSound(t) ==
    /\ t.at \in {"bidders", "states", "next", "seal"} => Past(t.round)
    /\ t.at \in {"states", "next", "seal"} /\ t.clean =>
          Index(t.round) \subseteq chain[t.round].revealed \cup InHand(t)
    /\ t.at \in {"next", "seal"} => t.ask = {}
    /\ t.at = "seal" => t.who \in Wallet

TaskSound(t) ==
    /\ t.at # "none" => t.case \in Case
    /\ t.at \notin {"none", "access", "network", "create"} => t.round \in RoundId
    /\ t.at \in {"bidders", "states", "next", "seal"} => t.op = "reveal"
    /\ t.op = "commit" /\ t.at = "commit" => t.by \in Wallet /\ t.entry \in Entry
    /\ RevealSound(t)
    /\ t.at \in {"index", "bids"} => ReadOf(t.snap, t.round)
    /\ t.at = "bids" => FinalList(t.snap, t.round)

TasksSound ==
    /\ task \in [Slot -> TaskRec]
    /\ \A s \in Slot : TaskSound(task[s])

SessionsSound ==
    \A c \in Case : /\ session[c].round # 0 => session[c].round \in asked[c]
                    /\ LiveSound(session[c].live)

(* What was announced of a round. *)
ToastSound(t) ==
    t.kind = "success" /\ t.round # 0 /\ t.op # "connect" =>
        /\ t.round \in RoundId /\ chain[t.round].status # "Absent"
        /\ t.op = "commit" => t.by \in Index(t.round)
        /\ t.op = "reveal" => Past(t.round)
        /\ t.op = "reveal" /\ t.clean => Index(t.round) \subseteq chain[t.round].revealed

IInv ==
    /\ ChainInv /\ PageTyped /\ TasksSound /\ SessionsSound
    /\ toast \in ToastRec /\ ToastSound(toast)

----------------------------------------------------------------------------
(* The order of the stages and of the phases *)

LEMMA StageRanks ==
    /\ Rank(Stages, "Absent") = 1 /\ Rank(Stages, "Open") = 2
    /\ Rank(Stages, "Revealing") = 3 /\ Rank(Stages, "Over") = 4
  <1>1. DOMAIN Stages = 1..4 /\ Stages[1] = "Absent" /\ Stages[2] = "Open"
        /\ Stages[3] = "Revealing" /\ Stages[4] = "Over"
    BY DEF Stages
  <1>2. \A x, y : (x \in 1..4 /\ \A j \in 1..4 : Stages[j] = y <=> j = x) => Rank(Stages, y) = x
    BY <1>1 DEF Rank
  <1> QED  BY <1>1, <1>2

LEMMA NotAfterRank ==
    ASSUME NEW a \in StageSet, NEW b \in StageSet, NotAfter(a, b)
    PROVE  Rank(Stages, a) <= Rank(Stages, b)
  BY StageRanks DEF StageSet, NotAfter

LEMMA NextPhase ==
    ASSUME NEW x \in PhaseSet, x # "late"
    PROVE  Phases[Rank(Phases, x) + 1] \in PhaseSet
  <1>1. DOMAIN Phases = 1..4 /\ Phases[1] = "commit" /\ Phases[2] = "gap"
        /\ Phases[3] = "reveal" /\ Phases[4] = "late"
    BY DEF Phases
  <1>2. \E i \in 1..4 : Phases[i] = x  BY <1>1 DEF PhaseSet
  <1>3. Rank(Phases, x) \in 1..4 /\ Phases[Rank(Phases, x)] = x  BY <1>1, <1>2 DEF Rank
  <1>4. Rank(Phases, x) \in 1..3  BY <1>1, <1>3
  <1> QED  BY <1>1, <1>4 DEF PhaseSet

----------------------------------------------------------------------------
(* The initial states *)

LEMMA InitInv == ASSUME Init PROVE IInv
  <1>0. 0 \in 0..MaxRound /\ MaxRound \in Nat  BY SessionAssumption
  <1>1. NoLive \in LiveRec  BY <1>0 DEF NoLive, LiveRec, StageSet
  <1>2. EmptySession \in SessionRec  BY <1>0, <1>1 DEF EmptySession, SessionRec, Sealed
  <1>3. Idle \in TaskRec
    BY <1>0, <1>1 DEF Idle, Handler, TaskRec, OpSet, AtSet, Sealed
  <1>4. ChainInv
    <2>1. \A r \in RoundId : chain[r] \in ChainRec
      BY DEF Init, ChainRec, StageSet, PhaseSet, Sealed
    <2>2. \A r \in RoundId : chain[r].revealed = {}  BY DEF Init
    <2>3. chain \in [RoundId -> ChainRec]  BY <2>1 DEF Init
    <2> QED  BY <2>2, <2>3 DEF ChainInv
  <1>5. PageTyped  BY <1>2 DEF Init, PageTyped
  <1>6. TasksSound
    <2>1. TaskSound(Idle)  BY DEF TaskSound, RevealSound, Idle, Handler
    <2> QED  BY <1>3, <2>1 DEF Init, TasksSound
  <1>7. SessionsSound  BY DEF Init, SessionsSound, EmptySession, LiveSound
  <1>8. toast \in ToastRec  BY <1>0 DEF Init, NoToast, ToastRec, OpSet
  <1>9. ToastSound(toast)  BY DEF Init, NoToast, ToastSound
  <1> QED  BY <1>4, <1>5, <1>6, <1>7, <1>8, <1>9 DEF IInv

----------------------------------------------------------------------------
(* Rounds only go forward *)

Forward ==
    \A r \in RoundId :
        /\ NotAfter(chain[r].status, chain'[r].status)
        /\ Index(r) \subseteq Index(r)'
        /\ Past(r) => Index(r)' = Index(r)
        /\ chain[r].revealed \subseteq chain'[r].revealed

(* a step of the chain: still typed, and forward *)
ChainStep == ChainInv' /\ Forward

LEMMA NoChainStep ==
    ASSUME ChainInv, chain' = chain PROVE ChainStep
  BY DEF ChainStep, ChainInv, Forward, NotAfter, Index

(* the step of one round, whatever of it changes *)
LEMMA OneRound ==
    ASSUME ChainInv, NEW r \in RoundId, NEW x \in ChainRec, chain' = [chain EXCEPT ![r] = x],
           NotAfter(chain[r].status, x.status),
           x.entry = chain[r].entry
             \/ /\ ~Past(r)
                /\ \A w \in Wallet : chain[r].entry[w] # NoEntry => x.entry[w] # NoEntry,
           chain[r].revealed \subseteq x.revealed,
           \A w \in x.revealed : x.entry[w] # NoEntry
    PROVE  ChainStep
  <1>1. chain \in [RoundId -> ChainRec]  BY DEF ChainInv
  <1>2. chain' \in [RoundId -> ChainRec]  BY <1>1
  <1>3. chain'[r] = x /\ \A q \in RoundId : q # r => chain'[q] = chain[q]  BY <1>1
  <1>4. Index(r)' = {w \in Wallet : x.entry[w] # NoEntry}  BY <1>3 DEF Index
  <1>5. \A q \in RoundId : q # r => Index(q)' = Index(q)  BY <1>3 DEF Index
  <1>6. x.revealed \subseteq Wallet  BY DEF ChainRec
  <1>7. ASSUME NEW q \in RoundId PROVE chain'[q].revealed \subseteq Index(q)'
    BY <1>3, <1>4, <1>5, <1>6 DEF ChainInv
  <1>8. ASSUME NEW q \in RoundId
        PROVE  /\ NotAfter(chain[q].status, chain'[q].status)
               /\ Index(q) \subseteq Index(q)'
               /\ Past(q) => Index(q)' = Index(q)
               /\ chain[q].revealed \subseteq chain'[q].revealed
    <2>1. CASE q # r  BY <1>3, <1>5, <2>1 DEF NotAfter
    <2>2. CASE q = r
      <3>1. Index(r) \subseteq Index(r)'  BY <1>4 DEF Index
      <3>2. Past(r) => Index(r)' = Index(r)  BY <1>4 DEF Index
      <3> QED  BY <1>3, <2>2, <3>1, <3>2
    <2> QED  BY <2>1, <2>2
  <1>9. ChainInv'  BY <1>2, <1>7 DEF ChainInv
  <1>10. Forward  BY <1>8 DEF Forward
  <1> QED  BY <1>9, <1>10 DEF ChainStep

LEMMA CreateSteps ==
    ASSUME ChainInv, NEW r \in RoundId, Create(r)
    PROVE  ChainStep /\ chain'[r].status # "Absent"
  <1> DEFINE x == [chain[r] EXCEPT !.status = "Open"]
  <1>0. chain[r] \in ChainRec /\ chain[r].revealed \subseteq Index(r)  BY DEF ChainInv
  <1>1. x \in ChainRec  BY <1>0 DEF ChainRec, StageSet
  <1>2. x.status = "Open" /\ x.entry = chain[r].entry /\ x.revealed = chain[r].revealed
    BY <1>0 DEF ChainRec
  <1>3. chain' = [chain EXCEPT ![r] = x] /\ chain[r].status = "Absent"  BY DEF Create
  <1>4. \A w \in x.revealed : x.entry[w] # NoEntry  BY <1>0, <1>2 DEF Index
  <1>5. ChainStep
    <2> HIDE DEF x
    <2> QED  BY <1>1, <1>2, <1>3, <1>4, OneRound DEF NotAfter
  <1>6. chain'[r] = x  BY <1>3 DEF ChainInv
  <1> QED  BY <1>2, <1>5, <1>6

LEMMA CommitSteps ==
    ASSUME ChainInv, NEW r \in RoundId, NEW w \in Wallet, NEW e \in Entry \cup {Junk},
           Commit(r, w, e)
    PROVE  ChainStep /\ chain'[r].status # "Absent" /\ w \in Index(r)'
  <1>0. chain[r] \in ChainRec /\ chain[r].revealed \subseteq Index(r)  BY DEF ChainInv
  <1>1. chain' = [chain EXCEPT ![r].entry[w] = e, ![r].seals = @ \cup {w}]
        /\ chain[r].status = "Open"
    BY DEF Commit
  <1>2. chain' = [chain EXCEPT ![r] = chain'[r]]
    BY <1>1 DEF ChainInv
  <1>3. /\ chain'[r].status = "Open" /\ chain'[r].revealed = chain[r].revealed
        /\ chain'[r].entry = [chain[r].entry EXCEPT ![w] = e]
        /\ chain'[r] \in ChainRec
    <2>1. chain'[r].status = chain[r].status  BY <1>0, <1>1 DEF ChainInv, ChainRec
    <2>2. chain'[r].revealed = chain[r].revealed  BY <1>0, <1>1 DEF ChainInv, ChainRec
    <2>3. chain'[r].entry = [chain[r].entry EXCEPT ![w] = e]
      BY <1>0, <1>1 DEF ChainInv, ChainRec
    <2>4. chain'[r] \in ChainRec  BY <1>0, <1>1 DEF ChainInv, ChainRec, Sealed
    <2> QED  BY <1>1, <2>1, <2>2, <2>3, <2>4
  <1>4. e # NoEntry  BY SessionAssumption
  <1>5. /\ chain'[r].entry[w] = e
        /\ \A v \in Wallet : v # w => chain'[r].entry[v] = chain[r].entry[v]
    BY <1>0, <1>3 DEF ChainRec
  <1>6. \A v \in chain'[r].revealed : chain'[r].entry[v] # NoEntry
    BY <1>0, <1>3, <1>4, <1>5 DEF Index
  <1>7. \A v \in Wallet : chain[r].entry[v] # NoEntry => chain'[r].entry[v] # NoEntry
    BY <1>4, <1>5
  <1>8. ChainStep
    <2>1. PICK x : x = chain'[r]  OBVIOUS
    <2>2. NotAfter(chain[r].status, x.status) /\ ~Past(r)
      BY <1>1, <1>3, <2>1 DEF NotAfter, Past
    <2>3. x \in ChainRec /\ chain' = [chain EXCEPT ![r] = x] /\ x.revealed = chain[r].revealed
      BY <1>2, <1>3, <2>1
    <2>4. /\ \A v \in x.revealed : x.entry[v] # NoEntry
          /\ \A v \in Wallet : chain[r].entry[v] # NoEntry => x.entry[v] # NoEntry
      BY <1>6, <1>7, <2>1
    <2> QED  BY <2>2, <2>3, <2>4, OneRound
  <1> QED  BY <1>3, <1>4, <1>5, <1>8 DEF Index

LEMMA OpenSteps ==
    ASSUME ChainInv, NEW r \in RoundId, OpenReveal(r)
    PROVE  ChainStep
  <1> DEFINE x == [chain[r] EXCEPT !.status = "Revealing"]
  <1>0. chain[r] \in ChainRec /\ chain[r].revealed \subseteq Index(r)  BY DEF ChainInv
  <1>1. x \in ChainRec  BY <1>0 DEF ChainRec, StageSet
  <1>2. x.status = "Revealing" /\ x.entry = chain[r].entry /\ x.revealed = chain[r].revealed
    BY <1>0 DEF ChainRec
  <1>3. chain' = [chain EXCEPT ![r] = x] /\ chain[r].status = "Open"  BY DEF OpenReveal
  <1>4. \A w \in x.revealed : x.entry[w] # NoEntry  BY <1>0, <1>2 DEF Index
  <1> HIDE DEF x
  <1> QED  BY <1>1, <1>2, <1>3, <1>4, OneRound DEF NotAfter

LEMMA RevealSteps ==
    ASSUME ChainInv, NEW r \in RoundId, NEW w \in Wallet, NEW e, Reveal(r, w, e)
    PROVE  ChainStep /\ w \in chain'[r].revealed
  <1> DEFINE x == [chain[r] EXCEPT !.revealed = @ \cup {w}]
  <1>0. chain[r] \in ChainRec /\ chain[r].revealed \subseteq Index(r)  BY DEF ChainInv
  <1>1. x \in ChainRec  BY <1>0 DEF ChainRec
  <1>2. /\ x.status = chain[r].status /\ x.entry = chain[r].entry
        /\ x.revealed = chain[r].revealed \cup {w}
    BY <1>0 DEF ChainRec
  <1>3. chain' = [chain EXCEPT ![r] = x] /\ chain[r].entry[w] # NoEntry
    BY SessionAssumption DEF Reveal
  <1>4. \A v \in x.revealed : x.entry[v] # NoEntry  BY <1>0, <1>2, <1>3 DEF Index
  <1>5. chain'[r] = x  BY <1>3 DEF ChainInv
  <1> HIDE DEF x
  <1>6. ChainStep  BY <1>1, <1>2, <1>3, <1>4, OneRound DEF NotAfter
  <1> QED  BY <1>2, <1>5, <1>6

(* everybody else, storage and time *)
LEMMA OthersStep ==
    ASSUME ChainInv, Others PROVE ChainStep
  <1>1. PICK r \in RoundId :
          \/ \E w \in Peer, e \in Entry \cup {Junk} : w \notin Index(r) /\ Commit(r, w, e)
          \/ OpenReveal(r)
          \/ \E w \in Index(r) : w \in chain[r].seals /\ Reveal(r, w, chain[r].entry[w])
          \/ /\ chain[r].status \in {"Open", "Revealing"} /\ chain[r].phase = "late"
             /\ chain' = [chain EXCEPT ![r].status = "Over"]
          \/ /\ chain[r].phase \in {"reveal", "late"}
             /\ \E w \in chain[r].seals : chain' = [chain EXCEPT ![r].seals = @ \ {w}]
          \/ /\ chain[r].status # "Absent" /\ chain[r].phase # "late"
             /\ chain' = [chain EXCEPT ![r].phase = Phases[Rank(Phases, @) + 1]]
    BY DEF Others
  <1>0. /\ chain[r] \in ChainRec /\ chain[r].revealed \subseteq Index(r)
        /\ chain[r].status \in StageSet /\ chain[r].phase \in PhaseSet
    BY DEF ChainInv, ChainRec
  <1>2. \A w \in chain[r].revealed : chain[r].entry[w] # NoEntry  BY <1>0 DEF Index
  <1>3. CASE \E w \in Peer, e \in Entry \cup {Junk} : w \notin Index(r) /\ Commit(r, w, e)
    BY <1>3, CommitSteps, SessionAssumption
  <1>4. CASE OpenReveal(r)  BY <1>4, OpenSteps
  <1>5. CASE \E w \in Index(r) : w \in chain[r].seals /\ Reveal(r, w, chain[r].entry[w])
    BY <1>5, RevealSteps DEF Index
  <1>6. CASE chain' = [chain EXCEPT ![r].status = "Over"]
    <2> DEFINE x == [chain[r] EXCEPT !.status = "Over"]
    <2>1. x \in ChainRec  BY <1>0 DEF ChainRec, StageSet
    <2>2. x.status = "Over" /\ x.entry = chain[r].entry /\ x.revealed = chain[r].revealed
      BY <1>0 DEF ChainRec
    <2>3. chain' = [chain EXCEPT ![r] = x]  BY <1>6
    <2> HIDE DEF x
    <2> QED  BY <1>2, <2>1, <2>2, <2>3, OneRound DEF NotAfter
  <1>7. CASE \E w \in chain[r].seals : chain' = [chain EXCEPT ![r].seals = @ \ {w}]
    <2>1. PICK w : chain' = [chain EXCEPT ![r].seals = @ \ {w}]  BY <1>7
    <2> DEFINE x == [chain[r] EXCEPT !.seals = @ \ {w}]
    <2>2. x \in ChainRec  BY <1>0 DEF ChainRec
    <2>3. /\ x.status = chain[r].status /\ x.entry = chain[r].entry
          /\ x.revealed = chain[r].revealed
      BY <1>0 DEF ChainRec
    <2>4. chain' = [chain EXCEPT ![r] = x]  BY <2>1
    <2> HIDE DEF x
    <2> QED  BY <1>2, <2>2, <2>3, <2>4, OneRound DEF NotAfter
  <1>8. CASE /\ chain[r].phase # "late"
             /\ chain' = [chain EXCEPT ![r].phase = Phases[Rank(Phases, @) + 1]]
    <2>1. PICK next \in PhaseSet : next = Phases[Rank(Phases, chain[r].phase) + 1]
      BY <1>0, <1>8, NextPhase
    <2> DEFINE x == [chain[r] EXCEPT !.phase = next]
    <2>2. x \in ChainRec  BY <1>0, <2>1 DEF ChainRec
    <2>3. /\ x.status = chain[r].status /\ x.entry = chain[r].entry
          /\ x.revealed = chain[r].revealed
      BY <1>0 DEF ChainRec
    <2>4. chain' = [chain EXCEPT ![r] = x]  BY <1>8, <2>1
    <2> HIDE DEF x
    <2> QED  BY <1>2, <2>2, <2>3, <2>4, OneRound DEF NotAfter
  <1> QED  BY <1>1, <1>3, <1>4, <1>5, <1>6, <1>7, <1>8

----------------------------------------------------------------------------
(* What was read of a round, and what was said of it, stays true *)

LEMMA ReadLasts ==
    ASSUME Forward, NEW r, NEW v, ReadOf(v, r)
    PROVE  ReadOf(v, r)' /\ (FinalList(v, r) => FinalList(v, r)')
  <1>1. /\ r \in RoundId /\ NotAfter(v.status, chain[r].status) /\ v.status \in StageSet \ {"Absent"}
        /\ NotAfter(chain[r].status, chain'[r].status)
        /\ Index(r) \subseteq Index(r)' /\ chain[r].revealed \subseteq chain'[r].revealed
        /\ Past(r) => Index(r)' = Index(r)
    BY DEF ReadOf, Forward
  <1>2. NotAfter(v.status, chain'[r].status)  BY <1>1 DEF NotAfter
  <1>3. v.status # "Open" => Past(r)  BY <1>1 DEF NotAfter, Past, StageSet
  <1> QED  BY <1>1, <1>2, <1>3 DEF ReadOf, FinalList

LEMMA LiveLasts ==
    ASSUME Forward, NEW v, LiveSound(v) PROVE LiveSound(v)'
  BY ReadLasts DEF LiveSound

LEMMA PastLasts ==
    ASSUME Forward, NEW r \in RoundId, Past(r)
    PROVE  Past(r)' /\ Index(r)' = Index(r) /\ chain[r].revealed \subseteq chain'[r].revealed
  BY DEF Forward, Past, NotAfter

LEMMA TaskLasts ==
    ASSUME Forward, NEW t, TaskSound(t) PROVE TaskSound(t)'
  <1>1. /\ t.at # "none" => t.case \in Case
        /\ t.at \notin {"none", "access", "network", "create"} => t.round \in RoundId
        /\ t.at \in {"bidders", "states", "next", "seal"} => t.op = "reveal"
        /\ t.op = "commit" /\ t.at = "commit" => t.by \in Wallet /\ t.entry \in Entry
    BY DEF TaskSound
  <1>2. RevealSound(t)'
    <2>1. t.at \in {"bidders", "states", "next", "seal"} =>
            /\ Past(t.round)' /\ Index(t.round)' = Index(t.round)
            /\ chain[t.round].revealed \subseteq chain'[t.round].revealed
      BY <1>1, PastLasts DEF TaskSound, RevealSound
    <2>2. InHand(t)' = InHand(t)  BY DEF InHand
    <2> QED  BY <2>1, <2>2 DEF TaskSound, RevealSound
  <1>3. /\ t.at \in {"index", "bids"} => ReadOf(t.snap, t.round)'
        /\ t.at = "bids" => FinalList(t.snap, t.round)'
    BY ReadLasts DEF TaskSound
  <1> QED  BY <1>1, <1>2, <1>3 DEF TaskSound

LEMMA ToastLasts ==
    ASSUME Forward, NEW t, ToastSound(t) PROVE ToastSound(t)'
  <1> SUFFICES ASSUME t.kind = "success", t.round # 0, t.op # "connect"
               PROVE  /\ t.round \in RoundId /\ chain'[t.round].status # "Absent"
                      /\ t.op = "commit" => t.by \in Index(t.round)'
                      /\ t.op = "reveal" => Past(t.round)'
                      /\ t.op = "reveal" /\ t.clean =>
                            Index(t.round)' \subseteq chain'[t.round].revealed
    BY DEF ToastSound
  <1>1. /\ t.round \in RoundId /\ chain[t.round].status # "Absent"
        /\ t.op = "commit" => t.by \in Index(t.round)
        /\ t.op = "reveal" => Past(t.round)
        /\ t.op = "reveal" /\ t.clean => Index(t.round) \subseteq chain[t.round].revealed
    BY DEF ToastSound
  <1>2. /\ NotAfter(chain[t.round].status, chain'[t.round].status)
        /\ Index(t.round) \subseteq Index(t.round)'
    BY <1>1 DEF Forward
  <1>3. chain'[t.round].status # "Absent"  BY <1>1, <1>2 DEF NotAfter
  <1> QED  BY <1>1, <1>2, <1>3, PastLasts

----------------------------------------------------------------------------
(* Steps of one handler *)

LEMMA TaskFacts ==
    ASSUME TasksSound, NEW s \in Slot
    PROVE  /\ task[s] \in TaskRec /\ TaskSound(task[s])
           /\ task[s].op \in OpSet /\ task[s].at \in AtSet /\ task[s].round \in 0..MaxRound
           /\ task[s].by \in Wallet \cup {NoOne} /\ task[s].clean \in BOOLEAN
           /\ task[s].entry \in Sealed /\ task[s].copy \in Sealed
           /\ task[s].ask \subseteq Wallet /\ task[s].todo \subseteq Wallet
           /\ task[s].revealed \in Nat /\ task[s].snap \in LiveRec
  BY DEF TasksSound, TaskRec

LEMMA OneTask ==
    ASSUME TasksSound, Forward, NEW s \in Slot, task' \in [Slot -> TaskRec],
           \A q \in Slot : q # s => task'[q] = task[q], TaskSound(task[s])'
    PROVE  TasksSound'
  <1>1. ASSUME NEW q \in Slot PROVE TaskSound(task[q])'
    <2>1. CASE q = s  BY <2>1
    <2>2. CASE q # s
      <3>1. PICK t : t = task[q]  OBVIOUS
      <3>2. TaskSound(t)'  BY <3>1, TaskLasts DEF TasksSound
      <3>3. task'[q] = t  BY <2>2, <3>1
      <3> QED  BY <3>2, <3>3 DEF TaskSound, RevealSound, InHand
    <2> QED  BY <2>1, <2>2
  <1> QED  BY <1>1 DEF TasksSound

LEMMA SameTasks ==
    ASSUME TasksSound, Forward, task' = task PROVE TasksSound'
  <1>1. ASSUME NEW q \in Slot PROVE TaskSound(task[q])'
    <2>1. PICK t : t = task[q]  OBVIOUS
    <2>2. TaskSound(t)'  BY <2>1, TaskLasts DEF TasksSound
    <2>3. task'[q] = t  BY <2>1
    <2> QED  BY <2>2, <2>3 DEF TaskSound, RevealSound, InHand
  <1> QED  BY <1>1 DEF TasksSound

LEMMA SessionsLast ==
    ASSUME PageTyped, SessionsSound, Forward, session' = session, asked' = asked
    PROVE  SessionsSound'
  <1>1. ASSUME NEW c \in Case PROVE LiveSound(session[c].live)'
    <2>1. PICK v : v = session[c].live  OBVIOUS
    <2>2. LiveSound(v)'  BY <2>1, LiveLasts DEF SessionsSound
    <2>3. session'[c].live = v  BY <2>1
    <2> QED  BY <2>2, <2>3 DEF LiveSound, ReadOf, FinalList
  <1> QED  BY <1>1 DEF SessionsSound

LEMMA ToastStays ==
    ASSUME toast \in ToastRec, ToastSound(toast), Forward, toast' = toast
    PROVE  (toast \in ToastRec /\ ToastSound(toast))'
  <1>1. PICK t : t = toast  OBVIOUS
  <1>2. ToastSound(t)'  BY <1>1, ToastLasts
  <1>3. toast' = t  BY <1>1
  <1> QED  BY <1>1, <1>2, <1>3 DEF ToastSound

(* what leaves the sessions alone, whatever else the page shows *)
LEMMA PageStays ==
    ASSUME IInv, ChainStep, session' = session, asked' = asked, active' = active,
           address' \in Wallet \cup {NoOne}, toast' = toast
    PROVE  ChainInv' /\ PageTyped' /\ SessionsSound' /\ (toast \in ToastRec /\ ToastSound(toast))'
  <1>1. ChainInv' /\ Forward  BY DEF ChainStep
  <1>2. PageTyped'  BY DEF IInv, PageTyped
  <1> QED  BY <1>1, <1>2, SessionsLast, ToastStays DEF IInv

LEMMA IdleSound == Idle \in TaskRec /\ TaskSound(Idle) /\ TaskSound(Idle)'
  <1>0. 0 \in 0..MaxRound  BY SessionAssumption
  <1>1. NoLive \in LiveRec  BY <1>0 DEF NoLive, LiveRec, StageSet
  <1>2. Idle \in TaskRec  BY <1>0, <1>1 DEF Idle, Handler, TaskRec, OpSet, AtSet, Sealed
  <1> QED  BY <1>2 DEF TaskSound, RevealSound, Idle, Handler

LEMMA EndKeeps ==
    ASSUME TasksSound, Forward, NEW s \in Slot, End(s) PROVE TasksSound'
  <1>1. task' = [task EXCEPT ![s] = Idle] /\ task \in [Slot -> TaskRec]
    BY DEF End, TasksSound
  <1>2. task' \in [Slot -> TaskRec]  BY <1>1, IdleSound
  <1>3. task'[s] = Idle /\ \A q \in Slot : q # s => task'[q] = task[q]  BY <1>1
  <1>4. TaskSound(task[s])'
    BY <1>3, IdleSound DEF TaskSound, RevealSound, Idle, Handler
  <1> QED  BY <1>2, <1>3, <1>4, OneTask

(* A failure is announced as one, of whatever the chain has taken. *)
LEMMA CatchKeeps ==
    ASSUME IInv, ChainStep, NEW s \in Slot, Catch(s) PROVE IInv'
  <1>0. ChainInv' /\ Forward  BY DEF ChainStep
  <1>1. TasksSound'  BY <1>0, EndKeeps DEF IInv, Catch
  <1>2. session' = session /\ asked' = asked /\ active' = active /\ address' = address
    BY DEF Catch
  <1>3. PageTyped' /\ SessionsSound'  BY <1>0, <1>2, SessionsLast DEF IInv, PageTyped
  <1>4. (toast \in ToastRec /\ ToastSound(toast))'
    <2>1. CASE toast' = toast  BY <1>0, <2>1, ToastStays DEF IInv
    <2>2. CASE Told(s, "error")
      <3>1. toast' \in ToastRec  BY <2>2, TaskFacts DEF IInv, Told, ToastRec
      <3>2. toast'.kind = "error"  BY <2>2 DEF Told
      <3> QED  BY <3>1, <3>2 DEF ToastSound
    <2> QED  BY <2>1, <2>2 DEF Catch
  <1> QED  BY <1>0, <1>1, <1>3, <1>4 DEF IInv

LEMMA ThrowKeeps ==
    ASSUME IInv, NEW s \in Slot, Throw(s) PROVE IInv'
  BY NoChainStep, CatchKeeps DEF Throw, IInv

(* A handler is done: what it leaves of its case, and what it says.        *)
LEMMA DoneKeeps ==
    ASSUME IInv, ChainStep, NEW s \in Slot, NEW c \in Case, NEW patch \in SessionRec,
           NEW r \in RoundId, Done(s, c, patch, r), task[s].case \in Case,
           asked' \in [Case -> SUBSET RoundId], \A d \in Case : asked[d] \subseteq asked'[d],
           patch.round # 0 => patch.round \in asked'[c], LiveSound(patch.live),
           chain'[r].status # "Absent",
           task[s].op = "commit" => task[s].by \in Index(r)',
           task[s].op = "reveal" => Past(r)',
           task[s].op = "reveal" /\ task[s].clean => Index(r)' \subseteq chain'[r].revealed
    PROVE  IInv'
  <1>0. ChainInv' /\ Forward /\ RoundId = 1..MaxRound /\ MaxRound \in Nat
    BY SessionAssumption DEF ChainStep, RoundId
  <1>1. TasksSound'
    <2>1. task \in [Slot -> TaskRec] /\ task' = [task EXCEPT ![s].at = "refresh", ![s].round = r]
      BY DEF IInv, TasksSound, Done
    <2>2. r \in 0..MaxRound  BY <1>0
    <2>3. task' \in [Slot -> TaskRec]
      <3>0. "refresh" \in AtSet /\ task[s] \in TaskRec  BY <2>1 DEF AtSet
      <3>1. [task[s] EXCEPT !.at = "refresh", !.round = r] \in TaskRec
        BY <2>2, <3>0, Zenon DEF TaskRec
      <3>2. task' = [task EXCEPT ![s] = [task[s] EXCEPT !.at = "refresh", !.round = r]]
        BY <2>1 DEF TaskRec
      <3> QED  BY <2>1, <3>1, <3>2
    <2>4. /\ task'[s].at = "refresh" /\ task'[s].round = r /\ task'[s].case = task[s].case
          /\ \A q \in Slot : q # s => task'[q] = task[q]
      BY <2>1 DEF TaskRec
    <2>5. TaskSound(task[s])'  BY <2>4 DEF TaskSound, RevealSound
    <2> QED  BY <1>0, <2>3, <2>4, <2>5, OneTask DEF IInv
  <1>2. PageTyped'  BY DEF IInv, PageTyped, Done, updateSession
  <1>3. SessionsSound'
    <2>1. /\ session'[c] = patch
          /\ \A d \in Case : d # c => session'[d] = session[d]
      BY DEF Done, updateSession, IInv, PageTyped
    <2>2. LiveSound(patch.live)'  BY <1>0, LiveLasts
    <2>3. ASSUME NEW d \in Case
          PROVE  /\ session'[d].round # 0 => session'[d].round \in asked'[d]
                 /\ LiveSound(session[d].live)'
      <3>1. CASE d = c
        BY <2>1, <2>2, <3>1 DEF LiveSound, ReadOf, FinalList
      <3>2. CASE d # c
        <4>1. PICK v : v = session[d].live  OBVIOUS
        <4>2. LiveSound(v)'  BY <1>0, <4>1, LiveLasts DEF IInv, SessionsSound
        <4>3. session'[d].live = v /\ session'[d] = session[d]  BY <2>1, <3>2, <4>1
        <4>4. LiveSound(session[d].live)'  BY <4>2, <4>3 DEF LiveSound, ReadOf, FinalList
        <4> QED  BY <4>3, <4>4 DEF IInv, SessionsSound
      <3> QED  BY <3>1, <3>2
    <2> QED  BY <2>3 DEF SessionsSound
  <1>4. (toast \in ToastRec /\ ToastSound(toast))'
    <2>1. toast' = [kind |-> "success", op |-> task[s].op, round |-> r,
                    by |-> task[s].by, clean |-> task[s].clean]
      BY DEF Done
    <2>2. toast' \in ToastRec  BY <1>0, <2>1, TaskFacts DEF IInv, ToastRec
    <2>3. /\ toast'.op = task[s].op /\ toast'.round = r /\ toast'.by = task[s].by
          /\ toast'.clean = task[s].clean
      BY <2>1
    <2>4. ToastSound(toast)'  BY <2>3 DEF ToastSound
    <2> QED  BY <2>2, <2>4
  <1> QED  BY <1>0, <1>1, <1>2, <1>3, <1>4 DEF IInv

----------------------------------------------------------------------------
(* Steps that leave the sessions and the announcement alone *)

LEMMA TaskMoves ==
    ASSUME IInv, ChainStep, NEW s \in Slot, task' \in [Slot -> TaskRec],
           \A q \in Slot : q # s => task'[q] = task[q], TaskSound(task[s])',
           address' \in Wallet \cup {NoOne}, active' = active, session' = session,
           toast' = toast, asked' = asked
    PROVE  IInv'
  <1>1. TasksSound'  BY OneTask DEF IInv, ChainStep
  <1> QED  BY <1>1, PageStays DEF IInv

(* the same, with the round untouched: a read, or a click *)
LEMMA TaskReads ==
    ASSUME IInv, chain' = chain, NEW s \in Slot, NEW t \in TaskRec, TaskSound(t),
           task' = [task EXCEPT ![s] = t], UNCHANGED <<address, active, session, toast, asked>>
    PROVE  IInv'
  <1>1. ChainStep  BY NoChainStep DEF IInv
  <1>2. /\ task' \in [Slot -> TaskRec] /\ task'[s] = t
        /\ \A q \in Slot : q # s => task'[q] = task[q]
    BY DEF IInv, TasksSound
  <1>3. TaskSound(t)'  BY <1>1, TaskLasts DEF ChainStep
  <1>4. TaskSound(task[s])'  BY <1>2, <1>3 DEF TaskSound, RevealSound, InHand
  <1>5. address' \in Wallet \cup {NoOne}  BY DEF IInv, PageTyped
  <1> QED  BY <1>1, <1>2, <1>4, <1>5, TaskMoves

LEMMA CapturedTask ==
    ASSUME IInv, NEW op \in OpSet, NEW at \in AtSet
    PROVE  LET t == Captured(op, at) IN
           /\ t \in TaskRec /\ t.op = op /\ t.at = at /\ t.case = active
           /\ t.round = roundId /\ t.by = address
  <1> DEFINE t == Captured(op, at)
  <1>1. t = [op |-> op, at |-> at, case |-> active, round |-> roundId, by |-> address,
             entry |-> NoEntry, copy |-> session[active].sealed, ask |-> {}, todo |-> {},
             who |-> NoOne, revealed |-> 0, clean |-> TRUE, snap |-> NoLive]
    BY DEF Captured, Handler
  <1>2. session[active] \in SessionRec /\ address \in Wallet \cup {NoOne} /\ active \in Case
    BY DEF IInv, PageTyped
  <1>3. roundId \in 0..MaxRound /\ session[active].sealed \in Sealed
    BY <1>2 DEF roundId, SessionRec
  <1>4. NoLive \in LiveRec /\ NoEntry \in Sealed
    BY SessionAssumption DEF NoLive, LiveRec, StageSet, Sealed
  <1> HIDE DEF t
  <1>5. t \in TaskRec  BY <1>1, <1>2, <1>3, <1>4 DEF TaskRec
  <1> QED  BY <1>1, <1>5 DEF t

(* The button of the phase: a wallet, and unless it creates one, a round.  *)
LEMMA OfferedFacts ==
    ASSUME IInv, NEW phase \in {"commit", "reveal"}, Offered({phase})
    PROVE  address \in Wallet /\ roundId \in RoundId
  <1>1. PhaseGuide = phase /\ address # NoOne  BY DEF Offered
  <1>2. CASE roundId = 0
    <2>1. PhaseGuide # "commit" /\ PhaseGuide # "reveal"
      BY <1>1, <1>2 DEF PhaseGuide
    <2> QED  BY <1>1, <2>1
  <1>3. roundId \in 0..MaxRound  BY DEF IInv, PageTyped, SessionRec, roundId
  <1>4. roundId # 0 => roundId \in RoundId  BY <1>3, SessionAssumption DEF RoundId
  <1> QED  BY <1>1, <1>2, <1>4 DEF IInv, PageTyped

LEMMA RoundsAreNat == RoundId \subseteq 0..MaxRound /\ 0 \notin RoundId
  BY SessionAssumption DEF RoundId

LEMMA UserKeeps ==
    ASSUME IInv, NEW s \in Slot, User(s) PROVE IInv'
  <1>0. UNCHANGED <<address, active, session, toast, asked>> /\ chain' = chain
    BY DEF User, connect, createRound, joinRound, commitEntry, openAndReveal, refresh, Run, Work,
           pageVars
  <1>1. CASE connect(s)
    <2> DEFINE t == Captured("connect", "access")
    <2>1. t \in TaskRec /\ t.op = "connect" /\ t.at = "access" /\ t.case = active
      BY CapturedTask DEF OpSet, AtSet
    <2>2. task' = [task EXCEPT ![s] = t]  BY <1>1 DEF connect, Run
    <2> HIDE DEF t
    <2>3. TaskSound(t)  BY <2>1 DEF IInv, PageTyped, TaskSound, RevealSound
    <2> QED  BY <1>0, <2>1, <2>2, <2>3, TaskReads
  <1>2. CASE createRound(s)
    <2> DEFINE t == Captured("create", "create")
    <2>1. t \in TaskRec /\ t.op = "create" /\ t.at = "create" /\ t.case = active
      BY CapturedTask DEF OpSet, AtSet
    <2>2. task' = [task EXCEPT ![s] = t]  BY <1>2 DEF createRound, Run
    <2> HIDE DEF t
    <2>3. TaskSound(t)  BY <2>1 DEF IInv, PageTyped, TaskSound, RevealSound
    <2> QED  BY <1>0, <2>1, <2>2, <2>3, TaskReads
  <1>3. CASE joinRound(s)
    <2>1. PICK r \in RoundId : Run(s, [Captured("join", "join") EXCEPT !.round = r])
      BY <1>3 DEF joinRound
    <2> DEFINE u == Captured("join", "join")
               t == [u EXCEPT !.round = r]
    <2>2. u \in TaskRec /\ u.op = "join" /\ u.at = "join" /\ u.case = active
      BY CapturedTask DEF OpSet, AtSet
    <2>3. task' = [task EXCEPT ![s] = t]  BY <2>1 DEF Run
    <2> HIDE DEF u
    <2>4. /\ t \in TaskRec /\ t.op = "join" /\ t.at = "join" /\ t.case = active
          /\ t.round = r
      BY <2>2, RoundsAreNat DEF TaskRec
    <2> HIDE DEF t
    <2>5. TaskSound(t)  BY <2>4 DEF IInv, PageTyped, TaskSound, RevealSound
    <2> QED  BY <1>0, <2>3, <2>4, <2>5, TaskReads
  <1>4. CASE commitEntry(s)
    <2>1. PICK e \in Entry : Run(s, [Captured("commit", "commit") EXCEPT !.entry = e])
      BY <1>4 DEF commitEntry
    <2> DEFINE u == Captured("commit", "commit")
               t == [u EXCEPT !.entry = e]
    <2>2. /\ u \in TaskRec /\ u.op = "commit" /\ u.at = "commit" /\ u.case = active
          /\ u.round = roundId /\ u.by = address
      BY CapturedTask DEF OpSet, AtSet
    <2>3. task' = [task EXCEPT ![s] = t]  BY <2>1 DEF Run
    <2> HIDE DEF u
    <2>4. /\ t \in TaskRec /\ t.op = "commit" /\ t.at = "commit" /\ t.case = active
          /\ t.round = roundId /\ t.by = address /\ t.entry = e
      BY <2>2 DEF TaskRec, Sealed
    <2>5. address \in Wallet /\ roundId \in RoundId  BY <1>4, OfferedFacts DEF commitEntry
    <2> HIDE DEF t
    <2>6. TaskSound(t)  BY <2>4, <2>5 DEF IInv, PageTyped, TaskSound, RevealSound
    <2> QED  BY <1>0, <2>3, <2>4, <2>6, TaskReads
  <1>5. CASE openAndReveal(s)
    <2> DEFINE t == Captured("reveal", "open")
    <2>1. /\ t \in TaskRec /\ t.op = "reveal" /\ t.at = "open" /\ t.case = active
          /\ t.round = roundId
      BY CapturedTask DEF OpSet, AtSet
    <2>2. task' = [task EXCEPT ![s] = t]  BY <1>5 DEF openAndReveal, Run
    <2>3. roundId \in RoundId  BY <1>5, OfferedFacts DEF openAndReveal
    <2> HIDE DEF t
    <2>4. TaskSound(t)  BY <2>1, <2>3 DEF IInv, PageTyped, TaskSound, RevealSound
    <2> QED  BY <1>0, <2>1, <2>2, <2>4, TaskReads
  <1>6. CASE refresh(s)
    <2> DEFINE t == Captured("refresh", "refresh")
    <2>1. /\ t \in TaskRec /\ t.op = "refresh" /\ t.at = "refresh" /\ t.case = active
          /\ t.round = roundId
      BY CapturedTask DEF OpSet, AtSet
    <2>2. task' = [task EXCEPT ![s] = t] /\ roundId # 0  BY <1>6 DEF refresh, Run
    <2>3. roundId \in RoundId
      BY <2>2, SessionAssumption DEF RoundId, IInv, PageTyped, SessionRec, roundId
    <2> HIDE DEF t
    <2>4. TaskSound(t)  BY <2>1, <2>3 DEF IInv, PageTyped, TaskSound, RevealSound
    <2> QED  BY <1>0, <2>1, <2>2, <2>4, TaskReads
  <1> QED  BY <1>1, <1>2, <1>3, <1>4, <1>5, <1>6 DEF User

LEMMA GotoTask ==
    ASSUME NEW t \in TaskRec, NEW at \in AtSet
    PROVE  LET u == [t EXCEPT !.at = at] IN
           /\ u \in TaskRec /\ u.at = at /\ u.op = t.op /\ u.case = t.case /\ u.round = t.round
           /\ u.by = t.by /\ u.entry = t.entry /\ u.ask = t.ask /\ u.todo = t.todo
           /\ u.who = t.who /\ u.clean = t.clean /\ u.snap = t.snap
  BY DEF TaskRec

(* a step to the next await of the same handler, the round untouched *)
LEMMA GotoKeeps ==
    ASSUME IInv, NEW s \in Slot, NEW at \in AtSet, Goto(s, at), OnlyTask,
           TaskSound([task[s] EXCEPT !.at = at])
    PROVE  IInv'
  <1>1. task[s] \in TaskRec /\ task \in [Slot -> TaskRec]  BY DEF IInv, TasksSound
  <1>2. [task[s] EXCEPT !.at = at] \in TaskRec  BY <1>1, GotoTask
  <1>3. task' = [task EXCEPT ![s] = [task[s] EXCEPT !.at = at]]  BY <1>1 DEF Goto, TaskRec
  <1> QED  BY <1>2, <1>3, TaskReads DEF OnlyTask, pageVars

LEMMA OpenReadKeeps ==
    ASSUME IInv, NEW s \in Slot, OpenRead(s) PROVE IInv'
  <1> DEFINE t == task[s]
             u(at) == [t EXCEPT !.at = at]
  <1>1. /\ t \in TaskRec /\ TaskSound(t) /\ t.op = "reveal" /\ t.at = "open" /\ OnlyTask
        /\ t.case \in Case /\ t.round \in RoundId
    BY TaskFacts DEF IInv, OpenRead, At, TaskSound
  <1>2. CASE Goto(s, "openTx")
    <2>1. TaskSound(u("openTx"))
      BY <1>1, GotoTask DEF AtSet, TaskSound, RevealSound
    <2> QED  BY <1>1, <1>2, <2>1, GotoKeeps DEF AtSet
  <1>3. CASE chain[t.round].status = "Revealing" /\ Goto(s, "bidders")
    <2>1. Past(t.round)  BY <1>3 DEF Past
    <2>2. u("bidders").at = "bidders" /\ u("bidders").op = "reveal"
          /\ u("bidders").case = t.case /\ u("bidders").round = t.round
      BY <1>1, GotoTask DEF AtSet
    <2>3. TaskSound(u("bidders"))
      BY <1>1, <2>1, <2>2 DEF TaskSound, RevealSound
    <2> QED  BY <1>1, <1>3, <2>3, GotoKeeps DEF AtSet
  <1> QED  BY <1>2, <1>3 DEF OpenRead

LEMMA RereadKeeps ==
    ASSUME IInv, NEW s \in Slot, Reread(s) PROVE IInv'
  <1> DEFINE t == task[s]
             u == [t EXCEPT !.at = "bidders"]
  <1>1. /\ t \in TaskRec /\ TaskSound(t) /\ t.op = "reveal" /\ OnlyTask
        /\ t.case \in Case /\ t.round \in RoundId /\ Past(t.round) /\ Goto(s, "bidders")
    BY TaskFacts DEF IInv, Reread, At, TaskSound, Past
  <1>2. u.at = "bidders" /\ u.op = "reveal" /\ u.case = t.case /\ u.round = t.round
    BY <1>1, GotoTask DEF AtSet
  <1>3. TaskSound(u)  BY <1>1, <1>2 DEF TaskSound, RevealSound
  <1> QED  BY <1>1, <1>3, GotoKeeps DEF AtSet

LEMMA GetBiddersKeeps ==
    ASSUME IInv, NEW s \in Slot, GetBidders(s) PROVE IInv'
  <1> DEFINE t == task[s]
             index == Index(t.round)
             u == [t EXCEPT !.at = "states", !.ask = index, !.todo = {}]
  <1>1. /\ t \in TaskRec /\ TaskSound(t) /\ t.op = "reveal" /\ t.at = "bidders" /\ OnlyTask
        /\ t.case \in Case /\ t.round \in RoundId /\ Past(t.round)
        /\ task \in [Slot -> TaskRec]
    BY TaskFacts DEF IInv, TasksSound, GetBidders, At, TaskSound, RevealSound
  <1>2. index \in SUBSET Wallet /\ {} \in SUBSET Wallet /\ "states" \in AtSet  BY DEF Index, AtSet
  <1>3. task' = [task EXCEPT ![s].at = "states", ![s].ask = index, ![s].todo = {}]
    BY DEF GetBidders
  <1> HIDE DEF index
  <1>4. task' = [task EXCEPT ![s] = u]  BY <1>1, <1>3 DEF TaskRec
  <1>5. u \in TaskRec  BY <1>1, <1>2, Zenon DEF TaskRec
  <1>6. /\ u.at = "states" /\ u.op = t.op /\ u.case = t.case /\ u.round = t.round
        /\ u.ask = index
    BY <1>1 DEF TaskRec
  <1> HIDE DEF u
  <1>7. RevealSound(u)  BY <1>1, <1>6 DEF RevealSound, InHand, index
  <1>8. TaskSound(u)  BY <1>1, <1>6, <1>7 DEF TaskSound
  <1> QED  BY <1>1, <1>4, <1>5, <1>8, TaskReads DEF OnlyTask, pageVars

LEMMA GetBidStateKeeps ==
    ASSUME IInv, NEW s \in Slot, GetBidState(s) PROVE IInv'
  <1> DEFINE t == task[s]
  <1>1. /\ t \in TaskRec /\ TaskSound(t) /\ t.op = "reveal" /\ t.at = "states" /\ OnlyTask
        /\ t.case \in Case /\ t.round \in RoundId /\ Past(t.round)
        /\ task \in [Slot -> TaskRec] /\ t.ask \subseteq Wallet /\ t.todo \subseteq Wallet
        /\ t.clean => Index(t.round) \subseteq chain[t.round].revealed \cup t.ask \cup t.todo
    BY TaskFacts DEF IInv, TasksSound, GetBidState, At, TaskSound, RevealSound, InHand
  <1>2. CASE \E w \in t.ask :
              task' = [task EXCEPT ![s].ask = @ \ {w},
                          ![s].todo = IF w \in chain[t.round].revealed THEN @ ELSE @ \cup {w}]
    <2>1. PICK w \in t.ask :
            task' = [task EXCEPT ![s].ask = @ \ {w},
                        ![s].todo = IF w \in chain[t.round].revealed THEN @ ELSE @ \cup {w}]
      BY <1>2
    <2> DEFINE ask == t.ask \ {w}
               todo == IF w \in chain[t.round].revealed THEN t.todo ELSE t.todo \cup {w}
               u == [t EXCEPT !.ask = ask, !.todo = todo]
    <2>2. ask \in SUBSET Wallet /\ todo \in SUBSET Wallet  BY <1>1
    <2>3. task' = [task EXCEPT ![s] = u]  BY <1>1, <2>1 DEF TaskRec
    <2>4. t.clean => Index(t.round) \subseteq chain[t.round].revealed \cup ask \cup todo
      BY <1>1
    <2> HIDE DEF ask, todo
    <2>5. u \in TaskRec  BY <1>1, <2>2, Zenon DEF TaskRec
    <2>6. /\ u.at = "states" /\ u.op = t.op /\ u.case = t.case /\ u.round = t.round
          /\ u.ask = ask /\ u.todo = todo /\ u.clean = t.clean
      BY <1>1 DEF TaskRec
    <2> HIDE DEF u
    <2>7. RevealSound(u)  BY <1>1, <2>4, <2>6 DEF RevealSound, InHand
    <2>8. TaskSound(u)  BY <1>1, <2>6, <2>7 DEF TaskSound
    <2> QED  BY <1>1, <2>3, <2>5, <2>8, TaskReads DEF OnlyTask, pageVars
  <1>3. CASE t.ask = {} /\ Goto(s, "next")
    <2> DEFINE u == [t EXCEPT !.at = "next"]
    <2>1. /\ u.at = "next" /\ u.op = t.op /\ u.case = t.case /\ u.round = t.round
          /\ u.ask = t.ask /\ u.todo = t.todo /\ u.clean = t.clean
      BY <1>1, GotoTask DEF AtSet
    <2>2. TaskSound(u)
      <3> HIDE DEF u
      <3> QED  BY <1>1, <1>3, <2>1 DEF TaskSound, RevealSound, InHand
    <2> QED  BY <1>1, <1>3, <2>2, GotoKeeps DEF AtSet
  <1> QED  BY <1>2, <1>3 DEF GetBidState

LEMMA GetSealKeeps ==
    ASSUME IInv, NEW s \in Slot, GetSeal(s) PROVE IInv'
  <1> DEFINE t == task[s]
  <1>1. /\ t \in TaskRec /\ TaskSound(t) /\ t.op = "reveal" /\ t.at = "next" /\ OnlyTask
        /\ t.case \in Case /\ t.round \in RoundId /\ Past(t.round) /\ t.ask = {}
        /\ task \in [Slot -> TaskRec] /\ t.todo \subseteq Wallet /\ t.copy \in Sealed
        /\ t.clean \in BOOLEAN
        /\ t.clean => Index(t.round) \subseteq chain[t.round].revealed \cup t.todo
    BY TaskFacts DEF IInv, TasksSound, GetSeal, At, TaskSound, RevealSound, InHand
  <1>2. PICK w \in t.todo :
          LET sealed == IF w \in chain[t.round].seals THEN chain[t.round].entry[w]
                        ELSE IF w = t.by THEN t.copy ELSE NoEntry
          IN task' = [task EXCEPT ![s].todo = @ \ {w},
                         ![s].at = IF sealed = NoEntry THEN "next" ELSE "seal",
                         ![s].entry = sealed, ![s].who = w,
                         ![s].clean = @ /\ sealed # NoEntry]
    BY DEF GetSeal
  <1> DEFINE sealed == IF w \in chain[t.round].seals THEN chain[t.round].entry[w]
                       ELSE IF w = t.by THEN t.copy ELSE NoEntry
             at == IF sealed = NoEntry THEN "next" ELSE "seal"
             todo == t.todo \ {w}
             clean == t.clean /\ sealed # NoEntry
             u == [t EXCEPT !.todo = todo, !.at = at, !.entry = sealed, !.who = w, !.clean = clean]
  <1>3. sealed \in Sealed /\ w \in Wallet
    BY <1>1, <1>2 DEF IInv, ChainInv, ChainRec, Sealed
  <1>4. at \in AtSet /\ at \in {"next", "seal"} /\ (clean => at = "seal")  BY DEF AtSet
  <1>5. todo \in SUBSET Wallet /\ clean \in BOOLEAN /\ w \in Wallet \cup {NoOne}
    BY <1>1, <1>3
  <1>6. task' = [task EXCEPT ![s].todo = todo, ![s].at = at, ![s].entry = sealed, ![s].who = w,
                             ![s].clean = clean]
    BY <1>1, <1>2, Zenon
  <1>7. clean => Index(t.round) \subseteq chain[t.round].revealed \cup todo \cup {w}
    BY <1>1
  <1> HIDE DEF at, todo, clean, sealed
  <1>8. task' = [task EXCEPT ![s] = u]  BY <1>1, <1>6 DEF TaskRec
  <1>9. u \in TaskRec  BY <1>1, <1>3, <1>4, <1>5, Zenon DEF TaskRec
  <1>10. /\ u.at = at /\ u.op = t.op /\ u.case = t.case /\ u.round = t.round
         /\ u.ask = t.ask /\ u.todo = todo /\ u.clean = clean /\ u.who = w
    BY <1>1 DEF TaskRec
  <1> HIDE DEF u
  <1>11. RevealSound(u)
    BY <1>1, <1>3, <1>4, <1>7, <1>10 DEF RevealSound, InHand
  <1>12. TaskSound(u)  BY <1>1, <1>4, <1>10, <1>11 DEF TaskSound
  <1> QED  BY <1>1, <1>8, <1>9, <1>12, TaskReads DEF OnlyTask, pageVars

----------------------------------------------------------------------------
(* The reads of a refresh *)

LEMMA SnapMoves ==
    ASSUME IInv, NEW s \in Slot, NEW at \in {"index", "bids"}, NEW ask \in SUBSET Wallet,
           NEW snap \in LiveRec, OnlyTask, task[s].at \in {"refresh", "index", "bids"},
           task' = [task EXCEPT ![s] = [task[s] EXCEPT !.at = at, !.snap = snap, !.ask = ask]],
           ReadOf(snap, task[s].round), at = "bids" => FinalList(snap, task[s].round)
    PROVE  IInv'
  <1> DEFINE t == task[s]
             u == [t EXCEPT !.at = at, !.snap = snap, !.ask = ask]
  <1>1. /\ t \in TaskRec /\ at \in AtSet
        /\ t.case \in Case /\ t.round \in RoundId
    BY TaskFacts DEF IInv, TaskSound, AtSet
  <1>2. /\ u \in TaskRec /\ u.at = at /\ u.snap = snap
        /\ u.op = t.op /\ u.case = t.case /\ u.round = t.round
    <2>1. u \in TaskRec  BY <1>1, Zenon DEF TaskRec
    <2> QED  BY <1>1, <2>1 DEF TaskRec
  <1>3. task' = [task EXCEPT ![s] = u]  OBVIOUS
  <1> HIDE DEF u
  <1>4. TaskSound(u)  BY <1>1, <1>2 DEF TaskSound, RevealSound
  <1> QED  BY <1>2, <1>3, <1>4, TaskReads DEF OnlyTask, pageVars

LEMMA RefreshRoundKeeps ==
    ASSUME IInv, NEW s \in Slot, RefreshRound(s) PROVE IInv'
  <1> DEFINE t == task[s]
             r == t.round
             snap == [NoLive EXCEPT !.id = r, !.status = chain[r].status]
  <1>1. /\ t \in TaskRec /\ task \in [Slot -> TaskRec] /\ OnlyTask /\ t.at = "refresh"
        /\ r \in RoundId /\ r \in 0..MaxRound /\ chain[r].status # "Absent" /\ t.ask \in SUBSET Wallet
        /\ task' = [task EXCEPT ![s].at = "index", ![s].snap = snap]
    BY TaskFacts DEF IInv, TasksSound, RefreshRound, TaskSound
  <1>2. chain[r].status \in StageSet  BY <1>1 DEF IInv, ChainInv, ChainRec
  <1>3. /\ snap \in LiveRec /\ snap.id = r /\ snap.status = chain[r].status
        /\ snap.bidders = {} /\ snap.revealed = {}
    <2>1. NoLive \in LiveRec  BY SessionAssumption DEF NoLive, LiveRec, StageSet
    <2>2. NoLive.bidders = {} /\ NoLive.revealed = {}  BY DEF NoLive
    <2> QED  BY <1>1, <1>2, <2>1, <2>2 DEF LiveRec
  <1>4. snap \in LiveRec /\ ReadOf(snap, r)
    <2> HIDE DEF snap
    <2> QED  BY <1>1, <1>2, <1>3 DEF ReadOf, NotAfter
  <1> HIDE DEF snap, r
  <1>5. task' = [task EXCEPT ![s] = [task[s] EXCEPT !.at = "index", !.snap = snap, !.ask = t.ask]]
    BY <1>1 DEF TaskRec
  <1> QED  BY <1>1, <1>4, <1>5, SnapMoves DEF r

LEMMA RefreshBiddersKeeps ==
    ASSUME IInv, NEW s \in Slot, RefreshBidders(s) PROVE IInv'
  <1> DEFINE t == task[s]
             r == t.round
             index == Index(r)
             snap == [t.snap EXCEPT !.bidders = index]
  <1>1. /\ t \in TaskRec /\ task \in [Slot -> TaskRec] /\ OnlyTask /\ t.at = "index"
        /\ t.snap \in LiveRec /\ ReadOf(t.snap, r) /\ index \in SUBSET Wallet
        /\ task' = [task EXCEPT ![s].at = "bids", ![s].snap.bidders = index, ![s].ask = index]
    BY TaskFacts DEF IInv, TasksSound, RefreshBidders, TaskSound, Index
  <1>2. /\ snap \in LiveRec /\ snap.id = t.snap.id /\ snap.status = t.snap.status
        /\ snap.bidders = index /\ snap.revealed = t.snap.revealed
    BY <1>1 DEF LiveRec
  <1> HIDE DEF snap
  <1>3. ReadOf(snap, r) /\ FinalList(snap, r)  BY <1>1, <1>2 DEF ReadOf, FinalList
  <1> HIDE DEF index
  <1>4. task' = [task EXCEPT ![s] = [task[s] EXCEPT !.at = "bids", !.snap = snap, !.ask = index]]
    BY <1>1 DEF TaskRec, LiveRec, snap
  <1> QED  BY <1>1, <1>2, <1>3, <1>4, SnapMoves

LEMMA RefreshBidKeeps ==
    ASSUME IInv, NEW s \in Slot, RefreshBid(s) PROVE IInv'
  <1> DEFINE t == task[s]
             r == t.round
  <1>1. /\ t \in TaskRec /\ task \in [Slot -> TaskRec] /\ OnlyTask /\ t.at = "bids"
        /\ t.snap \in LiveRec /\ ReadOf(t.snap, r) /\ FinalList(t.snap, r) /\ r \in RoundId
        /\ t.ask \subseteq Wallet
    BY TaskFacts DEF IInv, TasksSound, RefreshBid, TaskSound
  <1>2. PICK w \in t.ask :
          task' = [task EXCEPT ![s].ask = @ \ {w},
                      ![s].snap.revealed = @ \cup ({w} \cap chain[r].revealed)]
    BY DEF RefreshBid
  <1> DEFINE ask == t.ask \ {w}
             revealed == t.snap.revealed \cup ({w} \cap chain[r].revealed)
             snap == [t.snap EXCEPT !.revealed = revealed]
  <1>3. /\ ask \in SUBSET Wallet /\ revealed \in SUBSET Wallet
        /\ revealed \subseteq chain[r].revealed
    BY <1>1 DEF LiveRec, ReadOf
  <1>4. /\ snap \in LiveRec /\ snap.id = t.snap.id /\ snap.status = t.snap.status
        /\ snap.bidders = t.snap.bidders /\ snap.revealed = revealed
    BY <1>1, <1>3 DEF LiveRec
  <1> HIDE DEF snap
  <1>5. ReadOf(snap, r) /\ FinalList(snap, r)  BY <1>1, <1>3, <1>4 DEF ReadOf, FinalList
  <1>6. task' = [task EXCEPT ![s].ask = ask, ![s].snap.revealed = revealed]
    BY <1>1, <1>2, Zenon
  <1> HIDE DEF ask, revealed
  <1>7. task' = [task EXCEPT ![s] = [task[s] EXCEPT !.at = "bids", !.snap = snap, !.ask = ask]]
    BY <1>1, <1>6 DEF TaskRec, LiveRec, snap
  <1> QED  BY <1>1, <1>3, <1>4, <1>5, <1>7, SnapMoves

(* The snapshot replaces the one of its case. *)
LEMMA RefreshDoneKeeps ==
    ASSUME IInv, NEW s \in Slot, RefreshDone(s) PROVE IInv'
  <1> DEFINE t == task[s]
             c == t.case
             patch == [session[c] EXCEPT !.live = t.snap]
  <1>0. ChainStep /\ Forward  BY NoChainStep DEF IInv, RefreshDone, ChainStep
  <1>1. /\ t \in TaskRec /\ t.at = "bids" /\ c \in Case /\ t.snap \in LiveRec
        /\ ReadOf(t.snap, t.round) /\ FinalList(t.snap, t.round)
        /\ session \in [Case -> SessionRec]
    BY TaskFacts DEF IInv, RefreshDone, TaskSound, PageTyped
  <1>2. LiveSound(t.snap)
    <2>1. t.snap.id = t.round  BY <1>1 DEF ReadOf
    <2> QED  BY <1>1, <2>1 DEF LiveSound
  <1>3. patch \in SessionRec /\ patch.round = session[c].round /\ patch.live = t.snap
    BY <1>1 DEF SessionRec
  <1>4. session' = [session EXCEPT ![c] = patch] /\ End(s) /\ asked' = asked /\ active' = active
        /\ address' = address /\ toast' = toast /\ chain' = chain
    BY DEF RefreshDone, updateSession
  <1> HIDE DEF patch, c
  <1>5. TasksSound'  BY <1>0, <1>4, EndKeeps DEF IInv
  <1>6. PageTyped'  BY <1>1, <1>3, <1>4 DEF IInv, PageTyped
  <1>7. SessionsSound'
    <2>1. ASSUME NEW d \in Case
          PROVE  /\ session'[d].round # 0 => session'[d].round \in asked'[d]
                 /\ LiveSound(session'[d].live)
      BY <1>1, <1>2, <1>3, <1>4 DEF IInv, SessionsSound
    <2> QED  BY <1>4, <2>1 DEF SessionsSound, LiveSound, ReadOf, FinalList, Index
  <1>8. (toast \in ToastRec /\ ToastSound(toast))'  BY <1>0, <1>4, ToastStays DEF IInv
  <1> QED  BY <1>0, <1>5, <1>6, <1>7, <1>8 DEF IInv, ChainStep

----------------------------------------------------------------------------
(* The wallet, and the transactions *)

LEMMA AccessKeeps ==
    ASSUME IInv, NEW s \in Slot, access(s) PROVE IInv'
  <1> DEFINE t == task[s]
             u == [t EXCEPT !.at = "network"]
  <1>1. /\ t \in TaskRec /\ TaskSound(t) /\ t.at = "access" /\ t.case \in Case
        /\ task \in [Slot -> TaskRec] /\ Goto(s, "network")
        /\ address' \in Wallet /\ chain' = chain
        /\ UNCHANGED <<active, session, toast, asked>>
    BY TaskFacts DEF IInv, TasksSound, access, At, TaskSound
  <1>2. u \in TaskRec /\ u.at = "network" /\ u.case = t.case /\ u.op = t.op
    <2>1. "network" \in AtSet  BY DEF AtSet
    <2> QED  BY <1>1, <2>1, GotoTask
  <1>3. task' = [task EXCEPT ![s] = u]  BY <1>1 DEF Goto, TaskRec
  <1> HIDE DEF u
  <1>4. /\ task' \in [Slot -> TaskRec] /\ task'[s] = u
        /\ \A q \in Slot : q # s => task'[q] = task[q]
    BY <1>1, <1>2, <1>3
  <1>5. TaskSound(task[s])'  BY <1>1, <1>2, <1>4 DEF TaskSound, RevealSound
  <1>6. ChainStep  BY <1>1, NoChainStep DEF IInv
  <1> QED  BY <1>1, <1>4, <1>5, <1>6, TaskMoves

LEMMA NetworkKeeps ==
    ASSUME IInv, NEW s \in Slot, network(s) PROVE IInv'
  <1>1. /\ End(s) /\ Told(s, "success") /\ task[s].op = "connect" /\ chain' = chain
        /\ session' = session /\ asked' = asked /\ active' = active /\ address' = address
    BY DEF network, At
  <1>2. ChainStep /\ Forward  BY <1>1, NoChainStep DEF IInv, ChainStep
  <1>3. TasksSound'  BY <1>1, <1>2, EndKeeps DEF IInv
  <1>4. PageTyped' /\ SessionsSound'  BY <1>1, <1>2, SessionsLast DEF IInv, PageTyped
  <1>5. toast' \in ToastRec  BY <1>1, TaskFacts DEF IInv, Told, ToastRec
  <1>6. toast'.op = "connect"  BY <1>1 DEF Told
  <1>7. ToastSound(toast)'  BY <1>6 DEF ToastSound
  <1> QED  BY <1>2, <1>3, <1>4, <1>5, <1>7 DEF IInv, ChainStep

(* a case that starts on a round it asked for *)
LEMMA FreshSession ==
    ASSUME NEW r \in RoundId
    PROVE  LET patch == [EmptySession EXCEPT !.round = r] IN
           patch \in SessionRec /\ patch.round = r /\ LiveSound(patch.live)
  <1> DEFINE patch == [EmptySession EXCEPT !.round = r]
  <1>1. EmptySession \in SessionRec
    BY SessionAssumption DEF EmptySession, SessionRec, NoLive, LiveRec, StageSet, Sealed
  <1>2. r \in 0..MaxRound  BY RoundsAreNat
  <1>3. patch \in SessionRec /\ patch.round = r /\ patch.live = EmptySession.live
    BY <1>1, <1>2 DEF SessionRec
  <1>4. EmptySession.live = NoLive  BY DEF EmptySession
  <1> QED  BY <1>3, <1>4 DEF LiveSound

LEMMA AskedGrows ==
    ASSUME IInv, NEW c \in Case, NEW r \in RoundId, asked' = [asked EXCEPT ![c] = @ \cup {r}]
    PROVE  /\ asked' \in [Case -> SUBSET RoundId] /\ r \in asked'[c]
           /\ \A d \in Case : asked[d] \subseteq asked'[d]
  BY DEF IInv, PageTyped

LEMMA CreateTxKeeps ==
    ASSUME IInv, NEW s \in Slot, CreateTx(s) PROVE IInv'
  <1> DEFINE t == task[s]
             c == t.case
  <1>1. /\ t \in TaskRec /\ t.op = "create" /\ c \in Case
    BY TaskFacts DEF IInv, CreateTx, At, TaskSound
  <1>2. PICK r \in RoundId :
          /\ Create(r)
          /\ \/ /\ Done(s, c, [EmptySession EXCEPT !.round = r], r)
                /\ asked' = [asked EXCEPT ![c] = @ \cup {r}]
             \/ Lost(s)
    BY DEF CreateTx
  <1>3. ChainStep /\ chain'[r].status # "Absent"  BY <1>2, CreateSteps DEF IInv
  <1>4. CASE Lost(s)  BY <1>3, <1>4, CatchKeeps DEF Lost
  <1>5. CASE /\ Done(s, c, [EmptySession EXCEPT !.round = r], r)
             /\ asked' = [asked EXCEPT ![c] = @ \cup {r}]
    <2> DEFINE patch == [EmptySession EXCEPT !.round = r]
    <2>1. patch \in SessionRec /\ patch.round = r /\ LiveSound(patch.live)  BY FreshSession
    <2>2. Done(s, c, patch, r)  BY <1>5
    <2> HIDE DEF patch, c
    <2>3. /\ asked' \in [Case -> SUBSET RoundId] /\ r \in asked'[c]
          /\ \A d \in Case : asked[d] \subseteq asked'[d]
      BY <1>1, <1>5, AskedGrows
    <2> QED  BY <1>1, <1>3, <2>1, <2>2, <2>3, DoneKeeps DEF c
  <1> QED  BY <1>2, <1>4, <1>5

LEMMA JoinReadKeeps ==
    ASSUME IInv, NEW s \in Slot, JoinRead(s) PROVE IInv'
  <1> DEFINE t == task[s]
             c == t.case
             r == t.round
             patch == [EmptySession EXCEPT !.round = r]
  <1>1. /\ t \in TaskRec /\ t.op = "join" /\ c \in Case /\ r \in RoundId
        /\ chain' = chain /\ chain[r].status = "Open"
        /\ Done(s, c, patch, r) /\ asked' = [asked EXCEPT ![c] = @ \cup {r}]
    BY TaskFacts DEF IInv, JoinRead, At, TaskSound
  <1>2. patch \in SessionRec /\ patch.round = r /\ LiveSound(patch.live)
    BY <1>1, FreshSession
  <1> HIDE DEF patch, c, r
  <1>3. /\ asked' \in [Case -> SUBSET RoundId] /\ r \in asked'[c]
        /\ \A d \in Case : asked[d] \subseteq asked'[d]
    BY <1>1, AskedGrows
  <1>4. ChainStep /\ chain'[r].status # "Absent"  BY <1>1, NoChainStep DEF IInv
  <1> QED  BY <1>1, <1>2, <1>3, <1>4, DoneKeeps DEF c

LEMMA SameAsked ==
    ASSUME IInv, asked' = asked
    PROVE  /\ asked' \in [Case -> SUBSET RoundId]
           /\ \A d \in Case : asked[d] \subseteq asked'[d]
  BY DEF IInv, PageTyped

LEMMA CommitTxKeeps ==
    ASSUME IInv, NEW s \in Slot, CommitTx(s) PROVE IInv'
  <1> DEFINE t == task[s]
             c == t.case
             patch == [session[c] EXCEPT !.sealed = t.entry]
  <1>0. PICK r : r = t.round  OBVIOUS
  <1>1. /\ t \in TaskRec /\ t.op = "commit" /\ c \in Case /\ r \in RoundId
        /\ t.by \in Wallet /\ t.entry \in Entry
        /\ Commit(r, t.by, t.entry) /\ (Done(s, c, patch, r) \/ Lost(s)) /\ asked' = asked
    BY <1>0, TaskFacts DEF IInv, CommitTx, At, TaskSound
  <1>2. ChainStep /\ chain'[r].status # "Absent" /\ t.by \in Index(r)'
    <2>1. PICK w \in Wallet, e \in Entry : w = t.by /\ e = t.entry  BY <1>1
    <2>2. ChainInv /\ Commit(r, w, e) /\ e \in Entry \cup {Junk}  BY <1>1, <2>1 DEF IInv
    <2>3. ChainStep /\ chain'[r].status # "Absent" /\ w \in Index(r)'
      BY <1>1, <2>2, CommitSteps
    <2> QED  BY <2>1, <2>3
  <1>3. CASE Lost(s)  BY <1>2, <1>3, CatchKeeps DEF Lost
  <1>4. CASE Done(s, c, patch, r)
    <2>1. session[c] \in SessionRec  BY <1>1 DEF IInv, PageTyped
    <2>2. /\ patch \in SessionRec /\ patch.round = session[c].round
          /\ patch.live = session[c].live
      BY <1>1, <2>1 DEF SessionRec, Sealed
    <2>3. Done(s, c, patch, r)  BY <1>4
    <2> HIDE DEF patch, c
    <2>4. LiveSound(patch.live) /\ (patch.round # 0 => patch.round \in asked'[c])
      BY <1>1, <2>2 DEF IInv, SessionsSound
    <2> QED  BY <1>1, <1>2, <2>2, <2>3, <2>4, SameAsked, DoneKeeps DEF c
  <1> QED  BY <1>1, <1>3, <1>4

LEMMA OpenTxKeeps ==
    ASSUME IInv, NEW s \in Slot, OpenTx(s) PROVE IInv'
  <1> DEFINE t == task[s]
             u == [t EXCEPT !.at = "reread"]
  <1>1. /\ t \in TaskRec /\ t.op = "reveal" /\ t.case \in Case /\ t.round \in RoundId
        /\ task \in [Slot -> TaskRec] /\ OpenReveal(t.round)
    BY TaskFacts DEF IInv, TasksSound, OpenTx, At, TaskSound
  <1>2. ChainStep  BY <1>1, OpenSteps DEF IInv
  <1>3. CASE Lost(s)  BY <1>2, <1>3, CatchKeeps DEF Lost
  <1>4. CASE Goto(s, "reread") /\ UNCHANGED pageVars
    <2>1. u \in TaskRec /\ u.at = "reread" /\ u.op = t.op /\ u.case = t.case /\ u.round = t.round
      BY <1>1, GotoTask DEF AtSet
    <2>2. task' = [task EXCEPT ![s] = u]  BY <1>1, <1>4 DEF Goto, TaskRec
    <2> HIDE DEF u
    <2>3. /\ task' \in [Slot -> TaskRec] /\ task'[s] = u
          /\ \A q \in Slot : q # s => task'[q] = task[q]
      BY <1>1, <2>1, <2>2
    <2>4. TaskSound(task[s])'  BY <1>1, <2>1, <2>3 DEF TaskSound, RevealSound
    <2>5. address' \in Wallet \cup {NoOne}  BY <1>4 DEF IInv, PageTyped, pageVars
    <2> QED  BY <1>2, <1>4, <2>3, <2>4, <2>5, TaskMoves DEF pageVars
  <1> QED  BY <1>3, <1>4 DEF OpenTx

LEMMA RevealTxKeeps ==
    ASSUME IInv, NEW s \in Slot, RevealTx(s) PROVE IInv'
  <1> DEFINE t == task[s]
  <1>0. PICK r : r = t.round  OBVIOUS
  <1>1. /\ t \in TaskRec /\ TaskSound(t) /\ t.op = "reveal" /\ t.at = "seal" /\ t.case \in Case
        /\ r \in RoundId /\ task \in [Slot -> TaskRec] /\ t.who \in Wallet /\ t.ask = {}
        /\ Past(r) /\ Reveal(r, t.who, t.entry) /\ t.revealed \in Nat
        /\ t.clean => Index(r) \subseteq chain[r].revealed \cup t.todo \cup {t.who}
    BY <1>0, TaskFacts DEF IInv, TasksSound, RevealTx, At, TaskSound, RevealSound, InHand
  <1>2. ChainStep /\ t.who \in chain'[r].revealed  BY <1>1, RevealSteps DEF IInv
  <1>3. CASE Lost(s)  BY <1>2, <1>3, CatchKeeps DEF Lost
  <1>4. CASE /\ task' = [task EXCEPT ![s].at = "next", ![s].revealed = @ + 1]
             /\ UNCHANGED pageVars
    <2> DEFINE n == t.revealed + 1
               u == [t EXCEPT !.at = "next", !.revealed = n]
    <2>1. n \in Nat /\ "next" \in AtSet  BY <1>1 DEF AtSet
    <2>2. task' = [task EXCEPT ![s] = u]  BY <1>1, <1>4 DEF TaskRec
    <2> HIDE DEF n
    <2>3. u \in TaskRec  BY <1>1, <2>1, Zenon DEF TaskRec
    <2>4. /\ u.at = "next" /\ u.op = t.op /\ u.case = t.case /\ u.round = t.round
          /\ u.ask = t.ask /\ u.todo = t.todo /\ u.clean = t.clean
      BY <1>1 DEF TaskRec
    <2> HIDE DEF u
    <2>5. /\ task' \in [Slot -> TaskRec] /\ task'[s] = u
          /\ \A q \in Slot : q # s => task'[q] = task[q]
      BY <1>1, <2>2, <2>3
    <2>6. Past(r)' /\ Index(r)' = Index(r) /\ chain[r].revealed \subseteq chain'[r].revealed
      BY <1>1, <1>2, PastLasts DEF ChainStep
    <2>7. RevealSound(task[s])'
      BY <1>0, <1>1, <1>2, <2>4, <2>5, <2>6 DEF RevealSound, InHand
    <2>8. TaskSound(task[s])'  BY <1>0, <1>1, <2>4, <2>5, <2>7 DEF TaskSound
    <2>9. address' \in Wallet \cup {NoOne}  BY <1>4 DEF IInv, PageTyped, pageVars
    <2> QED  BY <1>2, <1>4, <2>5, <2>8, <2>9, TaskMoves DEF pageVars
  <1> QED  BY <1>3, <1>4 DEF RevealTx

LEMMA RevealsDoneKeeps ==
    ASSUME IInv, NEW s \in Slot, RevealsDone(s) PROVE IInv'
  <1> DEFINE t == task[s]
             c == t.case
  <1>0. PICK r : r = t.round  OBVIOUS
  <1>1. /\ t \in TaskRec /\ t.op = "reveal" /\ c \in Case /\ r \in RoundId /\ Past(r)
        /\ t.clean => Index(r) \subseteq chain[r].revealed
        /\ Done(s, c, session[c], r) /\ chain' = chain /\ asked' = asked
    BY <1>0, TaskFacts DEF IInv, RevealsDone, At, TaskSound, RevealSound, InHand
  <1>2. /\ session[c] \in SessionRec /\ LiveSound(session[c].live)
        /\ session[c].round # 0 => session[c].round \in asked'[c]
    BY <1>1 DEF IInv, PageTyped, SessionsSound
  <1> HIDE DEF c
  <1>3. ChainStep  BY <1>1, NoChainStep DEF IInv
  <1>4. /\ Past(r)' /\ chain'[r].status # "Absent"
        /\ t.clean => Index(r)' \subseteq chain'[r].revealed
    BY <1>1 DEF Past, Index
  <1> QED  BY <1>0, <1>1, <1>2, <1>3, <1>4, SameAsked, DoneKeeps DEF c

----------------------------------------------------------------------------
(* The theorems *)

LEMMA ContinueKeeps ==
    ASSUME IInv, NEW s \in Slot, Continue(s) PROVE IInv'
  BY ThrowKeeps, AccessKeeps, NetworkKeeps, CreateTxKeeps, JoinReadKeeps, CommitTxKeeps,
     OpenReadKeeps, OpenTxKeeps, RereadKeeps, GetBiddersKeeps, GetBidStateKeeps, GetSealKeeps,
     RevealTxKeeps, RevealsDoneKeeps, RefreshRoundKeeps, RefreshBiddersKeeps, RefreshBidKeeps,
     RefreshDoneKeeps
  DEF Continue

LEMMA SameKeeps ==
    ASSUME IInv, ChainStep, UNCHANGED <<address, session, task, toast, asked>>, active' \in Case
    PROVE  IInv'
  <1>1. TasksSound'  BY SameTasks DEF IInv, ChainStep
  <1>2. PageTyped' /\ SessionsSound'  BY SessionsLast DEF IInv, PageTyped, ChainStep
  <1>3. (toast \in ToastRec /\ ToastSound(toast))'  BY ToastStays DEF IInv, ChainStep
  <1> QED  BY <1>1, <1>2, <1>3 DEF IInv, ChainStep

(* Whoever else bids, opens, reveals or clears, and in whatever order the  *)
(* answers come, each handler, each case and the last announcement agree   *)
(* with the rounds they are about (useRoundSession).                       *)
THEOREM Inductive == Spec => []IInv
  <1>1. ASSUME IInv, [Next]_vars PROVE IInv'
    <2>1. CASE Others
      <3>1. ChainStep  BY <1>1, <2>1, OthersStep DEF IInv
      <3>2. UNCHANGED <<address, session, task, toast, asked>> /\ active' = active
        BY <2>1 DEF Others, pageVars
      <3>3. active' \in Case  BY <1>1, <3>2 DEF IInv, PageTyped
      <3> QED  BY <1>1, <3>1, <3>2, <3>3, SameKeeps
    <2>2. CASE setActive
      <3>1. ChainStep  BY <1>1, <2>2, NoChainStep DEF IInv, setActive
      <3>2. UNCHANGED <<address, session, task, toast, asked>> /\ active' \in Case
        BY <2>2 DEF setActive
      <3> QED  BY <1>1, <3>1, <3>2, SameKeeps
    <2>3. CASE \E s \in Slot : User(s) \/ Continue(s)
      BY <1>1, <2>3, UserKeeps, ContinueKeeps
    <2>4. CASE UNCHANGED vars
      <3>1. ChainStep  BY <1>1, <2>4, NoChainStep DEF IInv, vars
      <3>2. UNCHANGED <<address, session, task, toast, asked>> /\ active' \in Case
        BY <1>1, <2>4 DEF vars, pageVars, IInv, PageTyped
      <3> QED  BY <1>1, <3>1, <3>2, SameKeeps
    <2> QED  BY <1>1, <2>1, <2>2, <2>3, <2>4 DEF Next
  <1> QED  BY <1>1, InitInv, PTL DEF Spec

(* A handler that answers after the user has moved to another case writes  *)
(* the case it was started in (updateSession with the id captured).        *)
THEOREM CasesKeepTheirRounds == Spec => []RoundsOfTheirCase
  <1>1. ASSUME IInv PROVE RoundsOfTheirCase
    BY <1>1 DEF IInv, SessionsSound, RoundsOfTheirCase
  <1> QED  BY <1>1, Inductive, PTL

(* The snapshot of a case is never ahead of the chain, and its bidders are *)
(* final once it is past Open (refresh).                                   *)
THEOREM SnapshotsWereTrue == Spec => []LiveWasTrue
  <1>1. ASSUME IInv PROVE LiveWasTrue
    <2> SUFFICES ASSUME NEW c \in Case, session[c].live # NoLive
                 PROVE  LET v == session[c].live IN
                        /\ Rank(Stages, v.status) <= Rank(Stages, chain[v.id].status)
                        /\ v.bidders \subseteq Index(v.id)
                        /\ v.revealed \subseteq chain[v.id].revealed
                        /\ v.status # "Open" => v.bidders = Index(v.id)
      BY DEF LiveWasTrue
    <2> DEFINE v == session[c].live
    <2>1. ReadOf(v, v.id) /\ FinalList(v, v.id)
      BY <1>1 DEF IInv, SessionsSound, LiveSound
    <2>2. v.status \in StageSet /\ NotAfter(v.status, chain[v.id].status) /\ v.id \in RoundId
      BY <2>1 DEF ReadOf
    <2>3. chain[v.id].status \in StageSet  BY <1>1, <2>2 DEF IInv, ChainInv, ChainRec
    <2>4. Rank(Stages, v.status) <= Rank(Stages, chain[v.id].status)
      BY <2>2, <2>3, NotAfterRank
    <2> QED  BY <2>1, <2>4 DEF ReadOf, FinalList
  <1> QED  BY <1>1, Inductive, PTL

(* What a handler announces is so: the round exists, the wallet has a bid  *)
(* in it, or every bid of it is open.                                      *)
THEOREM AnnouncementsHold == Spec => []ToastsHold
  <1>1. ASSUME IInv PROVE ToastsHold
    <2>1. ToastSound(toast) /\ \A r \in RoundId : chain[r].revealed \subseteq Index(r)
      BY <1>1 DEF IInv, ChainInv
    <2> QED  BY <2>1 DEF ToastSound, ToastsHold
  <1> QED  BY <1>1, Inductive, PTL

=============================================================================
