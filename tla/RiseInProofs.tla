---------------------------- MODULE RiseInProofs ----------------------------
(***************************************************************************)
(* Proofs about RiseInPanel, for any wallets, tabs, rounds and number of   *)
(* transactions and polls.  The argument: the contract and the network     *)
(* never take back what a tab may rely on (a landed transaction stays      *)
(* landed, a round keeps its owner, a stored commitment is never           *)
(* overwritten), and a tab claims only what it has seen land.              *)
(***************************************************************************)
EXTENDS RiseInPanel, FiniteSetTheorems, SequenceTheorems, TLAPS

Forms == {"pay", "create", "commit"}
Fates == {"pending", "success", "failed", "dropped"}
Tx == [src : Wallet, seq : Nat, kind : Forms, id : RoundId, entry : Entry \cup {NoEntry}]
CallRec ==
    [kind : Kinds \cup {"none"}, id : RoundId \cup {0}, entry : Entry \cup {NoEntry},
     seq : Nat, tx : Nat, polls : Nat]

NetworkInv ==
    /\ ContractTypeOK
    /\ sequence \in [Wallet -> Nat]
    /\ sent \in Seq(Tx) /\ fate \in Seq(Fates)
    /\ Len(fate) = Len(sent) /\ Len(sent) <= MaxTx
    /\ \A i \in DOMAIN sent : sent[i].kind = "commit" => sent[i].entry \in Entry

(* The contract holds what the landed transactions wrote, and commitments  *)
(* to rounds that exist only.                                              *)
LedgerInv ==
    /\ OnceEach
    /\ \A id \in RoundId : ~HasRound(id) => Committers(id) = {}

(* the transaction tab t has sent is the one its call describes *)
Mine(t) ==
    LET c == call[t] IN
    /\ c.tx \in DOMAIN sent
    /\ sent[c.tx].src = address[t] /\ sent[c.tx].kind = c.kind
    /\ sent[c.tx].id = c.id /\ sent[c.tx].entry = c.entry

(* where tab t is, and what it knows there *)
CallInv(t) ==
    LET c == call[t] IN
    /\ c \in CallRec /\ c.polls < MaxPolls /\ c.tx <= Len(sent)
    /\ pc[t] = "access" => address[t] = NoOne /\ c.kind = "connect"
    /\ pc[t] \notin {"idle", "access"} => address[t] # NoOne
    /\ pc[t] \in {"account", "prepare", "sign", "send"} =>
          c.kind \in Forms /\ c.id \in RoundId /\ (c.kind = "commit" => c.entry \in Entry)
    /\ pc[t] = "poll" => c.kind \in {"create", "commit"} /\ Mine(t)
    /\ pc[t] = "horizon" => c.kind = "pay" /\ Mine(t)
    /\ pc[t] = "balance" /\ c.kind = "pay" => Mine(t) /\ fate[c.tx] = "success"
    /\ pc[t] = "sync" =>
          /\ c.id \in RoundId
          /\ c.kind # "sync" => Mine(t) /\ fate[c.tx] = "success"

(* what tab t shows *)
FeedbackInv(t) ==
    feedback[t].kind = "success" =>
        /\ feedback[t].tx \in DOMAIN sent /\ fate[feedback[t].tx] = "success"
        /\ sent[feedback[t].tx].kind = feedback[t].of
        /\ sent[feedback[t].tx].src = address[t] /\ address[t] # NoOne

EvidenceInv(t) ==
    LET e == evidence[t] IN
    e # NoEvidence =>
        /\ e.id \in RoundId /\ e.by \in Wallet /\ e.entry \in Entry
        /\ e.by = address[t] /\ commits[<<e.id, e.by>>] = e.entry

ShownInv(t) ==
    LET s == shown[t] IN
    s # NoRound =>
        /\ s.id \in RoundId /\ s.count \in Nat
        /\ s.owner # NoOne /\ owner[s.id] = s.owner /\ s.count <= count[s.id]

TabInv(t) == CallInv(t) /\ FeedbackInv(t) /\ EvidenceInv(t) /\ ShownInv(t)

ViewTyped ==
    /\ address \in [Tab -> Wallet \cup {NoOne}] /\ field \in [Tab -> RoundId]
    /\ DOMAIN shown = Tab /\ DOMAIN evidence = Tab /\ DOMAIN feedback = Tab
    /\ DOMAIN busy = Tab /\ DOMAIN pc = Tab /\ DOMAIN call = Tab

IInv == NetworkInv /\ LedgerInv /\ ViewTyped /\ \A t \in Tab : TabInv(t)

----------------------------------------------------------------------------
(* what a tab may rely on: none of it is ever taken back *)
Onward ==
    /\ Len(sent) <= Len(sent') /\ DOMAIN sent \subseteq DOMAIN sent'
    /\ \A i \in DOMAIN sent :
          sent'[i] = sent[i] /\ (fate[i] = "success" => fate'[i] = "success")
    /\ \A id \in RoundId : HasRound(id) => owner'[id] = owner[id] /\ count[id] <= count'[id]
    /\ \A key \in RoundId \X Wallet : commits[key] # NoEntry => commits'[key] = commits[key]

LEMMA SentTyped ==
    ASSUME NetworkInv, NEW i \in DOMAIN sent
    PROVE  /\ sent[i].src \in Wallet /\ sent[i].id \in RoundId /\ sent[i].kind \in Forms
           /\ sent[i].seq \in Nat /\ sent[i].src # NoOne
           /\ sent[i].kind = "commit" => sent[i].entry \in Entry /\ sent[i].entry # NoEntry
<1>1. sent[i] \in Tx  BY ElementOfSeq, LenProperties DEF NetworkInv
<1>2. sent[i].kind = "commit" => sent[i].entry \in Entry  BY DEF NetworkInv
<1> QED  BY <1>1, <1>2, RiseInAssumption DEF Tx

LEMMA CommitteesFinite ==
    ASSUME NEW id
    PROVE  IsFiniteSet(Committers(id)) /\ Cardinality(Committers(id)) \in Nat
<1>1. Committers(id) \subseteq Wallet  BY DEF Committers
<1> QED  BY <1>1, RiseInAssumption, FS_Subset, FS_CardinalityType

LEMMA LandedFinite ==
    ASSUME NetworkInv, NEW kind, NEW id
    PROVE  IsFiniteSet(Landed(kind, id))
<1>1. Landed(kind, id) \subseteq 1..Len(sent)  BY DEF Landed, NetworkInv
<1>2. IsFiniteSet(1..Len(sent))  BY FS_Interval DEF NetworkInv
<1> QED  BY <1>1, <1>2, FS_Subset

(* a round that is created: it was not there, so nobody had committed *)
LEMMA CreateLands ==
    ASSUME NetworkInv, LedgerInv, NEW i \in DOMAIN sent, fate[i] = "pending",
           sent[i].kind = "create", create_round(sent[i].id, sent[i].src, FALSE),
           fate' = [fate EXCEPT ![i] = "success"], sent' = sent, NetworkInv'
    PROVE  LedgerInv' /\ Onward
<1> DEFINE r == sent[i].id
           w == sent[i].src
<1>1. r \in RoundId /\ w \in Wallet /\ w # NoOne
  BY SentTyped
<1>2. /\ owner' = [owner EXCEPT ![r] = w] /\ count' = [count EXCEPT ![r] = 0]
      /\ commits' = commits /\ owner[r] = NoOne
  BY DEF create_round, HasRound
<1>3. \A n \in DOMAIN sent : fate'[n] = IF n = i THEN "success" ELSE fate[n]
  BY DEF NetworkInv
<1>4. \A id \in RoundId :
        /\ Committers(id)' = Committers(id)
        /\ Landed("commit", id)' = Landed("commit", id)
        /\ Landed("create", id)' = IF id = r THEN Landed("create", id) \cup {i}
                                             ELSE Landed("create", id)
  <2>1. \A id \in RoundId : Committers(id)' = Committers(id)
    BY <1>2 DEF Committers, HasCommit
  <2>2. \A id \in RoundId : Landed("commit", id)' = Landed("commit", id)
    BY <1>3 DEF Landed
  <2>3. \A id \in RoundId :
          Landed("create", id)' = IF id = r THEN Landed("create", id) \cup {i}
                                            ELSE Landed("create", id)
    BY <1>3 DEF Landed
  <2> QED  BY <2>1, <2>2, <2>3
<1>5. Landed("create", r) = {} /\ Committers(r) = {} /\ count[r] = 0
  <2>1. \A n \in Landed("create", r) : sent[n].src # NoOne  BY SentTyped DEF Landed
  <2>2. Landed("create", r) = {}
    BY <1>1, <1>2, <2>1 DEF LedgerInv, OnceEach
  <2>3. Committers(r) = {}  BY <1>1, <1>2 DEF LedgerInv, HasRound
  <2>4. count[r] = 0  BY <1>1, <2>3, FS_EmptySet DEF LedgerInv, OnceEach
  <2> QED  BY <2>2, <2>3, <2>4
<1>6. \A id \in RoundId : owner'[id] = IF id = r THEN w ELSE owner[id]
  BY <1>2 DEF NetworkInv, ContractTypeOK
<1>7. \A id \in RoundId : count'[id] = count[id]
  BY <1>2, <1>5 DEF NetworkInv, ContractTypeOK
<1> HIDE DEF r, w
<1>8. OnceEach'
  <2> SUFFICES ASSUME NEW id \in RoundId
      PROVE  /\ \A n, m \in Landed("create", id)' : n = m
             /\ \A n \in Landed("create", id)' : owner'[id] = sent[n].src
             /\ \A n, m \in Landed("commit", id)' : sent[n].src = sent[m].src => n = m
             /\ \A n \in Landed("commit", id)' : commits'[<<id, sent[n].src>>] = sent[n].entry
             /\ count'[id] = Cardinality(Landed("commit", id)')
             /\ count'[id] = Cardinality(Committers(id)')
    BY DEF OnceEach
  <2>1. /\ \A n, m \in Landed("create", id) : n = m
        /\ \A n \in Landed("create", id) : owner[id] = sent[n].src
        /\ \A n, m \in Landed("commit", id) : sent[n].src = sent[m].src => n = m
        /\ \A n \in Landed("commit", id) : commits[<<id, sent[n].src>>] = sent[n].entry
        /\ count[id] = Cardinality(Landed("commit", id))
        /\ count[id] = Cardinality(Committers(id))
    BY DEF LedgerInv, OnceEach
  <2>2. sent[i].src = w  BY DEF w
  <2> QED  BY <1>2, <1>4, <1>5, <1>6, <1>7, <2>1, <2>2
<1>9. \A id \in RoundId : ~HasRound(id)' => Committers(id)' = {}
  BY <1>1, <1>4, <1>6 DEF LedgerInv, HasRound
<1>10. Onward
  <2>1. \A id \in RoundId : HasRound(id) => owner'[id] = owner[id]
    BY <1>2, <1>6 DEF HasRound
  <2>2. \A id \in RoundId : count[id] \in Nat  BY DEF NetworkInv, ContractTypeOK
  <2>3. Len(sent) \in Nat  BY DEF NetworkInv
  <2> QED  BY <1>2, <1>3, <1>7, <2>1, <2>2, <2>3 DEF Onward
<1> QED  BY <1>8, <1>9, <1>10 DEF LedgerInv

LEMMA CommitLands ==
    ASSUME NetworkInv, LedgerInv, NEW i \in DOMAIN sent, fate[i] = "pending",
           sent[i].kind = "commit", submit_commit(sent[i].id, sent[i].src, sent[i].entry),
           fate' = [fate EXCEPT ![i] = "success"], sent' = sent, NetworkInv'
    PROVE  LedgerInv' /\ Onward
<1> DEFINE r == sent[i].id
           w == sent[i].src
           e == sent[i].entry
<1>1. r \in RoundId /\ w \in Wallet /\ e \in Entry /\ e # NoEntry
  BY SentTyped
<1>2. /\ commits' = [commits EXCEPT ![<<r, w>>] = e]
      /\ count' = [count EXCEPT ![r] = @ + 1]
      /\ owner' = owner /\ HasRound(r) /\ commits[<<r, w>>] = NoEntry
  BY DEF submit_commit, HasCommit
<1>3. \A n \in DOMAIN sent : fate'[n] = IF n = i THEN "success" ELSE fate[n]
  BY DEF NetworkInv
<1>4. \A key \in RoundId \X Wallet : commits'[key] = IF key = <<r, w>> THEN e ELSE commits[key]
  BY <1>1, <1>2 DEF NetworkInv, ContractTypeOK
<1>5. \A id \in RoundId : count'[id] = IF id = r THEN count[id] + 1 ELSE count[id]
  BY <1>1, <1>2 DEF NetworkInv, ContractTypeOK
<1>6. \A id \in RoundId :
        /\ Landed("create", id)' = Landed("create", id)
        /\ Landed("commit", id)' = IF id = r THEN Landed("commit", id) \cup {i}
                                             ELSE Landed("commit", id)
        /\ Committers(id)' = IF id = r THEN Committers(id) \cup {w} ELSE Committers(id)
  <2>1. \A id \in RoundId : Landed("create", id)' = Landed("create", id)
    BY <1>3 DEF Landed
  <2>2. \A id \in RoundId :
          Landed("commit", id)' = IF id = r THEN Landed("commit", id) \cup {i}
                                            ELSE Landed("commit", id)
    BY <1>3 DEF Landed
  <2>3. \A id \in RoundId :
          Committers(id)' = IF id = r THEN Committers(id) \cup {w} ELSE Committers(id)
    <3> HIDE DEF r, w, e
    <3>1. \A id \in RoundId, u \in Wallet :
            HasCommit(id, u)' <=> HasCommit(id, u) \/ (id = r /\ u = w)
      BY <1>1, <1>4 DEF HasCommit
    <3> QED  BY <1>1, <3>1 DEF Committers
  <2> QED  BY <2>1, <2>2, <2>3
<1>7. i \notin Landed("commit", r) /\ w \notin Committers(r)
  BY <1>2 DEF Landed, Committers, HasCommit
<1>8. \A n \in Landed("commit", r) : sent[n].src # w
  <2>1. \A n \in Landed("commit", r) :
          commits[<<r, sent[n].src>>] = sent[n].entry /\ sent[n].entry # NoEntry
    BY <1>1, SentTyped DEF LedgerInv, OnceEach, Landed
  <2> QED  BY <1>2, <2>1
<1>9. /\ Cardinality(Landed("commit", r) \cup {i}) = Cardinality(Landed("commit", r)) + 1
      /\ Cardinality(Committers(r) \cup {w}) = Cardinality(Committers(r)) + 1
  BY <1>7, LandedFinite, CommitteesFinite, FS_AddElement
<1>src. sent[i].src = w /\ sent[i].entry = e  OBVIOUS
<1>wal. \A n \in DOMAIN sent : sent[n].src \in Wallet  BY SentTyped
<1> HIDE DEF r, w, e
<1>10. OnceEach'
  <2> SUFFICES ASSUME NEW id \in RoundId
      PROVE  /\ \A n, m \in Landed("create", id)' : n = m
             /\ \A n \in Landed("create", id)' : owner'[id] = sent[n].src
             /\ \A n, m \in Landed("commit", id)' : sent[n].src = sent[m].src => n = m
             /\ \A n \in Landed("commit", id)' : commits'[<<id, sent[n].src>>] = sent[n].entry
             /\ count'[id] = Cardinality(Landed("commit", id)')
             /\ count'[id] = Cardinality(Committers(id)')
    BY DEF OnceEach
  <2>1. /\ \A n, m \in Landed("create", id) : n = m
        /\ \A n \in Landed("create", id) : owner[id] = sent[n].src
        /\ \A n, m \in Landed("commit", id) : sent[n].src = sent[m].src => n = m
        /\ \A n \in Landed("commit", id) : commits[<<id, sent[n].src>>] = sent[n].entry
        /\ count[id] = Cardinality(Landed("commit", id))
        /\ count[id] = Cardinality(Committers(id))
    BY DEF LedgerInv, OnceEach
  <2>2. Landed("commit", id) \subseteq DOMAIN sent  BY DEF Landed
  <2>3. \A n, m \in Landed("commit", id)' : sent[n].src = sent[m].src => n = m
    BY <1>6, <1>8, <1>src, <2>1
  <2>4. \A n \in Landed("commit", id)' : commits'[<<id, sent[n].src>>] = sent[n].entry
    BY <1>1, <1>4, <1>6, <1>8, <1>src, <1>wal, <2>1, <2>2
  <2>5. count'[id] = Cardinality(Landed("commit", id)') /\ count'[id] = Cardinality(Committers(id)')
    BY <1>5, <1>6, <1>9, <2>1
  <2> QED  BY <1>2, <1>6, <2>1, <2>3, <2>4, <2>5
<1>11. \A id \in RoundId : ~HasRound(id)' => Committers(id)' = {}
  BY <1>2, <1>6 DEF LedgerInv, HasRound
<1>12. Onward
  <2>1. \A id \in RoundId : count[id] \in Nat  BY DEF NetworkInv, ContractTypeOK
  <2>2. Len(sent) \in Nat  BY DEF NetworkInv
  <2> QED  BY <1>2, <1>3, <1>4, <1>5, <2>1, <2>2 DEF Onward
<1> QED  BY <1>10, <1>11, <1>12 DEF LedgerInv

(* What the contract holds is a matter of what has landed on it. *)
LEMMA LedgerFrame ==
    ASSUME LedgerInv, UNCHANGED <<owner, count, commits>>,
           \A id \in RoundId, kind \in {"create", "commit"} :
               /\ Landed(kind, id)' = Landed(kind, id)
               /\ \A n \in Landed(kind, id) : sent'[n] = sent[n]
    PROVE  LedgerInv'
<1>1. SUFFICES ASSUME NEW id \in RoundId
      PROVE  /\ \A n, m \in Landed("create", id)' : n = m
             /\ \A n \in Landed("create", id)' : owner'[id] = sent'[n].src
             /\ \A n, m \in Landed("commit", id)' : sent'[n].src = sent'[m].src => n = m
             /\ \A n \in Landed("commit", id)' : commits'[<<id, sent'[n].src>>] = sent'[n].entry
             /\ count'[id] = Cardinality(Landed("commit", id)')
             /\ count'[id] = Cardinality(Committers(id)')
             /\ ~HasRound(id)' => Committers(id)' = {}
  BY DEF LedgerInv, OnceEach
<1>2. /\ \A n, m \in Landed("create", id) : n = m
      /\ \A n \in Landed("create", id) : owner[id] = sent[n].src
      /\ \A n, m \in Landed("commit", id) : sent[n].src = sent[m].src => n = m
      /\ \A n \in Landed("commit", id) : commits[<<id, sent[n].src>>] = sent[n].entry
      /\ count[id] = Cardinality(Landed("commit", id))
      /\ count[id] = Cardinality(Committers(id))
      /\ ~HasRound(id) => Committers(id) = {}
  BY DEF LedgerInv, OnceEach
<1>3. Committers(id)' = Committers(id) /\ HasRound(id)' = HasRound(id)
  BY DEF Committers, HasCommit, HasRound
<1>4. /\ \A n, m \in Landed("create", id)' : n = m
      /\ \A n \in Landed("create", id)' : owner'[id] = sent'[n].src
  BY <1>2
<1>5. /\ \A n, m \in Landed("commit", id)' : sent'[n].src = sent'[m].src => n = m
      /\ \A n \in Landed("commit", id)' : commits'[<<id, sent'[n].src>>] = sent'[n].entry
  BY <1>2
<1>6. count'[id] = Cardinality(Landed("commit", id)') /\ count'[id] = Cardinality(Committers(id)')
  BY <1>2, <1>3
<1> QED  BY <1>2, <1>3, <1>4, <1>5, <1>6

(* a transaction's fate settles, and no operation of the contract applied *)
LEMMA FateSettles ==
    ASSUME NetworkInv, LedgerInv, NEW i \in DOMAIN sent, fate[i] = "pending",
           NEW f \in Fates, fate' = [fate EXCEPT ![i] = f],
           f = "success" => sent[i].kind = "pay",
           sent' = sent, UNCHANGED contractVars, NetworkInv'
    PROVE  LedgerInv' /\ Onward
<1>1. \A n \in DOMAIN sent : fate'[n] = IF n = i THEN f ELSE fate[n]
  BY DEF NetworkInv
<1>2. UNCHANGED <<owner, count, commits>>  BY DEF contractVars
<1>3. \A id \in RoundId, kind \in {"create", "commit"} :
        Landed(kind, id)' = Landed(kind, id)
  BY <1>1 DEF Landed
<1>4. LedgerInv'
  BY <1>2, <1>3, LedgerFrame
<1>5. \A id \in RoundId : count[id] \in Nat  BY DEF NetworkInv, ContractTypeOK
<1>6. Len(sent) \in Nat  BY DEF NetworkInv
<1>7. Onward  BY <1>1, <1>2, <1>5, <1>6 DEF Onward
<1> QED  BY <1>4, <1>7

LEMMA LandKept ==
    ASSUME NetworkInv, LedgerInv, NEW i \in DOMAIN sent, Land(i)
    PROVE  NetworkInv' /\ LedgerInv' /\ Onward
<1>1. sent' = sent /\ fate[i] = "pending"  BY DEF Land
<1>2. PICK f \in {"success", "failed"} : fate' = [fate EXCEPT ![i] = f]  BY DEF Land
<1>3. /\ sent[i].src \in Wallet /\ sent[i].id \in RoundId
      /\ sent[i].kind = "commit" => sent[i].entry \in Entry
  BY SentTyped
<1>4. ContractTypeOK'
  <2>1. ContractTypeOK  BY DEF NetworkInv
  <2>2. CASE create_round(sent[i].id, sent[i].src, FALSE)
    BY <1>3, <2>1, <2>2 DEF ContractTypeOK, create_round
  <2>3. CASE sent[i].kind = "commit" /\ submit_commit(sent[i].id, sent[i].src, sent[i].entry)
    BY <1>3, <2>1, <2>3 DEF ContractTypeOK, submit_commit
  <2>4. CASE UNCHANGED contractVars
    BY <2>1, <2>4 DEF ContractTypeOK, contractVars
  <2> QED  BY <2>2, <2>3, <2>4 DEF Land
<1>5. sequence' \in [Wallet -> Nat]
  BY <1>3 DEF Land, NetworkInv
<1>6. fate' \in Seq(Fates) /\ Len(fate') = Len(fate)
  <2>1. fate \in Seq(Fates) /\ i \in 1..Len(fate) /\ f \in Fates
    BY LenProperties DEF NetworkInv, Fates
  <2> QED  BY <1>2, <2>1, ExceptSeq
<1>7. NetworkInv'  BY <1>1, <1>4, <1>5, <1>6 DEF NetworkInv
<1>8. CASE sent[i].kind = "create" /\ create_round(sent[i].id, sent[i].src, FALSE)
           /\ fate' = [fate EXCEPT ![i] = "success"]
  BY <1>1, <1>7, <1>8, CreateLands
<1>9. CASE sent[i].kind = "commit" /\ submit_commit(sent[i].id, sent[i].src, sent[i].entry)
           /\ fate' = [fate EXCEPT ![i] = "success"]
  BY <1>1, <1>7, <1>9, CommitLands
<1>10. CASE sent[i].kind = "pay" /\ UNCHANGED contractVars
  BY <1>1, <1>2, <1>7, <1>10, FateSettles DEF Fates
<1>11. CASE UNCHANGED contractVars /\ fate' = [fate EXCEPT ![i] = "failed"]
  BY <1>1, <1>7, <1>11, FateSettles DEF Fates
<1> QED  BY <1>7, <1>8, <1>9, <1>10, <1>11 DEF Land

LEMMA ExpireKept ==
    ASSUME NetworkInv, LedgerInv, NEW i \in DOMAIN sent, Expire(i)
    PROVE  NetworkInv' /\ LedgerInv' /\ Onward
<1>1. /\ sent' = sent /\ sequence' = sequence /\ UNCHANGED contractVars
      /\ fate[i] = "pending" /\ fate' = [fate EXCEPT ![i] = "dropped"]
  BY DEF Expire
<1>2. fate' \in Seq(Fates) /\ Len(fate') = Len(fate)
  <2>1. fate \in Seq(Fates) /\ i \in 1..Len(fate) /\ "dropped" \in Fates
    BY LenProperties DEF NetworkInv, Fates
  <2> QED  BY <1>1, <2>1, ExceptSeq
<1>3. NetworkInv'  BY <1>1, <1>2 DEF NetworkInv, contractVars, ContractTypeOK
<1> QED  BY <1>1, <1>3, FateSettles DEF Fates

(* a tab's step leaves the network alone, or hands it one transaction *)
Sends(tx) ==
    /\ tx \in Tx /\ (tx.kind = "commit" => tx.entry \in Entry)
    /\ Len(sent) < MaxTx
    /\ sent' = Append(sent, tx) /\ fate' = Append(fate, "pending")
    /\ sequence' = sequence

LEMMA SendKept ==
    ASSUME NetworkInv, LedgerInv, UNCHANGED contractVars, NEW tx, Sends(tx)
    PROVE  NetworkInv' /\ LedgerInv' /\ Onward
<1>1. /\ sent \in Seq(Tx) /\ fate \in Seq(Fates) /\ Len(sent) \in Nat /\ MaxTx \in Nat
      /\ Len(fate) = Len(sent) /\ DOMAIN sent = 1..Len(sent) /\ DOMAIN fate = 1..Len(sent)
  BY PanelAssumption, LenProperties DEF NetworkInv
<1>2. /\ sent' \in Seq(Tx) /\ Len(sent') = Len(sent) + 1
      /\ \A n \in 1..Len(sent) : sent'[n] = sent[n]
      /\ sent'[Len(sent) + 1] = tx /\ DOMAIN sent' = 1..(Len(sent) + 1)
  BY <1>1, AppendProperties DEF Sends
<1>3. /\ fate' \in Seq(Fates) /\ Len(fate') = Len(sent) + 1
      /\ \A n \in 1..Len(sent) : fate'[n] = fate[n]
      /\ fate'[Len(sent) + 1] = "pending"
  BY <1>1, AppendProperties DEF Sends, Fates
<1>4. UNCHANGED <<owner, count, commits>>  BY DEF contractVars
<1>5. \A n \in DOMAIN sent' : n \in DOMAIN sent \/ n = Len(sent) + 1  BY <1>1, <1>2
<1>6. \A n \in DOMAIN sent' : sent'[n].kind = "commit" => sent'[n].entry \in Entry
  BY <1>1, <1>2, <1>5 DEF NetworkInv, Sends
<1>7. NetworkInv'
  <2>1. ContractTypeOK' /\ sequence' \in [Wallet -> Nat]
    BY <1>4 DEF NetworkInv, ContractTypeOK, Sends
  <2>2. Len(sent') <= MaxTx  BY <1>1, <1>2 DEF Sends
  <2> QED  BY <1>2, <1>3, <1>6, <2>1, <2>2 DEF NetworkInv
<1>8. \A id \in RoundId, kind \in {"create", "commit"} :
        /\ Landed(kind, id)' = Landed(kind, id)
        /\ \A n \in Landed(kind, id) : sent'[n] = sent[n]
  <2>1. \A n \in DOMAIN sent' : fate'[n] = "success" => n \in DOMAIN sent
    BY <1>3, <1>5
  <2>2. DOMAIN sent \subseteq DOMAIN sent'  BY <1>1, <1>2
  <2> QED  BY <1>1, <1>2, <1>3, <2>1, <2>2 DEF Landed
<1>9. LedgerInv'
  BY <1>4, <1>8, LedgerFrame
<1>10. Onward
  <2>1. \A id \in RoundId : count[id] \in Nat  BY DEF NetworkInv, ContractTypeOK
  <2> QED  BY <1>1, <1>2, <1>3, <1>4, <2>1 DEF Onward
<1> QED  BY <1>7, <1>9, <1>10

LEMMA NetworkIdle ==
    ASSUME NetworkInv, LedgerInv, UNCHANGED contractVars, UNCHANGED networkVars
    PROVE  NetworkInv' /\ LedgerInv' /\ Onward
<1>1. UNCHANGED <<owner, count, commits, sequence, sent, fate>>
  BY DEF contractVars, networkVars
<1>2. NetworkInv'  BY <1>1 DEF NetworkInv, ContractTypeOK
<1>3. LedgerInv'
  <2>1. \A id \in RoundId, kind \in {"create", "commit"} :
          Landed(kind, id)' = Landed(kind, id)
    BY <1>1 DEF Landed
  <2> QED  BY <1>1, <2>1, LedgerFrame
<1>4. Onward
  <2>1. \A id \in RoundId : count[id] \in Nat  BY DEF NetworkInv, ContractTypeOK
  <2>2. Len(sent) \in Nat  BY DEF NetworkInv
  <2> QED  BY <1>1, <2>1, <2>2 DEF Onward
<1> QED  BY <1>2, <1>3, <1>4

----------------------------------------------------------------------------
(* What a tab knows stays true while the network moves on and whatever the *)
(* tab itself does elsewhere.                                              *)

LEMMA FeedbackFrame ==
    ASSUME NEW t \in Tab, FeedbackInv(t), Onward,
           feedback'[t] = feedback[t], address'[t] = address[t]
    PROVE  FeedbackInv(t)'
BY DEF FeedbackInv, Onward

LEMMA EvidenceFrame ==
    ASSUME NEW t \in Tab, EvidenceInv(t), Onward,
           evidence'[t] = evidence[t], address'[t] = address[t]
    PROVE  EvidenceInv(t)'
<1>1. CASE evidence[t] = NoEvidence  BY <1>1 DEF EvidenceInv
<1>2. CASE evidence[t] # NoEvidence
  <2> DEFINE key == <<evidence[t].id, evidence[t].by>>
  <2>1. /\ key \in RoundId \X Wallet /\ commits[key] = evidence[t].entry
        /\ evidence[t].entry # NoEntry
    BY <1>2, RiseInAssumption DEF EvidenceInv
  <2>2. commits'[key] = commits[key]
    <3> HIDE DEF key
    <3> QED  BY <2>1 DEF Onward
  <2> QED  BY <1>2, <2>1, <2>2 DEF EvidenceInv
<1> QED  BY <1>1, <1>2

LEMMA ShownFrame ==
    ASSUME NEW t \in Tab, NetworkInv, NetworkInv', ShownInv(t), Onward, shown'[t] = shown[t]
    PROVE  ShownInv(t)'
<1>1. \A id \in RoundId : count[id] \in Nat /\ count'[id] \in Nat
  BY DEF NetworkInv, ContractTypeOK
<1>2. CASE shown[t] # NoRound
  <2> DEFINE id == shown[t].id
  <2>1. /\ id \in RoundId /\ shown[t].count \in Nat /\ shown[t].owner # NoOne
        /\ owner[id] = shown[t].owner /\ shown[t].count <= count[id]
    BY <1>2 DEF ShownInv
  <2>2. owner'[id] = owner[id] /\ count[id] <= count'[id]
    BY <2>1 DEF Onward, HasRound
  <2>3. shown[t].count <= count'[id]  BY <1>1, <2>1, <2>2
  <2> QED  BY <2>1, <2>2, <2>3 DEF ShownInv
<1> QED  BY <1>2 DEF ShownInv

LEMMA CallFrame ==
    ASSUME NEW t \in Tab, NetworkInv, NetworkInv', CallInv(t), Onward,
           call'[t] = call[t], pc'[t] = pc[t], address'[t] = address[t]
    PROVE  CallInv(t)'
<1>1. Mine(t) => Mine(t)' /\ (fate[call[t].tx] = "success" => fate'[call[t].tx] = "success")
  BY DEF Mine, Onward
<1>2. Len(sent) \in Nat /\ Len(sent') \in Nat /\ Len(sent) <= Len(sent')
  BY DEF NetworkInv, Onward
<1>3. call[t].tx <= Len(sent')
  <2>1. call[t].tx \in Nat /\ call[t].tx <= Len(sent)  BY DEF CallInv, CallRec
  <2> QED  BY <1>2, <2>1
<1> QED  BY <1>1, <1>3 DEF CallInv

LEMMA TabFrame ==
    ASSUME NEW t \in Tab, NetworkInv, NetworkInv', TabInv(t), Onward,
           call'[t] = call[t], pc'[t] = pc[t], address'[t] = address[t],
           shown'[t] = shown[t], evidence'[t] = evidence[t], feedback'[t] = feedback[t]
    PROVE  TabInv(t)'
BY FeedbackFrame, EvidenceFrame, ShownFrame, CallFrame DEF TabInv

----------------------------------------------------------------------------
(* A tab's own steps *)

TabStep(t) == User(t) \/ Wallets(t) \/ Answers(t)

LEMMA Elsewhere ==
    ASSUME ViewTyped, NEW t \in Tab, TabStep(t)
    PROVE  /\ ViewTyped'
           /\ \A u \in Tab \ {t} :
                 /\ call'[u] = call[u] /\ pc'[u] = pc[u] /\ address'[u] = address[u]
                 /\ shown'[u] = shown[u] /\ evidence'[u] = evidence[u]
                 /\ feedback'[u] = feedback[u]
<1> USE DEF ViewTyped, Goto, Return, Say, viewVars
<1>0. CASE Fail(t)  BY <1>0 DEF Fail
<1>1. CASE connectWallet(t) BY <1>1 DEF connectWallet
<1>2. CASE Access(t) BY <1>0, <1>2 DEF Access
<1>3. CASE refreshBalance(t) BY <1>3 DEF refreshBalance
<1>4. CASE BalanceRead(t) BY <1>4 DEF BalanceRead
<1>5. CASE disconnectWallet(t) BY <1>5 DEF disconnectWallet
<1>6. CASE editRoundId(t) BY <1>6 DEF editRoundId
<1>7. ASSUME NEW kind, NEW entry, Submit(t, kind, entry)
      PROVE  /\ ViewTyped'
             /\ \A u \in Tab \ {t} :
                   /\ call'[u] = call[u] /\ pc'[u] = pc[u] /\ address'[u] = address[u]
                   /\ shown'[u] = shown[u] /\ evidence'[u] = evidence[u]
                   /\ feedback'[u] = feedback[u]
  BY <1>7 DEF Submit
<1>8. CASE sourceAccount(t) BY <1>0, <1>8 DEF sourceAccount
<1>9. CASE prepareTransaction(t) BY <1>0, <1>9 DEF prepareTransaction
<1>10. CASE signXdr(t) BY <1>0, <1>10 DEF signXdr
<1>11. CASE sendTransaction(t) BY <1>0, <1>11 DEF sendTransaction
<1>12. CASE pollTransaction(t) BY <1>0, <1>12 DEF pollTransaction
<1>13. CASE submitTransaction(t) BY <1>0, <1>13 DEF submitTransaction
<1>14. CASE refreshState(t) BY <1>14 DEF refreshState
<1>15. CASE syncState(t)
  <2>1. CASE Fail(t)  BY <1>0, <2>1
  <2>2. CASE /\ \E s : shown' = [shown EXCEPT ![t] = s]
             /\ Say(t, "success") \/ Say(t, "error") \/ UNCHANGED feedback
             /\ Return(t) /\ UNCHANGED <<address, field, evidence>>
    BY <2>2
  <2> QED  BY <1>15, <2>1, <2>2 DEF syncState
<1> QED
  BY <1>1, <1>2, <1>3, <1>4, <1>5, <1>6, <1>7, <1>8, <1>9, <1>10, <1>11, <1>12, <1>13,
     <1>14, <1>15
     DEF TabStep, User, Wallets, Answers, sendPayment, createRound, submitCommit

(* what a tab hands to the network *)
LEMMA TabSends ==
    ASSUME NetworkInv, LedgerInv, ViewTyped, NEW t \in Tab, CallInv(t), TabStep(t)
    PROVE  NetworkInv' /\ LedgerInv' /\ Onward
<1>1. CASE UNCHANGED contractVars /\ UNCHANGED networkVars  BY <1>1, NetworkIdle
<1>2. CASE sendTransaction(t)
  <2>1. CASE Fail(t)  BY <1>1, <2>1 DEF Fail
  <2>2. CASE ~Fail(t)
    <3>1. /\ pc[t] = "send" /\ Len(sent) < MaxTx /\ UNCHANGED contractVars
          /\ sequence' = sequence
          /\ sent' = Append(sent, Transaction(t)) /\ fate' = Append(fate, "pending")
      BY <1>2, <2>2 DEF sendTransaction
    <3>2. /\ call[t] \in CallRec /\ call[t].kind \in Forms /\ call[t].id \in RoundId
          /\ call[t].kind = "commit" => call[t].entry \in Entry
          /\ address[t] \in Wallet
      BY <3>1 DEF CallInv, ViewTyped
    <3>3. /\ Transaction(t) \in Tx
          /\ Transaction(t).kind = "commit" => Transaction(t).entry \in Entry
      BY <3>2 DEF Transaction, Tx, CallRec
    <3>4. Sends(Transaction(t))  BY <3>1, <3>3 DEF Sends
    <3> QED  BY <3>1, <3>4, SendKept
  <2> QED  BY <2>1, <2>2
<1>3. CASE ~sendTransaction(t)
  <2>1. UNCHANGED contractVars /\ UNCHANGED networkVars
    BY <1>3 DEF TabStep, User, Wallets, Answers, sendPayment, createRound, submitCommit,
         connectWallet, Access, Fail, refreshBalance, BalanceRead, disconnectWallet,
         editRoundId, Submit, sourceAccount, prepareTransaction, signXdr, pollTransaction,
         submitTransaction, refreshState, syncState
  <2> QED  BY <1>1, <2>1
<1> QED  BY <1>2, <1>3

(* a handler that has returned has nothing under way *)
LEMMA Returned ==
    ASSUME NetworkInv', ViewTyped, NEW t \in Tab, Return(t)
    PROVE  CallInv(t)'
<1>1. call'[t] = NoCall /\ pc'[t] = "idle"  BY DEF Return, Goto, ViewTyped
<1>2. Len(sent') \in Nat  BY DEF NetworkInv
<1>3. NoCall \in CallRec  BY DEF NoCall, NewCall, CallRec, Kinds
<1>4. NoCall.polls < MaxPolls /\ NoCall.tx <= Len(sent')
  BY <1>2, PanelAssumption DEF NoCall, NewCall
<1> QED  BY <1>1, <1>3, <1>4 DEF CallInv

LEMMA Failed ==
    ASSUME NetworkInv, NetworkInv', Onward, ViewTyped, NEW t \in Tab, TabInv(t), Fail(t)
    PROVE  TabInv(t)'
<1>1. /\ feedback'[t].kind = "error" /\ UNCHANGED <<address, shown, evidence>>
  BY DEF Fail, Say, ViewTyped, viewVars
<1>2. CallInv(t)'  BY Returned DEF Fail
<1>3. FeedbackInv(t)'  BY <1>1 DEF FeedbackInv
<1> QED  BY <1>1, <1>2, <1>3, EvidenceFrame, ShownFrame DEF TabInv

(* Keeping what is shown and moving the call on: the call's new place and  *)
(* record are all there is to look at. *)
LEMMA MovesOn ==
    ASSUME NetworkInv, NetworkInv', Onward, NEW t \in Tab, TabInv(t), UNCHANGED viewVars,
           FeedbackInv(t)', CallInv(t)'
    PROVE  TabInv(t)'
<1>1. UNCHANGED <<address, field, shown, evidence>>  BY DEF viewVars
<1> QED  BY <1>1, EvidenceFrame, ShownFrame DEF TabInv

LEMMA TabKept ==
    ASSUME IInv, NetworkInv', Onward, NEW t \in Tab, TabStep(t)
    PROVE  TabInv(t)'
<1>t. NetworkInv /\ ViewTyped /\ TabInv(t) /\ CallInv(t) /\ FeedbackInv(t)
  BY DEF IInv, TabInv
<1>c. /\ call[t] \in CallRec /\ call[t].polls < MaxPolls /\ call[t].tx <= Len(sent)
      /\ Len(sent) \in Nat /\ Len(sent') \in Nat /\ Len(sent) <= Len(sent')
      /\ call[t].tx \in Nat /\ call[t].tx <= Len(sent')
  <2>1. call[t] \in CallRec /\ call[t].polls < MaxPolls /\ call[t].tx <= Len(sent)
    BY <1>t DEF CallInv
  <2>2. Len(sent) \in Nat /\ Len(sent') \in Nat /\ Len(sent) <= Len(sent')
    BY <1>t DEF NetworkInv, Onward
  <2>3. call[t].tx \in Nat  BY <2>1 DEF CallRec
  <2> QED  BY <2>1, <2>2, <2>3
<1>k. \A l, b : Goto(t, l, b) => pc'[t] = l  BY <1>t DEF Goto, ViewTyped
<1>f. feedback' = feedback /\ address' = address => FeedbackInv(t)'
  BY <1>t, FeedbackFrame
<1>n. feedback'[t].kind # "success" => FeedbackInv(t)'  BY DEF FeedbackInv
<1>v. UNCHANGED viewVars => address' = address  BY DEF viewVars
<1>y. /\ Say(t, "success") =>
            feedback'[t] = [kind |-> "success", of |-> call[t].kind, tx |-> call[t].tx]
      /\ Say(t, "error") => feedback'[t].kind = "error"
  BY <1>t DEF Say, ViewTyped
<1>0. CASE Fail(t)  BY <1>0, <1>t, Failed
<1>1. CASE connectWallet(t)
  <2>1. /\ address[t] = NoOne /\ UNCHANGED viewVars /\ pc'[t] = "access"
        /\ call'[t] = NewCall("connect", 0, NoEntry) /\ feedback'[t] = NoFeedback
    BY <1>1, <1>t, <1>k DEF connectWallet, ViewTyped
  <2>2. FeedbackInv(t)'  BY <2>1, <1>n DEF NoFeedback
  <2>3. CallInv(t)'
    BY <2>1, <1>c, PanelAssumption DEF CallInv, CallRec, NoCall, NewCall, Kinds, viewVars
  <2> QED  BY <1>t, <2>1, <2>2, <2>3, MovesOn
<1>2. CASE Access(t)
  <2>1. CASE ~Fail(t)
    <3>1. /\ pc[t] = "access" /\ pc'[t] = "balance" /\ call' = call /\ feedback' = feedback
          /\ shown' = shown /\ evidence' = evidence
      BY <1>2, <2>1, <1>k DEF Access
    <3>2. PICK w \in Wallet : address' = [address EXCEPT ![t] = w]
      BY <1>2, <2>1 DEF Access
    <3>3. address[t] = NoOne /\ call[t].kind = "connect" /\ address'[t] = w /\ w # NoOne
      BY <1>t, <3>1, <3>2, RiseInAssumption DEF CallInv, ViewTyped
    <3>4. feedback[t].kind # "success" /\ evidence[t] = NoEvidence
      BY <1>t, <3>3, RiseInAssumption DEF TabInv, FeedbackInv, EvidenceInv
    <3>5. FeedbackInv(t)' /\ EvidenceInv(t)'
      BY <3>1, <3>4 DEF FeedbackInv, EvidenceInv
    <3>6. CallInv(t)'  BY <1>c, <3>1, <3>3 DEF CallInv
    <3> QED  BY <1>t, <3>1, <3>5, <3>6, ShownFrame DEF TabInv
  <2> QED  BY <1>0, <2>1
<1>3. CASE refreshBalance(t)
  <2>1. /\ address[t] # NoOne /\ UNCHANGED viewVars /\ feedback' = feedback
        /\ pc'[t] = "balance" /\ call'[t] = NewCall("balance", 0, NoEntry)
    BY <1>3, <1>t, <1>k DEF refreshBalance, ViewTyped
  <2>2. CallInv(t)'
    BY <2>1, <1>c, <1>v, PanelAssumption DEF CallInv, CallRec, NoCall, NewCall, Kinds
  <2> QED  BY <1>t, <1>f, <1>v, <2>1, <2>2, MovesOn
<1>4. CASE BalanceRead(t)
  <2>1. pc[t] = "balance" /\ Return(t) /\ UNCHANGED viewVars  BY <1>4 DEF BalanceRead
  <2>2. CallInv(t)'  BY <1>t, <2>1, Returned
  <2>3. CASE call[t].kind = "pay" /\ Say(t, "success")
    <3>1. Mine(t) /\ fate[call[t].tx] = "success" /\ address[t] # NoOne
      BY <1>t, <2>1, <2>3 DEF CallInv
    <3>2. FeedbackInv(t)'
      BY <1>v, <1>y, <2>1, <2>3, <3>1 DEF FeedbackInv, Mine, Onward
    <3> QED  BY <1>t, <2>1, <2>2, <3>2, MovesOn
  <2>4. CASE UNCHANGED feedback
    BY <1>t, <1>f, <1>v, <2>1, <2>2, <2>4, MovesOn
  <2>5. CASE Say(t, "error")
    BY <1>t, <1>n, <1>y, <2>1, <2>2, <2>5, MovesOn
  <2> QED  BY <1>4, <2>3, <2>4, <2>5 DEF BalanceRead
<1>5. CASE disconnectWallet(t)
  <2>1. /\ pc[t] = "idle" /\ pc' = pc /\ call' = call
        /\ feedback'[t] = NoFeedback /\ evidence'[t] = NoEvidence /\ shown'[t] = NoRound
    BY <1>5, <1>t DEF disconnectWallet, Idle, ViewTyped
  <2>2. FeedbackInv(t)'  BY <2>1, <1>n DEF NoFeedback
  <2>3. EvidenceInv(t)' /\ ShownInv(t)'  BY <2>1 DEF EvidenceInv, ShownInv
  <2>4. CallInv(t)'  BY <1>c, <2>1 DEF CallInv
  <2> QED  BY <2>2, <2>3, <2>4 DEF TabInv
<1>6. CASE editRoundId(t)
  <2>1. UNCHANGED <<address, shown, evidence, feedback, pc, call>>
    BY <1>6 DEF editRoundId
  <2> QED  BY <1>t, <2>1, TabFrame
<1>7. ASSUME NEW kind \in Forms, NEW entry \in Entry \cup {NoEntry},
             kind = "commit" => entry \in Entry, Submit(t, kind, entry)
      PROVE  TabInv(t)'
  <2>1. /\ pc[t] = "idle" /\ address[t] # NoOne /\ UNCHANGED viewVars
        /\ feedback'[t].kind # "success" /\ field[t] \in RoundId
    BY <1>7, <1>t DEF Submit, Idle, ViewTyped, NoFeedback
  <2>2. CASE UNCHANGED <<pc, call>>
    <3>1. CallInv(t)'  BY <1>t, <1>v, <2>1, <2>2, CallFrame
    <3> QED  BY <1>t, <1>n, <2>1, <3>1, MovesOn
  <2>3. CASE /\ Goto(t, "account", BusyAs(kind))
             /\ call' = [call EXCEPT ![t] = NewCall(kind, field[t], entry)]
    <3>1. /\ pc'[t] = "account"
          /\ call'[t] = NewCall(kind, field[t], entry)
      BY <1>t, <1>k, <2>3 DEF ViewTyped
    <3>2. CallInv(t)'
      BY <1>7, <1>c, <1>v, <2>1, <3>1, PanelAssumption
         DEF CallInv, CallRec, NoCall, NewCall, Kinds, Forms
    <3> QED  BY <1>t, <1>n, <2>1, <3>2, MovesOn
  <2> QED  BY <1>7, <2>2, <2>3 DEF Submit
<1>8. CASE sourceAccount(t)
  <2>1. CASE ~Fail(t)
    <3>1. /\ pc[t] = "account" /\ UNCHANGED viewVars /\ feedback' = feedback
          /\ pc'[t] \in {"sign", "prepare"}
          /\ call' = [call EXCEPT ![t].seq = sequence[address[t]] + 1]
      BY <1>8, <2>1, <1>k DEF sourceAccount
    <3>2. address[t] \in Wallet /\ address[t] # NoOne
      BY <1>t, <3>1 DEF CallInv, ViewTyped
    <3>3. sequence[address[t]] + 1 \in Nat  BY <1>t, <3>2 DEF NetworkInv
    <3>4. call'[t] = [call[t] EXCEPT !.seq = sequence[address[t]] + 1]
      BY <1>t, <3>1 DEF ViewTyped
    <3>5. call'[t] \in CallRec  BY <1>c, <3>3, <3>4 DEF CallRec
    <3>6. /\ call'[t].kind = call[t].kind /\ call'[t].id = call[t].id /\ call'[t].tx = call[t].tx
          /\ call'[t].entry = call[t].entry /\ call'[t].polls = call[t].polls
      BY <1>c, <3>4 DEF CallRec
    <3>7. CallInv(t)'
      BY <1>t, <1>c, <1>v, <3>1, <3>2, <3>5, <3>6 DEF CallInv
    <3> QED  BY <1>t, <1>f, <1>v, <3>1, <3>7, MovesOn
  <2> QED  BY <1>0, <2>1
<1>9. CASE prepareTransaction(t)
  <2>1. CASE ~Fail(t)
    <3>1. /\ pc[t] = "prepare" /\ UNCHANGED viewVars /\ feedback' = feedback
          /\ pc'[t] = "sign" /\ call' = call
      BY <1>9, <2>1, <1>k DEF prepareTransaction
    <3>2. CallInv(t)'  BY <1>t, <1>c, <1>v, <3>1 DEF CallInv
    <3> QED  BY <1>t, <1>f, <1>v, <3>1, <3>2, MovesOn
  <2> QED  BY <1>0, <2>1
<1>10. CASE signXdr(t)
  <2>1. CASE ~Fail(t)
    <3>1. /\ pc[t] = "sign" /\ UNCHANGED viewVars /\ feedback' = feedback
          /\ pc'[t] = "send" /\ call' = call
      BY <1>10, <2>1, <1>k DEF signXdr
    <3>2. CallInv(t)'  BY <1>t, <1>c, <1>v, <3>1 DEF CallInv
    <3> QED  BY <1>t, <1>f, <1>v, <3>1, <3>2, MovesOn
  <2> QED  BY <1>0, <2>1
<1>11. CASE sendTransaction(t)
  <2>1. CASE ~Fail(t)
    <3>1. /\ pc[t] = "send" /\ UNCHANGED viewVars
          /\ sent' = Append(sent, Transaction(t))
      BY <1>11, <2>1 DEF sendTransaction
    <3>2. CASE /\ Goto(t, IF call[t].kind = "pay" THEN "horizon" ELSE "poll", busy[t])
               /\ call' = [call EXCEPT ![t].tx = Len(sent) + 1] /\ UNCHANGED feedback
      <4>1. call'[t] = [call[t] EXCEPT !.tx = Len(sent) + 1]
        BY <1>t, <3>2 DEF ViewTyped
      <4>2. call'[t] \in CallRec  BY <1>c, <4>1 DEF CallRec
      <4>3. /\ call'[t].kind = call[t].kind /\ call'[t].id = call[t].id
            /\ call'[t].tx = Len(sent) + 1 /\ call'[t].polls = call[t].polls
            /\ call'[t].entry = call[t].entry
        BY <1>c, <4>1 DEF CallRec
      <4>4. pc'[t] = IF call[t].kind = "pay" THEN "horizon" ELSE "poll"
        BY <1>k, <3>2
      <4>5. /\ Len(sent') = Len(sent) + 1 /\ DOMAIN sent' = 1..(Len(sent) + 1)
            /\ sent'[Len(sent) + 1] = Transaction(t)
        BY <1>t, <3>1, AppendProperties, LenProperties DEF NetworkInv
      <4>6. Mine(t)'
        BY <1>c, <1>v, <3>1, <4>3, <4>5 DEF Mine, Transaction
      <4>7. call[t].kind \in Forms /\ address[t] # NoOne  BY <1>t, <3>1 DEF CallInv
      <4>8. CallInv(t)'
        BY <1>c, <1>v, <3>1, <4>2, <4>3, <4>4, <4>5, <4>6, <4>7 DEF CallInv, Forms
      <4> QED  BY <1>t, <1>f, <1>v, <3>1, <3>2, <4>8, MovesOn
    <3>3. CASE /\ feedback' = [feedback EXCEPT ![t] =
                     [kind |-> "error", of |-> call[t].kind, tx |-> Len(sent) + 1]]
               /\ Return(t)
      <4>1. feedback'[t].kind # "success"  BY <1>t, <3>3 DEF ViewTyped
      <4>2. CallInv(t)'  BY <1>t, <3>3, Returned
      <4> QED  BY <1>t, <1>n, <3>1, <4>1, <4>2, MovesOn
    <3> QED  BY <1>11, <2>1, <3>2, <3>3 DEF sendTransaction
  <2> QED  BY <1>0, <2>1
<1>12. CASE pollTransaction(t)
  <2>p. pc[t] = "poll" /\ call[t].kind \in {"create", "commit"} /\ Mine(t) /\ address[t] # NoOne
    BY <1>12, <1>t DEF pollTransaction, CallInv
  <2>i. call[t].id \in RoundId /\ address[t] \in Wallet
    BY <1>t, <2>p, SentTyped DEF Mine, ViewTyped
  <2>1. CASE /\ call[t].polls + 1 < MaxPolls
             /\ call' = [call EXCEPT ![t].polls = @ + 1]
             /\ UNCHANGED <<feedback, busy, pc>> /\ UNCHANGED viewVars
    <3>1. call'[t] = [call[t] EXCEPT !.polls = @ + 1]  BY <1>t, <2>1 DEF ViewTyped
    <3>2. call'[t] \in CallRec  BY <1>c, <3>1 DEF CallRec
    <3>3. /\ call'[t].kind = call[t].kind /\ call'[t].id = call[t].id /\ call'[t].tx = call[t].tx
          /\ call'[t].polls = call[t].polls + 1 /\ call'[t].entry = call[t].entry
      BY <1>c, <3>1 DEF CallRec
    <3>4. Mine(t)'  BY <1>v, <2>1, <2>p, <3>3 DEF Mine, Onward
    <3>5. CallInv(t)'
      BY <1>c, <1>v, <2>1, <2>p, <3>2, <3>3, <3>4 DEF CallInv
    <3> QED  BY <1>t, <1>f, <1>v, <2>1, <3>5, MovesOn
  <2>2. CASE /\ fate[call[t].tx] = "success" /\ Goto(t, "sync", "syncing")
             /\ evidence' = IF call[t].kind = "create" THEN evidence
                            ELSE [evidence EXCEPT ![t] = [id |-> call[t].id, by |-> address[t],
                                                          entry |-> call[t].entry]]
             /\ UNCHANGED <<address, field, shown, feedback, call>>
             /\ UNCHANGED networkVars /\ UNCHANGED contractVars
    <3>1. pc'[t] = "sync"  BY <1>k, <2>2
    <3>2. Mine(t)' /\ fate'[call[t].tx] = "success"
      BY <2>2, <2>p DEF Mine, Onward
    <3>3. CallInv(t)'
      BY <1>c, <2>2, <2>p, <2>i, <3>1, <3>2 DEF CallInv
    <3>4. EvidenceInv(t)'
      <4>1. CASE evidence' = evidence  BY <1>t, <2>2, <4>1, EvidenceFrame DEF TabInv
      <4>2. CASE call[t].kind = "commit" /\ evidence'[t] = [id |-> call[t].id, by |-> address[t],
                                                           entry |-> call[t].entry]
        <5> DEFINE n == call[t].tx
        <5>1. n \in Landed("commit", call[t].id)
          BY <2>2, <2>p, <4>2 DEF Mine, Landed
        <5>2. commits[<<call[t].id, sent[n].src>>] = sent[n].entry
          BY <2>i, <5>1 DEF IInv, LedgerInv, OnceEach
        <5>3. sent[n].entry = call[t].entry /\ sent[n].src = address[t] /\ call[t].entry \in Entry
          BY <1>t, <2>p, <4>2, SentTyped DEF Mine
        <5>4. commits' = commits  BY <2>2 DEF contractVars
        <5> QED  BY <2>2, <2>i, <4>2, <5>2, <5>3, <5>4 DEF EvidenceInv
      <4> QED  BY <1>t, <2>2, <2>p, <4>1, <4>2 DEF ViewTyped
    <3>5. FeedbackInv(t)'  BY <1>f, <2>2
    <3>6. ShownInv(t)'  BY <1>t, <2>2, ShownFrame DEF TabInv
    <3> QED  BY <3>3, <3>4, <3>5, <3>6 DEF TabInv
  <2> QED  BY <1>0, <1>12, <2>1, <2>2 DEF pollTransaction
<1>13. CASE submitTransaction(t)
  <2>1. CASE ~Fail(t)
    <3>1. /\ pc[t] = "horizon" /\ UNCHANGED viewVars /\ feedback' = feedback
          /\ pc'[t] = "balance" /\ call' = call /\ fate[call[t].tx] = "success"
      BY <1>13, <2>1, <1>k DEF submitTransaction
    <3>2. Mine(t) /\ address[t] # NoOne  BY <1>t, <3>1 DEF CallInv
    <3>3. Mine(t)' /\ fate'[call[t].tx] = "success"  BY <1>v, <3>1, <3>2 DEF Mine, Onward
    <3>4. CallInv(t)'  BY <1>c, <1>v, <3>1, <3>2, <3>3 DEF CallInv
    <3> QED  BY <1>t, <1>f, <1>v, <3>1, <3>4, MovesOn
  <2> QED  BY <1>0, <2>1
<1>14. CASE refreshState(t)
  <2>1. /\ address[t] # NoOne /\ UNCHANGED viewVars /\ feedback' = feedback
        /\ pc'[t] = "sync" /\ field[t] \in RoundId
        /\ call'[t] = NewCall("sync", field[t], NoEntry)
    BY <1>14, <1>t, <1>k DEF refreshState, ViewTyped
  <2>2. CallInv(t)'
    BY <2>1, <1>c, <1>v, PanelAssumption DEF CallInv, CallRec, NoCall, NewCall, Kinds
  <2> QED  BY <1>t, <1>f, <1>v, <2>1, <2>2, MovesOn
<1>15. CASE syncState(t)
  <2> DEFINE id == call[t].id
  <2>1. CASE ~Fail(t)
    <3>1. /\ pc[t] = "sync" /\ Return(t) /\ UNCHANGED <<address, field, evidence>>
          /\ UNCHANGED contractVars
          /\ shown' = [shown EXCEPT ![t] =
                         IF HasRound(id)
                         THEN [id |-> id, owner |-> owner[id], count |-> count[id]]
                         ELSE NoRound]
          /\ \/ call[t].kind # "sync" /\ Say(t, "success")
             \/ Say(t, "error")
             \/ UNCHANGED feedback
      BY <1>15, <2>1 DEF syncState
    <3>2. id \in RoundId /\ address[t] # NoOne  BY <1>t, <3>1 DEF CallInv
    <3>3. CallInv(t)'  BY <1>t, <3>1, Returned
    <3>4. EvidenceInv(t)'  BY <1>t, <3>1, EvidenceFrame DEF TabInv
    <3>5. ShownInv(t)'
      <4>1. shown'[t] = IF HasRound(id) THEN [id |-> id, owner |-> owner[id], count |-> count[id]]
                        ELSE NoRound
        BY <1>t, <3>1 DEF ViewTyped
      <4>2. count[id] \in Nat /\ owner' = owner /\ count' = count
        BY <1>t, <3>1, <3>2 DEF NetworkInv, ContractTypeOK, contractVars
      <4> HIDE DEF id
      <4>3. CASE HasRound(id)  BY <3>2, <4>1, <4>2, <4>3 DEF ShownInv, HasRound
      <4>4. CASE ~HasRound(id)  BY <4>1, <4>4 DEF ShownInv
      <4> QED  BY <4>3, <4>4
    <3>6. FeedbackInv(t)'
      <4>1. CASE call[t].kind # "sync" /\ Say(t, "success")
        <5>1. Mine(t) /\ fate[call[t].tx] = "success"
          BY <1>t, <3>1, <4>1 DEF CallInv
        <5> QED  BY <1>y, <3>1, <3>2, <4>1, <5>1 DEF FeedbackInv, Mine, Onward
      <4>2. CASE Say(t, "error")  BY <1>n, <1>y, <4>2
      <4>3. CASE UNCHANGED feedback  BY <1>f, <3>1, <4>3
      <4> QED  BY <3>1, <4>1, <4>2, <4>3
    <3> QED  BY <3>3, <3>4, <3>5, <3>6 DEF TabInv
  <2> QED  BY <1>0, <2>1
<1> QED
  BY <1>1, <1>2, <1>3, <1>4, <1>5, <1>6, <1>7, <1>8, <1>9, <1>10, <1>11, <1>12, <1>13,
     <1>14, <1>15
     DEF TabStep, User, Wallets, Answers, sendPayment, createRound, submitCommit, Forms

----------------------------------------------------------------------------
(* The theorems *)

LEMMA InitKept ==
    ASSUME Init
    PROVE  IInv
<1>1. NetworkInv
  <2>1. ContractTypeOK  BY DEF Init, ContractTypeOK
  <2>2. sent \in Seq(Tx) /\ fate \in Seq(Fates) /\ Len(sent) = 0 /\ Len(fate) = 0
    BY EmptySeq DEF Init
  <2>3. MaxTx \in Nat /\ sequence \in [Wallet -> Nat]  BY PanelAssumption DEF Init
  <2>4. DOMAIN sent = {}  BY DEF Init
  <2> QED  BY <2>1, <2>2, <2>3, <2>4 DEF NetworkInv
<1>2. LedgerInv
  <2>1. \A id \in RoundId, kind \in Forms : Landed(kind, id) = {}  BY DEF Init, Landed
  <2>2. \A id \in RoundId : Committers(id) = {}  BY DEF Init, Committers, HasCommit
  <2>3. \A id \in RoundId : count[id] = 0  BY DEF Init
  <2> QED  BY <2>1, <2>2, <2>3, FS_EmptySet DEF LedgerInv, OnceEach, Forms
<1>3. ViewTyped  BY DEF Init, ViewTyped
<1>4. ASSUME NEW t \in Tab PROVE TabInv(t)
  <2>1. CallInv(t)
    <3>1. call[t] = NoCall /\ pc[t] = "idle" /\ Len(sent) = 0  BY DEF Init
    <3> QED  BY <3>1, PanelAssumption DEF CallInv, CallRec, NoCall, NewCall, Kinds
  <2>2. FeedbackInv(t) /\ EvidenceInv(t) /\ ShownInv(t)
    BY DEF Init, FeedbackInv, EvidenceInv, ShownInv, NoFeedback
  <2> QED  BY <2>1, <2>2 DEF TabInv
<1> QED  BY <1>1, <1>2, <1>3, <1>4 DEF IInv

LEMMA StepKept ==
    ASSUME IInv, [Next]_vars
    PROVE  IInv'
<1>i. NetworkInv /\ LedgerInv /\ ViewTyped /\ \A t \in Tab : TabInv(t)  BY DEF IInv
<1>1. CASE UNCHANGED vars
  <2>1. /\ UNCHANGED contractVars /\ UNCHANGED networkVars
        /\ UNCHANGED <<address, field, shown, evidence, feedback, busy, pc, call>>
    BY <1>1 DEF vars, contractVars, networkVars
  <2>2. NetworkInv' /\ LedgerInv' /\ Onward  BY <1>i, <2>1, NetworkIdle
  <2>3. ViewTyped'  BY <1>i, <2>1 DEF ViewTyped
  <2>4. \A t \in Tab : TabInv(t)'  BY <1>i, <2>1, <2>2, TabFrame
  <2> QED  BY <2>2, <2>3, <2>4 DEF IInv
<1>2. ASSUME NEW i \in DOMAIN sent, Land(i) \/ Expire(i) PROVE IInv'
  <2>1. UNCHANGED <<address, field, shown, evidence, feedback, busy, pc, call>>
    BY <1>2 DEF Land, Expire, viewVars
  <2>2. NetworkInv' /\ LedgerInv' /\ Onward  BY <1>i, <1>2, LandKept, ExpireKept
  <2>3. ViewTyped'  BY <1>i, <2>1 DEF ViewTyped
  <2>4. \A t \in Tab : TabInv(t)'  BY <1>i, <2>1, <2>2, TabFrame
  <2> QED  BY <2>2, <2>3, <2>4 DEF IInv
<1>3. ASSUME NEW t \in Tab, TabStep(t) PROVE IInv'
  <2>1. NetworkInv' /\ LedgerInv' /\ Onward  BY <1>i, <1>3, TabSends DEF TabInv
  <2>2. ViewTyped'  BY <1>i, <1>3, Elsewhere
  <2>3. TabInv(t)'  BY <1>3, <2>1, TabKept
  <2>4. ASSUME NEW u \in Tab \ {t} PROVE TabInv(u)'
    <3>1. /\ call'[u] = call[u] /\ pc'[u] = pc[u] /\ address'[u] = address[u]
          /\ shown'[u] = shown[u] /\ evidence'[u] = evidence[u] /\ feedback'[u] = feedback[u]
      BY <1>i, <1>3, Elsewhere
    <3> QED  BY <1>i, <2>1, <3>1, TabFrame
  <2> QED  BY <2>1, <2>2, <2>3, <2>4 DEF IInv
<1> QED  BY <1>1, <1>2, <1>3 DEF Next, TabStep

(* The invariant of a panel and the network it talks to.                   *)
THEOREM Inductive == Spec => []IInv
BY InitKept, StepKept, PTL DEF Spec

(* Every record of the panel, the network and the contract has its type.   *)
THEOREM TypeCorrect == Spec => []TypeOK
<1>1. IInv => TypeOK
  <2> SUFFICES ASSUME IInv PROVE TypeOK  OBVIOUS
  <2>1. NetworkInv /\ ViewTyped /\ \A t \in Tab : CallInv(t)  BY DEF IInv, TabInv
  <2>2. DOMAIN sent = 1..Len(sent) /\ DOMAIN fate = 1..Len(sent) /\ Len(sent) \in Nat
    BY <2>1, LenProperties DEF NetworkInv
  <2>3. \A i \in DOMAIN sent : fate[i] \in Fates
    BY <2>1, <2>2, ElementOfSeq DEF NetworkInv
  <2>4. \A t \in Tab : call[t].polls < MaxPolls /\ call[t].tx \in 0..Len(sent)
    BY <2>1, <2>2 DEF CallInv, CallRec
  <2> QED  BY <2>1, <2>2, <2>3, <2>4, SentTyped
           DEF TypeOK, NetworkInv, ViewTyped, Fates, Forms
<1> QED  BY <1>1, Inductive, PTL

(* However often tabs retry, a round is created once, a wallet's           *)
(* commitment is stored once, as its one successful transaction carried    *)
(* it, and commit_count counts exactly those.                              *)
THEOREM StoredOnce == Spec => []OnceEach
<1>1. IInv => OnceEach  BY DEF IInv, LedgerInv
<1> QED  BY <1>1, Inductive, PTL

(* What the panel offers as evidence is on chain: the transaction it       *)
(* reports succeeded and is the connected wallet's, and so is the latest   *)
(* commitment.                                                             *)
THEOREM EvidenceIsOnChain == Spec => []EvidenceHolds
<1>1. IInv => EvidenceHolds
  BY DEF IInv, TabInv, FeedbackInv, EvidenceInv, EvidenceHolds
<1> QED  BY <1>1, Inductive, PTL

(* The state a panel shows is one the contract has been in.                *)
THEOREM ShownHasBeen == Spec => []ShownWasTrue
<1>1. IInv => ShownWasTrue  BY DEF IInv, TabInv, ShownInv, ShownWasTrue
<1> QED  BY <1>1, Inductive, PTL

=============================================================================
