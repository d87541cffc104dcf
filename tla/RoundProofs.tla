---------------------------- MODULE RoundProofs ----------------------------
(***************************************************************************)
(* What every module that drives a round needs to know of it: that its     *)
(* operations only move it forward and keep its invariants, for any        *)
(* bidders, offers and deadlines.  And, at the end, where the deadlines    *)
(* come from: the statements of BeaconTime for every genesis, period,      *)
(* margin, click and commit window.                                        *)
(***************************************************************************)
EXTENDS Round, BeaconTime, FiniteSetTheorems, WellFoundedInduction, TLAPS

RoundStep ==
    \/ Tick \/ CloseLedger \/ PublishR
    \/ \E b \in Bidder : ExpireSeal(b)
    \/ \E b \in Bidder, o \in Offer : Commit(b, o)
    \/ OpenReveal \/ Clear \/ Settle \/ Void
    \/ \E b \in Bidder : Reveal(b)

(* Operations only move the round forward: once it has left Open its bids  *)
(* are frozen, reveals accumulate and the ledger's time does not go back.  *)
LEMMA Forward ==
    ASSUME RoundTypeOK, UNCHANGED roundVars \/ RoundStep
    PROVE  /\ status # "Open" => status' # "Open" /\ bids' = bids
           /\ revealed \subseteq revealed'
           /\ ledger <= ledger'
<1> USE DEF RoundTypeOK, envVars, chainVars, roundVars
<1>0. ledger \in Int OBVIOUS
<1>1. CASE UNCHANGED roundVars BY <1>1
<1>2. CASE Tick BY <1>2 DEF Tick
<1>3. CASE CloseLedger BY <1>3 DEF CloseLedger
<1>4. CASE PublishR BY <1>4 DEF PublishR
<1>5. CASE \E b \in Bidder : ExpireSeal(b) BY <1>5 DEF ExpireSeal
<1>6. CASE \E b \in Bidder, o \in Offer : Commit(b, o) BY <1>6 DEF Commit
<1>7. CASE OpenReveal BY <1>7 DEF OpenReveal
<1>8. CASE Clear
  <2>1. /\ status' \in {"Cleared", "Voided"} /\ bids' = bids
        /\ revealed' = revealed /\ ledger' = ledger
    BY <1>8 DEF Clear
  <2>q. QED BY <1>0, <2>1
<1>9. CASE Settle BY <1>9 DEF Settle
<1>10. CASE Void BY <1>10 DEF Void, RefundAll
<1>11. CASE \E b \in Bidder : Reveal(b) BY <1>11 DEF Reveal
<1>q. QED BY <1>1, <1>2, <1>3, <1>4, <1>5, <1>6, <1>7, <1>8, <1>9, <1>10, <1>11 DEF RoundStep

LEMMA EscrowType ==
    ASSUME RoundTypeOK, NEW b \in Bidder
    PROVE  EscrowOf(b) \in Int
BY OfferAssumption DEF RoundTypeOK, EscrowOf

(* A decided round has a winner, whose bid was revealed and is valid. *)
LEMMA WinnerValid ==
    ASSUME RoundTypeOK, ChainInv, status \in {"Cleared", "Settled"}
    PROVE  /\ winner \in Bidder /\ Valid(winner)
           /\ bids[winner] \in Offer
           /\ bids[winner].value \in Int /\ bids[winner].escrow \in Int
           /\ bids[winner].value > 0 /\ bids[winner].value <= bids[winner].escrow
           /\ EscrowOf(winner) = bids[winner].escrow
<1>1. winner \in Bidder /\ Valid(winner) BY DEF ChainInv, BestOf
<1>2. bids[winner] \in Offer BY <1>1 DEF RoundTypeOK, Valid, Eligible
<1>q. QED BY <1>1, <1>2, OfferAssumption DEF Valid, Eligible, EscrowOf

LEMMA RoundTyped ==
    ASSUME RoundTypeOK, ChainInv, UNCHANGED roundVars \/ RoundStep
    PROVE  RoundTypeOK'
<1> USE TimeAssumption DEF RoundTypeOK, Statuses, envVars, chainVars, roundVars
<1>1. CASE UNCHANGED roundVars BY <1>1
<1>2. CASE Tick BY <1>2 DEF Tick
<1>3. CASE CloseLedger BY <1>3 DEF CloseLedger
<1>4. CASE PublishR BY <1>4 DEF PublishR
<1>5. CASE \E b \in Bidder : ExpireSeal(b) BY <1>5 DEF ExpireSeal
<1>6. ASSUME NEW b \in Bidder, NEW o \in Offer, Commit(b, o) PROVE RoundTypeOK'
  <2>1. EscrowOf(b) \in Int /\ o.escrow \in Int BY EscrowType, OfferAssumption
  <2>2. wallet' \in [Bidder -> Int] BY <1>6, <2>1 DEF Commit
  <2>3. bids' \in [Bidder -> Offer \cup {NoBid}] BY <1>6 DEF Commit
  <2>q. QED BY <1>6, <2>2, <2>3 DEF Commit
<1>7. CASE OpenReveal BY <1>7 DEF OpenReveal
<1>8. CASE Clear
  <2>1. wallet' \in [Bidder -> Int]
    <3>1. CASE UNCHANGED wallet BY <3>1
    <3>2. CASE RefundAll BY <3>2, EscrowType DEF RefundAll
    <3>q. QED BY <1>8, <3>1, <3>2 DEF Clear
  <2>2. winner' \in Bidder \cup {NoOne} BY <1>8 DEF Clear, BestOf
  <2>q. QED BY <1>8, <2>1, <2>2 DEF Clear
<1>9. CASE Settle
  <2>1. winner \in Bidder /\ bids[winner].value \in Int
    BY <1>9, WinnerValid DEF Settle
  <2>2. wallet' \in [Bidder -> Int]
    <3>1. ASSUME NEW b \in Bidder
          PROVE  wallet[b] + EscrowOf(b) - (IF b = winner THEN bids[b].value ELSE 0) \in Int
      BY <2>1, EscrowType
    <3>q. QED BY <1>9, <3>1 DEF Settle
  <2>q. QED BY <1>9, <2>1, <2>2 DEF Settle
<1>10. CASE Void BY <1>10, EscrowType DEF Void, RefundAll
<1>11. CASE \E b \in Bidder : Reveal(b) BY <1>11 DEF Reveal
<1>q. QED BY <1>1, <1>2, <1>3, <1>4, <1>5, <1>6, <1>7, <1>8, <1>9, <1>10, <1>11 DEF RoundStep

LEMMA TimeKept ==
    ASSUME RoundTypeOK, TimeInv, UNCHANGED roundVars \/ RoundStep
    PROVE  TimeInv'
<1> USE TimeAssumption DEF RoundTypeOK, TimeInv, envVars, chainVars, roundVars
<1>1. CASE UNCHANGED roundVars BY <1>1
<1>2. CASE Tick BY <1>2 DEF Tick
<1>3. CASE CloseLedger BY <1>3 DEF CloseLedger
<1>4. CASE PublishR BY <1>4 DEF PublishR
<1>5. CASE UNCHANGED envVars BY <1>5
<1>6. CASE RoundStep
  BY <1>2, <1>3, <1>4, <1>5, <1>6
  DEF RoundStep, ExpireSeal, Commit, OpenReveal, Clear, Settle, Void, Reveal
<1>q. QED BY <1>1, <1>6

(* validity is a matter of the bids and of who is revealed *)
LEMMA ValidKept ==
    ASSUME bids' = bids, revealed' = revealed
    PROVE  /\ \A b \in Bidder : Valid(b)' = Valid(b)
           /\ BestOf({b \in Bidder : Valid(b)})' = BestOf({b \in Bidder : Valid(b)})
BY DEF BestOf, Valid, Eligible, Better

LEMMA ChainKept ==
    ASSUME RoundTypeOK, ChainInv, UNCHANGED roundVars \/ RoundStep
    PROVE  ChainInv'
<1> USE DEF RoundTypeOK, ChainInv, Voting, Index, EscrowOf, envVars, chainVars
<1>1. CASE UNCHANGED chainVars
  BY <1>1, ValidKept
<1>2. CASE \E b \in Bidder : ExpireSeal(b) BY <1>2, ValidKept DEF ExpireSeal
<1>3. ASSUME NEW b \in Bidder, NEW o \in Offer, Commit(b, o) PROVE ChainInv'
  <2>1. /\ bids' = [bids EXCEPT ![b] = o] /\ seals' = seals \cup {b}
        /\ status = "Open" /\ UNCHANGED <<status, revealed, till>>
        /\ wallet' = [wallet EXCEPT ![b] = @ + EscrowOf(b) - o.escrow]
    BY <1>3 DEF Commit
  <2>2. wallet'[b] = -(o.escrow)
    BY <2>1, EscrowType, OfferAssumption
  <2>3. \A c \in Bidder : wallet'[c] = -EscrowOf(c)'
    BY <2>1, <2>2, OfferAssumption
  <2>q. QED BY <2>1, <2>3, OfferAssumption
<1>4. CASE OpenReveal BY <1>4 DEF OpenReveal
<1>5. CASE Clear
  <2>1. /\ UNCHANGED <<bids, revealed, seals, till>> /\ status = "Revealing"
        /\ \/ /\ status' = "Cleared" /\ UNCHANGED wallet
              /\ winner' \in BestOf({b \in Bidder : Valid(b)})
           \/ /\ status' = "Voided" /\ {b \in Bidder : Valid(b)} = {}
    BY <1>5 DEF Clear
  <2>2. CASE status' = "Cleared"
    <3>1. winner' \in BestOf({b \in Bidder : Valid(b)})' BY <2>1, <2>2, ValidKept
    <3>q. QED BY <2>1, <2>2, <3>1
  <2>3. CASE status' = "Voided" /\ {b \in Bidder : Valid(b)} = {}
    <3>1. \A b \in Bidder : ~Valid(b)' BY <2>1, <2>3, ValidKept
    <3>q. QED BY <2>1, <2>3, <3>1
  <2>q. QED BY <2>1, <2>2, <2>3
<1>6. CASE Settle
  <2>1. /\ UNCHANGED <<bids, revealed, seals, winner>>
        /\ status = "Cleared" /\ status' = "Settled"
    BY <1>6 DEF Settle
  <2>2. winner' \in BestOf({b \in Bidder : Valid(b)})' BY <2>1, ValidKept
  <2>q. QED BY <2>1, <2>2
<1>7. CASE Void
  <2>1. /\ UNCHANGED <<bids, revealed, seals>> /\ status = "Open" /\ status' = "Voided"
    BY <1>7 DEF Void
  <2>2. \A b \in Bidder : ~Valid(b)' BY <2>1 DEF Valid
  <2>q. QED BY <2>1, <2>2
<1>8. CASE \E b \in Bidder : Reveal(b) BY <1>8 DEF Reveal
<1>q. QED BY <1>1, <1>2, <1>3, <1>4, <1>5, <1>6, <1>7, <1>8
          DEF RoundStep, Tick, CloseLedger, PublishR, roundVars

(* Only Clear, Settle and Void decide balances, and once over, nothing     *)
(* moves them.                                                             *)
LEMMA OutcomeKept ==
    ASSUME RoundTypeOK, ChainInv, SettlementExact, UNCHANGED roundVars \/ RoundStep
    PROVE  SettlementExact'
<1> USE DEF RoundTypeOK, SettlementExact, envVars, chainVars
<1>1. CASE UNCHANGED chainVars BY <1>1
<1>2. CASE \E b \in Bidder : ExpireSeal(b) BY <1>2 DEF ExpireSeal
<1>3. CASE \E b \in Bidder, o \in Offer : Commit(b, o) BY <1>3 DEF Commit
<1>4. CASE OpenReveal BY <1>4 DEF OpenReveal
<1>z. ASSUME status \in {"Open", "Revealing"}, RefundAll, till' = till
      PROVE  till' = 0 /\ \A b \in Bidder : wallet'[b] = 0
  BY <1>z, EscrowType DEF RefundAll, ChainInv, Voting
<1>5. CASE Clear
  <2>1. CASE status' = "Cleared" BY <2>1
  <2>2. CASE RefundAll /\ status' = "Voided" BY <1>5, <1>z, <2>2 DEF Clear
  <2>q. QED BY <1>5, <2>1, <2>2 DEF Clear
<1>6. CASE Settle
  <2>1. /\ winner \in Bidder /\ bids[winner].value \in Int /\ till = 0
        /\ bids[winner].value <= bids[winner].escrow
        /\ \A b \in Bidder : wallet[b] = -EscrowOf(b)
    BY <1>6, WinnerValid DEF Settle, ChainInv, Voting
  <2>2. \A b \in Bidder : wallet'[b] = IF b = winner THEN -bids[b].value ELSE 0
    <3>1. ASSUME NEW b \in Bidder
          PROVE  wallet'[b] = wallet[b] + EscrowOf(b) - (IF b = winner THEN bids[b].value ELSE 0)
      BY <1>6 DEF Settle
    <3>q. QED BY <2>1, <3>1, EscrowType
  <2>3. /\ till' = bids[winner].value /\ winner' = winner /\ bids' = bids
        /\ status' = "Settled"
    BY <1>6, <2>1 DEF Settle
  <2>q. QED BY <2>1, <2>2, <2>3
<1>7. CASE Void BY <1>7, <1>z DEF Void
<1>8. CASE \E b \in Bidder : Reveal(b) BY <1>8 DEF Reveal
<1>q. QED BY <1>1, <1>2, <1>3, <1>4, <1>5, <1>6, <1>7, <1>8
          DEF RoundStep, Tick, CloseLedger, PublishR, roundVars

LEMMA RoundInitInv ==
    ASSUME RoundInit
    PROVE  RoundTypeOK /\ TimeInv /\ ChainInv /\ SettlementExact
<1>0. MaxTime \in Nat /\ MaxSkew \in Nat  BY TimeAssumption
<1>1. RoundTypeOK
  <2>1. clock \in 0..MaxTime /\ ledger \in 0..MaxTime  BY <1>0 DEF RoundInit
  <2>2. bids \in [Bidder -> Offer \cup {NoBid}]  BY DEF RoundInit
  <2>3. wallet \in [Bidder -> Int] /\ till \in Int  BY DEF RoundInit
  <2>4. status \in Statuses /\ winner \in Bidder \cup {NoOne}  BY DEF RoundInit, Statuses
  <2> QED  BY <2>1, <2>2, <2>3, <2>4 DEF RoundInit, RoundTypeOK
<1>2. TimeInv  BY <1>0 DEF RoundInit, TimeInv
<1>3. \A b \in Bidder : EscrowOf(b) = 0 /\ wallet[b] = 0  BY DEF RoundInit, EscrowOf
<1>4. ChainInv  BY <1>3 DEF RoundInit, ChainInv
<1>5. SettlementExact  BY DEF RoundInit, SettlementExact
<1> QED  BY <1>1, <1>2, <1>4, <1>5

----------------------------------------------------------------------------
(* Sums over the bidders.  Every sum is the value at Bidder of a function  *)
(* on its subsets that satisfies the recursive equation of MapThenSumSet;  *)
(* what is known of sums follows from that equation at a smallest subset   *)
(* where it would fail.                                                    *)

Pick(s) == CHOOSE x \in s : TRUE
Sums(it, f) ==
    it = [s \in SUBSET Bidder |-> IF s = {} THEN 0 ELSE f[Pick(s)] + it[s \ {Pick(s)}]]

SumOver(f) == MapThenSumSet(LAMBDA b : f[b], Bidder)

LEMMA LeastNat ==
    ASSUME NEW T, T \subseteq Nat, T # {}
    PROVE  \E n \in T : \A m \in T : n <= m
<1>1. PICK n \in T : \A m \in T : ~(<<m, n>> \in OpToRel(<, Nat))
  BY NatLessThanWellFounded, WFMin
<1>2. \A m \in T : ~(m < n)  BY <1>1 DEF OpToRel
<1> QED  BY <1>2

LEMMA SmallestSubset ==
    ASSUME NEW B, B \subseteq SUBSET Bidder, B # {}
    PROVE  \E s \in B : \A x \in s : s \ {x} \notin B
<1>1. \A s \in B : IsFiniteSet(s) /\ Cardinality(s) \in Nat
  BY OfferAssumption, FS_Subset, FS_CardinalityType
<1> DEFINE T == {m \in Nat : \E s \in B : Cardinality(s) = m}
<1>2. PICK n \in T : \A m \in T : n <= m
  <2>1. T \subseteq Nat /\ T # {}  BY <1>1
  <2> HIDE DEF T
  <2> QED  BY <2>1, LeastNat
<1>3. PICK s \in B : Cardinality(s) = n  BY <1>2
<1>4. ASSUME NEW x \in s, s \ {x} \in B PROVE FALSE
  <2>1. Cardinality(s \ {x}) = Cardinality(s) - 1  BY <1>1, FS_RemoveElement
  <2>2. Cardinality(s \ {x}) \in T  BY <1>1, <1>4
  <2>3. n <= Cardinality(s \ {x})  BY <1>2, <2>2
  <2> QED  BY <1>1, <1>3, <2>1, <2>3
<1> QED  BY <1>4

LEMMA PickIn ==
    ASSUME NEW s, s # {}
    PROVE  Pick(s) \in s
BY DEF Pick

(* The recursion of a sum has a solution. *)
LEMMA SumsExist ==
    ASSUME NEW f
    PROVE  \E it : Sums(it, f)
<1> DEFINE Upto(n) == {s \in SUBSET Bidder : Cardinality(s) <= n}
           Next1(g, s) == IF s = {} THEN 0 ELSE f[Pick(s)] + g[s \ {Pick(s)}]
           Solved(n) == \E g : g = [s \in Upto(n) |-> Next1(g, s)]
           Bad == {n \in Nat : ~Solved(n)}
<1>1. \A s \in SUBSET Bidder : IsFiniteSet(s) /\ Cardinality(s) \in Nat
  BY OfferAssumption, FS_Subset, FS_CardinalityType
<1>2. \A s \in SUBSET Bidder : s # {} =>
          /\ Pick(s) \in s /\ s \ {Pick(s)} \in SUBSET Bidder
          /\ Cardinality(s \ {Pick(s)}) = Cardinality(s) - 1
  BY <1>1, PickIn, FS_RemoveElement
<1>3. Bad = {}
  <2> SUFFICES ASSUME Bad # {} PROVE FALSE  OBVIOUS
  <2>1. PICK n \in Bad : \A m \in Bad : n <= m
    <3>1. Bad \subseteq Nat  OBVIOUS
    <3> HIDE DEF Bad
    <3> QED  BY <3>1, LeastNat
  <2>2. CASE n = 0
    <3>1. \A s \in Upto(0) : s = {}  BY <1>1, FS_EmptySet
    <3> DEFINE g == [s \in Upto(0) |-> 0]
    <3>2. g = [s \in Upto(0) |-> Next1(g, s)]  BY <3>1
    <3>3. Solved(0)  BY <3>2
    <3> QED  BY <2>2, <3>3
  <2>3. CASE n # 0
    <3>1. n - 1 \in Nat /\ ~(n <= n - 1)  BY <2>3
    <3>2. Solved(n - 1)  BY <2>1, <3>1
    <3>3. PICK g : g = [s \in Upto(n - 1) |-> Next1(g, s)]  BY <3>2
    <3> DEFINE h == [s \in Upto(n) |-> Next1(g, s)]
    <3>4. ASSUME NEW s \in Upto(n) PROVE Next1(g, s) = Next1(h, s)
      <4>1. CASE s = {}  BY <4>1
      <4>2. CASE s # {}
        <5> DEFINE r == s \ {Pick(s)}
        <5>1. r \in Upto(n - 1) /\ r \in Upto(n)  BY <1>1, <1>2, <3>1, <4>2
        <5>2. g[r] = Next1(g, r)  BY <3>3, <5>1
        <5>3. h[r] = Next1(g, r)  BY <5>1
        <5>4. g[r] = h[r]  BY <5>2, <5>3
        <5> HIDE DEF h, r
        <5>5. Next1(g, s) = f[Pick(s)] + g[r] /\ Next1(h, s) = f[Pick(s)] + h[r]
          BY <4>2 DEF r
        <5> QED  BY <5>4, <5>5
      <4> QED  BY <4>1, <4>2
    <3>5. h = [s \in Upto(n) |-> Next1(h, s)]
      <4> HIDE DEF Next1
      <4> QED  BY <3>4
    <3> HIDE DEF h
    <3>6. Solved(n)  BY <3>5
    <3> QED  BY <3>6
  <2> QED  BY <2>2, <2>3
<1>4. Cardinality(Bidder) \in Nat /\ Upto(Cardinality(Bidder)) = SUBSET Bidder
  BY <1>1, OfferAssumption, FS_Subset
<1>5. Solved(Cardinality(Bidder))  BY <1>3, <1>4
<1>6. PICK g : g = [s \in SUBSET Bidder |-> Next1(g, s)]  BY <1>4, <1>5
<1> QED  BY <1>6 DEF Sums

LEMMA SumOverIs ==
    ASSUME NEW f
    PROVE  \E it : Sums(it, f) /\ SumOver(f) = it[Bidder]
<1> DEFINE Unfolds(g) == g = [s \in SUBSET Bidder |->
                    IF s = {} THEN 0
                    ELSE f[CHOOSE x \in s : TRUE] + g[s \ {CHOOSE x \in s : TRUE}]]
           it == CHOOSE g : Unfolds(g)
<1>1. MapThenSumSet(LAMBDA b : f[b], Bidder) = it[Bidder]
  BY DEF MapThenSumSet, MapThenFoldSet
<1>2. PICK g : Sums(g, f)  BY SumsExist
<1>3. \A h : Sums(h, f) <=> Unfolds(h)  BY DEF Sums, Pick
<1> HIDE DEF Unfolds
<1>4. Unfolds(g)  BY <1>2, <1>3
<1>5. Unfolds(it)  BY <1>4, Zenon
<1>6. Sums(it, f)
  <2> HIDE DEF it
  <2> QED  BY <1>3, <1>5
<1> QED  BY <1>1, <1>6 DEF SumOver

LEMMA SumsAt ==
    ASSUME NEW it, NEW f, Sums(it, f), NEW s \in SUBSET Bidder
    PROVE  it[s] = IF s = {} THEN 0 ELSE f[Pick(s)] + it[s \ {Pick(s)}]
BY DEF Sums

(* Sums of integers are integers, add up, and depend on the summands only. *)
LEMMA SumsAdd ==
    ASSUME NEW f \in [Bidder -> Int], NEW g \in [Bidder -> Int], NEW h \in [Bidder -> Int],
           \A b \in Bidder : h[b] = f[b] + g[b],
           NEW i, NEW j, NEW k, Sums(i, f), Sums(j, g), Sums(k, h)
    PROVE  i[Bidder] \in Int /\ j[Bidder] \in Int /\ k[Bidder] = i[Bidder] + j[Bidder]
<1> DEFINE Holds(s) == i[s] \in Int /\ j[s] \in Int /\ k[s] = i[s] + j[s]
           Bad == {s \in SUBSET Bidder : ~Holds(s)}
<1>1. Bad = {}
  <2> SUFFICES ASSUME Bad # {} PROVE FALSE  OBVIOUS
  <2>1. PICK s \in Bad : \A x \in s : s \ {x} \notin Bad
    <3>1. Bad \subseteq SUBSET Bidder  OBVIOUS
    <3> HIDE DEF Bad
    <3> QED  BY <3>1, SmallestSubset
  <2>2. /\ i[s] = IF s = {} THEN 0 ELSE f[Pick(s)] + i[s \ {Pick(s)}]
        /\ j[s] = IF s = {} THEN 0 ELSE g[Pick(s)] + j[s \ {Pick(s)}]
        /\ k[s] = IF s = {} THEN 0 ELSE h[Pick(s)] + k[s \ {Pick(s)}]
    BY SumsAt
  <2>3. CASE s = {}  BY <2>2, <2>3
  <2>4. CASE s # {}
    <3>1. Pick(s) \in s /\ Pick(s) \in Bidder  BY <2>4, PickIn
    <3>2. Holds(s \ {Pick(s)})  BY <2>1, <3>1
    <3>3. /\ f[Pick(s)] \in Int /\ g[Pick(s)] \in Int
          /\ h[Pick(s)] = f[Pick(s)] + g[Pick(s)]
      BY <3>1
    <3>4. Holds(s)  BY <2>2, <2>4, <3>2, <3>3
    <3> QED  BY <3>4
  <2> QED  BY <2>3, <2>4
<1>2. Holds(Bidder)  BY <1>1
<1> QED  BY <1>2

LEMMA SumsOne ==
    ASSUME NEW b \in Bidder, NEW n \in Int, NEW i,
           Sums(i, [x \in Bidder |-> IF x = b THEN n ELSE 0])
    PROVE  i[Bidder] = n
<1> DEFINE f == [x \in Bidder |-> IF x = b THEN n ELSE 0]
           Holds(s) == i[s] = IF b \in s THEN n ELSE 0
           Bad == {s \in SUBSET Bidder : ~Holds(s)}
<1>1. Bad = {}
  <2> SUFFICES ASSUME Bad # {} PROVE FALSE  OBVIOUS
  <2>1. PICK s \in Bad : \A x \in s : s \ {x} \notin Bad
    <3>1. Bad \subseteq SUBSET Bidder  OBVIOUS
    <3> HIDE DEF Bad
    <3> QED  BY <3>1, SmallestSubset
  <2>2. i[s] = IF s = {} THEN 0 ELSE f[Pick(s)] + i[s \ {Pick(s)}]
    <3>1. Sums(i, f)  OBVIOUS
    <3> HIDE DEF f
    <3> QED  BY <3>1, SumsAt
  <2>3. CASE s = {}  BY <2>2, <2>3
  <2>4. CASE s # {}
    <3>1. Pick(s) \in s /\ Pick(s) \in Bidder  BY <2>4, PickIn
    <3>2. Holds(s \ {Pick(s)})  BY <2>1, <3>1
    <3>3. f[Pick(s)] = IF Pick(s) = b THEN n ELSE 0  BY <3>1
    <3> HIDE DEF f
    <3>4. Holds(s)  BY <2>2, <2>4, <3>1, <3>2, <3>3
    <3> QED  BY <3>4
  <2> QED  BY <2>3, <2>4
<1>2. Holds(Bidder)  BY <1>1
<1> QED  BY <1>2

LEMMA SumPlus ==
    ASSUME NEW f \in [Bidder -> Int], NEW g \in [Bidder -> Int], NEW h \in [Bidder -> Int],
           \A b \in Bidder : h[b] = f[b] + g[b]
    PROVE  /\ SumOver(f) \in Int /\ SumOver(g) \in Int
           /\ SumOver(h) = SumOver(f) + SumOver(g)
<1>1. PICK i : Sums(i, f) /\ SumOver(f) = i[Bidder]  BY SumOverIs
<1>2. PICK j : Sums(j, g) /\ SumOver(g) = j[Bidder]  BY SumOverIs
<1>3. PICK k : Sums(k, h) /\ SumOver(h) = k[Bidder]  BY SumOverIs
<1> QED  BY <1>1, <1>2, <1>3, SumsAdd

LEMMA SumOne ==
    ASSUME NEW b \in Bidder, NEW n \in Int
    PROVE  SumOver([x \in Bidder |-> IF x = b THEN n ELSE 0]) = n
<1> DEFINE f == [x \in Bidder |-> IF x = b THEN n ELSE 0]
<1>1. PICK i : Sums(i, f) /\ SumOver(f) = i[Bidder]  BY SumOverIs
<1> QED  BY <1>1, SumsOne

LEMMA SumZero ==
    ASSUME NEW f \in [Bidder -> Int], \A b \in Bidder : f[b] = 0
    PROVE  SumOver(f) = 0
<1>1. \A b \in Bidder : f[b] = f[b] + f[b]  OBVIOUS
<1>2. PICK i : Sums(i, f) /\ SumOver(f) = i[Bidder]  BY SumOverIs
<1>3. i[Bidder] \in Int /\ i[Bidder] = i[Bidder] + i[Bidder]  BY <1>1, <1>2, SumsAdd
<1>4. \A n \in Int : n = n + n => n = 0  OBVIOUS
<1>5. i[Bidder] = 0  BY <1>3, <1>4
<1> QED  BY <1>2, <1>5

(* what each bid of a book B of bids locks *)
Locks(B) == [b \in Bidder |-> IF B[b] = NoBid THEN 0 ELSE B[b].escrow]
LockSum(B) == MapThenSumSet(LAMBDA b : IF B[b] = NoBid THEN 0 ELSE B[b].escrow, Bidder)

LEMMA LocksType ==
    ASSUME NEW B \in [Bidder -> Offer \cup {NoBid}]
    PROVE  Locks(B) \in [Bidder -> Int]
<1>1. \A o \in Offer : o.escrow \in Int  BY OfferAssumption
<1> QED  BY <1>1 DEF Locks

LEMMA LocksTotal ==
    ASSUME NEW B \in [Bidder -> Offer \cup {NoBid}]
    PROVE  LockSum(B) = SumOver(Locks(B))
<1> DEFINE Lock(b) == IF B[b] = NoBid THEN 0 ELSE B[b].escrow
           Unfolds(g) == g = [s \in SUBSET Bidder |->
                    IF s = {} THEN 0
                    ELSE Lock(CHOOSE x \in s : TRUE) + g[s \ {CHOOSE x \in s : TRUE}]]
           it == CHOOSE g : Unfolds(g)
           zero == [b \in Bidder |-> 0]
<1>1. \A g : Sums(g, Locks(B)) <=> Unfolds(g)
  <2>1. ASSUME NEW s \in SUBSET Bidder, s # {}
        PROVE  Locks(B)[Pick(s)] = Lock(CHOOSE x \in s : TRUE)
    BY <2>1, PickIn DEF Locks, Pick
  <2> QED  BY <2>1 DEF Sums, Pick
<1>2. LockSum(B) = it[Bidder]
  BY DEF LockSum, MapThenSumSet, MapThenFoldSet
<1>3. Sums(it, Locks(B))
  <2> HIDE DEF Unfolds
  <2>1. PICK g : Sums(g, Locks(B))  BY SumsExist
  <2>2. Unfolds(g)  BY <1>1, <2>1
  <2>3. Unfolds(it)  BY <2>2, Zenon
  <2> HIDE DEF it
  <2> QED  BY <1>1, <2>3
<1> DEFINE E == Locks(B)
<1>4. PICK j : Sums(j, E) /\ SumOver(E) = j[Bidder]  BY SumOverIs
<1>5. PICK k : Sums(k, zero)  BY SumsExist
<1>6. /\ E \in [Bidder -> Int] /\ zero \in [Bidder -> Int]
      /\ \A b \in Bidder : E[b] = E[b] + zero[b]
  BY LocksType
<1>7. Sums(it, E)  BY <1>3
<1> HIDE DEF it, zero, E
<1>8. it[Bidder] \in Int /\ k[Bidder] \in Int /\ j[Bidder] = it[Bidder] + k[Bidder]
  BY <1>4, <1>5, <1>6, <1>7, SumsAdd
<1>9. it[Bidder] = it[Bidder] + k[Bidder]
  BY <1>5, <1>6, <1>7, SumsAdd
<1>10. LockSum(B) = SumOver(E)  BY <1>2, <1>4, <1>8, <1>9
<1> QED  BY <1>10 DEF E

LEMMA TotalsAre ==
    ASSUME RoundTypeOK, RoundTypeOK'
    PROVE  /\ EscrowTotal = SumOver(Locks(bids)) /\ EscrowTotal' = SumOver(Locks(bids'))
           /\ WalletTotal = SumOver(wallet) /\ WalletTotal' = SumOver(wallet')
<1>1. EscrowTotal = LockSum(bids) /\ EscrowTotal' = LockSum(bids')
  BY DEF EscrowTotal, EscrowOf, LockSum, MapThenSumSet, MapThenFoldSet
<1>2. LockSum(bids) = SumOver(Locks(bids)) /\ LockSum(bids') = SumOver(Locks(bids'))
  BY LocksTotal DEF RoundTypeOK
<1>3. WalletTotal = SumOver(wallet) /\ WalletTotal' = SumOver(wallet')
  BY DEF WalletTotal, SumOver, MapThenSumSet, MapThenFoldSet
<1> QED  BY <1>1, <1>2, <1>3

(* the round's totals are integers *)
LEMMA TotalsType ==
    ASSUME RoundTypeOK
    PROVE  /\ SumOver(wallet) \in Int /\ SumOver(Locks(bids)) \in Int
           /\ wallet \in [Bidder -> Int] /\ Locks(bids) \in [Bidder -> Int]
           /\ \A b \in Bidder : EscrowOf(b) = Locks(bids)[b]
<1> DEFINE zero == [b \in Bidder |-> 0]
<1>1. wallet \in [Bidder -> Int] /\ Locks(bids) \in [Bidder -> Int]
  BY LocksType DEF RoundTypeOK
<1>2. zero \in [Bidder -> Int] /\ \A b \in Bidder : zero[b] = 0  OBVIOUS
<1> HIDE DEF zero
<1>3. \A b \in Bidder : wallet[b] = wallet[b] + zero[b] /\ Locks(bids)[b] = Locks(bids)[b] + zero[b]
  BY <1>1, <1>2
<1>4. SumOver(wallet) \in Int
  BY <1>1, <1>2, <1>3, SumPlus
<1>5. SumOver(Locks(bids)) \in Int
  <2> DEFINE E == Locks(bids)
  <2>1. E \in [Bidder -> Int] /\ \A b \in Bidder : E[b] = E[b] + zero[b]  BY <1>1, <1>3
  <2> HIDE DEF E
  <2>2. SumOver(E) \in Int  BY <1>2, <2>1, SumPlus
  <2> QED  BY <2>2 DEF E
<1> QED  BY <1>1, <1>4, <1>5 DEF EscrowOf, Locks

(* Giving every bidder its escrow back moves the escrow total. *)
LEMMA RefundSum ==
    ASSUME RoundTypeOK, NEW w \in [Bidder -> Int],
           \A b \in Bidder : w[b] = wallet[b] + EscrowOf(b)
    PROVE  SumOver(w) = SumOver(wallet) + SumOver(Locks(bids))
<1> DEFINE E == Locks(bids)
<1>1. /\ E \in [Bidder -> Int] /\ wallet \in [Bidder -> Int]
      /\ \A b \in Bidder : w[b] = wallet[b] + E[b]
  BY TotalsType
<1> HIDE DEF E
<1>2. SumOver(w) = SumOver(wallet) + SumOver(E)  BY <1>1, SumPlus
<1> QED  BY <1>2 DEF E

(* One bidder's entry moves the sum by as much. *)
LEMMA PointSum ==
    ASSUME NEW f \in [Bidder -> Int], NEW g \in [Bidder -> Int], NEW c \in Bidder, NEW d \in Int,
           \A b \in Bidder : g[b] = f[b] + (IF b = c THEN d ELSE 0)
    PROVE  SumOver(g) = SumOver(f) + d
<1> DEFINE p == [b \in Bidder |-> IF b = c THEN d ELSE 0]
<1>1. p \in [Bidder -> Int] /\ \A b \in Bidder : g[b] = f[b] + p[b]  OBVIOUS
<1>2. SumOver(p) = d  BY SumOne
<1> HIDE DEF p
<1> QED  BY <1>1, <1>2, SumPlus

LEMMA FundsKept ==
    ASSUME RoundTypeOK, RoundTypeOK', ChainInv, FundsConserved,
           UNCHANGED roundVars \/ RoundStep
    PROVE  FundsConserved'
<1> DEFINE W == SumOver(wallet)
           L == SumOver(Locks(bids))
           Wn == SumOver(wallet')
           Ln == SumOver(Locks(bids'))
<1>1. /\ W \in Int /\ L \in Int /\ till \in Int
      /\ vault + till + W = 0 /\ vault = IF status \in Final THEN 0 ELSE L
      /\ EscrowTotal = L
      /\ (vault' + till' + Wn = 0 /\ vault' = IF status' \in Final THEN 0 ELSE Ln) => FundsConserved'
  BY TotalsAre, TotalsType DEF FundsConserved, RoundTypeOK
<1>2. vault \in Int  BY <1>1
<1>3. CASE UNCHANGED <<bids, wallet, till, vault, status>>
  BY <1>1, <1>3
<1>4. ASSUME NEW b \in Bidder, NEW o \in Offer, Commit(b, o) PROVE FundsConserved'
  <2>1. /\ status = "Open" /\ status' = status /\ till' = till
        /\ bids' = [bids EXCEPT ![b] = o]
        /\ wallet' = [wallet EXCEPT ![b] = @ + EscrowOf(b) - o.escrow]
        /\ vault' = vault - EscrowOf(b) + o.escrow
    BY <1>4 DEF Commit
  <2> DEFINE d == EscrowOf(b) - o.escrow
             m == o.escrow - EscrowOf(b)
  <2>2. EscrowOf(b) \in Int /\ o.escrow \in Int /\ d \in Int /\ m \in Int
    BY EscrowType, OfferAssumption
  <2>3. \A c \in Bidder : wallet'[c] = wallet[c] + (IF c = b THEN d ELSE 0)
    BY <2>1, <2>2 DEF RoundTypeOK
  <2>4. Wn = W + d
    <3> HIDE DEF d
    <3>1. wallet \in [Bidder -> Int] /\ wallet' \in [Bidder -> Int]  BY DEF RoundTypeOK
    <3> QED  BY <2>2, <2>3, <3>1, PointSum
  <2>5. Ln = L + m
    <3> DEFINE E == Locks(bids)
               F == Locks(bids')
    <3>1. E \in [Bidder -> Int] /\ F \in [Bidder -> Int]
      BY LocksType DEF RoundTypeOK
    <3>2. \A c \in Bidder : c # b => E[c] = F[c]
      BY <2>1 DEF RoundTypeOK, Locks
    <3>3. E[b] = EscrowOf(b) /\ F[b] = o.escrow
      BY <2>1, OfferAssumption DEF RoundTypeOK, Locks, EscrowOf
    <3> HIDE DEF E, F
    <3>4. \A c \in Bidder : F[c] = E[c] + (IF c = b THEN m ELSE 0)
      BY <2>2, <3>1, <3>2, <3>3
    <3> HIDE DEF m
    <3>5. SumOver(F) = SumOver(E) + m  BY <2>2, <3>1, <3>4, PointSum
    <3> QED  BY <3>5 DEF E, F
  <2> HIDE DEF W, L, Wn, Ln
  <2> QED  BY <1>1, <1>2, <2>1, <2>2, <2>4, <2>5 DEF Final
<1>5. ASSUME RefundAll, till' = till, status \notin Final, status' = "Voided"
      PROVE  FundsConserved'
  <2>1. Wn = W + L
    <3>1. \A b \in Bidder : wallet'[b] = wallet[b] + EscrowOf(b)  BY <1>5 DEF RefundAll
    <3>2. wallet' \in [Bidder -> Int]  BY DEF RoundTypeOK
    <3> QED  BY <3>1, <3>2, RefundSum
  <2>2. vault' = vault - L  BY <1>1, <1>5 DEF RefundAll
  <2> HIDE DEF W, L, Wn, Ln
  <2> QED  BY <1>1, <1>2, <1>5, <2>1, <2>2 DEF Final
<1>6. CASE Clear
  <2>1. CASE UNCHANGED <<wallet, vault>> /\ status' = "Cleared"
    <3>1. bids' = bids /\ till' = till /\ status \notin Final  BY <1>6 DEF Clear, Final
    <3> QED  BY <1>1, <2>1, <3>1 DEF Final
  <2>2. CASE RefundAll /\ status' = "Voided"
    BY <1>5, <1>6, <2>2 DEF Clear, Final
  <2> QED  BY <1>6, <2>1, <2>2 DEF Clear
<1>7. CASE Settle
  <2>1. winner \in Bidder /\ bids[winner].value \in Int  BY <1>7, WinnerValid DEF Settle
  <2> DEFINE v == bids[winner].value
             r == [b \in Bidder |-> wallet[b] + EscrowOf(b)]
             d == 0 - v
  <2>2. r \in [Bidder -> Int]  BY EscrowType DEF RoundTypeOK
  <2>3. SumOver(r) = W + L
    <3>1. \A b \in Bidder : r[b] = wallet[b] + EscrowOf(b)  OBVIOUS
    <3> HIDE DEF r
    <3> QED  BY <2>2, <3>1, RefundSum
  <2>4. \A b \in Bidder : wallet'[b] = r[b] + (IF b = winner THEN d ELSE 0)
    BY <1>7, <2>1, EscrowType DEF Settle, RoundTypeOK
  <2>5. v \in Int /\ d \in Int /\ till' = till + v /\ vault' = vault - L
    BY <1>1, <1>7, <2>1 DEF Settle
  <2> HIDE DEF r, d
  <2>6. Wn = W + L + d
    <3>1. wallet' \in [Bidder -> Int]  BY DEF RoundTypeOK
    <3>2. SumOver(wallet') = SumOver(r) + d  BY ONLY <2>2, <2>4, <2>5, <3>1, <1>7, <2>1, PointSum
    <3> QED  BY <2>3, <3>2
  <2>7. status = "Cleared" /\ status' = "Settled"  BY <1>7 DEF Settle
  <2> HIDE DEF W, L, Wn, Ln, v
  <2> QED  BY <1>1, <1>2, <2>5, <2>6, <2>7 DEF d, Final
<1>8. CASE Void
  BY <1>5, <1>8 DEF Void, Final
<1>9. CASE OpenReveal
  BY <1>1, <1>9 DEF OpenReveal, Final
<1> QED
  BY <1>3, <1>4, <1>6, <1>7, <1>8, <1>9
     DEF RoundStep, roundVars, chainVars, Tick, CloseLedger, PublishR, ExpireSeal, Reveal

LEMMA FundsInit ==
    ASSUME RoundInit
    PROVE  FundsConserved
<1>1. RoundTypeOK  BY RoundInitInv
<1>2. wallet \in [Bidder -> Int] /\ \A b \in Bidder : wallet[b] = 0  BY DEF RoundInit
<1>3. Locks(bids) \in [Bidder -> Int] /\ \A b \in Bidder : Locks(bids)[b] = 0
  BY <1>1, TotalsType DEF RoundInit, Locks
<1>4. SumOver(wallet) = 0  BY <1>2, SumZero
<1>5. SumOver(Locks(bids)) = 0
  <2> DEFINE E == Locks(bids)
  <2>1. E \in [Bidder -> Int] /\ \A b \in Bidder : E[b] = 0  BY <1>3
  <2> HIDE DEF E
  <2>2. SumOver(E) = 0  BY <2>1, SumZero
  <2> QED  BY <2>2 DEF E
<1>6. WalletTotal = SumOver(wallet)
  BY DEF WalletTotal, SumOver, MapThenSumSet, MapThenFoldSet
<1>7. EscrowTotal = SumOver(Locks(bids))
  <2>1. EscrowTotal = LockSum(bids)
    BY DEF EscrowTotal, EscrowOf, LockSum, MapThenSumSet, MapThenFoldSet
  <2> QED  BY <1>1, <2>1, LocksTotal DEF RoundTypeOK
<1> QED  BY <1>4, <1>5, <1>6, <1>7 DEF RoundInit, FundsConserved, Final

----------------------------------------------------------------------------
(* The deadlines of a round (createRound) and Drand's clock. *)

LEMMA DivFacts ==
    ASSUME NEW x \in Int, NEW p \in Nat \ {0}
    PROVE  /\ x \div p \in Int
           /\ p * (x \div p) <= x
           /\ x < p * (x \div p) + p
  OBVIOUS

(* multiplication by the period, one round on and over two rounds *)
LEMMA NextRound ==
    ASSUME NEW p \in Nat, NEW q \in Int
    PROVE  p * (q + 1) = p * q + p /\ p * (q - 1) = p * q - p
  OBVIOUS

LEMMA Monotone ==
    ASSUME NEW p \in Nat \ {0}, NEW q \in Int, NEW r \in Int, q >= r
    PROVE  p * q >= p * r
  <1>1. p * (q - r) >= 0  OBVIOUS
  <1>2. p * (q - r) = p * q - p * r  OBVIOUS
  <1> QED  BY <1>1, <1>2

(* The round a click chooses, and how its nominal time relates to t. *)
LEMMA ChosenRound ==
    ASSUME NEW t \in Int, t >= Genesis
    PROVE  /\ roundAt(t) \in Int
           /\ t < timeOfRound(roundAt(t))
           /\ timeOfRound(roundAt(t)) <= t + Period
  <1> DEFINE q == (t - Genesis) \div Period
  <1>0. Genesis \in Nat /\ Period \in Nat \ {0}  BY BeaconAssumption
  <1>1. t - Genesis \in Int  BY <1>0
  <1>2. q \in Int /\ Period * q <= t - Genesis /\ t - Genesis < Period * q + Period
    BY <1>0, <1>1, DivFacts
  <1>3. roundAt(t) = q + 1  BY <1>0 DEF roundAt
  <1>4. Period * (q + 1) = Period * q + Period  BY <1>0, <1>2, NextRound
  <1>5. timeOfRound(q + 1) = Genesis + (Period * q + Period)  BY <1>4 DEF timeOfRound
  <1>6. Period * q \in Int  BY <1>0, <1>2
  <1> HIDE DEF q
  <1>7. t < Genesis + (Period * q + Period)  BY <1>0, <1>2, <1>6
  <1>8. Genesis + (Period * q + Period) <= t + Period  BY <1>0, <1>2, <1>6
  <1> QED  BY <1>2, <1>3, <1>5, <1>7, <1>8

(* createRound: commits close before the beacon that opens them is out, by *)
(* exactly CloseBefore - Period.                                           *)
THEOREM CommitsCloseBeforeR ==
    ASSUME NEW t \in Nat, NEW window \in Nat, t >= Genesis
    PROVE  ClosesBeforeR(t, window)
  <1> DEFINE r == roundInSeconds(t, window + CloseBefore)
  <1>0. /\ Genesis \in Nat /\ Period \in Nat \ {0}
        /\ CloseBefore \in Nat /\ Period < CloseBefore /\ RevealWindow \in Nat \ {0}
    BY BeaconAssumption
  <1>1. t + (window + CloseBefore) \in Int /\ t + (window + CloseBefore) >= Genesis  BY <1>0
  <1>2. r \in Int  BY <1>1, ChosenRound DEF roundInSeconds
  <1> HIDE DEF r
  <1>3. Period * (r - 1) = Period * r - Period /\ Period * r \in Int
    BY <1>0, <1>2, NextRound
  <1>4. publishedAt(r) = Genesis + (Period * r - Period) /\ timeOfRound(r) = Genesis + Period * r
    BY <1>3 DEF publishedAt, timeOfRound
  <1>5. createRoundTimes(t, window) =
          [reveal |-> r, commitDeadline |-> timeOfRound(r) - CloseBefore,
           revealDeadline |-> timeOfRound(r) + RevealWindow]
    BY DEF createRoundTimes, r
  <1>6. /\ timeOfRound(r) - CloseBefore = publishedAt(r) - (CloseBefore - Period)
        /\ timeOfRound(r) - CloseBefore < publishedAt(r)
        /\ publishedAt(r) < timeOfRound(r) + RevealWindow
    BY <1>0, <1>3, <1>4
  <1> QED  BY <1>5, <1>6 DEF ClosesBeforeR

(* createRound: the window asked for is given, and at most a period more. *)
THEOREM ChosenWindowKept ==
    ASSUME NEW t \in Nat, NEW window \in Nat, t >= Genesis
    PROVE  WindowKept(t, window)
  <1> DEFINE u == t + (window + CloseBefore)
             r == roundInSeconds(t, window + CloseBefore)
  <1>0. Genesis \in Nat /\ Period \in Nat \ {0} /\ CloseBefore \in Nat  BY BeaconAssumption
  <1>1. u \in Int /\ u >= Genesis  BY <1>0
  <1>2. r = roundAt(u)  BY DEF roundInSeconds
  <1>3. r \in Int /\ u < timeOfRound(r) /\ timeOfRound(r) <= u + Period
    BY <1>1, <1>2, ChosenRound
  <1>4. createRoundTimes(t, window).commitDeadline = timeOfRound(r) - CloseBefore
    BY DEF createRoundTimes
  <1>5. timeOfRound(r) \in Int  BY <1>0, <1>3 DEF timeOfRound
  <1>6. u = t + (window + CloseBefore)  OBVIOUS
  <1> HIDE DEF r, u
  <1>7. /\ t + window < timeOfRound(r) - CloseBefore
        /\ timeOfRound(r) - CloseBefore <= t + window + Period
    BY <1>0, <1>3, <1>5, <1>6
  <1> QED  BY <1>4, <1>7 DEF WindowKept

(* useDrandCountdown: `published' turns true exactly one period after the  *)
(* round is out, so never before.                                          *)
THEOREM CountdownNeverEarly ==
    ASSUME NEW t \in Int, NEW r \in Int
    PROVE  CountdownIsLate(t, r)
  <1> DEFINE q == currentRound(t)
  <1>0. Genesis \in Nat /\ Period \in Nat \ {0}  BY BeaconAssumption
  <1>1. t - Genesis \in Int  BY <1>0
  <1>2. q \in Int /\ Period * q <= t - Genesis /\ t - Genesis < Period * q + Period
    BY <1>0, <1>1, DivFacts DEF currentRound
  <1>3. Period * (r - 1) = Period * r - Period /\ Period * r \in Int  BY <1>0, NextRound
  <1>4. publishedAt(r) + Period = Genesis + Period * r  BY <1>0, <1>3 DEF publishedAt
  <1>5. Period * q \in Int /\ Period * (q + 1) = Period * q + Period
    BY <1>0, <1>2, NextRound
  <1> HIDE DEF q
  <1>6. ASSUME q >= r PROVE t >= Genesis + Period * r
    <2>1. Period * q >= Period * r  BY <1>0, <1>2, <1>6, Monotone
    <2> QED  BY <2>1, <1>0, <1>2, <1>3, <1>5
  <1>7. ASSUME ~(q >= r) PROVE ~(t >= Genesis + Period * r)
    <2>1. r >= q + 1 /\ q + 1 \in Int  BY <1>2, <1>7
    <2>2. Period * r >= Period * (q + 1)  BY <2>1, <1>0, Monotone
    <2> QED  BY <2>2, <1>0, <1>2, <1>3, <1>5
  <1>8. (q >= r) <=> (t >= Genesis + Period * r)  BY <1>6, <1>7
  <1> QED  BY <1>4, <1>8 DEF CountdownIsLate, published, q

(* The deadlines createRound derives are ones Round may have: they are in  *)
(* the order of TimeAssumption, for every lag of the ledger that is below  *)
(* what CloseBefore leaves of it after the period timeOfRound is late.     *)
THEOREM CreatedTimesFit ==
    ASSUME NEW t \in Nat, NEW window \in Nat, t >= Genesis,
           NEW skew \in Nat, skew < CloseBefore - Period
    PROVE  LET times == createRoundTimes(t, window) IN
           /\ times.commitDeadline \in Nat /\ times.revealDeadline \in Nat
           /\ times.commitDeadline + skew < publishedAt(times.reveal)
           /\ publishedAt(times.reveal) < times.revealDeadline
  <1> DEFINE times == createRoundTimes(t, window)
             r == roundInSeconds(t, window + CloseBefore)
  <1>0. /\ Genesis \in Nat /\ Period \in Nat \ {0}
        /\ CloseBefore \in Nat /\ Period < CloseBefore /\ RevealWindow \in Nat \ {0}
    BY BeaconAssumption
  <1>1. ClosesBeforeR(t, window) /\ WindowKept(t, window)
    BY CommitsCloseBeforeR, ChosenWindowKept
  <1>2. t + (window + CloseBefore) \in Int /\ t + (window + CloseBefore) >= Genesis  BY <1>0
  <1>3. r \in Int  BY <1>2, ChosenRound DEF roundInSeconds
  <1>4. Period * r \in Int /\ Period * (r - 1) \in Int  BY <1>0, <1>3
  <1>5. timeOfRound(r) \in Int /\ publishedAt(r) \in Int
    BY <1>0, <1>4 DEF timeOfRound, publishedAt
  <1>6. /\ times.reveal = r /\ times.commitDeadline = timeOfRound(r) - CloseBefore
        /\ times.revealDeadline = timeOfRound(r) + RevealWindow
    BY DEF createRoundTimes
  <1>7. /\ times.commitDeadline = publishedAt(r) - (CloseBefore - Period)
        /\ publishedAt(r) < times.revealDeadline /\ t + window < times.commitDeadline
    BY <1>1, <1>6 DEF ClosesBeforeR, WindowKept
  <1> HIDE DEF times, r
  <1>8. times.commitDeadline \in Int /\ times.revealDeadline \in Int  BY <1>0, <1>5, <1>6
  <1>9. /\ times.commitDeadline \in Nat /\ times.commitDeadline + skew < publishedAt(r)
        /\ times.revealDeadline \in Nat
    BY <1>0, <1>5, <1>7, <1>8
  <1> QED  BY <1>6, <1>7, <1>9 DEF times

=============================================================================
