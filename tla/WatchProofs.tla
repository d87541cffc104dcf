---------------------------- MODULE WatchProofs ----------------------------
(***************************************************************************)
(* Proofs about Watch, for any rounds, lists, broken rounds and faults.    *)
(* The argument: the list of a tick names each id once, so what a round    *)
(* has waited is bounded by its place in the list and by how far the tick  *)
(* has come (TurnsInv).                                                    *)
(***************************************************************************)
EXTENDS Watch, FiniteSetTheorems, TLAPS

(* Sorting ids by how many are smaller. *)
LEMMA RankOrders ==
    ASSUME NEW S \in SUBSET Nat, IsFiniteSet(S), NEW a \in S
    PROVE  /\ Rank(a, S) \in 0..(Cardinality(S) - 1)
           /\ \A b \in S : a < b => Rank(a, S) < Rank(b, S)
<1> DEFINE Below(x) == {y \in S : y < x}
<1>1. Cardinality(S) \in Nat  BY FS_CardinalityType
<1>2. \A x \in S : IsFiniteSet(Below(x)) /\ Cardinality(Below(x)) \in Nat
  BY FS_Subset, FS_CardinalityType
<1>3. Cardinality(Below(a)) < Cardinality(S)
  <2>1. Below(a) \in SUBSET S /\ Below(a) # S  OBVIOUS
  <2>2. Cardinality(Below(a)) <= Cardinality(S) /\ Cardinality(S) # Cardinality(Below(a))
    BY <2>1, FS_Subset
  <2> QED  BY <1>1, <1>2, <2>2
<1>4. ASSUME NEW b \in S, a < b PROVE Cardinality(Below(a)) < Cardinality(Below(b))
  <2>1. Below(a) \in SUBSET Below(b) /\ Below(a) # Below(b)
    <3>1. a \in Below(b) /\ a \notin Below(a)  BY <1>4
    <3>2. \A y \in Below(a) : y \in Below(b)  BY <1>4
    <3> QED  BY <3>1, <3>2
  <2>2. /\ Cardinality(Below(a)) <= Cardinality(Below(b))
        /\ Cardinality(Below(b)) # Cardinality(Below(a))
    BY <1>2, <2>1, FS_Subset
  <2> QED  BY <1>2, <2>2
<1> QED  BY <1>1, <1>2, <1>3, <1>4 DEF Rank

LEMMA IdsFinite ==
    ASSUME NEW parts, parts \subseteq Nat \X Nat, IsFiniteSet(parts)
    PROVE  IsFiniteSet(IdsOf(parts)) /\ IdsOf(parts) \in SUBSET Nat
<1> DEFINE T == {p[1]..p[2] : p \in parts}
           f == [p \in parts |-> p[1]..p[2]]
<1>1. f \in Surjection(parts, T)  BY DEF Surjection
<1>2. IsFiniteSet(T)  BY <1>1, FS_Surjection
<1>3. \A U \in T : IsFiniteSet(U)
  <2>1. SUFFICES ASSUME NEW p \in parts PROVE IsFiniteSet(p[1]..p[2])  OBVIOUS
  <2>2. p[1] \in Int /\ p[2] \in Int  OBVIOUS
  <2> QED  BY <2>2, FS_Interval
<1>4. IsFiniteSet(UNION T)  BY <1>2, <1>3, FS_UNION
<1>5. UNION T \subseteq Nat  OBVIOUS
<1> QED  BY <1>4, <1>5 DEF IdsOf

(* parseRoundIdSpec lists the ids of all parts, each once, in order. *)
LEMMA ListSorted ==
    ASSUME NEW parts, parts \subseteq Nat \X Nat, IsFiniteSet(parts)
    PROVE  LET L == parseRoundIdSpec(parts) IN
           /\ L \in Seq(Nat) /\ Len(L) = Cardinality(IdsOf(parts)) /\ Len(L) \in Nat
           /\ \A i \in 1..Len(L) : L[i] \in IdsOf(parts)
           /\ \A id \in IdsOf(parts) : \E i \in 1..Len(L) : L[i] = id
           /\ \A i, j \in 1..Len(L) : i < j => L[i] < L[j]
<1> DEFINE S == IdsOf(parts)
           n == Cardinality(S)
           rank == [id \in S |-> Rank(id, S)]
           L == [i \in 1..n |-> CHOOSE id \in S : Rank(id, S) = i - 1]
<1>1. IsFiniteSet(S) /\ S \in SUBSET Nat /\ n \in Nat
  BY IdsFinite, FS_CardinalityType
<1>2. \A id \in S : /\ Rank(id, S) \in 0..(n - 1)
                    /\ \A b \in S : id < b => Rank(id, S) < Rank(b, S)
  BY <1>1, RankOrders
<1>3. \A a, b \in S : Rank(a, S) = Rank(b, S) => a = b
  <2>1. SUFFICES ASSUME NEW a \in S, NEW b \in S, Rank(a, S) = Rank(b, S) PROVE a = b
    OBVIOUS
  <2>2. a \in Nat /\ b \in Nat /\ Rank(a, S) \in Nat /\ Rank(b, S) \in Nat  BY <1>1, <1>2
  <2>3. ~(a < b) /\ ~(b < a)  BY <1>2, <2>1, <2>2
  <2> QED  BY <2>2, <2>3
<1> HIDE DEF S, n
<1>4. rank \in Injection(S, 0..(n - 1))
  BY <1>2, <1>3 DEF Injection, IsInjective
<1>5. IsFiniteSet(0..(n - 1)) /\ Cardinality(0..(n - 1)) = n
  <2>1. 0 \in Int /\ n - 1 \in Int  BY <1>1
  <2>2. IsFiniteSet(0..(n - 1)) /\ Cardinality(0..(n - 1)) = IF 0 > n - 1 THEN 0 ELSE n - 1 - 0 + 1
    BY <2>1, FS_Interval
  <2> QED  BY <1>1, <2>2
<1>6. rank \in Surjection(S, 0..(n - 1))
  BY <1>1, <1>4, <1>5, FS_Injection DEF n
<1>7. ASSUME NEW i \in 1..n PROVE L[i] \in S /\ Rank(L[i], S) = i - 1
  <2>1. \E id \in S : Rank(id, S) = i - 1
    <3>1. i - 1 \in 0..(n - 1)  BY <1>1
    <3> QED  BY <1>6, <3>1 DEF Surjection
  <2> QED  BY <2>1
<1>8. L \in Seq(Nat) /\ Len(L) = n
  <2>1. \A i \in 1..n : L[i] \in Nat  BY <1>1, <1>7
  <2>2. DOMAIN L = 1..n  OBVIOUS
  <2>3. L = [i \in 1..n |-> L[i]]  BY <2>2
  <2> HIDE DEF L
  <2> QED  BY <1>1, <2>1, <2>3
<1>9. ASSUME NEW id \in S PROVE \E i \in 1..n : L[i] = id
  <2>1. Rank(id, S) + 1 \in 1..n  BY <1>1, <1>2
  <2>2. L[Rank(id, S) + 1] \in S /\ Rank(L[Rank(id, S) + 1], S) = Rank(id, S)
    BY <1>1, <1>2, <1>7, <2>1
  <2> QED  BY <1>3, <2>1, <2>2
<1>10. ASSUME NEW i \in 1..n, NEW j \in 1..n, i < j PROVE L[i] < L[j]
  <2>1. L[i] \in S /\ L[j] \in S /\ Rank(L[i], S) = i - 1 /\ Rank(L[j], S) = j - 1
    BY <1>7
  <2>2. L[i] \in Nat /\ L[j] \in Nat /\ L[i] # L[j]
    <3>1. L[i] = L[j] => i - 1 = j - 1  BY <2>1
    <3>2. i - 1 # j - 1  BY <1>1, <1>10
    <3> QED  BY <1>1, <2>1, <3>1, <3>2
  <2>3. ~(L[j] < L[i])
    <3>1. L[j] < L[i] => j - 1 < i - 1  BY <1>2, <2>1
    <3> QED  BY <1>1, <1>10, <3>1
  <2> QED  BY <2>2, <2>3
<1>11. parseRoundIdSpec(parts) = L  BY DEF parseRoundIdSpec, S, n
<1> HIDE DEF L
<1> QED  BY <1>1, <1>7, <1>8, <1>9, <1>10, <1>11 DEF S, n

----------------------------------------------------------------------------
(* The bound of FairTurns follows from the places in the list. *)
LEMMA SpecTyped ==
    ASSUME spec \in Specs
    PROVE  spec \subseteq Nat \X Nat /\ IsFiniteSet(spec)
BY WatchAssumption

PlacesHold ==
    /\ waited \in [RoundId -> Nat] /\ spec \in Specs /\ ids \in Seq(Nat)
    /\ IF spec = {} THEN FoundTurns ELSE ListTurns(parseRoundIdSpec(spec))

LEMMA FairNow == PlacesHold => FairTurns
<1> USE DEF PlacesHold
<1> SUFFICES ASSUME PlacesHold, NEW r \in Driven
             PROVE  waited[r] <= IF spec = {} THEN 2 * (MaxRound - 1)
                                 ELSE Len(parseRoundIdSpec(spec)) - 1
  BY DEF FairTurns
<1>1. r \in Created /\ r \in 1..MaxRound /\ MaxRound \in Nat \ {0} /\ From \in Nat \ {0}
      /\ MaxProbe \in Nat /\ Len(ids) \in Nat /\ waited[r] \in Nat
  BY WatchAssumption DEF Driven, Created, RoundId
<1>2. CASE spec = {}
  <2>1. r \in Created \cap From..(From + MaxProbe - 1)  BY <1>1, <1>2 DEF Driven
  <2>2. waited[r] <= IF ~InTick \/ ids = <<>> THEN MaxRound - 1
                     ELSE IF r < ids[1] THEN ids[1] - 1 - From
                     ELSE IF r < ids[1] + Len(ids) THEN MaxRound - 1 + ids[1] - From
                     ELSE ids[1] - From
    BY <1>2, <2>1 DEF FoundTurns
  <2>3. InTick /\ ids # <<>> => ids[1] \in 1..MaxRound
    <3>1. InTick /\ ids # <<>> => ids[1] \in Created
      BY <1>1, <1>2 DEF FoundTurns
    <3> QED  BY <3>1 DEF Created, RoundId
  <2> QED  BY <1>1, <1>2, <2>2, <2>3
<1>3. CASE spec # {}
  <2> DEFINE L == parseRoundIdSpec(spec)
             n == Len(L)
             k == n - Len(ids)
  <2>1. r \in IdsOf(spec)  BY <1>3 DEF Driven
  <2>2. n \in Nat /\ \E i \in 1..n : L[i] = r  BY <2>1, SpecTyped, ListSorted
  <2>3. PICK p \in 1..n : L[p] = r  BY <2>2
  <2>4. /\ waited[r] <= IF ~InTick THEN n - p ELSE IF p <= k THEN k - p ELSE n - p + k
        /\ InTick => k \in 0..n
    BY <1>1, <1>3, <2>3 DEF ListTurns
  <2> HIDE DEF L, k, n
  <2>5. waited[r] <= n - 1
    <3>1. k \in Int  BY <1>1, <2>2 DEF k
    <3> QED  BY <1>1, <2>2, <2>3, <2>4, <3>1
  <2> QED  BY <1>3, <2>5 DEF n, L
<1> QED  BY <1>2, <1>3

(* As long as nobody is visited only new rounds matter, which waited for   *)
(* nobody yet.                                                             *)
LEMMA FairKept ==
    ASSUME FairTurns, spec \in Specs, UNCHANGED <<spec, waited>>,
           \A r \in Created' \ Created : waited[r] = 0
    PROVE  FairTurns'
<1> SUFFICES ASSUME NEW r \in Driven'
             PROVE  waited[r] <= IF spec = {} THEN 2 * (MaxRound - 1)
                                 ELSE Len(parseRoundIdSpec(spec)) - 1
  BY DEF FairTurns
<1>1. CASE r \in Created
  <2>1. r \in Driven  BY <1>1 DEF Driven
  <2> QED  BY <2>1 DEF FairTurns
<1>2. CASE r \notin Created
  <2>1. waited[r] = 0  BY <1>2 DEF Driven
  <2>2. CASE spec = {}  BY <2>1, <2>2, WatchAssumption
  <2>3. CASE spec # {}
    <3>1. r \in IdsOf(spec)  BY <2>3 DEF Driven
    <3>2. /\ Len(parseRoundIdSpec(spec)) \in Nat
          /\ \E i \in 1..Len(parseRoundIdSpec(spec)) : parseRoundIdSpec(spec)[i] = r
      BY <3>1, SpecTyped, ListSorted
    <3> QED  BY <2>1, <2>3, <3>2
  <2> QED  BY <2>2, <2>3
<1> QED  BY <1>1, <1>2

LEMMA TurnsInit ==
    ASSUME Init PROVE TurnsInv
<1> USE DEF Init
<1>1. Created = {}  BY DEF Created
<1>2. stage \in [RoundId -> Stages] /\ waited \in [RoundId -> Nat] /\ ids \in Seq(Nat)
  BY DEF Stages
<1>3. spec \in Specs /\ ~InTick /\ pc = "loop"  BY DEF InTick
<1>4. spec = {} => FoundTurns  BY <1>1, <1>3 DEF FoundTurns
<1>5. spec # {} => ListTurns(parseRoundIdSpec(spec))  BY <1>1, <1>3 DEF ListTurns
<1>6. FairTurns  BY <1>1 DEF FairTurns, Driven
<1> QED  BY <1>1, <1>2, <1>3, <1>4, <1>5, <1>6 DEF TurnsInv

(* Whatever happens to the rounds, and wherever the process is within one  *)
(* visit, what has been waited stays where it is;                          *)
LEMMA SameTurns ==
    ASSUME TurnsInv, stage' \in [RoundId -> Stages], Created' = Created,
           UNCHANGED <<spec, waited, ids>>, stopping' \in BOOLEAN, ~stopping' => ~stopping,
           InTick' = InTick, pc' = "probe" <=> pc = "probe"
    PROVE  TurnsInv'
<1> USE DEF TurnsInv
<1>1. FairTurns'  BY FairKept
<1>2. ASSUME ~stopping'
      PROVE IF spec' = {} THEN FoundTurns' ELSE ListTurns(parseRoundIdSpec(spec))'
  <2>1. IF spec = {} THEN FoundTurns ELSE ListTurns(parseRoundIdSpec(spec))  BY <1>2
  <2>2. spec = {} /\ FoundTurns => FoundTurns'  BY DEF FoundTurns
  <2>3. ListTurns(parseRoundIdSpec(spec)) => ListTurns(parseRoundIdSpec(spec))'
    <3> DEFINE L == parseRoundIdSpec(spec)
    <3>1. L' = L  BY DEF parseRoundIdSpec
    <3> HIDE DEF L
    <3>2. ListTurns(L) => ListTurns(L)'  BY <3>1 DEF ListTurns
    <3> QED  BY <3>2 DEF L
  <2> QED  BY <2>1, <2>2, <2>3
<1>3. /\ waited' \in [RoundId -> Nat] /\ spec' \in Specs /\ ids' \in Seq(Nat)
      /\ \A r \in Created' : 1..r \subseteq Created'
      /\ \A r \in RoundId \ Created' : waited'[r] = 0
      /\ pc' = "probe" => spec' = {}
  OBVIOUS
<1> QED  BY <1>1, <1>2, <1>3

(* a round starts with what it has waited at 0,                            *)
LEMMA CreateTurns ==
    ASSUME TurnsInv, CreateRound
    PROVE  TurnsInv'
<1> USE DEF TurnsInv
<1>1. PICK r \in RoundId : Created = 1..(r - 1) /\ stage' = [stage EXCEPT ![r] = "Open"]
  BY DEF CreateRound, Becomes
<1>2. UNCHANGED <<spec, waited, ids, stopping, pc>>  BY DEF CreateRound, loopVars
<1>3. r \in Nat /\ r >= 1 /\ r \notin Created  BY <1>1, WatchAssumption DEF RoundId
<1>4. Created' = Created \cup {r} /\ Created' = 1..r
  <2>1. Created' = Created \cup {r}  BY <1>1 DEF Created
  <2> QED  BY <1>1, <1>3, <2>1
<1>5. waited[r] = 0  BY <1>1, <1>3
<1>6. FairTurns'  BY <1>2, <1>4, <1>5, FairKept
<1>7. /\ MaxRound \in Nat \ {0} /\ From \in Nat \ {0} /\ MaxProbe \in Nat /\ Len(ids) \in Nat
  BY WatchAssumption
<1>8. ASSUME ~stopping, spec = {} PROVE FoundTurns'
  <2>1. FoundTurns  BY <1>8
  <2>2. /\ pc' = "probe" \/ InTick' =>
             \A i \in 1..Len(ids') : ids'[i] \in Created' /\ ids'[i] = ids'[1] + i - 1
        /\ ids' # <<>> /\ InTick' => ids'[1] >= From
        /\ ids' # <<>> /\ pc' = "probe" => ids'[1] = From
    BY <1>2, <1>4, <2>1 DEF FoundTurns, InTick
  <2>3. ASSUME r \in From..(From + MaxProbe - 1)
        PROVE  0 <= IF ~InTick \/ ids = <<>> THEN MaxRound - 1
                    ELSE IF r < ids[1] THEN ids[1] - 1 - From
                    ELSE IF r < ids[1] + Len(ids) THEN MaxRound - 1 + ids[1] - From
                    ELSE ids[1] - From
    <3>1. ids # <<>> /\ InTick => ids[1] >= From /\ ids[1] \in Nat  BY <2>1 DEF FoundTurns
    <3> QED  BY <1>3, <1>7, <2>3, <3>1
  <2>4. \A s \in Created' \cap From..(From + MaxProbe - 1) :
          waited'[s] <= IF ~InTick' \/ ids' = <<>> THEN MaxRound - 1
                       ELSE IF s < ids'[1] THEN ids'[1] - 1 - From
                       ELSE IF s < ids'[1] + Len(ids') THEN MaxRound - 1 + ids'[1] - From
                       ELSE ids'[1] - From
    <3>1. SUFFICES ASSUME NEW s \in Created' \cap From..(From + MaxProbe - 1)
          PROVE waited[s] <= IF ~InTick \/ ids = <<>> THEN MaxRound - 1
                       ELSE IF s < ids[1] THEN ids[1] - 1 - From
                       ELSE IF s < ids[1] + Len(ids) THEN MaxRound - 1 + ids[1] - From
                       ELSE ids[1] - From
      BY <1>2 DEF InTick
    <3>2. CASE s = r  BY <1>5, <2>3, <3>2
    <3>3. CASE s # r  BY <1>4, <2>1, <3>3 DEF FoundTurns
    <3> QED  BY <3>2, <3>3
  <2> QED  BY <2>2, <2>4 DEF FoundTurns
<1>9. ASSUME ~stopping, spec # {} PROVE ListTurns(parseRoundIdSpec(spec))'
  <2> DEFINE L == parseRoundIdSpec(spec)
             n == Len(L)
             k == n - Len(ids)
  <2>1. ListTurns(L)  BY <1>9
  <2>2. n \in Nat  BY SpecTyped, ListSorted
  <2>3. L' = L  BY <1>2 DEF parseRoundIdSpec
  <2> HIDE DEF L
  <2>4. ASSUME NEW p \in 1..n, L[p] \in Created'
        PROVE  waited[L[p]] <= IF ~InTick THEN n - p ELSE IF p <= k THEN k - p ELSE n - p + k
    <3>1. CASE L[p] \in Created  BY <2>1, <3>1 DEF ListTurns
    <3>2. CASE L[p] = r
      <4>1. InTick => k \in 0..n  BY <2>1 DEF ListTurns
      <4>2. k \in Int /\ p \in Int /\ p <= n  BY <1>7, <2>2
      <4> HIDE DEF k, n
      <4> QED  BY <1>5, <2>2, <3>2, <4>1, <4>2
    <3> QED  BY <1>4, <2>4, <3>1, <3>2
  <2>5. InTick' = InTick  BY <1>2 DEF InTick
  <2>6. InTick => k \in 0..n /\ \A i \in 1..Len(ids) : ids[i] = L[k + i]
    BY <2>1 DEF ListTurns
  <2>7. ListTurns(L)'  BY <1>2, <2>3, <2>4, <2>5, <2>6 DEF ListTurns
  <2> QED  BY <2>7 DEF L
<1>10. stage' \in [RoundId -> Stages]  BY <1>1 DEF Stages
<1>11. /\ \A s \in Created' : 1..s \subseteq Created'
       /\ \A s \in RoundId \ Created' : waited'[s] = 0
       /\ pc' = "probe" => spec' = {}
  BY <1>2, <1>3, <1>4
<1> QED  BY <1>2, <1>6, <1>8, <1>9, <1>10, <1>11

(* The rounds that exist do not change with their stage. *)
LEMMA SameCreated ==
    ASSUME stage \in [RoundId -> Stages], NEW r \in Created, NEW s \in Stages \ {"Absent"},
           Becomes(r, s)
    PROVE  stage' \in [RoundId -> Stages] /\ Created' = Created
BY DEF Becomes, Created

LEMMA OthersTurns ==
    ASSUME TurnsInv, RunOnce \/ Anyone \/ Signal \/ \E r \in RoundId : Pass(r) \/ PublishR(r)
    PROVE  TurnsInv'
<1>0. stage \in [RoundId -> Stages] /\ stopping \in BOOLEAN  BY DEF TurnsInv
<1>1. UNCHANGED <<spec, waited, ids, pc>> /\ stopping' \in BOOLEAN /\ (~stopping' => ~stopping)
  BY <1>0 DEF RunOnce, Anyone, Signal, Pass, PublishR, loopVars
<1>2. stage' \in [RoundId -> Stages] /\ Created' = Created
  <2>1. ASSUME NEW r \in RoundId, OpenReveal(r) \/ Clear(r) \/ Settle(r) \/ Void(r)
        PROVE  stage' \in [RoundId -> Stages] /\ Created' = Created
    <3>1. r \in Created  BY <2>1 DEF OpenReveal, Clear, Settle, Void, Created
    <3>2. \E s \in Stages \ {"Absent"} : Becomes(r, s)
      BY <2>1 DEF OpenReveal, Clear, Settle, Void, Stages
    <3> QED  BY <1>0, <3>1, <3>2, SameCreated
  <2>2. CASE UNCHANGED stage  BY <1>0, <2>2 DEF Created
  <2> QED  BY <2>1, <2>2 DEF RunOnce, Anyone, Signal, Pass, PublishR, chainVars
<1> QED  BY <1>1, <1>2, SameTurns DEF InTick

LEMMA VisitingTurns ==
    ASSUME TurnsInv, voidIfStale \/ keepRound \/ closeRound \/ settleRound \/ TickFailed
    PROVE  TurnsInv'
<1>0. stage \in [RoundId -> Stages] /\ stopping \in BOOLEAN  BY DEF TurnsInv
<1>1. UNCHANGED <<spec, waited, ids, stopping>> /\ InTick /\ InTick'
      /\ pc # "probe" /\ pc' # "probe"
  BY DEF voidIfStale, keepRound, closeRound, settleRound, TickFailed, Stage, Visiting, Goto,
         InTick
<1>2. \/ UNCHANGED stage
      \/ current \in RoundId /\ (OpenReveal(current) \/ Clear(current) \/ Settle(current)
                                    \/ Void(current))
  BY DEF voidIfStale, keepRound, closeRound, settleRound, TickFailed, Stage, Landed, Created
<1>3. stage' \in [RoundId -> Stages] /\ Created' = Created
  <2>1. CASE UNCHANGED stage  BY <1>0, <2>1 DEF Created
  <2>2. CASE current \in RoundId /\ (OpenReveal(current) \/ Clear(current) \/ Settle(current)
                                        \/ Void(current))
    <3>1. current \in Created  BY <2>2 DEF OpenReveal, Clear, Settle, Void, Created
    <3>2. \E s \in Stages \ {"Absent"} : Becomes(current, s)
      BY <2>2 DEF OpenReveal, Clear, Settle, Void, Stages
    <3> QED  BY <1>0, <3>1, <3>2, SameCreated
  <2> QED  BY <1>2, <2>1, <2>2
<1> QED  BY <1>0, <1>1, <1>3, SameTurns

(* What a step between two visits leaves to show. *)
LEMMA ListStep ==
    ASSUME TurnsInv, UNCHANGED <<stage, waited, spec, stopping>>, ids' \in Seq(Nat),
           pc' = "probe" => spec = {},
           ~stopping => IF spec = {} THEN FoundTurns' ELSE ListTurns(parseRoundIdSpec(spec))'
    PROVE  TurnsInv'
<1> USE DEF TurnsInv
<1>1. Created' = Created  BY DEF Created
<1>2. FairTurns'  BY <1>1, FairKept
<1> QED  BY <1>1, <1>2

LEMMA ResolveTurns ==
    ASSUME TurnsInv, resolveRoundIds PROVE TurnsInv'
<1> USE DEF TurnsInv
<1>1. /\ UNCHANGED <<stage, waited, spec, stopping>> /\ pc = "loop" /\ ~InTick
      /\ \/ stopping /\ pc' = "stopped" /\ ids' = <<>>
         \/ ~stopping /\ spec # {} /\ pc' = "next" /\ ids' = parseRoundIdSpec(spec)
         \/ ~stopping /\ spec = {} /\ pc' = "probe" /\ ids' = <<>>
  BY DEF resolveRoundIds, OnlyLoop, chainVars, Goto, InTick
<1>2. Created' = Created  BY <1>1 DEF Created
<1>3. CASE stopping  BY <1>1, <1>3, ListStep
<1>4. CASE ~stopping /\ spec # {}
  <2> DEFINE L == parseRoundIdSpec(spec)
             n == Len(L)
  <2>1. L' = L /\ ids' = L /\ pc' = "next"  BY <1>1, <1>4 DEF parseRoundIdSpec
  <2>2. L \in Seq(Nat) /\ n \in Nat  BY SpecTyped, ListSorted
  <2>3. ListTurns(L)  BY <1>4
  <2> HIDE DEF L
  <2>4. InTick' /\ n - Len(ids') = 0  BY <2>1, <2>2 DEF InTick
  <2>5. \A p \in 1..n : L[p] \in Created => waited[L[p]] <= n - p
    BY <1>1, <2>3 DEF ListTurns
  <2>6. ListTurns(L)'
    <3>1. \A i \in 1..Len(ids') : ids'[i] = L[0 + i]  BY <2>1, <2>2
    <3>2. \A p \in 1..n : L[p] \in Created => ~(p <= 0) /\ waited[L[p]] <= n - p + 0
      BY <2>2, <2>5
    <3>3. 0 \in 0..n  BY <2>2
    <3> QED  BY <1>1, <1>2, <2>1, <2>4, <3>1, <3>2, <3>3 DEF ListTurns
  <2> QED  BY <1>1, <1>4, <2>1, <2>2, <2>6, ListStep DEF L
<1>5. CASE ~stopping /\ spec = {}
  <2>1. pc' = "probe" /\ ids' = <<>> /\ ~InTick' /\ Len(ids') = 0  BY <1>1, <1>5 DEF InTick
  <2>2. FoundTurns'  BY <1>1, <1>2, <1>5, <2>1 DEF FoundTurns
  <2> QED  BY <1>1, <1>5, <2>1, <2>2, ListStep
<1> QED  BY <1>3, <1>4, <1>5

(* The tick ends, or there is none: *)
LEMMA IdleTurns ==
    ASSUME TurnsInv, ListFails \/ NoMore \/ Sleep PROVE TurnsInv'
<1> USE DEF TurnsInv
<1>1. /\ UNCHANGED <<stage, waited, spec, stopping>>
      /\ pc' \in {"sleep", "loop"} /\ ~InTick' /\ ids' \in {<<>>, ids}
      /\ \/ pc = "probe" \/ pc = "sleep"
         \/ InTick /\ (ids = <<>> \/ stopping)
  BY DEF ListFails, NoMore, Sleep, OnlyLoop, chainVars, Goto, InTick
<1>2. Created' = Created  BY <1>1 DEF Created
<1>3. ASSUME ~stopping, spec = {} PROVE FoundTurns'
  <2>1. \A r \in Created \cap From..(From + MaxProbe - 1) : waited[r] <= MaxRound - 1
    BY <1>1, <1>3 DEF FoundTurns, InTick
  <2> QED  BY <1>1, <1>2, <2>1 DEF FoundTurns
<1>4. ASSUME ~stopping, spec # {} PROVE ListTurns(parseRoundIdSpec(spec))'
  <2> DEFINE L == parseRoundIdSpec(spec)
             n == Len(L)
  <2>1. L' = L  BY <1>1 DEF parseRoundIdSpec
  <2>2. n \in Nat  BY SpecTyped, ListSorted
  <2>3. ListTurns(L)  BY <1>4
  <2> HIDE DEF L
  <2>4. InTick => n - Len(ids) = n
    <3>1. InTick => ids = <<>>  BY <1>1, <1>4 DEF InTick
    <3> QED  BY <2>2, <3>1
  <2>5. \A p \in 1..n : L[p] \in Created => waited[L[p]] <= n - p
    BY <1>1, <2>2, <2>3, <2>4 DEF ListTurns
  <2>6. ListTurns(L)'  BY <1>1, <1>2, <2>1, <2>5 DEF ListTurns
  <2> QED  BY <2>6 DEF L
<1>5. ids' \in Seq(Nat) /\ pc' # "probe"
  <2>1. ids \in Seq(Nat) /\ <<>> \in Seq(Nat)  OBVIOUS
  <2>2. ids' \in {<<>>, ids} /\ pc' \in {"sleep", "loop"}  BY <1>1
  <2> QED  BY ONLY <2>1, <2>2
<1>6. ~stopping => IF spec = {} THEN FoundTurns' ELSE ListTurns(parseRoundIdSpec(spec))'
  BY <1>3, <1>4
<1> QED  BY <1>1, <1>5, <1>6, ListStep

(* The probe finds consecutive ids, and stops at the first that is absent. *)
LEMMA ProbeTurns ==
    ASSUME TurnsInv, discoverRoundIds PROVE TurnsInv'
<1> USE DEF TurnsInv
<1> DEFINE id == From + Len(ids)
<1>0. Len(ids) \in Nat /\ From \in Nat \ {0} /\ MaxProbe \in Nat /\ MaxRound \in Nat \ {0}
  BY WatchAssumption
<1>1. /\ UNCHANGED <<stage, waited, spec, stopping>> /\ pc = "probe" /\ ~InTick /\ spec = {}
      /\ \/ /\ Len(ids) < MaxProbe /\ id \in Created
            /\ ids' = Append(ids, id) /\ pc' = "probe"
         \/ /\ ~(Len(ids) < MaxProbe /\ id \in Created)
            /\ pc' = "next" /\ ids' = ids
  BY DEF discoverRoundIds, OnlyLoop, chainVars, Goto, InTick
<1>2. Created' = Created /\ Created \subseteq Nat  BY <1>1, WatchAssumption DEF Created, RoundId
<1>3. id \in Nat  BY <1>0
<1> HIDE DEF id
<1>4. ids' \in Seq(Nat)
  <2>1. ids \in Seq(Nat)  OBVIOUS
  <2>2. ids' = Append(ids, id) \/ ids' = ids  BY <1>1
  <2>3. Append(ids, id) \in Seq(Nat)  BY ONLY <1>3, <2>1
  <2> QED  BY ONLY <2>1, <2>2, <2>3
<1>5. ASSUME ~stopping PROVE FoundTurns'
  <2>1. /\ \A i \in 1..Len(ids) : ids[i] \in Created /\ ids[i] = ids[1] + i - 1
        /\ ids # <<>> => ids[1] = From
        /\ \A r \in Created \cap From..(From + MaxProbe - 1) : waited[r] <= MaxRound - 1
    BY <1>1, <1>5 DEF FoundTurns
  <2>2. \A i \in 1..Len(ids) : ids[i] = From + i - 1
    BY <1>0, <2>1
  <2>3. CASE ids' = Append(ids, id) /\ pc' = "probe" /\ id \in Created
    <3>1. ~InTick'  BY <2>3 DEF InTick
    <3>2. Len(ids') = Len(ids) + 1 /\ ids'[Len(ids) + 1] = id
          /\ \A i \in 1..Len(ids) : ids'[i] = ids[i]
      BY <1>3, <2>3
    <3>3. \A i \in 1..Len(ids') : ids'[i] \in Created /\ ids'[i] = From + i - 1
      <4>1. SUFFICES ASSUME NEW i \in 1..Len(ids')
                     PROVE  ids'[i] \in Created /\ ids'[i] = From + i - 1
        OBVIOUS
      <4>2. CASE i = Len(ids) + 1  BY <1>0, <2>3, <3>2, <4>2 DEF id
      <4>3. CASE i # Len(ids) + 1
        <5>1. i \in 1..Len(ids)  BY <1>0, <3>2, <4>1, <4>3
        <5> QED  BY <2>1, <2>2, <3>2, <5>1
      <4> QED  BY <4>2, <4>3
    <3>4. ids'[1] = From  BY <1>0, <3>2, <3>3
    <3>5. \A i \in 1..Len(ids') : ids'[i] \in Created' /\ ids'[i] = ids'[1] + i - 1
      BY <1>2, <3>3, <3>4
    <3> QED  BY <1>1, <1>2, <2>1, <3>1, <3>4, <3>5 DEF FoundTurns
  <2>4. CASE ids' = ids /\ pc' = "next" /\ ~(Len(ids) < MaxProbe /\ id \in Created)
    <3>1. /\ \A i \in 1..Len(ids') : ids'[i] \in Created' /\ ids'[i] = ids'[1] + i - 1
          /\ ids' # <<>> => ids'[1] = From /\ ids'[1] >= From
      BY <1>0, <1>2, <2>1, <2>4
    <3>2. ASSUME NEW r \in Created \cap From..(From + MaxProbe - 1)
          PROVE  waited'[r] <= IF ~InTick' \/ ids' = <<>> THEN MaxRound - 1
                       ELSE IF r < ids'[1] THEN ids'[1] - 1 - From
                       ELSE IF r < ids'[1] + Len(ids') THEN MaxRound - 1 + ids'[1] - From
                       ELSE ids'[1] - From
      <4>1. waited'[r] <= MaxRound - 1  BY <1>1, <2>1
      <4>2. r \in Nat /\ r >= From /\ r < From + MaxProbe  BY <1>0, <3>2
      <4>3. r < From + Len(ids)
        <5>1. CASE Len(ids) >= MaxProbe  BY <1>0, <4>2, <5>1
        <5>2. CASE id \notin Created
          <6>1. 1..r \subseteq Created  BY <3>2
          <6>2. id \notin 1..r  BY <5>2, <6>1
          <6> QED  BY <1>0, <4>2, <6>2 DEF id
        <5> QED  BY <1>0, <2>4, <5>1, <5>2
      <4>4. waited'[r] \in Nat  BY <1>1, <3>2 DEF Created
      <4>5. ids' # <<>> => ~(r < ids'[1]) /\ r < ids'[1] + Len(ids')
                           /\ MaxRound - 1 + ids'[1] - From = MaxRound - 1
        BY <1>0, <2>4, <3>1, <4>2, <4>3
      <4> QED  BY <4>1, <4>5
    <3> QED  BY <1>2, <2>4, <3>1, <3>2 DEF FoundTurns
  <2> QED  BY <1>1, <2>3, <2>4
<1>6. ~stopping => IF spec = {} THEN FoundTurns' ELSE ListTurns(parseRoundIdSpec(spec))'
  BY <1>1, <1>5
<1> QED  BY <1>1, <1>4, <1>6, ListStep

(* A visit: the next id has waited no longer, the others one visit more. *)
LEMMA VisitMoves ==
    ASSUME TurnsInv, Visit
    PROVE  /\ ~stopping /\ InTick /\ InTick' /\ pc' # "probe" /\ ids # <<>>
           /\ UNCHANGED <<stage, spec, stopping>> /\ Created' = Created
           /\ Len(ids) \in Nat \ {0} /\ ids' \in Seq(Nat) /\ Len(ids') = Len(ids) - 1
           /\ \A i \in 1..Len(ids') : ids'[i] = ids[i + 1]
           /\ waited' \in [RoundId -> Nat]
           /\ \A r \in Created : waited'[r] <= IF r = ids[1] THEN 0 ELSE waited[r] + 1
           /\ \A r \in RoundId \ Created : waited'[r] = 0
<1> USE DEF TurnsInv
<1>1. /\ pc = "next" /\ ids # <<>> /\ ~stopping /\ ids' = Tail(ids) /\ pc' = "void"
      /\ waited' = [r \in RoundId |->
                    IF r = Head(ids) \/ stage[r] = "Absent" THEN 0
                    ELSE IF waited[r] < Enough THEN waited[r] + 1 ELSE waited[r]]
      /\ UNCHANGED <<stage, spec, stopping>>
  BY DEF Visit, OnlyLoop, chainVars, Goto
<1>2. Head(ids) = ids[1] /\ Len(ids) \in Nat \ {0} /\ ids' \in Seq(Nat)
      /\ Len(ids') = Len(ids) - 1 /\ \A i \in 1..Len(ids') : ids'[i] = ids[i + 1]
  BY <1>1
<1>3. Created' = Created /\ Created \subseteq RoundId  BY <1>1 DEF Created
<1>4. waited' \in [RoundId -> Nat]  BY <1>1
<1>5. \A r \in RoundId : r \in Created <=> stage[r] # "Absent"  BY DEF Created
<1>6. \A r \in Created : waited'[r] <= IF r = ids[1] THEN 0 ELSE waited[r] + 1
  <2>1. SUFFICES ASSUME NEW r \in Created
                 PROVE  waited'[r] <= IF r = ids[1] THEN 0 ELSE waited[r] + 1
    OBVIOUS
  <2>2. r \in RoundId /\ waited[r] \in Nat  BY <1>3
  <2> QED  BY <1>1, <1>2, <2>2
<1>7. \A r \in RoundId \ Created : waited'[r] = 0  BY <1>1, <1>5
<1> QED  BY <1>1, <1>2, <1>3, <1>4, <1>6, <1>7 DEF InTick

LEMMA VisitFound ==
    ASSUME TurnsInv, Visit, spec = {} PROVE FoundTurns'
<1> USE DEF TurnsInv
<1> DEFINE a == ids[1]
<1>0. From \in Nat \ {0} /\ MaxProbe \in Nat /\ MaxRound \in Nat \ {0}
  BY WatchAssumption
<1>1. /\ ~stopping /\ InTick /\ InTick' /\ pc' # "probe" /\ ids # <<>> /\ Created' = Created
      /\ Len(ids) \in Nat \ {0} /\ Len(ids') = Len(ids) - 1
      /\ \A i \in 1..Len(ids') : ids'[i] = ids[i + 1]
      /\ waited' \in [RoundId -> Nat] /\ ids' \in Seq(Nat)
      /\ \A r \in Created : waited'[r] <= IF r = a THEN 0 ELSE waited[r] + 1
  BY VisitMoves
<1>2. /\ \A i \in 1..Len(ids) : ids[i] \in Created /\ ids[i] = a + i - 1
      /\ a >= From /\ a \in Created
      /\ \A r \in Created \cap From..(From + MaxProbe - 1) :
            waited[r] <= IF r < a THEN a - 1 - From
                         ELSE IF r < a + Len(ids) THEN MaxRound - 1 + a - From
                         ELSE a - From
  <2>1. FoundTurns  BY <1>1
  <2>2. 1 \in 1..Len(ids)  BY <1>1
  <2> QED  BY <1>1, <2>1, <2>2 DEF FoundTurns
<1>3. a \in 1..MaxRound  BY <1>2 DEF Created, RoundId
<1> HIDE DEF a
<1>4. /\ \A i \in 1..Len(ids') : ids'[i] \in Created /\ ids'[i] = a + 1 + i - 1
  <2>1. SUFFICES ASSUME NEW i \in 1..Len(ids')
                 PROVE  ids'[i] \in Created /\ ids'[i] = a + 1 + i - 1
    OBVIOUS
  <2>2. i + 1 \in 1..Len(ids)  BY <1>1
  <2>3. ids[i + 1] \in Created /\ ids[i + 1] = a + (i + 1) - 1  BY <1>2, <2>2
  <2> QED  BY <1>1, <1>3, <2>3
<1>5. ids' # <<>> => ids'[1] = a + 1 /\ Len(ids') \in Nat \ {0}
  <2>1. ids' # <<>> => Len(ids') \in Nat \ {0}
    <3>1. ids' \in Seq(Nat)  BY <1>1
    <3> QED  BY ONLY <3>1
  <2>2. Len(ids') \in Nat \ {0} => 1 \in 1..Len(ids')  OBVIOUS
  <2> QED  BY <1>3, <1>4, <2>1, <2>2
<1>6. ids' = <<>> => Len(ids) = 1  BY <1>1
<1>7. ASSUME NEW r \in Created \cap From..(From + MaxProbe - 1)
      PROVE  waited'[r] <= IF ~InTick' \/ ids' = <<>> THEN MaxRound - 1
                       ELSE IF r < ids'[1] THEN ids'[1] - 1 - From
                       ELSE IF r < ids'[1] + Len(ids') THEN MaxRound - 1 + ids'[1] - From
                       ELSE ids'[1] - From
  <2>1. r \in 1..MaxRound /\ r >= From /\ waited[r] \in Nat /\ waited'[r] \in Nat
    BY <1>0, <1>1, <1>7 DEF Created, RoundId
  <2>2. waited[r] <= IF r < a THEN a - 1 - From
                     ELSE IF r < a + Len(ids) THEN MaxRound - 1 + a - From
                     ELSE a - From
    BY <1>2, <1>7
  <2>3. waited'[r] <= IF r = a THEN 0 ELSE waited[r] + 1  BY <1>1, <1>7
  <2>4. a >= From  BY <1>2
  <2>5. CASE ids' = <<>>
    <3>1. waited'[r] <= MaxRound - 1
      <4>0. Len(ids) = 1 /\ a \in Nat  BY <1>3, <1>6, <2>5
      <4>1. CASE r < a
        BY <1>0, <1>3, <2>1, <2>2, <2>3, <2>4, <4>0, <4>1
      <4>2. CASE r = a
        BY <1>0, <2>1, <2>3, <4>2
      <4>3. CASE r > a
        <5>1. waited[r] <= a - From /\ waited'[r] <= waited[r] + 1
          BY <2>1, <2>2, <2>3, <4>0, <4>3
        <5> QED  BY <1>0, <1>3, <2>1, <4>3, <5>1
      <4> QED  BY <2>1, <4>0, <4>1, <4>2, <4>3
    <3> QED  BY <2>5, <3>1
  <2>6. CASE ids' # <<>>
    <3>1. ids'[1] = a + 1 /\ Len(ids') = Len(ids) - 1 /\ Len(ids) \in Nat  BY <1>1, <1>5, <2>6
    <3>2. waited'[r] <= IF r < a + 1 THEN a + 1 - 1 - From
                        ELSE IF r < a + 1 + (Len(ids) - 1) THEN MaxRound - 1 + (a + 1) - From
                        ELSE a + 1 - From
      <4>1. CASE r < a
        <5>1. waited[r] <= a - 1 - From /\ waited'[r] <= waited[r] + 1
          BY <2>1, <2>2, <2>3, <4>1
        <5> QED  BY <1>0, <1>3, <2>1, <4>1, <5>1
      <4>2. CASE r = a  BY <1>0, <1>3, <2>1, <2>3, <2>4, <4>2
      <4>3. CASE r > a
        <5>1. /\ waited'[r] <= waited[r] + 1
              /\ waited[r] <= IF r < a + Len(ids) THEN MaxRound - 1 + a - From ELSE a - From
          BY <1>3, <2>1, <2>2, <2>3, <4>3
        <5> QED  BY <1>0, <1>3, <2>1, <3>1, <4>3, <5>1
      <4> QED  BY <1>3, <2>1, <4>1, <4>2, <4>3
    <3>3. InTick'  BY <1>1
    <3> QED  BY ONLY <1>0, <1>3, <2>1, <2>6, <3>1, <3>2, <3>3
  <2> QED  BY <2>5, <2>6
<1>8. /\ \A i \in 1..Len(ids') : ids'[i] \in Created' /\ ids'[i] = ids'[1] + i - 1
      /\ ids' # <<>> => ids'[1] >= From
  <2>1. ids' # <<>> => ids'[1] >= From  BY <1>0, <1>2, <1>3, <1>5
  <2>2. ASSUME NEW i \in 1..Len(ids')
        PROVE  ids'[i] \in Created' /\ ids'[i] = ids'[1] + i - 1
    <3>1. ids' # <<>>  BY <1>1, <2>2
    <3> QED  BY <1>1, <1>4, <1>5, <2>2, <3>1
  <2> QED  BY <2>1, <2>2
<1> QED  BY <1>1, <1>7, <1>8 DEF FoundTurns

LEMMA VisitListed ==
    ASSUME TurnsInv, Visit, spec # {} PROVE ListTurns(parseRoundIdSpec(spec))'
<1> USE DEF TurnsInv
<1> DEFINE L == parseRoundIdSpec(spec)
           n == Len(L)
           k == n - Len(ids)
<1>1. /\ ~stopping /\ InTick /\ InTick' /\ Created' = Created /\ spec' = spec
      /\ Len(ids) \in Nat \ {0} /\ Len(ids') = Len(ids) - 1
      /\ \A i \in 1..Len(ids') : ids'[i] = ids[i + 1]
      /\ waited' \in [RoundId -> Nat] /\ waited \in [RoundId -> Nat]
      /\ \A r \in Created : waited'[r] <= IF r = ids[1] THEN 0 ELSE waited[r] + 1
  BY VisitMoves
<1>2. n \in Nat /\ L' = L
  <2>1. n \in Nat  BY SpecTyped, ListSorted
  <2>2. L' = L  BY <1>1 DEF parseRoundIdSpec
  <2> QED  BY <2>1, <2>2
<1>3. ListTurns(L)  BY <1>1
<1> HIDE DEF L
<1>4. /\ k \in 0..n /\ \A i \in 1..Len(ids) : ids[i] = L[k + i]
      /\ \A p \in 1..n : L[p] \in Created =>
            waited[L[p]] <= IF p <= k THEN k - p ELSE n - p + k
  BY <1>1, <1>3 DEF ListTurns
<1>5. n - Len(ids') = k + 1 /\ k + 1 \in 0..n /\ k \in Nat  BY <1>1, <1>2, <1>4
<1>6. ids[1] = L[k + 1]  BY <1>1, <1>4
<1>7. \A i \in 1..Len(ids') : ids'[i] = L[(k + 1) + i]
  <2>1. SUFFICES ASSUME NEW i \in 1..Len(ids') PROVE ids'[i] = L[(k + 1) + i]  OBVIOUS
  <2>2. i + 1 \in 1..Len(ids)  BY <1>1
  <2>3. ids[i + 1] = L[k + (i + 1)] /\ k + (i + 1) = (k + 1) + i  BY <1>4, <1>5, <2>2
  <2> QED  BY <1>1, <2>3
<1>8. ASSUME NEW p \in 1..n, L[p] \in Created
      PROVE  waited'[L[p]] <= IF p <= k + 1 THEN (k + 1) - p ELSE n - p + (k + 1)
  <2>1. waited[L[p]] <= IF p <= k THEN k - p ELSE n - p + k  BY <1>4, <1>8
  <2>2. waited'[L[p]] <= IF L[p] = L[k + 1] THEN 0 ELSE waited[L[p]] + 1  BY <1>1, <1>6, <1>8
  <2>3. waited[L[p]] \in Nat /\ waited'[L[p]] \in Nat /\ p \in Nat
    BY <1>1, <1>8 DEF Created
  <2>4. p = k + 1 => waited'[L[p]] <= 0  BY <2>2
  <2> HIDE DEF k, n
  <2>5. waited'[L[p]] <= 0 \/ waited'[L[p]] <= waited[L[p]] + 1  BY <2>2
  <2>6. p \in 1..n  OBVIOUS
  <2> QED  BY <1>2, <1>5, <2>1, <2>3, <2>4, <2>5, <2>6
<1> QED
  <2>1. ListTurns(L)'  BY <1>1, <1>2, <1>5, <1>7, <1>8 DEF ListTurns
  <2> QED  BY <2>1 DEF L

LEMMA VisitTurns ==
    ASSUME TurnsInv, Visit PROVE TurnsInv'
<1>1. /\ ~stopping /\ InTick /\ InTick' /\ pc' # "probe"
      /\ UNCHANGED <<stage, spec, stopping>> /\ Created' = Created
      /\ ids' \in Seq(Nat) /\ waited' \in [RoundId -> Nat]
      /\ \A r \in RoundId \ Created : waited'[r] = 0
  BY VisitMoves
<1>2. IF spec = {} THEN FoundTurns' ELSE ListTurns(parseRoundIdSpec(spec))'
  BY VisitFound, VisitListed
<1>3. FairTurns'
  <2>1. spec' \in Specs  BY <1>1 DEF TurnsInv
  <2>2. spec' = spec  BY <1>1
  <2>3. PlacesHold'  BY <1>1, <1>2, <2>1, <2>2 DEF PlacesHold
  <2>4. (PlacesHold => FairTurns)'  BY FairNow, PTL
  <2> QED  BY <2>3, <2>4
<1> QED  BY <1>1, <1>2, <1>3 DEF TurnsInv

(* No round is starved by the others (watch.ts, the for loop of a tick and *)
(* its catch): a round of a given list waits for less than the length of   *)
(* the list, a discovered one for at most twice the other rounds, whatever *)
(* visits and lists fail, rounds are created or others do.                 *)
THEOREM TurnsAreFair == Spec => []FairTurns
<1>1. Init => TurnsInv  BY TurnsInit
<1>2. TurnsInv /\ [Next]_vars => TurnsInv'
  <2>1. SUFFICES ASSUME TurnsInv, [Next]_vars PROVE TurnsInv'  OBVIOUS
  <2>2. CASE UNCHANGED vars
    <3>1. /\ stage' \in [RoundId -> Stages] /\ Created' = Created
          /\ UNCHANGED <<spec, waited, ids, pc>> /\ stopping' \in BOOLEAN
          /\ ~stopping' => ~stopping
      BY <2>1, <2>2 DEF vars, TurnsInv, Created
    <3> QED  BY <2>1, <3>1, SameTurns DEF InTick
  <2>3. CASE main
    BY <2>1, <2>3, ResolveTurns, ProbeTurns, IdleTurns, VisitTurns, VisitingTurns DEF main
  <2>4. CASE Others  BY <2>1, <2>4, OthersTurns, CreateTurns DEF Others
  <2> QED  BY <2>1, <2>2, <2>3, <2>4 DEF Next
<1>3. TurnsInv => FairTurns  BY DEF TurnsInv
<1> QED  BY <1>1, <1>2, <1>3, PTL DEF Spec

=============================================================================
