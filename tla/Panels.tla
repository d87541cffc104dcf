------------------------------- MODULE Panels -------------------------------
(***************************************************************************)
(* What the web app makes of a round and of its result: the cases it       *)
(* offers (useCases.ts), the rows of CohortPanel, OutcomePanel's winner    *)
(* and tally, and the amounts of chain.ts.                                 *)
(* Values are in entry units times 100000, as they are on chain; those of  *)
(* the cases in tenths of a unit, and times in milliseconds.               *)
(***************************************************************************)
EXTENDS Integers, Sequences, FiniteSets, SequencesExt

(* a wish for 0 still bids the smallest amount *)
toDemoEscrowAmount(entry) == IF entry < 1 THEN 1 ELSE entry

Simulated(values, delays) ==
    [i \in 1..4 |-> [name |-> <<"alpha", "beta", "gamma", "delta">>[i],
                     value |-> values[i], delayMs |-> delays[i]]]

(* what the form accepts (for a ballot, its options), what it holds at     *)
(* first, the values on buttons, and the cohort that fills a round without *)
(* other bidders                                                           *)
USE_CASES ==
    [grants     |-> [min |-> 0, max |-> 100, step |-> 5, entry |-> 80, picks |-> << >>,
                     outcome |-> "leaderboard",
                     cohort |-> Simulated(<<82, 91, 76, 88>>, <<1500, 4200, 7800, 11200>>)],
     bounty     |-> [min |-> 500, max |-> 50000, step |-> 500, entry |-> 5000,
                     picks |-> <<1000, 2500, 5000, 10000>>, outcome |-> "highest",
                     cohort |-> Simulated(<<4800, 5200, 4100, 6000>>, <<1300, 4400, 7900, 11800>>)],
     allocation |-> [min |-> 1000, max |-> 250000, step |-> 1000, entry |-> 50000,
                     picks |-> <<5000, 15000, 50000, 120000>>, outcome |-> "distribution",
                     cohort |-> Simulated(<<52000, 66500, 44000, 81000>>, <<1400, 4600, 8200, 12000>>)],
     dao        |-> [min |-> 0, max |-> 1000, step |-> 500, entry |-> 1000,
                     picks |-> <<1000, 500, 0>>, outcome |-> "tally",
                     cohort |-> Simulated(<<1000, 1000, 0, 500>>, <<1200, 3800, 7400, 11600>>)]]

(* a ballot as the labels, toasts and cohort rows have it, in units *)
formatBallot(value) == IF value >= 75 THEN "yes" ELSE IF value <= 25 THEN "no" ELSE "abstain"

(* The members of a finite K from the first to the last, when R holds the  *)
(* pairs of them that are in order: each stands where the number of those  *)
(* before it says.                                                         *)
Arrange(K, R) ==
    [n \in 1..Cardinality(K) |-> CHOOSE i \in K : Cardinality({j \in K : <<j, i>> \in R}) = n - 1]

(* Array.filter (SelectSeq by its indices, for the proofs) *)
Filter(s, Test(_)) ==
    LET K == {i \in DOMAIN s : Test(s[i])}
        at == Arrange(K, {p \in K \X K : p[1] < p[2]})
    IN [n \in DOMAIN at |-> s[at[n]]]

(* DemoPage: what the page knows of the other bidders of the round *)
RealPeers(bidders, bidState, address) ==
    LET others == Filter(bidders, LAMBDA b : b # address)
    IN [i \in DOMAIN others |->
            [name |-> others[i], value |-> bidState[others[i]].value,
             sealed |-> bidState[others[i]].state # "none",
             revealed |-> bidState[others[i]].state = "revealed"]]

(* `created' holds the moment the round was created, or nothing *)
peerStateAt(peer, created, now, revealed) ==
    IF revealed THEN "revealed"
    ELSE IF \E t \in created : now - t >= peer.delayMs THEN "sealed"
    ELSE IF \E t \in created : now - t >= peer.delayMs - 600 THEN "sealing" ELSE "pending"

(* the rows of CohortPanel below your own *)
CohortRows(realPeers, cohort, created, now, revealed) ==
    IF realPeers = << >>
    THEN [i \in DOMAIN cohort |->
            [name |-> cohort[i].name, value |-> cohort[i].value,
             state |-> peerStateAt(cohort[i], created, now, revealed)]]
    ELSE [i \in DOMAIN realPeers |->
            [name |-> realPeers[i].name, value |-> realPeers[i].value,
             state |-> IF realPeers[i].revealed THEN "revealed"
                       ELSE IF realPeers[i].sealed THEN "sealed" ELSE "pending"]]

(* the counter above them; a peer still sealing counts *)
sealedTotal(realPeers, cohort, created, now, revealed, userCommitted) ==
    (IF userCommitted THEN 1 ELSE 0)
    + (IF realPeers = << >>
       THEN Cardinality({i \in DOMAIN cohort :
                            peerStateAt(cohort[i], created, now, revealed) # "pending"})
       ELSE Cardinality({i \in DOMAIN realPeers : realPeers[i].sealed}))

(* DemoPage: the rows of an outcome are the bidders read back as revealed, *)
(* or the simulated cohort when nobody else bids in the round.             *)
OutcomePeers(realPeers, cohort) ==
    IF realPeers = << >>
    THEN [i \in DOMAIN cohort |-> [name |-> cohort[i].name, value |-> cohort[i].value]]
    ELSE LET shown == Filter(realPeers, LAMBDA p : p.revealed)
         IN [i \in DOMAIN shown |-> [name |-> shown[i].name, value |-> shown[i].value]]

(* rows of [name, value]; Array.sort is stable *)
Ranking(rows) ==
    LET K == DOMAIN rows
        Before(i, j) == \/ rows[i].value > rows[j].value
                        \/ rows[i].value = rows[j].value /\ i < j
        order == Arrange(K, {p \in K \X K : Before(p[1], p[2])})
    IN [n \in DOMAIN order |-> rows[order[n]]]

HighestOutcome(peers, you) == Ranking(Append(peers, [name |-> "You", value |-> you]))[1]

ballotBucket(value) ==
    IF value >= 7500000 THEN "yes" ELSE IF value <= 2500000 THEN "no" ELSE "abstain"

Count(values, bucket) == Cardinality({i \in DOMAIN values : ballotBucket(values[i]) = bucket})

(* mutant: a majority is announced in the order of the rows shown *)
TallyFirst(values) ==
    LET seen == SelectInSeq(<<"yes", "abstain", "no">>, LAMBDA b : Count(values, b) > 0)
    IN <<"yes", "abstain", "no">>[seen]

(* counts sorted from the most, in the order yes, no, abstain: the first   *)
Tally(values) ==
    LET rows == [i \in 1..3 |-> [name |-> <<"yes", "no", "abstain">>[i],
                                 value |-> Count(values, <<"yes", "no", "abstain">>[i])]]
    IN Ranking(rows)[1].name

=============================================================================
