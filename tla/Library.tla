------------------------------- MODULE Library -------------------------------
(***************************************************************************)
(* The pure algorithms of BeaconTime, Sealing, Valuation, MandateCaps and  *)
(* Panels over bounded inputs: x is one input, of one of the kinds below,  *)
(* and nothing happens to it.  Each property compares an algorithm with a reference:   *)
(* its inverse, the arithmetic it stands for, or what the round contract   *)
(* makes of the same data.                                                 *)
(***************************************************************************)
EXTENDS Integers, Sequences, FiniteSets, SequencesExt, TLC, BeaconTime, Sealing, Valuation,
        MandateCaps, Panels

CONSTANTS
    Nonces,         \* nonces of the right and of a wrong length
    Coordinates,    \* field elements, the largest included
    Prices, Categories, Levels,     \* base prices, categories, attribute values
    Ballots,        \* entries around the bucket boundaries
    Moments         \* milliseconds since a round was created

Blobs == {<< >>, <<"e">>, sealIdentity("bidder", "a", "e"), sealIdentity("bidder", "b", "e")}

(* Whatever an attribute may be is in range a multiple of fifty hundredths *)
(* (where Valuation's factors are exact), and no field is another's mark.  *)
ASSUME LibraryAssumption ==
    /\ Prices \subseteq Int /\ Levels \subseteq Int
    /\ \A v \in Levels : Clamp(v) % 50 = 0
    /\ Absent \notin 0..100 \cup Levels /\ Ballots \subseteq Int /\ Moments \subseteq Int
    /\ Nonces \subseteq Seq(Byte) /\ Coordinates \subseteq 0..(Power(FieldBytes) - 1)
    /\ Throws \notin [commitment : [sha256 : Seq(Byte)], auditorBlob : Blobs,
                      ciphertext : [round : Nat, payload : Seq(Byte)]]
    /\ Throws \notin [1..2 -> {"bidder", "no auditor blob in trace", Throws}]
    /\ Throws \notin {TRUE, "bidder"} /\ None \notin {"bidder", "a", "sha256(be8)", "be8"}

VARIABLE x

Bid == [kind : {"bid"}, value : (Min128 - 1)..(Max128 + 1), nonce : Nonces, round : {2},
        identity : {None, "bidder"}, auditor : {None, "a"}, latest : 0..3]
Opening == [kind : {"open"}, blobs : Blobs \X Blobs, secret : {None, "a", "b"}]
Point == [kind : {"point"}, x : Coordinates \X Coordinates, y : Coordinates \X Coordinates]
Variant == [kind : {"variant"}, verify : [{"sha256(be8)", "be8"} -> {TRUE, FALSE, Throws}]]
Click == [kind : {"time"}, t : Genesis..(Genesis + 3 * Period), window : 0..5]
AppraisalRequest ==
    [kind : {"appraisal"}, itemRef : {Bad, "item"}, basePrice : Prices \cup {Absent, Bad},
     category : Categories \cup {Absent, Bad},
     attributes : [Attributes -> Levels \cup {Absent, Bad}]]
Lab == [kind : {"caps"}, maxBid : 0..3, maxEscrow : 0..3, maxSpend : 0..3, price : 0..3,
        quoted : 0..4, suggests : 0..4, bid : 0..2, escrow : 0..2]
Reveals == [kind : {"reveal"}, you : Ballots, committed : BOOLEAN,
            peers : UNION {[b -> [value : Ballots, state : {"none", "sealed", "revealed"}]]
                            : b \in {{}, {"a"}, {"a", "b"}, {"a", "b", "c"}}}]
Demo == [kind : {"cohort"}, case : DOMAIN USE_CASES, created : {{}, {0}}, now : Moments,
         revealed : BOOLEAN, committed : BOOLEAN]

AnyInput ==
    \/ x \in Bid \/ x \in Opening \/ x \in Point \/ x \in Variant
    \/ x \in Click \/ x \in AppraisalRequest \/ x \in Lab
    \/ x \in Reveals \/ x \in Demo

Inputs == AnyInput /\ [][UNCHANGED x]_x

Given(kind) == x.kind = kind

----------------------------------------------------------------------------
(* Sealing *)

(* commitment.ts:18, encode.ts, parity.ts: what the contract reads is what *)
(* was written.  The bytes of i128ToBeBytes are those of to_be_bytes: they *)
(* add up to the value modulo 2^128, the top bit is the sign, a value that *)
(* does not fit is refused.  A point read back in the order Soroban reads  *)
(* Fp2 (c1 first, per coordinate) is the point encoded, and the harness    *)
(* finds the message construction that verifies, even if the other throws. *)
EncodingsExact ==
    /\ Given("bid") =>
          LET bytes == i128ToBeBytes(x.value) IN
          IF x.value \in Min128..Max128
          THEN /\ Len(bytes) = ValueBytes /\ \A i \in DOMAIN bytes : bytes[i] \in Byte
               /\ Digits(bytes) - x.value \in {0, Two128}
               /\ x.value < 0 <=> bytes[1] >= Base \div 2
          ELSE bytes = Throws
    /\ Given("point") =>
          LET part(bytes, i) == Digits(SubSeq(bytes, (i - 1) * FieldBytes + 1, i * FieldBytes))
              g2 == encodeG2(x, "c1c0")
              g1 == encodeG1([x |-> x.x[1], y |-> x.y[1]])
          IN /\ <<part(g1, 1), part(g1, 2)>> = <<x.x[1], x.y[1]>>
             /\ <<part(g2, 2), part(g2, 1)>> = x.x /\ <<part(g2, 4), part(g2, 3)>> = x.y
             /\ (g2 = encodeG2(x, "c0c1")) <=> (x.x[1] = x.x[2] /\ x.y[1] = x.y[2])
    /\ Given("variant") =>
          LET v == detectMessageVariant(x.verify) IN
          /\ v # None => x.verify[v] = TRUE
          /\ (harness(x.verify) = 1) <=> (\A u \in DOMAIN x.verify : x.verify[u] # TRUE)

(* seal.ts, auditor.ts: a seal that was made stays closed before its round *)
(* and opens from then on to exactly the bid its commitment binds, at both *)
(* ends of the range too, and the two demos of it say so; one that cannot  *)
(* be made is not half made.  An identity is read by the auditor it was    *)
(* sealed to and by nobody else, whatever the rows beside it hold.         *)
SealOpensToItsBid ==
    /\ Given("bid") =>
          LET s == sealBid(x, "e") IN
          IF s = Throws
          THEN \/ Len(x.nonce) # NonceBytes \/ x.value \notin Min128..Max128
               \/ (x.identity = None) # (x.auditor = None)
          ELSE LET o == openBid(s.ciphertext, x.latest)
                   out == x.latest >= x.round
               IN /\ (o # Throws) <=> out
                  /\ out => /\ o = [value |-> x.value, nonce |-> x.nonce]
                            /\ commitment(o.value, o.nonce) = s.commitment
                  /\ LET demo == runSealAttackDemo(x, "e", x.latest)
                     IN "Early read" \notin demo.off /\ (demo.on = {} <=> ~out)
                  /\ runBidDecryptDemo(x, "e", x.latest) <=> out
    /\ Given("open") /\ x.secret # None =>
          LET rows == decryptIdentities(x.blobs, x.secret) IN
          /\ rows # Throws
          /\ \A i \in 1..2 :
                (rows[i] = "bidder") <=> (x.blobs[i] = sealIdentity("bidder", x.secret, "e"))

----------------------------------------------------------------------------
(* BeaconTime *)

(* useRoundSession.ts:188, useDrandCountdown.ts:44: wherever in a period   *)
(* the button is pressed, commits of the new round close before R and not  *)
(* before the window that was chosen; the gate opens one period after R is *)
(* out, when the tools' roundAt has moved on to the next round.            *)
BeaconTimesAgree ==
    Given("time") =>
        /\ ClosesBeforeR(x.t, x.window) /\ WindowKept(x.t, x.window)
        /\ \A r \in 1..5 : CountdownIsLate(x.t, r)
        /\ roundAt(timeOfRound(x.window + 1)) = x.window + 2
        /\ roundAt(publishedAt(x.window + 1)) = x.window + 1

----------------------------------------------------------------------------
(* Valuation and MandateCaps *)

(* appraisal.ts: whatever was sent, out-of-range and missing attributes    *)
(* included, the value lies in its band and the suggestion below it (no    *)
(* higher, if the value is up to ten cents, where rounding may meet it);   *)
(* more risk never gets a higher suggestion, and more of the other         *)
(* attributes never a lower one.  demoActions.ts:27: under any mandate     *)
(* that verifies, a higher price is refused and an excessive suggestion    *)
(* clamped.                                                                *)
SuggestionBounded ==
    /\ Given("appraisal") /\ Accepted(x) =>
          LET a == appraise(parseAppraisalRequest(x)) IN
          /\ 0 <= a.low /\ a.low <= a.fairValue /\ a.fairValue <= a.high
          /\ a.suggestedMaxBid <= a.fairValue
          /\ a.fairValue > 10 => a.suggestedMaxBid < a.fairValue /\ a.suggestedMaxBid > 0
          /\ \A k \in Attributes, v \in Levels :
                x.attributes[k] # Absent /\ x.attributes[k] <= v =>
                    LET more == parseAppraisalRequest([x EXCEPT !.attributes[k] = v])
                        then == appraise(more).suggestedMaxBid
                    IN IF k = "risk" THEN then <= a.suggestedMaxBid ELSE a.suggestedMaxBid <= then
    /\ Given("caps") /\ x.maxBid \in 1..x.maxEscrow /\ x.price <= x.maxSpend =>
          LET passed == runCapSafetyDemos(x, x.quoted, x.suggests, x.bid, x.escrow) IN
          /\ x.quoted > x.price => "appraisal-cap" \in passed
          /\ x.suggests >= x.maxBid => "maxbid-clamp" \in passed
          /\ assertBidWithinMandate(x, x.bid, x.escrow) => "escrow-onchain" \notin passed

----------------------------------------------------------------------------
(* Panels *)

(* The other bidders of the round, and the cohort of one without any. *)
Others == RealPeers(<<"You">> \o SetToSeq(DOMAIN x.peers),
                    [b \in {"You"} \cup DOMAIN x.peers |->
                        IF b = "You" THEN [value |-> x.you, state |-> "sealed"] ELSE x.peers[b]],
                    "You")
Members == <<[name |-> "alpha", value |-> 2500001, delayMs |-> 1200]>>
Rows == OutcomePeers(Others, Members)

Opened(rows) == LET shown == Filter(rows, LAMBDA r : r.state = "revealed")
                IN [i \in DOMAIN shown |-> [name |-> shown[i].name, value |-> shown[i].value]]
Waiting(rows) == Cardinality({i \in DOMAIN rows : rows[i].state = "pending"})

(* A case by itself.  Its first entry and its buttons can be entered; a    *)
(* ballot is labelled as it is counted; the simulated members open only    *)
(* with the round, no counter goes back as time passes, and all of them    *)
(* have sealed before the shortest commit window (27 s) is over.           *)
CaseFits(case) ==
    LET Shown(now) == CohortRows(<< >>, case.cohort, x.created, now, x.revealed)
        Counter(now) == sealedTotal(<< >>, case.cohort, x.created, now, x.revealed, x.committed)
    IN /\ \A e \in {case.entry} \cup Range(case.picks) :
              e \in case.min..case.max /\ (e - case.min) % case.step = 0
       /\ case.outcome = "tally" =>
              \A e \in Range(case.picks) : ballotBucket(e * 10000) = formatBallot(e \div 10)
       /\ Opened(Shown(x.now)) = (IF x.revealed THEN OutcomePeers(<< >>, case.cohort) ELSE << >>)
       /\ \A later \in Moments : later >= x.now => Counter(x.now) <= Counter(later)
       /\ x.created # {} /\ x.now >= 27000 => \A i \in 1..4 : Shown(x.now)[i].state \in {"sealed", "revealed"}

(* OutcomePanel.tsx:49, 163: the outcome announced early is the one of the *)
(* bids and ballots shown so far, and once all are revealed, and the page  *)
(* still holds the entry it sealed, the winner is the bid the contract     *)
(* clears with.  CohortPanel.tsx:127, 169: the rows it shows opened are    *)
(* those the outcome is made of, no others are, and its counter is the     *)
(* number of rows that no longer wait.                                     *)
AnnouncedOutcomeLeads ==
    /\ Given("reveal") =>
        LET w == HighestOutcome(Rows, x.you)
            all == Append([i \in DOMAIN Rows |-> Rows[i].value], x.you)
            everyone == /\ DOMAIN x.peers # {}
                        /\ \A b \in DOMAIN x.peers : x.peers[b].state = "revealed"
            cohort == CohortRows(Others, Members, {0}, 0, TRUE)
        IN /\ \A i \in DOMAIN all : all[i] <= w.value
           /\ \A b \in {"yes", "no", "abstain"} : Count(all, b) <= Count(all, Tally(all))
           /\ Opened(cohort) = Rows
           /\ sealedTotal(Others, Members, {0}, 0, TRUE, x.committed) + Waiting(cohort)
                = Len(cohort) + (IF x.committed THEN 1 ELSE 0)
           /\ everyone =>
                 LET bids == {toDemoEscrowAmount(v) :
                                v \in {x.you} \cup {x.peers[b].value : b \in DOMAIN x.peers}}
                 IN /\ toDemoEscrowAmount(w.value) = Max(bids)
                    /\ \/ w.name = "You" /\ w.value = x.you
                       \/ w.name \in DOMAIN x.peers /\ x.peers[w.name].value = w.value
    /\ Given("cohort") => CaseFits(USE_CASES[x.case])

=============================================================================
