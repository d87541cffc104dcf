------------------------------ MODULE Valuation ------------------------------
(***************************************************************************)
(* The appraisal service's model (appraisal.ts).  Money is in cents,       *)
(* attributes and confidence in hundredths, each factor in the integer     *)
(* unit its definition names, exact for attributes that are multiples of   *)
(* fifty hundredths; rounding is to the nearest cent, halves up, as        *)
(* round2.  The error of binary floating point is left out.                *)
(***************************************************************************)
EXTENDS Integers, FiniteSets

CONSTANTS
    Absent,     \* an optional field that is not given
    Bad         \* a field of another type

Attributes == {"quality", "demand", "scarcity", "risk"}

(* n / d to the nearest integer, halves up *)
Rounded(n, d) == (2 * n + d) \div (2 * d)
Clamp(v) == IF v < 0 THEN 0 ELSE IF v > 100 THEN 100 ELSE v

(* parseAppraisalRequest of a request whose fields may be missing, of the  *)
(* wrong type or out of range.                                     *)
Accepted(raw) ==
    /\ raw.itemRef \notin {Absent, Bad}
    /\ raw.basePrice \notin {Absent, Bad} /\ raw.basePrice > 0
    /\ raw.category # Bad
    /\ \A a \in Attributes : raw.attributes[a] # Bad

parseAppraisalRequest(raw) ==
    [basePrice |-> raw.basePrice, category |-> raw.category,
     attributes |-> [a \in Attributes |->
        IF raw.attributes[a] = Absent THEN Absent ELSE Clamp(raw.attributes[a])]]

(* CATEGORY_MULTIPLIERS, in twentieths; an unknown category counts as none *)
Multiplier(category) ==
    CASE category = "rfp" -> 21
      [] category = "bounty" -> 19
      [] category = "spectrum" -> 25
      [] category = "procurement" -> 22
      [] category = "collectible" -> 28
      [] OTHER -> 20

Or50(v) == IF v = Absent THEN 50 ELSE v

(* mutant: risk raises the value *)
fairValueRisky(req) ==
    LET a == req.attributes
        quality  == 5 + Or50(a["quality"]) \div 10
        demand   == 6 + (8 * Or50(a["demand"])) \div 100
        scarcity == 7 + (6 * Or50(a["scarcity"])) \div 100
        risk     == 10 + (4 * Or50(a["risk"])) \div 100
    IN Rounded(req.basePrice * quality * demand * scarcity * risk * Multiplier(req.category),
               200000)

(* the factors in tenths, multiplied before the one rounding *)
fairValue(req) ==
    LET a == req.attributes
        quality  == 5 + Or50(a["quality"]) \div 10              \* 0.5 + q
        demand   == 6 + (8 * Or50(a["demand"])) \div 100        \* 0.6 + 0.8 d
        scarcity == 7 + (6 * Or50(a["scarcity"])) \div 100      \* 0.7 + 0.6 s
        risk     == 10 - (4 * Or50(a["risk"])) \div 100         \* 1 - 0.4 r
    IN Rounded(req.basePrice * quality * demand * scarcity * risk * Multiplier(req.category),
               200000)

provided(req) == Cardinality({a \in Attributes : req.attributes[a] # Absent})
confidence(req) == Rounded(500 + 125 * provided(req), 10)       \* round2(0.5 + 0.125 n)

(* band = (1 - confidence) / 2 on either side of the fair value *)
appraise(req) ==
    LET f == fairValue(req) c == confidence(req) IN
    [fairValue |-> f, confidence |-> c,
     low |-> Rounded(f * (100 + c), 200), high |-> Rounded(f * (300 - c), 200),
     suggestedMaxBid |-> Rounded(f * (8000 + 15 * c), 10000)]

=============================================================================
