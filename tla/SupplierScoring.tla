--------------------------- MODULE SupplierScoring ---------------------------
(***************************************************************************)
(* shared/procurement_scoring.py: the deterministic choice of a supplier.  *)
(* Scores and weights are thousandths and percents, prices are paise, so   *)
(* the roundings to three and two places are roundings to integers.  The   *)
(* code computes scores with binary floats; the error this may add to a    *)
(* score that lies exactly between two thousandths is left out.            *)
(***************************************************************************)
EXTENDS Integers, FiniteSets

ScoreWeight == [price |-> 30, quality |-> 25, leadTime |-> 20,
                reliability |-> 15, risk |-> 10]
LeadTimeHorizon == 10 \* LEAD_TIME_HORIZON_DAYS

(* A row of suppliers; columns without a value are 0, as the code has it.  *)
SupplierRow == [id : Nat, multiplier : Nat, lead : Nat, quality : 0 .. 1000,
                reliability : 0 .. 1000, risk : 0 .. 1000]

(* n / d to the nearest integer, halves to the even one (Python's round,   *)
(* Decimal.quantize).                                                      *)
Rounded(n, d) ==
    LET q == n \div d
        twice == 2 * (n % d)
    IN  IF twice < d \/ (twice = d /\ q % 2 = 0) THEN q ELSE q + 1

(* base_price times the supplier's multiplier, here in hundredths.         *)
Quote(s, base) == Rounded(base * s.multiplier, 100)
Quotes(rows, base) == {Quote(s, base) : s \in rows}
Least(S) == CHOOSE x \in S : \A y \in S : x <= y
Greatest(S) == CHOOSE x \in S : \A y \in S : x >= y

(* Mutant: relative to the dearest quote, not to the spread.               *)
PriceScoreByRatio(s, rows, base) ==
    LET dearest == Greatest(Quotes(rows, base))
    IN  Rounded(1000 * Quote(s, base), dearest)

PriceScore(s, rows, base) ==
    LET cheapest == Least(Quotes(rows, base))
        dearest == Greatest(Quotes(rows, base))
    IN  IF dearest = cheapest THEN 1000
        ELSE Rounded(1000 * (dearest - Quote(s, base)), dearest - cheapest)

(* No lead time counts as the horizon, and so does one of no days at all.  *)
LeadDays(s) == IF s.lead = 0 THEN LeadTimeHorizon ELSE s.lead
LeadScore(s) == Rounded(1000 * (LeadTimeHorizon - Least({LeadDays(s), LeadTimeHorizon})), LeadTimeHorizon)

Overall(s, rows, base) ==
    Rounded(ScoreWeight.price * PriceScore(s, rows, base) + ScoreWeight.quality * s.quality
              + ScoreWeight.leadTime * LeadScore(s) + ScoreWeight.reliability * s.reliability
              + ScoreWeight.risk * (1000 - s.risk), 100)

(* The stable sort by (-overall, quote) of rows read in the order of ids.  *)
Ahead(s, t, rows, base) ==
    LET a == Overall(s, rows, base)
        b == Overall(t, rows, base)
    IN  \/ a > b
        \/ a = b /\ Quote(s, base) < Quote(t, base)
        \/ a = b /\ Quote(s, base) = Quote(t, base) /\ s.id < t.id

RankOf(s, rows, base) == 1 + Cardinality({t \in rows : Ahead(t, s, rows, base)})
Recommended(rows, base) == CHOOSE s \in rows : RankOf(s, rows, base) = 1
=============================================================================
