-------------------------- MODULE Decisions_proofs --------------------------
(***************************************************************************)
(* Proofs about the decisions: the pay/don't-pay decision for all          *)
(* integers, the choice of a supplier for all tables of suppliers, and the *)
(* dock engine for all yards: its sweeps, its first-fit plan and its       *)
(* rounding.                                                               *)
(***************************************************************************)
EXTENDS Decisions, FiniteSetTheorems, SequenceTheorems, WellFoundedInduction, TLAPS

-----------------------------------------------------------------------------
(* The pay/don't-pay decision.                                             *)
Answered ==
    /\ question \in Question
    /\ verdict = "none" \/ verdict = Evaluate(question.hasPO, question.status,
                              question.po, question.received, question.bill)

(* Whatever is decided is what evaluate says of the question.              *)
LEMMA AlwaysAnswered == Spec => []Answered
<1>1. Init => Answered
  BY DEF Init, Answered
<1>2. Answered /\ [Next]_policyVars => Answered'
  BY DEF Answered, Next, Decide, policyVars
<1> QED
  BY <1>1, <1>2, PTL DEF Spec

(* The parts of a question, as integers.                                   *)
LEMMA Parts ==
    ASSUME Answered
    PROVE  /\ question.hasPO \in BOOLEAN
           /\ question.received \in Int
           /\ question.po.qty \in Int /\ question.po.price \in Int
           /\ question.bill.qty \in Int /\ question.bill.price \in Int
  BY PolicyCheckAssumption DEF Answered, Question, Line

(* A deviation within tolerance, multiplied out.                           *)
LEMMA WithinTolerance ==
    ASSUME NEW value \in Int, NEW base \in Int, NEW tolerance \in Int
    PROVE  Exceeds(value, base, tolerance) <=>
              \/ 100 * value > (100 + tolerance) * base
              \/ 100 * value < (100 - tolerance) * base
<1>1. (100 + tolerance) * base = 100 * base + tolerance * base
  OBVIOUS
<1>2. (100 - tolerance) * base = 100 * base - tolerance * base
  OBVIOUS
<1>3. tolerance * base \in Int
  OBVIOUS
<1> QED
  BY <1>1, <1>2, <1>3 DEF Exceeds, AbsDiff

(* Each exception has exactly the cause that its step names.               *)
LEMMA VerdictByStep == Answered => FirstFailureWins
<1> SUFFICES ASSUME Answered, verdict # "none" PROVE FirstFailureWins
  BY DEF FirstFailureWins
<1> DEFINE q == question
<1>1. /\ Exceeds(q.bill.qty, q.received, QtyTolerance) <=>
           \/ 100 * q.bill.qty > 102 * q.received
           \/ 100 * q.bill.qty < 98 * q.received
      /\ Exceeds(q.bill.price, q.po.price, PriceTolerance) <=>
           \/ 100 * q.bill.price > 103 * q.po.price
           \/ 100 * q.bill.price < 97 * q.po.price
  <2>1. /\ q.received \in Int /\ q.po.price \in Int
        /\ q.bill.qty \in Int /\ q.bill.price \in Int
    BY Parts
  <2>2. \A x, y \in Int : /\ Exceeds(x, y, 2) <=> 100 * x > 102 * y \/ 100 * x < 98 * y
                          /\ Exceeds(x, y, 3) <=> 100 * x > 103 * y \/ 100 * x < 97 * y
    <3> SUFFICES ASSUME NEW x \in Int, NEW y \in Int
                 PROVE  /\ Exceeds(x, y, 2) <=> 100 * x > 102 * y \/ 100 * x < 98 * y
                        /\ Exceeds(x, y, 3) <=> 100 * x > 103 * y \/ 100 * x < 97 * y
      OBVIOUS
    <3>1. /\ Exceeds(x, y, 2) <=> 100 * x > (100 + 2) * y \/ 100 * x < (100 - 2) * y
          /\ Exceeds(x, y, 3) <=> 100 * x > (100 + 3) * y \/ 100 * x < (100 - 3) * y
      BY WithinTolerance
    <3>2. 100 + 2 = 102 /\ 100 - 2 = 98 /\ 100 + 3 = 103 /\ 100 - 3 = 97
      OBVIOUS
    <3> QED
      BY <3>1, <3>2
  <2> QED
    BY <2>1, <2>2 DEF QtyTolerance, PriceTolerance
<1>2. verdict = Evaluate(q.hasPO, q.status, q.po, q.received, q.bill)
  BY DEF Answered
<1> QED
  BY <1>1, <1>2, Parts DEF FirstFailureWins, Evaluate

(* Two bounds on positive integers multiply.                               *)
LEMMA ProductBound ==
    ASSUME NEW a \in Nat, NEW b \in Nat, NEW c \in Nat, NEW d \in Nat,
           a <= c, b <= d
    PROVE  a * b <= c * d
<1>1. a * b <= c * b
  <2>1. (c - a) * b >= 0
    OBVIOUS
  <2> QED
    BY <2>1
<1>2. c * b <= c * d
  <2>1. c * (d - b) >= 0
    OBVIOUS
  <2> QED
    BY <2>1
<1> QED
  BY <1>1, <1>2

(* The tolerances of price and quantity multiply.                          *)
LEMMA ExposureBound == Answered => ApprovalBoundsExposure
<1> SUFFICES ASSUME Answered, verdict = "APPROVED" PROVE ApprovalBoundsExposure
  BY DEF ApprovalBoundsExposure
<1> DEFINE bq == question.bill.qty
           bp == question.bill.price
           r == question.received
           p == question.po.price
<1>1. bq \in Int /\ bp \in Int /\ r \in Int /\ p \in Int /\ question.hasPO \in BOOLEAN
  BY Parts
<1>2. /\ question.hasPO /\ question.status \notin Settled /\ r > 0 /\ p > 0
      /\ 100 * bq <= 102 * r /\ 100 * bq >= 98 * r
      /\ 100 * bp <= 103 * p /\ 100 * bp >= 97 * p
  BY VerdictByStep, Parts DEF FirstFailureWins, Answered, Evaluate
<1> HIDE DEF bq, bp, r, p
<1>3. (100 * bq) * (100 * bp) <= (102 * r) * (103 * p)
  <2>1. 100 * bq \in Nat /\ 100 * bp \in Nat /\ 102 * r \in Nat /\ 103 * p \in Nat
    BY <1>1, <1>2
  <2> QED
    BY <1>2, <2>1, ProductBound
<1>4. 10000 * bq * bp <= 102 * 103 * r * p
  BY <1>1, <1>3
<1> QED
  BY <1>2, <1>4 DEF ApprovalBoundsExposure, bq, bp, r, p

(* No approval exceeds 1.02 * 1.03 of the agreed value of what arrived.    *)
THEOREM ExposureIsBounded == Spec => []ApprovalBoundsExposure
  BY AlwaysAnswered, ExposureBound, PTL

(* The first failing step, and only it, gives the verdict.                 *)
THEOREM StepsAreOrdered == Spec => []FirstFailureWins
  BY AlwaysAnswered, VerdictByStep, PTL

(* The quantity ordered has no influence.                                  *)
THEOREM OrderedQuantityIgnored == Spec => []OrderedQuantityIsIrrelevant
<1>1. Answered => OrderedQuantityIsIrrelevant
  BY DEF Answered, Question, Line, OrderedQuantityIsIrrelevant, Evaluate
<1> QED
  BY AlwaysAnswered, <1>1, PTL

(* Where the policy is one of the decisions that are put.                  *)
Put ==
    /\ topic = "match" => Answered
    /\ topic # "match" => verdict = "none"

(* Where the policy is one of several decisions that are put, a verdict    *)
(* still bounds the exposure, names the first failing step and does not    *)
(* depend on the quantity ordered.                                         *)
THEOREM PolicyAmongDecisions ==
    DecisionsSpec => [](ApprovalBoundsExposure /\ FirstFailureWins /\ OrderedQuantityIsIrrelevant)
<1>1. DecisionsInit => Put
  BY DEF DecisionsInit, Init, Put, Answered
<1>2. Put /\ [DecisionsNext]_decisionVars => Put'
  <2> SUFFICES ASSUME Put, [DecisionsNext]_decisionVars PROVE Put'
    OBVIOUS
  <2>1. CASE DecideMatch
    BY <2>1 DEF DecideMatch, Decide, Put, Answered
  <2>2. CASE ~DecideMatch
    <3>1. UNCHANGED <<question, verdict, topic>>
      BY <2>2 DEF DecisionsNext, Reduce, FirstFit, Solve, DecideSupplier, policyVars,
         decisionVars
    <3> QED
      BY <3>1 DEF Put, Answered
  <2> QED
    BY <2>1, <2>2
<1>3. Put => ApprovalBoundsExposure /\ FirstFailureWins /\ OrderedQuantityIsIrrelevant
  <2>1. Answered => OrderedQuantityIsIrrelevant
    BY DEF Answered, Question, Line, OrderedQuantityIsIrrelevant, Evaluate
  <2>2. verdict = "none" =>
            ApprovalBoundsExposure /\ FirstFailureWins /\ OrderedQuantityIsIrrelevant
    BY DEF ApprovalBoundsExposure, FirstFailureWins, OrderedQuantityIsIrrelevant
  <2> QED
    BY <2>1, <2>2, ExposureBound, VerdictByStep DEF Put
<1> QED
  BY <1>1, <1>2, <1>3, PTL DEF DecisionsSpec

-----------------------------------------------------------------------------
(* The choice of a supplier.                                               *)

(* A finite set has a minimum of any order: of the sets of what comes      *)
(* before a member, one contains no other.                                 *)
LEMMA FiniteMinimum ==
    ASSUME NEW S, IsFiniteSet(S), S # {}, NEW R,
           \A x \in S : <<x, x>> \notin R,
           \A x, y, z \in S : <<x, y>> \in R /\ <<y, z>> \in R => <<x, z>> \in R
    PROVE  \E m \in S : \A y \in S : <<y, m>> \notin R
<1> DEFINE Below(x) == {y \in S : <<y, x>> \in R}
           family == {Below(x) : x \in S}
<1>1. family \subseteq FiniteSubsetsOf(S)
  <2> SUFFICES ASSUME NEW x \in S PROVE Below(x) \in FiniteSubsetsOf(S)
    OBVIOUS
  <2>1. Below(x) \subseteq S
    OBVIOUS
  <2> HIDE DEF Below
  <2>2. IsFiniteSet(Below(x))
    BY <2>1, FS_Subset
  <2> QED
    BY <2>1, <2>2 DEF FiniteSubsetsOf
<1>2. family # {}
  <2>1. PICK x \in S : TRUE
    OBVIOUS
  <2>2. Below(x) \in family
    OBVIOUS
  <2> QED
    BY <2>2
<1>3. PICK T \in family : \A U \in family : <<U, T>> \notin StrictSubsetOrdering(S)
  <2> HIDE DEF family
  <2> QED
    BY <1>1, <1>2, FS_StrictSubsetOrderingWellFounded, WFMin
<1>4. PICK m \in S : T = Below(m)
  OBVIOUS
<1>5. ASSUME NEW y \in S, <<y, m>> \in R PROVE FALSE
  <2>1. Below(y) \subseteq Below(m) /\ Below(y) # Below(m)
    BY <1>5
  <2>2. <<Below(y), Below(m)>> \in StrictSubsetOrdering(S)
    <3>1. Below(y) \in SUBSET S /\ Below(m) \in SUBSET S
      OBVIOUS
    <3> HIDE DEF Below
    <3> QED
      BY <2>1, <3>1 DEF StrictSubsetOrdering
  <2> QED
    BY <1>3, <1>4, <2>2
<1> QED
  BY <1>5

(* Rounding keeps an order.                                                *)
LEMMA DivisionOf ==
    ASSUME NEW n \in Int, NEW d \in Nat \ {0}
    PROVE  /\ n \div d \in Int /\ n % d \in 0 .. d - 1
           /\ n = d * (n \div d) + (n % d)
  OBVIOUS

(* Rounding half to even keeps an order.                                   *)
LEMMA RoundedMonotone ==
    ASSUME NEW d \in Nat \ {0}, NEW m \in Int, NEW n \in Int, m <= n
    PROVE  Rounded(m, d) \in Int /\ Rounded(n, d) \in Int /\ Rounded(m, d) <= Rounded(n, d)
<1> DEFINE p == m \div d
           q == n \div d
           r == m % d
           s == n % d
<1>1. /\ p \in Int /\ q \in Int /\ r \in Int /\ s \in Int
      /\ 0 <= r /\ r < d /\ 0 <= s /\ s < d /\ m = d * p + r /\ n = d * q + s
  BY DivisionOf
<1>2. /\ Rounded(m, d) = IF 2 * r < d \/ (2 * r = d /\ p % 2 = 0) THEN p ELSE p + 1
      /\ Rounded(n, d) = IF 2 * s < d \/ (2 * s = d /\ q % 2 = 0) THEN q ELSE q + 1
  BY DEF Rounded
<1> HIDE DEF p, q, r, s
<1>3. p <= q
  <2> SUFFICES ASSUME p >= q + 1 PROVE FALSE
    BY <1>1
  <2>1. d * p >= d * (q + 1)
    <3>1. d * (p - (q + 1)) >= 0
      BY <1>1
    <3> QED
      BY <1>1, <3>1
  <2>2. d * (q + 1) = d * q + d
    BY <1>1
  <2> QED
    BY <1>1, <2>1, <2>2
<1>4. CASE p = q
  BY <1>1, <1>2, <1>4
<1>5. CASE p + 1 <= q
  BY <1>1, <1>2, <1>5
<1> QED
  BY <1>1, <1>3, <1>4, <1>5

(* Prices are integers, and so is every other number of a row.             *)
LEMMA RowParts ==
    ASSUME NEW s \in SupplierRow
    PROVE  /\ s.id \in Int /\ s.multiplier \in Nat /\ s.lead \in Nat
           /\ s.quality \in Int /\ s.reliability \in Int /\ s.risk \in Int
<1>1. s.id \in Nat /\ s.multiplier \in Nat /\ s.lead \in Nat
  BY DEF SupplierRow
<1>2. s.id \in Int
  BY <1>1
<1>3. s.quality \in Int
  BY DEF SupplierRow
<1>4. s.reliability \in Int
  BY DEF SupplierRow
<1>5. s.risk \in Int
  BY DEF SupplierRow
<1> QED
  BY <1>1, <1>2, <1>3, <1>4, <1>5

(* A quote is an integer.                                                  *)
LEMMA QuoteIsInt ==
    ASSUME NEW base \in Nat, NEW s \in SupplierRow
    PROVE  Quote(s, base) \in Int
<1>1. base * s.multiplier \in Int
  BY RowParts
<1> QED
  BY <1>1, RoundedMonotone DEF Quote

(* The quotes of a table have a least and a greatest one.                  *)
LEMMA QuotesAreBounded ==
    ASSUME NEW base \in Nat, NEW rows \in SUBSET SupplierRow, IsFiniteSet(rows), rows # {}
    PROVE  LET cheapest == Least(Quotes(rows, base))
               dearest == Greatest(Quotes(rows, base))
           IN  /\ cheapest \in Int /\ dearest \in Int
               /\ \A s \in rows : cheapest <= Quote(s, base) /\ Quote(s, base) <= dearest
<1>0. \A s \in rows : Quote(s, base) \in Int
  BY QuoteIsInt
<1>1. PICK c \in rows : \A s \in rows : Quote(c, base) <= Quote(s, base)
  <2> DEFINE R == {p \in rows \X rows : Quote(p[1], base) < Quote(p[2], base)}
  <2>1. \A x, y \in rows : <<x, y>> \in R <=> Quote(x, base) < Quote(y, base)
    OBVIOUS
  <2> HIDE DEF R
  <2>2. /\ \A x \in rows : <<x, x>> \notin R
        /\ \A x, y, z \in rows : <<x, y>> \in R /\ <<y, z>> \in R => <<x, z>> \in R
    BY <1>0, <2>1
  <2>3. PICK m \in rows : \A y \in rows : <<y, m>> \notin R
    BY <2>2, FiniteMinimum
  <2>4. ASSUME NEW s \in rows PROVE Quote(m, base) <= Quote(s, base)
    <3>1. Quote(s, base) \in Int /\ Quote(m, base) \in Int
      BY <1>0
    <3>2. ~(Quote(s, base) < Quote(m, base))
      BY <2>1, <2>3
    <3> QED
      BY <3>1, <3>2
  <2> QED
    BY <2>4
<1>2. PICK d \in rows : \A s \in rows : Quote(d, base) >= Quote(s, base)
  <2> DEFINE R == {p \in rows \X rows : Quote(p[1], base) > Quote(p[2], base)}
  <2>1. \A x, y \in rows : <<x, y>> \in R <=> Quote(x, base) > Quote(y, base)
    OBVIOUS
  <2> HIDE DEF R
  <2>2. /\ \A x \in rows : <<x, x>> \notin R
        /\ \A x, y, z \in rows : <<x, y>> \in R /\ <<y, z>> \in R => <<x, z>> \in R
    BY <1>0, <2>1
  <2>3. PICK m \in rows : \A y \in rows : <<y, m>> \notin R
    BY <2>2, FiniteMinimum
  <2>4. ASSUME NEW s \in rows PROVE Quote(m, base) >= Quote(s, base)
    <3>1. Quote(s, base) \in Int /\ Quote(m, base) \in Int
      BY <1>0
    <3>2. ~(Quote(s, base) > Quote(m, base))
      BY <2>1, <2>3
    <3> QED
      BY <3>1, <3>2
  <2> QED
    BY <2>4
<1> DEFINE Q == Quotes(rows, base)
<1>3. \A q \in Q : \E s \in rows : q = Quote(s, base)
  BY DEF Quotes
<1>4. \A s \in rows : Quote(s, base) \in Q
  BY DEF Quotes
<1> HIDE DEF Q
<1>5. Least(Q) \in Q /\ \A y \in Q : Least(Q) <= y
  <2>1. Quote(c, base) \in Q /\ \A y \in Q : Quote(c, base) <= y
    BY <1>1, <1>3, <1>4
  <2> QED
    BY <2>1 DEF Least
<1>6. Greatest(Q) \in Q /\ \A y \in Q : Greatest(Q) >= y
  <2>1. Quote(d, base) \in Q /\ \A y \in Q : Quote(d, base) >= y
    BY <1>2, <1>3, <1>4
  <2> QED
    BY <2>1 DEF Greatest
<1>7. Least(Q) \in Int /\ Greatest(Q) \in Int
  BY <1>0, <1>3, <1>5, <1>6
<1> QED
  BY <1>0, <1>4, <1>5, <1>6, <1>7 DEF Q

(* Cheaper is no worse in price.                                           *)
LEMMA CheaperScoresHigher ==
    ASSUME NEW base \in Nat, NEW rows \in SUBSET SupplierRow, IsFiniteSet(rows), rows # {},
           NEW s \in rows, NEW w \in rows, Quote(s, base) <= Quote(w, base)
    PROVE  /\ PriceScore(s, rows, base) \in Int /\ PriceScore(w, rows, base) \in Int
           /\ PriceScore(s, rows, base) >= PriceScore(w, rows, base)
<1> DEFINE low == Least(Quotes(rows, base))
           high == Greatest(Quotes(rows, base))
           qs == Quote(s, base)
           qw == Quote(w, base)
<1>1. /\ low \in Int /\ high \in Int /\ qs \in Int /\ qw \in Int
      /\ low <= qs /\ qs <= qw /\ qw <= high
  BY QuotesAreBounded, QuoteIsInt
<1>2. /\ PriceScore(s, rows, base) =
           IF high = low THEN 1000 ELSE Rounded(1000 * (high - qs), high - low)
      /\ PriceScore(w, rows, base) =
           IF high = low THEN 1000 ELSE Rounded(1000 * (high - qw), high - low)
  BY DEF PriceScore
<1> HIDE DEF low, high, qs, qw
<1>3. CASE high = low
  BY <1>2, <1>3
<1>4. CASE high # low
  <2> DEFINE d == high - low
             m == 1000 * (high - qw)
             n == 1000 * (high - qs)
  <2>1. d \in Nat \ {0} /\ m \in Int /\ n \in Int /\ m <= n
    BY <1>1, <1>4
  <2> HIDE DEF d, m, n
  <2>2. Rounded(m, d) \in Int /\ Rounded(n, d) \in Int /\ Rounded(m, d) <= Rounded(n, d)
    BY <2>1, RoundedMonotone
  <2> QED
    BY <1>2, <1>4, <2>2 DEF d, m, n
<1> QED
  BY <1>3, <1>4

(* Sooner is no worse in lead time.                                        *)
LEMMA SoonerScoresHigher ==
    ASSUME NEW s \in SupplierRow, NEW w \in SupplierRow, LeadDays(s) <= LeadDays(w)
    PROVE  LeadScore(s) \in Int /\ LeadScore(w) \in Int /\ LeadScore(s) >= LeadScore(w)
<1>1. LeadDays(s) \in Nat /\ LeadDays(w) \in Nat
  BY RowParts DEF LeadDays, LeadTimeHorizon
<1> DEFINE a == Least({LeadDays(s), 10})
           b == Least({LeadDays(w), 10})
<1>2. a \in Int /\ b \in Int /\ a <= b
  <2>1. \A x \in Int : Least({x, 10}) = IF x <= 10 THEN x ELSE 10
    BY DEF Least
  <2> QED
    BY <1>1, <2>1
<1>3. /\ LeadScore(s) = Rounded(1000 * (10 - a), 10)
      /\ LeadScore(w) = Rounded(1000 * (10 - b), 10)
  BY DEF LeadScore, LeadTimeHorizon
<1> HIDE DEF a, b
<1> DEFINE m == 1000 * (10 - b)
           n == 1000 * (10 - a)
<1>4. m \in Int /\ n \in Int /\ m <= n
  BY <1>2
<1> HIDE DEF m, n
<1>5. Rounded(m, 10) \in Int /\ Rounded(n, 10) \in Int /\ Rounded(m, 10) <= Rounded(n, 10)
  BY <1>4, RoundedMonotone
<1> QED
  BY <1>3, <1>5 DEF m, n

(* Nobody as good in every respect scores less.                            *)
LEMMA AsGoodScoresAsHigh ==
    ASSUME NEW base \in Nat, NEW rows \in SUBSET SupplierRow, IsFiniteSet(rows), rows # {},
           NEW s \in rows, NEW w \in rows, Quote(s, base) <= Quote(w, base),
           LeadDays(s) <= LeadDays(w), s.quality >= w.quality,
           s.reliability >= w.reliability, s.risk <= w.risk
    PROVE  /\ Overall(s, rows, base) \in Int /\ Overall(w, rows, base) \in Int
           /\ Overall(s, rows, base) >= Overall(w, rows, base)
<1> DEFINE ps == PriceScore(s, rows, base)
           pw == PriceScore(w, rows, base)
           ls == LeadScore(s)
           lw == LeadScore(w)
           n == 30 * ps + 25 * s.quality + 20 * ls + 15 * s.reliability + 10 * (1000 - s.risk)
           m == 30 * pw + 25 * w.quality + 20 * lw + 15 * w.reliability + 10 * (1000 - w.risk)
<1>1. ps \in Int /\ pw \in Int /\ ps >= pw
  BY CheaperScoresHigher
<1>2. ls \in Int /\ lw \in Int /\ ls >= lw
  BY SoonerScoresHigher
<1>3. /\ s.quality \in Int /\ s.reliability \in Int /\ s.risk \in Int
      /\ w.quality \in Int /\ w.reliability \in Int /\ w.risk \in Int
  <2>1. s \in SupplierRow /\ w \in SupplierRow
    OBVIOUS
  <2> QED
    BY <2>1, RowParts
<1>4. Overall(s, rows, base) = Rounded(n, 100) /\ Overall(w, rows, base) = Rounded(m, 100)
  BY DEF Overall, ScoreWeight
<1> HIDE DEF ps, pw, ls, lw
<1>5. m \in Int /\ n \in Int /\ m <= n
  BY <1>1, <1>2, <1>3
<1> HIDE DEF m, n
<1> QED
  BY <1>4, <1>5, RoundedMonotone

(* Scores are comparable, and somebody is ahead of nobody: first.          *)
LEMMA SomebodyIsFirst ==
    ASSUME NEW base \in Nat, NEW rows \in SUBSET SupplierRow, IsFiniteSet(rows), rows # {}
    PROVE  /\ Recommended(rows, base) \in rows
           /\ \A t \in rows : ~Ahead(t, Recommended(rows, base), rows, base)
<1>1. \A s \in rows : /\ Overall(s, rows, base) \in Int /\ Quote(s, base) \in Int
                      /\ s.id \in Int
  <2> SUFFICES ASSUME NEW s \in rows
               PROVE  /\ Overall(s, rows, base) \in Int /\ Quote(s, base) \in Int
                      /\ s.id \in Int
    OBVIOUS
  <2>0. s \in SupplierRow
    OBVIOUS
  <2>1. Quote(s, base) \in Int /\ s.id \in Int /\ LeadDays(s) <= LeadDays(s)
    BY <2>0, QuoteIsInt, RowParts DEF LeadDays, LeadTimeHorizon
  <2>2. s.quality \in Int /\ s.reliability \in Int /\ s.risk \in Int
    BY <2>0, RowParts
  <2> QED
    BY <2>1, <2>2, AsGoodScoresAsHigh
<1> DEFINE R == {p \in rows \X rows : Ahead(p[1], p[2], rows, base)}
<1>2. \A x, y \in rows : <<x, y>> \in R <=> Ahead(x, y, rows, base)
  OBVIOUS
<1> HIDE DEF R
<1>3. \A x \in rows : ~Ahead(x, x, rows, base)
  BY <1>1 DEF Ahead
<1>4. ASSUME NEW x \in rows, NEW y \in rows, NEW z \in rows,
             Ahead(x, y, rows, base), Ahead(y, z, rows, base)
      PROVE  Ahead(x, z, rows, base)
  BY <1>1, <1>4 DEF Ahead
<1>5. PICK m \in rows : \A y \in rows : ~Ahead(y, m, rows, base)
  <2>1. \A x \in rows : <<x, x>> \notin R
    BY <1>2, <1>3
  <2>2. \A x, y, z \in rows : <<x, y>> \in R /\ <<y, z>> \in R => <<x, z>> \in R
    BY <1>2, <1>4
  <2>3. PICK m \in rows : \A y \in rows : <<y, m>> \notin R
    BY <2>1, <2>2, FiniteMinimum
  <2> QED
    BY <1>2, <2>3
<1>6. RankOf(m, rows, base) = 1
  <2>1. {t \in rows : Ahead(t, m, rows, base)} = {}
    BY <1>5
  <2> QED
    BY <2>1, FS_EmptySet DEF RankOf
<1> DEFINE first == Recommended(rows, base)
           ahead == {t \in rows : Ahead(t, first, rows, base)}
<1>7. first \in rows /\ RankOf(first, rows, base) = 1
  BY <1>6 DEF Recommended
<1>8. ahead = {}
  <2>1. IsFiniteSet(ahead)
    BY FS_Subset
  <2>2. 1 + Cardinality(ahead) = 1
    BY <1>7 DEF RankOf
  <2> HIDE DEF ahead
  <2>3. Cardinality(ahead) \in Nat
    BY <2>1, FS_CardinalityType
  <2> QED
    BY <2>1, <2>2, <2>3, FS_EmptySet
<1> QED
  BY <1>7, <1>8

(* The answer to a table of suppliers is the first of its ranking.         *)
Chosen ==
    topic = "supplier" =>
        problem \in Tables /\ minutes = {} /\ answer \subseteq {Recommended(problem, Base)}

(* A recommended row is undominated, quotes rounded or not.                *)
LEMMA ChosenIsUndominated == Chosen => WinnerIsUndominated
<1> SUFFICES ASSUME Chosen, topic = "supplier",
                    NEW w \in answer, NEW s \in problem \ {w},
                    s.quality >= w.quality, LeadDays(s) <= LeadDays(w),
                    s.reliability >= w.reliability, s.risk <= w.risk,
                    Quote(s, Base) < Quote(w, Base)
             PROVE  FALSE
  BY DEF WinnerIsUndominated
<1>1. /\ w = Recommended(problem, Base) /\ Base \in Nat
      /\ problem \in SUBSET SupplierRow /\ IsFiniteSet(problem) /\ problem # {}
  BY DecisionsAssumption DEF Chosen
<1>2. w \in problem /\ ~Ahead(s, w, problem, Base)
  BY <1>1, SomebodyIsFirst
<1>3. Quote(s, Base) \in Int /\ Quote(w, Base) \in Int
  BY <1>1, <1>2, QuoteIsInt
<1>4. /\ Overall(s, problem, Base) \in Int /\ Overall(w, problem, Base) \in Int
      /\ Overall(s, problem, Base) >= Overall(w, problem, Base)
  BY <1>1, <1>2, <1>3, AsGoodScoresAsHigh
<1> QED
  BY <1>2, <1>3, <1>4 DEF Ahead

(* Whatever the table, nobody as good in every respect is cheaper than the *)
(* supplier that is recommended: not even by a rounding of the scores.     *)
THEOREM NobodyBetterIsCheaper == DecisionsSpec => []WinnerIsUndominated
<1>1. DecisionsInit => Chosen
  BY DEF DecisionsInit, Chosen, Nothing
<1>2. Chosen /\ [DecisionsNext]_decisionVars => Chosen'
  <2> SUFFICES ASSUME Chosen, [DecisionsNext]_decisionVars, topic' = "supplier"
               PROVE  Chosen'
    BY DEF Chosen
  <2>1. topic = "supplier" /\ problem' = problem /\ minutes = {}
    BY DEF Chosen, DecisionsNext, DecideMatch, Reduce, FirstFit, Solve, DecideSupplier,
       decisionVars
  <2>2. minutes' = {} /\ answer' \subseteq {Recommended(problem, Base)}
    BY <2>1 DEF Chosen, DecisionsNext, DecideMatch, Reduce, FirstFit, Solve, DecideSupplier,
       decisionVars
  <2> QED
    BY <2>1, <2>2 DEF Chosen
<1> QED
  BY <1>1, <1>2, ChosenIsUndominated, PTL DEF DecisionsSpec

-----------------------------------------------------------------------------
(* The dock engine's windows in true time.                                 *)

(* Every integer-valued column of a finite table has a least value.        *)
LEMMA ImageIsFinite ==
    ASSUME NEW S, IsFiniteSet(S), NEW f, DOMAIN f = S
    PROVE  IsFiniteSet({f[x] : x \in S})
<1> DEFINE T == {f[x] : x \in S}
           g == [x \in S |-> f[x]]
<1>1. g \in Surjection(S, T)
  BY DEF Surjection
<1> QED
  BY <1>1, FS_Surjection

(* A finite set of integers has a least one.                               *)
LEMMA LeastIsInt ==
    ASSUME NEW S \in SUBSET Int, IsFiniteSet(S), S # {}
    PROVE  Min(S) \in Int /\ \A y \in S : Min(S) <= y
<1> DEFINE R == {p \in Int \X Int : p[1] < p[2]}
<1>1. \A x, y \in Int : <<x, y>> \in R <=> x < y
  OBVIOUS
<1> HIDE DEF R
<1>2. /\ \A x \in S : <<x, x>> \notin R
      /\ \A x, y, z \in S : <<x, y>> \in R /\ <<y, z>> \in R => <<x, z>> \in R
  <2>1. \A x \in S : x \in Int
    OBVIOUS
  <2> QED
    BY <1>1, <2>1
<1>3. PICK m \in S : \A y \in S : <<y, m>> \notin R
  BY <1>2, FiniteMinimum
<1>4. ASSUME NEW y \in S PROVE m <= y
  <2>1. m \in Int /\ y \in Int
    OBVIOUS
  <2>2. ~(y < m)
    BY <1>1, <1>3, <2>1
  <2> QED
    BY <2>1, <2>2
<1> QED
  BY <1>4 DEF Min

(* No booking begins before the origin.                                    *)
LEMMA OriginIsEarly ==
    ASSUME NEW yard \in Yards
    PROVE  LET origin == Origin(yard.now, yard.trailers, yard.doors)
           IN  /\ origin \in Int
               /\ \A d \in yard.doors : \A b \in d.bookings : origin <= b.start
<1> DEFINE planned == Plannable(yard.trailers, yard.doors)
           bookingSets == {d.bookings : d \in yard.doors}
           bookings == UNION bookingSets
           times == {yard.now} \cup {t.ready : t \in planned} \cup {b.start : b \in bookings}
<1>1. /\ yard.now \in Int /\ IsFiniteSet(yard.trailers) /\ IsFiniteSet(yard.doors)
      /\ \A t \in yard.trailers : t.ready \in Int
      /\ \A d \in yard.doors :
            IsFiniteSet(d.bookings) /\ \A b \in d.bookings : b.start \in Int
  BY DecisionsAssumption
<1>2. planned \subseteq yard.trailers
  BY DEF Plannable
<1>3. IsFiniteSet({t.ready : t \in planned})
  <2> DEFINE f == [t \in planned |-> t.ready]
  <2>1. IsFiniteSet(planned)
    BY <1>1, <1>2, FS_Subset
  <2>2. {t.ready : t \in planned} = {f[t] : t \in planned} /\ DOMAIN f = planned
    OBVIOUS
  <2> HIDE DEF f, planned
  <2>3. IsFiniteSet({f[t] : t \in planned})
    BY <2>1, <2>2, ImageIsFinite
  <2> QED
    BY <2>2, <2>3
<1>4. IsFiniteSet(bookings)
  <2> DEFINE f == [d \in yard.doors |-> d.bookings]
  <2>1. bookingSets = {f[d] : d \in yard.doors} /\ DOMAIN f = yard.doors
    OBVIOUS
  <2>2. IsFiniteSet(bookingSets)
    <3> HIDE DEF f
    <3>1. IsFiniteSet({f[d] : d \in yard.doors})
      BY <1>1, <2>1, ImageIsFinite
    <3> QED
      BY <2>1, <3>1
  <2>3. \A T \in bookingSets : IsFiniteSet(T)
    BY <1>1
  <2> QED
    BY <2>2, <2>3, FS_UNION
<1>5. IsFiniteSet({b.start : b \in bookings})
  <2> HIDE DEF bookings
  <2> DEFINE f == [b \in bookings |-> b.start]
  <2>1. {b.start : b \in bookings} = {f[b] : b \in bookings} /\ DOMAIN f = bookings
    OBVIOUS
  <2> HIDE DEF f
  <2>2. IsFiniteSet({f[b] : b \in bookings})
    BY <1>4, <2>1, ImageIsFinite
  <2> QED
    BY <2>1, <2>2
<1>6. IsFiniteSet(times)
  BY <1>3, <1>5, FS_Union, FS_Singleton
<1>7. times \in SUBSET Int /\ times # {}
  BY <1>1, <1>2
<1>8. Min(times) \in Int /\ \A y \in times : Min(times) <= y
  <2> HIDE DEF times
  <2> QED
    BY <1>6, <1>7, LeastIsInt
<1>9. Origin(yard.now, yard.trailers, yard.doors) = Minute * (Min(times) \div Minute)
  BY DEF Origin
<1>10. ASSUME NEW d \in yard.doors, NEW b \in d.bookings
       PROVE  b.start \in Int /\ Min(times) <= b.start
  <2>1. b.start \in times
    OBVIOUS
  <2> HIDE DEF times
  <2> QED
    BY <1>1, <1>8, <2>1
<1> HIDE DEF times
<1> DEFINE x == Min(times)
           q == Minute * (x \div Minute)
<1>11. q \in Int /\ q <= x
  <2>1. x \in Int /\ Minute \in Nat \ {0}
    BY <1>8, DockEngineAssumption
  <2> HIDE DEF x
  <2>2. x \div Minute \in Int /\ x % Minute \in 0 .. Minute - 1 /\ x = q + (x % Minute)
    BY <2>1, DivisionOf
  <2>3. q \in Int
    BY <2>1, <2>2
  <2> HIDE DEF q
  <2> QED
    BY <2>1, <2>2, <2>3
<1>12. ASSUME NEW d \in yard.doors, NEW b \in d.bookings PROVE q <= b.start
  <2>1. b.start \in Int /\ x \in Int /\ x <= b.start
    BY <1>8, <1>10
  <2> HIDE DEF x, q
  <2> QED
    BY <1>11, <2>1
<1> QED
  BY <1>9, <1>11, <1>12

(* A start is rounded down and an end up: both outward.                    *)
LEMMA RoundingIsOutward ==
    ASSUME NEW origin \in Int, NEW time \in Int
    PROVE  /\ Floor(time, origin) \in Int /\ Ceil(time, origin) \in Int
           /\ At(Floor(time, origin), origin) <= time
           /\ time < At(Floor(time, origin) + 1, origin)
           /\ time <= At(Ceil(time, origin), origin)
           /\ At(Ceil(time, origin) - 1, origin) < time
<1> DEFINE n == time - origin
           m == origin - time
           f == n \div Minute
           c == m \div Minute
<1>1. /\ f \in Int /\ n % Minute \in 0 .. Minute - 1 /\ n = Minute * f + (n % Minute)
      /\ c \in Int /\ m % Minute \in 0 .. Minute - 1 /\ m = Minute * c + (m % Minute)
  <2>1. n \in Int /\ m \in Int /\ Minute \in Nat \ {0}
    BY DockEngineAssumption
  <2> HIDE DEF n, m
  <2> QED
    BY <2>1, DivisionOf
<1>2. Floor(time, origin) = f /\ Ceil(time, origin) = -c
  BY DEF Floor, Ceil
<1>3. /\ At(f, origin) = origin + Minute * f
      /\ At(f + 1, origin) = origin + Minute * f + Minute
      /\ At(-c, origin) = origin - Minute * c
      /\ At(-c - 1, origin) = origin - Minute * c - Minute
  <2> HIDE DEF f, c
  <2> QED
    BY <1>1, DockEngineAssumption DEF At
<1> DEFINE r == n % Minute
           s == m % Minute
           mf == Minute * f
           mc == Minute * c
<1>4. mf \in Int /\ mc \in Int /\ Minute \in Int
  BY <1>1, DockEngineAssumption
<1>5. /\ r \in Int /\ 0 <= r /\ r < Minute /\ time - origin = mf + r
      /\ s \in Int /\ 0 <= s /\ s < Minute /\ origin - time = mc + s
  BY <1>1, <1>4
<1> HIDE DEF r, s, mf, mc
<1>6. /\ origin + mf <= time /\ time < origin + mf + Minute
      /\ time <= origin - mc /\ origin - mc - Minute < time
  BY <1>4, <1>5
<1> QED
  BY <1>1, <1>2, <1>3, <1>6 DEF mf, mc

(* Later minutes are later times.                                          *)
LEMMA AtMonotone ==
    ASSUME NEW origin \in Int, NEW m \in Int, NEW n \in Int, m <= n
    PROVE  /\ At(m, origin) \in Int /\ At(n, origin) \in Int
           /\ At(m, origin) <= At(n, origin)
<1>1. Minute * (n - m) >= 0
  BY DockEngineAssumption
<1>2. Minute * m \in Int /\ Minute * n \in Int /\ Minute * (n - m) = Minute * n - Minute * m
  BY DockEngineAssumption
<1> QED
  BY <1>1, <1>2 DEF At

(* Apart from a window in minutes is apart from the booking in true time.  *)
LEMMA ClearOfABooking ==
    ASSUME NEW origin \in Int, NEW start \in Nat, NEW end \in Nat, start <= end,
           NEW from \in Int, NEW to \in Int, origin <= from, from < to,
           LET w == <<Max({0, Floor(from, origin)}), Ceil(to, origin)>>
           IN  w[2] > 0 /\ w[2] > w[1] => Apart(<<start, end>>, w)
    PROVE  At(end, origin) <= from \/ to <= At(start, origin)
<1> DEFINE a == Floor(from, origin)
           c == Ceil(to, origin)
<1>1. /\ a \in Int /\ c \in Int
      /\ At(a, origin) <= from /\ from < At(a + 1, origin) /\ to <= At(c, origin)
  BY RoundingIsOutward
<1>2. \A n \in Int : At(n, origin) \in Int
  BY AtMonotone
<1>3. At(0, origin) = origin
  BY DockEngineAssumption DEF At
<1> HIDE DEF a, c
<1>4. a >= 0
  <2> SUFFICES ASSUME a + 1 <= 0 PROVE FALSE
    BY <1>1
  <2>1. At(a + 1, origin) <= At(0, origin)
    BY <1>1, AtMonotone
  <2> QED
    BY <1>1, <1>2, <1>3, <2>1
<1>5. a < c
  <2> SUFFICES ASSUME c <= a PROVE FALSE
    BY <1>1
  <2>1. At(c, origin) <= At(a, origin)
    BY <1>1, AtMonotone
  <2>2. At(c, origin) \in Int /\ At(a, origin) \in Int
    BY <1>1, <1>2
  <2> QED
    BY <1>1, <2>1, <2>2
<1>6. Max({0, a}) = a
  BY <1>1, <1>4 DEF Max
<1>7. end <= a \/ c <= start
  BY <1>1, <1>4, <1>5, <1>6 DEF Apart, a, c
<1>8. CASE end <= a
  <2>1. At(end, origin) <= At(a, origin) /\ At(end, origin) \in Int /\ At(a, origin) \in Int
    BY <1>1, <1>8, AtMonotone
  <2> QED
    BY <1>1, <2>1
<1>9. CASE c <= start
  <2>1. At(c, origin) <= At(start, origin) /\ At(c, origin) \in Int /\ At(start, origin) \in Int
    BY <1>1, <1>9, AtMonotone
  <2> QED
    BY <1>1, <2>1
<1> QED
  BY <1>7, <1>8, <1>9

-----------------------------------------------------------------------------
(* The engine's sweeps, sums and first-fit: folds over finite sets.        *)
(* A fold is a recursive function on the subsets of the set it folds; what *)
(* it computes is shown by induction on these subsets, which are finite.   *)

(* What holds of a set as soon as it holds of its proper subsets holds of  *)
(* all the subsets of a finite set.                                        *)
LEMMA SubsetInduction ==
    ASSUME NEW S, IsFiniteSet(S), NEW good,
           \A T \in SUBSET S : (\A U \in SUBSET T : U # T => U \in good) => T \in good
    PROVE  \A T \in SUBSET S : T \in good
<1> DEFINE bad == {T \in SUBSET S : T \notin good}
<1> SUFFICES ASSUME bad # {} PROVE FALSE
  OBVIOUS
<1>1. bad \subseteq FiniteSubsetsOf(S)
  <2> SUFFICES ASSUME NEW T \in bad PROVE T \in FiniteSubsetsOf(S)
    OBVIOUS
  <2>1. T \subseteq S
    OBVIOUS
  <2>2. IsFiniteSet(T)
    BY <2>1, FS_Subset
  <2> QED
    BY <2>1, <2>2 DEF FiniteSubsetsOf
<1>2. PICK T \in bad : \A U \in bad : <<U, T>> \notin StrictSubsetOrdering(S)
  <2> HIDE DEF bad
  <2> QED
    BY <1>1, FS_StrictSubsetOrderingWellFounded, WFMin
<1>3. ASSUME NEW U \in SUBSET T, U # T PROVE U \in good
  <2>1. <<U, T>> \in StrictSubsetOrdering(S)
    BY <1>3 DEF StrictSubsetOrdering
  <2> QED
    BY <1>2, <2>1
<1> QED
  BY <1>3

(* A fold over a finite set, as a function on its subsets: pick names the  *)
(* member that is taken last.                                              *)
IsFold(g, S, base, pick, step) ==
    g = [T \in SUBSET S |-> IF T = {} THEN base
                            ELSE step[<<pick[T], g[T \ {pick[T]}]>>]]

(* Two folds agree on the subsets they share.                              *)
LEMMA FoldIsUnique ==
    ASSUME NEW S, IsFiniteSet(S), NEW base, NEW step, NEW pick,
           \A T \in SUBSET S : T # {} => pick[T] \in T,
           NEW U \in SUBSET S, NEW V \in SUBSET S, NEW g, NEW h,
           IsFold(g, U, base, pick, step), IsFold(h, V, base, pick, step)
    PROVE  \A T \in (SUBSET U) \cap (SUBSET V) : g[T] = h[T]
<1> DEFINE good == {T \in SUBSET S : T \in (SUBSET U) \cap (SUBSET V) => g[T] = h[T]}
<1>1. ASSUME NEW T \in SUBSET S, \A W \in SUBSET T : W # T => W \in good
      PROVE  T \in good
  <2> SUFFICES ASSUME T \in SUBSET U, T \in SUBSET V PROVE g[T] = h[T]
    OBVIOUS
  <2>1. CASE T = {}
    BY <2>1 DEF IsFold
  <2>2. CASE T # {}
    <3> DEFINE W == T \ {pick[T]}
    <3>1. W \in SUBSET T /\ W # T
      BY <2>2
    <3>2. g[W] = h[W]
      BY <1>1, <3>1
    <3>3. g[T] = step[<<pick[T], g[W]>>] /\ h[T] = step[<<pick[T], h[W]>>]
      BY <2>2 DEF IsFold
    <3> QED
      BY <3>2, <3>3
  <2> QED
    BY <2>1, <2>2
<1>2. \A T \in SUBSET S : T \in good
  <2> HIDE DEF good
  <2> QED
    BY <1>1, SubsetInduction
<1> QED
  BY <1>2

(* Such a function exists: every recursion over the subsets of a finite    *)
(* set ends.                                                               *)
LEMMA FoldExists ==
    ASSUME NEW S, IsFiniteSet(S), NEW A, NEW base \in A, NEW pick,
           NEW step \in [S \X A -> A],
           \A T \in SUBSET S : T # {} => pick[T] \in T
    PROVE  \E g \in [SUBSET S -> A] : IsFold(g, S, base, pick, step)
<1> DEFINE Is(g, T) == g \in [SUBSET T -> A] /\ IsFold(g, T, base, pick, step)
           good == {T \in SUBSET S : \E g : Is(g, T)}
<1>1. ASSUME NEW T \in SUBSET S, \A W \in SUBSET T : W # T => W \in good
      PROVE  T \in good
  <2> DEFINE part(W) == CHOOSE g : Is(g, W)
             value(W) == part(W)[W]
             whole == [W \in SUBSET T |->
                         IF W = {} THEN base
                         ELSE step[<<pick[W], value(W \ {pick[W]})>>]]
  <2>1. \A W \in SUBSET T : W # T => Is(part(W), W)
    BY <1>1
  <2>2. ASSUME NEW W \in SUBSET T, W # {}
        PROVE  pick[W] \in W /\ pick[W] \in S /\ W \ {pick[W]} \in SUBSET T /\ W \ {pick[W]} # T
    <3>1. W \in SUBSET S
      OBVIOUS
    <3>2. pick[W] \in W
      BY <2>2, <3>1
    <3> QED
      BY <3>1, <3>2
  <2> HIDE DEF Is, part, good
  <2>3. \A W \in SUBSET T : W # T => value(W) \in A
    <3> SUFFICES ASSUME NEW W \in SUBSET T, W # T PROVE value(W) \in A
      OBVIOUS
    <3>1. part(W) \in [SUBSET W -> A]
      BY <2>1 DEF Is
    <3> DEFINE f == part(W)
    <3> HIDE DEF f
    <3>2. f \in [SUBSET W -> A] => f[W] \in A
      OBVIOUS
    <3> QED
      BY <3>1, <3>2 DEF f
  <2>4. whole \in [SUBSET T -> A]
    <3> SUFFICES ASSUME NEW W \in SUBSET T, W # {}
                 PROVE  step[<<pick[W], value(W \ {pick[W]})>>] \in A
      OBVIOUS
    <3> DEFINE s == pick[W]
               v == value(W \ {pick[W]})
    <3>1. s \in S /\ v \in A
      BY <2>2, <2>3
    <3> HIDE DEF s, v, value
    <3>2. <<s, v>> \in S \X A
      BY <3>1
    <3>3. step[<<s, v>>] \in A
      BY <3>2
    <3> QED
      BY <3>3 DEF s, v
  <2>5. ASSUME NEW W \in SUBSET T, W # T PROVE whole[W] = value(W)
    <3>1. Is(part(W), W)
      BY <2>1, <2>5
    <3>2. CASE W = {}
      BY <3>1, <3>2 DEF Is, IsFold
    <3>3. CASE W # {}
      <4> DEFINE V == W \ {pick[W]}
      <4>1. V \in SUBSET W /\ V \in SUBSET T /\ V # T /\ W \in SUBSET S /\ V \in SUBSET S
        BY <2>2, <3>3
      <4>2. Is(part(V), V)
        BY <2>1, <4>1
      <4>3. part(W)[V] = part(V)[V]
        BY <3>1, <4>1, <4>2, FoldIsUnique DEF Is
      <4>4. part(W)[W] = step[<<pick[W], part(W)[V]>>]
        BY <3>1, <3>3, <4>1 DEF Is, IsFold
      <4> QED
        BY <3>3, <4>3, <4>4
    <3> QED
      BY <3>2, <3>3
  <2>6. IsFold(whole, T, base, pick, step)
    <3>1. \A W \in SUBSET T : W # {} => value(W \ {pick[W]}) = whole[W \ {pick[W]}]
      <4> HIDE DEF whole, value
      <4> QED
        BY <2>2, <2>5
    <3> DEFINE again == [W \in SUBSET T |->
                           IF W = {} THEN base
                           ELSE step[<<pick[W], whole[W \ {pick[W]}]>>]]
    <3>2. \A W \in SUBSET T : whole[W] = again[W]
      <4> SUFFICES ASSUME NEW W \in SUBSET T PROVE whole[W] = again[W]
        OBVIOUS
      <4>1. CASE W = {}
        BY <4>1
      <4>2. CASE W # {}
        <5>1. whole[W] = step[<<pick[W], value(W \ {pick[W]})>>]
          BY <4>2
        <5>2. again[W] = step[<<pick[W], whole[W \ {pick[W]}]>>]
          BY <4>2
        <5> QED
          BY <3>1, <4>2, <5>1, <5>2
      <4> QED
        BY <4>1, <4>2
    <3>3. whole = again
      <4>1. DOMAIN whole = SUBSET T /\ DOMAIN again = SUBSET T
        OBVIOUS
      <4>2. whole = [W \in SUBSET T |-> whole[W]] /\ again = [W \in SUBSET T |-> again[W]]
        OBVIOUS
      <4> HIDE DEF whole, again
      <4> QED
        BY <3>2, <4>2
    <3> QED
      BY <3>3 DEF IsFold
  <2> QED
    BY <2>4, <2>6 DEF Is, good
<1>2. S \in good
  <2> HIDE DEF good
  <2> QED
    BY <1>1, SubsetInduction
<1> QED
  BY <1>2

(* A function that folds as long as it stays among the values stays there. *)
FoldsWithin(h, S, A, base, pick, step) ==
    /\ DOMAIN h = SUBSET S /\ h = [T \in SUBSET S |-> h[T]] /\ h[{}] = base
    /\ \A T \in SUBSET S : T # {} /\ h[T \ {pick[T]}] \in A =>
           h[T] = step[<<pick[T], h[T \ {pick[T]}]>>]

(* Such a function is total, and its values are among A.                   *)
LEMMA FoldStaysIn ==
    ASSUME NEW S, IsFiniteSet(S), NEW A, NEW base \in A, NEW pick,
           NEW step \in [S \X A -> A],
           \A T \in SUBSET S : T # {} => pick[T] \in T,
           NEW h, FoldsWithin(h, S, A, base, pick, step)
    PROVE  h \in [SUBSET S -> A]
<1> DEFINE good == {T \in SUBSET S : h[T] \in A}
<1>1. ASSUME NEW T \in SUBSET S, \A U \in SUBSET T : U # T => U \in good PROVE T \in good
  <2>1. CASE T = {}
    BY <2>1 DEF FoldsWithin
  <2>2. CASE T # {}
    <3> DEFINE s == pick[T]
               v == h[T \ {s}]
    <3>1. s \in S /\ v \in A
      BY <1>1, <2>2
    <3>2. h[T] = step[<<s, v>>]
      BY <2>2, <3>1 DEF FoldsWithin
    <3> HIDE DEF s, v
    <3>3. <<s, v>> \in S \X A
      BY <3>1
    <3>4. step[<<s, v>>] \in A
      BY <3>3
    <3> QED
      BY <3>2, <3>4
  <2> QED
    BY <2>1, <2>2
<1>2. \A T \in SUBSET S : T \in good
  <2> HIDE DEF good
  <2> QED
    BY <1>1, SubsetInduction
<1>3. h = [T \in SUBSET S |-> h[T]]
  BY DEF FoldsWithin
<1> QED
  BY <1>2, <1>3

(* The windows of a finite set come in an order, with one of them last.    *)
LEMMA LatestIsLast ==
    ASSUME NEW T \in SUBSET (Int \X Int), IsFiniteSet(T), T # {}
    PROVE  Latest(T) \in T /\ \A v \in T : OrBefore(v, Latest(T))
<1> DEFINE P == Int \X Int
           R == {p \in P \X P : ~OrBefore(p[1], p[2])}
<1>1. \A v, w \in P : <<v, w>> \in R <=> ~OrBefore(v, w)
  OBVIOUS
<1>2. \A v \in T : v \in P
  OBVIOUS
<1>3. \A v \in P : v[1] \in Int /\ v[2] \in Int
  OBVIOUS
<1> HIDE DEF R, P
<1>4. \A v \in T : <<v, v>> \notin R
  BY <1>1, <1>2, <1>3 DEF OrBefore
<1>5. \A u, v, w \in T : <<u, v>> \in R /\ <<v, w>> \in R => <<u, w>> \in R
  <2> SUFFICES ASSUME NEW u \in T, NEW v \in T, NEW w \in T,
                      ~OrBefore(u, v), ~OrBefore(v, w)
               PROVE  ~OrBefore(u, w)
    BY <1>1, <1>2
  <2> QED
    BY <1>2, <1>3 DEF OrBefore
<1>6. PICK m \in T : \A v \in T : <<v, m>> \notin R
  BY <1>4, <1>5, FiniteMinimum
<1>7. \A v \in T : OrBefore(v, m)
  BY <1>1, <1>2, <1>6
<1> QED
  BY <1>7 DEF Latest

(* The sweep for a slot, step by step.                                     *)
SlotSteps(at, I, ready, duration) ==
    /\ at \in [SUBSET I -> [start : Int, found : BOOLEAN]]
    /\ at[{}] = [start |-> ready, found |-> FALSE]
    /\ \A T \in SUBSET I : T # {} =>
           at[T] = Passed(Latest(T), at[T \ {Latest(T)}], duration)

(* EarliestSlot is the last of these steps.                                *)
LEMMA SlotSweep ==
    ASSUME NEW I \in SUBSET (Int \X Int), IsFiniteSet(I), NEW ready \in Int,
           NEW duration \in Int
    PROVE  \E at : /\ SlotSteps(at, I, ready, duration)
                   /\ EarliestSlot(I, ready, duration) = at[I].start
<1> DEFINE A == [start : Int, found : BOOLEAN]
           base == [start |-> ready, found |-> FALSE]
           step == [q \in I \X A |-> Passed(q[1], q[2], duration)]
           pick == [T \in SUBSET I |-> Latest(T)]
           Sweeps(g) == g = [T \in SUBSET I |->
                               IF T = {} THEN base
                               ELSE Passed(Latest(T), g[T \ {Latest(T)}], duration)]
           swept == CHOOSE g : Sweeps(g)
<1>1. \A T \in SUBSET I : T # {} => Latest(T) \in T
  <2> SUFFICES ASSUME NEW T \in SUBSET I, T # {} PROVE Latest(T) \in T
    OBVIOUS
  <2>1. IsFiniteSet(T) /\ T \in SUBSET (Int \X Int)
    BY FS_Subset
  <2> QED
    BY <2>1, LatestIsLast
<1>2. step \in [I \X A -> A]
  <2> SUFFICES ASSUME NEW w \in I, NEW s \in A PROVE Passed(w, s, duration) \in A
    OBVIOUS
  <2>1. w[1] \in Int /\ w[2] \in Int
    OBVIOUS
  <2>2. Max({s.start, w[2]}) \in Int
    <3>1. \A x, y \in Int : Max({x, y}) = IF x >= y THEN x ELSE y
      BY DEF Max
    <3> QED
      BY <2>1, <3>1
  <2> QED
    BY <2>1, <2>2 DEF Passed
<1>3. PICK g \in [SUBSET I -> A] : IsFold(g, I, base, pick, step)
  <2>1. base \in A /\ \A T \in SUBSET I : T # {} => pick[T] \in T
    BY <1>1
  <2> HIDE DEF A, base, step, pick
  <2> QED
    BY <1>2, <2>1, FoldExists
<1>4. Sweeps(g)
  <2> DEFINE again == [T \in SUBSET I |->
                         IF T = {} THEN base
                         ELSE Passed(Latest(T), g[T \ {Latest(T)}], duration)]
  <2>1. ASSUME NEW T \in SUBSET I PROVE g[T] = again[T]
    <3>1. CASE T = {}
      BY <1>3, <3>1 DEF IsFold
    <3>2. CASE T # {}
      <4> DEFINE w == Latest(T)
                 s == g[T \ {w}]
      <4>1. w \in I /\ s \in A
        BY <1>1, <3>2
      <4>2. g[T] = step[<<w, s>>]
        BY <1>3, <3>2 DEF IsFold
      <4>3. step[<<w, s>>] = Passed(w, s, duration)
        <5> HIDE DEF w, s
        <5> QED
          BY <4>1
      <4> QED
        BY <3>2, <4>2, <4>3
    <3> QED
      BY <3>1, <3>2
  <2> HIDE DEF again
  <2>2. g = [T \in SUBSET I |-> g[T]] /\ again = [T \in SUBSET I |-> again[T]]
    BY DEF again
  <2>3. g = again
    BY <2>1, <2>2
  <2> QED
    BY <2>3 DEF again
<1>5. Sweeps(swept)
  BY <1>4
<1>6. swept \in [SUBSET I -> A]
  <2>1. \A T \in SUBSET I : swept[T] = IF T = {} THEN base
                               ELSE Passed(Latest(T), swept[T \ {Latest(T)}], duration)
    BY <1>5, Zenon
  <2>2. DOMAIN swept = SUBSET I /\ swept = [T \in SUBSET I |-> swept[T]]
    BY <1>5, Zenon
  <2>3. ASSUME NEW T \in SUBSET I, T # {}, swept[T \ {pick[T]}] \in A
        PROVE  swept[T] = step[<<pick[T], swept[T \ {pick[T]}]>>]
    <3> DEFINE w == Latest(T)
               s == swept[T \ {w}]
    <3>1. w \in I /\ s \in A /\ pick[T] = w
      BY <1>1, <2>3
    <3>2. step[<<w, s>>] = Passed(w, s, duration)
      <4> HIDE DEF w, s
      <4> QED
        BY <3>1
    <3> QED
      BY <2>1, <2>3, <3>1, <3>2
  <2>4. swept[{}] = base /\ base \in A /\ \A T \in SUBSET I : T # {} => pick[T] \in T
    BY <1>1, <2>1
  <2> HIDE DEF A, base, step, pick, swept, Sweeps
  <2>5. FoldsWithin(swept, I, A, base, pick, step)
    BY <2>2, <2>3, <2>4 DEF FoldsWithin
  <2> QED
    BY <1>2, <2>4, <2>5, FoldStaysIn
<1>7. EarliestSlot(I, ready, duration) = swept[I].start
  BY DEF EarliestSlot, Sweep, MapThenFoldSet
<1> HIDE DEF Sweeps, swept, A
<1> QED
  <2>1. /\ swept[{}] = base
        /\ \A T \in SUBSET I : T # {} =>
              swept[T] = Passed(Latest(T), swept[T \ {Latest(T)}], duration)
    BY <1>5 DEF Sweeps
  <2>2. SlotSteps(swept, I, ready, duration)
    BY <1>6, <2>1 DEF SlotSteps, A
  <2> QED
    BY <1>7, <2>2

(* The slot is free, not before ready, at the end of a window unless at    *)
(* ready itself, and no minute before it is free.                          *)
LEMMA SlotIsEarliest ==
    ASSUME NEW I \in SUBSET (Int \X Int), IsFiniteSet(I), NEW ready \in Int,
           NEW duration \in Int
    PROVE  LET slot == EarliestSlot(I, ready, duration)
           IN  /\ slot \in Int /\ slot >= ready
               /\ slot = ready \/ \E w \in I : slot = w[2]
               /\ \A w \in I : Apart(<<slot, slot + duration>>, w)
               /\ \A e \in ready .. slot - 1 : \E w \in I : ~Apart(<<e, e + duration>>, w)
<1>0. PICK at : SlotSteps(at, I, ready, duration) /\ EarliestSlot(I, ready, duration) = at[I].start
  BY SlotSweep
<1>1. /\ at \in [SUBSET I -> [start : Int, found : BOOLEAN]]
      /\ at[{}] = [start |-> ready, found |-> FALSE]
      /\ \A T \in SUBSET I : T # {} =>
             at[T] = Passed(Latest(T), at[T \ {Latest(T)}], duration)
  BY <1>0 DEF SlotSteps
<1> DEFINE s(T) == at[T].start
           f(T) == at[T].found
           From(T) == s(T) = ready \/ \E w \in T : s(T) = w[2]
           Clear(T) == \A w \in T : w[2] <= s(T) \/ (f(T) /\ s(T) + duration <= w[1])
           Fits(T) == f(T) => \E w \in T : s(T) + duration <= w[1]
           None(T) == \A e \in ready .. s(T) - 1 : \E w \in T : ~Apart(<<e, e + duration>>, w)
           good == {T \in SUBSET I : s(T) >= ready /\ From(T) /\ Clear(T) /\ Fits(T) /\ None(T)}
<1>2. \A T \in SUBSET I : s(T) \in Int /\ f(T) \in BOOLEAN
  BY <1>1
<1>3. \A w \in I : w[1] \in Int /\ w[2] \in Int
  OBVIOUS
<1>4. ASSUME NEW T \in SUBSET I, \A U \in SUBSET T : U # T => U \in good PROVE T \in good
  <2>1. CASE T = {}
    <3>1. s({}) = ready /\ f({}) = FALSE
      BY <1>1
    <3> HIDE DEF s, f
    <3>2. ready .. s({}) - 1 = {}
      BY <3>1
    <3> QED
      BY <2>1, <3>1, <3>2
  <2>2. CASE T # {}
    <3> DEFINE w == Latest(T)
               U == T \ {w}
               S == s(U)
               F == f(U)
    <3>1. w \in T /\ \A v \in U : OrBefore(v, w)
      <4>1. IsFiniteSet(T) /\ T \in SUBSET (Int \X Int)
        BY FS_Subset
      <4> QED
        BY <2>2, <4>1, LatestIsLast
    <3>2. U \in SUBSET T /\ U # T /\ U \in SUBSET I /\ w \in I
      BY <3>1
    <3>3. U \in good
      BY <1>4, <3>2
    <3>4. S >= ready /\ From(U) /\ Clear(U) /\ Fits(U) /\ None(U)
      BY <3>3
    <3>5. at[T] = Passed(w, at[U], duration) /\ at[U] \in [start : Int, found : BOOLEAN]
      BY <1>1, <2>2, <3>2
    <3>6. S \in Int /\ F \in BOOLEAN /\ w[1] \in Int /\ w[2] \in Int
      BY <1>2, <1>3, <3>2
    <3>7. \A v \in U : v[1] \in Int /\ v[2] \in Int /\ v[1] <= w[1]
      <4>1. \A v \in U : v[1] \in Int /\ v[2] \in Int
        BY <1>3
      <4> HIDE DEF U, w
      <4> QED
        BY <3>1, <3>6, <4>1 DEF OrBefore
    <3>8. T = U \cup {w}
      BY <3>1
    <3>9. CASE F \/ w[2] <= S
      <4>1. s(T) = S /\ f(T) = F
        BY <3>5, <3>9 DEF Passed
      <4> HIDE DEF s, f, w, U, S, F
      <4>2. w[2] <= S \/ (F /\ S + duration <= w[1])
        <5> SUFFICES ASSUME F PROVE S + duration <= w[1]
          BY <3>9
        <5>1. PICK v \in U : S + duration <= v[1]
          BY <3>4 DEF S, F
        <5> QED
          BY <3>6, <3>7, <5>1
      <4>3. Clear(T)
        BY <3>4, <3>8, <4>1, <4>2 DEF S, F
      <4>4. From(T) /\ Fits(T) /\ None(T)
        BY <3>4, <3>8, <4>1 DEF S, F
      <4> QED
        BY <3>4, <4>1, <4>3, <4>4
    <3>10. CASE ~F /\ ~(w[2] <= S) /\ w[1] - S >= duration
      <4>1. s(T) = S /\ f(T) = TRUE
        BY <3>5, <3>10 DEF Passed
      <4> HIDE DEF s, f, w, U, S, F
      <4>2. S + duration <= w[1]
        BY <3>6, <3>10
      <4>3. Clear(T) /\ Fits(T)
        BY <3>4, <3>8, <3>10, <4>1, <4>2 DEF S, F
      <4>4. From(T) /\ None(T)
        BY <3>4, <3>8, <4>1 DEF S
      <4> QED
        BY <3>4, <4>1, <4>3, <4>4
    <3>11. CASE ~F /\ ~(w[2] <= S) /\ ~(w[1] - S >= duration)
      <4>0. Max({S, w[2]}) = w[2]
        <5>1. \A x, y \in Int : ~(y <= x) => Max({x, y}) = y
          BY DEF Max
        <5> HIDE DEF S, w
        <5> QED
          BY <3>6, <3>11, <5>1
      <4>1. s(T) = w[2] /\ f(T) = FALSE
        BY <3>5, <3>11, <4>0 DEF Passed
      <4> HIDE DEF s, f, w, U, S, F
      <4>2. Clear(T)
        <5>1. \A v \in U : v[2] <= S
          BY <3>4, <3>11 DEF S, F
        <5>2. \A v \in U : v[2] <= w[2]
          BY <3>6, <3>7, <3>11, <5>1
        <5>3. w[2] <= w[2]
          BY <3>6
        <5> QED
          BY <3>8, <4>1, <5>2, <5>3
      <4>3. None(T)
        <5> SUFFICES ASSUME NEW e \in ready .. w[2] - 1
                     PROVE  \E v \in T : ~Apart(<<e, e + duration>>, v)
          BY <4>1
        <5>1. CASE e <= S - 1
          <6>1. e \in ready .. S - 1
            BY <3>6, <5>1
          <6>2. \E v \in U : ~Apart(<<e, e + duration>>, v)
            BY <3>4, <6>1 DEF S
          <6> QED
            BY <3>8, <6>2
        <5>2. CASE e >= S
          <6>1. ~Apart(<<e, e + duration>>, w)
            BY <3>6, <3>11, <5>2 DEF Apart
          <6> QED
            BY <3>8, <6>1
        <5> QED
          BY <3>6, <5>1, <5>2
      <4>4. s(T) >= ready
        BY <3>4, <3>6, <3>11, <4>1 DEF S
      <4>5. From(T) /\ Fits(T)
        BY <3>8, <4>1
      <4> QED
        BY <4>2, <4>3, <4>4, <4>5
    <3> QED
      BY <3>9, <3>10, <3>11
  <2> QED
    BY <2>1, <2>2
<1>5. I \in good
  <2>1. \A T \in SUBSET I : T \in good
    <3> HIDE DEF good
    <3> QED
      BY <1>4, SubsetInduction
  <2> QED
    BY <2>1
<1> DEFINE slot == at[I].start
<1>6. slot \in Int /\ slot >= ready /\ (slot = ready \/ \E w \in I : slot = w[2])
  BY <1>2, <1>5
<1>7. \A w \in I : w[2] <= slot \/ slot + duration <= w[1]
  BY <1>5
<1>8. \A e \in ready .. slot - 1 : \E w \in I : ~Apart(<<e, e + duration>>, w)
  BY <1>5
<1> HIDE DEF slot
<1>9. \A w \in I : Apart(<<slot, slot + duration>>, w)
  BY <1>7 DEF Apart
<1>10. EarliestSlot(I, ready, duration) = slot
  BY <1>0 DEF slot
<1> QED
  BY <1>6, <1>8, <1>9, <1>10

(* The merging sweep, step by step.                                        *)
Intervals == Seq(Int \X Int)

(* A step makes a list of intervals of one.                                *)
LEMMA JoinedIsIntervals ==
    ASSUME NEW w \in Int \X Int, NEW merged \in Intervals
    PROVE  Joined(w, merged) \in Intervals
<1>1. CASE merged # <<>> /\ w[1] <= Last(merged)[2]
  <2> DEFINE last == <<Last(merged)[1], Max({Last(merged)[2], w[2]})>>
  <2>1. /\ Front(merged) \in Seq(Int \X Int) /\ Last(merged) \in Int \X Int
    BY <1>1 DEF Intervals, Front, Last
  <2>2. Last(merged)[1] \in Int /\ Last(merged)[2] \in Int /\ w[2] \in Int
    BY <2>1
  <2>3. Max({Last(merged)[2], w[2]}) \in Int
    <3>1. \A x, y \in Int : Max({x, y}) = IF x >= y THEN x ELSE y
      BY DEF Max
    <3> QED
      BY <2>2, <3>1
  <2>4. last \in Int \X Int
    BY <2>2, <2>3
  <2>5. Joined(w, merged) = Append(Front(merged), last)
    BY <1>1 DEF Joined
  <2> HIDE DEF last
  <2> QED
    BY <2>1, <2>4, <2>5 DEF Intervals
<1>2. CASE ~(merged # <<>> /\ w[1] <= Last(merged)[2])
  BY <1>2 DEF Joined, Intervals
<1> QED
  BY <1>1, <1>2

MergeSteps(merged, W) ==
    /\ merged \in [SUBSET W -> Intervals]
    /\ merged[{}] = <<>>
    /\ \A T \in SUBSET W : T # {} => merged[T] = Joined(Latest(T), merged[T \ {Latest(T)}])

(* The sweep that BusyIntervals makes is the last of these steps.          *)
LEMMA MergeSweep ==
    ASSUME NEW W \in SUBSET (Int \X Int), IsFiniteSet(W)
    PROVE  \E merged : /\ MergeSteps(merged, W)
                       /\ Sweep(Joined, <<>>, W) = merged[W]
<1> DEFINE step == [q \in W \X Intervals |-> Joined(q[1], q[2])]
           pick == [T \in SUBSET W |-> Latest(T)]
           Sweeps(g) == g = [T \in SUBSET W |->
                               IF T = {} THEN <<>>
                               ELSE Joined(Latest(T), g[T \ {Latest(T)}])]
           swept == CHOOSE g : Sweeps(g)
<1>1. \A T \in SUBSET W : T # {} => Latest(T) \in T
  <2> SUFFICES ASSUME NEW T \in SUBSET W, T # {} PROVE Latest(T) \in T
    OBVIOUS
  <2>1. IsFiniteSet(T) /\ T \in SUBSET (Int \X Int)
    BY FS_Subset
  <2> QED
    BY <2>1, LatestIsLast
<1>2. step \in [W \X Intervals -> Intervals]
  <2> SUFFICES ASSUME NEW w \in W, NEW s \in Intervals PROVE Joined(w, s) \in Intervals
    OBVIOUS
  <2>1. w \in Int \X Int
    OBVIOUS
  <2> QED
    BY <2>1, JoinedIsIntervals
<1>0. <<>> \in Intervals /\ \A T \in SUBSET W : T # {} => pick[T] \in T
  BY <1>1 DEF Intervals
<1>3. PICK g \in [SUBSET W -> Intervals] : IsFold(g, W, <<>>, pick, step)
  <2> HIDE DEF step, pick
  <2> QED
    BY <1>0, <1>2, FoldExists
<1>4. Sweeps(g)
  <2> DEFINE again == [T \in SUBSET W |->
                         IF T = {} THEN <<>> ELSE Joined(Latest(T), g[T \ {Latest(T)}])]
  <2>1. ASSUME NEW T \in SUBSET W PROVE g[T] = again[T]
    <3>1. CASE T = {}
      BY <1>3, <3>1 DEF IsFold
    <3>2. CASE T # {}
      <4> DEFINE w == Latest(T)
                 s == g[T \ {w}]
      <4>1. w \in W /\ s \in Intervals
        BY <1>1, <3>2
      <4>2. g[T] = step[<<w, s>>]
        BY <1>3, <3>2 DEF IsFold
      <4>3. step[<<w, s>>] = Joined(w, s)
        <5> HIDE DEF w, s
        <5> QED
          BY <4>1
      <4> QED
        BY <3>2, <4>2, <4>3
    <3> QED
      BY <3>1, <3>2
  <2> HIDE DEF again
  <2>2. g = [T \in SUBSET W |-> g[T]] /\ again = [T \in SUBSET W |-> again[T]]
    BY DEF again
  <2>3. g = again
    BY <2>1, <2>2
  <2> QED
    BY <2>3 DEF again
<1>5. Sweeps(swept)
  BY <1>4
<1>6. \A T \in SUBSET W : swept[T] = IF T = {} THEN <<>>
                             ELSE Joined(Latest(T), swept[T \ {Latest(T)}])
  BY <1>5, Zenon
<1>7. swept \in [SUBSET W -> Intervals]
  <2>2. DOMAIN swept = SUBSET W /\ swept = [T \in SUBSET W |-> swept[T]]
    BY <1>5, Zenon
  <2>3. ASSUME NEW T \in SUBSET W, T # {}, swept[T \ {pick[T]}] \in Intervals
        PROVE  swept[T] = step[<<pick[T], swept[T \ {pick[T]}]>>]
    <3> DEFINE w == Latest(T)
               s == swept[T \ {w}]
    <3>1. w \in W /\ s \in Intervals /\ pick[T] = w
      BY <1>1, <2>3
    <3>2. step[<<w, s>>] = Joined(w, s)
      <4> HIDE DEF w, s
      <4> QED
        BY <3>1
    <3> QED
      BY <1>6, <2>3, <3>1, <3>2
  <2>4. swept[{}] = <<>>
    BY <1>6
  <2> HIDE DEF step, pick, swept, Sweeps
  <2>5. FoldsWithin(swept, W, Intervals, <<>>, pick, step)
    BY <2>2, <2>3, <2>4 DEF FoldsWithin
  <2> QED
    BY <1>0, <1>2, <2>5, FoldStaysIn
<1>8. Sweep(Joined, <<>>, W) = swept[W]
  BY DEF Sweep, MapThenFoldSet
<1> HIDE DEF Sweeps, swept
<1>9. MergeSteps(swept, W)
  BY <1>6, <1>7 DEF MergeSteps
<1> QED
  BY <1>8, <1>9

(* One step of the merge: the last interval is extended, or one added.     *)
Extends(new, old, w) ==
    LET n == Len(old)
    IN  /\ n >= 1 /\ w[1] <= old[n][2]
        /\ Len(new) = n /\ \A i \in 1 .. n - 1 : new[i] = old[i]
        /\ new[n][1] = old[n][1]
        /\ new[n][2] = IF old[n][2] >= w[2] THEN old[n][2] ELSE w[2]
Adds(new, old, w) ==
    LET n == Len(old)
    IN  /\ n >= 1 => w[1] > old[n][2]
        /\ Len(new) = n + 1 /\ \A i \in 1 .. n : new[i] = old[i]
        /\ new[n + 1] = w

(* Joined does one or the other.                                           *)
LEMMA JoinedSteps ==
    ASSUME NEW w \in Int \X Int, NEW old \in Intervals
    PROVE  Extends(Joined(w, old), old, w) \/ Adds(Joined(w, old), old, w)
<1> DEFINE n == Len(old)
           new == Joined(w, old)
<1>1. /\ old \in Seq(Int \X Int) /\ n \in Nat /\ Last(old) = old[n]
      /\ old # <<>> <=> n >= 1
      /\ w[1] \in Int /\ w[2] \in Int
      /\ \A i \in 1 .. n : old[i] \in Int \X Int
  BY DEF Intervals, Last
<1>2. CASE n >= 1 /\ w[1] <= old[n][2]
  <2> DEFINE last == <<old[n][1], Max({old[n][2], w[2]})>>
  <2>1. n \in 1 .. n
    BY <1>1, <1>2
  <2>2. old[n][1] \in Int /\ old[n][2] \in Int
    BY <1>1, <2>1
  <2>3. Max({old[n][2], w[2]}) = IF old[n][2] >= w[2] THEN old[n][2] ELSE w[2]
    <3>1. \A x, y \in Int : Max({x, y}) = IF x >= y THEN x ELSE y
      BY DEF Max
    <3> QED
      BY <1>1, <2>2, <3>1
  <2>4. new = Append(SubSeq(old, 1, n - 1), last)
    BY <1>1, <1>2 DEF Joined, Front
  <2>5. last \in Int \X Int
    BY <1>1, <2>2, <2>3
  <2> HIDE DEF last
  <2>6. /\ SubSeq(old, 1, n - 1) \in Seq(Int \X Int)
        /\ Len(SubSeq(old, 1, n - 1)) = n - 1
        /\ \A i \in 1 .. n - 1 : SubSeq(old, 1, n - 1)[i] = old[i]
    <3>1. 1 \in 1 .. n + 1 /\ n - 1 \in 0 .. n
      BY <1>1, <1>2
    <3>2. /\ SubSeq(old, 1, n - 1) \in Seq(Int \X Int)
          /\ Len(SubSeq(old, 1, n - 1)) = IF 1 <= n - 1 THEN (n - 1) - 1 + 1 ELSE 0
          /\ \A i \in 1 .. (n - 1) - 1 + 1 : SubSeq(old, 1, n - 1)[i] = old[1 + i - 1]
      BY <1>1, <3>1, SubSeqProperties
    <3>0. n \in Nat /\ n >= 1
      BY <1>1, <1>2
    <3> HIDE DEF n
    <3>3. n - 1 \in Nat /\ (n - 1) - 1 + 1 = n - 1 /\ (1 <= n - 1 \/ n - 1 = 0)
      BY <3>0
    <3>4. \A i \in 1 .. n - 1 : 1 + i - 1 = i
      BY <3>0
    <3>5. Len(SubSeq(old, 1, n - 1)) = n - 1
      BY <3>2, <3>3
    <3>6. \A i \in 1 .. n - 1 : SubSeq(old, 1, n - 1)[i] = old[i]
      BY <3>2, <3>3, <3>4
    <3> QED
      BY <3>2, <3>5, <3>6
  <2>7. Len(new) = n /\ (\A i \in 1 .. n - 1 : new[i] = old[i]) /\ new[n] = last
    <3> HIDE DEF new, n
    <3> QED
      BY <1>1, <2>4, <2>5, <2>6
  <2> HIDE DEF new
  <2>8. new[n][1] = old[n][1] /\ new[n][2] = Max({old[n][2], w[2]})
    BY <2>7 DEF last
  <2> QED
    BY <1>2, <2>3, <2>7, <2>8 DEF Extends, new
<1>3. CASE ~(n >= 1 /\ w[1] <= old[n][2])
  <2>1. new = Append(old, w)
    BY <1>1, <1>3 DEF Joined
  <2>2. Len(new) = n + 1 /\ (\A i \in 1 .. n : new[i] = old[i]) /\ new[n + 1] = w
    BY <1>1, <2>1
  <2>3. n >= 1 => w[1] > old[n][2]
    <3> SUFFICES ASSUME n >= 1 PROVE w[1] > old[n][2]
      OBVIOUS
    <3>1. n \in 1 .. n
      BY <1>1
    <3>2. old[n][2] \in Int
      BY <1>1, <3>1
    <3> QED
      BY <1>1, <1>3, <3>2
  <2> HIDE DEF new
  <2> QED
    BY <2>2, <2>3 DEF Adds, new
<1> QED
  BY <1>2, <1>3

(* What the merge makes of windows none of which is empty: intervals in    *)
(* order with gaps between them, each from the start of a window to the    *)
(* end of one, that hold every window and no minute outside them all.      *)
Merged(m, T) ==
    LET n == Len(m)
    IN  /\ m \in Intervals
        /\ \A i, j \in 1 .. n : i < j => m[i][2] < m[j][1]
        /\ \A w \in T : \E i \in 1 .. n : m[i][1] <= w[1] /\ w[2] <= m[i][2]
        /\ \A i \in 1 .. n :
             /\ m[i][1] < m[i][2]
             /\ (\E w \in T : w[1] = m[i][1]) /\ (\E w \in T : w[2] = m[i][2])
             /\ \A k \in m[i][1] .. m[i][2] - 1 : \E w \in T : w[1] <= k /\ k < w[2]

(* Either keeps that, if the window is not before those so far.            *)
LEMMA MergedStep ==
    ASSUME NEW U \in SUBSET (Int \X Int), NEW w \in Int \X Int, w[1] < w[2],
           \A v \in U : v[1] <= w[1],
           NEW old, Merged(old, U), NEW new \in Intervals,
           Extends(new, old, w) \/ Adds(new, old, w)
    PROVE  Merged(new, U \cup {w})
<1> DEFINE n == Len(old)
           T == U \cup {w}
<1>1. /\ n \in Nat /\ w[1] \in Int /\ w[2] \in Int
      /\ \A i \in 1 .. n : old[i][1] \in Int /\ old[i][2] \in Int
  <2>1. old \in Seq(Int \X Int)
    BY DEF Merged, Intervals
  <2>2. \A i \in 1 .. n : old[i] \in Int \X Int
    BY <2>1
  <2> QED
    BY <2>1, <2>2
<1>2. /\ \A i, j \in 1 .. n : i < j => old[i][2] < old[j][1]
      /\ \A v \in U : \E i \in 1 .. n : old[i][1] <= v[1] /\ v[2] <= old[i][2]
      /\ \A i \in 1 .. n :
           /\ old[i][1] < old[i][2]
           /\ (\E v \in U : v[1] = old[i][1]) /\ (\E v \in U : v[2] = old[i][2])
           /\ \A k \in old[i][1] .. old[i][2] - 1 : \E v \in U : v[1] <= k /\ k < v[2]
  BY DEF Merged
<1>3. \A i \in 1 .. n : old[i][1] <= w[1]
  BY <1>2
<1>4. \A v \in U : v[1] \in Int /\ v[2] \in Int
  OBVIOUS
<1> HIDE DEF n
<1>5. CASE Extends(new, old, w)
  <2>1. /\ n >= 1 /\ w[1] <= old[n][2]
        /\ Len(new) = n /\ \A i \in 1 .. n - 1 : new[i] = old[i]
        /\ new[n][1] = old[n][1]
        /\ new[n][2] = IF old[n][2] >= w[2] THEN old[n][2] ELSE w[2]
    BY <1>5 DEF Extends, n
  <2>2. n \in 1 .. n /\ \A i \in 1 .. n : i \in Int /\ (i = n \/ i \in 1 .. n - 1)
    BY <1>1, <2>1
  <2>3. old[n][1] \in Int /\ old[n][2] \in Int /\ new[n][2] \in Int
    BY <1>1, <2>1, <2>2
  <2>4. old[n][2] <= new[n][2] /\ w[2] <= new[n][2]
    BY <1>1, <2>1, <2>3
  <2>5. ASSUME NEW i \in 1 .. n, NEW j \in 1 .. n, i < j PROVE new[i][2] < new[j][1]
    <3>1. i \in 1 .. n - 1
      BY <1>1, <2>5
    <3>2. new[i] = old[i] /\ new[j][1] = old[j][1]
      BY <2>1, <2>2, <3>1
    <3> QED
      BY <1>2, <2>5, <3>2
  <2>6. ASSUME NEW v \in T PROVE \E i \in 1 .. n : new[i][1] <= v[1] /\ v[2] <= new[i][2]
    <3>1. CASE v \in U
      <4>1. PICK i \in 1 .. n : old[i][1] <= v[1] /\ v[2] <= old[i][2]
        BY <1>2, <3>1
      <4>2. CASE i = n
        <5>1. v[2] \in Int /\ v[2] <= old[n][2] /\ old[n][1] <= v[1]
          BY <1>4, <3>1, <4>1, <4>2
        <5>2. v[2] <= new[n][2]
          BY <2>3, <2>4, <5>1
        <5> QED
          BY <2>1, <2>2, <5>1, <5>2
      <4>3. CASE i # n
        BY <2>1, <2>2, <4>1, <4>3
      <4> QED
        BY <4>2, <4>3
    <3>2. CASE v = w
      BY <1>3, <2>1, <2>2, <2>4, <3>2
    <3> QED
      BY <3>1, <3>2
  <2>7. ASSUME NEW i \in 1 .. n
        PROVE  /\ new[i][1] < new[i][2]
               /\ (\E v \in T : v[1] = new[i][1]) /\ (\E v \in T : v[2] = new[i][2])
               /\ \A k \in new[i][1] .. new[i][2] - 1 : \E v \in T : v[1] <= k /\ k < v[2]
    <3>1. CASE i # n
      <4>1. new[i] = old[i]
        BY <2>1, <2>2, <3>1
      <4>2. /\ old[i][1] < old[i][2]
            /\ (\E v \in U : v[1] = old[i][1]) /\ (\E v \in U : v[2] = old[i][2])
            /\ \A k \in old[i][1] .. old[i][2] - 1 : \E v \in U : v[1] <= k /\ k < v[2]
        BY <1>2
      <4> QED
        BY <4>1, <4>2
    <3>2. CASE i = n
      <4>1. /\ old[n][1] < old[n][2]
            /\ (\E v \in U : v[1] = old[n][1]) /\ (\E v \in U : v[2] = old[n][2])
            /\ \A k \in old[n][1] .. old[n][2] - 1 : \E v \in U : v[1] <= k /\ k < v[2]
        BY <1>2, <2>2
      <4>2. new[n][1] < new[n][2]
        BY <2>1, <2>3, <2>4, <4>1
      <4>3. (\E v \in T : v[1] = new[n][1]) /\ (\E v \in T : v[2] = new[n][2])
        BY <2>1, <4>1
      <4>4. ASSUME NEW k \in new[n][1] .. new[n][2] - 1
            PROVE  \E v \in T : v[1] <= k /\ k < v[2]
        <5>1. k \in Int /\ old[n][1] <= k /\ k < new[n][2]
          BY <2>1, <2>3
        <5>2. CASE k < old[n][2]
          <6>1. k \in old[n][1] .. old[n][2] - 1
            BY <2>3, <5>1, <5>2
          <6> QED
            BY <4>1, <6>1
        <5>3. CASE k >= old[n][2]
          <6>1. w[1] <= k /\ k < w[2]
            BY <1>1, <2>1, <2>3, <5>1, <5>3
          <6> QED
            BY <6>1
        <5> QED
          BY <2>3, <5>1, <5>2, <5>3
      <4> QED
        BY <3>2, <4>2, <4>3, <4>4
    <3> QED
      BY <3>1, <3>2
  <2> QED
    BY <2>1, <2>5, <2>6, <2>7 DEF Merged
<1>6. CASE Adds(new, old, w)
  <2>1. /\ n >= 1 => w[1] > old[n][2]
        /\ Len(new) = n + 1 /\ \A i \in 1 .. n : new[i] = old[i]
        /\ new[n + 1] = w
    BY <1>6 DEF Adds, n
  <2>2. n + 1 \in 1 .. n + 1 /\ \A i \in 1 .. n + 1 : i \in Int /\ (i = n + 1 \/ i \in 1 .. n)
    BY <1>1
  <2>3. \A i \in 1 .. n : i \in 1 .. n + 1 /\ old[i][2] < w[1]
    <3> SUFFICES ASSUME NEW i \in 1 .. n PROVE old[i][2] < w[1]
      BY <1>1
    <3>1. n \in 1 .. n /\ w[1] > old[n][2]
      BY <1>1, <2>1
    <3>2. CASE i = n
      BY <1>1, <3>1, <3>2
    <3>3. CASE i < n
      <4>1. old[i][2] < old[n][1] /\ old[n][1] < old[n][2]
        BY <1>2, <3>1, <3>3
      <4> QED
        BY <1>1, <3>1, <4>1
    <3> QED
      BY <1>1, <3>2, <3>3
  <2>5. ASSUME NEW i \in 1 .. n + 1, NEW j \in 1 .. n + 1, i < j PROVE new[i][2] < new[j][1]
    <3>1. i \in 1 .. n
      BY <1>1, <2>5
    <3>2. CASE j = n + 1
      BY <2>1, <2>3, <3>1, <3>2
    <3>3. CASE j # n + 1
      BY <1>2, <2>1, <2>2, <2>5, <3>1, <3>3
    <3> QED
      BY <3>2, <3>3
  <2>6. ASSUME NEW v \in T
        PROVE  \E i \in 1 .. n + 1 : new[i][1] <= v[1] /\ v[2] <= new[i][2]
    <3>1. CASE v \in U
      BY <1>2, <2>1, <2>3, <3>1
    <3>2. CASE v = w
      BY <1>1, <2>1, <2>2, <3>2
    <3> QED
      BY <3>1, <3>2
  <2>7. ASSUME NEW i \in 1 .. n + 1
        PROVE  /\ new[i][1] < new[i][2]
               /\ (\E v \in T : v[1] = new[i][1]) /\ (\E v \in T : v[2] = new[i][2])
               /\ \A k \in new[i][1] .. new[i][2] - 1 : \E v \in T : v[1] <= k /\ k < v[2]
    <3>1. CASE i # n + 1
      <4>1. i \in 1 .. n
        BY <2>2, <3>1
      <4>2. new[i] = old[i]
        BY <2>1, <4>1
      <4>3. /\ old[i][1] < old[i][2]
            /\ (\E v \in U : v[1] = old[i][1]) /\ (\E v \in U : v[2] = old[i][2])
            /\ \A k \in old[i][1] .. old[i][2] - 1 : \E v \in U : v[1] <= k /\ k < v[2]
        BY <1>2, <4>1
      <4> QED
        BY <4>2, <4>3
    <3>2. CASE i = n + 1
      <4>1. \A k \in w[1] .. w[2] - 1 : w[1] <= k /\ k < w[2]
        BY <1>1
      <4> QED
        BY <2>1, <3>2, <4>1
    <3> QED
      BY <3>1, <3>2
  <2> QED
    BY <2>1, <2>5, <2>6, <2>7 DEF Merged
<1> QED
  BY <1>5, <1>6

(* The sweep over a door's windows merges them.                            *)
LEMMA SweepMerges ==
    ASSUME NEW W \in SUBSET (Int \X Int), IsFiniteSet(W), \A w \in W : w[1] < w[2]
    PROVE  Merged(Sweep(Joined, <<>>, W), W)
<1>1. PICK merged : MergeSteps(merged, W) /\ Sweep(Joined, <<>>, W) = merged[W]
  BY MergeSweep
<1>2. /\ merged \in [SUBSET W -> Intervals]
      /\ merged[{}] = <<>>
      /\ \A T \in SUBSET W : T # {} => merged[T] = Joined(Latest(T), merged[T \ {Latest(T)}])
  BY <1>1 DEF MergeSteps
<1> DEFINE good == {T \in SUBSET W : Merged(merged[T], T)}
<1>3. ASSUME NEW T \in SUBSET W, \A U \in SUBSET T : U # T => U \in good PROVE T \in good
  <2>1. CASE T = {}
    <3>1. merged[T] = <<>> /\ Len(<<>>) = 0 /\ 1 .. 0 = {} /\ <<>> \in Intervals
      BY <1>2, <2>1 DEF Intervals
    <3>2. Merged(<<>>, {})
      BY <3>1 DEF Merged
    <3> QED
      BY <2>1, <3>1, <3>2
  <2>2. CASE T # {}
    <3> DEFINE w == Latest(T)
               U == T \ {w}
    <3>1. w \in T /\ \A v \in T : OrBefore(v, w)
      <4>1. IsFiniteSet(T) /\ T \in SUBSET (Int \X Int)
        BY FS_Subset
      <4> QED
        BY <2>2, <4>1, LatestIsLast
    <3>2. U \in SUBSET T /\ U # T /\ U \in SUBSET W /\ T = U \cup {w} /\ w \in Int \X Int
      BY <3>1
    <3>3. Merged(merged[U], U) /\ merged[U] \in Intervals
      BY <1>2, <1>3, <3>2
    <3>4. merged[T] = Joined(w, merged[U])
      BY <1>2, <2>2
    <3>5. \A v \in U : v[1] <= w[1]
      <4>1. \A v \in T : v[1] \in Int /\ v[2] \in Int
        OBVIOUS
      <4> HIDE DEF w
      <4> QED
        BY <3>1, <4>1 DEF OrBefore
    <3>6. w[1] < w[2] /\ U \in SUBSET (Int \X Int)
      BY <3>1
    <3> HIDE DEF w, U
    <3>7. \/ Extends(merged[T], merged[U], w)
          \/ Adds(merged[T], merged[U], w)
      BY <3>2, <3>3, <3>4, JoinedSteps
    <3>8. merged[T] \in Intervals
      BY <1>2
    <3> QED
      BY <3>2, <3>3, <3>5, <3>6, <3>7, <3>8, MergedStep
  <2> QED
    BY <2>1, <2>2
<1>4. \A T \in SUBSET W : T \in good
  <2> HIDE DEF good
  <2> QED
    BY <1>3, SubsetInduction
<1> QED
  BY <1>1, <1>4

(* The windows of a door in minutes.                                       *)
LEMMA WindowsInMinutes ==
    ASSUME NEW d, IsFiniteSet(d.bookings), NEW origin \in Int,
           \A b \in d.bookings : b.start \in Int /\ b.end \in Int
    PROVE  /\ Windows(d, origin) \in SUBSET (Int \X Int)
           /\ IsFiniteSet(Windows(d, origin))
           /\ \A w \in Windows(d, origin) :
                 /\ w[1] \in Nat /\ w[2] \in Nat /\ w[1] < w[2]
                 /\ \E b \in d.bookings : w[2] = Ceil(b.end, origin)
<1> DEFINE f == [b \in d.bookings |->
                    <<Max({0, Floor(b.start, origin)}), Ceil(b.end, origin)>>]
           all == {f[b] : b \in d.bookings}
<1>1. ASSUME NEW b \in d.bookings PROVE f[b][1] \in Nat /\ f[b][2] = Ceil(b.end, origin)
                                        /\ f[b] \in Int \X Int
  <2>1. Floor(b.start, origin) \in Int /\ Ceil(b.end, origin) \in Int
    BY RoundingIsOutward
  <2>2. \A x \in Int : Max({0, x}) \in Nat
    BY DEF Max
  <2>3. Max({0, Floor(b.start, origin)}) \in Nat
    BY <2>1, <2>2
  <2> QED
    BY <2>1, <2>3
<1>2. IsFiniteSet(all)
  <2>1. DOMAIN f = d.bookings
    OBVIOUS
  <2> HIDE DEF f
  <2> QED
    BY <2>1, ImageIsFinite
<1>3. Windows(d, origin) = {w \in all : w[2] > 0 /\ w[2] > w[1]}
  BY DEF Windows
<1>4. \A w \in all : /\ w[1] \in Nat /\ w \in Int \X Int
                     /\ \E b \in d.bookings : w[2] = Ceil(b.end, origin)
  BY <1>1
<1> HIDE DEF all
<1>5. IsFiniteSet(Windows(d, origin))
  BY <1>2, <1>3, FS_Subset
<1>6. ASSUME NEW w \in Windows(d, origin)
      PROVE  /\ w \in Int \X Int /\ w[1] \in Nat /\ w[2] \in Nat /\ w[1] < w[2]
             /\ \E b \in d.bookings : w[2] = Ceil(b.end, origin)
  <2>1. w \in all /\ w[2] > 0 /\ w[2] > w[1]
    BY <1>3
  <2>2. w[1] \in Nat /\ w[2] \in Int
    BY <1>4, <2>1
  <2> QED
    BY <1>4, <2>1, <2>2
<1> QED
  BY <1>5, <1>6

(* The busy intervals of a door: what BlocksWhatIsTaken says but for the   *)
(* horizon, and that they are apart.                                       *)
LEMMA BusyIsWhatIsTaken ==
    ASSUME NEW d, IsFiniteSet(d.bookings), NEW origin \in Int,
           \A b \in d.bookings : b.start \in Int /\ b.end \in Int
    PROVE  LET busy == ToSet(BusyIntervals(d, origin))
               W == Windows(d, origin)
           IN  /\ busy \in SUBSET (Int \X Int) /\ IsFiniteSet(busy)
               /\ \A v, w \in busy : v = w \/ Apart(v, w)
               /\ \A v \in busy : v[1] \in Nat /\ \E b \in d.bookings : v[2] = Ceil(b.end, origin)
               /\ \A w \in W : \E v \in busy : v[1] <= w[1] /\ w[2] <= v[2]
               /\ \A v \in busy : \A k \in v[1] .. v[2] - 1 :
                     \E w \in W : w[1] <= k /\ k < w[2]
<1> DEFINE W == Windows(d, origin)
           m == BusyIntervals(d, origin)
           n == Len(m)
           busy == ToSet(m)
<1>1. /\ W \in SUBSET (Int \X Int) /\ IsFiniteSet(W)
      /\ \A w \in W : /\ w[1] \in Nat /\ w[2] \in Nat /\ w[1] < w[2]
                      /\ \E b \in d.bookings : w[2] = Ceil(b.end, origin)
  BY WindowsInMinutes
<1> HIDE DEF W
<1>2. Merged(m, W)
  <2>1. m = Sweep(Joined, <<>>, W)
    BY DEF BusyIntervals, W
  <2>2. Merged(Sweep(Joined, <<>>, W), W)
    BY <1>1, SweepMerges
  <2> QED
    BY <2>1, <2>2
<1> HIDE DEF m
<1>3. /\ \A i, j \in 1 .. n : i < j => m[i][2] < m[j][1]
      /\ \A w \in W : \E i \in 1 .. n : m[i][1] <= w[1] /\ w[2] <= m[i][2]
      /\ \A i \in 1 .. n :
           /\ m[i][1] < m[i][2]
           /\ (\E w \in W : w[1] = m[i][1]) /\ (\E w \in W : w[2] = m[i][2])
           /\ \A k \in m[i][1] .. m[i][2] - 1 : \E w \in W : w[1] <= k /\ k < w[2]
  BY <1>2, Zenon DEF Merged
<1>0. m \in Seq(Int \X Int)
  BY <1>2 DEF Merged, Intervals
<1>4. n \in Nat /\ \A i \in 1 .. n : m[i] \in Int \X Int /\ m[i][1] \in Int /\ m[i][2] \in Int
  <2>1. n \in Nat /\ \A i \in 1 .. n : m[i] \in Int \X Int
    BY <1>0
  <2> QED
    BY <2>1
<1>5. DOMAIN m = 1 .. n /\ busy = {m[i] : i \in 1 .. n}
  <2>1. DOMAIN m = 1 .. n
    BY <1>0
  <2> QED
    BY <2>1 DEF ToSet
<1>6. IsFiniteSet(busy)
  <2>1. IsFiniteSet(1 .. n)
    BY <1>4, FS_Interval
  <2> QED
    BY <1>5, <2>1, ImageIsFinite
<1>7. \A v \in busy : \E i \in 1 .. n : v = m[i]
  BY <1>5
<1>8. \A i \in 1 .. n : m[i] \in busy
  BY <1>5
<1> HIDE DEF busy, n
<1>9. ASSUME NEW v \in busy, NEW w \in busy PROVE v = w \/ Apart(v, w)
  <2>1. PICK i \in 1 .. n : v = m[i]
    BY <1>7
  <2>2. PICK j \in 1 .. n : w = m[j]
    BY <1>7
  <2>3. i < j => v[2] < w[1]
    BY <1>3, <2>1, <2>2
  <2>4. j < i => w[2] < v[1]
    BY <1>3, <2>1, <2>2
  <2>5. v[1] \in Int /\ v[2] \in Int /\ w[1] \in Int /\ w[2] \in Int
    BY <1>4, <2>1, <2>2
  <2>6. i = j => v = w
    BY <2>1, <2>2
  <2>7. i < j \/ j < i \/ i = j
    BY <1>4
  <2> QED
    BY <2>3, <2>4, <2>5, <2>6, <2>7 DEF Apart
<1>10. busy \in SUBSET (Int \X Int)
  BY <1>4, <1>7
<1>11. ASSUME NEW v \in busy
       PROVE  v[1] \in Nat /\ \E b \in d.bookings : v[2] = Ceil(b.end, origin)
  <2>1. PICK i \in 1 .. n : v = m[i]
    BY <1>7
  <2>2. PICK w \in W : w[1] = v[1]
    BY <1>3, <2>1
  <2>3. PICK u \in W : u[2] = v[2]
    BY <1>3, <2>1
  <2> QED
    BY <1>1, <2>2, <2>3
<1>12. \A w \in W : \E v \in busy : v[1] <= w[1] /\ w[2] <= v[2]
  BY <1>3, <1>8
<1>13. ASSUME NEW v \in busy, NEW k \in v[1] .. v[2] - 1
       PROVE  \E w \in W : w[1] <= k /\ k < w[2]
  BY <1>3, <1>7
<1>14. busy = ToSet(BusyIntervals(d, origin)) /\ W = Windows(d, origin)
  BY DEF busy, m, W
<1> QED
  BY <1>6, <1>9, <1>10, <1>11, <1>12, <1>13, <1>14

(* The sum of a function, subset by subset.                                *)
SumSteps(g, f, S) ==
    /\ g \in [SUBSET S -> Int]
    /\ g[{}] = 0
    /\ \A T \in SUBSET S : T # {} =>
          g[T] = f[CHOOSE x \in T : TRUE] + g[T \ {CHOOSE x \in T : TRUE}]

(* SumFunction is the last of these steps.                                 *)
LEMMA SumSweep ==
    ASSUME NEW S, IsFiniteSet(S), NEW f \in [S -> Int]
    PROVE  \E g : SumSteps(g, f, S) /\ SumFunction(f) = g[S]
<1> DEFINE any(T) == CHOOSE x \in T : TRUE
           step == [q \in S \X Int |-> f[q[1]] + q[2]]
           pick == [T \in SUBSET S |-> any(T)]
           Sums(g) == g = [T \in SUBSET S |->
                             IF T = {} THEN 0 ELSE f[any(T)] + g[T \ {any(T)}]]
           sum == CHOOSE g : Sums(g)
<1>1. \A T \in SUBSET S : T # {} => any(T) \in T
  OBVIOUS
<1>2. step \in [S \X Int -> Int]
  OBVIOUS
<1>0. 0 \in Int /\ \A T \in SUBSET S : T # {} => pick[T] \in T
  BY <1>1
<1>3. PICK g \in [SUBSET S -> Int] : IsFold(g, S, 0, pick, step)
  <2> HIDE DEF step, pick
  <2> QED
    BY <1>0, <1>2, FoldExists
<1> HIDE DEF any
<1>4. Sums(g)
  <2> DEFINE again == [T \in SUBSET S |->
                         IF T = {} THEN 0 ELSE f[any(T)] + g[T \ {any(T)}]]
  <2>1. ASSUME NEW T \in SUBSET S PROVE g[T] = again[T]
    <3>1. CASE T = {}
      BY <1>3, <3>1 DEF IsFold
    <3>2. CASE T # {}
      <4> DEFINE w == any(T)
                 s == g[T \ {w}]
      <4>1. w \in S /\ s \in Int
        BY <1>1, <3>2
      <4>2. g[T] = step[<<w, s>>]
        BY <1>3, <3>2 DEF IsFold
      <4>3. step[<<w, s>>] = f[w] + s
        <5> HIDE DEF w, s
        <5> QED
          BY <4>1
      <4> QED
        BY <3>2, <4>2, <4>3
    <3> QED
      BY <3>1, <3>2
  <2> HIDE DEF again
  <2>2. g = [T \in SUBSET S |-> g[T]] /\ again = [T \in SUBSET S |-> again[T]]
    BY DEF again
  <2>3. g = again
    BY <2>1, <2>2
  <2> QED
    BY <2>3 DEF again
<1>5. Sums(sum)
  BY <1>4
<1>6. \A T \in SUBSET S : sum[T] = IF T = {} THEN 0 ELSE f[any(T)] + sum[T \ {any(T)}]
  BY <1>5, Zenon
<1>7. sum \in [SUBSET S -> Int]
  <2>2. DOMAIN sum = SUBSET S /\ sum = [T \in SUBSET S |-> sum[T]]
    BY <1>5, Zenon
  <2>3. ASSUME NEW T \in SUBSET S, T # {}, sum[T \ {pick[T]}] \in Int
        PROVE  sum[T] = step[<<pick[T], sum[T \ {pick[T]}]>>]
    <3> DEFINE w == any(T)
               s == sum[T \ {w}]
    <3>1. w \in S /\ s \in Int /\ pick[T] = w
      BY <1>1, <2>3
    <3>2. step[<<w, s>>] = f[w] + s
      <4> HIDE DEF w, s
      <4> QED
        BY <3>1
    <3> QED
      BY <1>6, <2>3, <3>1, <3>2
  <2>4. sum[{}] = 0
    BY <1>6
  <2> HIDE DEF step, pick, sum, Sums
  <2>5. FoldsWithin(sum, S, Int, 0, pick, step)
    BY <2>2, <2>3, <2>4 DEF FoldsWithin
  <2> QED
    BY <1>0, <1>2, <2>5, FoldStaysIn
<1>8. SumFunction(f) = sum[S]
  <2>1. DOMAIN f = S
    OBVIOUS
  <2> QED
    BY <2>1 DEF SumFunction, SumFunctionOnSet, FoldFunctionOnSet, MapThenFoldSet, any
<1> HIDE DEF Sums, sum
<1>9. SumSteps(sum, f, S)
  <2>1. \A T \in SUBSET S : T # {} => sum[T] = f[any(T)] + sum[T \ {any(T)}]
    BY <1>6
  <2>2. sum[{}] = 0
    BY <1>6
  <2> QED
    BY <1>7, <2>1, <2>2 DEF SumSteps, any
<1> QED
  BY <1>8, <1>9

(* Any member may be taken out of a sum.                                   *)
TakesOut(g, f, S) == \A T \in SUBSET S : \A x \in T : g[T] = f[x] + g[T \ {x}]

(* The order of the summands does not matter.                              *)
LEMMA SumTakesOut ==
    ASSUME NEW S, IsFiniteSet(S), NEW f \in [S -> Int], NEW g, SumSteps(g, f, S)
    PROVE  TakesOut(g, f, S)
<1> DEFINE any(T) == CHOOSE x \in T : TRUE
           good == {T \in SUBSET S : \A x \in T : g[T] = f[x] + g[T \ {x}]}
<1>0. \A T \in SUBSET S : T # {} => any(T) \in T
  OBVIOUS
<1>1. /\ g \in [SUBSET S -> Int]
      /\ \A T \in SUBSET S : T # {} => g[T] = f[any(T)] + g[T \ {any(T)}]
  BY DEF SumSteps
<1> HIDE DEF any
<1>2. ASSUME NEW T \in SUBSET S, \A U \in SUBSET T : U # T => U \in good PROVE T \in good
  <2> SUFFICES ASSUME NEW x \in T PROVE g[T] = f[x] + g[T \ {x}]
    OBVIOUS
  <2> DEFINE y == any(T)
             X == T \ {x}
             Y == T \ {y}
             Z == T \ {x, y}
  <2>1. y \in T /\ g[T] = f[y] + g[Y]
    BY <1>0, <1>1
  <2>2. CASE x = y
    BY <2>1, <2>2
  <2>3. CASE x # y
    <3>1. X \in SUBSET T /\ X # T /\ Y \in SUBSET T /\ Y # T
      BY <2>1
    <3>2. y \in X /\ x \in Y /\ X \ {y} = Z /\ Y \ {x} = Z
      BY <2>1, <2>3
    <3>3. g[X] = f[y] + g[Z]
      <4>1. X \in good
        BY <1>2, <3>1
      <4> QED
        BY <3>2, <4>1
    <3>4. g[Y] = f[x] + g[Z]
      <4>1. Y \in good
        BY <1>2, <3>1
      <4> QED
        BY <3>2, <4>1
    <3>5. g[T] \in Int /\ g[X] \in Int /\ g[Y] \in Int /\ g[Z] \in Int
      BY <1>1
    <3>6. f[x] \in Int /\ f[y] \in Int
      BY <2>1
    <3> HIDE DEF X, Y, Z, y
    <3>7. g[T] = f[x] + g[X]
      BY <2>1, <3>3, <3>4, <3>5, <3>6
    <3> QED
      BY <3>7 DEF X
  <2> QED
    BY <2>2, <2>3
<1>3. \A T \in SUBSET S : T \in good
  <2> HIDE DEF good
  <2> QED
    BY <1>2, SubsetInduction
<1> QED
  BY <1>3 DEF TakesOut

(* A finite set of integers has a greatest one.                            *)
LEMMA GreatestIsInt ==
    ASSUME NEW S \in SUBSET Int, IsFiniteSet(S), S # {}
    PROVE  Max(S) \in S /\ Max(S) \in Int /\ \A y \in S : Max(S) >= y
<1> DEFINE R == {p \in Int \X Int : p[1] > p[2]}
<1>1. \A x, y \in Int : <<x, y>> \in R <=> x > y
  OBVIOUS
<1> HIDE DEF R
<1>2. /\ \A x \in S : <<x, x>> \notin R
      /\ \A x, y, z \in S : <<x, y>> \in R /\ <<y, z>> \in R => <<x, z>> \in R
  <2>1. \A x \in S : x \in Int
    OBVIOUS
  <2> QED
    BY <1>1, <2>1
<1>3. PICK m \in S : \A y \in S : <<y, m>> \notin R
  BY <1>2, FiniteMinimum
<1>4. ASSUME NEW y \in S PROVE m >= y
  <2>1. m \in Int /\ y \in Int
    OBVIOUS
  <2>2. ~(y > m)
    BY <1>1, <1>3, <2>1
  <2> QED
    BY <2>1, <2>2
<1> QED
  BY <1>4 DEF Max

(* The empty plan is the empty sequence.                                   *)
LEMMA EmptyPlan == ASSUME NEW X PROVE <<>> \in [{} -> X]
<1>1. <<>> \in Seq(X) /\ Len(<<>>) = 0 /\ 1 .. 0 = {}
  OBVIOUS
<1>2. DOMAIN <<>> = {}
  BY <1>1
<1>3. <<>> = [x \in {} |-> <<>>[x]]
  BY <1>1, <1>2
<1> QED
  BY <1>2, <1>3

(* What the engine may take for granted of a problem.                      *)
WellPosed(p) ==
    /\ IsFiniteSet(p.trailers) /\ IsFiniteSet(p.doors)
    /\ \A t \in p.trailers : /\ t.id \in Int /\ t.priority \in DOMAIN WaitWeight
                             /\ p.ready[t] \in Nat /\ Feasible(t, p.doors) # {}
    /\ \A t, u \in p.trailers : t.id = u.id => t = u
    /\ \A d \in p.doors : /\ d.id \in Int /\ d.position \in Int /\ d.service \in Nat
                          /\ IsFiniteSet(d.types) /\ p.committed[d] \in Int
                          /\ p.busy[d] \in SUBSET (Int \X Int) /\ IsFiniteSet(p.busy[d])
    /\ \A d, e \in p.doors : d.id = e.id => d = e

(* Plans for some of the trailers.                                         *)
PlansFor(p, T) == [T -> [door : p.doors, start : Int]]
Plans(p) == UNION {PlansFor(p, T) : T \in SUBSET p.trailers}

(* What a plan places on a door is a finite set of windows.                *)
LEMMA PlacedWindows ==
    ASSUME NEW p, WellPosed(p), NEW T \in SUBSET p.trailers, NEW plan \in PlansFor(p, T),
           NEW d \in p.doors
    PROVE  PlacedAt(d, plan) \in SUBSET (Int \X Int) /\ IsFiniteSet(PlacedAt(d, plan))
<1> DEFINE there == {u \in T : plan[u].door = d}
           f == [t \in there |-> <<plan[t].start, plan[t].start + d.service>>]
<1>1. DOMAIN plan = T /\ PlacedAt(d, plan) = {f[t] : t \in there}
  BY DEF PlansFor, PlacedAt
<1>2. \A t \in there : f[t] \in Int \X Int
  BY DEF PlansFor, WellPosed
<1>3. IsFiniteSet(there)
  <2>1. there \subseteq p.trailers
    OBVIOUS
  <2> QED
    BY <2>1, FS_Subset DEF WellPosed
<1>4. DOMAIN f = there
  OBVIOUS
<1> HIDE DEF f, there
<1>5. IsFiniteSet({f[t] : t \in there})
  BY <1>3, <1>4, ImageIsFinite
<1> QED
  BY <1>1, <1>2, <1>5

(* A trailer's slot at a door, after the plan so far.                      *)
LEMMA SlotAfterPlan ==
    ASSUME NEW p, WellPosed(p), NEW T \in SUBSET p.trailers, NEW plan \in PlansFor(p, T),
           NEW t \in p.trailers, NEW d \in p.doors
    PROVE  LET I == p.busy[d] \cup PlacedAt(d, plan)
               slot == StartAt(p, t, d, plan)
           IN  /\ slot \in Int /\ slot >= p.ready[t]
               /\ slot = p.ready[t] \/ \E w \in I : slot = w[2]
               /\ \A w \in I : Apart(<<slot, slot + d.service>>, w)
               /\ \A e \in p.ready[t] .. slot - 1 :
                     \E w \in I : ~Apart(<<e, e + d.service>>, w)
<1> DEFINE I == p.busy[d] \cup PlacedAt(d, plan)
<1>1. I \in SUBSET (Int \X Int) /\ IsFiniteSet(I)
  <2>1. /\ PlacedAt(d, plan) \in SUBSET (Int \X Int) /\ IsFiniteSet(PlacedAt(d, plan))
        /\ p.busy[d] \in SUBSET (Int \X Int) /\ IsFiniteSet(p.busy[d])
    BY PlacedWindows DEF WellPosed
  <2> QED
    BY <2>1, FS_Union
<1>2. p.ready[t] \in Int /\ d.service \in Int
  BY DEF WellPosed
<1>3. StartAt(p, t, d, plan) = EarliestSlot(I, p.ready[t], d.service)
  BY DEF StartAt
<1> HIDE DEF I
<1>4. LET slot == EarliestSlot(I, p.ready[t], d.service)
      IN  /\ slot \in Int /\ slot >= p.ready[t]
          /\ slot = p.ready[t] \/ \E w \in I : slot = w[2]
          /\ \A w \in I : Apart(<<slot, slot + d.service>>, w)
          /\ \A e \in p.ready[t] .. slot - 1 : \E w \in I : ~Apart(<<e, e + d.service>>, w)
  BY <1>1, <1>2, SlotIsEarliest
<1> QED
  BY <1>3, <1>4 DEF I

(* Keys are triples of integers, and compare like them.                    *)
LEMMA KeysAreIntegers ==
    ASSUME NEW p, WellPosed(p), NEW T \in SUBSET p.trailers, NEW plan \in PlansFor(p, T),
           NEW t \in p.trailers, NEW d \in p.doors
    PROVE  Key(p, t, d, plan) \in Int \X Int \X Int /\ Key(p, t, d, plan)[3] = d.id
<1>1. StartAt(p, t, d, plan) \in Int
  BY SlotAfterPlan
<1>2. Weight(t) \in Int
  BY DEF WellPosed, Weight, WaitWeight
<1>3. DockCost(t, d, p.committed[d]) \in Int
  <2>1. d.position \in Int /\ Cardinality(d.types) \in Nat /\ p.committed[d] \in Int
    BY FS_CardinalityType DEF WellPosed
  <2>2. p.committed[d] \div 15 \in Int
    BY <2>1
  <2>3. Max({0, Cardinality(d.types) - 1}) \in Int
    <3>1. \A x \in Int : Max({0, x}) \in Int
      BY DEF Max
    <3> QED
      BY <2>1, <3>1
  <2> QED
    BY <2>1, <2>2, <2>3 DEF DockCost, WFlex, WPosition, WUtil, WChurn
<1>4. p.ready[t] \in Int /\ d.position \in Int /\ d.id \in Int
  BY DEF WellPosed
<1>5. Cost(p, t, d, StartAt(p, t, d, plan)) \in Int
  <2> DEFINE x == Weight(t)
             y == StartAt(p, t, d, plan) - p.ready[t]
  <2>1. x \in Int /\ y \in Int
    BY <1>1, <1>2, <1>4
  <2> HIDE DEF x, y
  <2>2. x * y \in Int
    BY <2>1
  <2> QED
    BY <1>3, <2>2 DEF Cost, x, y
<1> QED
  BY <1>4, <1>5 DEF Key

(* Lesser is the lexicographic order.                                      *)
LEMMA LesserIsLexical ==
    ASSUME NEW k \in Int \X Int \X Int, NEW l \in Int \X Int \X Int
    PROVE  Lesser(k, l) <=> \/ k[1] < l[1]
                            \/ k[1] = l[1] /\ k[2] < l[2]
                            \/ k[1] = l[1] /\ k[2] = l[2] /\ k[3] < l[3]
<1>1. 1 .. 3 = {1, 2, 3} /\ 1 .. 1 - 1 = {} /\ 1 .. 2 - 1 = {1} /\ 1 .. 3 - 1 = {1, 2}
  OBVIOUS
<1> QED
  BY <1>1 DEF Lesser

(* The cheapest of the feasible doors exists, so a trailer gets one of     *)
(* them.                                                                   *)
LEMMA ChoiceIsFeasible ==
    ASSUME NEW p, WellPosed(p), NEW T \in SUBSET p.trailers, NEW plan \in PlansFor(p, T),
           NEW t \in p.trailers
    PROVE  LET choice == GreedyChoice(p, t, plan)
           IN  /\ choice \in [door : p.doors, start : Int]
               /\ choice.door \in Feasible(t, p.doors)
               /\ choice.start = StartAt(p, t, choice.door, plan)
<1> DEFINE D == Feasible(t, p.doors)
           K(d) == Key(p, t, d, plan)
           R == {q \in D \X D : Lesser(K(q[1]), K(q[2]))}
           IsBest(d) == \A e \in D \ {d} : Lesser(K(d), K(e))
           best == CHOOSE d \in D : IsBest(d)
<1>1. D \subseteq p.doors /\ D # {} /\ IsFiniteSet(D)
  <2>1. D \subseteq p.doors
    BY DEF Feasible
  <2>2. IsFiniteSet(p.doors) /\ D # {}
    BY DEF WellPosed
  <2> QED
    BY <2>1, <2>2, FS_Subset
<1>2. \A d \in D : K(d) \in Int \X Int \X Int /\ K(d)[3] = d.id
  BY <1>1, KeysAreIntegers
<1>3. \A d, e \in D : <<d, e>> \in R <=> Lesser(K(d), K(e))
  OBVIOUS
<1>4. \A d, e \in D : d.id = e.id => d = e
  BY <1>1 DEF WellPosed
<1> HIDE DEF R, D, K
<1>5. \A d \in D : K(d)[1] \in Int /\ K(d)[2] \in Int /\ K(d)[3] \in Int
  BY <1>2
<1>6. \A d, e \in D :
         Lesser(K(d), K(e)) <=> \/ K(d)[1] < K(e)[1]
                                \/ K(d)[1] = K(e)[1] /\ K(d)[2] < K(e)[2]
                                \/ K(d)[1] = K(e)[1] /\ K(d)[2] = K(e)[2] /\ K(d)[3] < K(e)[3]
  BY <1>2, LesserIsLexical
<1>7. PICK m \in D : \A d \in D : <<d, m>> \notin R
  <2>1. \A d \in D : <<d, d>> \notin R
    BY <1>3, <1>5, <1>6
  <2>2. \A d, e, c \in D : <<d, e>> \in R /\ <<e, c>> \in R => <<d, c>> \in R
    <3> SUFFICES ASSUME NEW d \in D, NEW e \in D, NEW c \in D,
                        Lesser(K(d), K(e)), Lesser(K(e), K(c))
                 PROVE  Lesser(K(d), K(c))
      BY <1>3
    <3> QED
      BY <1>5, <1>6
  <2> QED
    BY <1>1, <2>1, <2>2, FiniteMinimum
<1>8. IsBest(m)
  <2> SUFFICES ASSUME NEW e \in D \ {m} PROVE Lesser(K(m), K(e))
    OBVIOUS
  <2>1. ~Lesser(K(e), K(m))
    BY <1>3, <1>7
  <2>2. K(e)[3] # K(m)[3]
    BY <1>2, <1>4
  <2> QED
    BY <1>5, <1>6, <2>1, <2>2
<1>9. best \in D /\ IsBest(best)
  <2> HIDE DEF IsBest
  <2> QED
    BY <1>8
<1>10. GreedyChoice(p, t, plan) = [door |-> best, start |-> StartAt(p, t, best, plan)]
  BY DEF GreedyChoice, D, K
<1> HIDE DEF best
<1>11. StartAt(p, t, best, plan) \in Int
  BY <1>1, <1>9, SlotAfterPlan
<1> QED
  BY <1>1, <1>9, <1>10, <1>11 DEF D

(* Trailers come in an order, with one of them last.                       *)
LEMMA LightestIsLast ==
    ASSUME NEW p, WellPosed(p), NEW T \in SUBSET p.trailers, T # {}
    PROVE  Lightest(p, T) \in T
<1> DEFINE R == {q \in T \X T : Heavier(p, q[2], q[1])}
<1>1. \A t, u \in T : <<t, u>> \in R <=> Heavier(p, u, t)
  OBVIOUS
<1>2. \A t \in T : t.id \in Int /\ Weight(t) \in Int /\ p.ready[t] \in Int
  BY DEF WellPosed, Weight, WaitWeight
<1>3. \A t, u \in T : t.id = u.id => t = u
  BY DEF WellPosed
<1>4. IsFiniteSet(T)
  BY FS_Subset DEF WellPosed
<1> HIDE DEF R
<1>5. \A t \in T : <<t, t>> \notin R
  BY <1>1, <1>2 DEF Heavier
<1>6. \A t, u, v \in T : <<t, u>> \in R /\ <<u, v>> \in R => <<t, v>> \in R
  <2> SUFFICES ASSUME NEW t \in T, NEW u \in T, NEW v \in T,
                      Heavier(p, u, t), Heavier(p, v, u)
               PROVE  Heavier(p, v, t)
    BY <1>1
  <2> QED
    BY <1>2 DEF Heavier
<1>7. PICK m \in T : \A t \in T : <<t, m>> \notin R
  BY <1>4, <1>5, <1>6, FiniteMinimum
<1>8. \A u \in T \ {m} : Heavier(p, u, m)
  <2> SUFFICES ASSUME NEW u \in T \ {m} PROVE Heavier(p, u, m)
    OBVIOUS
  <2>1. ~Heavier(p, m, u) /\ u.id # m.id
    BY <1>1, <1>3, <1>7
  <2> QED
    BY <1>2, <2>1 DEF Heavier
<1> QED
  BY <1>8 DEF Lightest

(* First-fit, trailer by trailer.                                          *)
PlanSteps(plan, p) ==
    /\ plan \in [SUBSET p.trailers -> Plans(p)]
    /\ plan[{}] = <<>>
    /\ \A T \in SUBSET p.trailers : T # {} =>
          plan[T] = Placed(p, Lightest(p, T), plan[T \ {Lightest(p, T)}])

(* A step adds a trailer to a plan.                                        *)
LEMMA PlacedIsAPlan ==
    ASSUME NEW p, WellPosed(p), NEW T \in SUBSET p.trailers, NEW plan \in PlansFor(p, T),
           NEW t \in p.trailers
    PROVE  Placed(p, t, plan) \in PlansFor(p, T \cup {t})
<1>1. GreedyChoice(p, t, plan) \in [door : p.doors, start : Int]
  BY ChoiceIsFeasible
<1>2. DOMAIN plan = T
  BY DEF PlansFor
<1> QED
  BY <1>1, <1>2 DEF Placed, PlansFor

(* Greedy is the last of these steps.                                      *)
LEMMA PlanSweep ==
    ASSUME NEW p, WellPosed(p)
    PROVE  \E plan : PlanSteps(plan, p) /\ Greedy(p) = plan[p.trailers]
<1> DEFINE S == p.trailers
           A == Plans(p)
           step == [q \in S \X A |-> Placed(p, q[1], q[2])]
           pick == [T \in SUBSET S |-> Lightest(p, T)]
           Fills(g) == g = [T \in SUBSET S |->
                              IF T = {} THEN <<>>
                              ELSE Placed(p, Lightest(p, T), g[T \ {Lightest(p, T)}])]
           filled == CHOOSE g : Fills(g)
<1>0. IsFiniteSet(S)
  BY DEF WellPosed
<1>1. \A T \in SUBSET S : T # {} => Lightest(p, T) \in T
  BY LightestIsLast
<1>2. step \in [S \X A -> A]
  <2> SUFFICES ASSUME NEW t \in S, NEW plan \in A PROVE Placed(p, t, plan) \in A
    OBVIOUS
  <2>1. PICK T \in SUBSET S : plan \in PlansFor(p, T)
    BY DEF Plans
  <2>2. Placed(p, t, plan) \in PlansFor(p, T \cup {t}) /\ T \cup {t} \in SUBSET S
    BY <2>1, PlacedIsAPlan
  <2> QED
    BY <2>2 DEF Plans
<1>3. <<>> \in A /\ \A T \in SUBSET S : T # {} => pick[T] \in T
  <2>1. <<>> \in PlansFor(p, {}) /\ {} \in SUBSET S
    BY EmptyPlan DEF PlansFor
  <2> QED
    BY <1>1, <2>1 DEF Plans
<1>4. PICK g \in [SUBSET S -> A] : IsFold(g, S, <<>>, pick, step)
  <2> HIDE DEF step, pick, S, A
  <2> QED
    BY <1>0, <1>2, <1>3, FoldExists
<1> HIDE DEF A, S
<1>5. Fills(g)
  <2> DEFINE again == [T \in SUBSET S |->
                         IF T = {} THEN <<>>
                         ELSE Placed(p, Lightest(p, T), g[T \ {Lightest(p, T)}])]
  <2>1. ASSUME NEW T \in SUBSET S PROVE g[T] = again[T]
    <3>1. CASE T = {}
      BY <1>4, <3>1 DEF IsFold
    <3>2. CASE T # {}
      <4> DEFINE w == Lightest(p, T)
                 s == g[T \ {w}]
      <4>1. w \in S /\ s \in A
        BY <1>1, <3>2
      <4>2. g[T] = step[<<w, s>>]
        BY <1>4, <3>2 DEF IsFold
      <4>3. step[<<w, s>>] = Placed(p, w, s)
        <5> HIDE DEF w, s
        <5> QED
          BY <4>1
      <4> QED
        BY <3>2, <4>2, <4>3
    <3> QED
      BY <3>1, <3>2
  <2> HIDE DEF again
  <2>2. g = [T \in SUBSET S |-> g[T]] /\ again = [T \in SUBSET S |-> again[T]]
    BY DEF again
  <2>3. g = again
    BY <2>1, <2>2
  <2> QED
    BY <2>3 DEF again
<1>6. Fills(filled)
  BY <1>5
<1>7. \A T \in SUBSET S : filled[T] = IF T = {} THEN <<>>
                             ELSE Placed(p, Lightest(p, T), filled[T \ {Lightest(p, T)}])
  BY <1>6, Zenon
<1>8. filled \in [SUBSET S -> A]
  <2>1. DOMAIN filled = SUBSET S /\ filled = [T \in SUBSET S |-> filled[T]]
    BY <1>6, Zenon
  <2>2. ASSUME NEW T \in SUBSET S, T # {}, filled[T \ {pick[T]}] \in A
        PROVE  filled[T] = step[<<pick[T], filled[T \ {pick[T]}]>>]
    <3> DEFINE w == Lightest(p, T)
               s == filled[T \ {w}]
    <3>1. w \in S /\ s \in A /\ pick[T] = w
      BY <1>1, <2>2
    <3>2. step[<<w, s>>] = Placed(p, w, s)
      <4> HIDE DEF w, s
      <4> QED
        BY <3>1
    <3> QED
      BY <1>7, <2>2, <3>1, <3>2
  <2>3. filled[{}] = <<>>
    BY <1>7
  <2> HIDE DEF step, pick, filled, Fills
  <2>4. FoldsWithin(filled, S, A, <<>>, pick, step)
    BY <2>1, <2>2, <2>3 DEF FoldsWithin
  <2> QED
    BY <1>0, <1>2, <1>3, <2>4, FoldStaysIn
<1>9. Greedy(p) = filled[S]
  BY DEF Greedy, MapThenFoldSet, S
<1> HIDE DEF Fills, filled
<1>10. PlanSteps(filled, p)
  BY <1>7, <1>8 DEF PlanSteps, S, A
<1> QED
  BY <1>9, <1>10 DEF S

(* A plan so far: every window at a feasible door, not before its trailer  *)
(* is ready, free, and over before all that is taken and all the services  *)
(* so far have passed one after the other.                                 *)
Fits(p, T, plan, end) ==
    /\ plan \in PlansFor(p, T)
    /\ \A t \in T :
         /\ plan[t].door \in Feasible(t, p.doors) /\ plan[t].start >= p.ready[t]
         /\ plan[t].start + plan[t].door.service <= end
         /\ \A w \in p.busy[plan[t].door] : Apart(Window(plan, t), w)
         /\ \A u \in T \ {t} : plan[u].door = plan[t].door =>
                                   Apart(Window(plan, t), Window(plan, u))

(* Being apart does not depend on who is asked.                            *)
LEMMA ApartIsSymmetric == \A v, w : Apart(v, w) <=> Apart(w, v)
  BY DEF Apart

(* A trailer placed last still fits, its longest service later: that is    *)
(* what the horizon allows for.                                            *)
LEMMA PlacedFits ==
    ASSUME NEW p, WellPosed(p), NEW U \in SUBSET p.trailers, NEW t \in p.trailers, t \notin U,
           NEW old, NEW end \in Int, Fits(p, U, old, end),
           p.ready[t] <= end, NEW longest \in Nat,
           \A d \in Feasible(t, p.doors) : d.service <= longest,
           \A d \in p.doors : \A w \in p.busy[d] : w[2] <= end
    PROVE  Fits(p, U \cup {t}, Placed(p, t, old), end + longest)
<1> DEFINE T == U \cup {t}
           new == Placed(p, t, old)
           choice == GreedyChoice(p, t, old)
           d == choice.door
           I == p.busy[d] \cup PlacedAt(d, old)
<1>1. /\ old \in PlansFor(p, U)
      /\ \A u \in U :
           /\ old[u].door \in Feasible(u, p.doors) /\ old[u].start >= p.ready[u]
           /\ old[u].start + old[u].door.service <= end
           /\ \A w \in p.busy[old[u].door] : Apart(Window(old, u), w)
           /\ \A v \in U \ {u} : old[v].door = old[u].door =>
                                     Apart(Window(old, u), Window(old, v))
  BY DEF Fits
<1>2. new \in PlansFor(p, T) /\ DOMAIN old = U
  BY <1>1, PlacedIsAPlan DEF PlansFor
<1>3. new[t] = choice /\ \A u \in U : new[u] = old[u]
  BY <1>2 DEF Placed
<1>4. /\ d \in p.doors /\ d \in Feasible(t, p.doors) /\ choice.start = StartAt(p, t, d, old)
      /\ choice.start \in Int /\ d.service \in Nat /\ p.ready[t] \in Nat
  BY <1>1, ChoiceIsFeasible DEF WellPosed
<1> HIDE DEF d
<1>5. /\ choice.start >= p.ready[t]
      /\ choice.start = p.ready[t] \/ \E w \in I : choice.start = w[2]
      /\ \A w \in I : Apart(<<choice.start, choice.start + d.service>>, w)
  BY <1>1, <1>4, SlotAfterPlan
<1>6. \A u \in U : /\ old[u].start \in Int /\ old[u].door \in p.doors
                   /\ old[u].door.service \in Nat
  BY <1>1 DEF PlansFor, WellPosed
<1>7. PlacedAt(d, old) = {Window(old, u) : u \in {v \in U : old[v].door = d}}
  BY <1>2 DEF PlacedAt, Window
<1>8. \A u \in U : Window(new, u) = Window(old, u)
  BY <1>3 DEF Window
<1>9. Window(new, t) = <<choice.start, choice.start + d.service>>
  BY <1>3 DEF Window, d
<1> HIDE DEF choice
<1>10. choice.start <= end
  <2>1. ASSUME NEW w \in I, choice.start = w[2] PROVE w[2] <= end
    <3>1. CASE w \in p.busy[d]
      BY <1>4, <3>1
    <3>2. CASE w \in PlacedAt(d, old)
      <4>1. PICK u \in U : old[u].door = d /\ w = Window(old, u)
        BY <1>7, <3>2
      <4>2. w[2] = old[u].start + old[u].door.service
        BY <4>1 DEF Window
      <4> QED
        BY <1>1, <4>2
    <3> QED
      BY <3>1, <3>2
  <2> QED
    BY <1>5, <2>1
<1>11. choice.start + d.service <= end + longest
  <2>1. d.service <= longest
    BY <1>4
  <2> QED
    BY <1>4, <1>10, <2>1
<1>12. new[t].door = d /\ new[t].start = choice.start
  BY <1>3 DEF d
<1> HIDE DEF new
<1>13. ASSUME NEW u \in T
       PROVE  /\ new[u].door \in Feasible(u, p.doors) /\ new[u].start >= p.ready[u]
              /\ new[u].start + new[u].door.service <= end + longest
              /\ \A w \in p.busy[new[u].door] : Apart(Window(new, u), w)
  <2>1. CASE u = t
    BY <1>4, <1>5, <1>9, <1>11, <1>12, <2>1
  <2>2. CASE u \in U
    <3>1. /\ old[u].start + old[u].door.service <= end
          /\ old[u].start + old[u].door.service \in Int
      BY <1>1, <1>6, <2>2
    <3>2. old[u].start + old[u].door.service <= end + longest
      <4> DEFINE x == old[u].start + old[u].door.service
      <4> HIDE DEF x
      <4>1. x \in Int /\ x <= end
        BY <3>1 DEF x
      <4>2. x <= end + longest
        BY <4>1
      <4> QED
        BY <4>2 DEF x
    <3>3. new[u] = old[u] /\ Window(new, u) = Window(old, u)
      BY <1>3, <1>8, <2>2
    <3> QED
      BY <1>1, <2>2, <3>2, <3>3
  <2> QED
    BY <2>1, <2>2
<1>14. ASSUME NEW u \in U, old[u].door = d PROVE Apart(Window(new, t), Window(new, u))
  <2>1. Window(old, u) \in I
    BY <1>7, <1>14
  <2> HIDE DEF I
  <2> QED
    BY <1>5, <1>8, <1>9, <2>1
<1>15. ASSUME NEW u \in T, NEW v \in T \ {u}, new[v].door = new[u].door
       PROVE  Apart(Window(new, u), Window(new, v))
  <2>1. CASE u = t
    <3>1. v \in U /\ old[v].door = d
      BY <1>3, <1>12, <1>15, <2>1
    <3> QED
      BY <1>14, <2>1, <3>1
  <2>2. CASE v = t
    <3>1. u \in U /\ old[u].door = d
      BY <1>3, <1>12, <1>15, <2>2
    <3> QED
      BY <1>14, <2>2, <3>1, ApartIsSymmetric
  <2>3. CASE u \in U /\ v \in U
    <3>1. new[u] = old[u] /\ new[v] = old[v]
      BY <1>3, <2>3
    <3>2. Apart(Window(old, u), Window(old, v))
      BY <1>1, <1>15, <2>3, <3>1
    <3> QED
      BY <1>8, <2>3, <3>2
  <2> QED
    BY <2>1, <2>2, <2>3
<1> QED
  BY <1>2, <1>13, <1>15 DEF Fits, new

(* First-fit places everybody, before the end of everything in a row.      *)
LEMMA GreedyFits ==
    ASSUME NEW p, WellPosed(p), NEW end \in Int, 0 <= end,
           \A t \in p.trailers : p.ready[t] <= end,
           \A d \in p.doors : \A w \in p.busy[d] : w[2] <= end,
           NEW longest \in [p.trailers -> Nat],
           \A t \in p.trailers : \A d \in Feasible(t, p.doors) : d.service <= longest[t]
    PROVE  /\ SumFunction(longest) \in Nat
           /\ Fits(p, p.trailers, Greedy(p), end + SumFunction(longest))
<1> DEFINE S == p.trailers
<1>1. IsFiniteSet(S) /\ longest \in [S -> Int]
  BY DEF WellPosed
<1>2. PICK sum : SumSteps(sum, longest, S) /\ SumFunction(longest) = sum[S]
  BY <1>1, SumSweep
<1>3. /\ sum \in [SUBSET S -> Int] /\ sum[{}] = 0
      /\ \A T \in SUBSET S : \A t \in T : sum[T] = longest[t] + sum[T \ {t}]
  <2>1. sum \in [SUBSET S -> Int] /\ sum[{}] = 0
    BY <1>2 DEF SumSteps
  <2>2. \A T \in SUBSET S : \A t \in T : sum[T] = longest[t] + sum[T \ {t}]
    <3>1. TakesOut(sum, longest, S)
      BY <1>1, <1>2, SumTakesOut
    <3> QED
      BY <3>1, Zenon DEF TakesOut
  <2> QED
    BY <2>1, <2>2
<1>4. PICK plan : PlanSteps(plan, p) /\ Greedy(p) = plan[S]
  BY PlanSweep
<1>5. /\ plan[{}] = <<>>
      /\ \A T \in SUBSET S : T # {} =>
            plan[T] = Placed(p, Lightest(p, T), plan[T \ {Lightest(p, T)}])
  BY <1>4 DEF PlanSteps
<1> DEFINE good == {T \in SUBSET S : sum[T] >= 0 /\ Fits(p, T, plan[T], end + sum[T])}
<1>6. ASSUME NEW T \in SUBSET S, \A U \in SUBSET T : U # T => U \in good PROVE T \in good
  <2>1. CASE T = {}
    <3>1. plan[T] \in PlansFor(p, T) /\ sum[T] = 0
      BY <1>3, <1>5, <2>1, EmptyPlan DEF PlansFor
    <3> QED
      BY <2>1, <3>1 DEF Fits
  <2>2. CASE T # {}
    <3> DEFINE t == Lightest(p, T)
               U == T \ {t}
    <3>1. t \in T /\ t \in S
      BY <2>2, LightestIsLast
    <3>2. U \in SUBSET T /\ U # T /\ U \in SUBSET S /\ t \notin U /\ T = U \cup {t}
      BY <3>1
    <3>3. sum[U] >= 0 /\ Fits(p, U, plan[U], end + sum[U])
      BY <1>6, <3>2
    <3>4. plan[T] = Placed(p, t, plan[U])
      BY <1>5, <2>2
    <3>5. sum[T] = longest[t] + sum[U] /\ sum[U] \in Int /\ longest[t] \in Nat
      BY <1>3, <3>1, <3>2
    <3> HIDE DEF t, U
    <3>6. end + sum[U] \in Int /\ end <= end + sum[U] /\ end + sum[T] = (end + sum[U]) + longest[t]
      BY <3>3, <3>5
    <3>7. p.ready[t] <= end + sum[U]
      <4>1. p.ready[t] \in Int /\ p.ready[t] <= end
        BY <3>1 DEF WellPosed
      <4> QED
        BY <3>6, <4>1
    <3>8. \A d \in p.doors : \A w \in p.busy[d] : w[2] <= end + sum[U]
      <4>1. \A d \in p.doors : \A w \in p.busy[d] : w[2] \in Int /\ w[2] <= end
        BY DEF WellPosed
      <4> QED
        BY <3>6, <4>1
    <3>9. Fits(p, U \cup {t}, Placed(p, t, plan[U]), (end + sum[U]) + longest[t])
      BY <3>1, <3>2, <3>3, <3>5, <3>6, <3>7, <3>8, PlacedFits
    <3> QED
      BY <3>2, <3>3, <3>4, <3>5, <3>6, <3>9
  <2> QED
    BY <2>1, <2>2
<1>7. \A T \in SUBSET S : T \in good
  <2> HIDE DEF good
  <2> QED
    BY <1>1, <1>6, SubsetInduction
<1>8. sum[S] \in Int /\ sum[S] >= 0 /\ Fits(p, S, plan[S], end + sum[S])
  BY <1>3, <1>7
<1> QED
  BY <1>2, <1>4, <1>8

(* The bookings of a yard's doors, and the latest minute anything is       *)
(* ready or over.                                                          *)
AllBookings(doors) == UNION {d.bookings : d \in doors}
LastMinute(trailers, doors, origin) ==
    Max({0} \cup {Ceil(t.ready, origin) : t \in Plannable(trailers, doors)}
            \cup {Ceil(b.end, origin) : b \in AllBookings(doors)})
Longest(trailers, doors) ==
    [t \in Plannable(trailers, doors) |-> Max({d.service : d \in Feasible(t, doors)})]

(* A yard has finitely many bookings.                                      *)
LEMMA BookingsAreFinite ==
    ASSUME NEW yard \in Yards
    PROVE  IsFiniteSet(AllBookings(yard.doors))
<1> DEFINE f == [d \in yard.doors |-> d.bookings]
           sets == {d.bookings : d \in yard.doors}
<1>1. IsFiniteSet(yard.doors) /\ \A d \in yard.doors : IsFiniteSet(d.bookings)
  BY DecisionsAssumption
<1>2. sets = {f[d] : d \in yard.doors} /\ DOMAIN f = yard.doors
  OBVIOUS
<1>3. \A T \in sets : IsFiniteSet(T)
  BY <1>1
<1> HIDE DEF f
<1>4. IsFiniteSet({f[d] : d \in yard.doors})
  BY <1>1, <1>2, ImageIsFinite
<1> QED
  BY <1>2, <1>3, <1>4, FS_UNION DEF AllBookings

(* Nothing is ready or over after the last minute.                         *)
LEMMA LastMinuteIsLast ==
    ASSUME NEW yard \in Yards, NEW origin \in Int
    PROVE  LET last == LastMinute(yard.trailers, yard.doors, origin)
           IN  /\ last \in Int /\ 0 <= last
               /\ \A t \in Plannable(yard.trailers, yard.doors) :
                     Ceil(t.ready, origin) \in Int /\ Ceil(t.ready, origin) <= last
               /\ \A d \in yard.doors : \A b \in d.bookings :
                     Ceil(b.end, origin) \in Int /\ Ceil(b.end, origin) <= last
<1> DEFINE planned == Plannable(yard.trailers, yard.doors)
           bookings == AllBookings(yard.doors)
           readies == {Ceil(t.ready, origin) : t \in planned}
           ends == {Ceil(b.end, origin) : b \in bookings}
           times == {0} \cup readies \cup ends
<1>1. /\ IsFiniteSet(yard.trailers)
      /\ \A t \in yard.trailers : t.ready \in Int
      /\ \A d \in yard.doors : \A b \in d.bookings : b.end \in Int
  BY DecisionsAssumption
<1>2. planned \subseteq yard.trailers
  BY DEF Plannable
<1>3. \A d \in yard.doors : \A b \in d.bookings : b \in bookings
  BY DEF AllBookings
<1>4. \A b \in bookings : b.end \in Int
  BY <1>1 DEF AllBookings
<1>5. \A t \in planned : Ceil(t.ready, origin) \in Int
  BY <1>1, <1>2, RoundingIsOutward
<1>6. \A b \in bookings : Ceil(b.end, origin) \in Int
  BY <1>4, RoundingIsOutward
<1>7. IsFiniteSet(readies)
  <2> DEFINE f == [t \in planned |-> Ceil(t.ready, origin)]
  <2>1. IsFiniteSet(planned)
    BY <1>1, <1>2, FS_Subset
  <2>2. readies = {f[t] : t \in planned} /\ DOMAIN f = planned
    OBVIOUS
  <2> HIDE DEF f, planned, readies
  <2> QED
    BY <2>1, <2>2, ImageIsFinite
<1>8. IsFiniteSet(ends)
  <2> DEFINE f == [b \in bookings |-> Ceil(b.end, origin)]
  <2>1. IsFiniteSet(bookings)
    BY BookingsAreFinite
  <2>2. ends = {f[b] : b \in bookings} /\ DOMAIN f = bookings
    OBVIOUS
  <2> HIDE DEF f, bookings, ends
  <2> QED
    BY <2>1, <2>2, ImageIsFinite
<1>9. LastMinute(yard.trailers, yard.doors, origin) = Max(times)
  BY DEF LastMinute
<1>10. times \in SUBSET Int /\ 0 \in times /\ readies \subseteq times /\ ends \subseteq times
  BY <1>5, <1>6
<1>11. IsFiniteSet(times)
  <2> HIDE DEF readies, ends
  <2> QED
    BY <1>7, <1>8, FS_Union, FS_Singleton
<1>12. \A t \in planned : Ceil(t.ready, origin) \in readies
  OBVIOUS
<1>13. \A b \in bookings : Ceil(b.end, origin) \in ends
  OBVIOUS
<1> HIDE DEF times, readies, ends, planned, bookings
<1>14. Max(times) \in Int /\ \A x \in times : Max(times) >= x
  BY <1>10, <1>11, GreatestIsInt
<1> DEFINE last == Max(times)
<1>15. last \in Int /\ \A x \in times : x \in Int /\ x <= last
  <2>1. \A x \in times : x \in Int
    BY <1>10
  <2> QED
    BY <1>14, <2>1
<1> HIDE DEF last
<1>16. 0 <= last
  BY <1>10, <1>15
<1>17. \A t \in planned : Ceil(t.ready, origin) \in Int /\ Ceil(t.ready, origin) <= last
  BY <1>10, <1>12, <1>15
<1>18. \A b \in bookings : Ceil(b.end, origin) \in Int /\ Ceil(b.end, origin) <= last
  BY <1>10, <1>13, <1>15
<1>19. LastMinute(yard.trailers, yard.doors, origin) = last
  BY <1>9 DEF last
<1> QED
  BY <1>3, <1>15, <1>16, <1>17, <1>18, <1>19 DEF planned

(* The longest service of a feasible door.                                 *)
LEMMA LongestIsLongest ==
    ASSUME NEW yard \in Yards
    PROVE  LET longest == Longest(yard.trailers, yard.doors)
               planned == Plannable(yard.trailers, yard.doors)
           IN  /\ longest \in [planned -> Nat]
               /\ \A t \in planned : \A d \in Feasible(t, yard.doors) : d.service <= longest[t]
<1> DEFINE longest == Longest(yard.trailers, yard.doors)
           planned == Plannable(yard.trailers, yard.doors)
<1>1. ASSUME NEW t \in planned
      PROVE  longest[t] \in Nat /\ \A d \in Feasible(t, yard.doors) : d.service <= longest[t]
  <2> DEFINE D == Feasible(t, yard.doors)
             f == [d \in D |-> d.service]
             services == {d.service : d \in D}
  <2>1. D \subseteq yard.doors /\ D # {}
    BY DEF Feasible, Plannable
  <2>2. IsFiniteSet(yard.doors) /\ \A d \in yard.doors : d.service \in Nat
    BY DecisionsAssumption
  <2>3. longest[t] = Max(services)
    BY DEF Longest
  <2>4. services = {f[d] : d \in D} /\ DOMAIN f = D /\ \A d \in D : d.service \in services
    OBVIOUS
  <2>5. services \in SUBSET Nat /\ services # {}
    BY <2>1, <2>2
  <2> HIDE DEF f, services, D
  <2>6. IsFiniteSet(services)
    <3>1. IsFiniteSet(D)
      BY <2>1, <2>2, FS_Subset
    <3>2. IsFiniteSet({f[d] : d \in D})
      BY <2>4, <3>1, ImageIsFinite
    <3> QED
      BY <2>4, <3>2
  <2>7. Max(services) \in services /\ \A x \in services : Max(services) >= x
    <3>1. services \in SUBSET Int
      BY <2>5
    <3> QED
      BY <2>5, <2>6, <3>1, GreatestIsInt
  <2>8. Max(services) \in Nat /\ \A x \in services : x \in Nat /\ x <= Max(services)
    <3>1. \A x \in services : x \in Nat
      BY <2>5
    <3> QED
      BY <2>7, <3>1
  <2> QED
    BY <2>3, <2>4, <2>8 DEF D
<1>2. longest \in [planned -> Nat]
  <2>1. longest = [t \in planned |-> longest[t]]
    BY DEF Longest
  <2> HIDE DEF longest, planned
  <2> QED
    BY <1>1, <2>1
<1> QED
  BY <1>1, <1>2

(* The problem that the engine makes of a yard is well posed; what it      *)
(* keeps busy is what is taken, and over by the horizon.                   *)
LEMMA ProblemOfAYard ==
    ASSUME NEW yard \in Yards
    PROVE  LET p == Problem(yard.now, yard.trailers, yard.doors)
               last == LastMinute(yard.trailers, yard.doors, p.origin)
               longest == Longest(yard.trailers, yard.doors)
           IN  /\ WellPosed(p) /\ p.doors = yard.doors
               /\ p.trailers = Plannable(yard.trailers, yard.doors)
               /\ last \in Int /\ 0 <= last
               /\ \A t \in p.trailers : p.ready[t] \in Nat /\ p.ready[t] <= last
               /\ \A d \in p.doors : /\ \A w \in p.busy[d] : w[1] \in Nat /\ w[2] \in Int
                                                             /\ w[2] <= last
                                     /\ p.busy[d] = ToSet(BusyIntervals(d, p.origin))
               /\ SumFunction(longest) \in Int
               /\ p.horizon = last + SumFunction(longest) + Slack
               /\ p.origin \in Int
<1> DEFINE planned == Plannable(yard.trailers, yard.doors)
           doors == yard.doors
           origin == Origin(yard.now, yard.trailers, doors)
           last == LastMinute(yard.trailers, doors, origin)
           longest == Longest(yard.trailers, doors)
           horizon == LatestStart(yard.trailers, doors, origin)
           p == Problem(yard.now, yard.trailers, doors)
<1>1. /\ p.origin = origin /\ p.horizon = horizon /\ p.trailers = planned /\ p.doors = doors
      /\ p.ready = [t \in planned |-> Max({0, Ceil(t.ready, origin)})]
      /\ p.busy = [d \in doors |-> ToSet(BusyIntervals(d, origin))]
      /\ p.committed = [d \in doors |-> Committed(d, origin, horizon)]
  BY DEF Problem
<1>2. origin \in Int
  BY OriginIsEarly
<1>3. horizon = last + SumFunction(longest) + Slack
  BY DEF LatestStart, LastMinute, Longest, AllBookings
<1> HIDE DEF p, origin, horizon
<1>4. /\ last \in Int /\ 0 <= last
      /\ \A t \in planned : Ceil(t.ready, origin) \in Int /\ Ceil(t.ready, origin) <= last
      /\ \A d \in doors : \A b \in d.bookings :
            Ceil(b.end, origin) \in Int /\ Ceil(b.end, origin) <= last
  BY <1>2, LastMinuteIsLast
<1>5. longest \in [planned -> Nat]
  BY LongestIsLongest
<1>6. /\ IsFiniteSet(yard.trailers) /\ IsFiniteSet(doors) /\ planned \subseteq yard.trailers
  BY DecisionsAssumption DEF Plannable
<1>7. IsFiniteSet(planned)
  BY <1>6, FS_Subset
<1> HIDE DEF last, longest, planned
<1>8. SumFunction(longest) \in Int
  <2>1. longest \in [planned -> Int]
    BY <1>5
  <2>2. PICK g : SumSteps(g, longest, planned) /\ SumFunction(longest) = g[planned]
    BY <1>7, <2>1, SumSweep
  <2> QED
    BY <2>2 DEF SumSteps
<1>9. horizon \in Int
  BY <1>3, <1>4, <1>8, DockEngineAssumption
<1>10. ASSUME NEW d \in doors
       PROVE  /\ p.busy[d] = ToSet(BusyIntervals(d, origin))
              /\ p.busy[d] \in SUBSET (Int \X Int) /\ IsFiniteSet(p.busy[d])
              /\ \A w \in p.busy[d] : w[1] \in Nat /\ w[2] \in Int /\ w[2] <= last
  <2> DEFINE busy == ToSet(BusyIntervals(d, origin))
  <2>1. IsFiniteSet(d.bookings) /\ \A b \in d.bookings : b.start \in Int /\ b.end \in Int
    BY DecisionsAssumption
  <2>2. /\ busy \in SUBSET (Int \X Int) /\ IsFiniteSet(busy)
        /\ \A v \in busy : v[1] \in Nat /\ \E b \in d.bookings : v[2] = Ceil(b.end, origin)
    BY <1>2, <2>1, BusyIsWhatIsTaken
  <2>3. p.busy[d] = busy
    BY <1>1
  <2> HIDE DEF busy
  <2>4. \A w \in busy : w[2] \in Int /\ w[2] <= last
    BY <1>4, <2>2
  <2> QED
    BY <2>2, <2>3, <2>4 DEF busy
<1>11. \A t \in planned : p.ready[t] \in Nat /\ p.ready[t] <= last
  <2> SUFFICES ASSUME NEW t \in planned PROVE p.ready[t] \in Nat /\ p.ready[t] <= last
    OBVIOUS
  <2>1. \A x \in Int : Max({0, x}) = IF 0 >= x THEN 0 ELSE x
    BY DEF Max
  <2>2. p.ready[t] = Max({0, Ceil(t.ready, origin)})
    BY <1>1
  <2> DEFINE x == Ceil(t.ready, origin)
  <2>3. x \in Int /\ x <= last
    BY <1>4
  <2> HIDE DEF x
  <2>4. Max({0, x}) \in Nat /\ Max({0, x}) <= last
    BY <1>4, <2>1, <2>3
  <2> QED
    BY <2>2, <2>4 DEF x
<1>12. ASSUME NEW d \in doors PROVE p.committed[d] \in Int
  <2> DEFINE busy == ToSet(BusyIntervals(d, origin))
             f == [w \in busy |-> Max({0, Min({horizon, w[2]}) - w[1]})]
  <2>1. busy \in SUBSET (Int \X Int) /\ IsFiniteSet(busy)
    BY <1>10
  <2>2. p.committed[d] = SumFunction(f)
    BY <1>1 DEF Committed
  <2> HIDE DEF busy
  <2>3. f \in [busy -> Int]
    <3> SUFFICES ASSUME NEW w \in busy PROVE Max({0, Min({horizon, w[2]}) - w[1]}) \in Int
      OBVIOUS
    <3>1. w[1] \in Int /\ w[2] \in Int
      BY <2>1
    <3>2. \A x, y \in Int : Min({x, y}) \in Int
      BY DEF Min
    <3>3. \A x \in Int : Max({0, x}) \in Int
      BY DEF Max
    <3>4. Min({horizon, w[2]}) - w[1] \in Int
      BY <1>9, <3>1, <3>2
    <3> QED
      BY <3>3, <3>4
  <2> HIDE DEF f
  <2>4. PICK g : SumSteps(g, f, busy) /\ SumFunction(f) = g[busy]
    BY <2>1, <2>3, SumSweep
  <2> QED
    BY <2>2, <2>4 DEF SumSteps
<1>13. WellPosed(p)
  <2>1. /\ \A t \in yard.trailers : t.id \in Int /\ t.priority \in DOMAIN WaitWeight
        /\ \A t, u \in yard.trailers : t.id = u.id => t = u
        /\ \A d \in doors : /\ d.id \in Int /\ d.position \in Int /\ d.service \in Nat
                            /\ IsFiniteSet(d.types)
        /\ \A d, e \in doors : d.id = e.id => d = e
    BY DecisionsAssumption
  <2>2. \A t \in p.trailers : t \in yard.trailers /\ p.ready[t] \in Nat
                              /\ Feasible(t, p.doors) # {}
    <3>1. \A t \in planned : Feasible(t, doors) # {}
      BY DEF planned, Plannable
    <3> QED
      BY <1>1, <1>6, <1>11, <3>1
  <2>3. \A d \in p.doors : /\ p.committed[d] \in Int /\ p.busy[d] \in SUBSET (Int \X Int)
                           /\ IsFiniteSet(p.busy[d])
    BY <1>1, <1>10, <1>12
  <2>4. p.doors = doors /\ IsFiniteSet(p.trailers) /\ IsFiniteSet(p.doors)
    BY <1>1, <1>6, <1>7
  <2> HIDE DEF doors
  <2> QED
    BY <2>1, <2>2, <2>3, <2>4 DEF WellPosed
<1>14. \A d \in p.doors : /\ \A w \in p.busy[d] : w[1] \in Nat /\ w[2] \in Int /\ w[2] <= last
                          /\ p.busy[d] = ToSet(BusyIntervals(d, p.origin))
  BY <1>1, <1>10
<1>15. \A t \in p.trailers : p.ready[t] \in Nat /\ p.ready[t] <= last
  BY <1>1, <1>11
<1>16. /\ p = Problem(yard.now, yard.trailers, yard.doors)
       /\ last = LastMinute(yard.trailers, yard.doors, p.origin)
       /\ longest = Longest(yard.trailers, yard.doors)
       /\ planned = Plannable(yard.trailers, yard.doors)
  BY <1>1 DEF p, last, longest, planned
<1> HIDE DEF doors
<1>17. p.doors = yard.doors
  BY <1>1 DEF doors
<1> QED
  BY <1>1, <1>2, <1>3, <1>4, <1>8, <1>13, <1>14, <1>15, <1>16, <1>17

(* First-fit's plan fits in the time before the horizon.                   *)
LEMMA FirstFitFits ==
    ASSUME NEW yard \in Yards
    PROVE  LET p == Problem(yard.now, yard.trailers, yard.doors)
               last == LastMinute(yard.trailers, yard.doors, p.origin)
               longest == Longest(yard.trailers, yard.doors)
           IN  /\ SumFunction(longest) \in Nat
               /\ Fits(p, p.trailers, Greedy(p), last + SumFunction(longest))
<1> DEFINE p == Problem(yard.now, yard.trailers, yard.doors)
           last == LastMinute(yard.trailers, yard.doors, p.origin)
           longest == Longest(yard.trailers, yard.doors)
<1>1. /\ WellPosed(p) /\ p.doors = yard.doors
      /\ p.trailers = Plannable(yard.trailers, yard.doors)
      /\ last \in Int /\ 0 <= last
      /\ \A t \in p.trailers : p.ready[t] <= last
      /\ \A d \in p.doors : \A w \in p.busy[d] : w[2] <= last
  BY ProblemOfAYard
<1>2. /\ longest \in [p.trailers -> Nat]
      /\ \A t \in p.trailers : \A d \in Feasible(t, p.doors) : d.service <= longest[t]
  BY <1>1, LongestIsLongest
<1> HIDE DEF p, last, longest
<1>3. /\ SumFunction(longest) \in Nat
      /\ Fits(p, p.trailers, Greedy(p), last + SumFunction(longest))
  BY <1>1, <1>2, GreedyFits
<1> QED
  BY <1>3 DEF p, last, longest

(* What the dock engine has been given and has answered.                   *)
EngineInv ==
    /\ topic # "dock" => minutes = {}
    /\ topic = "dock" =>
         /\ problem \in Yards
         /\ minutes \subseteq {Problem(problem.now, problem.trailers, problem.doors)}
         /\ minutes = {} => greedy = {} /\ answer = {}
    /\ \A p \in minutes : \A plan \in answer : \E first \in greedy :
         plan = first \/ plan \in Solved(p, first)
    /\ \A p \in minutes : greedy \subseteq {Greedy(p)}

(* The engine answers what it was asked, by a plan of its own or of the    *)
(* solver.                                                                 *)
LEMMA EngineSteps == DecisionsSpec => []EngineInv
<1>1. DecisionsInit => EngineInv
  BY DEF DecisionsInit, EngineInv, Nothing
<1>2. EngineInv /\ [DecisionsNext]_decisionVars => EngineInv'
  <2> SUFFICES ASSUME EngineInv, [DecisionsNext]_decisionVars PROVE EngineInv'
    OBVIOUS
  <2>1. CASE DecideMatch \/ UNCHANGED decisionVars
    BY <2>1 DEF DecideMatch, decisionVars, EngineInv
  <2>2. CASE Reduce
    BY <2>2 DEF Reduce, EngineInv, Nothing
  <2>3. CASE FirstFit
    BY <2>3 DEF FirstFit, EngineInv, Nothing
  <2>4. CASE Solve
    BY <2>4 DEF Solve, EngineInv, Nothing
  <2>5. CASE DecideSupplier
    BY <2>5 DEF DecideSupplier, EngineInv
  <2> QED
    BY <2>1, <2>2, <2>3, <2>4, <2>5 DEF DecisionsNext
<1> QED
  BY <1>1, <1>2, PTL DEF DecisionsSpec

(* Every answer is a plan for all the plannable trailers of a yard, at     *)
(* doors of the yard.                                                      *)
LEMMA AnswersArePlans ==
    ASSUME EngineInv, NEW p \in minutes
    PROVE  /\ problem \in Yards /\ p = Problem(problem.now, problem.trailers, problem.doors)
           /\ WellPosed(p)
           /\ \A first \in greedy : first = Greedy(p) /\ first \in PlansFor(p, p.trailers)
           /\ \A plan \in answer : plan \in PlansFor(p, p.trailers)
<1>1. problem \in Yards /\ p = Problem(problem.now, problem.trailers, problem.doors)
  BY DEF EngineInv
<1>2. WellPosed(p)
  BY <1>1, ProblemOfAYard
<1>3. ASSUME NEW first \in greedy
      PROVE  first = Greedy(p) /\ first \in PlansFor(p, p.trailers)
  <2>1. first = Greedy(p)
    BY DEF EngineInv
  <2>2. PICK plan : PlanSteps(plan, p) /\ Greedy(p) = plan[p.trailers]
    BY <1>2, PlanSweep
  <2> DEFINE longest == Longest(problem.trailers, problem.doors)
             last == LastMinute(problem.trailers, problem.doors, p.origin)
  <2>3. Fits(p, p.trailers, Greedy(p), last + SumFunction(longest))
    BY <1>1, FirstFitFits
  <2> QED
    BY <2>1, <2>3 DEF Fits
<1>4. ASSUME NEW plan \in answer PROVE plan \in PlansFor(p, p.trailers)
  <2>1. PICK first \in greedy : plan = first \/ plan \in Solved(p, first)
    BY DEF EngineInv
  <2>2. CASE plan = first
    BY <1>3, <2>2
  <2>3. CASE plan \in Solved(p, first)
    <3> DEFINE Affordable(t, d) == {start \in p.ready[t] .. p.horizon :
                                      Cost(p, t, d, start) <= TotalCost(p, first)}
               Slots == UNION {UNION {[door : {d}, start : Affordable(t, d)] :
                                        d \in Feasible(t, p.doors)} : t \in p.trailers}
    <3>1. plan \in [p.trailers -> Slots]
      BY <2>3 DEF Solved
    <3>2. Slots \subseteq [door : p.doors, start : Int]
      <4> SUFFICES ASSUME NEW t \in p.trailers, NEW d \in Feasible(t, p.doors),
                          NEW slot \in [door : {d}, start : Affordable(t, d)]
                   PROVE  slot \in [door : p.doors, start : Int]
        OBVIOUS
      <4>1. d \in p.doors
        BY DEF Feasible
      <4>2. Affordable(t, d) \subseteq Int
        OBVIOUS
      <4> HIDE DEF Affordable
      <4> QED
        BY <4>1, <4>2
    <3> HIDE DEF Slots
    <3> QED
      BY <3>1, <3>2 DEF PlansFor
  <2> QED
    BY <2>1, <2>2, <2>3
<1> QED
  BY <1>1, <1>2, <1>3, <1>4

(* No way of overlapping of the bookings leaves the engine without a plan. *)
LEMMA FirstFitSolves == EngineInv => EngineIsTotal
<1> SUFFICES ASSUME EngineInv, NEW p \in minutes, NEW first \in greedy
             PROVE  IsSolution(p, first)
  BY DEF EngineIsTotal
<1> DEFINE longest == Longest(problem.trailers, problem.doors)
           last == LastMinute(problem.trailers, problem.doors, p.origin)
           sum == SumFunction(longest)
<1>1. /\ problem \in Yards /\ p = Problem(problem.now, problem.trailers, problem.doors)
      /\ WellPosed(p) /\ first = Greedy(p)
  BY AnswersArePlans
<1>2. /\ last \in Int /\ sum \in Nat /\ Fits(p, p.trailers, first, last + sum)
      /\ p.horizon = last + sum + Slack
      /\ \A d \in p.doors : p.busy[d] = ToSet(BusyIntervals(d, p.origin))
      /\ p.origin \in Int /\ p.doors = problem.doors
  BY <1>1, FirstFitFits, ProblemOfAYard
<1> HIDE DEF last, sum
<1>3. /\ DOMAIN first = p.trailers /\ first \in PlansFor(p, p.trailers)
      /\ \A t \in p.trailers :
           /\ first[t].door \in Feasible(t, p.doors) /\ first[t].start >= p.ready[t]
           /\ first[t].start + first[t].door.service <= last + sum
           /\ \A w \in p.busy[first[t].door] : Apart(Window(first, t), w)
           /\ \A u \in p.trailers \ {t} : first[u].door = first[t].door =>
                                             Apart(Window(first, t), Window(first, u))
  BY <1>2 DEF Fits, PlansFor
<1>4. FixedApart(p)
  <2> SUFFICES ASSUME NEW d \in p.doors
               PROVE  \A v, w \in p.busy[d] : v = w \/ Apart(v, w)
    BY DEF FixedApart
  <2>1. IsFiniteSet(d.bookings) /\ \A b \in d.bookings : b.start \in Int /\ b.end \in Int
    BY <1>1, <1>2, DecisionsAssumption
  <2> DEFINE busy == ToSet(BusyIntervals(d, p.origin))
  <2>2. \A v, w \in busy : v = w \/ Apart(v, w)
    <3>1. p.origin \in Int
      BY <1>2
    <3> QED
      BY <2>1, <3>1, BusyIsWhatIsTaken
  <2> HIDE DEF busy
  <2>3. p.busy[d] = busy
    BY <1>2 DEF busy
  <2> QED
    BY <2>2, <2>3
<1>5. ASSUME NEW t \in p.trailers PROVE first[t].start \in p.ready[t] .. p.horizon
  <2>1. /\ first[t].start \in Int /\ first[t].door.service \in Nat /\ p.ready[t] \in Int
    BY <1>1, <1>3 DEF PlansFor, WellPosed
  <2>2. first[t].start + first[t].door.service <= last + sum /\ first[t].start >= p.ready[t]
    BY <1>3
  <2>3. p.horizon = last + sum + Slack /\ Slack \in Nat /\ last \in Int /\ sum \in Nat
    BY <1>2, DockEngineAssumption
  <2> DEFINE s == first[t].start
             n == first[t].door.service
             r == p.ready[t]
  <2>4. s \in Int /\ n \in Nat /\ r \in Int /\ s + n <= last + sum /\ s >= r
    BY <2>1, <2>2
  <2> HIDE DEF s, n, r
  <2>5. s \in r .. p.horizon
    BY <2>3, <2>4
  <2> QED
    BY <2>5 DEF s, r
<1> QED
  BY <1>3, <1>4, <1>5 DEF IsSolution

(* Merging neither loses a minute that is taken nor blocks one that is     *)
(* not, and the horizon is after all of it.                                *)
LEMMA MergingKeepsWhatIsTaken == EngineInv => BlocksWhatIsTaken
<1> SUFFICES ASSUME EngineInv, NEW p \in minutes, NEW d \in p.doors
             PROVE  /\ \A w \in Windows(d, p.origin) : \E v \in p.busy[d] :
                          v[1] \in 0 .. w[1] /\ v[2] \in w[2] .. p.horizon
                    /\ \A v \in p.busy[d] : \A m \in v[1] .. v[2] - 1 :
                          \E w \in Windows(d, p.origin) : w[1] <= m /\ m < w[2]
  BY DEF BlocksWhatIsTaken
<1> DEFINE longest == Longest(problem.trailers, problem.doors)
           last == LastMinute(problem.trailers, problem.doors, p.origin)
           sum == SumFunction(longest)
           W == Windows(d, p.origin)
           busy == ToSet(BusyIntervals(d, p.origin))
<1>1. problem \in Yards /\ p = Problem(problem.now, problem.trailers, problem.doors)
  BY AnswersArePlans
<1>2. /\ last \in Int /\ sum \in Nat /\ p.horizon = last + sum + Slack
      /\ p.busy[d] = busy
      /\ \A v \in busy : v[1] \in Nat /\ v[2] \in Int /\ v[2] <= last
      /\ p.origin \in Int /\ p.doors = problem.doors
  BY <1>1, FirstFitFits, ProblemOfAYard
<1>3. IsFiniteSet(d.bookings) /\ \A b \in d.bookings : b.start \in Int /\ b.end \in Int
  BY <1>1, <1>2, DecisionsAssumption
<1>4. /\ \A w \in W : \E v \in busy : v[1] <= w[1] /\ w[2] <= v[2]
      /\ \A v \in busy : \A k \in v[1] .. v[2] - 1 : \E w \in W : w[1] <= k /\ k < w[2]
  BY <1>2, <1>3, BusyIsWhatIsTaken
<1>5. \A w \in W : w[1] \in Nat /\ w[2] \in Nat
  BY <1>2, <1>3, WindowsInMinutes
<1> HIDE DEF last, sum, W, busy
<1>6. ASSUME NEW w \in W
      PROVE  \E v \in busy : v[1] \in 0 .. w[1] /\ v[2] \in w[2] .. p.horizon
  <2>1. PICK v \in busy : v[1] <= w[1] /\ w[2] <= v[2]
    BY <1>4
  <2>2. v[1] \in Nat /\ v[2] \in Int /\ v[2] <= last /\ w[1] \in Nat /\ w[2] \in Nat
    BY <1>2, <1>5
  <2>3. v[2] <= p.horizon /\ p.horizon \in Int
    BY <1>2, <2>2, DockEngineAssumption
  <2> QED
    BY <2>1, <2>2, <2>3
<1> QED
  BY <1>2, <1>4, <1>6 DEF W

(* The other doors' slots.                                                 *)
LEMMA AlternativesAreEarliest == EngineInv => SlotsAreEarliest
<1> SUFFICES ASSUME EngineInv, NEW p \in minutes, NEW plan \in answer, NEW t \in DOMAIN plan,
                    NEW d \in Feasible(t, p.doors) \ {plan[t].door}
             PROVE  LET Free(start) == \A w \in p.busy[d] \cup PlacedAt(d, plan) :
                                         Apart(<<start, start + d.service>>, w)
                        slot == Alternative(p, plan, t, d)
                    IN  /\ slot >= p.ready[t] /\ Free(slot)
                        /\ \A earlier \in p.ready[t] .. slot - 1 : ~Free(earlier)
  BY DEF SlotsAreEarliest
<1>1. WellPosed(p) /\ plan \in PlansFor(p, p.trailers)
  BY AnswersArePlans
<1>2. t \in p.trailers /\ d \in p.doors /\ p.trailers \in SUBSET p.trailers
  BY <1>1 DEF PlansFor, Feasible
<1> DEFINE I == p.busy[d] \cup PlacedAt(d, plan)
           slot == StartAt(p, t, d, plan)
<1>3. /\ slot \in Int /\ slot >= p.ready[t]
      /\ \A w \in I : Apart(<<slot, slot + d.service>>, w)
      /\ \A e \in p.ready[t] .. slot - 1 : \E w \in I : ~Apart(<<e, e + d.service>>, w)
  BY <1>1, <1>2, SlotAfterPlan
<1>4. Alternative(p, plan, t, d) = slot
  BY DEF Alternative
<1> QED
  BY <1>3, <1>4

(* A solution in minutes is free in true time.                             *)
LEMMA SolutionIsFree ==
    ASSUME EngineInv, EngineIsTotal, BlocksWhatIsTaken
    PROVE  WindowsAreFree
<1> SUFFICES ASSUME NEW p \in minutes, NEW plan \in answer, NEW t \in DOMAIN plan
             PROVE  LET window == TrueWindow(p, plan, t)
                    IN  /\ window.start >= t.ready
                        /\ \A b \in plan[t].door.bookings :
                              b.start < b.end => Disjoint(window, b)
                        /\ \A u \in DOMAIN plan \ {t} :
                             plan[u].door = plan[t].door =>
                                 Disjoint(window, TrueWindow(p, plan, u))
  BY DEF WindowsAreFree
<1> DEFINE origin == Origin(problem.now, problem.trailers, problem.doors)
           planned == Plannable(problem.trailers, problem.doors)
<1>1. problem \in Yards /\ p = Problem(problem.now, problem.trailers, problem.doors)
  BY DEF EngineInv
<1>2. /\ p.origin = origin /\ p.trailers = planned /\ p.doors = problem.doors
      /\ p.ready = [u \in planned |-> Max({0, Ceil(u.ready, origin)})]
  BY <1>1 DEF Problem
<1>3. /\ origin \in Int
      /\ \A d \in problem.doors : /\ d.service \in Nat
                                  /\ \A b \in d.bookings : /\ b.start \in Int /\ b.end \in Int
                                                           /\ origin <= b.start
      /\ \A u \in planned : u.ready \in Int
  <2> HIDE DEF origin
  <2>1. planned \subseteq problem.trailers
    BY DEF Plannable
  <2> QED
    BY <1>1, <2>1, OriginIsEarly, DecisionsAssumption DEF origin
<1>4. IsSolution(p, plan)
  <2>1. PICK first \in greedy : plan = first \/ plan \in Solved(p, first)
    BY DEF EngineInv
  <2>2. CASE plan = first
    BY <2>2 DEF EngineIsTotal
  <2>3. CASE plan \in Solved(p, first)
    BY <2>3 DEF Solved
  <2> QED
    BY <2>1, <2>2, <2>3
<1> HIDE DEF origin
<1>5. ASSUME NEW u \in DOMAIN plan
      PROVE  /\ plan[u].door \in p.doors /\ plan[u].door.service \in Nat
             /\ plan[u].start \in Nat /\ Ceil(u.ready, origin) <= plan[u].start
             /\ Ceil(u.ready, origin) \in Int
             /\ \A w \in p.busy[plan[u].door] : Apart(Window(plan, u), w)
  <2>1. u \in planned
    BY <1>2, <1>4 DEF IsSolution
  <2>2. /\ plan[u].door \in Feasible(u, p.doors) /\ plan[u].start \in p.ready[u] .. p.horizon
        /\ \A w \in p.busy[plan[u].door] : Apart(Window(plan, u), w)
    BY <1>4, <2>1 DEF IsSolution
  <2>3. plan[u].door \in p.doors
    BY <2>2 DEF Feasible
  <2>4. Ceil(u.ready, origin) \in Int
    BY <1>3, <2>1, RoundingIsOutward
  <2>5. /\ Max({0, Ceil(u.ready, origin)}) \in Nat
        /\ Ceil(u.ready, origin) <= Max({0, Ceil(u.ready, origin)})
    <3>1. \A x \in Int : Max({0, x}) = IF x <= 0 THEN 0 ELSE x
      BY DEF Max
    <3> QED
      BY <2>4, <3>1
  <2>6. p.ready[u] = Max({0, Ceil(u.ready, origin)})
    BY <1>2, <2>1
  <2>7. plan[u].start \in Int /\ p.ready[u] <= plan[u].start
    BY <2>2
  <2>8. plan[u].start \in Nat /\ Ceil(u.ready, origin) <= plan[u].start
    BY <2>4, <2>5, <2>6, <2>7
  <2> QED
    BY <1>2, <1>3, <2>2, <2>3, <2>4, <2>8
<1> DEFINE start(u) == plan[u].start
           end(u) == plan[u].start + plan[u].door.service
<1>6. \A u \in DOMAIN plan : /\ TrueWindow(p, plan, u).start = At(start(u), origin)
                             /\ TrueWindow(p, plan, u).end = At(end(u), origin)
                             /\ Window(plan, u) = <<start(u), end(u)>>
  BY <1>2 DEF TrueWindow, Window
<1>7. \A u \in DOMAIN plan : start(u) \in Nat /\ end(u) \in Nat /\ start(u) <= end(u)
  BY <1>5
<1>8. TrueWindow(p, plan, t).start >= t.ready
  <2>1. t.ready \in Int
    BY <1>2, <1>3, <1>4 DEF IsSolution
  <2>2. /\ t.ready <= At(Ceil(t.ready, origin), origin)
        /\ At(Ceil(t.ready, origin), origin) <= At(start(t), origin)
        /\ At(Ceil(t.ready, origin), origin) \in Int /\ At(start(t), origin) \in Int
    <3>1. t.ready <= At(Ceil(t.ready, origin), origin)
      BY <1>3, <2>1, RoundingIsOutward
    <3>2. Ceil(t.ready, origin) \in Int /\ start(t) \in Int /\ Ceil(t.ready, origin) <= start(t)
      BY <1>5
    <3> HIDE DEF start
    <3> QED
      BY <1>3, <3>1, <3>2, AtMonotone
  <2> QED
    BY <1>6, <2>1, <2>2
<1>9. ASSUME NEW b \in plan[t].door.bookings, b.start < b.end
      PROVE  Disjoint(TrueWindow(p, plan, t), b)
  <2> DEFINE d == plan[t].door
             w == <<Max({0, Floor(b.start, origin)}), Ceil(b.end, origin)>>
  <2>1. /\ d \in p.doors /\ b.start \in Int /\ b.end \in Int /\ origin <= b.start
    BY <1>2, <1>3, <1>5
  <2>2. ASSUME w[2] > 0, w[2] > w[1] PROVE Apart(<<start(t), end(t)>>, w)
    <3>1. w \in Windows(d, p.origin)
      BY <1>2, <2>2 DEF Windows
    <3>2. PICK v \in p.busy[d] : v[1] \in 0 .. w[1] /\ v[2] \in w[2] .. p.horizon
      BY <2>1, <3>1 DEF BlocksWhatIsTaken
    <3>3. Apart(<<start(t), end(t)>>, v)
      BY <1>5, <1>6
    <3>4. w[1] \in Int /\ w[2] \in Int
      <4>1. Floor(b.start, origin) \in Int /\ Ceil(b.end, origin) \in Int
        BY <1>3, <2>1, RoundingIsOutward
      <4>2. \A x \in Int : Max({0, x}) \in Int
        BY DEF Max
      <4> QED
        BY <4>1, <4>2
    <3> HIDE DEF w
    <3> QED
      BY <1>7, <3>2, <3>3, <3>4 DEF Apart
  <2>3. At(end(t), origin) <= b.start \/ b.end <= At(start(t), origin)
    BY <1>3, <1>7, <2>1, <2>2, <1>9, ClearOfABooking
  <2> QED
    BY <1>6, <2>3 DEF Disjoint
<1>10. ASSUME NEW u \in DOMAIN plan \ {t}, plan[u].door = plan[t].door
       PROVE  Disjoint(TrueWindow(p, plan, t), TrueWindow(p, plan, u))
  <2>1. Apart(Window(plan, t), Window(plan, u))
    BY <1>4, <1>10 DEF IsSolution
  <2>2. end(t) <= start(u) \/ end(u) <= start(t)
    BY <1>6, <2>1 DEF Apart
  <2>3. \/ At(end(t), origin) <= At(start(u), origin)
        \/ At(end(u), origin) <= At(start(t), origin)
    BY <1>3, <1>7, <2>2, AtMonotone
  <2> QED
    BY <1>6, <2>3 DEF Disjoint
<1> QED
  BY <1>8, <1>9, <1>10

(* The engine is total: whatever the bookings, overlapping ones too, its   *)
(* first-fit plan solves the model that CP-SAT is given, which is          *)
(* therefore never infeasible.                                             *)
THEOREM EngineNeverFails == DecisionsSpec => []EngineIsTotal
  BY EngineSteps, FirstFitSolves, PTL

(* Merging a door's windows keeps exactly what is taken.                   *)
THEOREM MergingIsExact == DecisionsSpec => []BlocksWhatIsTaken
  BY EngineSteps, MergingKeepsWhatIsTaken, PTL

(* The start named for another door is free and no earlier one is.         *)
THEOREM AlternativesAreHonest == DecisionsSpec => []SlotsAreEarliest
  BY EngineSteps, AlternativesAreEarliest, PTL

(* Rounding costs no safety: whatever CP-SAT returns, or first-fit, the    *)
(* windows are free to the second.                                         *)
THEOREM RoundingIsSafe == DecisionsSpec => []WindowsAreFree
<1>1. EngineInv => WindowsAreFree
  BY FirstFitSolves, MergingKeepsWhatIsTaken, SolutionIsFree
<1> QED
  BY EngineSteps, <1>1, PTL
=============================================================================
