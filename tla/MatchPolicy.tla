---------------------------- MODULE MatchPolicy ----------------------------
(***************************************************************************)
(* backend/shared/match_policy.py: the deterministic 3-way match.  The     *)
(* decision is kept as its verdict: "APPROVED", or the exception's type.   *)
(* Reason, severity and the audit trail of checks restate the verdict and  *)
(* the inputs; the impact amount ranks exceptions and decides nothing.     *)
(*                                                                         *)
(* Quantities and prices are integers (of the smallest unit the columns    *)
(* hold), so a division by x compared with p% is a product compared with   *)
(* p * x, exactly as with the Decimals of the code.                        *)
(***************************************************************************)
EXTENDS Integers

QtyTolerance == 2    \* per cent, of the quantity received
PriceTolerance == 3  \* per cent, of the PO's unit price

Settled == {"MATCHED", "CLOSED"}
Mismatch == {"QTY_MISMATCH", "PRICE_MISMATCH", "MISSING_PO",
             "DUPLICATE_INVOICE", "OTHER"}
Verdict == {"APPROVED"} \cup Mismatch

AbsDiff(a, b) == IF a >= b THEN a - b ELSE b - a

(* abs(value - base) / base > tolerance, for a positive base.              *)
Exceeds(value, base, tolerance) == 100 * AbsDiff(value, base) > tolerance * base

(* Mutant of Evaluate: quantity is compared with what was ordered.         *)
EvaluateAgainstOrder(hasPO, status, po, received, bill) ==
    IF ~hasPO THEN "MISSING_PO"
    ELSE IF status \in Settled THEN "DUPLICATE_INVOICE"
    ELSE IF received <= 0 \/ po.price <= 0 THEN "OTHER"
    ELSE IF Exceeds(bill.qty, po.qty, QtyTolerance) THEN "QTY_MISMATCH"
    ELSE IF Exceeds(bill.price, po.price, PriceTolerance) THEN "PRICE_MISMATCH"
    ELSE "APPROVED"

(* Mutant of Evaluate: the divisions are not guarded against a zero or     *)
(* negative base.                                                          *)
EvaluateUnguarded(hasPO, status, po, received, bill) ==
    IF ~hasPO THEN "MISSING_PO"
    ELSE IF status \in Settled THEN "DUPLICATE_INVOICE"
    ELSE IF Exceeds(bill.qty, received, QtyTolerance) THEN "QTY_MISMATCH"
    ELSE IF Exceeds(bill.price, po.price, PriceTolerance) THEN "PRICE_MISMATCH"
    ELSE "APPROVED"

(* The locked sequence of steps: the first that fails gives the verdict.   *)
(* hasPO: the invoice references a PO; status and po: that PO's; received: *)
(* the goods receipt's quantity; bill: the invoice's quantity and price.   *)
Evaluate(hasPO, status, po, received, bill) ==
    IF ~hasPO THEN "MISSING_PO"
    ELSE IF status \in Settled THEN "DUPLICATE_INVOICE"
    ELSE IF received <= 0 \/ po.price <= 0 THEN "OTHER"
    ELSE IF Exceeds(bill.qty, received, QtyTolerance) THEN "QTY_MISMATCH"
    ELSE IF Exceeds(bill.price, po.price, PriceTolerance) THEN "PRICE_MISMATCH"
    ELSE "APPROVED"
=============================================================================
