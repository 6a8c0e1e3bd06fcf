---------------------------- MODULE PolicyCheck ----------------------------
(***************************************************************************)
(* Every question of a bounded set is put to the policy, and the answer    *)
(* compared with what docs/3WAY_MATCH_POLICY.md and the module's comments  *)
(* say of the pay/don't-pay decision.                                      *)
(***************************************************************************)
EXTENDS MatchPolicy

CONSTANTS Quantity,  \* quantities received, ordered and invoiced
          Price,     \* unit prices of POs and invoices
          Status     \* PO statuses

ASSUME PolicyCheckAssumption == Quantity \subseteq Int /\ Price \subseteq Int

Line == [qty : Quantity, price : Price]
Question == [hasPO : BOOLEAN, status : Status, po : Line, received : Quantity,
             bill : Line]

VARIABLES question, verdict
policyVars == <<question, verdict>>

Init == question \in Question /\ verdict = "none"

(* match_worker calls evaluate() once per invoice.                         *)
Decide ==
    /\ verdict = "none"
    /\ verdict' = Evaluate(question.hasPO, question.status, question.po,
                           question.received, question.bill)
    /\ UNCHANGED question

Next == Decide

Spec == Init /\ [][Next]_policyVars

-----------------------------------------------------------------------------
(* An approved invoice bills goods that arrived, for a PO nobody paid yet, *)
(* within 2% of the quantity received and 3% of the price agreed: the      *)
(* company never approves more than 1.02 * 1.03 of the agreed value of     *)
(* what it received (match_policy.py:18-22, 88-91).                        *)
ApprovalBoundsExposure ==
    verdict = "APPROVED" =>
        /\ question.hasPO /\ question.status \notin Settled
        /\ question.received > 0 /\ question.po.price > 0
        /\ 10000 * question.bill.qty * question.bill.price
              <= 102 * 103 * question.received * question.po.price

(* What was ordered plays no part in the verdict: the receipt confirms     *)
(* physical reality, the invoice bills against that (match_policy.py:88).  *)
OrderedQuantityIsIrrelevant ==
    verdict # "none" =>
        \A q \in Quantity :
            verdict = Evaluate(question.hasPO, question.status,
                               [question.po EXCEPT !.qty = q],
                               question.received, question.bill)

(* A mismatch is only ever reported against a base it can be measured by,  *)
(* and each exception type has exactly the cause that step names, however  *)
(* many other checks would fail as well (the order of the steps is "part   *)
(* of the contract", match_policy.py:83-86).                               *)
FirstFailureWins ==
    LET measurable == question.received > 0 /\ question.po.price > 0
        qtyOff == \/ 100 * question.bill.qty > 102 * question.received
                  \/ 100 * question.bill.qty < 98 * question.received
        priceOff == \/ 100 * question.bill.price > 103 * question.po.price
                    \/ 100 * question.bill.price < 97 * question.po.price
        open == question.hasPO /\ question.status \notin Settled
    IN  verdict # "none" =>
          /\ verdict = "MISSING_PO" <=> ~question.hasPO
          /\ verdict = "DUPLICATE_INVOICE" <=>
                question.hasPO /\ question.status \in Settled
          /\ verdict = "OTHER" <=> open /\ ~measurable
          /\ verdict = "QTY_MISMATCH" <=> open /\ measurable /\ qtyOff
          /\ verdict = "PRICE_MISMATCH" <=>
                open /\ measurable /\ ~qtyOff /\ priceOff
=============================================================================
