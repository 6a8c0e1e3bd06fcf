--------------------------- MODULE ThreeWayMatch ---------------------------
(***************************************************************************)
(* From goods receipt and invoice to payment: the match worker             *)
(* (backend/services/match_worker/main.py), the procurement API's invoice, *)
(* confirmation, exception and payment endpoints, and the two yard API     *)
(* endpoints that feed them, on one database at READ COMMITTED.            *)
(*                                                                         *)
(* A handler or endpoint is one transaction: it reads, decides, writes and *)
(* commits.  Nothing in this code locks what it has read, so a transaction *)
(* whose write depends on a read is two actions here: the reads, and the   *)
(* writes with the commit.  The worker's reads are one action: the oldest  *)
(* receipt of a PO never changes, and an invoice that arrives between two  *)
(* of its reads might as well arrive after them.                           *)
(*                                                                         *)
(* Events reach the worker as EventDelivery promises: once each, after     *)
(* their transaction commits, in any order.                                *)
(***************************************************************************)
EXTENDS MatchPolicy, SequencesExt

CONSTANTS PO,          \* purchase orders
          NoPO,        \* the po_id of an invoice without one
          Order,       \* PO -> what was ordered: [qty, price]
          FirstStatus, \* the status POs start in: "CREATED" or "CONFIRMED"
          Invoice,     \* invoice ids, in the order invoices arrive
          Bill,        \* what an invoice may say: [qty, price] records
          Lot,         \* quantities a trailer may deliver
          Clerk,       \* people (or the supplier agent) calling the API
          Task,        \* what they ask: "CONFIRM", "APPROVE", "REJECT", "PAY"
          InOrder,     \* TRUE: events are delivered in commit order
          MaxShipments, MaxReceipts, \* bounds, per PO
          MaxFailures  \* bound on failed handler runs

ASSUME ThreeWayMatchAssumption ==
    /\ NoPO \notin PO
    /\ Order \in [PO -> [qty : Int, price : Int]]
    /\ FirstStatus \in {"CREATED", "CONFIRMED"}
    /\ Invoice \subseteq Nat
    /\ Bill \subseteq [qty : Int, price : Int]
    /\ Lot \subseteq Int
    /\ IsFiniteSet(Clerk)
    /\ Task \subseteq {"CONFIRM", "APPROVE", "REJECT", "PAY"}
    /\ InOrder \in BOOLEAN
    /\ MaxShipments \in Nat /\ MaxReceipts \in Nat /\ MaxFailures \in Nat

VARIABLES
  po,        \* purchase_orders.status
  shipments, \* PO -> how many shipments it has
  receipts,  \* PO -> goods_receipts.qty_received, oldest first
  invoices,  \* invoice -> its row, or NoInvoice before it arrives
  matches,   \* invoice -> its match_results rows, each with its exception
  payments,  \* invoice -> its payments rows
  inbox,     \* committed events the worker has not handled, oldest first
  job,       \* the transaction the worker has open, or NoJob
  desk,      \* clerk -> the API request whose checks have passed, or NoRequest
  failures   \* handler runs that failed so far

yardVars == <<shipments, receipts>>
billingVars == <<matches, payments>>
vars == <<po, yardVars, invoices, billingVars, inbox, job, desk, failures>>

Status == {"CREATED", "CONFIRMED", "SHIPPED", "PARTIALLY_RECEIVED", "RECEIVED",
           "MATCHED", "CLOSED"}
InvoiceRow == [po : PO \cup {NoPO}, arrived : {TRUE}, bill : Bill]
NoInvoice == [po |-> NoPO, arrived |-> FALSE]
Arrived(i) == invoices[i].arrived
BilledTo(p) == {i \in Invoice : Arrived(i) /\ invoices[i].po = p}
Event == [type : {"SHIPMENT_CREATED", "GOODS_RECEIVED"}, po : PO]
            \cup [type : {"INVOICE_RECEIVED"}, po : PO \cup {NoPO}, invoice : Invoice]
MatchResult == [verdict : Verdict,
                exception : {"NONE", "OPEN", "APPROVED", "REJECTED"}]
Payment == [by : {"SYSTEM", "CLERK"}, status : {"APPROVED", "PAID"}]
ApiRequest == [task : {"CONFIRM"}, target : PO]
               \cup [task : {"APPROVE", "REJECT", "PAY"}, target : Invoice \X Nat]
OpenJob == [open : {TRUE}, event : Nat, po : PO \cup {NoPO}, seen : Status,
            sets : BOOLEAN, lines : SUBSET Invoice]
NoJob == [open |-> FALSE]
NoRequest == [task |-> "NONE"]

Init ==
    /\ po = [p \in PO |-> FirstStatus]
    /\ shipments = [p \in PO |-> 0]
    /\ receipts = [p \in PO |-> <<>>]
    /\ invoices = [i \in Invoice |-> NoInvoice]
    /\ matches = [i \in Invoice |-> <<>>]
    /\ payments = [i \in Invoice |-> <<>>]
    /\ inbox = <<>>
    /\ job = NoJob
    /\ desk = [c \in Clerk |-> NoRequest]
    /\ failures = 0

-----------------------------------------------------------------------------
(* The yard and the suppliers.                                             *)

(* POST /shipments: for any PO there is, whatever its status.              *)
CreateShipment(p) ==
    /\ shipments[p] < MaxShipments
    /\ shipments' = [shipments EXCEPT ![p] = @ + 1]
    /\ inbox' = Append(inbox, [type |-> "SHIPMENT_CREATED", po |-> p])
    /\ UNCHANGED <<po, receipts, invoices, billingVars, job, desk, failures>>

(* POST /trailers/{id}/unload: a goods receipt per trailer of a shipment.  *)
Unload(p, quantity) ==
    /\ shipments[p] > 0
    /\ Len(receipts[p]) < MaxReceipts
    /\ receipts' = [receipts EXCEPT ![p] = Append(@, quantity)]
    /\ inbox' = Append(inbox, [type |-> "GOODS_RECEIVED", po |-> p])
    /\ UNCHANGED <<po, shipments, invoices, billingVars, job, desk, failures>>

(* POST /invoices and /invoices/ocr: any time after the PO, even before    *)
(* the goods; a document that names no known PO gives an invoice without.  *)
CreateInvoice(i, p, bill) ==
    /\ ~Arrived(i)
    /\ \A j \in Invoice : j < i => Arrived(j)
    /\ invoices' = [invoices EXCEPT ![i] = [po |-> p, arrived |-> TRUE, bill |-> bill]]
    /\ inbox' = Append(inbox, [type |-> "INVOICE_RECEIVED", po |-> p, invoice |-> i])
    /\ UNCHANGED <<po, yardVars, billingVars, job, desk, failures>>

-----------------------------------------------------------------------------
(* The match worker.                                                       *)

(* Mutant of Deliverable: events are handled while a handler is running.   *)
DeliverableAnytime(k) == k \in 1 .. Len(inbox) /\ (InOrder => k = 1)

Deliverable(k) == ~job.open /\ k \in 1 .. Len(inbox) /\ (InOrder => k = 1)

(* SHIPMENT_CREATED: one UPDATE, unless the PO already is SHIPPED.         *)
HandleShipment(k) ==
    /\ Deliverable(k)
    /\ inbox[k].type = "SHIPMENT_CREATED"
    /\ po' = [po EXCEPT ![inbox[k].po] = "SHIPPED"]
    /\ inbox' = RemoveAt(inbox, k)
    /\ UNCHANGED <<yardVars, invoices, billingVars, job, desk, failures>>

(* All receipts of the PO against its quantity.                            *)
ReceivedStatus(p) ==
    IF SumFunction(receipts[p]) >= Order[p].qty THEN "RECEIVED"
                                                ELSE "PARTIALLY_RECEIVED"

(* Mutant of Unmatched: an invoice that has been matched is matched again. *)
MatchedOrNot(p) == {i \in BilledTo(p) : receipts[p] # <<>>}

(* _try_match's invoices: of this PO, without a match result, and only     *)
(* once there is a goods receipt.                                          *)
Unmatched(p) == {i \in BilledTo(p) : matches[i] = <<>> /\ receipts[p] # <<>>}

(* GOODS_RECEIVED: the status is updated first, which locks the PO's row   *)
(* if it changes anything, and the match sees the new status.              *)
BeginReceipt(k) ==
    LET p == inbox[k].po
    IN  /\ Deliverable(k)
        /\ inbox[k].type = "GOODS_RECEIVED"
        /\ job' = [open |-> TRUE, event |-> k, po |-> p, seen |-> ReceivedStatus(p),
                   sets |-> ReceivedStatus(p) # po[p], lines |-> Unmatched(p)]
        /\ UNCHANGED <<po, yardVars, invoices, billingVars, inbox, desk, failures>>

(* INVOICE_RECEIVED with a PO.                                             *)
BeginInvoice(k) ==
    LET p == inbox[k].po
    IN  /\ Deliverable(k)
        /\ inbox[k].type = "INVOICE_RECEIVED"
        /\ p # NoPO
        /\ job' = [open |-> TRUE, event |-> k, po |-> p, seen |-> po[p],
                   sets |-> FALSE, lines |-> Unmatched(p)]
        /\ UNCHANGED <<po, yardVars, invoices, billingVars, inbox, desk, failures>>

(* _match_invoice_without_po: this invoice alone, if it is unmatched.      *)
BeginInvoiceWithoutPO(k) ==
    /\ Deliverable(k)
    /\ inbox[k].type = "INVOICE_RECEIVED"
    /\ inbox[k].po = NoPO
    /\ job' = [open |-> TRUE, event |-> k, po |-> NoPO, seen |-> "CREATED",
               sets |-> FALSE,
               lines |-> {i \in {inbox[k].invoice} : matches[i] = <<>>}]
    /\ UNCHANGED <<po, yardVars, invoices, billingVars, inbox, desk, failures>>

(* evaluate() of invoice i in the open job, for a PO seen as status.  The  *)
(* receipt is the PO's oldest, whatever arrived since.                     *)
Judge(i, status) ==
    IF job.po = NoPO THEN "MISSING_PO"
    ELSE Evaluate(TRUE, status, Order[job.po], receipts[job.po][1],
                  invoices[i].bill)

(* Mutant of JobVerdict: the loop keeps using the status it read.          *)
JobVerdictStale(i) == Judge(i, job.seen)

(* In the loop over the invoices, an approval makes the status MATCHED for *)
(* the invoices after it.                                                  *)
JobVerdict(i) ==
    IF \E j \in job.lines : j < i /\ Judge(j, job.seen) = "APPROVED"
    THEN Judge(i, "MATCHED")
    ELSE Judge(i, job.seen)

JobApproves == \E i \in job.lines : JobVerdict(i) = "APPROVED"

MatchRow(verdict) ==
    [verdict |-> verdict, exception |-> IF verdict = "APPROVED" THEN "NONE" ELSE "OPEN"]

SystemPayment == [by |-> "SYSTEM", status |-> "APPROVED"]

(* The loop's rows: a match result for each invoice and either an approved *)
(* payment or an open exception.                                           *)
WriteMatches ==
    /\ matches' = [i \in Invoice |->
          IF i \in job.lines THEN Append(matches[i], MatchRow(JobVerdict(i)))
                             ELSE matches[i]]
    /\ payments' = [i \in Invoice |->
          IF i \in job.lines /\ JobVerdict(i) = "APPROVED"
          THEN Append(payments[i], SystemPayment) ELSE payments[i]]

(* The writes of the handler and the commit, which consume() owns: the     *)
(* event is handled in the same transaction.                               *)
CommitJob ==
    /\ job.open
    /\ WriteMatches
    /\ po' = IF JobApproves THEN [po EXCEPT ![job.po] = "MATCHED"]
             ELSE IF job.sets THEN [po EXCEPT ![job.po] = job.seen]
             ELSE po
    /\ inbox' = RemoveAt(inbox, job.event)
    /\ job' = NoJob
    /\ UNCHANGED <<yardVars, invoices, desk, failures>>

(* Mutant of FailJob: the event is acknowledged all the same.              *)
FailJobAcked ==
    /\ job.open
    /\ failures < MaxFailures
    /\ failures' = failures + 1
    /\ inbox' = RemoveAt(inbox, job.event)
    /\ job' = NoJob
    /\ UNCHANGED <<po, yardVars, invoices, billingVars, desk>>

(* The handler raises or the worker dies: everything rolls back, and the   *)
(* bus delivers the event again.                                           *)
FailJob ==
    /\ job.open
    /\ failures < MaxFailures
    /\ failures' = failures + 1
    /\ job' = NoJob
    /\ UNCHANGED <<po, yardVars, invoices, billingVars, inbox, desk>>

-----------------------------------------------------------------------------
(* The procurement API.  The first action of a request is its reads and    *)
(* checks, the second its writes and commit, unconditional by then.        *)

Ask(c, task, target) ==
    /\ task \in Task
    /\ desk[c] = NoRequest
    /\ desk' = [desk EXCEPT ![c] = [task |-> task, target |-> target]]
    /\ UNCHANGED <<po, yardVars, invoices, billingVars, inbox, job, failures>>

AskConfirm(c, p) == po[p] = "CREATED" /\ Ask(c, "CONFIRM", p)

(* Mutant of AskResolve: an exception that was ruled on is ruled on again. *)
AskResolveAgain(c, i, n) ==
    /\ matches[i][n].exception # "NONE"
    /\ \E ruling \in {"APPROVE", "REJECT"} : Ask(c, ruling, <<i, n>>)

(* Resolving the exception of match result n of invoice i.                 *)
AskResolve(c, i, n) ==
    /\ matches[i][n].exception = "OPEN"
    /\ \E ruling \in {"APPROVE", "REJECT"} : Ask(c, ruling, <<i, n>>)

AskPay(c, i, n) ==
    /\ payments[i][n].status = "APPROVED"
    /\ Ask(c, "PAY", <<i, n>>)

(* The worker's open transaction holds the lock of this PO's row.          *)
Locked(p) == job.open /\ job.sets /\ job.po = p

(* UPDATE purchase_orders of the PO of an invoice, if it has one.          *)
SetOrderOf(i, status) ==
    LET p == invoices[i].po
    IN  IF p = NoPO THEN UNCHANGED po
        ELSE ~Locked(p) /\ po' = [po EXCEPT ![p] = status]

Answer(c, task) == desk[c].task = task /\ desk' = [desk EXCEPT ![c] = NoRequest]

Confirm(c) ==
    /\ Answer(c, "CONFIRM")
    /\ ~Locked(desk[c].target)
    /\ po' = [po EXCEPT ![desk[c].target] = "CONFIRMED"]
    /\ UNCHANGED <<yardVars, invoices, billingVars, inbox, job, failures>>

(* The override: a payment, and the PO MATCHED whatever it was.            *)
Approve(c) ==
    LET i == desk[c].target[1]
        n == desk[c].target[2]
    IN  /\ Answer(c, "APPROVE")
        /\ matches' = [matches EXCEPT ![i][n].exception = "APPROVED"]
        /\ payments' = [payments EXCEPT ![i] =
              Append(@, [by |-> "CLERK", status |-> "APPROVED"])]
        /\ SetOrderOf(i, "MATCHED")
        /\ UNCHANGED <<yardVars, invoices, inbox, job, failures>>

Reject(c) ==
    LET i == desk[c].target[1]
        n == desk[c].target[2]
    IN  /\ Answer(c, "REJECT")
        /\ matches' = [matches EXCEPT ![i][n].exception = "REJECTED"]
        /\ UNCHANGED <<po, yardVars, invoices, payments, inbox, job, failures>>

(* The payment is PAID, and its PO CLOSED whatever it was.                 *)
Pay(c) ==
    LET i == desk[c].target[1]
        n == desk[c].target[2]
    IN  /\ Answer(c, "PAY")
        /\ payments' = [payments EXCEPT ![i][n].status = "PAID"]
        /\ SetOrderOf(i, "CLOSED")
        /\ UNCHANGED <<yardVars, invoices, matches, inbox, job, failures>>

-----------------------------------------------------------------------------
Worker ==
    \/ \E k \in 1 .. Len(inbox) :
          HandleShipment(k) \/ BeginReceipt(k) \/ BeginInvoice(k)
             \/ BeginInvoiceWithoutPO(k)
    \/ CommitJob

Procurement(c) ==
    \/ \E p \in PO : AskConfirm(c, p)
    \/ \E i \in Invoice : \E n \in DOMAIN matches[i] : AskResolve(c, i, n)
    \/ \E i \in Invoice : \E n \in DOMAIN payments[i] : AskPay(c, i, n)
    \/ Confirm(c) \/ Approve(c) \/ Reject(c) \/ Pay(c)

Environment ==
    \/ \E p \in PO : CreateShipment(p)
    \/ \E p \in PO, quantity \in Lot : Unload(p, quantity)
    \/ \E i \in Invoice, p \in PO \cup {NoPO}, bill \in Bill :
          CreateInvoice(i, p, bill)

Next ==
    \/ Environment
    \/ Worker
    \/ FailJob
    \/ \E c \in Clerk : Procurement(c)

Spec == Init /\ [][Next]_vars

(* consume() keeps delivering (EventBus: EveryEventHandled) and a handler  *)
(* that does not fail commits.  Nobody has to ship, bill, resolve or pay.  *)
FairSpec == Spec /\ WF_vars(Worker)

-----------------------------------------------------------------------------
(* The type invariant.  An open job handles an event that is still in the  *)
(* inbox, and only invoices that arrived have matches or payments.         *)
TypeOK ==
    /\ po \in [PO -> Status]
    /\ shipments \in [PO -> 0 .. MaxShipments]
    /\ receipts \in [PO -> Seq(Lot)]
    /\ \A p \in PO : Len(receipts[p]) <= MaxReceipts
    /\ invoices \in [Invoice -> InvoiceRow \cup {NoInvoice}]
    /\ matches \in [Invoice -> Seq(MatchResult)]
    /\ payments \in [Invoice -> Seq(Payment)]
    /\ \A i \in Invoice : ~Arrived(i) => matches[i] = <<>> /\ payments[i] = <<>>
    /\ inbox \in Seq(Event)
    /\ job \in OpenJob \cup {NoJob}
    /\ job.open => job.event \in 1 .. Len(inbox) /\ job.lines \subseteq BilledTo(job.po)
    /\ desk \in [Clerk -> ApiRequest \cup {NoRequest}]
    /\ failures \in 0 .. MaxFailures

(* An invoice has at most one match result, however often and in whatever  *)
(* order its triggers arrive, fail and are delivered again                 *)
(* (schema.sql:592-595, match_worker/main.py:114-127).                     *)
OneMatchPerInvoice == \A i \in Invoice : Len(matches[i]) <= 1

(* No pairing is lost: while an invoice with goods to match it against, or *)
(* without a PO, has no verdict, an event that will give it one is still   *)
(* to be handled - whichever of goods and invoice came last, and also when *)
(* it arrived after the open job had read (match_worker/main.py:96-127).   *)
Triggers(k, i) ==
    /\ inbox[k].type \in {"GOODS_RECEIVED", "INVOICE_RECEIVED"}
    /\ inbox[k].po = invoices[i].po
    /\ inbox[k].po = NoPO => inbox[k].invoice = i

Matchable(i) ==
    Arrived(i) /\ (invoices[i].po # NoPO => receipts[invoices[i].po] # <<>>)

NoLostPairing ==
    \A i \in Invoice : Matchable(i) /\ matches[i] = <<>> =>
        \E k \in 1 .. Len(inbox) :
            Triggers(k, i) /\ (job.open /\ job.event = k => i \in job.lines)

(* Money follows decisions.  An invoice has one SYSTEM payment for a       *)
(* verdict APPROVED and otherwise none.  A clerk's payment exists only     *)
(* after a ruling on the exception, and does exist while that is ruled     *)
(* APPROVED.  The endpoint does not lock the exception it has found OPEN,  *)
(* so clerks that found it open together all rule: never more payments and *)
(* rejections than clerks, hence with one clerk exactly one payment for an *)
(* approval and none beside a rejection                                    *)
(* (match_worker/main.py:177-199, procurement_api/main.py:846-877).        *)
PaidBy(i, who) == {n \in DOMAIN payments[i] : payments[i][n].by = who}
Approvals(i) == {n \in DOMAIN matches[i] : matches[i][n].verdict = "APPROVED"}
Ruled(i, ruling) == {n \in DOMAIN matches[i] : matches[i][n].exception = ruling}

PaymentFollowsRuling ==
    \A i \in Invoice :
        /\ Cardinality(PaidBy(i, "SYSTEM")) = Cardinality(Approvals(i))
        /\ PaidBy(i, "CLERK") # {} =>
              Ruled(i, "APPROVED") \cup Ruled(i, "REJECTED") # {}
        /\ Ruled(i, "APPROVED") # {} => PaidBy(i, "CLERK") # {}
        /\ Cardinality(PaidBy(i, "CLERK")) + Cardinality(Ruled(i, "REJECTED"))
             <= Cardinality(Clerk)

(* The payments nobody decided on, of all invoices of a PO.                *)
Touchless(p) ==
    UNION {{<<i, n>> : n \in PaidBy(i, "SYSTEM")} : i \in BilledTo(p)}

Handled(p) ==
    shipments[p] + Len(receipts[p])
       - Cardinality({k \in 1 .. Len(inbox) :
            inbox[k].po = p /\ inbox[k].type # "INVOICE_RECEIVED"})

(* Only the yard's events re-open a settled PO.  It is paid touchlessly at *)
(* most once from its creation on, and at most once more for each shipment *)
(* or receipt the worker has been told of since: retries, late invoices,   *)
(* several invoices in one job and overrides add nothing                   *)
(* (match_policy.py:113-123, match_worker/main.py:186, 296-299).           *)
OnePaymentPerOpening ==
    \A p \in PO :
        Cardinality(Touchless(p)) + (IF po[p] \in Settled THEN 0 ELSE 1)
           <= 1 + Handled(p)

(* "Prevents paying the same PO twice" (match_policy.py:113): a PO that is *)
(* delivered once is paid touchlessly once, whatever invoices come in.     *)
TouchlessPaysOnce == \A p \in PO : Cardinality(Touchless(p)) <= 1

(* Every invoice that can be matched is, through failed handlers and       *)
(* whatever the clerks do (match_worker/main.py:212-216).                  *)
EventuallyMatched ==
    \A i \in Invoice : Matchable(i) ~> (matches[i] # <<>>)
=============================================================================
