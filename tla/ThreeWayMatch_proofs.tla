------------------------ MODULE ThreeWayMatch_proofs ------------------------
(***************************************************************************)
(* Proofs about ThreeWayMatch, for every set of orders, invoices, clerks   *)
(* and requests, every order of delivery and every bound.                  *)
(***************************************************************************)
EXTENDS ThreeWayMatch, SequenceTheorems, FunctionTheorems, FiniteSetTheorems, TLAPS

(* An invoice's event tells the truth about it.                            *)
EventsAreTrue ==
    \A k \in 1 .. Len(inbox) : inbox[k].type = "INVOICE_RECEIVED" =>
        Arrived(inbox[k].invoice) /\ invoices[inbox[k].invoice].po = inbox[k].po

(* The match result or payment of a request that passed its checks is      *)
(* still there when the request writes.                                    *)
RequestsStand ==
    \A c \in Clerk :
        /\ desk[c].task \in {"APPROVE", "REJECT"} =>
              desk[c].target[2] \in DOMAIN matches[desk[c].target[1]]
        /\ desk[c].task = "PAY" =>
              desk[c].target[2] \in DOMAIN payments[desk[c].target[1]]

(* What the open job is about to match has no match result meanwhile.      *)
LinesAreUnmatched == job.open => \A i \in job.lines : matches[i] = <<>>

IInv ==
    /\ TypeOK
    /\ EventsAreTrue
    /\ RequestsStand
    /\ LinesAreUnmatched
    /\ OneMatchPerInvoice
    /\ NoLostPairing

-----------------------------------------------------------------------------
(* Removing an entry of a sequence.                                        *)
LEMMA RemoveEntry ==
    ASSUME NEW S, NEW s \in Seq(S), NEW k \in 1 .. Len(s)
    PROVE  /\ RemoveAt(s, k) \in Seq(S)
           /\ Len(RemoveAt(s, k)) = Len(s) - 1
           /\ \A j \in 1 .. Len(s) - 1 :
                 RemoveAt(s, k)[j] = IF j < k THEN s[j] ELSE s[j + 1]
<1> DEFINE a == SubSeq(s, 1, k - 1)
           b == SubSeq(s, k + 1, Len(s))
<1>1. Len(s) \in Nat
  OBVIOUS
<1>2. a \in Seq(S) /\ Len(a) = k - 1 /\ \A j \in 1 .. k - 1 : a[j] = s[j]
  BY <1>1
<1>3. b \in Seq(S) /\ Len(b) = Len(s) - k /\ \A j \in 1 .. Len(s) - k : b[j] = s[k + j]
  <2>1. \A j \in k + 1 .. Len(s) : s[j] \in S
    BY <1>1
  <2> QED
    BY <1>1, <2>1, SubSeqProperties
<1> HIDE DEF a, b
<1>4. /\ a \o b \in Seq(S) /\ Len(a \o b) = Len(a) + Len(b)
      /\ \A j \in 1 .. Len(a) + Len(b) :
            (a \o b)[j] = IF j <= Len(a) THEN a[j] ELSE b[j - Len(a)]
  BY <1>2, <1>3, ConcatProperties
<1>5. RemoveAt(s, k) = a \o b
  BY DEF RemoveAt, a, b
<1>6. ASSUME NEW j \in 1 .. Len(s) - 1
      PROVE  (a \o b)[j] = IF j < k THEN s[j] ELSE s[j + 1]
  <2>1. CASE j < k
    BY <1>1, <1>2, <1>3, <1>4, <2>1
  <2>2. CASE ~(j < k)
    <3>1. j - (k - 1) \in 1 .. Len(s) - k /\ k + (j - (k - 1)) = j + 1
      BY <1>1, <2>2
    <3>2. (a \o b)[j] = b[j - (k - 1)]
      BY <1>1, <1>2, <1>3, <1>4, <2>2
    <3> QED
      BY <1>3, <2>2, <3>1, <3>2
  <2> QED
    BY <2>1, <2>2
<1> QED
  BY <1>1, <1>2, <1>3, <1>4, <1>5, <1>6

(* Appending an entry to a sequence.                                       *)
LEMMA AppendEntry ==
    ASSUME NEW S, NEW s \in Seq(S), NEW e \in S
    PROVE  /\ Append(s, e) \in Seq(S) /\ Len(Append(s, e)) = Len(s) + 1
           /\ Len(s) \in Nat
           /\ \A k \in 1 .. Len(s) : Append(s, e)[k] = s[k]
           /\ Append(s, e)[Len(s) + 1] = e
  OBVIOUS

(* Any other decision of the policy is one of the exceptions.              *)
LEMMA JudgeIsVerdict == ASSUME NEW i, NEW status PROVE Judge(i, status) \in Verdict
  BY DEF Judge, Evaluate, Verdict, Mismatch

-----------------------------------------------------------------------------
(* Type correctness.                                                       *)
JobIsCurrent ==
    job.open => job.event \in 1 .. Len(inbox) /\ job.lines \subseteq BilledTo(job.po)

LEMMA TypeInit == Init => TypeOK
  BY ThreeWayMatchAssumption DEF Init, TypeOK, Status, NoInvoice, NoJob, Arrived

(* The yard and the suppliers.                                             *)
LEMMA TypeEnvironment == ASSUME TypeOK, Environment PROVE TypeOK'
<1>1. ASSUME NEW p \in PO, CreateShipment(p) PROVE TypeOK'
  <2> DEFINE e == [type |-> "SHIPMENT_CREATED", po |-> p]
  <2>1. e \in Event
    BY DEF Event
  <2>2. /\ inbox' \in Seq(Event) /\ Len(inbox') = Len(inbox) + 1 /\ Len(inbox) \in Nat
    BY <1>1, <2>1, AppendEntry DEF CreateShipment, TypeOK
  <2>3. shipments' \in [PO -> 0 .. MaxShipments]
    BY <1>1, ThreeWayMatchAssumption DEF CreateShipment, TypeOK
  <2>4. JobIsCurrent'
    BY <1>1, <2>2 DEF CreateShipment, TypeOK, BilledTo, Arrived, JobIsCurrent
  <2> QED
    BY <1>1, <2>2, <2>3, <2>4 DEF CreateShipment, TypeOK, billingVars, Arrived, JobIsCurrent
<1>2. ASSUME NEW p \in PO, NEW quantity \in Lot, Unload(p, quantity) PROVE TypeOK'
  <2> DEFINE e == [type |-> "GOODS_RECEIVED", po |-> p]
  <2>1. e \in Event
    BY DEF Event
  <2>2. /\ inbox' \in Seq(Event) /\ Len(inbox') = Len(inbox) + 1 /\ Len(inbox) \in Nat
    BY <1>2, <2>1, AppendEntry DEF Unload, TypeOK
  <2>3. ASSUME NEW q \in PO
        PROVE  receipts'[q] \in Seq(Lot) /\ Len(receipts'[q]) <= MaxReceipts
    <3>1. receipts[q] \in Seq(Lot) /\ Len(receipts[q]) \in Nat
      BY DEF TypeOK
    <3>2. CASE q = p
      BY <1>2, <3>1, <3>2, AppendEntry, ThreeWayMatchAssumption DEF Unload, TypeOK
    <3>3. CASE q # p
      BY <1>2, <3>3 DEF Unload, TypeOK
    <3> QED
      BY <3>2, <3>3
  <2>4. receipts' \in [PO -> Seq(Lot)]
    BY <1>2, <2>3 DEF Unload, TypeOK
  <2>5. JobIsCurrent'
    BY <1>2, <2>2 DEF Unload, TypeOK, BilledTo, Arrived, JobIsCurrent
  <2> QED
    BY <1>2, <2>2, <2>3, <2>4, <2>5 DEF Unload, TypeOK, billingVars, Arrived, JobIsCurrent
<1>3. ASSUME NEW i \in Invoice, NEW p \in PO \cup {NoPO}, NEW bill \in Bill,
             CreateInvoice(i, p, bill)
      PROVE  TypeOK'
  <2> DEFINE e == [type |-> "INVOICE_RECEIVED", po |-> p, invoice |-> i]
  <2>1. e \in Event
    BY DEF Event
  <2>2. /\ inbox' \in Seq(Event) /\ Len(inbox') = Len(inbox) + 1 /\ Len(inbox) \in Nat
    BY <1>3, <2>1, AppendEntry DEF CreateInvoice, TypeOK
  <2>3. /\ invoices' = [invoices EXCEPT ![i] = [po |-> p, arrived |-> TRUE, bill |-> bill]]
        /\ UNCHANGED <<po, yardVars, billingVars, job, desk, failures>>
    BY <1>3 DEF CreateInvoice
  <2>4. /\ invoices' \in [Invoice -> InvoiceRow \cup {NoInvoice}]
        /\ \A j \in Invoice : Arrived(j) => Arrived(j)' /\ invoices'[j] = invoices[j]
    <3>1. [po |-> p, arrived |-> TRUE, bill |-> bill] \in InvoiceRow
      BY DEF InvoiceRow
    <3>2. invoices' \in [Invoice -> InvoiceRow \cup {NoInvoice}]
      BY <2>3, <3>1 DEF TypeOK
    <3>3. ~Arrived(i) /\ \A j \in Invoice \ {i} : invoices'[j] = invoices[j]
      BY <1>3, <2>3 DEF TypeOK, CreateInvoice
    <3> QED
      BY <3>2, <3>3 DEF Arrived
  <2>5. JobIsCurrent'
    BY <2>2, <2>3, <2>4 DEF TypeOK, BilledTo, JobIsCurrent
  <2> QED
    BY <2>2, <2>3, <2>4, <2>5 DEF TypeOK, billingVars, yardVars, JobIsCurrent
<1> QED
  BY <1>1, <1>2, <1>3 DEF Environment

(* The match worker.                                                       *)
LEMMA HandledEvent ==
    ASSUME TypeOK, NEW k \in 1 .. Len(inbox)
    PROVE  /\ inbox[k] \in Event /\ Len(inbox) \in Nat
           /\ inbox[k].type # "INVOICE_RECEIVED" => inbox[k].po \in PO
           /\ inbox[k].po \in PO \cup {NoPO}
           /\ inbox[k].type = "INVOICE_RECEIVED" => inbox[k].invoice \in Invoice
<1>1. inbox[k] \in Event /\ Len(inbox) \in Nat
  BY DEF TypeOK
<1> QED
  BY <1>1 DEF Event

LEMMA TypeBegin ==
    ASSUME TypeOK, EventsAreTrue, NEW k \in 1 .. Len(inbox),
           BeginReceipt(k) \/ BeginInvoice(k) \/ BeginInvoiceWithoutPO(k)
    PROVE  /\ TypeOK'
           /\ UNCHANGED <<po, yardVars, invoices, billingVars, inbox, desk, failures>>
           /\ job'.open /\ job'.event = k
           /\ \A i \in job'.lines : matches[i] = <<>>
           /\ inbox[k].type \in {"GOODS_RECEIVED", "INVOICE_RECEIVED"}
           /\ inbox[k].po # NoPO => job'.lines = Unmatched(inbox[k].po)
           /\ inbox[k].po = NoPO => /\ inbox[k].type = "INVOICE_RECEIVED"
                                    /\ matches[inbox[k].invoice] = <<>> =>
                                          inbox[k].invoice \in job'.lines
<1> DEFINE e == inbox[k]
<1>1. UNCHANGED <<po, yardVars, invoices, billingVars, inbox, desk, failures>>
  BY DEF BeginReceipt, BeginInvoice, BeginInvoiceWithoutPO
<1>2. \A p : Unmatched(p) \subseteq BilledTo(p) /\ Unmatched(p) \subseteq Invoice
                /\ \A i \in Unmatched(p) : matches[i] = <<>>
  BY DEF Unmatched, BilledTo
<1>3. ASSUME NEW seen \in Status, NEW sets \in BOOLEAN, NEW lines \in SUBSET BilledTo(e.po),
             job' = [open |-> TRUE, event |-> k, po |-> e.po, seen |-> seen,
                     sets |-> sets, lines |-> lines]
      PROVE  TypeOK' /\ job'.open /\ job'.event = k /\ job'.lines = lines
  <2>1. job' \in OpenJob
    <3>1. e.po \in PO \cup {NoPO} /\ k \in Nat /\ lines \in SUBSET Invoice
      BY HandledEvent DEF BilledTo
    <3> QED
      BY <1>3, <3>1 DEF OpenJob
  <2>2. JobIsCurrent'
    BY <1>1, <1>3 DEF JobIsCurrent, BilledTo, Arrived
  <2> QED
    BY <1>1, <1>3, <2>1, <2>2 DEF TypeOK, JobIsCurrent, yardVars, billingVars, Arrived
<1>4. CASE BeginReceipt(k)
  <2>1. /\ e.type = "GOODS_RECEIVED" /\ e.po \in PO
        /\ job' = [open |-> TRUE, event |-> k, po |-> e.po, seen |-> ReceivedStatus(e.po),
                   sets |-> ReceivedStatus(e.po) # po[e.po], lines |-> Unmatched(e.po)]
    BY <1>4, HandledEvent DEF BeginReceipt
  <2>2. ReceivedStatus(e.po) \in Status
    BY DEF ReceivedStatus, Status
  <2> QED
    BY <1>1, <1>2, <1>3, <2>1, <2>2, ThreeWayMatchAssumption
<1>5. CASE BeginInvoice(k)
  <2>1. /\ e.type = "INVOICE_RECEIVED" /\ e.po # NoPO /\ e.po \in PO
        /\ job' = [open |-> TRUE, event |-> k, po |-> e.po, seen |-> po[e.po],
                   sets |-> FALSE, lines |-> Unmatched(e.po)]
    BY <1>5, HandledEvent DEF BeginInvoice
  <2>2. po[e.po] \in Status
    BY <2>1 DEF TypeOK
  <2> QED
    BY <1>1, <1>2, <1>3, <2>1, <2>2
<1>6. CASE BeginInvoiceWithoutPO(k)
  <2> DEFINE lines == {i \in {e.invoice} : matches[i] = <<>>}
  <2>1. /\ e.type = "INVOICE_RECEIVED" /\ e.po = NoPO
        /\ job' = [open |-> TRUE, event |-> k, po |-> e.po, seen |-> "CREATED",
                   sets |-> FALSE, lines |-> lines]
    BY <1>6 DEF BeginInvoiceWithoutPO
  <2>2. lines \in SUBSET BilledTo(e.po)
    BY <2>1, HandledEvent DEF EventsAreTrue, BilledTo
  <2>3. "CREATED" \in Status
    BY DEF Status
  <2> QED
    BY <1>1, <1>3, <2>1, <2>2, <2>3
<1> QED
  BY <1>4, <1>5, <1>6

LEMMA CommitFacts ==
    ASSUME TypeOK, CommitJob
    PROVE  /\ job.open /\ job' = NoJob /\ job.event \in 1 .. Len(inbox)
           /\ inbox' = RemoveAt(inbox, job.event) /\ inbox' \in Seq(Event)
           /\ UNCHANGED <<yardVars, invoices, desk, failures>>
           /\ matches' \in [Invoice -> Seq(MatchResult)]
           /\ payments' \in [Invoice -> Seq(Payment)]
           /\ \A i \in Invoice \ job.lines : matches'[i] = matches[i] /\ payments'[i] = payments[i]
           /\ \A i \in job.lines : i \in Invoice /\ Arrived(i)
                                 /\ Len(matches'[i]) = Len(matches[i]) + 1
           /\ \A i \in Invoice : /\ DOMAIN matches[i] \subseteq DOMAIN matches'[i]
                               /\ DOMAIN payments[i] \subseteq DOMAIN payments'[i]
<1>1. /\ job.open /\ job' = NoJob /\ job.event \in 1 .. Len(inbox)
      /\ UNCHANGED <<yardVars, invoices, desk, failures>>
      /\ inbox' = RemoveAt(inbox, job.event)
  BY DEF CommitJob, TypeOK
<1>2. inbox' \in Seq(Event)
  BY <1>1, RemoveEntry DEF TypeOK
<1>3. \A i \in job.lines : i \in Invoice /\ Arrived(i)
  BY <1>1 DEF TypeOK, BilledTo
<1>4. \A i : MatchRow(JobVerdict(i)) \in MatchResult
  BY JudgeIsVerdict DEF JobVerdict, MatchRow, MatchResult
<1>5. SystemPayment \in Payment
  BY DEF SystemPayment, Payment
<1>6. ASSUME NEW i \in Invoice
      PROVE  /\ matches'[i] \in Seq(MatchResult) /\ payments'[i] \in Seq(Payment)
             /\ i \notin job.lines => matches'[i] = matches[i] /\ payments'[i] = payments[i]
             /\ i \in job.lines => Len(matches'[i]) = Len(matches[i]) + 1
             /\ DOMAIN matches[i] \subseteq DOMAIN matches'[i]
             /\ DOMAIN payments[i] \subseteq DOMAIN payments'[i]
  <2>1. matches[i] \in Seq(MatchResult) /\ payments[i] \in Seq(Payment)
    BY DEF TypeOK
  <2>2. /\ Append(matches[i], MatchRow(JobVerdict(i))) \in Seq(MatchResult)
        /\ Len(Append(matches[i], MatchRow(JobVerdict(i)))) = Len(matches[i]) + 1
        /\ DOMAIN matches[i] \subseteq DOMAIN Append(matches[i], MatchRow(JobVerdict(i)))
    BY <1>4, <2>1, AppendEntry
  <2>3. /\ Append(payments[i], SystemPayment) \in Seq(Payment)
        /\ DOMAIN payments[i] \subseteq DOMAIN Append(payments[i], SystemPayment)
    BY <1>5, <2>1, AppendEntry
  <2>4. /\ matches'[i] = IF i \in job.lines THEN Append(matches[i], MatchRow(JobVerdict(i)))
                                             ELSE matches[i]
        /\ payments'[i] = IF i \in job.lines /\ JobVerdict(i) = "APPROVED"
                          THEN Append(payments[i], SystemPayment) ELSE payments[i]
    BY DEF CommitJob, WriteMatches
  <2> QED
    BY <2>1, <2>2, <2>3, <2>4
<1>7. /\ matches' \in [Invoice -> Seq(MatchResult)]
      /\ payments' \in [Invoice -> Seq(Payment)]
  BY <1>6 DEF CommitJob, WriteMatches
<1> QED
  BY <1>1, <1>2, <1>3, <1>6, <1>7

LEMMA TypeWorker ==
    ASSUME TypeOK, EventsAreTrue, Worker \/ FailJob
    PROVE  TypeOK'
<1>1. ASSUME NEW k \in 1 .. Len(inbox), HandleShipment(k) PROVE TypeOK'
  <2>1. /\ inbox' = RemoveAt(inbox, k) /\ po' = [po EXCEPT ![inbox[k].po] = "SHIPPED"]
        /\ ~job.open /\ UNCHANGED <<yardVars, invoices, billingVars, job, desk, failures>>
    BY <1>1 DEF HandleShipment, Deliverable
  <2>2. po' \in [PO -> Status] /\ inbox' \in Seq(Event)
    BY <2>1, RemoveEntry DEF TypeOK, Status
  <2> QED
    BY <2>1, <2>2 DEF TypeOK, yardVars, billingVars, Arrived
<1>2. ASSUME CommitJob PROVE TypeOK'
  <2>1. po' \in [PO -> Status]
    <3>1. job.seen \in Status /\ "MATCHED" \in Status
      <4>1. job.open /\ job \in OpenJob \cup {NoJob}
        BY <1>2 DEF CommitJob, TypeOK
      <4>2. job \in OpenJob
        BY <4>1 DEF NoJob
      <4> QED
        BY <4>2 DEF OpenJob, Status
    <3> QED
      BY <1>2, <3>1 DEF CommitJob, TypeOK
  <2>2. ~job'.open /\ job' = NoJob
    BY <1>2 DEF CommitJob, NoJob
  <2>3. \A i \in Invoice : ~Arrived(i)' => matches'[i] = <<>> /\ payments'[i] = <<>>
    BY <1>2, CommitFacts DEF TypeOK, Arrived
  <2> QED
    BY <1>2, <2>1, <2>2, <2>3, CommitFacts DEF TypeOK, yardVars
<1>3. ASSUME FailJob PROVE TypeOK'
  <2>1. ~job'.open /\ job' = NoJob
    BY <1>3 DEF FailJob, NoJob
  <2>2. failures' \in 0 .. MaxFailures
    BY <1>3, ThreeWayMatchAssumption DEF FailJob, TypeOK
  <2> QED
    BY <1>3, <2>1, <2>2 DEF FailJob, TypeOK, yardVars, billingVars, Arrived
<1> QED
  BY <1>1, <1>2, <1>3, TypeBegin DEF Worker

(* The procurement API.                                                    *)
LEMMA AskFacts ==
    ASSUME TypeOK, NEW c \in Clerk,
           \/ \E p \in PO : AskConfirm(c, p)
           \/ \E i \in Invoice : \E n \in DOMAIN matches[i] : AskResolve(c, i, n)
           \/ \E i \in Invoice : \E n \in DOMAIN payments[i] : AskPay(c, i, n)
    PROVE  /\ \E task \in {"CONFIRM", "APPROVE", "REJECT", "PAY"} : \E target :
                 /\ desk' = [desk EXCEPT ![c] = [task |-> task, target |-> target]]
                 /\ task = "CONFIRM" => target \in PO
                 /\ task # "CONFIRM" => target \in Invoice \X Nat
                 /\ task \in {"APPROVE", "REJECT"} => target[2] \in DOMAIN matches[target[1]]
                 /\ task = "PAY" => target[2] \in DOMAIN payments[target[1]]
           /\ UNCHANGED <<po, yardVars, invoices, billingVars, inbox, job, failures>>
<1>1. ASSUME NEW p \in PO, AskConfirm(c, p)
      PROVE  /\ desk' = [desk EXCEPT ![c] = [task |-> "CONFIRM", target |-> p]]
             /\ UNCHANGED <<po, yardVars, invoices, billingVars, inbox, job, failures>>
  BY <1>1 DEF AskConfirm, Ask
<1>2. ASSUME NEW i \in Invoice, NEW n \in DOMAIN matches[i], AskResolve(c, i, n)
      PROVE  /\ \E ruling \in {"APPROVE", "REJECT"} :
                   desk' = [desk EXCEPT ![c] = [task |-> ruling, target |-> <<i, n>>]]
             /\ UNCHANGED <<po, yardVars, invoices, billingVars, inbox, job, failures>>
             /\ n \in Nat
  <2>1. matches[i] \in Seq(MatchResult)
    BY DEF TypeOK
  <2>2. n \in Nat
    BY <2>1
  <2> QED
    BY <1>2, <2>2 DEF AskResolve, Ask
<1>3. ASSUME NEW i \in Invoice, NEW n \in DOMAIN payments[i], AskPay(c, i, n)
      PROVE  /\ desk' = [desk EXCEPT ![c] = [task |-> "PAY", target |-> <<i, n>>]]
             /\ UNCHANGED <<po, yardVars, invoices, billingVars, inbox, job, failures>>
             /\ n \in Nat
  <2>1. payments[i] \in Seq(Payment)
    BY DEF TypeOK
  <2>2. n \in Nat
    BY <2>1
  <2> QED
    BY <1>3, <2>2 DEF AskPay, Ask
<1>4. CASE \E p \in PO : AskConfirm(c, p)
  BY <1>1, <1>4
<1>5. CASE \E i \in Invoice : \E n \in DOMAIN matches[i] : AskResolve(c, i, n)
  <2>1. PICK i \in Invoice : \E n \in DOMAIN matches[i] : AskResolve(c, i, n)
    BY <1>5
  <2>2. PICK n \in DOMAIN matches[i] : AskResolve(c, i, n)
    BY <2>1
  <2>3. PICK ruling \in {"APPROVE", "REJECT"} :
            desk' = [desk EXCEPT ![c] = [task |-> ruling, target |-> <<i, n>>]]
    BY <1>2, <2>2
  <2>4. n \in Nat /\ UNCHANGED <<po, yardVars, invoices, billingVars, inbox, job, failures>>
    BY <1>2, <2>2
  <2> DEFINE where == <<i, n>>
  <2>5. where \in Invoice \X Nat /\ where[1] = i /\ where[2] = n
    BY <2>4
  <2>6. desk' = [desk EXCEPT ![c] = [task |-> ruling, target |-> where]]
    BY <2>3
  <2> HIDE DEF where
  <2> QED
    BY <2>2, <2>4, <2>5, <2>6
<1>6. CASE \E i \in Invoice : \E n \in DOMAIN payments[i] : AskPay(c, i, n)
  <2>1. PICK i \in Invoice : \E n \in DOMAIN payments[i] : AskPay(c, i, n)
    BY <1>6
  <2>2. PICK n \in DOMAIN payments[i] : AskPay(c, i, n)
    BY <2>1
  <2>3. /\ n \in Nat /\ UNCHANGED <<po, yardVars, invoices, billingVars, inbox, job, failures>>
        /\ desk' = [desk EXCEPT ![c] = [task |-> "PAY", target |-> <<i, n>>]]
    BY <1>3, <2>2
  <2> DEFINE where == <<i, n>>
  <2>4. where \in Invoice \X Nat /\ where[1] = i /\ where[2] = n
    BY <2>3
  <2>5. desk' = [desk EXCEPT ![c] = [task |-> "PAY", target |-> where]]
    BY <2>3
  <2> HIDE DEF where
  <2> QED
    BY <2>2, <2>3, <2>4, <2>5
<1> QED
  BY <1>4, <1>5, <1>6

(* A clerk's write: rows are changed in place or added, never removed.     *)
LEMMA AnswerFacts ==
    ASSUME TypeOK, RequestsStand, NEW c \in Clerk,
           Confirm(c) \/ Approve(c) \/ Reject(c) \/ Pay(c)
    PROVE  /\ desk' = [desk EXCEPT ![c] = NoRequest]
           /\ UNCHANGED <<yardVars, invoices, inbox, job, failures>>
           /\ po' \in [PO -> Status]
           /\ matches' \in [Invoice -> Seq(MatchResult)]
           /\ payments' \in [Invoice -> Seq(Payment)]
           /\ \A i \in Invoice : Len(matches'[i]) = Len(matches[i])
           /\ \A i \in Invoice : matches[i] = <<>> => matches'[i] = <<>>
           /\ \A i \in Invoice : /\ DOMAIN matches[i] \subseteq DOMAIN matches'[i]
                               /\ DOMAIN payments[i] \subseteq DOMAIN payments'[i]
           /\ \A i \in Invoice : ~Arrived(i) => matches'[i] = <<>> /\ payments'[i] = <<>>
<1> DEFINE i == desk[c].target[1]
           n == desk[c].target[2]
<1>1. /\ desk' = [desk EXCEPT ![c] = NoRequest]
      /\ UNCHANGED <<yardVars, invoices, inbox, job, failures>>
  BY DEF Confirm, Approve, Reject, Pay, Answer
<1>2. desk[c] \in ApiRequest \cup {NoRequest}
  BY DEF TypeOK
<1>3. CASE Confirm(c)
  <2>1. po' \in [PO -> Status] /\ UNCHANGED billingVars
    BY <1>3 DEF Confirm, TypeOK, Status
  <2> QED
    BY <1>1, <2>1 DEF TypeOK, billingVars
<1>4. ASSUME NEW status \in Status, SetOrderOf(i, status) PROVE po' \in [PO -> Status]
  BY <1>4 DEF SetOrderOf, TypeOK
<1>5. ASSUME desk[c].task \in {"APPROVE", "REJECT"}
      PROVE  i \in Invoice /\ n \in DOMAIN matches[i] /\ Arrived(i)
  <2>1. i \in Invoice
    BY <1>2, <1>5 DEF ApiRequest, NoRequest
  <2>2. n \in DOMAIN matches[i]
    BY <1>5 DEF RequestsStand
  <2> QED
    BY <2>1, <2>2 DEF TypeOK
<1>6. ASSUME desk[c].task = "PAY"
      PROVE  i \in Invoice /\ n \in DOMAIN payments[i] /\ Arrived(i)
  <2>1. i \in Invoice
    BY <1>2, <1>6 DEF ApiRequest, NoRequest
  <2>2. n \in DOMAIN payments[i]
    BY <1>6 DEF RequestsStand
  <2> QED
    BY <2>1, <2>2 DEF TypeOK
<1> HIDE DEF i, n
<1>7. ASSUME NEW ruling \in {"APPROVED", "REJECTED"}, i \in Invoice, n \in DOMAIN matches[i],
             matches' = [matches EXCEPT ![i][n].exception = ruling]
      PROVE  /\ matches' \in [Invoice -> Seq(MatchResult)]
             /\ \A j \in Invoice : /\ Len(matches'[j]) = Len(matches[j])
                                 /\ DOMAIN matches'[j] = DOMAIN matches[j]
                                 /\ j # i => matches'[j] = matches[j]
             /\ matches[i] # <<>>
  <2>1. matches[i] \in Seq(MatchResult)
    BY <1>7 DEF TypeOK
  <2>2. [matches[i][n] EXCEPT !.exception = ruling] \in MatchResult
    <3>1. matches[i][n] \in MatchResult
      BY <1>7, <2>1
    <3> QED
      BY <1>7, <3>1 DEF MatchResult
  <2>3. /\ [matches[i] EXCEPT ![n] = [@ EXCEPT !.exception = ruling]] \in Seq(MatchResult)
        /\ Len([matches[i] EXCEPT ![n] = [@ EXCEPT !.exception = ruling]]) = Len(matches[i])
    BY <1>7, <2>1, <2>2, ExceptSeq
  <2>4. matches' = [matches EXCEPT ![i] =
                      [matches[i] EXCEPT ![n] = [@ EXCEPT !.exception = ruling]]]
    BY <1>7
  <2> QED
    BY <1>7, <2>1, <2>3, <2>4 DEF TypeOK
<1>8. ASSUME i \in Invoice, payments' = [payments EXCEPT ![i] =
                                Append(@, [by |-> "CLERK", status |-> "APPROVED"])]
      PROVE  /\ payments' \in [Invoice -> Seq(Payment)]
             /\ \A j \in Invoice : /\ DOMAIN payments[j] \subseteq DOMAIN payments'[j]
                                 /\ j # i => payments'[j] = payments[j]
  <2>1. payments[i] \in Seq(Payment) /\ [by |-> "CLERK", status |-> "APPROVED"] \in Payment
    BY <1>8 DEF TypeOK, Payment
  <2> DEFINE row == [by |-> "CLERK", status |-> "APPROVED"]
  <2> HIDE DEF row
  <2>2. /\ Append(payments[i], row) \in Seq(Payment)
        /\ DOMAIN payments[i] \subseteq DOMAIN Append(payments[i], row)
    BY <2>1, AppendEntry DEF row
  <2>3. payments' = [payments EXCEPT ![i] = Append(payments[i], row)]
    BY <1>8 DEF row
  <2> QED
    BY <1>8, <2>2, <2>3 DEF TypeOK
<1>9. CASE Approve(c)
  <2>1. /\ desk[c].task = "APPROVE" /\ SetOrderOf(i, "MATCHED")
        /\ matches' = [matches EXCEPT ![i][n].exception = "APPROVED"]
        /\ payments' = [payments EXCEPT ![i] =
              Append(@, [by |-> "CLERK", status |-> "APPROVED"])]
    BY <1>9 DEF Approve, Answer, i, n
  <2>2. i \in Invoice /\ n \in DOMAIN matches[i] /\ Arrived(i)
    BY <1>5, <2>1
  <2>3. po' \in [PO -> Status]
    BY <1>4, <2>1 DEF Status
  <2> QED
    BY <1>1, <1>7, <1>8, <2>1, <2>2, <2>3 DEF TypeOK
<1>10. CASE Reject(c)
  <2>1. /\ desk[c].task = "REJECT" /\ UNCHANGED <<po, payments>>
        /\ matches' = [matches EXCEPT ![i][n].exception = "REJECTED"]
    BY <1>10 DEF Reject, Answer, i, n
  <2>2. i \in Invoice /\ n \in DOMAIN matches[i] /\ Arrived(i)
    BY <1>5, <2>1
  <2> QED
    BY <1>1, <1>7, <2>1, <2>2 DEF TypeOK
<1>11. CASE Pay(c)
  <2>1. /\ desk[c].task = "PAY" /\ SetOrderOf(i, "CLOSED") /\ UNCHANGED matches
        /\ payments' = [payments EXCEPT ![i][n].status = "PAID"]
    BY <1>11 DEF Pay, Answer, i, n
  <2>2. i \in Invoice /\ n \in DOMAIN payments[i] /\ Arrived(i)
    BY <1>6, <2>1
  <2>3. po' \in [PO -> Status]
    BY <1>4, <2>1 DEF Status
  <2>4. payments[i] \in Seq(Payment)
    BY <2>2 DEF TypeOK
  <2>5. [payments[i][n] EXCEPT !.status = "PAID"] \in Payment
    <3>1. payments[i][n] \in Payment
      BY <2>2, <2>4
    <3> QED
      BY <3>1 DEF Payment
  <2>6. /\ [payments[i] EXCEPT ![n] = [@ EXCEPT !.status = "PAID"]] \in Seq(Payment)
        /\ Len([payments[i] EXCEPT ![n] = [@ EXCEPT !.status = "PAID"]]) = Len(payments[i])
    BY <2>2, <2>4, <2>5, ExceptSeq
  <2>7. payments' = [payments EXCEPT ![i] =
                       [payments[i] EXCEPT ![n] = [@ EXCEPT !.status = "PAID"]]]
    BY <2>1
  <2>8. /\ payments' \in [Invoice -> Seq(Payment)]
        /\ \A j \in Invoice : /\ DOMAIN payments[j] \subseteq DOMAIN payments'[j]
                            /\ j # i => payments'[j] = payments[j]
    BY <2>2, <2>4, <2>6, <2>7 DEF TypeOK
  <2> QED
    BY <1>1, <2>1, <2>2, <2>3, <2>8 DEF TypeOK
<1> QED
  BY <1>3, <1>9, <1>10, <1>11

LEMMA TypeProcurement ==
    ASSUME TypeOK, RequestsStand, NEW c \in Clerk, Procurement(c)
    PROVE  TypeOK'
<1>1. CASE Confirm(c) \/ Approve(c) \/ Reject(c) \/ Pay(c)
  <2>1. desk' \in [Clerk -> ApiRequest \cup {NoRequest}]
    BY <1>1, AnswerFacts DEF TypeOK
  <2>2. JobIsCurrent'
    BY <1>1, AnswerFacts DEF TypeOK, JobIsCurrent, BilledTo, Arrived
  <2> QED
    BY <1>1, <2>1, <2>2, AnswerFacts DEF TypeOK, JobIsCurrent, yardVars, Arrived
<1>2. CASE ~(Confirm(c) \/ Approve(c) \/ Reject(c) \/ Pay(c))
  <2>1. PICK task \in {"CONFIRM", "APPROVE", "REJECT", "PAY"} : \E target :
            /\ desk' = [desk EXCEPT ![c] = [task |-> task, target |-> target]]
            /\ task = "CONFIRM" => target \in PO
            /\ task # "CONFIRM" => target \in Invoice \X Nat
            /\ UNCHANGED <<po, yardVars, invoices, billingVars, inbox, job, failures>>
    BY <1>2, AskFacts DEF Procurement
  <2>2. PICK target :
            /\ desk' = [desk EXCEPT ![c] = [task |-> task, target |-> target]]
            /\ task = "CONFIRM" => target \in PO
            /\ task # "CONFIRM" => target \in Invoice \X Nat
            /\ UNCHANGED <<po, yardVars, invoices, billingVars, inbox, job, failures>>
    BY <2>1
  <2>3. [task |-> task, target |-> target] \in ApiRequest
    BY <2>2 DEF ApiRequest
  <2>4. desk' \in [Clerk -> ApiRequest \cup {NoRequest}]
    BY <2>2, <2>3 DEF TypeOK
  <2> QED
    BY <2>2, <2>4 DEF TypeOK, yardVars, billingVars, BilledTo, Arrived
<1> QED
  BY <1>1, <1>2

LEMMA TypeStep ==
    ASSUME TypeOK, EventsAreTrue, RequestsStand, [Next]_vars
    PROVE  TypeOK'
<1>1. CASE UNCHANGED vars
  BY <1>1 DEF TypeOK, vars, yardVars, billingVars, BilledTo, Arrived
<1> QED
  BY <1>1, TypeEnvironment, TypeWorker, TypeProcurement DEF Next

-----------------------------------------------------------------------------
(* What each kind of step does to the events and the invoices.             *)

(* A step of the yard or a supplier adds one true event, and the event of  *)
(* whatever makes an invoice matchable triggers its match.                 *)
LEMMA EnvironmentFacts ==
    ASSUME TypeOK, Environment
    PROVE  /\ UNCHANGED <<po, billingVars, job, desk, failures>>
           /\ Len(inbox) \in Nat /\ Len(inbox') = Len(inbox) + 1
           /\ \A k \in 1 .. Len(inbox) : inbox'[k] = inbox[k]
           /\ \A i \in Invoice : Arrived(i) => Arrived(i)' /\ invoices'[i] = invoices[i]
           /\ inbox'[Len(inbox) + 1].type = "INVOICE_RECEIVED" =>
                 LET i == inbox'[Len(inbox) + 1].invoice
                 IN  invoices'[i].arrived /\ invoices'[i].po = inbox'[Len(inbox) + 1].po
           /\ \A i \in Invoice :
                 Matchable(i)' => \/ Matchable(i)
                                  \/ \E n \in 1 .. Len(inbox') :
                                        n > Len(inbox) /\ Triggers(n, i)'
<1>1. ASSUME NEW p \in PO, CreateShipment(p)
      PROVE  /\ inbox' = Append(inbox, [type |-> "SHIPMENT_CREATED", po |-> p])
             /\ [type |-> "SHIPMENT_CREATED", po |-> p] \in Event
             /\ UNCHANGED <<po, billingVars, job, desk, failures, invoices, receipts>>
  BY <1>1 DEF CreateShipment, Event
<1>2. ASSUME NEW p \in PO, NEW quantity \in Lot, Unload(p, quantity)
      PROVE  /\ inbox' = Append(inbox, [type |-> "GOODS_RECEIVED", po |-> p])
             /\ [type |-> "GOODS_RECEIVED", po |-> p] \in Event
             /\ receipts' = [receipts EXCEPT ![p] = Append(@, quantity)]
             /\ UNCHANGED <<po, billingVars, job, desk, failures, invoices>>
  BY <1>2 DEF Unload, Event
<1>3. ASSUME NEW i \in Invoice, NEW p \in PO \cup {NoPO}, NEW bill \in Bill,
             CreateInvoice(i, p, bill)
      PROVE  /\ inbox' = Append(inbox, [type |-> "INVOICE_RECEIVED", po |-> p, invoice |-> i])
             /\ [type |-> "INVOICE_RECEIVED", po |-> p, invoice |-> i] \in Event
             /\ ~Arrived(i)
             /\ invoices'[i] = [po |-> p, arrived |-> TRUE, bill |-> bill]
             /\ \A j \in Invoice \ {i} : invoices'[j] = invoices[j]
             /\ UNCHANGED <<po, billingVars, job, desk, failures, receipts>>
  BY <1>3 DEF CreateInvoice, Event, TypeOK, yardVars
<1>4. \A e \in Event : inbox' = Append(inbox, e) =>
          /\ Len(inbox) \in Nat /\ Len(inbox') = Len(inbox) + 1
          /\ \A k \in 1 .. Len(inbox) : inbox'[k] = inbox[k]
          /\ inbox'[Len(inbox) + 1] = e
  BY AppendEntry DEF TypeOK
<1>5. ASSUME NEW e \in Event, inbox' = Append(inbox, e)
      PROVE  \E n \in 1 .. Len(inbox') : n > Len(inbox) /\ inbox'[n] = e
  BY <1>4, <1>5
<1>6. CASE \E p \in PO : CreateShipment(p)
  <2>1. PICK p \in PO : CreateShipment(p)
    BY <1>6
  <2>2. inbox'[Len(inbox) + 1] = [type |-> "SHIPMENT_CREATED", po |-> p]
    BY <1>1, <1>4, <2>1
  <2>3. \A i \in Invoice : (Matchable(i)' => Matchable(i)) /\ (Arrived(i) => Arrived(i)')
    BY <1>1, <2>1 DEF Matchable, Arrived
  <2> QED
    BY <1>1, <1>4, <2>1, <2>2, <2>3
<1>7. CASE \E p \in PO, quantity \in Lot : Unload(p, quantity)
  <2>1. PICK p \in PO : \E quantity \in Lot : Unload(p, quantity)
    BY <1>7
  <2>2. PICK quantity \in Lot : Unload(p, quantity)
    BY <2>1
  <2>3. /\ inbox'[Len(inbox) + 1] = [type |-> "GOODS_RECEIVED", po |-> p]
        /\ \A q \in PO \ {p} : receipts'[q] = receipts[q]
        /\ UNCHANGED invoices
    BY <1>2, <1>4, <2>2 DEF TypeOK
  <2>4. ASSUME NEW i \in Invoice, Matchable(i)'
        PROVE  \/ Matchable(i)
               \/ \E n \in 1 .. Len(inbox') : n > Len(inbox) /\ Triggers(n, i)'
    <3>1. invoices[i] \in InvoiceRow
      BY <2>3, <2>4 DEF Matchable, Arrived, TypeOK, NoInvoice
    <3>2. invoices[i].po \in PO \cup {NoPO}
      BY <3>1 DEF InvoiceRow
    <3>3. CASE invoices[i].po = p
      <4>1. PICK n \in 1 .. Len(inbox') :
                n > Len(inbox) /\ inbox'[n] = [type |-> "GOODS_RECEIVED", po |-> p]
        BY <1>2, <1>5, <2>2
      <4>2. Triggers(n, i)'
        BY <2>3, <3>3, <4>1, ThreeWayMatchAssumption DEF Triggers
      <4> QED
        BY <4>1, <4>2
    <3>4. CASE invoices[i].po # p
      BY <2>3, <2>4, <3>2, <3>4 DEF Matchable, Arrived
    <3> QED
      BY <3>3, <3>4
  <2>5. \A i \in Invoice : Arrived(i) => Arrived(i)'
    BY <2>3 DEF Arrived
  <2> QED
    BY <1>2, <1>4, <2>2, <2>3, <2>4, <2>5
<1>8. CASE \E i \in Invoice, p \in PO \cup {NoPO}, bill \in Bill : CreateInvoice(i, p, bill)
  <2>1. PICK i \in Invoice, p \in PO \cup {NoPO}, bill \in Bill : CreateInvoice(i, p, bill)
    BY <1>8
  <2> DEFINE e == [type |-> "INVOICE_RECEIVED", po |-> p, invoice |-> i]
  <2>2. /\ inbox' = Append(inbox, e) /\ e \in Event /\ ~Arrived(i)
        /\ invoices'[i].po = p /\ invoices'[i].arrived
        /\ \A j \in Invoice \ {i} : invoices'[j] = invoices[j]
        /\ UNCHANGED <<po, billingVars, job, desk, failures, receipts>>
    <3>1. invoices'[i] = [po |-> p, arrived |-> TRUE, bill |-> bill]
      BY <1>3, <2>1
    <3>2. invoices'[i].po = p /\ invoices'[i].arrived
      BY <3>1
    <3>3. /\ inbox' = Append(inbox, e) /\ e \in Event /\ ~Arrived(i)
          /\ \A j \in Invoice \ {i} : invoices'[j] = invoices[j]
          /\ UNCHANGED <<po, billingVars, job, desk, failures, receipts>>
      BY <1>3, <2>1
    <3> QED
      BY <3>2, <3>3
  <2>3. e.type = "INVOICE_RECEIVED" /\ e.po = p /\ e.invoice = i
    OBVIOUS
  <2> HIDE DEF e
  <2>4. \A j \in Invoice : Arrived(j) => Arrived(j)' /\ invoices'[j] = invoices[j]
    BY <2>2 DEF Arrived
  <2>5. \E n \in 1 .. Len(inbox') : n > Len(inbox) /\ Triggers(n, i)'
    <3>1. PICK n \in 1 .. Len(inbox') : n > Len(inbox) /\ inbox'[n] = e
      BY <1>5, <2>2
    <3>2. Triggers(n, i)'
      BY <2>2, <2>3, <3>1 DEF Triggers
    <3> QED
      BY <3>1, <3>2
  <2>6. \A j \in Invoice \ {i} : Matchable(j)' => Matchable(j)
    BY <2>2 DEF Matchable, Arrived
  <2>7. /\ Len(inbox) \in Nat /\ Len(inbox') = Len(inbox) + 1
        /\ \A k \in 1 .. Len(inbox) : inbox'[k] = inbox[k]
        /\ inbox'[Len(inbox) + 1] = e
    BY <1>4, <2>2
  <2> QED
    BY <2>2, <2>3, <2>4, <2>5, <2>6, <2>7
<1> QED
  BY <1>6, <1>7, <1>8 DEF Environment

(* A step that handles an event keeps the others, and what they trigger.   *)
LEMMA HandlingFacts ==
    ASSUME TypeOK, NEW k \in 1 .. Len(inbox),
           inbox' = RemoveAt(inbox, k), UNCHANGED invoices
    PROVE  /\ EventsAreTrue => EventsAreTrue'
           /\ \A i \in Invoice : \A j \in 1 .. Len(inbox) :
                 Triggers(j, i) /\ j # k => \E m \in 1 .. Len(inbox') : Triggers(m, i)'
<1>1. /\ Len(inbox) \in Nat /\ Len(inbox') = Len(inbox) - 1
      /\ \A j \in 1 .. Len(inbox) - 1 :
            inbox'[j] = IF j < k THEN inbox[j] ELSE inbox[j + 1]
  BY RemoveEntry, SMTT(30) DEF TypeOK
<1>2. ASSUME EventsAreTrue PROVE EventsAreTrue'
  <2>1. ASSUME NEW j \in 1 .. Len(inbox') PROVE \E m \in 1 .. Len(inbox) : inbox'[j] = inbox[m]
    BY <1>1
  <2> QED
    BY <1>2, <2>1 DEF EventsAreTrue, Arrived
<1>3. ASSUME NEW i \in Invoice, NEW j \in 1 .. Len(inbox), Triggers(j, i), j # k
      PROVE  \E m \in 1 .. Len(inbox') : Triggers(m, i)'
  <2>1. \E m \in 1 .. Len(inbox') : inbox'[m] = inbox[j]
    <3>1. CASE j < k
      BY <1>1, <3>1
    <3>2. CASE j > k
      <4>1. j - 1 \in 1 .. Len(inbox) - 1 /\ ~(j - 1 < k) /\ (j - 1) + 1 = j
        BY <1>1, <3>2
      <4> QED
        BY <1>1, <4>1
    <3> QED
      BY <1>1, <1>3, <3>1, <3>2
  <2> QED
    BY <1>3, <2>1 DEF Triggers
<1> QED
  BY <1>2, <1>3

-----------------------------------------------------------------------------
(* The invariant is inductive.  Others == everything of it but TypeOK.     *)
Others == EventsAreTrue /\ RequestsStand /\ LinesAreUnmatched
             /\ OneMatchPerInvoice /\ NoLostPairing

LEMMA OthersUnchanged ==
    ASSUME Others, UNCHANGED <<invoices, receipts, matches, payments, inbox, job>>,
           RequestsStand'
    PROVE  Others'
  BY DEF Others, EventsAreTrue, LinesAreUnmatched, OneMatchPerInvoice, NoLostPairing,
         Matchable, Arrived, Triggers

LEMMA OthersEnvironment == ASSUME TypeOK, Others, Environment PROVE Others'
<1>1. EventsAreTrue'
  <2>1. ASSUME NEW k \in 1 .. Len(inbox'), inbox'[k].type = "INVOICE_RECEIVED"
        PROVE  invoices'[inbox'[k].invoice].arrived
                  /\ invoices'[inbox'[k].invoice].po = inbox'[k].po
    <3>1. CASE k \in 1 .. Len(inbox)
      BY <2>1, <3>1, EnvironmentFacts, HandledEvent DEF Others, EventsAreTrue, Arrived
    <3>2. CASE k = Len(inbox) + 1
      BY <2>1, <3>2, EnvironmentFacts
    <3> QED
      BY <3>1, <3>2, EnvironmentFacts
  <2> QED
    BY <2>1 DEF EventsAreTrue, Arrived
<1>2. RequestsStand' /\ LinesAreUnmatched' /\ OneMatchPerInvoice'
  BY EnvironmentFacts DEF Others, RequestsStand, LinesAreUnmatched, OneMatchPerInvoice, billingVars
<1>3. NoLostPairing'
  <2>1. ASSUME NEW i \in Invoice, Matchable(i)', matches'[i] = <<>>
        PROVE  \E k \in 1 .. Len(inbox') :
                  Triggers(k, i)' /\ (job'.open /\ job'.event = k => i \in job'.lines)
    <3>1. CASE Matchable(i)
      <4>1. PICK k \in 1 .. Len(inbox) :
                Triggers(k, i) /\ (job.open /\ job.event = k => i \in job.lines)
        BY <2>1, <3>1, EnvironmentFacts DEF Others, NoLostPairing, billingVars
      <4>2. Triggers(k, i)'
        BY <3>1, <4>1, EnvironmentFacts DEF Triggers, Matchable
      <4> QED
        BY <4>1, <4>2, EnvironmentFacts
    <3>2. CASE ~Matchable(i)
      <4>1. PICK k \in 1 .. Len(inbox') : k > Len(inbox) /\ Triggers(k, i)'
        BY <2>1, <3>2, EnvironmentFacts
      <4>2. job.open => job.event <= Len(inbox) /\ job.event \in Nat
        BY EnvironmentFacts DEF TypeOK
      <4> QED
        BY <4>1, <4>2, EnvironmentFacts
    <3> QED
      BY <3>1, <3>2
  <2> QED
    BY <2>1 DEF NoLostPairing
<1> QED
  BY <1>1, <1>2, <1>3 DEF Others

LEMMA OthersShipment ==
    ASSUME TypeOK, Others, NEW k \in 1 .. Len(inbox), HandleShipment(k)
    PROVE  Others'
<1>1. /\ inbox' = RemoveAt(inbox, k) /\ inbox[k].type = "SHIPMENT_CREATED" /\ ~job.open
      /\ UNCHANGED <<yardVars, invoices, billingVars, job, desk, failures>>
  BY DEF HandleShipment, Deliverable
<1>2. EventsAreTrue'
  BY <1>1, HandlingFacts DEF Others
<1>3. RequestsStand' /\ LinesAreUnmatched' /\ OneMatchPerInvoice'
  BY <1>1 DEF Others, RequestsStand, LinesAreUnmatched, OneMatchPerInvoice, billingVars
<1>4. NoLostPairing'
  <2>1. ASSUME NEW i \in Invoice, Matchable(i)', matches'[i] = <<>>
        PROVE  \E m \in 1 .. Len(inbox') :
                  Triggers(m, i)' /\ (job'.open /\ job'.event = m => i \in job'.lines)
    <3>1. PICK j \in 1 .. Len(inbox) : Triggers(j, i)
      BY <1>1, <2>1 DEF Others, NoLostPairing, Matchable, Arrived, billingVars, yardVars
    <3>2. j # k
      BY <1>1, <3>1 DEF Triggers
    <3> QED
      BY <1>1, <3>1, <3>2, HandlingFacts
  <2> QED
    BY <2>1 DEF NoLostPairing
<1> QED
  BY <1>2, <1>3, <1>4 DEF Others

LEMMA OthersBegin ==
    ASSUME TypeOK, Others, NEW k \in 1 .. Len(inbox),
           BeginReceipt(k) \/ BeginInvoice(k) \/ BeginInvoiceWithoutPO(k)
    PROVE  Others'
<1>1. EventsAreTrue
  BY DEF Others
<1>2. UNCHANGED <<po, yardVars, invoices, billingVars, inbox, desk, failures>>
  BY <1>1, TypeBegin
<1>3. EventsAreTrue' /\ RequestsStand' /\ OneMatchPerInvoice'
  BY <1>2 DEF Others, EventsAreTrue, RequestsStand, OneMatchPerInvoice, Arrived, billingVars
<1>4. LinesAreUnmatched'
  BY <1>1, <1>2, TypeBegin DEF LinesAreUnmatched, billingVars
<1>5. NoLostPairing'
  <2>1. ASSUME NEW i \in Invoice, Matchable(i)', matches'[i] = <<>>
        PROVE  \E m \in 1 .. Len(inbox') :
                  Triggers(m, i)' /\ (job'.open /\ job'.event = m => i \in job'.lines)
    <3>1. Matchable(i) /\ matches[i] = <<>>
      BY <1>2, <2>1 DEF Matchable, Arrived, billingVars, yardVars
    <3>2. PICK m \in 1 .. Len(inbox) : Triggers(m, i)
      BY <3>1 DEF Others, NoLostPairing
    <3>3. Triggers(m, i)'
      BY <1>2, <3>2 DEF Triggers
    <3>4. ASSUME m = k PROVE i \in job'.lines
      <4>1. CASE inbox[k].po = NoPO
        BY <1>1, <3>1, <3>2, <3>4, <4>1, TypeBegin DEF Triggers
      <4>2. CASE inbox[k].po # NoPO
        <5>1. i \in Unmatched(inbox[k].po)
          BY <3>1, <3>2, <3>4, <4>2 DEF Triggers, Unmatched, BilledTo, Matchable
        <5> QED
          BY <1>1, <4>2, <5>1, TypeBegin
      <4> QED
        BY <4>1, <4>2
    <3>5. job'.event = k
      BY <1>1, TypeBegin
    <3> QED
      BY <1>2, <3>3, <3>4, <3>5
  <2> QED
    BY <2>1 DEF NoLostPairing
<1> QED
  BY <1>3, <1>4, <1>5 DEF Others

LEMMA OthersCommit == ASSUME TypeOK, Others, CommitJob PROVE Others'
<1>1. EventsAreTrue'
  BY CommitFacts, HandlingFacts DEF Others
<1>2. RequestsStand'
  <2>1. ASSUME NEW c \in Clerk
        PROVE  desk[c].task \in {"APPROVE", "REJECT", "PAY"} => desk[c].target[1] \in Invoice
    <3>1. desk[c] \in ApiRequest \cup {NoRequest}
      BY DEF TypeOK
    <3> QED
      BY <3>1 DEF ApiRequest, NoRequest
  <2> QED
    BY <2>1, CommitFacts, SMTT(30) DEF Others, RequestsStand
<1>3. LinesAreUnmatched'
  BY CommitFacts DEF LinesAreUnmatched, NoJob
<1>4. OneMatchPerInvoice'
  BY CommitFacts, SMTT(30) DEF Others, LinesAreUnmatched, OneMatchPerInvoice
<1>5. NoLostPairing'
  <2>1. ASSUME NEW i \in Invoice, Matchable(i)', matches'[i] = <<>>
        PROVE  \E m \in 1 .. Len(inbox') :
                  Triggers(m, i)' /\ (job'.open /\ job'.event = m => i \in job'.lines)
    <3>1. Matchable(i)
      BY <2>1, CommitFacts DEF Matchable, Arrived, yardVars
    <3>2. i \notin job.lines
      <4>1. matches[i] \in Seq(MatchResult)
        BY DEF TypeOK
      <4>2. Len(matches'[i]) = 0 /\ Len(matches[i]) \in Nat
        BY <2>1, <4>1
      <4> QED
        BY <4>2, CommitFacts
    <3>3. PICK j \in 1 .. Len(inbox) :
              Triggers(j, i) /\ (job.open /\ job.event = j => i \in job.lines)
      BY <2>1, <3>1, <3>2, CommitFacts DEF Others, NoLostPairing
    <3>4. j # job.event
      BY <3>2, <3>3, CommitFacts
    <3>5. \E m \in 1 .. Len(inbox') : Triggers(m, i)'
      BY <3>3, <3>4, CommitFacts, HandlingFacts
    <3> QED
      BY <3>5, CommitFacts DEF NoJob
  <2> QED
    BY <2>1 DEF NoLostPairing
<1> QED
  BY <1>1, <1>2, <1>3, <1>4, <1>5 DEF Others

LEMMA OthersFail == ASSUME Others, FailJob PROVE Others'
<1>1. /\ job' = NoJob /\ ~job'.open
      /\ UNCHANGED <<po, yardVars, invoices, billingVars, inbox, desk>>
  BY DEF FailJob, NoJob
<1>2. EventsAreTrue' /\ RequestsStand' /\ OneMatchPerInvoice' /\ LinesAreUnmatched'
  BY <1>1 DEF Others, EventsAreTrue, RequestsStand, OneMatchPerInvoice, LinesAreUnmatched,
              Arrived, billingVars
<1>3. NoLostPairing'
  BY <1>1 DEF Others, NoLostPairing, Matchable, Arrived, Triggers, billingVars, yardVars
<1> QED
  BY <1>2, <1>3 DEF Others

LEMMA OthersAsk ==
    ASSUME TypeOK, Others, NEW c \in Clerk,
           \/ \E p \in PO : AskConfirm(c, p)
           \/ \E i \in Invoice : \E n \in DOMAIN matches[i] : AskResolve(c, i, n)
           \/ \E i \in Invoice : \E n \in DOMAIN payments[i] : AskPay(c, i, n)
    PROVE  Others'
<1>1. UNCHANGED <<po, yardVars, invoices, billingVars, inbox, job, failures>>
  BY AskFacts
<1>2. PICK task \in {"CONFIRM", "APPROVE", "REJECT", "PAY"} : \E target :
          /\ desk' = [desk EXCEPT ![c] = [task |-> task, target |-> target]]
          /\ task \in {"APPROVE", "REJECT"} => target[2] \in DOMAIN matches[target[1]]
          /\ task = "PAY" => target[2] \in DOMAIN payments[target[1]]
  BY AskFacts
<1>3. PICK target :
          /\ desk' = [desk EXCEPT ![c] = [task |-> task, target |-> target]]
          /\ task \in {"APPROVE", "REJECT"} => target[2] \in DOMAIN matches[target[1]]
          /\ task = "PAY" => target[2] \in DOMAIN payments[target[1]]
  BY <1>2
<1>4. \A d \in Clerk : desk'[d] = IF d = c THEN [task |-> task, target |-> target] ELSE desk[d]
  BY <1>3 DEF TypeOK
<1>5. RequestsStand'
  BY <1>1, <1>3, <1>4 DEF Others, RequestsStand, billingVars
<1> QED
  BY <1>1, <1>5, OthersUnchanged DEF billingVars, yardVars

LEMMA OthersAnswer ==
    ASSUME TypeOK, Others, NEW c \in Clerk,
           Confirm(c) \/ Approve(c) \/ Reject(c) \/ Pay(c)
    PROVE  Others'
<1>1. RequestsStand
  BY DEF Others
<1>2. /\ desk' = [desk EXCEPT ![c] = NoRequest]
      /\ UNCHANGED <<yardVars, invoices, inbox, job, failures>>
      /\ \A i \in Invoice : Len(matches'[i]) = Len(matches[i])
      /\ \A i \in Invoice : matches[i] = <<>> => matches'[i] = <<>>
      /\ \A i \in Invoice : /\ DOMAIN matches[i] \subseteq DOMAIN matches'[i]
                          /\ DOMAIN payments[i] \subseteq DOMAIN payments'[i]
  BY <1>1, AnswerFacts
<1>3. EventsAreTrue' /\ OneMatchPerInvoice'
  BY <1>2 DEF Others, EventsAreTrue, OneMatchPerInvoice, Arrived
<1>4. LinesAreUnmatched'
  <2>1. job.open => job.lines \subseteq Invoice
    BY DEF TypeOK, BilledTo
  <2> QED
    BY <1>2, <2>1 DEF Others, LinesAreUnmatched
<1>5. RequestsStand'
  <2>1. ASSUME NEW d \in Clerk
        PROVE  /\ desk[d].task \in {"APPROVE", "REJECT", "PAY"} => desk[d].target[1] \in Invoice
               /\ desk'[d] = IF d = c THEN NoRequest ELSE desk[d]
    <3>1. desk[d] \in ApiRequest \cup {NoRequest}
      BY DEF TypeOK
    <3>2. desk'[d] = IF d = c THEN NoRequest ELSE desk[d]
      BY <1>2 DEF TypeOK
    <3> QED
      BY <3>1, <3>2 DEF ApiRequest, NoRequest
  <2> QED
    BY <1>1, <1>2, <2>1 DEF RequestsStand, NoRequest
<1>6. NoLostPairing'
  <2>1. ASSUME NEW i \in Invoice, matches'[i] = <<>> PROVE matches[i] = <<>>
    <3>1. matches[i] \in Seq(MatchResult)
      BY DEF TypeOK
    <3>2. Len(matches[i]) = 0
      BY <1>2, <2>1
    <3> QED
      BY <3>1, <3>2
  <2> QED
    BY <1>2, <2>1 DEF Others, NoLostPairing, Matchable, Arrived, Triggers, yardVars
<1> QED
  BY <1>3, <1>4, <1>5, <1>6 DEF Others

(* IInv holds of every reachable state.                                    *)
THEOREM Inductive == Spec => []IInv
<1>1. Init => IInv
  <2>1. Init => Others
    BY DEF Init, Others, EventsAreTrue, RequestsStand, LinesAreUnmatched, OneMatchPerInvoice,
           NoLostPairing, Matchable, Arrived, NoInvoice, NoJob, NoRequest
  <2> QED
    BY <2>1, TypeInit DEF IInv, Others
<1>2. IInv /\ [Next]_vars => IInv'
  <2> SUFFICES ASSUME IInv, [Next]_vars PROVE IInv'
    OBVIOUS
  <2>1. TypeOK /\ Others
    BY DEF IInv, Others
  <2>2. TypeOK'
    BY <2>1, TypeStep DEF Others
  <2>3. Others'
    <3>1. CASE UNCHANGED vars
      <4>1. RequestsStand'
        BY <2>1, <3>1 DEF vars, billingVars, Others, RequestsStand
      <4> QED
        BY <2>1, <3>1, <4>1, OthersUnchanged DEF vars, yardVars, billingVars
    <3>2. CASE Worker
      BY <2>1, <3>2, OthersShipment, OthersBegin, OthersCommit DEF Worker
    <3>3. CASE \E c \in Clerk : Procurement(c)
      BY <2>1, <3>3, OthersAsk, OthersAnswer DEF Procurement
    <3> QED
      BY <2>1, <3>1, <3>2, <3>3, OthersEnvironment, OthersFail DEF Next
  <2> QED
    BY <2>2, <2>3 DEF IInv, Others
<1> QED
  BY <1>1, <1>2, PTL DEF Spec

(* The tables stay well formed: only invoices that arrived are matched or  *)
(* paid, and the worker's open transaction handles a pending event.        *)
THEOREM TypeCorrect == Spec => []TypeOK
<1>1. IInv => TypeOK
  BY DEF IInv
<1> QED
  BY <1>1, Inductive, PTL

(* No invoice gets two match results, whatever is delivered again.         *)
THEOREM MatchedOnce == Spec => []OneMatchPerInvoice
<1>1. IInv => OneMatchPerInvoice
  BY DEF IInv
<1> QED
  BY <1>1, Inductive, PTL

(* Whichever of goods and invoice comes last, and however the events of    *)
(* both interleave with the worker's transactions, the pairing is made or  *)
(* still to be made.                                                       *)
THEOREM PairingsSurvive == Spec => []NoLostPairing
<1>1. IInv => NoLostPairing
  BY DEF IInv
<1> QED
  BY <1>1, Inductive, PTL

-----------------------------------------------------------------------------
(* Money follows decisions, with any number of clerks ruling at once: the  *)
(* endpoint does not lock the exception it has found open, but only clerks *)
(* that found it open rule on it, and each of them once.                   *)

Ruling(c) == desk[c].task \in {"APPROVE", "REJECT"}

(* The clerks about to rule on invoice i.                                  *)
Rulers(i) == {c \in Clerk : Ruling(c) /\ desk[c].target[1] = i}

(* The strengthening: who ruled and who is about to are different clerks.  *)
(* An exception that is still open has no ruling and no payment, so all    *)
(* clerks may find it open; each ruling then uses up one of them.          *)
RulingsUsed(i) ==
    Cardinality(PaidBy(i, "CLERK")) + Cardinality(Ruled(i, "REJECTED"))
       + Cardinality(Rulers(i)) <= Cardinality(Clerk)
PaidAfterRuling(i) ==
    PaidBy(i, "CLERK") # {} => Ruled(i, "APPROVED") \cup Ruled(i, "REJECTED") # {}
ApprovalPays(i) == Ruled(i, "APPROVED") # {} => PaidBy(i, "CLERK") # {}
SystemFollowsVerdict(i) ==
    Cardinality(PaidBy(i, "SYSTEM")) = Cardinality(Approvals(i))

RulingInv ==
    /\ IInv
    /\ \A i \in Invoice : /\ SystemFollowsVerdict(i) /\ RulingsUsed(i)
                        /\ PaidAfterRuling(i) /\ ApprovalPays(i)

(* The rows counted are finitely many.                                     *)
LEMMA RowsAreFinite ==
    ASSUME TypeOK, NEW i \in Invoice, NEW who
    PROVE  /\ IsFiniteSet(PaidBy(i, who)) /\ Cardinality(PaidBy(i, who)) \in Nat
           /\ IsFiniteSet(Approvals(i)) /\ Cardinality(Approvals(i)) \in Nat
           /\ IsFiniteSet(Ruled(i, who)) /\ Cardinality(Ruled(i, who)) \in Nat
<1>1. matches[i] \in Seq(MatchResult) /\ payments[i] \in Seq(Payment)
  BY DEF TypeOK
<1>2. /\ Len(matches[i]) \in Nat /\ DOMAIN matches[i] = 1 .. Len(matches[i])
      /\ Len(payments[i]) \in Nat /\ DOMAIN payments[i] = 1 .. Len(payments[i])
  BY <1>1
<1>3. IsFiniteSet(DOMAIN matches[i]) /\ IsFiniteSet(DOMAIN payments[i])
  BY <1>2, FS_Interval, SMTT(30)
<1>4. /\ PaidBy(i, who) \subseteq DOMAIN payments[i]
      /\ Approvals(i) \subseteq DOMAIN matches[i] /\ Ruled(i, who) \subseteq DOMAIN matches[i]
  BY DEF PaidBy, Approvals, Ruled
<1>5. IsFiniteSet(PaidBy(i, who)) /\ IsFiniteSet(Approvals(i)) /\ IsFiniteSet(Ruled(i, who))
  BY <1>3, <1>4, FS_Subset
<1> QED
  BY <1>5, FS_CardinalityType

LEMMA RulersAreFew ==
    ASSUME NEW i
    PROVE  /\ IsFiniteSet(Rulers(i)) /\ Cardinality(Rulers(i)) \in Nat
           /\ Cardinality(Clerk) \in Nat /\ Cardinality(Rulers(i)) <= Cardinality(Clerk)
<1>1. IsFiniteSet(Clerk) /\ Rulers(i) \in SUBSET Clerk
  BY ThreeWayMatchAssumption DEF Rulers
<1> QED
  BY <1>1, FS_Subset, FS_CardinalityType

LEMMA RulersAreFewNext ==
    ASSUME NEW i
    PROVE  /\ IsFiniteSet(Rulers(i)') /\ Cardinality(Rulers(i)') \in Nat
           /\ Cardinality(Rulers(i)') <= Cardinality(Clerk)
<1>1. IsFiniteSet(Clerk) /\ Rulers(i)' \in SUBSET Clerk
  BY ThreeWayMatchAssumption DEF Rulers
<1> QED
  BY <1>1, FS_Subset, FS_CardinalityType

(* What a step may do to the touchless side of an invoice: nothing that    *)
(* counts, or one payment and one approving verdict more.                  *)
SystemStep(i) ==
    \/ UNCHANGED <<PaidBy(i, "SYSTEM"), Approvals(i)>>
    \/ \E m, n : /\ m \notin PaidBy(i, "SYSTEM") /\ n \notin Approvals(i)
                 /\ PaidBy(i, "SYSTEM")' = PaidBy(i, "SYSTEM") \cup {m}
                 /\ Approvals(i)' = Approvals(i) \cup {n}

(* And to the clerks' side: nothing, a clerk finds the exception open, or  *)
(* one of those that did approves or rejects.                              *)
Untouched(i) ==
    UNCHANGED <<PaidBy(i, "CLERK"), Ruled(i, "APPROVED"), Ruled(i, "REJECTED")>>
Ruler(i, c) == c \in Rulers(i) /\ Rulers(i)' = Rulers(i) \ {c}

Approving(i) ==
    \E c, m : /\ Ruler(i, c)
              /\ m \notin PaidBy(i, "CLERK")
              /\ PaidBy(i, "CLERK")' = PaidBy(i, "CLERK") \cup {m}
              /\ Ruled(i, "APPROVED")' # {}
              /\ Ruled(i, "REJECTED")' \subseteq Ruled(i, "REJECTED")

Rejecting(i) ==
    \E c, n : /\ Ruler(i, c)
              /\ PaidBy(i, "CLERK")' = PaidBy(i, "CLERK")
              /\ Ruled(i, "APPROVED")' \subseteq Ruled(i, "APPROVED")
              /\ Ruled(i, "REJECTED")' = Ruled(i, "REJECTED") \cup {n}

ClerkStep(i) ==
    \/ Untouched(i) /\ Rulers(i)' = Rulers(i)
    \/ Untouched(i) /\ Ruled(i, "APPROVED") \cup Ruled(i, "REJECTED") = {}
    \/ Approving(i)
    \/ Rejecting(i)

LEMMA BothGrow ==
    ASSUME NEW A, NEW B, IsFiniteSet(A), IsFiniteSet(B), Cardinality(A) = Cardinality(B),
           NEW m, NEW n, m \notin A, n \notin B
    PROVE  Cardinality(A \cup {m}) = Cardinality(B \cup {n})
<1>1. Cardinality(A \cup {m}) = Cardinality(A) + 1
  BY FS_AddElement
<1>2. Cardinality(B \cup {n}) = Cardinality(B) + 1
  BY FS_AddElement
<1> QED
  BY <1>1, <1>2

LEMMA SystemKept ==
    ASSUME TypeOK, NEW i \in Invoice, SystemFollowsVerdict(i), SystemStep(i)
    PROVE  SystemFollowsVerdict(i)'
<1>1. IsFiniteSet(PaidBy(i, "SYSTEM")) /\ IsFiniteSet(Approvals(i))
  BY RowsAreFinite
<1> QED
  BY <1>1, BothGrow DEF SystemFollowsVerdict, SystemStep

(* Every ruling uses up one of the clerks that found the exception open.   *)
LEMMA RulingsKept ==
    ASSUME TypeOK, NEW i \in Invoice, RulingsUsed(i), PaidAfterRuling(i), ClerkStep(i)
    PROVE  RulingsUsed(i)'
<1> DEFINE p == Cardinality(PaidBy(i, "CLERK"))
           r == Cardinality(Ruled(i, "REJECTED"))
           u == Cardinality(Rulers(i))
           all == Cardinality(Clerk)
<1>1. /\ IsFiniteSet(PaidBy(i, "CLERK")) /\ IsFiniteSet(Ruled(i, "REJECTED"))
      /\ p \in Nat /\ r \in Nat
  BY RowsAreFinite
<1>2. IsFiniteSet(Rulers(i)) /\ u \in Nat /\ all \in Nat
  BY RulersAreFew
<1>3. p + r + u <= all
  BY DEF RulingsUsed
<1>4. SUFFICES Cardinality(PaidBy(i, "CLERK")') + Cardinality(Ruled(i, "REJECTED")')
                  + Cardinality(Rulers(i)') <= all
  BY DEF RulingsUsed
<1>5. CASE Untouched(i) /\ Rulers(i)' = Rulers(i)
  BY <1>3, <1>5 DEF Untouched
<1>6. CASE Untouched(i) /\ Ruled(i, "APPROVED") \cup Ruled(i, "REJECTED") = {}
  <2>1. PaidBy(i, "CLERK")' = {} /\ Ruled(i, "REJECTED")' = {}
    BY <1>6 DEF Untouched, PaidAfterRuling
  <2>2. /\ Cardinality(PaidBy(i, "CLERK")') = 0 /\ Cardinality(Ruled(i, "REJECTED")') = 0
    BY <2>1, FS_EmptySet
  <2>3. Cardinality(Rulers(i)') \in Nat /\ Cardinality(Rulers(i)') <= all
    BY RulersAreFewNext
  <2> QED
    BY <1>2, <2>2, <2>3
<1>7. CASE Approving(i)
  <2>1. PICK c, m : /\ Ruler(i, c)
                    /\ m \notin PaidBy(i, "CLERK")
                    /\ PaidBy(i, "CLERK")' = PaidBy(i, "CLERK") \cup {m}
                    /\ Ruled(i, "REJECTED")' \subseteq Ruled(i, "REJECTED")
    BY <1>7 DEF Approving
  <2>2. Cardinality(PaidBy(i, "CLERK")') = p + 1
    BY <1>1, <2>1, FS_AddElement
  <2>3. Cardinality(Rulers(i)') = u - 1
    BY <1>2, <2>1, FS_RemoveElement DEF Ruler
  <2>4. Cardinality(Ruled(i, "REJECTED")') \in Nat /\ Cardinality(Ruled(i, "REJECTED")') <= r
    BY <1>1, <2>1, FS_Subset, FS_CardinalityType
  <2> HIDE DEF p, r, u, all
  <2> QED
    BY <1>1, <1>2, <1>3, <2>2, <2>3, <2>4
<1>8. CASE Rejecting(i)
  <2>1. PICK c, n : /\ Ruler(i, c)
                    /\ PaidBy(i, "CLERK")' = PaidBy(i, "CLERK")
                    /\ Ruled(i, "REJECTED")' = Ruled(i, "REJECTED") \cup {n}
    BY <1>8 DEF Rejecting
  <2>2. Cardinality(PaidBy(i, "CLERK")') = p
    BY <2>1
  <2>3. Cardinality(Rulers(i)') = u - 1
    BY <1>2, <2>1, FS_RemoveElement DEF Ruler
  <2>4. /\ Cardinality(Ruled(i, "REJECTED")') = r \/ Cardinality(Ruled(i, "REJECTED")') = r + 1
    BY <1>1, <2>1, FS_AddElement
  <2> HIDE DEF p, r, u, all
  <2> QED
    BY <1>1, <1>2, <1>3, <2>2, <2>3, <2>4
<1> QED
  BY <1>5, <1>6, <1>7, <1>8 DEF ClerkStep

LEMMA ClerkKept ==
    ASSUME TypeOK, NEW i \in Invoice, RulingsUsed(i), PaidAfterRuling(i), ApprovalPays(i),
           ClerkStep(i)
    PROVE  RulingsUsed(i)' /\ PaidAfterRuling(i)' /\ ApprovalPays(i)'
<1>1. RulingsUsed(i)'
  BY RulingsKept
<1>2. PaidAfterRuling(i)' /\ ApprovalPays(i)'
  BY DEF ClerkStep, Untouched, Approving, Rejecting, PaidAfterRuling, ApprovalPays
<1> QED
  BY <1>1, <1>2

(* A payment that is added or whose status is changed.                     *)
LEMMA PaymentAdded ==
    ASSUME TypeOK, NEW i \in Invoice, NEW e \in Payment, NEW who,
           payments'[i] = Append(payments[i], e)
    PROVE  /\ e.by = who => /\ PaidBy(i, who)' = PaidBy(i, who) \cup {Len(payments[i]) + 1}
                            /\ Len(payments[i]) + 1 \notin PaidBy(i, who)
           /\ e.by # who => PaidBy(i, who)' = PaidBy(i, who)
<1>1. payments[i] \in Seq(Payment) /\ Len(payments[i]) \in Nat
  BY DEF TypeOK
<1>2. /\ payments'[i] \in Seq(Payment) /\ Len(payments'[i]) = Len(payments[i]) + 1
      /\ \A k \in 1 .. Len(payments[i]) : payments'[i][k] = payments[i][k]
      /\ payments'[i][Len(payments[i]) + 1] = e
  BY <1>1, AppendEntry
<1>3. DOMAIN payments[i] = 1 .. Len(payments[i])
  BY <1>1
<1>4. DOMAIN payments'[i] = 1 .. Len(payments[i]) + 1
  BY <1>2
<1>5. Len(payments[i]) + 1 \notin DOMAIN payments[i]
  BY <1>1, <1>3
<1>6. DOMAIN payments'[i] = DOMAIN payments[i] \cup {Len(payments[i]) + 1}
  BY <1>1, <1>3, <1>4
<1> QED
  BY <1>2, <1>3, <1>5, <1>6 DEF PaidBy

(* A match result that is added rules on nothing.                          *)
LEMMA MatchAdded ==
    ASSUME TypeOK, NEW i \in Invoice, NEW e \in MatchResult,
           e.exception \notin {"APPROVED", "REJECTED"},
           matches'[i] = Append(matches[i], e)
    PROVE  /\ e.verdict = "APPROVED" => /\ Approvals(i)' = Approvals(i) \cup {Len(matches[i]) + 1}
                                        /\ Len(matches[i]) + 1 \notin Approvals(i)
           /\ e.verdict # "APPROVED" => Approvals(i)' = Approvals(i)
           /\ Ruled(i, "APPROVED")' = Ruled(i, "APPROVED")
           /\ Ruled(i, "REJECTED")' = Ruled(i, "REJECTED")
<1>1. matches[i] \in Seq(MatchResult) /\ Len(matches[i]) \in Nat
  BY DEF TypeOK
<1>2. /\ matches'[i] \in Seq(MatchResult) /\ Len(matches'[i]) = Len(matches[i]) + 1
      /\ \A k \in 1 .. Len(matches[i]) : matches'[i][k] = matches[i][k]
      /\ matches'[i][Len(matches[i]) + 1] = e
  BY <1>1, AppendEntry
<1>3. DOMAIN matches[i] = 1 .. Len(matches[i])
  BY <1>1
<1>4. DOMAIN matches'[i] = 1 .. Len(matches[i]) + 1
  BY <1>2
<1>5. Len(matches[i]) + 1 \notin DOMAIN matches[i]
  BY <1>1, <1>3
<1>6. DOMAIN matches'[i] = DOMAIN matches[i] \cup {Len(matches[i]) + 1}
  BY <1>1, <1>3, <1>4
<1> QED
  BY <1>2, <1>3, <1>5, <1>6 DEF Approvals, Ruled

(* Rows that are not touched.                                              *)
LEMMA SamePayments ==
    ASSUME NEW i, NEW who, payments'[i] = payments[i]
    PROVE  PaidBy(i, who)' = PaidBy(i, who)
  BY DEF PaidBy

LEMMA SameMatches ==
    ASSUME NEW i, matches'[i] = matches[i]
    PROVE  /\ Approvals(i)' = Approvals(i)
           /\ Ruled(i, "APPROVED")' = Ruled(i, "APPROVED")
           /\ Ruled(i, "REJECTED")' = Ruled(i, "REJECTED")
  BY DEF Approvals, Ruled

LEMMA SameRulers == ASSUME NEW i, desk' = desk PROVE Rulers(i)' = Rulers(i)
  BY DEF Rulers, Ruling

(* The worker's verdicts and payments are written together.                *)
LEMMA CommitPaysByVerdict ==
    ASSUME TypeOK, CommitJob, NEW i \in Invoice
    PROVE  SystemStep(i) /\ ClerkStep(i)
<1>0. Rulers(i)' = Rulers(i)
  BY SameRulers DEF CommitJob
<1>1. /\ matches'[i] = IF i \in job.lines THEN Append(matches[i], MatchRow(JobVerdict(i)))
                                          ELSE matches[i]
      /\ payments'[i] = IF i \in job.lines /\ JobVerdict(i) = "APPROVED"
                        THEN Append(payments[i], SystemPayment) ELSE payments[i]
  BY DEF CommitJob, WriteMatches
<1>2. /\ MatchRow(JobVerdict(i)) \in MatchResult
      /\ MatchRow(JobVerdict(i)).exception \notin {"APPROVED", "REJECTED"}
      /\ MatchRow(JobVerdict(i)).verdict = JobVerdict(i)
  BY JudgeIsVerdict DEF JobVerdict, MatchRow, MatchResult
<1>3. SystemPayment \in Payment /\ SystemPayment.by = "SYSTEM"
  BY DEF SystemPayment, Payment
<1>4. CASE i \notin job.lines
  BY <1>0, <1>1, <1>4, SamePayments, SameMatches DEF SystemStep, ClerkStep, Untouched
<1>5. CASE i \in job.lines /\ JobVerdict(i) # "APPROVED"
  <2>1. /\ PaidBy(i, "SYSTEM")' = PaidBy(i, "SYSTEM") /\ PaidBy(i, "CLERK")' = PaidBy(i, "CLERK")
    BY <1>1, <1>5, SamePayments
  <2>2. /\ Approvals(i)' = Approvals(i)
        /\ Ruled(i, "APPROVED")' = Ruled(i, "APPROVED")
        /\ Ruled(i, "REJECTED")' = Ruled(i, "REJECTED")
    BY <1>1, <1>2, <1>5, MatchAdded
  <2> QED
    BY <1>0, <2>1, <2>2 DEF SystemStep, ClerkStep, Untouched
<1>6. CASE i \in job.lines /\ JobVerdict(i) = "APPROVED"
  <2>1. /\ PaidBy(i, "SYSTEM")' = PaidBy(i, "SYSTEM") \cup {Len(payments[i]) + 1}
        /\ Len(payments[i]) + 1 \notin PaidBy(i, "SYSTEM")
        /\ PaidBy(i, "CLERK")' = PaidBy(i, "CLERK")
    BY <1>1, <1>3, <1>6, PaymentAdded
  <2>2. /\ Approvals(i)' = Approvals(i) \cup {Len(matches[i]) + 1}
        /\ Len(matches[i]) + 1 \notin Approvals(i)
        /\ Ruled(i, "APPROVED")' = Ruled(i, "APPROVED")
        /\ Ruled(i, "REJECTED")' = Ruled(i, "REJECTED")
    BY <1>1, <1>2, <1>6, MatchAdded
  <2> QED
    BY <1>0, <2>1, <2>2 DEF SystemStep, ClerkStep, Untouched
<1> QED
  BY <1>4, <1>5, <1>6

(* A ruling names a match result that is there.                            *)
LEMMA RulingTarget ==
    ASSUME TypeOK, RequestsStand, NEW c \in Clerk, Ruling(c)
    PROVE  /\ desk[c].target[1] \in Invoice /\ desk[c].target[2] \in Nat
           /\ desk[c].target[2] \in DOMAIN matches[desk[c].target[1]]
<1>1. desk[c] \in ApiRequest
  BY DEF TypeOK, Ruling, NoRequest
<1>2. desk[c].target \in Invoice \X Nat
  BY <1>1 DEF ApiRequest, Ruling
<1> QED
  BY <1>2 DEF RequestsStand, Ruling

(* A ruling on exception n of invoice i.                                   *)
LEMMA RulingWritten ==
    ASSUME TypeOK, NEW i \in Invoice, NEW n \in DOMAIN matches[i],
           NEW ruling \in {"APPROVED", "REJECTED"},
           matches' = [matches EXCEPT ![i][n].exception = ruling]
    PROVE  /\ Approvals(i)' = Approvals(i)
           /\ Ruled(i, ruling)' = Ruled(i, ruling) \cup {n}
           /\ \A other : other # ruling => Ruled(i, other)' \subseteq Ruled(i, other)
<1>1. matches[i] \in Seq(MatchResult) /\ DOMAIN matches[i] = 1 .. Len(matches[i])
  BY DEF TypeOK
<1>2. matches[i][n] \in MatchResult
  BY <1>1
<1>3. matches'[i] = [matches[i] EXCEPT ![n] = [@ EXCEPT !.exception = ruling]]
  BY DEF TypeOK
<1>4. /\ DOMAIN matches'[i] = DOMAIN matches[i]
      /\ \A k \in DOMAIN matches[i] : k # n => matches'[i][k] = matches[i][k]
      /\ matches'[i][n] = [matches[i][n] EXCEPT !.exception = ruling]
  BY <1>1, <1>3
<1>5. matches'[i][n].exception = ruling /\ matches'[i][n].verdict = matches[i][n].verdict
  BY <1>2, <1>4 DEF MatchResult
<1> QED
  BY <1>4, <1>5 DEF Approvals, Ruled

(* An answer of the API: a clerk who approves rules and pays, one who      *)
(* rejects rules, and a payment or confirmation changes no count.          *)
LEMMA AnswerPaysByRuling ==
    ASSUME TypeOK, RequestsStand, NEW c \in Clerk, NEW i \in Invoice,
           Confirm(c) \/ Approve(c) \/ Reject(c) \/ Pay(c)
    PROVE  SystemStep(i) /\ ClerkStep(i)
<1> DEFINE j == desk[c].target[1]
           n == desk[c].target[2]
<1>1. desk[c].task \in {"APPROVE", "REJECT", "PAY"} => j \in Invoice
  <2>1. desk[c] \in ApiRequest \cup {NoRequest}
    BY DEF TypeOK
  <2> QED
    BY <2>1 DEF ApiRequest, NoRequest
<1>2. Ruling(c) => n \in DOMAIN matches[j]
  BY DEF Ruling, RequestsStand
<1>3. desk[c].task = "PAY" => n \in DOMAIN payments[j]
  BY DEF RequestsStand
<1>4. Rulers(i)' = Rulers(i) \ {c}
  <2>1. desk' = [desk EXCEPT ![c] = NoRequest]
    BY AnswerFacts
  <2>2. \A d \in Clerk : desk'[d] = IF d = c THEN NoRequest ELSE desk[d]
    BY <2>1 DEF TypeOK
  <2> QED
    BY <2>2 DEF Rulers, Ruling, NoRequest
<1>5. c \in Rulers(i) <=> Ruling(c) /\ j = i
  BY DEF Rulers
<1> HIDE DEF j, n
<1>6. ASSUME UNCHANGED <<PaidBy(i, "SYSTEM"), PaidBy(i, "CLERK"), Approvals(i),
                         Ruled(i, "APPROVED"), Ruled(i, "REJECTED")>>,
             c \notin Rulers(i)
      PROVE  SystemStep(i) /\ ClerkStep(i)
  BY <1>4, <1>6 DEF SystemStep, ClerkStep, Untouched
<1>7. CASE Confirm(c)
  <2>1. UNCHANGED <<matches, payments>> /\ ~Ruling(c)
    BY <1>7 DEF Confirm, billingVars, Answer, Ruling
  <2> QED
    BY <1>5, <1>6, <2>1, SamePayments, SameMatches
<1>8. CASE Approve(c) /\ j = i
  <2> DEFINE row == [by |-> "CLERK", status |-> "APPROVED"]
  <2>1. /\ Ruling(c) /\ matches' = [matches EXCEPT ![j][n].exception = "APPROVED"]
        /\ payments' = [payments EXCEPT ![j] = Append(payments[j], row)]
    BY <1>8 DEF Approve, Answer, Ruling, j, n
  <2>2. row \in Payment /\ row.by = "CLERK"
    BY DEF Payment
  <2> HIDE DEF row
  <2>3. payments'[i] = Append(payments[i], row)
    BY <1>8, <2>1 DEF TypeOK
  <2>4. /\ PaidBy(i, "SYSTEM")' = PaidBy(i, "SYSTEM")
        /\ PaidBy(i, "CLERK")' = PaidBy(i, "CLERK") \cup {Len(payments[i]) + 1}
        /\ Len(payments[i]) + 1 \notin PaidBy(i, "CLERK")
    BY <2>2, <2>3, PaymentAdded
  <2>5. /\ Approvals(i)' = Approvals(i) /\ Ruled(i, "APPROVED")' # {}
        /\ Ruled(i, "REJECTED")' \subseteq Ruled(i, "REJECTED")
    BY <1>2, <1>8, <2>1, RulingWritten
  <2>6. Ruler(i, c)
    BY <1>4, <1>5, <1>8, <2>1 DEF Ruler
  <2> QED
    BY <2>4, <2>5, <2>6 DEF SystemStep, ClerkStep, Approving
<1>9. CASE Reject(c) /\ j = i
  <2>1. /\ Ruling(c) /\ matches' = [matches EXCEPT ![j][n].exception = "REJECTED"]
        /\ payments'[i] = payments[i]
    BY <1>9 DEF Reject, Answer, Ruling, j, n
  <2>2. /\ Approvals(i)' = Approvals(i)
        /\ Ruled(i, "REJECTED")' = Ruled(i, "REJECTED") \cup {n}
        /\ Ruled(i, "APPROVED")' \subseteq Ruled(i, "APPROVED")
    BY <1>2, <1>9, <2>1, RulingWritten
  <2>3. /\ PaidBy(i, "SYSTEM")' = PaidBy(i, "SYSTEM")
        /\ PaidBy(i, "CLERK")' = PaidBy(i, "CLERK")
    BY <2>1, SamePayments
  <2>4. Ruler(i, c)
    BY <1>4, <1>5, <1>9, <2>1 DEF Ruler
  <2> QED
    BY <2>2, <2>3, <2>4 DEF SystemStep, ClerkStep, Rejecting
<1>10. CASE Pay(c) /\ j = i
  <2>1. /\ desk[c].task = "PAY" /\ matches'[i] = matches[i]
        /\ payments' = [payments EXCEPT ![j][n].status = "PAID"]
    BY <1>10 DEF Pay, Answer, j, n
  <2>2. /\ payments[i] \in Seq(Payment) /\ n \in DOMAIN payments[i]
        /\ payments'[i] = [payments[i] EXCEPT ![n] = [@ EXCEPT !.status = "PAID"]]
    BY <1>3, <1>10, <2>1 DEF TypeOK
  <2>3. payments[i][n] \in Payment
    BY <2>2
  <2>4. /\ DOMAIN payments'[i] = DOMAIN payments[i]
        /\ \A k \in DOMAIN payments[i] : k # n => payments'[i][k] = payments[i][k]
        /\ payments'[i][n].by = payments[i][n].by
    BY <2>2, <2>3 DEF Payment
  <2>5. \A who : PaidBy(i, who)' = PaidBy(i, who)
    BY <2>2, <2>4 DEF PaidBy
  <2>6. ~Ruling(c)
    BY <2>1 DEF Ruling
  <2> QED
    BY <1>5, <1>6, <2>1, <2>5, <2>6, SameMatches
<1>11. CASE (Approve(c) \/ Reject(c) \/ Pay(c)) /\ j # i
  <2>1. j \in Invoice
    BY <1>1, <1>11 DEF Approve, Reject, Pay, Answer
  <2>2. matches'[i] = matches[i] /\ payments'[i] = payments[i]
    BY <1>11, <2>1 DEF Approve, Reject, Pay, TypeOK, j
  <2> QED
    BY <1>5, <1>6, <1>11, <2>2, SamePayments, SameMatches
<1> QED
  BY <1>7, <1>8, <1>9, <1>10, <1>11

(* A clerk who asks to rule has found the exception open, and it is the    *)
(* only match result of its invoice.                                       *)
LEMMA AskFindsOpen ==
    ASSUME TypeOK, OneMatchPerInvoice, NEW c \in Clerk, NEW i \in Invoice,
           \/ \E p \in PO : AskConfirm(c, p)
           \/ \E j \in Invoice : \E n \in DOMAIN matches[j] : AskResolve(c, j, n)
           \/ \E j \in Invoice : \E n \in DOMAIN payments[j] : AskPay(c, j, n)
    PROVE  SystemStep(i) /\ ClerkStep(i)
<1>1. UNCHANGED <<matches, payments>>
  BY AskFacts DEF billingVars
<1>2. SystemStep(i) /\ Untouched(i)
  BY <1>1, SamePayments, SameMatches DEF SystemStep, Untouched
<1>3. ASSUME NEW task, NEW target,
             desk' = [desk EXCEPT ![c] = [task |-> task, target |-> target]],
             desk[c] = NoRequest,
             task \in {"APPROVE", "REJECT"} => target[1] # i
      PROVE  Rulers(i)' = Rulers(i)
  <2> DEFINE request == [task |-> task, target |-> target]
  <2>1. request.task = task /\ request.target = target
    OBVIOUS
  <2> HIDE DEF request
  <2>2. \A d \in Clerk : desk'[d] = IF d = c THEN request ELSE desk[d]
    BY <1>3 DEF TypeOK, request
  <2>3. \A d \in Clerk : (Ruling(d)' /\ desk'[d].target[1] = i)
                             <=> (Ruling(d) /\ desk[d].target[1] = i)
    BY <1>3, <2>1, <2>2 DEF Ruling, NoRequest
  <2> QED
    BY <2>3 DEF Rulers
<1>4. CASE \E p \in PO : AskConfirm(c, p)
  <2>1. PICK p \in PO : AskConfirm(c, p)
    BY <1>4
  <2>2. /\ desk' = [desk EXCEPT ![c] = [task |-> "CONFIRM", target |-> p]]
        /\ desk[c] = NoRequest
    BY <2>1 DEF AskConfirm, Ask
  <2>3. Rulers(i)' = Rulers(i)
    BY <1>3, <2>2
  <2> QED
    BY <1>2, <2>3 DEF ClerkStep
<1>5. CASE \E j \in Invoice : \E n \in DOMAIN payments[j] : AskPay(c, j, n)
  <2>1. PICK j \in Invoice : \E n \in DOMAIN payments[j] : AskPay(c, j, n)
    BY <1>5
  <2>2. PICK n \in DOMAIN payments[j] : AskPay(c, j, n)
    BY <2>1
  <2>3. /\ desk' = [desk EXCEPT ![c] = [task |-> "PAY", target |-> <<j, n>>]]
        /\ desk[c] = NoRequest
    BY <2>2 DEF AskPay, Ask
  <2>4. Rulers(i)' = Rulers(i)
    BY <1>3, <2>3
  <2> QED
    BY <1>2, <2>4 DEF ClerkStep
<1>6. CASE \E j \in Invoice : \E n \in DOMAIN matches[j] : AskResolve(c, j, n)
  <2>1. PICK j \in Invoice : \E n \in DOMAIN matches[j] : AskResolve(c, j, n)
    BY <1>6
  <2>2. PICK n \in DOMAIN matches[j] : AskResolve(c, j, n)
    BY <2>1
  <2>3. /\ matches[j][n].exception = "OPEN"
        /\ \E ruling \in {"APPROVE", "REJECT"} :
              desk' = [desk EXCEPT ![c] = [task |-> ruling, target |-> <<j, n>>]]
        /\ desk[c] = NoRequest
    BY <2>2 DEF AskResolve, Ask
  <2>4. CASE j # i
    <3>1. PICK ruling \in {"APPROVE", "REJECT"} :
              desk' = [desk EXCEPT ![c] = [task |-> ruling, target |-> <<j, n>>]]
      BY <2>3
    <3>2. Rulers(i)' = Rulers(i)
      BY <1>3, <2>3, <2>4, <3>1
    <3> QED
      BY <1>2, <3>2 DEF ClerkStep
  <2>5. CASE j = i
    <3>1. /\ Len(matches[i]) \in Nat /\ Len(matches[i]) <= 1
          /\ DOMAIN matches[i] = 1 .. Len(matches[i])
      BY DEF TypeOK, OneMatchPerInvoice
    <3>2. \A m \in DOMAIN matches[i] : m = n
      BY <2>5, <3>1
    <3>3. Ruled(i, "APPROVED") \cup Ruled(i, "REJECTED") = {}
      BY <2>3, <2>5, <3>2 DEF Ruled
    <3> QED
      BY <1>2, <3>3 DEF ClerkStep
  <2> QED
    BY <2>4, <2>5
<1> QED
  BY <1>4, <1>5, <1>6

LEMMA RulingStep ==
    ASSUME RulingInv, IInv', [Next]_vars
    PROVE  RulingInv'
<1>0. TypeOK /\ RequestsStand /\ OneMatchPerInvoice
  BY DEF RulingInv, IInv
<1>1. ASSUME NEW i \in Invoice PROVE SystemStep(i) /\ ClerkStep(i)
  <2>1. ASSUME UNCHANGED <<matches, payments, desk>> PROVE SystemStep(i) /\ ClerkStep(i)
    BY <2>1, SamePayments, SameMatches, SameRulers DEF SystemStep, ClerkStep, Untouched
  <2>2. CASE CommitJob
    BY <1>0, <2>2, CommitPaysByVerdict
  <2>3. CASE \E c \in Clerk : Procurement(c)
    BY <1>0, <2>3, AnswerPaysByRuling, AskFindsOpen DEF Procurement
  <2>4. CASE (Worker /\ ~CommitJob) \/ FailJob
    BY <2>1, <2>4 DEF Worker, HandleShipment, BeginReceipt, BeginInvoice,
       BeginInvoiceWithoutPO, FailJob, billingVars
  <2>5. CASE Environment \/ UNCHANGED vars
    BY <2>1, <2>5 DEF Environment, CreateShipment, Unload, CreateInvoice, vars, billingVars
  <2> QED
    BY <2>2, <2>3, <2>4, <2>5 DEF Next
<1>2. ASSUME NEW i \in Invoice
      PROVE  /\ SystemFollowsVerdict(i)' /\ RulingsUsed(i)'
             /\ PaidAfterRuling(i)' /\ ApprovalPays(i)'
  BY <1>0, <1>1, SystemKept, ClerkKept DEF RulingInv
<1> QED
  BY <1>2 DEF RulingInv

LEMMA RulingInit ==
    ASSUME Init, NEW i \in Invoice
    PROVE  /\ SystemFollowsVerdict(i) /\ RulingsUsed(i)
           /\ PaidAfterRuling(i) /\ ApprovalPays(i)
<1>1. /\ PaidBy(i, "SYSTEM") = {} /\ PaidBy(i, "CLERK") = {} /\ Approvals(i) = {}
      /\ Ruled(i, "APPROVED") = {} /\ Ruled(i, "REJECTED") = {}
  BY DEF Init, PaidBy, Approvals, Ruled
<1>2. Cardinality({}) = 0
  BY FS_EmptySet
<1>3. Cardinality(Rulers(i)) \in Nat /\ Cardinality(Clerk) \in Nat
      /\ Cardinality(Rulers(i)) <= Cardinality(Clerk)
  BY RulersAreFew
<1>4. RulingsUsed(i)
  BY <1>1, <1>2, <1>3 DEF RulingsUsed
<1> QED
  BY <1>1, <1>4 DEF SystemFollowsVerdict, PaidAfterRuling, ApprovalPays

LEMMA RulingFollows == ASSUME RulingInv PROVE PaymentFollowsRuling
<1>1. ASSUME NEW i \in Invoice
      PROVE  Cardinality(PaidBy(i, "CLERK")) + Cardinality(Ruled(i, "REJECTED"))
               <= Cardinality(Clerk)
  <2>1. RulingsUsed(i) /\ TypeOK
    BY DEF RulingInv, IInv
  <2>2. Cardinality(PaidBy(i, "CLERK")) \in Nat /\ Cardinality(Ruled(i, "REJECTED")) \in Nat
    BY <2>1, RowsAreFinite
  <2>3. Cardinality(Rulers(i)) \in Nat /\ Cardinality(Clerk) \in Nat
    BY RulersAreFew
  <2> QED
    BY <2>1, <2>2, <2>3 DEF RulingsUsed
<1> QED
  BY <1>1 DEF RulingInv, PaymentFollowsRuling, SystemFollowsVerdict, PaidAfterRuling,
     ApprovalPays

(* Every SYSTEM payment answers an approving verdict, one for one; a       *)
(* clerk's payment exists only after a ruling and does after an approval;  *)
(* and however many clerks rule on an exception at once, each of them does *)
(* so once, whatever is delivered again, fails, or is paid meanwhile.      *)
THEOREM MoneyFollowsRulings == Spec => []PaymentFollowsRuling
<1>1. Init /\ IInv => RulingInv
  BY RulingInit DEF RulingInv
<1>2. RulingInv /\ IInv' /\ [Next]_vars => RulingInv'
  BY RulingStep
<1>3. RulingInv => PaymentFollowsRuling
  BY RulingFollows
<1> QED
  BY <1>1, <1>2, <1>3, Inductive, PTL DEF Spec

-----------------------------------------------------------------------------
(* Touchless payments are bounded by what re-opens a PO, as long as no     *)
(* late confirmation re-opens one that is settled.                         *)

ConfirmsInTime ==
    \A c \in Clerk : desk[c].task = "CONFIRM" => po[desk[c].target] \notin Settled

Pending(p) == {k \in 1 .. Len(inbox) : inbox[k].po = p /\ inbox[k].type # "INVOICE_RECEIVED"}
Unsettled(p) == IF po[p] \in Settled THEN 0 ELSE 1

(* The open job handles the event it has read, and only a receipt's job    *)
(* sets the status of the PO by itself.                                    *)
JobFitsEvent ==
    job.open =>
        /\ inbox[job.event].po = job.po
        /\ inbox[job.event].type \in {"GOODS_RECEIVED", "INVOICE_RECEIVED"}
        /\ job.sets => inbox[job.event].type = "GOODS_RECEIVED"

(* An invoice's job that saw the PO unsettled may still pay it, whatever   *)
(* has become of the PO since.                                             *)
JobMayPay ==
    job.open /\ job.po # NoPO /\ job.seen \notin Settled
            /\ inbox[job.event].type = "INVOICE_RECEIVED" =>
        Cardinality(Touchless(job.po)) <= Handled(job.po)

OpeningInv ==
    /\ IInv
    /\ JobFitsEvent
    /\ \A p \in PO : IsFiniteSet(Touchless(p))
    /\ OnePaymentPerOpening
    /\ JobMayPay

(* Events that wait are counted.                                           *)
LEMMA PendingCount ==
    ASSUME TypeOK, NEW p
    PROVE  /\ IsFiniteSet(Pending(p)) /\ Cardinality(Pending(p)) \in Nat
           /\ Handled(p) = shipments[p] + Len(receipts[p]) - Cardinality(Pending(p))
<1>1. Len(inbox) \in Nat /\ IsFiniteSet(1 .. Len(inbox))
  BY FS_Interval DEF TypeOK
<1>2. IsFiniteSet(Pending(p))
  BY <1>1, FS_Subset DEF Pending
<1> QED
  BY <1>2, FS_CardinalityType DEF Handled, Pending

LEMMA PendingAppended ==
    ASSUME TypeOK, NEW e \in Event, inbox' = Append(inbox, e), NEW p
    PROVE  Cardinality(Pending(p))' =
              Cardinality(Pending(p))
                 + (IF e.po = p /\ e.type # "INVOICE_RECEIVED" THEN 1 ELSE 0)
<1>1. /\ Len(inbox) \in Nat /\ Len(inbox') = Len(inbox) + 1
      /\ \A k \in 1 .. Len(inbox) : inbox'[k] = inbox[k]
      /\ inbox'[Len(inbox) + 1] = e
  BY AppendEntry DEF TypeOK
<1>2. Len(inbox) + 1 \notin Pending(p)
  BY <1>1 DEF Pending
<1>3. CASE e.po = p /\ e.type # "INVOICE_RECEIVED"
  <2>1. Pending(p)' = Pending(p) \cup {Len(inbox) + 1}
    BY <1>1, <1>3 DEF Pending
  <2> QED
    BY <1>2, <1>3, <2>1, PendingCount, FS_AddElement, ZenonT(40)
<1>4. CASE ~(e.po = p /\ e.type # "INVOICE_RECEIVED")
  <2>1. Pending(p)' = Pending(p)
    BY <1>1, <1>4 DEF Pending
  <2> QED
    BY <1>4, <2>1, PendingCount
<1> QED
  BY <1>3, <1>4

LEMMA PendingHandled ==
    ASSUME TypeOK, NEW k \in 1 .. Len(inbox), inbox' = RemoveAt(inbox, k), NEW p
    PROVE  Cardinality(Pending(p))' =
              Cardinality(Pending(p)) - (IF k \in Pending(p) THEN 1 ELSE 0)
<1> DEFINE left == Pending(p) \ {k}
           moved == [j \in left |-> IF j < k THEN j ELSE j - 1]
<1>1. /\ Len(inbox) \in Nat /\ Len(inbox') = Len(inbox) - 1
      /\ \A j \in 1 .. Len(inbox) - 1 :
            inbox'[j] = IF j < k THEN inbox[j] ELSE inbox[j + 1]
  BY RemoveEntry, SMTT(30) DEF TypeOK
<1>2. ASSUME NEW j \in left
      PROVE  /\ j \in 1 .. Len(inbox) /\ j # k /\ inbox[j].po = p
             /\ inbox[j].type # "INVOICE_RECEIVED"
  BY DEF Pending
<1>3. ASSUME NEW j \in left PROVE moved[j] \in Pending(p)'
  <2>1. CASE j < k
    <3>1. moved[j] = j /\ j \in 1 .. Len(inbox')
      BY <1>1, <1>2, <2>1
    <3> QED
      BY <1>1, <1>2, <2>1, <3>1 DEF Pending
  <2>2. CASE ~(j < k)
    <3>1. moved[j] = j - 1 /\ j - 1 \in 1 .. Len(inbox') /\ ~(j - 1 < k) /\ (j - 1) + 1 = j
      BY <1>1, <1>2, <2>2
    <3>2. inbox'[j - 1] = inbox[j]
      BY <1>1, <3>1
    <3> QED
      BY <1>2, <3>1, <3>2 DEF Pending
  <2> QED
    BY <2>1, <2>2
<1>4. ASSUME NEW j \in Pending(p)' PROVE \E i \in left : moved[i] = j
  <2>1. /\ j \in 1 .. Len(inbox) - 1 /\ inbox'[j].po = p
        /\ inbox'[j].type # "INVOICE_RECEIVED"
    BY <1>1 DEF Pending
  <2>2. CASE j < k
    <3>1. j \in left /\ moved[j] = j
      BY <1>1, <2>1, <2>2 DEF Pending
    <3> QED
      BY <3>1
  <2>3. CASE ~(j < k)
    <3>1. j + 1 \in left /\ ~(j + 1 < k) /\ (j + 1) - 1 = j
      BY <1>1, <2>1, <2>3 DEF Pending
    <3>2. moved[j + 1] = j
      BY <3>1
    <3> QED
      BY <3>1, <3>2
  <2> QED
    BY <2>2, <2>3
<1>5. \A i, j \in left : moved[i] = moved[j] => i = j
  BY <1>2
<1>6. moved \in [left -> Pending(p)']
  BY <1>3
<1> HIDE DEF moved, left
<1>7. moved \in Bijection(left, Pending(p)')
  BY <1>4, <1>5, <1>6, Fun_IsBij
<1>8. /\ IsFiniteSet(left)
      /\ Cardinality(left) = Cardinality(Pending(p)) - (IF k \in Pending(p) THEN 1 ELSE 0)
  <2>1. IsFiniteSet(Pending(p)) /\ Cardinality(Pending(p)) \in Nat
    BY PendingCount
  <2>2. /\ IsFiniteSet(left)
        /\ Cardinality(left) = IF k \in Pending(p) THEN Cardinality(Pending(p)) - 1
                                                    ELSE Cardinality(Pending(p))
    BY <2>1, FS_RemoveElement DEF left
  <2> QED
    BY <2>1, <2>2
<1>9. Cardinality(Pending(p)') = Cardinality(left)
  BY <1>7, <1>8, FS_Bijection, Fun_ExistsBij
<1> QED
  BY <1>8, <1>9

(* A touchless payment is a SYSTEM payment of an invoice of the PO.        *)
LEMMA TouchlessRows ==
    ASSUME NEW p
    PROVE  \A x : x \in Touchless(p) <=>
                     \E i \in BilledTo(p) : \E n \in PaidBy(i, "SYSTEM") : x = <<i, n>>
  BY DEF Touchless, PaidBy

LEMMA TouchlessRowsNext ==
    ASSUME NEW p
    PROVE  \A x : x \in Touchless(p)' <=>
                     \E i \in BilledTo(p)' : \E n \in PaidBy(i, "SYSTEM")' : x = <<i, n>>
  BY DEF Touchless, PaidBy

(* Touchless payments stay what they are if no invoice of the PO gets one, *)
(* and an invoice that arrives has none.                                   *)
LEMMA TouchlessKept ==
    ASSUME NEW p, BilledTo(p) \subseteq BilledTo(p)',
           \A i \in BilledTo(p) : PaidBy(i, "SYSTEM")' = PaidBy(i, "SYSTEM"),
           \A i \in BilledTo(p)' \ BilledTo(p) : PaidBy(i, "SYSTEM")' = {}
    PROVE  Touchless(p)' = Touchless(p)
<1>1. ASSUME NEW x \in Touchless(p) PROVE x \in Touchless(p)'
  <2>1. PICK i \in BilledTo(p) : \E n \in PaidBy(i, "SYSTEM") : x = <<i, n>>
    BY TouchlessRows
  <2> QED
    BY <2>1, TouchlessRowsNext
<1>2. ASSUME NEW x \in Touchless(p)' PROVE x \in Touchless(p)
  <2>1. PICK i \in BilledTo(p)' : \E n \in PaidBy(i, "SYSTEM")' : x = <<i, n>>
    BY TouchlessRowsNext
  <2>2. i \in BilledTo(p)
    BY <2>1
  <2> QED
    BY <2>1, <2>2, TouchlessRows
<1> QED
  BY <1>1, <1>2

(* One invoice of the PO gets a SYSTEM payment.                            *)
LEMMA TouchlessAdded ==
    ASSUME NEW p, BilledTo(p)' = BilledTo(p), NEW j \in BilledTo(p), NEW m,
           m \notin PaidBy(j, "SYSTEM"),
           PaidBy(j, "SYSTEM")' = PaidBy(j, "SYSTEM") \cup {m},
           \A i \in BilledTo(p) : i # j => PaidBy(i, "SYSTEM")' = PaidBy(i, "SYSTEM")
    PROVE  Touchless(p)' = Touchless(p) \cup {<<j, m>>} /\ <<j, m>> \notin Touchless(p)
<1>1. <<j, m>> \notin Touchless(p)
  BY TouchlessRows
<1>2. ASSUME NEW x \in Touchless(p) \cup {<<j, m>>} PROVE x \in Touchless(p)'
  <2>1. CASE x = <<j, m>>
    BY <2>1, TouchlessRowsNext
  <2>2. CASE x \in Touchless(p)
    <3>1. PICK i \in BilledTo(p) : \E n \in PaidBy(i, "SYSTEM") : x = <<i, n>>
      BY <2>2, TouchlessRows
    <3>2. PaidBy(i, "SYSTEM") \subseteq PaidBy(i, "SYSTEM")'
      OBVIOUS
    <3> QED
      BY <3>1, <3>2, TouchlessRowsNext
  <2> QED
    BY <1>2, <2>1, <2>2
<1>3. ASSUME NEW x \in Touchless(p)' PROVE x \in Touchless(p) \cup {<<j, m>>}
  <2>1. PICK i \in BilledTo(p) : \E n \in PaidBy(i, "SYSTEM")' : x = <<i, n>>
    BY TouchlessRowsNext
  <2>2. PICK n \in PaidBy(i, "SYSTEM")' : x = <<i, n>>
    BY <2>1
  <2>3. n \in PaidBy(i, "SYSTEM") \/ (i = j /\ n = m)
    BY <2>2
  <2> QED
    BY <2>2, <2>3, TouchlessRows
<1> QED
  BY <1>1, <1>2, <1>3

(* A job approves at most one invoice, and only for a PO it saw unsettled. *)
LEMMA OneApproval ==
    ASSUME TypeOK, job.open, NEW i \in job.lines, JobVerdict(i) = "APPROVED"
    PROVE  /\ job.po # NoPO /\ job.seen \notin Settled
           /\ \A j \in job.lines : JobVerdict(j) = "APPROVED" => j = i
<1>1. \A j : Judge(j, "MATCHED") # "APPROVED"
  BY DEF Judge, Evaluate, Settled
<1>2. \A j \in job.lines : JobVerdict(j) = "APPROVED" =>
          /\ Judge(j, job.seen) = "APPROVED"
          /\ ~\E k \in job.lines : k < j /\ Judge(k, job.seen) = "APPROVED"
  BY <1>1 DEF JobVerdict
<1>3. job.po # NoPO /\ job.seen \notin Settled
  BY <1>2 DEF Judge, Evaluate
<1>4. ASSUME NEW j \in job.lines, JobVerdict(j) = "APPROVED" PROVE j = i
  <2>1. i \in Int /\ j \in Int
    <3>1. i \in Invoice /\ j \in Invoice
      BY DEF TypeOK, BilledTo
    <3>2. Invoice \subseteq Nat
      BY ThreeWayMatchAssumption
    <3> QED
      BY <3>1, <3>2
  <2>2. ~(i < j) /\ ~(j < i)
    BY <1>2, <1>4
  <2> QED
    BY <2>1, <2>2
<1> QED
  BY <1>3, <1>4

LEMMA OpenJobTyped ==
    ASSUME TypeOK, job.open
    PROVE  /\ job \in OpenJob /\ job.po \in PO \cup {NoPO}
           /\ job.event \in 1 .. Len(inbox) /\ job.lines \subseteq BilledTo(job.po)
<1>1. job \in OpenJob
  BY DEF TypeOK, NoJob
<1> QED
  BY <1>1 DEF TypeOK, OpenJob

LEMMA HandledTyped == ASSUME TypeOK, NEW p \in PO PROVE Handled(p) \in Int
<1>1. shipments[p] \in Int /\ Len(receipts[p]) \in Int
  BY ThreeWayMatchAssumption DEF TypeOK
<1> QED
  BY <1>1, PendingCount

(* A step that re-opens no PO, pays and handles nothing.                   *)
LEMMA OpeningFrame ==
    ASSUME OpeningInv, IInv',
           \A p \in PO : /\ Touchless(p)' = Touchless(p) /\ Handled(p)' = Handled(p)
                         /\ po'[p] \in Settled \/ po[p] \notin Settled,
           job' = job \/ ~job'.open,
           job.open => inbox'[job.event] = inbox[job.event]
    PROVE  OpeningInv'
<1>1. JobFitsEvent' /\ \A p \in PO : IsFiniteSet(Touchless(p))'
  BY DEF OpeningInv, JobFitsEvent
<1>2. ASSUME NEW p \in PO
      PROVE  Cardinality(Touchless(p))' + Unsettled(p)' <= 1 + Handled(p)'
  <2>1. Cardinality(Touchless(p)) + Unsettled(p) <= 1 + Handled(p)
    BY DEF OpeningInv, OnePaymentPerOpening, Unsettled
  <2>2. Cardinality(Touchless(p)) \in Nat /\ Handled(p) \in Int
    BY HandledTyped, FS_CardinalityType DEF OpeningInv, IInv
  <2> QED
    BY <2>1, <2>2 DEF Unsettled
<1>3. OnePaymentPerOpening'
  BY <1>2 DEF OnePaymentPerOpening, Unsettled
<1>4. JobMayPay'
  <2> SUFFICES ASSUME job'.open, job'.po # NoPO, job'.seen \notin Settled,
                      inbox'[job'.event].type = "INVOICE_RECEIVED"
               PROVE  Cardinality(Touchless(job.po))' <= Handled(job.po)' /\ job' = job
    BY DEF JobMayPay
  <2>1. job' = job /\ job.po \in PO
    BY OpenJobTyped DEF OpeningInv, IInv
  <2>2. Cardinality(Touchless(job.po)) <= Handled(job.po)
    BY <2>1 DEF OpeningInv, JobMayPay
  <2> QED
    BY <2>1, <2>2
<1> QED
  BY <1>1, <1>3, <1>4 DEF OpeningInv

(* The yard and the suppliers: an event to come for each shipment and each *)
(* receipt.                                                                *)
LEMMA EnvironmentOpens ==
    ASSUME TypeOK, TypeOK', Environment, NEW p \in PO
    PROVE  Touchless(p)' = Touchless(p) /\ Handled(p)' = Handled(p)
<1>1. \A i \in Invoice : /\ Arrived(i) => Arrived(i)' /\ invoices'[i] = invoices[i]
                         /\ PaidBy(i, "SYSTEM")' = PaidBy(i, "SYSTEM")
                         /\ ~Arrived(i) => PaidBy(i, "SYSTEM") = {}
  <2>1. \A i \in Invoice : Arrived(i) => Arrived(i)' /\ invoices'[i] = invoices[i]
    BY EnvironmentFacts
  <2>2. payments' = payments
    BY EnvironmentFacts DEF billingVars
  <2>3. \A i \in Invoice : PaidBy(i, "SYSTEM")' = PaidBy(i, "SYSTEM")
    BY <2>2, SamePayments
  <2>4. ASSUME NEW i \in Invoice, ~Arrived(i) PROVE PaidBy(i, "SYSTEM") = {}
    <3>1. payments[i] = <<>>
      BY <2>4 DEF TypeOK
    <3> QED
      BY <3>1 DEF PaidBy
  <2> QED
    BY <2>1, <2>3, <2>4
<1>2. Touchless(p)' = Touchless(p)
  <2>1. BilledTo(p) \subseteq BilledTo(p)'
    BY <1>1 DEF BilledTo
  <2>2. \A i \in BilledTo(p) : PaidBy(i, "SYSTEM")' = PaidBy(i, "SYSTEM")
    BY <1>1 DEF BilledTo
  <2>3. \A i \in BilledTo(p)' \ BilledTo(p) : PaidBy(i, "SYSTEM")' = {}
    BY <1>1 DEF BilledTo
  <2> QED
    BY <2>1, <2>2, <2>3, TouchlessKept
<1>3. /\ Handled(p) = shipments[p] + Len(receipts[p]) - Cardinality(Pending(p))
      /\ Handled(p)' = shipments'[p] + Len(receipts'[p]) - Cardinality(Pending(p))'
  BY PendingCount DEF Handled, Pending
<1>4. /\ shipments[p] \in Int /\ Len(receipts[p]) \in Int /\ Cardinality(Pending(p)) \in Nat
      /\ receipts[p] \in Seq(Lot)
  BY PendingCount, ThreeWayMatchAssumption, SMTT(30) DEF TypeOK
<1>5. ASSUME NEW q \in PO, CreateShipment(q) PROVE Handled(p)' = Handled(p)
  <2> DEFINE e == [type |-> "SHIPMENT_CREATED", po |-> q]
  <2>1. e \in Event /\ inbox' = Append(inbox, e) /\ UNCHANGED receipts
    BY <1>5 DEF CreateShipment, Event
  <2>2. shipments'[p] = shipments[p] + (IF p = q THEN 1 ELSE 0)
    BY <1>4, <1>5 DEF CreateShipment, TypeOK
  <2>3. e.po = q /\ e.type # "INVOICE_RECEIVED"
    OBVIOUS
  <2> HIDE DEF e
  <2>4. Cardinality(Pending(p))' = Cardinality(Pending(p)) + (IF p = q THEN 1 ELSE 0)
    BY <2>1, <2>3, PendingAppended
  <2> QED
    BY <1>3, <1>4, <2>1, <2>2, <2>4
<1>6. ASSUME NEW q \in PO, NEW quantity \in Lot, Unload(q, quantity)
      PROVE  Handled(p)' = Handled(p)
  <2> DEFINE e == [type |-> "GOODS_RECEIVED", po |-> q]
  <2>1. e \in Event /\ inbox' = Append(inbox, e) /\ UNCHANGED shipments
    BY <1>6 DEF Unload, Event
  <2>2. receipts'[p] = IF p = q THEN Append(receipts[p], quantity) ELSE receipts[p]
    BY <1>6 DEF Unload, TypeOK
  <2>3. e.po = q /\ e.type # "INVOICE_RECEIVED"
    OBVIOUS
  <2> HIDE DEF e
  <2>4. Len(receipts'[p]) = Len(receipts[p]) + (IF p = q THEN 1 ELSE 0)
    <3>1. CASE p = q
      <4>1. Len(Append(receipts[p], quantity)) = Len(receipts[p]) + 1
        BY <1>4, <1>6, AppendEntry
      <4> QED
        BY <2>2, <3>1, <4>1
    <3>2. CASE p # q
      BY <1>4, <2>2, <3>2
    <3> QED
      BY <3>1, <3>2
  <2>5. Cardinality(Pending(p))' = Cardinality(Pending(p)) + (IF p = q THEN 1 ELSE 0)
    BY <2>1, <2>3, PendingAppended
  <2>6. shipments'[p] = shipments[p]
    BY <2>1
  <2>7. PICK x \in Int, y \in Int, z \in Int :
            x = shipments[p] /\ y = Len(receipts[p]) /\ z = Cardinality(Pending(p))
    BY <1>4
  <2>8. Handled(p)' = x + (y + (IF p = q THEN 1 ELSE 0)) - (z + (IF p = q THEN 1 ELSE 0))
    BY <1>3, <2>4, <2>5, <2>6, <2>7
  <2>9. Handled(p) = x + y - z
    BY <1>3, <2>7
  <2> QED
    BY <2>8, <2>9
<1>7. ASSUME NEW i \in Invoice, NEW q \in PO \cup {NoPO}, NEW bill \in Bill,
             CreateInvoice(i, q, bill)
      PROVE  Handled(p)' = Handled(p)
  <2> DEFINE e == [type |-> "INVOICE_RECEIVED", po |-> q, invoice |-> i]
  <2>1. e \in Event /\ inbox' = Append(inbox, e) /\ UNCHANGED <<shipments, receipts>>
    BY <1>7 DEF CreateInvoice, Event, yardVars
  <2>2. e.type = "INVOICE_RECEIVED"
    OBVIOUS
  <2> HIDE DEF e
  <2>3. Cardinality(Pending(p))' = Cardinality(Pending(p))
    BY <1>4, <2>1, <2>2, PendingAppended
  <2> QED
    BY <1>3, <2>1, <2>3
<1> QED
  BY <1>2, <1>5, <1>6, <1>7 DEF Environment

(* Handling an event of the yard counts, handling an invoice's does not.   *)
LEMMA HandlingOpens ==
    ASSUME TypeOK, NEW k \in 1 .. Len(inbox), inbox' = RemoveAt(inbox, k),
           UNCHANGED yardVars, NEW p \in PO
    PROVE  Handled(p)' =
              Handled(p)
                + (IF inbox[k].po = p /\ inbox[k].type # "INVOICE_RECEIVED" THEN 1 ELSE 0)
<1>1. /\ Handled(p) = shipments[p] + Len(receipts[p]) - Cardinality(Pending(p))
      /\ Handled(p)' = shipments'[p] + Len(receipts'[p]) - Cardinality(Pending(p))'
  BY PendingCount DEF Handled, Pending
<1>2. /\ shipments[p] \in Int /\ Len(receipts[p]) \in Int /\ Cardinality(Pending(p)) \in Nat
  BY PendingCount, ThreeWayMatchAssumption, SMTT(30) DEF TypeOK
<1>3. Cardinality(Pending(p))' =
         Cardinality(Pending(p)) - (IF k \in Pending(p) THEN 1 ELSE 0)
  BY PendingHandled
<1>4. k \in Pending(p) <=> inbox[k].po = p /\ inbox[k].type # "INVOICE_RECEIVED"
  BY DEF Pending
<1>5. shipments' = shipments /\ receipts' = receipts
  BY DEF yardVars
<1> QED
  BY <1>1, <1>2, <1>3, <1>4, <1>5, SMTT(30)

(* A shipment or a job that begins.                                        *)
LEMMA ShipmentOpens ==
    ASSUME OpeningInv, IInv', NEW k \in 1 .. Len(inbox), HandleShipment(k)
    PROVE  OpeningInv'
<1>0. TypeOK
  BY DEF OpeningInv, IInv
<1>1. /\ ~job.open /\ job' = job /\ inbox' = RemoveAt(inbox, k)
      /\ UNCHANGED <<yardVars, invoices, payments>>
      /\ inbox[k].type = "SHIPMENT_CREATED"
      /\ po' = [po EXCEPT ![inbox[k].po] = "SHIPPED"]
  BY DEF HandleShipment, Deliverable, billingVars
<1>2. \A p \in PO : Touchless(p)' = Touchless(p)
  BY <1>1 DEF Touchless, PaidBy, BilledTo, Arrived
<1>3. ASSUME NEW p \in PO
      PROVE  Cardinality(Touchless(p))' + Unsettled(p)' <= 1 + Handled(p)'
  <2>1. Cardinality(Touchless(p)) + Unsettled(p) <= 1 + Handled(p)
    BY DEF OpeningInv, OnePaymentPerOpening, Unsettled
  <2>2. Cardinality(Touchless(p)) \in Nat /\ Handled(p) \in Int
    BY <1>0, HandledTyped, FS_CardinalityType DEF OpeningInv
  <2>3. Handled(p)' = Handled(p) + (IF inbox[k].po = p THEN 1 ELSE 0)
    BY <1>0, <1>1, HandlingOpens
  <2>4. inbox[k].po # p => Unsettled(p)' = Unsettled(p)
    BY <1>0, <1>1 DEF Unsettled, TypeOK
  <2> QED
    BY <1>2, <2>1, <2>2, <2>3, <2>4 DEF Unsettled
<1>4. OnePaymentPerOpening'
  BY <1>3 DEF OnePaymentPerOpening, Unsettled
<1>5. JobFitsEvent' /\ JobMayPay'
  BY <1>1 DEF JobFitsEvent, JobMayPay
<1>6. \A p \in PO : IsFiniteSet(Touchless(p))'
  BY <1>2 DEF OpeningInv
<1> QED
  BY <1>4, <1>5, <1>6 DEF OpeningInv

LEMMA BeginOpens ==
    ASSUME OpeningInv, IInv', NEW k \in 1 .. Len(inbox),
           BeginReceipt(k) \/ BeginInvoice(k) \/ BeginInvoiceWithoutPO(k)
    PROVE  OpeningInv'
<1>0. TypeOK
  BY DEF OpeningInv, IInv
<1>1. /\ UNCHANGED <<po, yardVars, invoices, payments, inbox>>
      /\ job'.event = k /\ job'.po = inbox[k].po
      /\ inbox[k].type \in {"GOODS_RECEIVED", "INVOICE_RECEIVED"}
      /\ job'.sets => inbox[k].type = "GOODS_RECEIVED"
  BY DEF BeginReceipt, BeginInvoice, BeginInvoiceWithoutPO, billingVars
<1>2. inbox[k].type = "INVOICE_RECEIVED" /\ inbox[k].po # NoPO => job'.seen = po[inbox[k].po]
  BY DEF BeginReceipt, BeginInvoice, BeginInvoiceWithoutPO
<1>3. \A p : Touchless(p)' = Touchless(p)
  BY <1>1 DEF Touchless, PaidBy, BilledTo, Arrived
<1>4. \A p : Handled(p)' = Handled(p)
  BY <1>1 DEF Handled, yardVars
<1>5. OnePaymentPerOpening'
  BY <1>1, <1>3, <1>4 DEF OpeningInv, OnePaymentPerOpening
<1>6. JobFitsEvent'
  BY <1>1 DEF JobFitsEvent
<1>7. JobMayPay'
  <2> SUFFICES ASSUME job'.po # NoPO, job'.seen \notin Settled,
                      inbox'[job'.event].type = "INVOICE_RECEIVED"
               PROVE  (Cardinality(Touchless(job.po)) <= Handled(job.po))'
    BY DEF JobMayPay
  <2>1. job'.po \in PO
    BY <1>0, <1>1 DEF TypeOK, Event
  <2>2. PICK p \in PO : p = job'.po
    BY <2>1
  <2>3. po[p] \notin Settled
    BY <1>1, <1>2, <2>2
  <2>4. Cardinality(Touchless(p)) + Unsettled(p) <= 1 + Handled(p)
    BY DEF OpeningInv, OnePaymentPerOpening, Unsettled
  <2>5. Cardinality(Touchless(p)) \in Nat /\ Handled(p) \in Int
    BY <1>0, HandledTyped, FS_CardinalityType DEF OpeningInv
  <2>6. Unsettled(p) = 1
    BY <2>3 DEF Unsettled
  <2>7. Cardinality(Touchless(p)) <= Handled(p)
    BY <2>4, <2>5, <2>6
  <2>8. Cardinality(Touchless(p))' <= Handled(p)'
    BY <1>3, <1>4, <2>7
  <2> QED
    BY <2>2, <2>8
<1>8. \A p \in PO : IsFiniteSet(Touchless(p))'
  BY <1>3 DEF OpeningInv
<1> QED
  BY <1>5, <1>6, <1>7, <1>8 DEF OpeningInv

(* A commit pays at most one invoice, and settles the PO if it does.       *)
LEMMA CommitPays ==
    ASSUME TypeOK, CommitJob, NEW p \in PO
    PROVE  /\ ~(JobApproves /\ job.po = p) => Touchless(p)' = Touchless(p)
           /\ JobApproves /\ job.po = p =>
                 \E x : x \notin Touchless(p) /\ Touchless(p)' = Touchless(p) \cup {x}
           /\ JobApproves => job.po \in PO /\ job.seen \notin Settled
<1>1. /\ job.open /\ job.lines \subseteq BilledTo(job.po) /\ job.po \in PO \cup {NoPO}
      /\ \A i \in Invoice : payments'[i] = IF i \in job.lines /\ JobVerdict(i) = "APPROVED"
                                           THEN Append(payments[i], SystemPayment)
                                           ELSE payments[i]
  BY OpenJobTyped DEF CommitJob, WriteMatches
<1>2. BilledTo(p)' = BilledTo(p)
  BY DEF CommitJob, BilledTo, Arrived
<1>3. ASSUME NEW i \in BilledTo(p), ~(i \in job.lines /\ JobVerdict(i) = "APPROVED")
      PROVE  PaidBy(i, "SYSTEM")' = PaidBy(i, "SYSTEM")
  BY <1>1, <1>3, SamePayments DEF BilledTo
<1>4. ASSUME ~(JobApproves /\ job.po = p) PROVE Touchless(p)' = Touchless(p)
  <2>1. \A i \in BilledTo(p) : ~(i \in job.lines /\ JobVerdict(i) = "APPROVED")
    BY <1>1, <1>4 DEF JobApproves, BilledTo
  <2> QED
    BY <1>2, <1>3, <2>1, TouchlessKept
<1>5. ASSUME NEW i \in job.lines, JobVerdict(i) = "APPROVED", job.po = p
      PROVE  \E x : x \notin Touchless(p) /\ Touchless(p)' = Touchless(p) \cup {x}
  <2>1. i \in BilledTo(p) /\ i \in Invoice
    BY <1>1, <1>5 DEF BilledTo
  <2>2. SystemPayment \in Payment /\ SystemPayment.by = "SYSTEM"
    BY DEF SystemPayment, Payment
  <2>3. /\ PaidBy(i, "SYSTEM")' = PaidBy(i, "SYSTEM") \cup {Len(payments[i]) + 1}
        /\ Len(payments[i]) + 1 \notin PaidBy(i, "SYSTEM")
    BY <1>1, <1>5, <2>1, <2>2, PaymentAdded
  <2>4. \A j \in BilledTo(p) : j # i => PaidBy(j, "SYSTEM")' = PaidBy(j, "SYSTEM")
    BY <1>1, <1>3, <1>5, OneApproval
  <2> QED
    BY <1>2, <2>1, <2>3, <2>4, TouchlessAdded
<1>6. JobApproves => job.po \in PO /\ job.seen \notin Settled
  BY <1>1, OneApproval DEF JobApproves
<1> QED
  BY <1>4, <1>5, <1>6 DEF JobApproves

LEMMA CommitOpens == ASSUME OpeningInv, IInv', CommitJob PROVE OpeningInv'
<1>0. TypeOK
  BY DEF OpeningInv, IInv
<1>1. /\ job.open /\ ~job'.open /\ inbox' = RemoveAt(inbox, job.event) /\ UNCHANGED yardVars
      /\ po' = IF JobApproves THEN [po EXCEPT ![job.po] = "MATCHED"]
               ELSE IF job.sets THEN [po EXCEPT ![job.po] = job.seen] ELSE po
  BY DEF CommitJob, NoJob
<1>2. /\ job.event \in 1 .. Len(inbox) /\ inbox[job.event].po = job.po
      /\ inbox[job.event].type \in {"GOODS_RECEIVED", "INVOICE_RECEIVED"}
      /\ job.sets => inbox[job.event].type = "GOODS_RECEIVED"
  BY <1>0, <1>1, OpenJobTyped DEF OpeningInv, JobFitsEvent
<1>3. ASSUME NEW p \in PO
      PROVE  /\ IsFiniteSet(Touchless(p))'
             /\ Cardinality(Touchless(p))' + Unsettled(p)' <= 1 + Handled(p)'
  <2>1. /\ IsFiniteSet(Touchless(p)) /\ Cardinality(Touchless(p)) \in Nat
        /\ Handled(p) \in Int
        /\ Cardinality(Touchless(p)) + Unsettled(p) <= 1 + Handled(p)
    BY <1>0, HandledTyped, FS_CardinalityType DEF OpeningInv, OnePaymentPerOpening, Unsettled
  <2>2. Handled(p)' = Handled(p) + (IF job.po = p /\ inbox[job.event].type = "GOODS_RECEIVED"
                                    THEN 1 ELSE 0)
    BY <1>0, <1>1, <1>2, HandlingOpens
  <2>3. CASE ~(JobApproves /\ job.po = p)
    <3>1. Touchless(p)' = Touchless(p)
      BY <1>0, <2>3, CommitPays
    <3>2. ~(job.sets /\ job.po = p) => Unsettled(p)' = Unsettled(p)
      BY <1>0, <1>1, <2>3 DEF Unsettled, TypeOK
    <3>3. Unsettled(p) \in {0, 1} /\ Unsettled(p)' \in {0, 1}
      BY DEF Unsettled
    <3> QED
      BY <1>2, <2>1, <2>2, <3>1, <3>2, <3>3
  <2>4. CASE JobApproves /\ job.po = p
    <3>1. PICK x : x \notin Touchless(p) /\ Touchless(p)' = Touchless(p) \cup {x}
      BY <1>0, <2>4, CommitPays
    <3>2. /\ IsFiniteSet(Touchless(p))'
          /\ Cardinality(Touchless(p))' = Cardinality(Touchless(p)) + 1
      BY <2>1, <3>1, FS_AddElement
    <3>3. Unsettled(p)' = 0
      BY <1>0, <1>1, <2>4 DEF Unsettled, TypeOK, Settled
    <3>4. CASE inbox[job.event].type = "GOODS_RECEIVED"
      <4>1. Unsettled(p) \in {0, 1}
        BY DEF Unsettled
      <4> QED
        BY <2>1, <2>2, <2>4, <3>2, <3>3, <3>4, <4>1
    <3>5. CASE inbox[job.event].type = "INVOICE_RECEIVED"
      <4>1. job.seen \notin Settled /\ job.po # NoPO
        BY <1>0, <2>4, CommitPays, ThreeWayMatchAssumption
      <4>2. Cardinality(Touchless(p)) <= Handled(p)
        BY <1>1, <2>4, <3>5, <4>1 DEF OpeningInv, JobMayPay
      <4> QED
        BY <2>1, <2>2, <3>2, <3>3, <3>5, <4>2
    <3> QED
      BY <1>2, <3>4, <3>5
  <2> QED
    BY <2>3, <2>4
<1>4. OnePaymentPerOpening'
  BY <1>3 DEF OnePaymentPerOpening, Unsettled
<1>5. JobFitsEvent' /\ JobMayPay'
  BY <1>1 DEF JobFitsEvent, JobMayPay
<1> QED
  BY <1>3, <1>4, <1>5 DEF OpeningInv

(* An answer of the API settles POs; only a confirmation might re-open one. *)
LEMMA AnswerOpens ==
    ASSUME OpeningInv, IInv', ConfirmsInTime, NEW c \in Clerk,
           Confirm(c) \/ Approve(c) \/ Reject(c) \/ Pay(c)
    PROVE  OpeningInv'
<1> DEFINE j == desk[c].target[1]
           n == desk[c].target[2]
<1>0. TypeOK /\ RequestsStand
  BY DEF OpeningInv, IInv
<1>1. UNCHANGED <<yardVars, invoices, inbox, job>>
  BY <1>0, AnswerFacts
<1>2. ASSUME NEW i \in Invoice PROVE PaidBy(i, "SYSTEM")' = PaidBy(i, "SYSTEM")
  <2>1. CASE Confirm(c) \/ Reject(c)
    BY <2>1, SamePayments DEF Confirm, Reject, billingVars
  <2>2. CASE Approve(c)
    <3> DEFINE row == [by |-> "CLERK", status |-> "APPROVED"]
    <3>1. row \in Payment /\ row.by # "SYSTEM"
      BY DEF Payment
    <3>2. payments' = [payments EXCEPT ![j] = Append(payments[j], row)]
      BY <2>2 DEF Approve
    <3> HIDE DEF row, j
    <3>3. payments'[i] = payments[i] \/ payments'[i] = Append(payments[i], row)
      BY <1>0, <3>2 DEF TypeOK
    <3> QED
      BY <1>0, <3>1, <3>3, PaymentAdded, SamePayments
  <2>3. CASE Pay(c)
    <3>1. desk[c].task = "PAY" /\ payments' = [payments EXCEPT ![j][n].status = "PAID"]
      BY <2>3 DEF Pay, Answer
    <3>2. n \in DOMAIN payments[j]
      BY <1>0, <3>1 DEF RequestsStand
    <3> HIDE DEF j, n
    <3>3. CASE j # i
      BY <1>0, <3>1, <3>3, SamePayments DEF TypeOK
    <3>4. CASE j = i
      <4>1. /\ payments[i] \in Seq(Payment) /\ n \in DOMAIN payments[i]
            /\ payments'[i] = [payments[i] EXCEPT ![n] = [@ EXCEPT !.status = "PAID"]]
        BY <1>0, <3>1, <3>2, <3>4 DEF TypeOK
      <4>2. payments[i][n] \in Payment
        BY <4>1
      <4>3. /\ DOMAIN payments'[i] = DOMAIN payments[i]
            /\ \A k \in DOMAIN payments[i] : k # n => payments'[i][k] = payments[i][k]
            /\ payments'[i][n].by = payments[i][n].by
        BY <4>1, <4>2 DEF Payment
      <4> QED
        BY <4>1, <4>3 DEF PaidBy
    <3> QED
      BY <3>3, <3>4
  <2> QED
    BY <2>1, <2>2, <2>3
<1>3. ASSUME NEW p \in PO
      PROVE  /\ Touchless(p)' = Touchless(p) /\ Handled(p)' = Handled(p)
             /\ po'[p] \in Settled \/ po[p] \notin Settled
  <2>1. BilledTo(p)' = BilledTo(p)
    BY <1>1 DEF BilledTo, Arrived
  <2>2. Touchless(p)' = Touchless(p)
    <3>1. \A i \in BilledTo(p) : PaidBy(i, "SYSTEM")' = PaidBy(i, "SYSTEM")
      BY <1>2 DEF BilledTo
    <3> QED
      BY <2>1, <3>1, TouchlessKept
  <2>3. Handled(p)' = Handled(p)
    BY <1>1 DEF Handled, yardVars
  <2>4. po'[p] \in Settled \/ po[p] \notin Settled
    <3>1. CASE Confirm(c)
      <4>1. /\ desk[c].task = "CONFIRM"
            /\ po' = [po EXCEPT ![desk[c].target] = "CONFIRMED"]
        BY <3>1 DEF Confirm, Answer
      <4>2. po[desk[c].target] \notin Settled
        BY <4>1 DEF ConfirmsInTime
      <4> QED
        BY <1>0, <4>1, <4>2 DEF TypeOK
    <3>2. CASE Approve(c) \/ Pay(c)
      <4>1. PICK status \in {"MATCHED", "CLOSED"} : SetOrderOf(j, status)
        BY <3>2 DEF Approve, Pay
      <4>2. po' = po \/ po' = [po EXCEPT ![invoices[j].po] = status]
        BY <4>1 DEF SetOrderOf
      <4> HIDE DEF j
      <4> QED
        BY <1>0, <4>2 DEF TypeOK, Settled
    <3>3. CASE Reject(c)
      BY <3>3 DEF Reject
    <3> QED
      BY <3>1, <3>2, <3>3
  <2> QED
    BY <2>2, <2>3, <2>4
<1> QED
  BY <1>1, <1>3, OpeningFrame

LEMMA OpeningStep ==
    ASSUME OpeningInv, IInv', ConfirmsInTime, [Next]_vars
    PROVE  OpeningInv'
<1>0. TypeOK /\ TypeOK'
  BY DEF OpeningInv, IInv
<1>1. ASSUME Environment PROVE OpeningInv'
  <2>1. UNCHANGED <<po, job>> /\ \A k \in 1 .. Len(inbox) : inbox'[k] = inbox[k]
    BY <1>0, <1>1, EnvironmentFacts
  <2>2. job.open => inbox'[job.event] = inbox[job.event]
    BY <1>0, <2>1, OpenJobTyped
  <2>3. \A p \in PO : /\ Touchless(p)' = Touchless(p) /\ Handled(p)' = Handled(p)
                      /\ po'[p] \in Settled \/ po[p] \notin Settled
    BY <1>0, <1>1, <2>1, EnvironmentOpens
  <2> QED
    BY <2>1, <2>2, <2>3, OpeningFrame
<1>2. ASSUME Worker PROVE OpeningInv'
  BY <1>2, ShipmentOpens, BeginOpens, CommitOpens DEF Worker
<1>3. ASSUME UNCHANGED <<po, yardVars, invoices, payments, inbox>>, job' = job \/ ~job'.open
      PROVE  OpeningInv'
  <2>1. \A p \in PO : Touchless(p)' = Touchless(p)
    BY <1>3 DEF Touchless, PaidBy, BilledTo, Arrived
  <2>2. \A p \in PO : Handled(p)' = Handled(p)
    BY <1>3 DEF Handled, yardVars
  <2> QED
    BY <1>3, <2>1, <2>2, OpeningFrame
<1>4. ASSUME FailJob PROVE OpeningInv'
  <2>1. UNCHANGED <<po, yardVars, invoices, payments, inbox>> /\ ~job'.open
    BY <1>4 DEF FailJob, NoJob, billingVars
  <2> QED
    BY <1>3, <2>1
<1>5. ASSUME NEW c \in Clerk, Procurement(c) PROVE OpeningInv'
  <2>1. CASE Confirm(c) \/ Approve(c) \/ Reject(c) \/ Pay(c)
    BY <2>1, AnswerOpens
  <2>2. CASE ~(Confirm(c) \/ Approve(c) \/ Reject(c) \/ Pay(c))
    <3>1. UNCHANGED <<po, yardVars, invoices, payments, inbox, job>>
      BY <1>5, <2>2 DEF Procurement, AskConfirm, AskResolve, AskPay, Ask, billingVars
    <3> QED
      BY <1>3, <3>1
  <2> QED
    BY <2>1, <2>2
<1>6. ASSUME UNCHANGED vars PROVE OpeningInv'
  <2>1. UNCHANGED <<po, yardVars, invoices, payments, inbox, job>>
    BY <1>6 DEF vars, billingVars
  <2> QED
    BY <1>3, <2>1
<1> QED
  BY <1>1, <1>2, <1>4, <1>5, <1>6 DEF Next

LEMMA OpeningInit == Init => JobFitsEvent /\ JobMayPay /\ OnePaymentPerOpening
                                /\ \A p \in PO : IsFiniteSet(Touchless(p))
<1> SUFFICES ASSUME Init PROVE /\ JobFitsEvent /\ JobMayPay
                               /\ \A p \in PO : /\ IsFiniteSet(Touchless(p))
                                                /\ Cardinality(Touchless(p)) + Unsettled(p)
                                                      <= 1 + Handled(p)
  BY DEF OnePaymentPerOpening, Unsettled
<1>1. JobFitsEvent /\ JobMayPay
  BY DEF Init, NoJob, JobFitsEvent, JobMayPay
<1>2. ASSUME NEW p \in PO
      PROVE  IsFiniteSet(Touchless(p)) /\ Cardinality(Touchless(p)) + Unsettled(p) <= 1 + Handled(p)
  <2>1. Touchless(p) = {} /\ Pending(p) = {}
    BY DEF Init, NoInvoice, Touchless, BilledTo, Arrived, Pending
  <2>2. Handled(p) = 0 + Len(<<>>) - Cardinality(Pending(p))
    BY DEF Init, Handled, Pending
  <2>3. Handled(p) = 0 /\ Cardinality(Touchless(p)) = 0
    BY <2>1, <2>2, FS_EmptySet
  <2>4. Unsettled(p) = 1
    BY ThreeWayMatchAssumption DEF Init, Unsettled, Settled
  <2> QED
    BY <2>1, <2>3, <2>4, FS_EmptySet
<1> QED
  BY <1>1, <1>2

(* A PO is paid touchlessly at most once per opening - once from its       *)
(* creation on, once more for each shipment and receipt handled - in any   *)
(* behaviour in which no confirmation that was checked before the PO       *)
(* settled is written after.  Redeliveries, failures, several invoices in  *)
(* one job and clerks who rule and pay meanwhile add nothing.              *)
THEOREM PaidOncePerOpening == Spec /\ []ConfirmsInTime => []OnePaymentPerOpening
<1>1. Init => JobFitsEvent /\ JobMayPay /\ OnePaymentPerOpening
                 /\ \A p \in PO : IsFiniteSet(Touchless(p))
  BY OpeningInit
<1>2. OpeningInv /\ IInv' /\ ConfirmsInTime /\ [Next]_vars => OpeningInv'
  BY OpeningStep
<1>3. OpeningInv => OnePaymentPerOpening
  BY DEF OpeningInv
<1>4. IInv /\ JobFitsEvent /\ JobMayPay /\ OnePaymentPerOpening
         /\ (\A p \in PO : IsFiniteSet(Touchless(p))) => OpeningInv
  BY DEF OpeningInv
<1> QED
  BY <1>1, <1>2, <1>3, <1>4, Inductive, PTL DEF Spec
===============================================================================
