----------------------------- MODULE Simulator -----------------------------
(***************************************************************************)
(* The simulator (backend/services/simulator/main.py) as a client of the   *)
(* APIs: a tick reads what is due from the database, one list per phase,   *)
(* and then posts its items one by one, whatever has happened to them in   *)
(* between.  The loop and POST /sim/tick are threads that run beside each  *)
(* other and beside the clerk, who uses the same endpoints and the         *)
(* scenarios.  A post is refused (409), performed, or given up (timeout),  *)
(* and then it is lost or carried out later.                               *)
(*                                                                         *)
(* Outbound trucks are Outbound's.  Of the inbound side the model has what *)
(* ticks do after the goods have come in: bill each receipt, and pay what  *)
(* the match approved.  There is no clock.  Where a delay runs from a      *)
(* moment that stays put, it is a thread that is slow to look.  An ETA and *)
(* the start of a dock window may move away as fast as time passes: a      *)
(* truck may be due or not, each time a tick looks, and need never be.     *)
(***************************************************************************)
EXTENDS Outbound

CONSTANTS Loop,      \* the thread of _loop
          Button,    \* the threads that serve POST /sim/tick
          Clerk,     \* people at the screens
          PO,        \* purchase orders whose goods come in
          Unlabelled, \* those whose invoice comes without its PO number
          Agendas    \* bounds: what a behaviour has, see Agenda

Thread == {Loop} \cup Button

(* The orders and receipts that come in, the presses of POST /sim/tick and *)
(* of a scenario, and the posts or transactions that fail.                 *)
Agenda == [orders : Nat, receipts : Nat, ticks : Nat, injections : Nat, failures : Nat]

ASSUME SimulatorAssumption ==
    /\ Client = Thread \cup Clerk
    /\ Loop \notin Button /\ Thread \cap Clerk = {} /\ IsFiniteSet(Button)
    /\ Line # {}
    /\ Unlabelled \subseteq PO
    /\ Agendas \subseteq Agenda

VARIABLES
  tick,     \* client -> [phase, todo]: the phase's rows it still has to post
  receipts, \* PO -> how many goods_receipts it has
  billed,   \* PO -> receipt -> the invoices a tick raised for it
  late,     \* PO -> receipt -> its invoice posts that timed out, see Late
  injected, \* PO -> the invoices a scenario raised for it
  payment,  \* PO -> status of the payment its match approved
  paying,   \* client -> the PO whose payment its request found APPROVED
  paid,     \* PO -> PAYMENT_PAID events
  agenda    \* what is left of the bounds

billing == <<receipts, billed, late, injected, payment, paid>>
simVars == <<outboundVars, tick, billing, paying, agenda>>

Phases == <<"arrive", "dock", "serve", "depart", "deliver", "invoice", "pay",
            "stage", "dispatch", "create">>
Rest == [phase |-> 0, todo |-> {}]
Nobody == "nobody"

(* How many a tick has given up, and how many of those may still commit.   *)
Late == [timeouts : Nat, open : Nat]

SimInit ==
    /\ Init
    /\ tick = [c \in Client |-> Rest]
    /\ agenda \in Agendas
    /\ receipts = [p \in PO |-> 0]
    /\ billed = [p \in PO |-> <<>>]
    /\ late = [p \in PO |-> <<>>]
    /\ injected = [p \in PO |-> 0]
    /\ payment = [p \in PO |-> "NONE"]
    /\ paid = [p \in PO |-> 0]
    /\ paying = [c \in Client |-> Nobody]

Idle(c) == ~Busy(c) /\ paying[c] = Nobody

Uses(bound) == agenda[bound] > 0 /\ agenda' = [agenda EXCEPT ![bound] = @ - 1]
NewOrder == Uses("orders") /\ \E o \in Order : CreateOrder(o)

-----------------------------------------------------------------------------
(* What a phase of a tick finds: the rows its query selects by status.     *)

(* An invoice names its PO, or, when a tick raised it without, keeps the   *)
(* PO it was meant for in ocr_raw: the tick's query asks for both.         *)
Bills(p) == \E i \in DOMAIN billed[p] : billed[p][i] > 0
Labelled(p) == injected[p] > 0 \/ (p \notin Unlabelled /\ Bills(p))

(* Mutant: "already invoiced" is asked of po_id only.                      *)
UninvoicedByNumber(p) == ~Labelled(p)

Uninvoiced(p) == ~Labelled(p) /\ ~Bills(p)

Selected(phase) ==
    CASE phase = "arrive"   -> {t \in Truck : MayArrive(t)}
      [] phase = "dock"     -> {t \in Truck : MayDock(t)}
      [] phase = "serve"    -> {t \in Truck : At(t, {"DOCKED"})
                                              /\ truck[t].door = "CONFIRMED"}
      [] phase = "depart"   -> {t \in Truck : MayDepart(t)}
      [] phase = "deliver"  -> {t \in Truck : MayDeliver(t)}
      [] phase = "invoice"  -> UNION {{p} \X DOMAIN billed[p] :
                                        p \in {q \in PO : Uninvoiced(q)}}
      [] phase = "pay"      -> {p \in PO : payment[p] = "APPROVED"}
      [] phase = "stage"    -> {o \in Order : order[o] = "PLANNED"}
      [] phase = "dispatch" -> {o \in Order : order[o] = "STAGED" /\ Live(o) = {}}
      [] phase = "create"   -> {}

(* What a phase's query may return: of the trucks that wait for a door,    *)
(* those whose window has begun.                                           *)
Lists(phase) == IF phase = "dock" THEN SUBSET Selected(phase) ELSE {Selected(phase)}

Fetches(c, phase) ==
    \E todo \in Lists(Phases[phase]) :
        tick' = [tick EXCEPT ![c] = [phase |-> phase, todo |-> todo]]

(* The next phase: its list is read at once, and the thread's last one is  *)
(* done.  At the end of a tick the loop starts over; the button's thread   *)
(* waits for the next press.                                               *)
Fetch(c) ==
    /\ Idle(c) /\ tick[c].todo = {}
    /\ LET phase == (tick[c].phase % Len(Phases)) + 1
       IN  /\ phase = 1 => c = Loop
           /\ Phases[phase] # "create"
           /\ Fetches(c, phase)
    /\ UNCHANGED <<outboundVars, billing, paying, agenda>>

Press(c) ==
    /\ c \in Button /\ tick[c] = Rest
    /\ Uses("ticks")
    /\ Fetches(c, 1)
    /\ UNCHANGED <<outboundVars, billing, paying>>

(* The last phase tops the queue up, as far as the agenda goes.            *)
Refill(c) ==
    /\ Idle(c) /\ tick[c].todo = {}
    /\ tick[c].phase = Len(Phases) - 1
    /\ tick' = [tick EXCEPT ![c] = Rest]
    /\ IF /\ agenda.orders > 0
          /\ Cardinality({o \in Order : order[o] \in {"PLANNED", "STAGED", "LOADING"}}) < 3
       THEN NewOrder
       ELSE UNCHANGED <<outboundVars, agenda>>
    /\ UNCHANGED <<billing, paying>>

-----------------------------------------------------------------------------
(* Posts.                                                                  *)

Done(c, x) == tick' = [tick EXCEPT ![c].todo = @ \ {x}]
Phase(c) == IF tick[c].phase = 0 THEN "none" ELSE Phases[tick[c].phase]

(* A truck on the road whose ETA has not come is tracked, and the post     *)
(* moves its ETA, whatever its status is by now.                           *)
PostTracking(c, x) ==
    /\ Phase(c) = "arrive" /\ Idle(c)
    /\ Done(c, x)
    /\ UNCHANGED <<outboundVars, billing, paying, agenda>>

(* The yard's endpoints, with the empty body or the simulator's own.       *)
PostYard(c, x) ==
    /\ \/ Phase(c) = "arrive" /\ AskArrive(c, x)
       \/ Phase(c) = "dock" /\ AskDock(c, x)
       \/ Phase(c) = "serve" /\ AskLoad(c, x, AllStaged(x))
       \/ Phase(c) = "depart" /\ AskDepart(c, x)
       \/ Phase(c) = "deliver" /\ AskDeliver(c, x)
       \/ Phase(c) = "stage" /\ AskStage(c, x, InFull)
       \/ Phase(c) = "dispatch" /\ AskDispatch(c, x)
    /\ Done(c, x)
    /\ UNCHANGED <<billing, paying, agenda>>

Refused(c, x) ==
    \/ Phase(c) = "arrive" /\ ~MayArrive(x)
    \/ Phase(c) = "dock" /\ ~MayDock(x)
    \/ Phase(c) = "serve" /\ ~MayLoad(x)
    \/ Phase(c) = "depart" /\ ~MayDepart(x)
    \/ Phase(c) = "deliver" /\ ~MayDeliver(x)
    \/ Phase(c) = "stage" /\ ~MayStage(x)
    \/ Phase(c) = "dispatch" /\ ~MayDispatch(x)
    \/ Phase(c) = "pay" /\ payment[x] # "APPROVED"

PostRefused(c, x) ==
    /\ Idle(c) /\ Refused(c, x)
    /\ Done(c, x)
    /\ UNCHANGED <<outboundVars, billing, paying, agenda>>

(* The tick gives up waiting.  The request was never made, or it may still *)
(* be carried out.  An invoice then is one more; a request to the yard or  *)
(* for a payment is like a clerk's at that later moment.                   *)
TimedOut(p, i) ==
    \E open \in {0, 1} :
        late' = [late EXCEPT ![p][i] = [timeouts |-> @.timeouts + 1,
                                        open |-> @.open + open]]

PostLost(c, x) ==
    /\ Idle(c) /\ Done(c, x)
    /\ Uses("failures")
    /\ IF Phase(c) = "invoice" THEN TimedOut(x[1], x[2]) ELSE UNCHANGED late
    /\ UNCHANGED <<outboundVars, receipts, billed, injected, payment, paid, paying>>

(* POST /invoices looks for no other invoice.                              *)
Invoice(p, i) == billed' = [billed EXCEPT ![p][i] = @ + 1]

PostInvoice(c, x) ==
    /\ Phase(c) = "invoice" /\ Idle(c)
    /\ Invoice(x[1], x[2])
    /\ Done(c, x)
    /\ UNCHANGED <<outboundVars, receipts, late, injected, payment, paid, paying, agenda>>

LateInvoice(p, i) ==
    /\ late[p][i].open > 0
    /\ Invoice(p, i)
    /\ late' = [late EXCEPT ![p][i].open = @ - 1]
    /\ UNCHANGED <<outboundVars, tick, receipts, injected, payment, paid, paying, agenda>>

AskPay(c, p) ==
    /\ Idle(c)
    /\ payment[p] = "APPROVED"
    /\ paying' = [paying EXCEPT ![c] = p]
    /\ IF \E d \in Client : ~Idle(d)
       THEN overlaps < MaxOverlaps /\ overlaps' = overlaps + 1
       ELSE UNCHANGED overlaps
    /\ UNCHANGED <<tables, req, billing, agenda>>

PostPay(c, x) == Phase(c) = "pay" /\ AskPay(c, x) /\ Done(c, x)

(* Mutant of Pay: the payment stays APPROVED.                              *)
PayUnsettled(c) ==
    /\ paying[c] # Nobody
    /\ paid' = [paid EXCEPT ![paying[c]] = @ + 1]
    /\ paying' = [paying EXCEPT ![c] = Nobody]
    /\ UNCHANGED <<outboundVars, tick, receipts, billed, late, injected, payment, agenda>>

(* Mutant of Pay: the commit is missing.                                   *)
PayUncommitted(c) ==
    /\ paying[c] # Nobody
    /\ paying' = [paying EXCEPT ![c] = Nobody]
    /\ UNCHANGED <<outboundVars, tick, billing, agenda>>

(* POST /payments/{id}/pay: writes PAID and records PAYMENT_PAID.          *)
Pay(c) ==
    /\ paying[c] # Nobody
    /\ payment' = [payment EXCEPT ![paying[c]] = "PAID"]
    /\ paid' = [paid EXCEPT ![paying[c]] = @ + 1]
    /\ paying' = [paying EXCEPT ![c] = Nobody]
    /\ UNCHANGED <<outboundVars, tick, receipts, billed, late, injected, agenda>>

RollBack(c) ==
    /\ Uses("failures")
    /\ \/ Abort(c) /\ UNCHANGED paying
       \/ /\ paying[c] # Nobody
          /\ paying' = [paying EXCEPT ![c] = Nobody]
          /\ UNCHANGED outboundVars
    /\ UNCHANGED <<tick, billing>>

-----------------------------------------------------------------------------
(* People, workers and the world.                                          *)

(* A clerk sends any request the screens have, at any moment.              *)
ClerkAsks(c) ==
    /\ c \in Clerk /\ Idle(c) /\ tick[c] = Rest
    /\ \/ Ask(c) /\ UNCHANGED <<billing, paying, agenda>>
       \/ \E p \in PO : AskPay(c, p)
    /\ UNCHANGED tick

ClerkOrders ==
    /\ NewOrder
    /\ UNCHANGED <<tick, billing, paying>>

(* Scenarios inject-price-mismatch and inject-qty-mismatch: one receipt    *)
(* without an invoice that names its PO, read and then billed.             *)
Scenario(c) ==
    /\ c \in Clerk /\ Idle(c) /\ tick[c] = Rest
    /\ Uses("injections")
    /\ \E p \in PO : /\ receipts[p] > 0 /\ ~Labelled(p)
                     /\ tick' = [tick EXCEPT ![c].todo = {p}]
    /\ UNCHANGED <<outboundVars, billing, paying>>

Inject(c) ==
    /\ c \in Clerk
    /\ \E p \in tick[c].todo : /\ injected' = [injected EXCEPT ![p] = @ + 1]
                               /\ Done(c, p)
    /\ UNCHANGED <<outboundVars, receipts, billed, late, payment, paid, paying, agenda>>

(* An inbound trailer is unloaded.                                         *)
Receive(p) ==
    /\ Uses("receipts")
    /\ receipts' = [receipts EXCEPT ![p] = @ + 1]
    /\ billed' = [billed EXCEPT ![p] = Append(@, 0)]
    /\ late' = [late EXCEPT ![p] = Append(@, [timeouts |-> 0, open |-> 0])]
    /\ UNCHANGED <<outboundVars, tick, injected, payment, paid, paying>>

(* The match worker settles a PO by its first invoice that names it.       *)
Match(p) ==
    /\ payment[p] = "NONE" /\ p \notin Unlabelled /\ Bills(p)
    /\ payment' = [payment EXCEPT ![p] = "APPROVED"]
    /\ UNCHANGED <<outboundVars, tick, receipts, billed, late, injected, paid, paying, agenda>>

YardAnswers(c) == Answer(c) /\ UNCHANGED <<tick, billing, paying, agenda>>
WorkerPlans(t) == AssignDoor(t) /\ UNCHANGED <<tick, billing, paying, agenda>>

TickStep(c) ==
    \/ Fetch(c) \/ Refill(c)
    \/ \E x \in tick[c].todo :
         \/ PostTracking(c, x) \/ PostYard(c, x) \/ PostRefused(c, x)
         \/ PostInvoice(c, x) \/ PostPay(c, x)

SimNext ==
    \/ \E c \in Thread : TickStep(c) \/ Press(c) \/ \E x \in tick[c].todo : PostLost(c, x)
    \/ \E c \in Clerk : ClerkAsks(c) \/ Scenario(c) \/ Inject(c)
    \/ \E c \in Client : YardAnswers(c) \/ Pay(c) \/ RollBack(c)
    \/ \E p \in PO : \/ Receive(p) \/ Match(p)
                    \/ \E i \in DOMAIN late[p] : LateInvoice(p, i)
    \/ \E t \in Truck : WorkerPlans(t)
    \/ ClerkOrders

SimSpec == SimInit /\ [][SimNext]_simVars

(* The loop's thread and the handlers run; a tick that fails is followed   *)
(* by the next (_loop catches everything).  Strongly for the loop, which   *)
(* waits for no one in the code, but does here once MaxOverlaps is used    *)
(* up.  Nobody has to press or order anything, no truck has to become due  *)
(* at the gate or at a door, and none has to be given a door.              *)
FairSimSpec ==
    /\ SimSpec
    /\ SF_simVars(TickStep(Loop))
    /\ \A c \in Client : WF_simVars(YardAnswers(c) \/ Pay(c))

-----------------------------------------------------------------------------
(* Billing does not run away: a receipt is billed at most once by each     *)
(* thread that ticks and once more by each post that timed out, also when  *)
(* the invoice comes without its PO ("a runaway with no natural end",      *)
(* simulator/main.py:392-406).                                             *)
NoRunawayBilling ==
    \A p \in PO : \A i \in DOMAIN billed[p] :
        billed[p][i] <= Cardinality(Thread) + late[p][i].timeouts

(* As long as no requests overlap, a payment is paid once, however many    *)
(* lists it was on (procurement_api/main.py:972-974).                      *)
PaidOnce == overlaps = 0 => \A p \in PO : paid[p] <= 1


(* Every PO whose goods came in is billed in the end, and what the match   *)
(* has approved is paid (simulator/main.py:384-481).                       *)
BilledAndPaid ==
    \A p \in PO : /\ receipts[p] > 0 ~> ~Uninvoiced(p)
                  /\ payment[p] = "APPROVED" ~> payment[p] = "PAID"
=============================================================================
