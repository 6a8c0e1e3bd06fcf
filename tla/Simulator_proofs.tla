-------------------------- MODULE Simulator_proofs --------------------------
(***************************************************************************)
(* Proofs about Simulator, for any threads, clerks, orders and receipts.   *)
(* Ticks and screens are clients of the yard: every step is one of         *)
(* Outbound's, or a request for payment that begins beside one, so what    *)
(* Outbound_proofs shows of its endpoints holds of whatever ticks make of  *)
(* them.  Of billing, an invariant counts who may still bill a receipt;    *)
(* of payments, one says what is true while requests have not overlapped.  *)
(***************************************************************************)
EXTENDS Simulator, Outbound_proofs, FiniteSetTheorems

(* A tick posts only what its phase is about.                              *)
TruckPhase == {"arrive", "dock", "serve", "depart", "deliver"}
OrderPhase == {"stage", "dispatch"}

Fits(phase, x) ==
    /\ phase \in TruckPhase => x \in Truck
    /\ phase \in OrderPhase => x \in Order
    /\ phase = "pay" => x \in PO

TickInv ==
    /\ tick = [c \in Client |-> [phase |-> tick[c].phase, todo |-> tick[c].todo]]
    /\ \A c \in Client : /\ tick[c].phase \in 0 .. Len(Phases)
                         /\ \A x \in tick[c].todo : Fits(Phase(c), x)

(* The threads that have this receipt on their list of invoices to raise.  *)
Waiting(p, i) == {c \in Thread : Phase(c) = "invoice" /\ <<p, i>> \in tick[c].todo}

(* The invoices of a receipt: raised, given up but under way, and listed.  *)
(* Each timeout lets one thread list it once more.                         *)
BillsOf(p, i) == billed[p][i] + late[p][i].open + Cardinality(Waiting(p, i))

BillingType ==
    /\ billed \in [PO -> Seq(Nat)] /\ late \in [PO -> Seq(Late)]
    /\ \A p \in PO : Len(late[p]) = Len(billed[p])

BillingInv ==
    /\ BillingType
    /\ \A c \in Thread : Phase(c) = "invoice" =>
          \A x \in tick[c].todo : \E p \in PO : \E i \in DOMAIN billed[p] : x = <<p, i>>
    /\ \A p \in PO : \A i \in DOMAIN billed[p] :
          /\ late[p][i].open <= late[p][i].timeouts
          /\ BillsOf(p, i) <= Cardinality(Thread) + late[p][i].timeouts

PaymentInv ==
    /\ paying \in [Client -> PO \cup {Nobody}]
    /\ payment \in [PO -> {"NONE", "APPROVED", "PAID"}]
    /\ paid \in [PO -> Nat]
    /\ overlaps = 0 =>
          /\ \A c, d \in Client : paying[c] # Nobody /\ paying[d] # Nobody => c = d
          /\ \A c \in Client : paying[c] # Nobody => payment[paying[c]] = "APPROVED"
          /\ \A p \in PO : IF payment[p] = "PAID" THEN paid[p] <= 1 ELSE paid[p] = 0

-----------------------------------------------------------------------------
(* Who is who.                                                             *)
LEMMA Threads ==
    /\ \A c \in Thread : c \in Client /\ c \notin Clerk
    /\ \A c \in Clerk : c \in Client
    /\ Loop \in Thread /\ Button \subseteq Thread
    /\ IsFiniteSet(Thread) /\ Cardinality(Thread) \in Nat
<1>1. IsFiniteSet({Loop}) /\ IsFiniteSet(Button)
  BY FS_Singleton, SimulatorAssumption
<1>2. IsFiniteSet(Thread)
  BY <1>1, FS_Union DEF Thread
<1> QED
  BY <1>2, FS_CardinalityType, SimulatorAssumption DEF Thread

-----------------------------------------------------------------------------
(* Ticks.                                                                  *)

Fetched(c, n) ==
    \E todo \in SUBSET Selected(Phases[n]) :
        tick' = [tick EXCEPT ![c] = [phase |-> n, todo |-> todo]]

(* All that happens to what clients still have to post.                    *)
TickMoves ==
    \/ tick' = tick
    \/ \E c \in Client : (\E x : Done(c, x)) \/ tick' = [tick EXCEPT ![c] = Rest]
    \/ \E c \in Thread : \E n \in 1 .. Len(Phases) : tick[c].todo = {} /\ Fetched(c, n)
    \/ \E c \in Clerk : tick[c] = Rest /\ \E p \in PO : tick' = [tick EXCEPT ![c].todo = {p}]

LEMMA FetchesSelected == ASSUME NEW c, NEW n, Fetches(c, n) PROVE Fetched(c, n)
  BY DEF Fetches, Lists, Fetched

LEMMA NextTick == ASSUME TickInv, SimNext PROVE TickMoves
<1>0. Len(Phases) = 10
  BY DEF Phases
<1>1. ASSUME NEW c \in Thread, Fetch(c) PROVE TickMoves
  <2> DEFINE n == (tick[c].phase % Len(Phases)) + 1
  <2>1. tick[c].todo = {} /\ Fetched(c, n)
    BY <1>1, FetchesSelected DEF Fetch
  <2>2. n \in 1 .. Len(Phases)
    <3>1. tick[c].phase \in 0 .. 10
      BY <1>0, Threads DEF TickInv
    <3> QED
      BY <1>0, <3>1
  <2> QED
    BY <2>1, <2>2 DEF TickMoves
<1>2. ASSUME NEW c \in Thread, Press(c) PROVE TickMoves
  <2>1. tick[c].todo = {} /\ Fetched(c, 1)
    BY <1>2, FetchesSelected DEF Press, Rest
  <2>2. 1 \in 1 .. Len(Phases)
    BY <1>0
  <2> QED
    BY <2>1, <2>2 DEF TickMoves
<1>3. ASSUME NEW c \in Thread, Refill(c) PROVE TickMoves
  BY <1>3, Threads DEF Refill, TickMoves
<1>4. ASSUME NEW c \in Client, NEW x,
             \/ PostTracking(c, x) \/ PostYard(c, x) \/ PostRefused(c, x) \/ PostLost(c, x)
             \/ PostInvoice(c, x) \/ PostPay(c, x)
      PROVE  TickMoves
  BY <1>4 DEF PostTracking, PostYard, PostRefused, PostLost, PostInvoice, PostPay, TickMoves
<1>5. ASSUME NEW c \in Clerk, ClerkAsks(c) PROVE TickMoves
  BY <1>5 DEF ClerkAsks, TickMoves
<1>6. ASSUME NEW c \in Clerk, Scenario(c) PROVE TickMoves
  BY <1>6 DEF Scenario, TickMoves
<1>7. ASSUME NEW c \in Clerk, Inject(c) PROVE TickMoves
  BY <1>7, Threads DEF Inject, TickMoves
<1>8. ASSUME NEW c \in Client, YardAnswers(c) \/ Pay(c) \/ RollBack(c) PROVE TickMoves
  BY <1>8 DEF YardAnswers, Pay, RollBack, TickMoves
<1>9. ASSUME \/ \E p \in PO : Receive(p) \/ Match(p) \/ \E i : LateInvoice(p, i)
             \/ \E t \in Truck : WorkerPlans(t)
             \/ ClerkOrders
      PROVE  TickMoves
  BY <1>9 DEF Receive, Match, LateInvoice, WorkerPlans, ClerkOrders, TickMoves
<1> QED
  BY <1>1, <1>2, <1>3, <1>4, <1>5, <1>6, <1>7, <1>8, <1>9, Threads DEF SimNext, TickStep

(* A list of the phase's query has what the phase posts.                   *)
LEMMA SelectedFits == ASSUME NEW phase, NEW x \in Selected(phase) PROVE Fits(phase, x)
  BY DEF Selected, Fits, TruckPhase, OrderPhase

(* The tick of each client after each kind of move.                        *)
LEMMA DoneTick ==
    ASSUME TickInv, NEW c \in Client, NEW x, Done(c, x), NEW d \in Client
    PROVE  /\ tick'[d] = [phase |-> tick'[d].phase, todo |-> tick'[d].todo]
           /\ tick'[d].phase = tick[d].phase
           /\ tick'[d].todo = IF d = c THEN tick[d].todo \ {x} ELSE tick[d].todo
<1>1. tick[d] = [phase |-> tick[d].phase, todo |-> tick[d].todo]
  BY DEF TickInv
<1>2. tick'[d] = IF d = c THEN [tick[d] EXCEPT !.todo = @ \ {x}] ELSE tick[d]
  BY DEF TickInv, Done
<1> QED
  BY <1>1, <1>2

LEMMA TickNext == ASSUME TickInv, TickMoves PROVE TickInv'
<1> DEFINE Fine(d) == /\ tick'[d] = [phase |-> tick'[d].phase, todo |-> tick'[d].todo]
                      /\ tick'[d].phase \in 0 .. Len(Phases)
                      /\ \A x \in tick'[d].todo : Fits(Phase(d)', x)
<1>0. Len(Phases) = 10
  BY DEF Phases
<1>1. ASSUME NEW d \in Client, tick'[d] = tick[d] PROVE Fine(d)
  <2>1. /\ tick[d] = [phase |-> tick[d].phase, todo |-> tick[d].todo]
        /\ tick[d].phase \in 0 .. Len(Phases)
        /\ \A x \in tick[d].todo : Fits(Phase(d), x)
    BY DEF TickInv
  <2>2. Phase(d)' = Phase(d)
    BY <1>1 DEF Phase
  <2> QED
    BY <1>1, <2>1, <2>2
<1>2. ASSUME NEW c \in Client, NEW y, Done(c, y), NEW d \in Client PROVE Fine(d)
  <2>1. /\ tick[d].phase \in 0 .. Len(Phases)
        /\ \A x \in tick[d].todo : Fits(Phase(d), x)
    BY DEF TickInv
  <2>2. Phase(d)' = Phase(d)
    BY <1>2, DoneTick DEF Phase
  <2>3. /\ tick'[d] = [phase |-> tick'[d].phase, todo |-> tick'[d].todo]
        /\ tick'[d].phase = tick[d].phase /\ tick'[d].todo \subseteq tick[d].todo
    BY <1>2, DoneTick
  <2> QED
    BY <2>1, <2>2, <2>3
<1>3. ASSUME NEW c \in Client, tick' = [tick EXCEPT ![c] = Rest], NEW d \in Client
      PROVE  Fine(d)
  <2>1. CASE d # c
    BY <1>1, <1>3, <2>1 DEF TickInv
  <2>2. CASE d = c
    <3>1. tick'[d] = [phase |-> 0, todo |-> {}]
      BY <1>3, <2>2 DEF TickInv, Rest
    <3> QED
      BY <1>0, <3>1
  <2> QED
    BY <2>1, <2>2
<1>4. ASSUME NEW c \in Thread, NEW n \in 1 .. Len(Phases), Fetched(c, n), NEW d \in Client
      PROVE  Fine(d)
  <2>1. CASE d # c
    <3>1. tick'[d] = tick[d]
      BY <1>4, <2>1 DEF TickInv, Fetched
    <3> QED
      BY <1>1, <3>1
  <2>2. CASE d = c
    <3>1. PICK todo \in SUBSET Selected(Phases[n]) : tick'[d] = [phase |-> n, todo |-> todo]
      BY <1>4, <2>2 DEF TickInv, Fetched
    <3>2. n # 0 /\ n \in 0 .. Len(Phases)
      BY <1>0
    <3>3. Phase(d)' = Phases[n]
      BY <3>1, <3>2 DEF Phase
    <3> QED
      BY <3>1, <3>2, <3>3, SelectedFits
  <2> QED
    BY <2>1, <2>2
<1>5. ASSUME NEW c \in Clerk, tick[c] = Rest, NEW p \in PO,
             tick' = [tick EXCEPT ![c].todo = {p}], NEW d \in Client
      PROVE  Fine(d)
  <2>1. CASE d # c
    <3>1. tick'[d] = tick[d]
      BY <1>5, <2>1, Threads DEF TickInv
    <3> QED
      BY <1>1, <3>1
  <2>2. CASE d = c
    <3>1. tick'[d] = [Rest EXCEPT !.todo = {p}]
      BY <1>5, <2>2 DEF TickInv
    <3>2. tick'[d] = [phase |-> 0, todo |-> {p}]
      BY <3>1 DEF Rest
    <3>3. Phase(d)' = "none"
      BY <3>2 DEF Phase
    <3> QED
      BY <1>0, <3>2, <3>3 DEF Fits, TruckPhase, OrderPhase
  <2> QED
    BY <2>1, <2>2
<1>6. \A d \in Client : Fine(d)
  BY <1>1, <1>2, <1>3, <1>4, <1>5 DEF TickMoves
<1>7. tick' = [d \in Client |-> tick'[d]]
  BY Threads DEF TickMoves, TickInv, Done, Fetched
<1> QED
  BY <1>6, <1>7 DEF TickInv

-----------------------------------------------------------------------------
(* Billing.                                                                *)

LEMMA WaitingCount ==
    ASSUME NEW p, NEW i
    PROVE  /\ IsFiniteSet(Waiting(p, i)) /\ Cardinality(Waiting(p, i)) \in Nat
           /\ Cardinality(Waiting(p, i)) <= Cardinality(Thread)
           /\ IsFiniteSet(Waiting(p, i)') /\ Cardinality(Waiting(p, i)') \in Nat
           /\ Cardinality(Waiting(p, i)') <= Cardinality(Thread)
<1>1. Waiting(p, i) \subseteq Thread /\ Waiting(p, i)' \subseteq Thread
  BY DEF Waiting
<1> QED
  BY <1>1, Threads, FS_Subset, FS_CardinalityType

(* A receipt before and after a step that leaves its invoices alone, or    *)
(* adds it.                                                                *)
Unbilled(p, i) == billed'[p][i] = 0 /\ late'[p][i].open <= late'[p][i].timeouts
Same(p, i) ==
    /\ billed'[p][i] = billed[p][i] /\ late'[p][i] = late[p][i]
    /\ Waiting(p, i)' \subseteq Waiting(p, i)

(* A thread that has it to bill does, or gives up; or the post of one that *)
(* has given up commits.                                                   *)
RaisedBy(c, p, i) ==
    /\ billed'[p][i] = billed[p][i] + 1 /\ late'[p][i] = late[p][i]
    /\ Waiting(p, i)' \subseteq Waiting(p, i) \ {c}
GivenUpBy(c, p, i) ==
    /\ billed'[p][i] = billed[p][i]
    /\ late'[p][i].timeouts = late[p][i].timeouts + 1
    /\ late'[p][i].open \in {late[p][i].open, late[p][i].open + 1}
    /\ Waiting(p, i)' \subseteq Waiting(p, i) \ {c}
CameLate(p, i) ==
    /\ billed'[p][i] = billed[p][i] + 1
    /\ late[p][i].open > 0
    /\ late'[p][i].timeouts = late[p][i].timeouts
    /\ late'[p][i].open = late[p][i].open - 1
    /\ Waiting(p, i)' \subseteq Waiting(p, i)

BillingMoves(p, i) ==
    \/ Unbilled(p, i)
    \/ /\ i \in DOMAIN billed[p]
       /\ \/ Same(p, i) \/ CameLate(p, i)
          \/ \E c \in Waiting(p, i) : RaisedBy(c, p, i) \/ GivenUpBy(c, p, i)

Bounded(p, i) ==
    /\ late[p][i].open <= late[p][i].timeouts
    /\ BillsOf(p, i) <= Cardinality(Thread) + late[p][i].timeouts

LEMMA Rows ==
    ASSUME NEW b, NEW l, b \in [PO -> Seq(Nat)], l \in [PO -> Seq(Late)],
           \A p \in PO : Len(l[p]) = Len(b[p]),
           NEW p \in PO, NEW i \in DOMAIN b[p]
    PROVE  /\ i \in DOMAIN l[p]
           /\ b[p][i] \in Nat /\ l[p][i].open \in Nat /\ l[p][i].timeouts \in Nat
<1>1. b[p] \in Seq(Nat) /\ l[p] \in Seq(Late) /\ DOMAIN l[p] = DOMAIN b[p]
  OBVIOUS
<1>2. b[p][i] \in Nat /\ l[p][i] \in Late
  BY <1>1
<1> QED
  BY <1>1, <1>2 DEF Late

(* The sum in numbers: raised, under way, timeouts, and threads waiting.   *)
Balanced(n, b, o, t, w) == o <= t /\ b + o + w <= n + t

LEMMA BillingKept ==
    ASSUME BillingInv, BillingType', NEW p \in PO, NEW i \in DOMAIN billed'[p],
           BillingMoves(p, i)
    PROVE  Bounded(p, i)'
<1>0. PICK n \in Nat, w \in Nat, v \in Nat :
           /\ n = Cardinality(Thread)
           /\ w = Cardinality(Waiting(p, i)) /\ v = Cardinality(Waiting(p, i)')
  BY Threads, WaitingCount
<1>1. v <= n /\ IsFiniteSet(Waiting(p, i))
  BY <1>0, WaitingCount
<1>2. PICK b2 \in Nat, o2 \in Nat, t2 \in Nat :
           b2 = billed'[p][i] /\ o2 = late'[p][i].open /\ t2 = late'[p][i].timeouts
  <2>1. billed'[p][i] \in Nat /\ late'[p][i].open \in Nat /\ late'[p][i].timeouts \in Nat
    BY Rows DEF BillingType
  <2> QED
    BY <2>1
<1>3. ASSUME Balanced(n, b2, o2, t2, v) PROVE Bounded(p, i)'
  BY <1>0, <1>2, <1>3 DEF Bounded, BillsOf, Balanced
<1>4. CASE Unbilled(p, i)
  <2>1. b2 = 0 /\ o2 <= t2
    BY <1>2, <1>4 DEF Unbilled
  <2>2. Balanced(n, b2, o2, t2, v)
    BY <1>1, <2>1 DEF Balanced
  <2> QED
    BY <1>3, <2>2
<1>5. ASSUME i \in DOMAIN billed[p]
      PROVE  \E b, o, t \in Nat :
                /\ b = billed[p][i] /\ o = late[p][i].open /\ t = late[p][i].timeouts
                /\ Balanced(n, b, o, t, w)
  <2>1. billed[p][i] \in Nat /\ late[p][i].open \in Nat /\ late[p][i].timeouts \in Nat
    BY <1>5, Rows DEF BillingInv, BillingType
  <2>2. late[p][i].open <= late[p][i].timeouts /\ BillsOf(p, i) <= n + late[p][i].timeouts
    BY <1>0, <1>5 DEF BillingInv
  <2> QED
    BY <1>0, <2>1, <2>2 DEF BillsOf, Balanced
<1>6. Waiting(p, i)' \subseteq Waiting(p, i) => v <= w
  BY <1>0, <1>1, FS_Subset
<1>7. ASSUME NEW c \in Waiting(p, i), Waiting(p, i)' \subseteq Waiting(p, i) \ {c}
      PROVE  v <= w - 1
  <2>1. /\ IsFiniteSet(Waiting(p, i) \ {c})
        /\ Cardinality(Waiting(p, i) \ {c}) = w - 1
    BY <1>0, <1>1, FS_RemoveElement
  <2> QED
    BY <1>0, <1>7, <2>1, FS_Subset
<1>8. ASSUME i \in DOMAIN billed[p], ~Unbilled(p, i) PROVE Bounded(p, i)'
  <2>1. PICK b \in Nat, o \in Nat, t \in Nat :
             /\ b = billed[p][i] /\ o = late[p][i].open /\ t = late[p][i].timeouts
             /\ Balanced(n, b, o, t, w)
    BY <1>5, <1>8
  <2>2. Balanced(n, b, o, t, w)
    BY <2>1
  <2>3. CASE Same(p, i)
    <3>1. v <= w /\ b2 = b /\ o2 = o /\ t2 = t
      BY <1>2, <1>6, <2>1, <2>3 DEF Same
    <3>2. Balanced(n, b2, o2, t2, v)
      BY <2>2, <3>1 DEF Balanced
    <3> QED
      BY <1>3, <3>2
  <2>4. CASE CameLate(p, i)
    <3>1. v <= w /\ b2 = b + 1 /\ o2 = o - 1 /\ t2 = t
      BY <1>2, <1>6, <2>1, <2>4 DEF CameLate
    <3>2. Balanced(n, b2, o2, t2, v)
      BY <2>2, <3>1 DEF Balanced
    <3> QED
      BY <1>3, <3>2
  <2>5. ASSUME NEW c \in Waiting(p, i), RaisedBy(c, p, i) PROVE Bounded(p, i)'
    <3>1. v <= w - 1 /\ b2 = b + 1 /\ o2 = o /\ t2 = t
      BY <1>2, <1>7, <2>1, <2>5 DEF RaisedBy
    <3>2. Balanced(n, b2, o2, t2, v)
      BY <2>2, <3>1 DEF Balanced
    <3> QED
      BY <1>3, <3>2
  <2>6. ASSUME NEW c \in Waiting(p, i), GivenUpBy(c, p, i) PROVE Bounded(p, i)'
    <3>1. v <= w - 1 /\ b2 = b /\ o2 \in {o, o + 1} /\ t2 = t + 1
      BY <1>2, <1>7, <2>1, <2>6 DEF GivenUpBy
    <3>2. Balanced(n, b2, o2, t2, v)
      BY <2>2, <3>1 DEF Balanced
    <3> QED
      BY <1>3, <3>2
  <2> QED
    BY <1>8, <2>3, <2>4, <2>5, <2>6 DEF BillingMoves
<1> QED
  BY <1>4, <1>8 DEF BillingMoves

(* A receipt is selected for its invoice while it has none.               *)
LEMMA SelectedInvoices ==
    ASSUME BillingInv, NEW x \in Selected("invoice")
    PROVE  \E p \in PO : \E i \in DOMAIN billed[p] : x = <<p, i>> /\ billed[p][i] = 0
<1>1. PICK p \in PO : Uninvoiced(p) /\ x \in {p} \X DOMAIN billed[p]
  BY DEF Selected
<1>2. PICK i \in DOMAIN billed[p] : x = <<p, i>>
  BY <1>1
<1>3. billed[p][i] \in Nat /\ ~(billed[p][i] > 0)
  BY <1>1, <1>2 DEF BillingInv, BillingType, Uninvoiced, Bills
<1> QED
  BY <1>2, <1>3

(* Lists as clients move on: an entry was there, or its phase has just     *)
(* fetched it.                                                             *)
LEMMA ListsMove ==
    ASSUME TickInv, BillingInv, TickMoves, NEW d \in Thread, Phase(d)' = "invoice",
           NEW x \in tick'[d].todo
    PROVE  \/ Phase(d) = "invoice" /\ x \in tick[d].todo
           \/ \E p \in PO : \E i \in DOMAIN billed[p] : x = <<p, i>> /\ billed[p][i] = 0
<1>0. d \in Client /\ d \notin Clerk /\ Len(Phases) = 10
  BY Threads DEF Phases
<1>1. CASE tick'[d] = tick[d]
  BY <1>1 DEF Phase
<1>2. ASSUME NEW c \in Client, NEW y, Done(c, y) PROVE Phase(d) = "invoice" /\ x \in tick[d].todo
  <2>1. tick'[d].phase = tick[d].phase /\ tick'[d].todo \subseteq tick[d].todo
    BY <1>0, <1>2, DoneTick
  <2> QED
    BY <2>1 DEF Phase
<1>3. ASSUME NEW c \in Client, tick' = [tick EXCEPT ![c] = Rest] PROVE tick'[d] = tick[d]
  <2>1. CASE d = c
    <3>1. tick'[d] = [phase |-> 0, todo |-> {}]
      BY <1>0, <1>3, <2>1 DEF TickInv, Rest
    <3> QED
      BY <3>1
  <2> QED
    BY <1>0, <1>3, <2>1 DEF TickInv
<1>4. ASSUME NEW c \in Thread, NEW n \in 1 .. Len(Phases), Fetched(c, n), tick'[d] # tick[d]
      PROVE  x \in Selected("invoice")
  <2>1. PICK todo \in SUBSET Selected(Phases[n]) : tick'[d] = [phase |-> n, todo |-> todo]
    BY <1>0, <1>4 DEF TickInv, Fetched
  <2>2. n # 0
    BY <1>0
  <2>3. Phases[n] = "invoice"
    BY <2>1, <2>2 DEF Phase
  <2> QED
    BY <2>1, <2>3
<1>5. ASSUME NEW c \in Clerk, NEW p \in PO, tick' = [tick EXCEPT ![c].todo = {p}]
      PROVE  tick'[d] = tick[d]
  BY <1>0, <1>5 DEF TickInv
<1> QED
  BY <1>1, <1>2, <1>3, <1>4, <1>5, SelectedInvoices DEF TickMoves

(* billed or late changes for receipt i of q alone.                        *)
OnlyAt(b, c, q, i, v) == c = [b EXCEPT ![q] = [b[q] EXCEPT ![i] = v]]

LEMMA OneBill ==
    ASSUME billed \in [PO -> Seq(Nat)], NEW q \in PO, NEW i \in DOMAIN billed[q],
           NEW v \in Nat, OnlyAt(billed, billed', q, i, v)
    PROVE  /\ billed' \in [PO -> Seq(Nat)]
           /\ \A p \in PO : Len(billed'[p]) = Len(billed[p]) /\ DOMAIN billed'[p] = DOMAIN billed[p]
           /\ billed'[q][i] = v
           /\ \A p \in PO : \A j \in DOMAIN billed[p] :
                 <<p, j>> # <<q, i>> => billed'[p][j] = billed[p][j]
<1>1. billed[q] \in Seq(Nat) /\ [billed[q] EXCEPT ![i] = v] \in Seq(Nat)
  OBVIOUS
<1>2. \A p \in PO : billed'[p] = IF p = q THEN [billed[q] EXCEPT ![i] = v] ELSE billed[p]
  BY DEF OnlyAt
<1>3. billed' \in [PO -> Seq(Nat)]
  BY <1>1, <1>2 DEF OnlyAt
<1>4. ASSUME NEW p \in PO
      PROVE  Len(billed'[p]) = Len(billed[p]) /\ DOMAIN billed'[p] = DOMAIN billed[p]
  <2>1. CASE p = q
    BY <1>1, <1>2, <2>1
  <2>2. CASE p # q
    BY <1>2, <2>2
  <2> QED
    BY <2>1, <2>2
<1>5. billed'[q][i] = v
  BY <1>1, <1>2
<1>6. ASSUME NEW p \in PO, NEW j \in DOMAIN billed[p], <<p, j>> # <<q, i>>
      PROVE  billed'[p][j] = billed[p][j]
  BY <1>1, <1>2, <1>6
<1> QED
  BY <1>3, <1>4, <1>5, <1>6

LEMMA OneTimeout ==
    ASSUME late \in [PO -> Seq(Late)], NEW q \in PO, NEW i \in DOMAIN late[q],
           NEW v \in Late, OnlyAt(late, late', q, i, v)
    PROVE  /\ late' \in [PO -> Seq(Late)]
           /\ \A p \in PO : Len(late'[p]) = Len(late[p]) /\ DOMAIN late'[p] = DOMAIN late[p]
           /\ late'[q][i] = v
           /\ \A p \in PO : \A j \in DOMAIN late[p] :
                 <<p, j>> # <<q, i>> => late'[p][j] = late[p][j]
<1>1. late[q] \in Seq(Late) /\ [late[q] EXCEPT ![i] = v] \in Seq(Late)
  OBVIOUS
<1>2. \A p \in PO : late'[p] = IF p = q THEN [late[q] EXCEPT ![i] = v] ELSE late[p]
  BY DEF OnlyAt
<1>3. late' \in [PO -> Seq(Late)]
  BY <1>1, <1>2 DEF OnlyAt
<1>4. ASSUME NEW p \in PO PROVE Len(late'[p]) = Len(late[p]) /\ DOMAIN late'[p] = DOMAIN late[p]
  BY <1>1, <1>2
<1>5. late'[q][i] = v
  BY <1>1, <1>2
<1>6. ASSUME NEW p \in PO, NEW j \in DOMAIN late[p], <<p, j>> # <<q, i>>
      PROVE  late'[p][j] = late[p][j]
  BY <1>1, <1>2, <1>6
<1> QED
  BY <1>3, <1>4, <1>5, <1>6

LEMMA BillingNext == ASSUME TickInv, BillingInv, SimNext PROVE BillingInv'
<1>0. TickMoves
  BY NextTick
<1>1. ASSUME BillingType',
             \A p \in PO : DOMAIN billed[p] \subseteq DOMAIN billed'[p],
             \A p \in PO : \A i \in DOMAIN billed'[p] : BillingMoves(p, i)
      PROVE  BillingInv'
  <2>1. ASSUME NEW d \in Thread, Phase(d)' = "invoice", NEW x \in tick'[d].todo
        PROVE  \E p \in PO : \E i \in DOMAIN billed'[p] : x = <<p, i>>
    <3>1. \E p \in PO : \E i \in DOMAIN billed[p] : x = <<p, i>>
      BY <1>0, <2>1, ListsMove DEF BillingInv
    <3> QED
      BY <1>1, <3>1
  <2>2. \A p \in PO : \A i \in DOMAIN billed'[p] : Bounded(p, i)'
    BY <1>1, BillingKept
  <2> QED
    BY <1>1, <2>1, <2>2 DEF BillingInv, Bounded
<1>2. ASSUME NEW p \in PO, NEW i \in DOMAIN billed[p], billed[p][i] # 0
      PROVE  Waiting(p, i)' \subseteq Waiting(p, i)
  <2> SUFFICES ASSUME NEW d \in Thread, Phase(d)' = "invoice", <<p, i>> \in tick'[d].todo
               PROVE  Phase(d) = "invoice" /\ <<p, i>> \in tick[d].todo
    BY DEF Waiting
  <2> QED
    BY <1>0, <1>2, ListsMove
<1>3. ASSUME NEW p \in PO, NEW i \in DOMAIN billed[p],
             billed'[p][i] = billed[p][i], late'[p][i] = late[p][i]
      PROVE  BillingMoves(p, i)
  <2>1. late[p][i].open <= late[p][i].timeouts
    BY DEF BillingInv
  <2> QED
    BY <1>2, <1>3, <2>1 DEF BillingMoves, Unbilled, Same
<1>4. ASSUME billed' = billed, late' = late PROVE BillingInv'
  BY <1>1, <1>3, <1>4 DEF BillingInv, BillingType
<1>5. ASSUME NEW c \in Thread, NEW x \in tick[c].todo, Phase(c) = "invoice", Done(c, x),
             NEW p \in PO, NEW i \in DOMAIN billed[p]
      PROVE  IF <<p, i>> = x
             THEN c \in Waiting(p, i) /\ Waiting(p, i)' \subseteq Waiting(p, i) \ {c}
             ELSE Waiting(p, i)' \subseteq Waiting(p, i)
  <2>1. ASSUME NEW d \in Thread, Phase(d)' = "invoice", <<p, i>> \in tick'[d].todo
        PROVE  /\ Phase(d) = "invoice" /\ <<p, i>> \in tick[d].todo
               /\ <<p, i>> = x => d # c
    <3>1. /\ tick'[d].phase = tick[d].phase
          /\ tick'[d].todo = IF d = c THEN tick[d].todo \ {x} ELSE tick[d].todo
      BY <1>5, DoneTick, Threads
    <3> QED
      BY <2>1, <3>1 DEF Phase
  <2> QED
    BY <1>5, <2>1 DEF Waiting
<1>6. ASSUME NEW c \in Thread, NEW x \in tick[c].todo, PostInvoice(c, x) PROVE BillingInv'
  <2>1. /\ Phase(c) = "invoice" /\ Done(c, x) /\ late' = late
        /\ billed' = [billed EXCEPT ![x[1]][x[2]] = @ + 1]
    BY <1>6 DEF PostInvoice, Invoice
  <2>2. PICK q, j : q \in PO /\ j \in DOMAIN billed[q] /\ x = <<q, j>>
    BY <1>6, <2>1 DEF BillingInv
  <2>3. billed[q][j] + 1 \in Nat /\ OnlyAt(billed, billed', q, j, billed[q][j] + 1)
    BY <2>1, <2>2, Rows DEF BillingInv, BillingType, OnlyAt
  <2>4. /\ billed' \in [PO -> Seq(Nat)]
        /\ \A p \in PO : Len(billed'[p]) = Len(billed[p]) /\ DOMAIN billed'[p] = DOMAIN billed[p]
        /\ billed'[q][j] = billed[q][j] + 1
        /\ \A p \in PO : \A i \in DOMAIN billed[p] :
              <<p, i>> # x => billed'[p][i] = billed[p][i]
    BY <2>2, <2>3, OneBill DEF BillingInv, BillingType
  <2>5. ASSUME NEW p \in PO, NEW i \in DOMAIN billed[p] PROVE BillingMoves(p, i)
    <3>1. CASE <<p, i>> = x
      <4>1. p = q /\ i = j
        BY <2>2, <3>1
      <4>2. c \in Waiting(p, i) /\ RaisedBy(c, p, i)
        BY <1>5, <1>6, <2>1, <2>4, <3>1, <4>1 DEF RaisedBy
      <4> QED
        BY <4>2 DEF BillingMoves
    <3>2. CASE <<p, i>> # x
      BY <1>3, <2>1, <2>4, <3>2
    <3> QED
      BY <3>1, <3>2
  <2> QED
    BY <1>1, <2>1, <2>4, <2>5 DEF BillingInv, BillingType
<1>7. ASSUME NEW c \in Thread, NEW x \in tick[c].todo, PostLost(c, x) PROVE BillingInv'
  <2>1. billed' = billed /\ Done(c, x)
    BY <1>7 DEF PostLost
  <2>2. CASE Phase(c) # "invoice"
    BY <1>4, <1>7, <2>1, <2>2 DEF PostLost
  <2>3. CASE Phase(c) = "invoice"
    <3>1. PICK q, j : q \in PO /\ j \in DOMAIN billed[q] /\ x = <<q, j>>
      BY <1>7, <2>3 DEF BillingInv
    <3>2. late[q][j].open \in Nat /\ late[q][j].timeouts \in Nat /\ j \in DOMAIN late[q]
      BY <3>1, Rows DEF BillingInv, BillingType
    <3>3. TimedOut(q, j)
      BY <1>7, <2>3, <3>1 DEF PostLost
    <3>4. PICK open \in {0, 1} :
              late' = [late EXCEPT ![q][j] = [timeouts |-> @.timeouts + 1,
                                              open |-> @.open + open]]
      BY <3>3 DEF TimedOut
    <3> DEFINE v == [timeouts |-> late[q][j].timeouts + 1, open |-> late[q][j].open + open]
    <3>5. v \in Late
      BY <3>2, <3>4 DEF Late
    <3>6. OnlyAt(late, late', q, j, v)
      BY <3>1, <3>4 DEF BillingInv, BillingType, OnlyAt
    <3>7. /\ v.timeouts = late[q][j].timeouts + 1
          /\ v.open \in {late[q][j].open, late[q][j].open + 1}
      BY <3>2, <3>4
    <3> HIDE DEF v
    <3>8. /\ late' \in [PO -> Seq(Late)]
          /\ \A p \in PO : Len(late'[p]) = Len(late[p]) /\ DOMAIN late'[p] = DOMAIN late[p]
          /\ late'[q][j] = v
          /\ \A p \in PO : \A i \in DOMAIN late[p] :
                <<p, i>> # x => late'[p][i] = late[p][i]
      BY <3>1, <3>2, <3>5, <3>6, OneTimeout DEF BillingInv, BillingType
    <3>9. ASSUME NEW p \in PO, NEW i \in DOMAIN billed[p] PROVE BillingMoves(p, i)
      <4>1. CASE <<p, i>> = x
        <5>1. p = q /\ i = j
          BY <3>1, <4>1
        <5>2. c \in Waiting(p, i) /\ GivenUpBy(c, p, i)
          BY <1>5, <1>7, <2>1, <2>3, <3>7, <3>8, <4>1, <5>1 DEF GivenUpBy
        <5> QED
          BY <5>2 DEF BillingMoves
      <4>2. CASE <<p, i>> # x
        <5>1. i \in DOMAIN late[p]
          BY Rows DEF BillingInv, BillingType, BillingType
        <5> QED
          BY <1>3, <2>1, <3>8, <4>2, <5>1
      <4> QED
        BY <4>1, <4>2
    <3> QED
      BY <1>1, <2>1, <3>8, <3>9 DEF BillingInv, BillingType
  <2> QED
    BY <2>2, <2>3
<1>8. ASSUME NEW q \in PO, NEW j \in DOMAIN late[q], LateInvoice(q, j) PROVE BillingInv'
  <2>1. /\ late[q][j].open > 0 /\ tick' = tick
        /\ billed' = [billed EXCEPT ![q][j] = @ + 1]
        /\ late' = [late EXCEPT ![q][j].open = @ - 1]
    BY <1>8 DEF LateInvoice, Invoice
  <2>2. j \in DOMAIN billed[q]
    BY DEF BillingInv, BillingType
  <2>3. /\ billed[q][j] \in Nat /\ late[q][j].open \in Nat /\ late[q][j].timeouts \in Nat
        /\ late[q] \in Seq(Late)
    BY <2>2, Rows DEF BillingInv, BillingType
  <2> DEFINE v == [late[q][j] EXCEPT !.open = @ - 1]
  <2>4. v \in Late /\ v.timeouts = late[q][j].timeouts /\ v.open = late[q][j].open - 1
    <3>1. late[q][j] \in Late /\ late[q][j].open - 1 \in Nat
      BY <2>1, <2>3
    <3> QED
      BY <3>1 DEF Late
  <2>5. OnlyAt(billed, billed', q, j, billed[q][j] + 1) /\ OnlyAt(late, late', q, j, v)
    BY <2>1, <2>2 DEF BillingInv, BillingType, OnlyAt
  <2> HIDE DEF v
  <2>6. /\ billed' \in [PO -> Seq(Nat)]
        /\ \A p \in PO : Len(billed'[p]) = Len(billed[p]) /\ DOMAIN billed'[p] = DOMAIN billed[p]
        /\ billed'[q][j] = billed[q][j] + 1
        /\ \A p \in PO : \A i \in DOMAIN billed[p] :
              <<p, i>> # <<q, j>> => billed'[p][i] = billed[p][i]
    BY <2>2, <2>3, <2>5, OneBill DEF BillingInv, BillingType
  <2>7. /\ late' \in [PO -> Seq(Late)]
        /\ \A p \in PO : Len(late'[p]) = Len(late[p]) /\ DOMAIN late'[p] = DOMAIN late[p]
        /\ late'[q][j] = v
        /\ \A p \in PO : \A i \in DOMAIN late[p] :
              <<p, i>> # <<q, j>> => late'[p][i] = late[p][i]
    BY <2>4, <2>5, OneTimeout DEF BillingInv, BillingType
  <2>8. ASSUME NEW p \in PO, NEW i \in DOMAIN billed[p] PROVE BillingMoves(p, i)
    <3>1. CASE <<p, i>> = <<q, j>>
      <4>1. p = q /\ i = j
        BY <3>1
      <4>2. Waiting(p, i)' = Waiting(p, i)
        BY <2>1 DEF Waiting, Phase
      <4>3. CameLate(p, i)
        BY <2>1, <2>4, <2>6, <2>7, <4>1, <4>2 DEF CameLate
      <4> QED
        BY <4>3 DEF BillingMoves
    <3>2. CASE <<p, i>> # <<q, j>>
      <4>1. i \in DOMAIN late[p]
        BY Rows DEF BillingInv, BillingType
      <4> QED
        BY <1>3, <2>6, <2>7, <3>2, <4>1
    <3> QED
      BY <3>1, <3>2
  <2> QED
    BY <1>1, <2>6, <2>7, <2>8 DEF BillingInv, BillingType
<1>9. ASSUME NEW q \in PO, Receive(q) PROVE BillingInv'
  <2> DEFINE fresh == [timeouts |-> 0, open |-> 0]
  <2>1. /\ billed' = [billed EXCEPT ![q] = Append(billed[q], 0)]
        /\ late' = [late EXCEPT ![q] = Append(late[q], fresh)]
    BY <1>9 DEF Receive
  <2>2. /\ billed[q] \in Seq(Nat) /\ late[q] \in Seq(Late) /\ Len(late[q]) = Len(billed[q])
        /\ Len(billed[q]) \in Nat /\ 0 \in Nat /\ fresh \in Late
    BY DEF BillingInv, BillingType, Late
  <2>3. /\ Append(billed[q], 0) \in Seq(Nat) /\ Append(late[q], fresh) \in Seq(Late)
        /\ Len(Append(late[q], fresh)) = Len(Append(billed[q], 0))
        /\ DOMAIN Append(billed[q], 0) = 1 .. Len(billed[q]) + 1
        /\ DOMAIN billed[q] = 1 .. Len(billed[q])
        /\ \A i \in 1 .. Len(billed[q]) : /\ Append(billed[q], 0)[i] = billed[q][i]
                                          /\ Append(late[q], fresh)[i] = late[q][i]
        /\ Append(billed[q], 0)[Len(billed[q]) + 1] = 0
        /\ Append(late[q], fresh)[Len(billed[q]) + 1] = fresh
    BY <2>2
  <2>4. \A p \in PO : /\ billed'[p] = IF p = q THEN Append(billed[q], 0) ELSE billed[p]
                      /\ late'[p] = IF p = q THEN Append(late[q], fresh) ELSE late[p]
    BY <2>1 DEF BillingInv, BillingType
  <2>5. /\ billed' \in [PO -> Seq(Nat)] /\ late' \in [PO -> Seq(Late)]
        /\ \A p \in PO : Len(late'[p]) = Len(billed'[p])
    BY <2>1, <2>3, <2>4 DEF BillingInv, BillingType
  <2>6. fresh.open = 0 /\ fresh.timeouts = 0 /\ 0 <= 0
    OBVIOUS
  <2> HIDE DEF fresh
  <2>7. ASSUME NEW p \in PO, NEW i \in DOMAIN billed'[p] PROVE BillingMoves(p, i)
    <3>1. \/ billed'[p][i] = 0 /\ late'[p][i] = fresh
          \/ i \in DOMAIN billed[p] /\ billed'[p][i] = billed[p][i] /\ late'[p][i] = late[p][i]
      <4>1. CASE p # q
        BY <2>4, <2>7, <4>1
      <4>2. CASE p = q
        <5>1. /\ billed'[p] = Append(billed[q], 0) /\ late'[p] = Append(late[q], fresh)
              /\ i \in 1 .. Len(billed[q]) + 1
          BY <2>3, <2>4, <2>7, <4>2
        <5>2. i = Len(billed[q]) + 1 \/ i \in 1 .. Len(billed[q])
          BY <2>2, <5>1
        <5> QED
          BY <2>3, <4>2, <5>1, <5>2
      <4> QED
        BY <4>1, <4>2
    <3> QED
      BY <1>3, <2>6, <3>1 DEF BillingMoves, Unbilled
  <2>8. ASSUME NEW p \in PO PROVE DOMAIN billed[p] \subseteq DOMAIN billed'[p]
    <3>1. 1 .. Len(billed[q]) \subseteq 1 .. Len(billed[q]) + 1
      BY <2>2
    <3> QED
      BY <2>3, <2>4, <3>1
  <2> QED
    BY <1>1, <2>5, <2>7, <2>8 DEF BillingType
<1>10. ASSUME NEW c \in Client, NEW x,
              PostTracking(c, x) \/ PostYard(c, x) \/ PostRefused(c, x) \/ PostPay(c, x)
       PROVE  billed' = billed /\ late' = late
  BY <1>10 DEF PostTracking, PostYard, PostRefused, PostPay, AskPay, billing
<1>11. ASSUME NEW c \in Client,
              \/ Fetch(c) \/ Refill(c) \/ Press(c) \/ ClerkAsks(c) \/ Scenario(c) \/ Inject(c)
              \/ YardAnswers(c) \/ Pay(c) \/ RollBack(c) \/ ClerkOrders
              \/ \E p \in PO : Match(p)
              \/ \E t \in Truck : WorkerPlans(t)
       PROVE  billed' = billed /\ late' = late
  BY <1>11 DEF Fetch, Refill, Press, ClerkAsks, Scenario, Inject, YardAnswers, Pay, RollBack,
     ClerkOrders, Match, WorkerPlans, AskPay, billing
<1> QED
  BY <1>4, <1>6, <1>7, <1>8, <1>9, <1>10, <1>11, Threads DEF SimNext, TickStep

-----------------------------------------------------------------------------
(* The yard.                                                               *)

(* A request for payment that begins beside another request.               *)
BesidePayment == UNCHANGED <<tables, req>> /\ overlaps' = overlaps + 1

LEMMA Bodies ==
    ASSUME TypeInv
    PROVE  /\ InFull \in Body
           /\ \A t \in Truck : MayLoad(t) => AllStaged(t) \in Body
<1>1. ASSUME NEW b \in [Line -> 0 .. MaxPick] PROVE b \in Body
  <2>1. Line \in (SUBSET Line) \ {{}}
    BY SimulatorAssumption
  <2> QED
    BY <2>1 DEF Body
<1>2. InFull \in [Line -> 0 .. MaxPick]
  <2>1. Ordered \in 0 .. MaxPick
    BY OutboundAssumption
  <2> QED
    BY <2>1 DEF InFull
<1>3. ASSUME NEW t \in Truck, MayLoad(t) PROVE AllStaged(t) \in [Line -> 0 .. MaxPick]
  <2>1. truck[t] \in TruckRow
    BY <1>3, InUse DEF MayLoad, TruckStatus
  <2>2. plan[truck[t].order] \in [Line -> PlanLine]
    BY <2>1 DEF TypeInv, TruckRow
  <2> QED
    BY <2>2 DEF AllStaged, PlanLine
<1> QED
  BY <1>1, <1>2, <1>3

LEMMA PostsAsk ==
    ASSUME TypeInv, TickInv, NEW c \in Client, NEW x \in tick[c].todo, PostYard(c, x)
    PROVE  Ask(c)
<1>1. Fits(Phase(c), x)
  BY DEF TickInv
<1>2. CASE Phase(c) \in TruckPhase
  <2>1. x \in Truck
    BY <1>1, <1>2 DEF Fits
  <2>2. CASE Phase(c) = "serve"
    <3>1. AskLoad(c, x, AllStaged(x))
      BY <2>2 DEF PostYard
    <3>2. AllStaged(x) \in Body
      BY <2>1, <3>1, Bodies DEF AskLoad
    <3> QED
      BY <2>1, <3>1, <3>2 DEF Ask
  <2>3. CASE Phase(c) # "serve"
    <3>1. AskArrive(c, x) \/ AskDock(c, x) \/ AskDepart(c, x) \/ AskDeliver(c, x)
      BY <1>2, <2>3 DEF PostYard, TruckPhase
    <3> QED
      BY <2>1, <3>1 DEF Ask
  <2> QED
    BY <2>2, <2>3
<1>3. CASE Phase(c) \notin TruckPhase
  <2>1. Phase(c) \in OrderPhase /\ (AskStage(c, x, InFull) \/ AskDispatch(c, x))
    BY <1>3 DEF PostYard, TruckPhase, OrderPhase
  <2>2. x \in Order
    BY <1>1, <2>1 DEF Fits
  <2> QED
    BY <2>1, <2>2, Bodies DEF Ask
<1> QED
  BY <1>2, <1>3

LEMMA YardSteps ==
    ASSUME TypeInv, TickInv, SimNext
    PROVE  [Next]_outboundVars \/ BesidePayment
<1>1. ASSUME NEW c \in Client, NEW x \in tick[c].todo, PostYard(c, x) PROVE Next
  BY <1>1, PostsAsk DEF Next
<1>2. ASSUME NEW c \in Client, NEW p, AskPay(c, p)
      PROVE  UNCHANGED outboundVars \/ BesidePayment
  BY <1>2 DEF AskPay, BesidePayment, outboundVars
<1>3. ASSUME NEW c \in Client, ClerkAsks(c) PROVE [Next]_outboundVars \/ BesidePayment
  BY <1>2, <1>3 DEF ClerkAsks, Next
<1>4. NewOrder => Next
  BY DEF NewOrder, Next
<1>5. ASSUME NEW c \in Client, Refill(c) \/ ClerkOrders PROVE [Next]_outboundVars
  BY <1>4, <1>5 DEF Refill, ClerkOrders
<1>6. ASSUME NEW c \in Client, YardAnswers(c) \/ RollBack(c) PROVE [Next]_outboundVars
  BY <1>6 DEF YardAnswers, RollBack, Next
<1>7. ASSUME NEW t \in Truck, WorkerPlans(t) PROVE Next
  BY <1>7 DEF WorkerPlans, Next
<1>8. ASSUME NEW c \in Client, NEW x, PostPay(c, x)
      PROVE  UNCHANGED outboundVars \/ BesidePayment
  BY <1>2, <1>8 DEF PostPay
<1>9. ASSUME NEW c \in Client,
             \/ Fetch(c) \/ Press(c) \/ Scenario(c) \/ Inject(c) \/ Pay(c)
             \/ \E x : \/ PostTracking(c, x) \/ PostRefused(c, x)
                       \/ PostInvoice(c, x) \/ PostLost(c, x)
             \/ \E p \in PO : Receive(p) \/ Match(p) \/ \E i : LateInvoice(p, i)
      PROVE  UNCHANGED outboundVars
  BY <1>9 DEF Fetch, Press, Scenario, Inject, Pay, PostTracking, PostRefused, PostInvoice,
     PostLost, Receive, Match, LateInvoice
<1> QED
  BY <1>1, <1>3, <1>5, <1>6, <1>7, <1>8, <1>9, Threads DEF SimNext, TickStep

LEMMA YardNext ==
    ASSUME TypeInv, Issued, InOrder, TickInv, SimNext
    PROVE  TypeInv' /\ Issued' /\ InOrder'
<1>1. CASE [Next]_outboundVars
  BY <1>1, TypeNext, IssuedNext, InOrderNext
<1>2. CASE BesidePayment
  <2>1. overlaps' \in Nat /\ overlaps' # 0
    BY <1>2 DEF BesidePayment, TypeInv
  <2>2. UNCHANGED <<order, plan, truck, issues, req>>
    BY <1>2 DEF BesidePayment, tables
  <2>3. TypeInv' /\ InOrder'
    BY <2>1, <2>2 DEF TypeInv, InOrder
  <2>4. Issued'
    BY <2>2 DEF Issued, NothingLeavesUnissued, At
  <2> QED
    BY <2>3, <2>4
<1> QED
  BY <1>1, <1>2, YardSteps

-----------------------------------------------------------------------------
(* Payments.                                                               *)

(* Requests only ever begin to overlap.                                    *)
LEMMA OverlapsGrow ==
    ASSUME TypeInv, TickInv, SimNext
    PROVE  overlaps \in Nat /\ (overlaps' = overlaps \/ overlaps' = overlaps + 1)
<1>1. overlaps \in Nat
  BY DEF TypeInv
<1>2. ASSUME NEW c \in Client, Ask(c) PROVE overlaps' = overlaps \/ overlaps' = overlaps + 1
  BY <1>2 DEF Ask, AskStage, AskDispatch, AskArrive, AskDock, AskLoad, AskDepart,
     AskDeliver, Open
<1>3. ASSUME NEW c \in Client, Answer(c) \/ Abort(c) PROVE overlaps' = overlaps
  BY <1>3 DEF Answer, Abort, Stage, Dispatch, Arrive, Dock, Load, Depart, Deliver, Answered
<1>4. ASSUME \/ \E o \in Order : CreateOrder(o)
             \/ \E t \in Truck : AssignDoor(t)
             \/ UNCHANGED outboundVars
      PROVE  overlaps' = overlaps
  BY <1>4 DEF CreateOrder, AssignDoor, outboundVars
<1> QED
  BY <1>1, <1>2, <1>3, <1>4, YardSteps DEF Next, BesidePayment

LEMMA PaymentNext == ASSUME TypeInv, TickInv, PaymentInv, SimNext PROVE PaymentInv'
<1>0. overlaps \in Nat /\ (overlaps' = overlaps \/ overlaps' = overlaps + 1)
  BY OverlapsGrow
<1>1. ASSUME UNCHANGED <<paying, payment, paid>> PROVE PaymentInv'
  BY <1>0, <1>1 DEF PaymentInv
<1>2. ASSUME NEW c \in Client, NEW p \in PO, AskPay(c, p) PROVE PaymentInv'
  <2>1. /\ paying' = [paying EXCEPT ![c] = p] /\ payment[p] = "APPROVED"
        /\ UNCHANGED <<payment, paid>>
    BY <1>2 DEF AskPay, billing
  <2>2. ASSUME overlaps' = 0 PROVE \A d \in Client : paying[d] = Nobody
    BY <1>0, <1>2, <2>2 DEF AskPay, Idle
  <2>3. \A d \in Client : paying'[d] = IF d = c THEN p ELSE paying[d]
    BY <2>1 DEF PaymentInv
  <2> QED
    BY <1>0, <2>1, <2>2, <2>3 DEF PaymentInv
<1>3. ASSUME NEW c \in Client, paying' = [paying EXCEPT ![c] = Nobody],
             UNCHANGED <<payment, paid>>
      PROVE  PaymentInv'
  <2>1. \A d \in Client : paying'[d] = IF d = c THEN Nobody ELSE paying[d]
    BY <1>3 DEF PaymentInv
  <2> QED
    BY <1>0, <1>3, <2>1 DEF PaymentInv
<1>4. ASSUME NEW c \in Client, Pay(c) PROVE PaymentInv'
  <2>1. PICK p \in PO : p = paying[c] /\ p # Nobody
    BY <1>4 DEF Pay, PaymentInv
  <2>2. /\ payment' = [payment EXCEPT ![p] = "PAID"]
        /\ paid' = [paid EXCEPT ![p] = @ + 1]
        /\ paying' = [paying EXCEPT ![c] = Nobody]
    BY <1>4, <2>1 DEF Pay
  <2>3. \A d \in Client : paying'[d] = IF d = c THEN Nobody ELSE paying[d]
    BY <2>2 DEF PaymentInv
  <2>4. \A q \in PO : /\ payment'[q] = IF q = p THEN "PAID" ELSE payment[q]
                      /\ paid'[q] = IF q = p THEN paid[q] + 1 ELSE paid[q]
                      /\ paid[q] \in Nat
    BY <2>2 DEF PaymentInv
  <2>5. /\ paying' \in [Client -> PO \cup {Nobody}]
        /\ payment' \in [PO -> {"NONE", "APPROVED", "PAID"}]
        /\ paid' \in [PO -> Nat]
    BY <2>2, <2>4 DEF PaymentInv
  <2>6. ASSUME overlaps' = 0
        PROVE  /\ \A d, e \in Client : paying'[d] # Nobody /\ paying'[e] # Nobody => d = e
               /\ \A d \in Client : paying'[d] # Nobody => payment'[paying'[d]] = "APPROVED"
               /\ \A q \in PO : IF payment'[q] = "PAID" THEN paid'[q] <= 1 ELSE paid'[q] = 0
    <3>1. overlaps = 0
      BY <1>0, <2>6
    <3>2. /\ \A d \in Client : paying[d] # Nobody => d = c
          /\ payment[p] = "APPROVED" /\ paid[p] = 0
      BY <2>1, <3>1 DEF PaymentInv
    <3>3. \A d \in Client : paying'[d] = Nobody
      BY <2>3, <3>2
    <3>4. \A q \in PO : IF payment'[q] = "PAID" THEN paid'[q] <= 1 ELSE paid'[q] = 0
      BY <2>4, <3>1, <3>2 DEF PaymentInv
    <3> QED
      BY <3>3, <3>4
  <2> QED
    BY <2>5, <2>6 DEF PaymentInv
<1>5. ASSUME NEW p \in PO, Match(p) PROVE PaymentInv'
  <2>1. /\ payment[p] = "NONE" /\ payment' = [payment EXCEPT ![p] = "APPROVED"]
        /\ UNCHANGED <<paying, paid, overlaps>>
    BY <1>5 DEF Match, outboundVars
  <2>2. \A q \in PO : payment'[q] = IF q = p THEN "APPROVED" ELSE payment[q]
    BY <2>1 DEF PaymentInv
  <2> QED
    BY <2>1, <2>2 DEF PaymentInv
<1>6. ASSUME NEW c \in Client, RollBack(c) PROVE PaymentInv'
  <2>1. UNCHANGED <<payment, paid>>
    BY <1>6 DEF RollBack, billing
  <2>2. paying' = paying \/ paying' = [paying EXCEPT ![c] = Nobody]
    BY <1>6 DEF RollBack
  <2> QED
    BY <1>1, <1>3, <2>1, <2>2
<1>7. ASSUME NEW c \in Client, ClerkAsks(c) PROVE PaymentInv'
  BY <1>1, <1>2, <1>7 DEF ClerkAsks, billing
<1>8. ASSUME NEW c \in Client, NEW x \in tick[c].todo, PostPay(c, x) PROVE PaymentInv'
  <2>1. x \in PO
    BY <1>8 DEF PostPay, TickInv, Fits
  <2> QED
    BY <1>2, <1>8, <2>1 DEF PostPay
<1>9. ASSUME NEW c \in Client,
             \/ Fetch(c) \/ Refill(c) \/ Press(c) \/ Scenario(c) \/ Inject(c)
             \/ YardAnswers(c) \/ ClerkOrders
             \/ \E x : \/ PostTracking(c, x) \/ PostYard(c, x) \/ PostRefused(c, x)
                       \/ PostInvoice(c, x) \/ PostLost(c, x)
             \/ \E p \in PO : Receive(p) \/ \E i : LateInvoice(p, i)
             \/ \E t \in Truck : WorkerPlans(t)
      PROVE  UNCHANGED <<paying, payment, paid>>
  BY <1>9 DEF Fetch, Refill, Press, Scenario, Inject, YardAnswers, ClerkOrders, PostTracking,
     PostYard, PostRefused, PostInvoice, PostLost, LateInvoice, Receive, WorkerPlans, billing
<1> QED
  BY <1>1, <1>4, <1>5, <1>6, <1>7, <1>8, <1>9, Threads DEF SimNext, TickStep

-----------------------------------------------------------------------------
(* The inductive invariant.                                                *)
SimInv == TypeInv /\ Issued /\ InOrder /\ TickInv /\ BillingInv /\ PaymentInv

LEMMA SimStart == SimInit => SimInv
<1> SUFFICES ASSUME SimInit PROVE SimInv
  OBVIOUS
<1>1. TypeInv /\ Issued /\ InOrder
  BY TypeInit, IssuedInit, InOrderInit DEF SimInit
<1>2. TickInv
  <2>1. 0 \in 0 .. Len(Phases)
    BY DEF Phases
  <2>2. \A c \in Client : tick[c] = [phase |-> 0, todo |-> {}]
    BY DEF SimInit, Rest
  <2>3. tick = [c \in Client |-> [phase |-> tick[c].phase, todo |-> tick[c].todo]]
    BY <2>2 DEF SimInit, Rest
  <2> QED
    BY <2>1, <2>2, <2>3 DEF TickInv
<1>3. BillingInv
  <2>1. \A p \in PO : billed[p] = <<>> /\ late[p] = <<>> /\ DOMAIN billed[p] = {}
    BY DEF SimInit
  <2>2. \A c \in Thread : Phase(c) = "none"
    BY Threads DEF SimInit, Rest, Phase
  <2> QED
    BY <2>1, <2>2 DEF BillingInv, BillingType, SimInit
<1>4. PaymentInv
  BY DEF SimInit, PaymentInv
<1> QED
  BY <1>1, <1>2, <1>3, <1>4 DEF SimInv

LEMMA SimStep == SimInv /\ [SimNext]_simVars => SimInv'
<1> SUFFICES ASSUME SimInv, [SimNext]_simVars PROVE SimInv'
  OBVIOUS
<1>1. CASE SimNext
  BY <1>1, YardNext, NextTick, TickNext, BillingNext, PaymentNext DEF SimInv
<1>2. CASE UNCHANGED simVars
  <2>1. /\ UNCHANGED outboundVars /\ tick' = tick
        /\ UNCHANGED <<billed, late, payment, paid, paying, overlaps>>
    BY <1>2 DEF simVars, billing, outboundVars
  <2>2. TypeInv' /\ Issued' /\ InOrder'
    BY <2>1, TypeNext, IssuedNext, InOrderNext DEF SimInv
  <2>3. TickInv'
    BY <2>1, TickNext DEF SimInv, TickMoves
  <2>4. BillingInv' /\ PaymentInv'
    BY <2>1 DEF SimInv, BillingInv, BillingType, PaymentInv, BillsOf, Waiting, Phase
  <2> QED
    BY <2>2, <2>3, <2>4 DEF SimInv
<1> QED
  BY <1>1, <1>2

LEMMA SimAlways == SimSpec => []SimInv
  BY SimStart, SimStep, PTL DEF SimSpec

(* Ticks, buttons and clerks only ever ask the yard: seen from its tables, *)
(* a behaviour of the simulator is one of Outbound, where requests may     *)
(* also overlap with requests for payment.                                 *)
THEOREM TicksAreRequests == SimSpec => Init /\ [][Next \/ BesidePayment]_outboundVars
<1>1. SimInit => Init
  BY DEF SimInit
<1>2. SimInv /\ [SimNext]_simVars => [Next \/ BesidePayment]_outboundVars
  BY YardSteps DEF SimInv, simVars
<1> QED
  BY <1>1, <1>2, SimAlways, PTL DEF SimSpec

(* No truck leaves without a goods issue, however ticks and clerks overlap *)
(* and whichever posts fail.                                               *)
THEOREM SimLoadsBeforeLeaving == SimSpec => []NothingLeavesUnissued
<1>1. SimInv => NothingLeavesUnissued
  BY DEF SimInv, Issued
<1> QED
  BY <1>1, SimAlways, PTL

(* What one tick has listed and another or a clerk has served meanwhile is *)
(* refused: while requests have not overlapped, an order has one truck and *)
(* says where it is, and a truck took what was loaded and staged.          *)
THEOREM SimKeepsOrder == SimSpec => [](OrderFollowsTruck /\ IssuedIsLoaded)
<1>1. SimInv => OrderFollowsTruck /\ IssuedIsLoaded
  BY DEF SimInv, InOrder, OrderInOrder, TruckInOrder, OrderFollowsTruck, IssuedIsLoaded
<1> QED
  BY <1>1, SimAlways, PTL

(* No receipt is billed more often than there are threads that tick, and   *)
(* once more by each of its posts that timed out, also when its invoices   *)
(* come without a PO number.                                               *)
THEOREM BillingEnds == SimSpec => []NoRunawayBilling
<1>1. SimInv => NoRunawayBilling
  <2> SUFFICES ASSUME SimInv, NEW p \in PO, NEW i \in DOMAIN billed[p]
               PROVE  billed[p][i] <= Cardinality(Thread) + late[p][i].timeouts
    BY DEF NoRunawayBilling
  <2>1. billed[p][i] \in Nat /\ late[p][i].open \in Nat /\ late[p][i].timeouts \in Nat
    BY Rows DEF SimInv, BillingInv, BillingType
  <2>2. billed[p][i] + late[p][i].open + Cardinality(Waiting(p, i))
           <= Cardinality(Thread) + late[p][i].timeouts
    BY DEF SimInv, BillingInv, BillsOf
  <2> QED
    BY <2>1, <2>2, WaitingCount, Threads
<1> QED
  BY <1>1, SimAlways, PTL

(* While requests have not overlapped, each payment is paid once, on       *)
(* however many lists it has been.                                         *)
THEOREM SimPaysOnce == SimSpec => []PaidOnce
<1>1. SimInv => PaidOnce
  BY DEF SimInv, PaymentInv, PaidOnce
<1> QED
  BY <1>1, SimAlways, PTL
===============================================================================
