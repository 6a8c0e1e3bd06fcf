-------------------------- MODULE YardDock_proofs --------------------------
(***************************************************************************)
(* Proofs about YardDock, for every set of trailers, doors and clerks and  *)
(* every bound and interleaving: types, what a replan may never do to an   *)
(* override, and, of the trailers no transaction has been overtaken about, *)
(* that each has one current assignment, none once it is served, that its  *)
(* goods are counted once, and that no door is promised twice at a time.   *)
(***************************************************************************)
EXTENDS YardDock, SequenceTheorems, WellFoundedInduction, TLAPS

(* The rows a request or the plan has read are still there.                *)
RowsExist ==
    /\ plan.open => \A t \in Trailer : plan.current[t] \in 0 .. Len(rows[t])
    /\ \A c \in Clerk : desk[c].task \in {"DOCK", "REASSIGN"} =>
           desk[c].row \in 1 .. Len(rows[desk[c].trailer])

(* The event a replan will mark as handled is still waiting.               *)
EventWaits ==
    plan.open => /\ plan.event = "REPLAN" => inbox.replan > 0
                 /\ plan.event = "ETA" => inbox.eta > 0

(* The row a plan will rewrite or close was never an override.             *)
PlanAvoidsOverrides ==
    plan.open =>
        \A t \in DOMAIN plan.slots :
            plan.current[t] # 0 => rows[t][plan.current[t]].source = "dock-worker"

IInv == TypeOK /\ RowsExist /\ EventWaits /\ PlanAvoidsOverrides

-----------------------------------------------------------------------------
(* A set of naturals has a least element.                                  *)
LEMMA LeastNatural ==
    ASSUME NEW T \in SUBSET Nat, T # {}
    PROVE  \E m \in T : \A k \in T : m <= k
<1> DEFINE R == OpToRel(<, Nat)
<1>1. IsWellFoundedOn(R, Nat)
  BY NatLessThanWellFounded
<1>2. \A k, m \in T : <<k, m>> \in R <=> k < m
  BY DEF OpToRel
<1> HIDE DEF R
<1>3. PICK m \in T : \A k \in T : ~(<<k, m>> \in R)
  BY <1>1, WFMin
<1>4. \A k \in T : ~(k < m)
  BY <1>2, <1>3
<1>5. \A k \in T : k \in Nat
  OBVIOUS
<1>6. \A k \in T : m <= k
  BY <1>4, <1>5
<1> QED
  BY <1>6

(* A set of positions has a last one.                                      *)
LEMMA LastPosition ==
    ASSUME NEW n \in Nat, NEW S \in SUBSET (1 .. n), S # {}
    PROVE  Max(S) \in S /\ \A k \in S : Max(S) >= k
<1> DEFINE T == {n - k : k \in S}
<1>1. \A k \in S : k \in Nat /\ n - k \in Nat
  OBVIOUS
<1>2. T \in SUBSET Nat
  BY <1>1
<1>3. T # {}
  OBVIOUS
<1>4. PICK m \in T : \A k \in T : m <= k
  <2> HIDE DEF T
  <2> QED
    BY <1>2, <1>3, LeastNatural
<1>5. PICK x \in S : m = n - x
  OBVIOUS
<1>6. \A y \in S : m <= n - y
  BY <1>4
<1>7. \A y \in S : x >= y
  BY <1>1, <1>5, <1>6
<1> QED
  BY <1>7 DEF Max

(* The row a replan takes for a trailer's is a live one.                   *)
LEMMA CurrentIsLive ==
    ASSUME TypeOK, NEW t \in Trailer
    PROVE  /\ Current(t) \in 0 .. Len(rows[t])
           /\ Current(t) # 0 => Current(t) \in LiveOf(t)
<1>1. rows[t] \in Seq(Row)
  BY DEF TypeOK
<1>2. Len(rows[t]) \in Nat /\ DOMAIN rows[t] = 1 .. Len(rows[t])
  BY <1>1
<1>3. LiveOf(t) \in SUBSET (1 .. Len(rows[t]))
  BY <1>2 DEF LiveOf
<1>4. CASE LiveOf(t) = {}
  BY <1>2, <1>4 DEF Current
<1>5. CASE LiveOf(t) # {}
  <2>1. Max(LiveOf(t)) \in LiveOf(t)
    BY <1>2, <1>3, <1>5, LastPosition
  <2> QED
    BY <1>2, <1>3, <1>5, <2>1 DEF Current
<1> QED
  BY <1>4, <1>5

(* Changing one row, and adding one.                                       *)
LEMMA RowReplaced ==
    ASSUME NEW S, NEW s \in Seq(S), NEW k \in 1 .. Len(s), NEW e \in S
    PROVE  /\ [s EXCEPT ![k] = e] \in Seq(S)
           /\ Len([s EXCEPT ![k] = e]) = Len(s)
           /\ [s EXCEPT ![k] = e][k] = e
           /\ \A j \in 1 .. Len(s) : j # k => [s EXCEPT ![k] = e][j] = s[j]
  OBVIOUS

LEMMA RowAppended ==
    ASSUME NEW S, NEW s \in Seq(S), NEW e \in S
    PROVE  /\ Append(s, e) \in Seq(S)
           /\ Len(Append(s, e)) = Len(s) + 1
           /\ Len(s) \in Nat
           /\ \A j \in 1 .. Len(s) : Append(s, e)[j] = s[j]
           /\ Append(s, e)[Len(s) + 1] = e
  OBVIOUS

-----------------------------------------------------------------------------
LEMMA TypeInit == Init => IInv
<1> SUFFICES ASSUME Init PROVE IInv
  OBVIOUS
<1>1. rows \in [Trailer -> Seq(Row)]
  BY DEF Init
<1>2. trailers \in [Trailer -> [status : TrailerStatus, eta : Nat]]
  BY DEF Init, TrailerStatus
<1>3. desk \in [Clerk -> GateRequest \cup OverrideRequest \cup {NoRequest}]
  BY DEF Init
<1>4. plan = NoPlan /\ ~plan.open /\ \A c \in Clerk : desk[c].task = "NONE"
  BY DEF Init, NoPlan, NoRequest
<1>5. TypeOK
  BY <1>1, <1>2, <1>3, <1>4 DEF Init, TypeOK, Many
<1> QED
  BY <1>4, <1>5 DEF IInv, RowsExist, EventWaits, PlanAvoidsOverrides

(* Counting the worker's events.                                           *)
LEMMA Counting ==
    ASSUME NEW b \in [replan : 0 .. Many, eta : 0 .. Many]
    PROVE  /\ Signal(b) \in [replan : 0 .. Many, eta : 0 .. Many]
           /\ Signal(b).replan > 0 /\ Signal(b).eta = b.eta
           /\ [b EXCEPT !.eta = OneMore(@)] \in [replan : 0 .. Many, eta : 0 .. Many]
           /\ [b EXCEPT !.eta = OneMore(@)].eta > 0
           /\ [b EXCEPT !.eta = OneMore(@)].replan = b.replan
           /\ b.replan > 0 => OneLess(b.replan) \subseteq 0 .. Many
           /\ b.eta > 0 => OneLess(b.eta) \subseteq 0 .. Many
  BY DEF Signal, OneMore, OneLess, Many

(* What does not touch the rows, the plan or the desk leaves the rest be.  *)
LEMMA Frame ==
    ASSUME IInv, UNCHANGED <<rows, plan, desk>>,
           plan.open => /\ inbox.replan > 0 => inbox'.replan > 0
                        /\ inbox.eta > 0 => inbox'.eta > 0
    PROVE  RowsExist' /\ EventWaits' /\ PlanAvoidsOverrides'
<1>1. RowsExist'
  BY DEF IInv, RowsExist
<1>2. EventWaits'
  BY DEF IInv, EventWaits
<1>3. PlanAvoidsOverrides'
  BY DEF IInv, PlanAvoidsOverrides
<1> QED
  BY <1>1, <1>2, <1>3

(* The world: the clock, the roads, the doors, and an event passed over.   *)
World ==
    \/ Tick \/ UnblockDoors \/ IgnoreEta
    \/ \E d \in Door : BlockDoor(d)
    \/ \E t \in Trailer, eta \in Eta : CreateTrailer(t, eta) \/ PostTracking(t, eta)

LEMMA TypeWorld == ASSUME IInv, World PROVE IInv'
<1> USE DEF IInv
<1>1. CASE Tick
  BY <1>1, Frame DEF Tick, TypeOK, yard
<1>2. CASE UnblockDoors
  BY <1>2, Frame DEF UnblockDoors, TypeOK, yard
<1>3. CASE IgnoreEta
  <2>1. PICK n \in OneLess(inbox.eta) : inbox' = [inbox EXCEPT !.eta = n]
    BY <1>3 DEF IgnoreEta
  <2>2. inbox' \in [replan : 0 .. Many, eta : 0 .. Many]
    BY <1>3, <2>1, Counting DEF IgnoreEta, TypeOK
  <2> QED
    BY <1>3, <2>2, Frame DEF IgnoreEta, TypeOK, yard
<1>4. ASSUME NEW d \in Door, BlockDoor(d) PROVE IInv'
  <2>1. count' \in [eta : Nat, blocks : Nat, failures : Nat]
    BY <1>4 DEF BlockDoor, TypeOK
  <2> QED
    BY <1>4, <2>1, Frame DEF BlockDoor, TypeOK, yard
<1>5. ASSUME NEW t \in Trailer, NEW eta \in Eta, CreateTrailer(t, eta) PROVE IInv'
  <2>1. trailers' \in [Trailer -> [status : TrailerStatus, eta : Nat]]
    BY <1>5, YardDockAssumption DEF CreateTrailer, TypeOK, TrailerStatus
  <2>2. /\ inbox' \in [replan : 0 .. Many, eta : 0 .. Many]
        /\ inbox'.replan > 0 /\ inbox'.eta = inbox.eta
    BY <1>5, Counting DEF CreateTrailer, TypeOK
  <2> QED
    BY <1>5, <2>1, <2>2, Frame DEF CreateTrailer, TypeOK
<1>6. ASSUME NEW t \in Trailer, NEW eta \in Eta, PostTracking(t, eta) PROVE IInv'
  <2>1. trailers' \in [Trailer -> [status : TrailerStatus, eta : Nat]]
    <3>1. trailers \in [Trailer -> [status : TrailerStatus, eta : Nat]] /\ eta \in Nat
      BY YardDockAssumption DEF TypeOK
    <3>2. trailers' = [trailers EXCEPT ![t] = [trailers[t] EXCEPT !.eta = eta]]
      BY <1>6 DEF PostTracking
    <3>3. [trailers[t] EXCEPT !.eta = eta] \in [status : TrailerStatus, eta : Nat]
      BY <3>1
    <3> QED
      BY <3>1, <3>2, <3>3
  <2>2. /\ inbox' \in [replan : 0 .. Many, eta : 0 .. Many]
        /\ inbox'.replan = inbox.replan /\ inbox'.eta > 0
    BY <1>6, Counting DEF PostTracking, TypeOK
  <2>3. count' \in [eta : Nat, blocks : Nat, failures : Nat]
    <3>1. count \in [eta : Nat, blocks : Nat, failures : Nat]
      BY DEF TypeOK
    <3>2. count' = [count EXCEPT !.eta = @ + 1]
      BY <1>6 DEF PostTracking
    <3> QED
      BY <3>1, <3>2
  <2> QED
    BY <1>6, <2>1, <2>2, <2>3, Frame DEF PostTracking, TypeOK
<1> QED
  BY <1>1, <1>2, <1>3, <1>4, <1>5, <1>6 DEF World

-----------------------------------------------------------------------------
(* Requests.                                                               *)

(* A request that has passed its checks is put on the desk.                *)
LEMMA DeskFrame ==
    ASSUME IInv, NEW c \in Clerk, NEW request \in GateRequest \cup OverrideRequest,
           desk' = [desk EXCEPT ![c] = request],
           UNCHANGED <<now, yard, active, alerted, inbox, plan, count>>,
           request.task \in {"DOCK", "REASSIGN"} =>
               request.row \in 1 .. Len(rows[request.trailer])
    PROVE  IInv'
<1>1. TypeOK'
  BY DEF IInv, TypeOK, yard
<1>2. RowsExist'
  BY DEF IInv, RowsExist, TypeOK, yard
<1>3. EventWaits' /\ PlanAvoidsOverrides'
  BY DEF IInv, EventWaits, PlanAvoidsOverrides, yard
<1> QED
  BY <1>1, <1>2, <1>3 DEF IInv

LEMMA TypeAsk ==
    ASSUME IInv, NEW c \in Clerk, NEW t \in Trailer,
           \/ \E task \in Task : AskGate(c, task, t)
           \/ \E k \in DOMAIN rows[t] :
                 AskDock(c, t, k) \/ \E d \in Door : AskReassign(c, t, k, d)
    PROVE  IInv'
<1>1. rows[t] \in Seq(Row)
  BY DEF IInv, TypeOK
<1>2. Len(rows[t]) \in Nat /\ DOMAIN rows[t] = 1 .. Len(rows[t])
  BY <1>1
<1>3. ASSUME NEW task \in Task, AskGate(c, task, t) PROVE IInv'
  <2> DEFINE request == [task |-> task, trailer |-> t]
  <2>1. request \in GateRequest /\ request.task \notin {"DOCK", "REASSIGN"}
    BY <1>3 DEF AskGate, GateRequest, Tasks
  <2> QED
    BY <1>3, <2>1, DeskFrame DEF AskGate
<1>4. ASSUME NEW k \in DOMAIN rows[t], AskDock(c, t, k) PROVE IInv'
  <2> DEFINE request == [task |-> "DOCK", trailer |-> t, row |-> k]
  <2>1. request \in GateRequest /\ request.row \in 1 .. Len(rows[request.trailer])
    BY <1>2 DEF GateRequest
  <2> QED
    BY <1>4, <2>1, DeskFrame DEF AskDock
<1>5. ASSUME NEW k \in DOMAIN rows[t], NEW d \in Door, AskReassign(c, t, k, d) PROVE IInv'
  <2>1. PICK s \in SlotStarts(Ready(t)) :
           desk' = [desk EXCEPT ![c] = [task |-> "REASSIGN", trailer |-> t, row |-> k,
                                        door |-> d, start |-> s]]
    BY <1>5 DEF AskReassign
  <2> DEFINE request == [task |-> "REASSIGN", trailer |-> t, row |-> k, door |-> d,
                         start |-> s]
  <2>2. s \in Nat
    <3>1. Ready(t) \in Nat
      BY DEF IInv, TypeOK, Ready, LaterOf
    <3>2. ASSUME NEW q \in Live PROVE The(q).end \in Nat
      <4>1. PICK u \in Trailer : q \in {u} \X DOMAIN rows[u]
        BY DEF Live, Assignments
      <4>2. rows[u] \in Seq(Row) /\ q[1] = u /\ q[2] \in DOMAIN rows[u]
        BY <4>1 DEF IInv, TypeOK
      <4>3. rows[u][q[2]] \in Row
        BY <4>2
      <4> QED
        BY <4>2, <4>3 DEF The, Row
    <3> QED
      BY <3>1, <3>2 DEF SlotStarts
  <2>3. request \in OverrideRequest /\ request.row \in 1 .. Len(rows[request.trailer])
    BY <1>2, <2>2 DEF OverrideRequest
  <2>4. UNCHANGED <<now, yard, active, alerted, inbox, plan, count>>
    BY <1>5 DEF AskReassign
  <2> QED
    BY <2>1, <2>3, <2>4, DeskFrame
<1> QED
  BY <1>3, <1>4, <1>5

-----------------------------------------------------------------------------
(* The writes of requests.                                                 *)

(* An open plan is for trailers and has slots for them.                    *)
LEMMA PlanTyped ==
    ASSUME TypeOK, plan.open
    PROVE  /\ plan \in OpenPlan
           /\ \A t \in DOMAIN plan.slots : t \in Trailer /\ plan.slots[t] \in Slot
<1>1. plan \in OpenPlan
  BY DEF TypeOK, NoPlan
<1>2. plan.slots \in UNION {[placed -> Slot] : placed \in SUBSET Trailer}
  BY <1>1 DEF OpenPlan
<1>3. PICK placed \in SUBSET Trailer : plan.slots \in [placed -> Slot]
  BY <1>2
<1> QED
  BY <1>1, <1>3

(* The plan's view survives if no row goes away and none becomes an        *)
(* override.                                                               *)
LEMMA PlanFrame ==
    ASSUME IInv, UNCHANGED plan,
           \A t \in Trailer : /\ Len(rows[t]) \in Nat /\ Len(rows'[t]) \in Nat
                              /\ Len(rows[t]) <= Len(rows'[t])
                              /\ \A k \in 1 .. Len(rows[t]) : rows'[t][k].source = rows[t][k].source
    PROVE  /\ plan.open => \A t \in Trailer : plan.current[t] \in 0 .. Len(rows'[t])
           /\ PlanAvoidsOverrides'
<1>1. plan.open => \A t \in Trailer : plan.current[t] \in 0 .. Len(rows'[t])
  BY DEF IInv, RowsExist
<1>2. ASSUME plan.open, NEW t \in DOMAIN plan.slots, plan.current[t] # 0
      PROVE  rows'[t][plan.current[t]].source = "dock-worker"
  <2>1. t \in Trailer
    BY <1>2, PlanTyped DEF IInv
  <2>2. plan.current[t] \in 1 .. Len(rows[t])
    BY <1>2, <2>1 DEF IInv, RowsExist
  <2> QED
    BY <1>2, <2>1, <2>2 DEF IInv, PlanAvoidsOverrides
<1> QED
  BY <1>1, <1>2 DEF PlanAvoidsOverrides

(* Who asks for what, after a request is done.                             *)
LEMMA DeskCleared ==
    ASSUME IInv, NEW c \in Clerk, Done(c),
           \A t \in Trailer : /\ Len(rows[t]) \in Nat /\ Len(rows'[t]) \in Nat
                              /\ Len(rows[t]) <= Len(rows'[t])
    PROVE  /\ desk' \in [Clerk -> GateRequest \cup OverrideRequest \cup {NoRequest}]
           /\ \A a \in Clerk : desk'[a].task \in {"DOCK", "REASSIGN"} =>
                  desk'[a].row \in 1 .. Len(rows'[desk'[a].trailer])
<1>1. desk' \in [Clerk -> GateRequest \cup OverrideRequest \cup {NoRequest}]
  BY DEF IInv, TypeOK, Done
<1>2. ASSUME NEW a \in Clerk, desk'[a].task \in {"DOCK", "REASSIGN"}
      PROVE  desk'[a].row \in 1 .. Len(rows'[desk'[a].trailer])
  <2>1. a # c /\ desk'[a] = desk[a]
    BY <1>2 DEF IInv, TypeOK, Done, NoRequest
  <2>2. desk[a].trailer \in Trailer
    BY <1>2, <2>1 DEF IInv, TypeOK, GateRequest, OverrideRequest, NoRequest
  <2>3. desk[a].row \in 1 .. Len(rows[desk[a].trailer])
    BY <1>2, <2>1 DEF IInv, RowsExist
  <2> QED
    BY <2>1, <2>2, <2>3
<1> QED
  BY <1>1, <1>2

(* A request names a trailer.                                              *)
LEMMA RequestTyped ==
    ASSUME TypeOK, NEW c \in Clerk, desk[c].task # "NONE"
    PROVE  desk[c].trailer \in Trailer
  BY DEF TypeOK, GateRequest, OverrideRequest, NoRequest

(* The assignments of a trailer are a sequence of rows.                    *)
LEMMA RowsTyped ==
    ASSUME TypeOK, NEW t \in Trailer
    PROVE  /\ rows[t] \in Seq(Row) /\ Len(rows[t]) \in Nat
           /\ DOMAIN rows[t] = 1 .. Len(rows[t])
           /\ \A k \in 1 .. Len(rows[t]) : rows[t][k] \in Row
<1>1. rows[t] \in Seq(Row)
  BY DEF TypeOK
<1> QED
  BY <1>1

(* What a change of one trailer's rows gives for all.                      *)
LEMMA RowsChanged ==
    ASSUME TypeOK, NEW t \in Trailer, NEW s \in Seq(Row),
           rows' = [rows EXCEPT ![t] = s],
           Len(rows[t]) <= Len(s),
           \A k \in 1 .. Len(rows[t]) : s[k].source = rows[t][k].source
    PROVE  /\ rows' \in [Trailer -> Seq(Row)]
           /\ \A u \in Trailer :
                 /\ Len(rows[u]) \in Nat /\ Len(rows'[u]) \in Nat
                 /\ Len(rows[u]) <= Len(rows'[u])
                 /\ \A k \in 1 .. Len(rows[u]) : rows'[u][k].source = rows[u][k].source
<1>1. rows' \in [Trailer -> Seq(Row)]
  BY DEF TypeOK
<1>2. ASSUME NEW u \in Trailer
      PROVE  /\ Len(rows[u]) \in Nat /\ Len(rows'[u]) \in Nat
             /\ Len(rows[u]) <= Len(rows'[u])
             /\ \A k \in 1 .. Len(rows[u]) : rows'[u][k].source = rows[u][k].source
  <2>1. Len(rows[u]) \in Nat /\ Len(s) \in Nat
    BY RowsTyped
  <2>2. CASE u = t
    <3>1. rows'[t] = s
      BY DEF TypeOK
    <3> QED
      BY <2>1, <2>2, <3>1
  <2>3. CASE u # t
    <3>1. rows'[u] = rows[u]
      BY <2>3 DEF TypeOK
    <3> QED
      BY <2>1, <3>1
  <2> QED
    BY <2>2, <2>3
<1> QED
  BY <1>1, <1>2

(* A new status.                                                           *)
LEMMA StatusSet ==
    ASSUME TypeOK, NEW t \in Trailer, NEW new \in TrailerStatus, SetStatus(t, new)
    PROVE  /\ trailers' \in [Trailer -> [status : TrailerStatus, eta : Nat]]
           /\ Status(t)' = new
           /\ \A u \in Trailer : u # t => Status(u)' = Status(u)
<1>1. trailers \in [Trailer -> [status : TrailerStatus, eta : Nat]]
  BY DEF TypeOK
<1>2. trailers' = [trailers EXCEPT ![t].status = new]
  BY DEF SetStatus
<1> QED
  BY <1>1, <1>2 DEF Status

LEMMA TypePassGate == ASSUME IInv, NEW c \in Clerk, PassGate(c) PROVE IInv'
<1> DEFINE t == desk[c].trailer
<1>1. desk[c].task \in {"ARRIVE", "DEPART", "DELIVER"} /\ t \in Trailer
  BY DEF IInv, TypeOK, PassGate, GateRequest, OverrideRequest, NoRequest
<1>2. /\ trailers' \in [Trailer -> [status : TrailerStatus, eta : Nat]]
      /\ inbox' \in [replan : 0 .. Many, eta : 0 .. Many]
      /\ inbox.replan > 0 => inbox'.replan > 0
      /\ inbox'.eta = inbox.eta
  <2>1. PICK new \in {"ARRIVED", "DEPARTED", "DELIVERED"} : SetStatus(t, new)
    BY DEF PassGate
  <2>2. trailers' \in [Trailer -> [status : TrailerStatus, eta : Nat]]
    BY <1>1, <2>1, StatusSet DEF IInv, TrailerStatus
  <2>3. inbox' = inbox \/ inbox' = Signal(inbox)
    BY DEF PassGate
  <2> QED
    BY <2>2, <2>3, Counting DEF IInv, TypeOK
<1>3. Done(c) /\ UNCHANGED <<now, rows, active, goods, alerted, plan, count>>
  BY DEF PassGate
<1>4. \A u \in Trailer : /\ Len(rows[u]) \in Nat /\ Len(rows'[u]) \in Nat
                         /\ Len(rows[u]) <= Len(rows'[u])
                         /\ \A k \in 1 .. Len(rows[u]) : rows'[u][k].source = rows[u][k].source
  BY <1>3, RowsTyped DEF IInv
<1>5. /\ desk' \in [Clerk -> GateRequest \cup OverrideRequest \cup {NoRequest}]
      /\ \A a \in Clerk : desk'[a].task \in {"DOCK", "REASSIGN"} =>
             desk'[a].row \in 1 .. Len(rows'[desk'[a].trailer])
  BY <1>3, <1>4, DeskCleared
<1>a. raced' \subseteq Trailer
  BY <1>1 DEF PassGate, Overtakes, IInv, TypeOK
<1>6. TypeOK'
  BY <1>2, <1>3, <1>5, <1>a DEF IInv, TypeOK
<1>7. RowsExist'
  BY <1>3, <1>5 DEF IInv, RowsExist
<1>8. EventWaits'
  BY <1>2, <1>3 DEF IInv, EventWaits
<1>9. PlanAvoidsOverrides'
  BY <1>3 DEF IInv, PlanAvoidsOverrides
<1> QED
  BY <1>6, <1>7, <1>8, <1>9 DEF IInv

(* A request that rewrites its trailer's rows and signals a new plan.      *)
LEMMA RequestFrame ==
    ASSUME IInv, NEW c \in Clerk, Done(c), NEW t \in Trailer, NEW s \in Seq(Row),
           rows' = [rows EXCEPT ![t] = s],
           Len(rows[t]) <= Len(s),
           \A k \in 1 .. Len(rows[t]) : s[k].source = rows[t][k].source,
           trailers' \in [Trailer -> [status : TrailerStatus, eta : Nat]],
           goods' \in [Trailer -> Nat],
           raced' \subseteq Trailer,
           inbox' = Signal(inbox),
           UNCHANGED <<now, active, alerted, plan, count>>
    PROVE  IInv'
<1>1. /\ rows' \in [Trailer -> Seq(Row)]
      /\ \A u \in Trailer :
            /\ Len(rows[u]) \in Nat /\ Len(rows'[u]) \in Nat
            /\ Len(rows[u]) <= Len(rows'[u])
            /\ \A k \in 1 .. Len(rows[u]) : rows'[u][k].source = rows[u][k].source
  BY RowsChanged DEF IInv
<1>2. /\ desk' \in [Clerk -> GateRequest \cup OverrideRequest \cup {NoRequest}]
      /\ \A a \in Clerk : desk'[a].task \in {"DOCK", "REASSIGN"} =>
             desk'[a].row \in 1 .. Len(rows'[desk'[a].trailer])
  BY <1>1, DeskCleared
<1>3. /\ plan.open => \A u \in Trailer : plan.current[u] \in 0 .. Len(rows'[u])
      /\ PlanAvoidsOverrides'
  BY <1>1, PlanFrame
<1>4. /\ inbox' \in [replan : 0 .. Many, eta : 0 .. Many]
      /\ inbox'.replan > 0 /\ inbox'.eta = inbox.eta
  BY Counting DEF IInv, TypeOK
<1>5. TypeOK'
  BY <1>1, <1>2, <1>4 DEF IInv, TypeOK
<1>6. RowsExist'
  BY <1>2, <1>3 DEF RowsExist
<1>7. EventWaits'
  BY <1>4 DEF IInv, EventWaits
<1> QED
  BY <1>3, <1>5, <1>6, <1>7 DEF IInv

LEMMA TypeDock == ASSUME IInv, NEW c \in Clerk, Dock(c) PROVE IInv'
<1>1. desk[c].task = "DOCK"
  BY DEF Dock
<1>2. /\ desk[c].trailer \in Trailer
      /\ desk[c].row \in 1 .. Len(rows[desk[c].trailer])
  BY <1>1 DEF IInv, TypeOK, RowsExist, GateRequest, OverrideRequest, NoRequest
<1>a. PICK t \in Trailer : t = desk[c].trailer
  BY <1>2
<1>b. PICK k \in 1 .. Len(rows[t]) : k = desk[c].row
  BY <1>2, <1>a
<1>3. t = desk[c].trailer /\ k = desk[c].row
  BY <1>a, <1>b
<1>4. rows[t] \in Seq(Row) /\ rows[t][k] \in Row /\ now \in Nat
  BY RowsTyped DEF IInv, TypeOK
<1> DEFINE e == [rows[t][k] EXCEPT !.status = "CONFIRMED", !.docked = now]
           s == [rows[t] EXCEPT ![k] = e]
<1>5. e \in Row /\ e.source = rows[t][k].source
  BY <1>4 DEF Row
<1>6. /\ s \in Seq(Row) /\ Len(s) = Len(rows[t]) /\ s[k] = e
      /\ \A j \in 1 .. Len(rows[t]) : j # k => s[j] = rows[t][j]
  <2> HIDE DEF e
  <2> QED
    BY <1>4, <1>5, RowReplaced
<1>7. /\ SetStatus(t, "DOCKED")
      /\ rows' = [rows EXCEPT ![t][k].status = "CONFIRMED", ![t][k].docked = now]
      /\ Done(c) /\ inbox' = Signal(inbox)
      /\ UNCHANGED <<now, active, goods, alerted, plan, count>>
  BY <1>3 DEF Dock
<1>8. rows' = [rows EXCEPT ![t] = s]
  BY <1>4, <1>7 DEF IInv, TypeOK
<1>9. trailers' \in [Trailer -> [status : TrailerStatus, eta : Nat]]
  BY <1>7, StatusSet DEF IInv, TrailerStatus
<1>10. \A j \in 1 .. Len(rows[t]) : s[j].source = rows[t][j].source
  <2> HIDE DEF s, e
  <2> QED
    BY <1>5, <1>6
<1>11. Len(rows[t]) <= Len(s)
  BY <1>6, RowsTyped DEF IInv
<1>12. goods' \in [Trailer -> Nat]
  BY <1>7 DEF IInv, TypeOK
<1>13. raced' \subseteq Trailer
  BY <1>3 DEF Dock, Overtakes, IInv, TypeOK
<1> QED
  <2> HIDE DEF s
  <2> QED
    BY <1>6, <1>7, <1>8, <1>9, <1>10, <1>11, <1>12, <1>13, RequestFrame

(* A function on positions is a sequence.                                  *)
LEMMA FunctionIsSequence ==
    ASSUME NEW S, NEW n \in Nat, NEW f \in [1 .. n -> S]
    PROVE  f \in Seq(S) /\ Len(f) = n
  OBVIOUS

(* unload and load leave a row for every row.                              *)
LEMMA ReleasedTyped ==
    ASSUME TypeOK, NEW t \in Trailer
    PROVE  /\ Released(t) \in Seq(Row) /\ Len(Released(t)) = Len(rows[t])
           /\ \A k \in 1 .. Len(rows[t]) :
                 /\ Released(t)[k].source = rows[t][k].source
                 /\ Released(t)[k].status \notin LiveStatus
<1>1. /\ rows[t] \in Seq(Row) /\ Len(rows[t]) \in Nat /\ DOMAIN rows[t] = 1 .. Len(rows[t])
      /\ \A k \in 1 .. Len(rows[t]) : rows[t][k] \in Row
  BY RowsTyped
<1>2. ASSUME NEW k \in 1 .. Len(rows[t])
      PROVE  /\ Released(t)[k] \in Row /\ Released(t)[k].source = rows[t][k].source
             /\ Released(t)[k].status \notin LiveStatus
  <2>1. Released(t)[k] = IF k \in LiveOf(t) THEN [rows[t][k] EXCEPT !.status = "COMPLETED"]
                                            ELSE rows[t][k]
    BY <1>1 DEF Released
  <2>2. rows[t][k] \in Row
    BY <1>1
  <2>3. CASE k \in LiveOf(t)
    BY <2>1, <2>2, <2>3 DEF Row, LiveStatus
  <2>4. CASE k \notin LiveOf(t)
    BY <1>1, <2>1, <2>2, <2>4 DEF LiveOf
  <2> QED
    BY <2>3, <2>4
<1>3. Released(t) = [k \in 1 .. Len(rows[t]) |-> Released(t)[k]]
  BY <1>1 DEF Released
<1>4. Released(t) \in [1 .. Len(rows[t]) -> Row]
  BY <1>2, <1>3
<1>5. Released(t) \in Seq(Row) /\ Len(Released(t)) = Len(rows[t])
  BY <1>1, <1>4, FunctionIsSequence
<1> QED
  BY <1>2, <1>5

LEMMA TypeFinish == ASSUME IInv, NEW c \in Clerk, FinishService(c) PROVE IInv'
<1>1. desk[c].task = "FINISH" /\ desk[c].trailer \in Trailer
  BY DEF IInv, TypeOK, FinishService, GateRequest, OverrideRequest, NoRequest
<1>2. PICK t \in Trailer : t = desk[c].trailer
  BY <1>1
<1>3. /\ SetStatus(t, Goods(t)) /\ Goods(t) \in TrailerStatus
      /\ rows' = [rows EXCEPT ![t] = Released(t)]
      /\ goods' = [goods EXCEPT ![t] = @ + 1]
      /\ Done(c) /\ inbox' = Signal(inbox)
      /\ UNCHANGED <<now, active, alerted, plan, count>>
  BY <1>2 DEF FinishService, Goods, TrailerStatus
<1>4. goods' \in [Trailer -> Nat]
  BY <1>3 DEF IInv, TypeOK
<1>5. trailers' \in [Trailer -> [status : TrailerStatus, eta : Nat]]
  BY <1>3, StatusSet DEF IInv
<1>6. /\ Released(t) \in Seq(Row) /\ Len(rows[t]) <= Len(Released(t))
      /\ \A k \in 1 .. Len(rows[t]) : Released(t)[k].source = rows[t][k].source
  BY ReleasedTyped, RowsTyped DEF IInv
<1>7. raced' \subseteq Trailer
  BY <1>2 DEF FinishService, Overtakes, IInv, TypeOK
<1> QED
  BY <1>3, <1>4, <1>5, <1>6, <1>7, RequestFrame

(* Closing one assignment and adding another.                              *)
LEMMA Moved ==
    ASSUME TypeOK, NEW t \in Trailer, NEW k \in 1 .. Len(rows[t]), NEW e \in Row
    PROVE  /\ Append(Closed(t, k), e) \in Seq(Row)
           /\ Len(Append(Closed(t, k), e)) = Len(rows[t]) + 1
           /\ Append(Closed(t, k), e)[Len(rows[t]) + 1] = e
           /\ \A j \in 1 .. Len(rows[t]) :
                 /\ Append(Closed(t, k), e)[j].source = rows[t][j].source
                 /\ j # k => Append(Closed(t, k), e)[j] = rows[t][j]
           /\ Append(Closed(t, k), e)[k].status = "REASSIGNED"
<1> DEFINE closed == [rows[t][k] EXCEPT !.status = "REASSIGNED"]
<1>1. rows[t] \in Seq(Row) /\ Len(rows[t]) \in Nat /\ rows[t][k] \in Row
  BY RowsTyped
<1>2. closed \in Row /\ closed.source = rows[t][k].source /\ closed.status = "REASSIGNED"
  BY <1>1 DEF Row
<1>3. Closed(t, k) = [rows[t] EXCEPT ![k] = closed]
  BY DEF Closed
<1> HIDE DEF closed
<1>4. /\ Closed(t, k) \in Seq(Row) /\ Len(Closed(t, k)) = Len(rows[t])
      /\ Closed(t, k)[k] = closed
      /\ \A j \in 1 .. Len(rows[t]) : j # k => Closed(t, k)[j] = rows[t][j]
  BY <1>1, <1>2, <1>3, RowReplaced
<1>5. /\ Append(Closed(t, k), e) \in Seq(Row)
      /\ Len(Append(Closed(t, k), e)) = Len(rows[t]) + 1
      /\ Append(Closed(t, k), e)[Len(rows[t]) + 1] = e
      /\ \A j \in 1 .. Len(rows[t]) : Append(Closed(t, k), e)[j] = Closed(t, k)[j]
  BY <1>1, <1>4, RowAppended
<1> QED
  BY <1>2, <1>4, <1>5

(* A new assignment is a row.                                              *)
LEMMA NewRowTyped ==
    ASSUME NEW d \in Door, NEW s \in Nat, NEW source \in {"dock-worker", "manual_override"}
    PROVE  NewRow(d, s, source) \in Row /\ NewRow(d, s, source).status = "ASSIGNED"
<1>1. s + Service[d] \in Nat
  BY YardDockAssumption
<1> QED
  BY <1>1 DEF NewRow, Row

LEMMA TypeReassign == ASSUME IInv, NEW c \in Clerk, Reassign(c) PROVE IInv'
<1>1. desk[c].task = "REASSIGN"
  BY DEF Reassign
<1>2. desk[c] \in OverrideRequest
  BY <1>1, SMTT(30) DEF IInv, TypeOK, GateRequest, NoRequest
<1>a. PICK t \in Trailer, d \in Door, s \in Nat :
           t = desk[c].trailer /\ d = desk[c].door /\ s = desk[c].start
  BY <1>2 DEF OverrideRequest
<1>b. PICK k \in 1 .. Len(rows[t]) : k = desk[c].row
  BY <1>1, <1>a DEF IInv, RowsExist
<1>3. t = desk[c].trailer /\ k = desk[c].row /\ d = desk[c].door /\ s = desk[c].start
  BY <1>a, <1>b
<1> DEFINE e == NewRow(d, s, "manual_override")
           new == Append(Closed(t, k), e)
<1>4. e \in Row
  BY NewRowTyped
<1>5. /\ rows' = [rows EXCEPT ![t] = new]
      /\ Done(c) /\ inbox' = Signal(inbox)
      /\ UNCHANGED <<now, trailers, active, goods, alerted, plan, count>>
  BY <1>3 DEF Reassign
<1>6. /\ new \in Seq(Row) /\ Len(rows[t]) <= Len(new)
      /\ \A j \in 1 .. Len(rows[t]) : new[j].source = rows[t][j].source
  <2> HIDE DEF e
  <2>1. /\ new \in Seq(Row) /\ Len(new) = Len(rows[t]) + 1
        /\ \A j \in 1 .. Len(rows[t]) : new[j].source = rows[t][j].source
    BY <1>4, Moved DEF IInv
  <2>2. Len(rows[t]) \in Nat
    BY RowsTyped DEF IInv
  <2> HIDE DEF new
  <2> QED
    BY <2>1, <2>2
<1>7. /\ trailers' \in [Trailer -> [status : TrailerStatus, eta : Nat]]
      /\ goods' \in [Trailer -> Nat]
  BY <1>5 DEF IInv, TypeOK
<1>8. raced' \subseteq Trailer
  BY <1>3 DEF Reassign, Overtakes, IInv, TypeOK
<1> HIDE DEF new
<1> QED
  BY <1>5, <1>6, <1>7, <1>8, RequestFrame

-----------------------------------------------------------------------------
(* The dock worker.                                                        *)
LEMMA TypeBegin ==
    ASSUME IInv, NEW event \in {"REPLAN", "ETA", "STARTUP"}, BeginReplan(event)
    PROVE  IInv'
<1>1. PICK slots \in Schedules :
          plan' = [open |-> TRUE, event |-> event, slots |-> slots,
                   current |-> [t \in Trailer |-> Current(t)],
                   stuck |-> Requests \ Placeable]
  BY DEF BeginReplan
<1>2. UNCHANGED <<now, yard, active, alerted, inbox, desk>> /\ Wakes(event)
  BY DEF BeginReplan
<1>3. Placeable \subseteq Requests /\ Requests \subseteq Trailer
  BY DEF Placeable, Requests
<1>4. slots \in [Placeable -> Slot]
  BY <1>1 DEF Schedules
<1>5. \A t \in Trailer : /\ Current(t) \in 0 .. Len(rows[t])
                         /\ Current(t) # 0 => Current(t) \in LiveOf(t)
                         /\ Current(t) \in Nat
  BY CurrentIsLive, RowsTyped DEF IInv
<1>6. plan' \in OpenPlan
  <2>1. slots \in UNION {[placed -> Slot] : placed \in SUBSET Trailer}
    BY <1>3, <1>4
  <2>2. [t \in Trailer |-> Current(t)] \in [Trailer -> Nat]
    BY <1>5
  <2>3. Requests \ Placeable \in SUBSET Trailer
    BY <1>3
  <2> QED
    BY <1>1, <2>1, <2>2, <2>3 DEF OpenPlan
<1>7. count' \in [eta : Nat, blocks : Nat, failures : Nat]
  <2>1. count \in [eta : Nat, blocks : Nat, failures : Nat]
    BY DEF IInv, TypeOK
  <2>2. count' = count \/ count' = [count EXCEPT !.failures = @ + 1]
    BY DEF BeginReplan
  <2> QED
    BY <2>1, <2>2
<1>8. TypeOK'
  BY <1>2, <1>6, <1>7 DEF IInv, TypeOK, yard
<1>9. RowsExist'
  BY <1>1, <1>2, <1>5 DEF IInv, RowsExist, yard
<1>10. EventWaits'
  BY <1>1, <1>2 DEF EventWaits, Wakes
<1>11. PlanAvoidsOverrides'
  <2>1. ASSUME NEW t \in Placeable, Current(t) # 0
        PROVE  rows[t][Current(t)].source = "dock-worker"
    <3>1. t \in Requests /\ t \in Trailer
      BY <1>3
    <3> DEFINE k == Current(t)
               r == <<t, k>>
    <3>2. k \in LiveOf(t)
      BY <1>5, <2>1, <3>1
    <3>3. k \in DOMAIN rows[t] /\ rows[t][k].status \in LiveStatus
      BY <3>2 DEF LiveOf
    <3>4. rows[t][k] \in Row
      BY <3>1, <3>3, RowsTyped DEF IInv
    <3> HIDE DEF k
    <3>5. r \in Live
      BY <3>1, <3>3 DEF Live, Assignments, The
    <3>6. r \notin Pinned
      BY <3>1 DEF Requests
    <3> QED
      BY <3>4, <3>5, <3>6 DEF Pinned, Immovable, The, Row, k
  <2>2. DOMAIN slots = Placeable
    BY <1>4
  <2>3. plan'.slots = slots /\ \A t \in Trailer : plan'.current[t] = Current(t)
    BY <1>1
  <2>4. rows' = rows
    BY <1>2 DEF yard
  <2> QED
    BY <1>3, <2>1, <2>2, <2>3, <2>4 DEF PlanAvoidsOverrides
<1> QED
  BY <1>8, <1>9, <1>10, <1>11 DEF IInv

(* What a plan makes of a trailer's rows.                                  *)
LEMMA RewrittenTyped ==
    ASSUME IInv, plan.open, NEW t \in DOMAIN plan.slots
    PROVE  /\ t \in Trailer /\ plan.current[t] \in 0 .. Len(rows[t])
           /\ Rewritten(t) \in Seq(Row)
           /\ Len(rows[t]) <= Len(Rewritten(t))
           /\ \A j \in 1 .. Len(rows[t]) :
                 j # plan.current[t] => Rewritten(t)[j] = rows[t][j]
<1>1. t \in Trailer /\ plan.slots[t] \in Slot
  BY PlanTyped DEF IInv
<1>2. PICK d \in Door, s \in Nat : d = plan.slots[t].door /\ s = plan.slots[t].start
  BY <1>1 DEF Slot
<1>3. PICK k \in 0 .. Len(rows[t]) : k = plan.current[t]
  BY <1>1 DEF IInv, RowsExist
<1>4. rows[t] \in Seq(Row) /\ Len(rows[t]) \in Nat
  BY <1>1, RowsTyped DEF IInv
<1> DEFINE e == NewRow(d, s, "dock-worker")
<1>5. e \in Row
  BY NewRowTyped
<1>6. CASE k # 0 /\ rows[t][k].door = d
  <2> DEFINE f == [rows[t][k] EXCEPT !.start = s, !.end = s + Service[d],
                                     !.source = "dock-worker"]
  <2>1. rows[t][k] \in Row
    BY <1>1, <1>6, RowsTyped DEF IInv
  <2>2. f \in Row
    <3>1. s + Service[d] \in Nat
      BY YardDockAssumption
    <3> QED
      BY <2>1, <3>1 DEF Row
  <2>3. Rewritten(t) = [rows[t] EXCEPT ![k] = f]
    BY <1>2, <1>3, <1>6 DEF Rewritten
  <2> HIDE DEF f
  <2> QED
    BY <1>1, <1>3, <1>4, <1>6, <2>2, <2>3, RowReplaced
<1>7. CASE k # 0 /\ rows[t][k].door # d
  <2>1. Rewritten(t) = Append(Closed(t, k), e)
    BY <1>2, <1>3, <1>7 DEF Rewritten
  <2> HIDE DEF e
  <2> QED
    BY <1>1, <1>3, <1>4, <1>5, <1>7, <2>1, Moved, SMTT(30) DEF IInv
<1>8. CASE k = 0
  <2>1. Rewritten(t) = Append(rows[t], e)
    BY <1>2, <1>3, <1>8 DEF Rewritten
  <2> HIDE DEF e
  <2> QED
    BY <1>1, <1>3, <1>4, <1>5, <2>1, RowAppended
<1> QED
  BY <1>6, <1>7, <1>8

LEMMA TypeApply == ASSUME IInv, ApplyPlan PROVE IInv'
<1>1. /\ plan.open
      /\ rows' = [t \in Trailer |-> IF t \in DOMAIN plan.slots THEN Rewritten(t) ELSE rows[t]]
      /\ alerted' = alerted \cup {t \in plan.stuck : plan.current[t] = 0}
      /\ Handle(plan.event)
      /\ plan' = NoPlan
      /\ UNCHANGED <<now, trailers, active, goods, desk, count>>
  BY DEF ApplyPlan
<1>2. plan \in OpenPlan
  BY <1>1, PlanTyped DEF IInv
<1>3. ASSUME NEW t \in Trailer
      PROVE  rows'[t] \in Seq(Row) /\ Len(rows[t]) <= Len(rows'[t])
  <2>1. CASE t \in DOMAIN plan.slots
    BY <1>1, <2>1, RewrittenTyped
  <2>2. CASE t \notin DOMAIN plan.slots
    BY <1>1, <2>2, RowsTyped DEF IInv
  <2> QED
    BY <2>1, <2>2
<1>4. rows' \in [Trailer -> Seq(Row)]
  BY <1>1, <1>3
<1>5. alerted' \subseteq Trailer
  BY <1>1, <1>2 DEF IInv, TypeOK, OpenPlan
<1>6. inbox' \in [replan : 0 .. Many, eta : 0 .. Many]
  BY <1>1, <1>2, Counting DEF IInv, TypeOK, EventWaits, Handle, OpenPlan
<1>a. raced' \subseteq Trailer
  <2>1. ASSUME NEW c \in Clerk, Outplanned(c) PROVE desk[c].trailer \in Trailer
    <3>1. desk[c].task # "NONE"
      BY <2>1 DEF Outplanned, Moving
    <3> QED
      BY <3>1, RequestTyped DEF IInv
  <2>2. raced' = raced \cup {desk[c].trailer : c \in {d \in Clerk : Outplanned(d)}}
    BY DEF ApplyPlan
  <2> QED
    BY <2>1, <2>2 DEF IInv, TypeOK
<1>7. TypeOK'
  BY <1>1, <1>4, <1>5, <1>6, <1>a DEF IInv, TypeOK
<1>8. ~plan'.open
  BY <1>1 DEF NoPlan
<1>9. RowsExist'
  <2>1. ASSUME NEW c \in Clerk, desk[c].task \in {"DOCK", "REASSIGN"}
        PROVE  desk[c].row \in 1 .. Len(rows'[desk[c].trailer])
    <3>1. desk[c].trailer \in Trailer /\ desk[c].row \in 1 .. Len(rows[desk[c].trailer])
      BY <2>1 DEF IInv, TypeOK, RowsExist, GateRequest, OverrideRequest, NoRequest
    <3>2. PICK t \in Trailer : t = desk[c].trailer
      BY <3>1
    <3>3. Len(rows[t]) \in Nat /\ Len(rows'[t]) \in Nat /\ Len(rows[t]) <= Len(rows'[t])
      BY <1>3, RowsTyped DEF IInv
    <3> QED
      BY <3>1, <3>2, <3>3
  <2> QED
    BY <1>1, <1>8, <2>1 DEF RowsExist
<1> QED
  BY <1>7, <1>8, <1>9 DEF IInv, EventWaits, PlanAvoidsOverrides

LEMMA TypeFail == ASSUME IInv, FailReplan PROVE IInv'
<1>1. count' \in [eta : Nat, blocks : Nat, failures : Nat]
  <2>1. count \in [eta : Nat, blocks : Nat, failures : Nat]
    BY DEF IInv, TypeOK
  <2>2. count' = [count EXCEPT !.failures = @ + 1]
    BY DEF FailReplan
  <2> QED
    BY <2>1, <2>2
<1>2. plan' = NoPlan /\ UNCHANGED <<now, yard, active, alerted, inbox, desk>>
  BY DEF FailReplan
<1>3. ~plan'.open
  BY <1>2 DEF NoPlan
<1>4. TypeOK'
  BY <1>1, <1>2 DEF IInv, TypeOK, yard
<1> QED
  BY <1>2, <1>3, <1>4 DEF IInv, RowsExist, EventWaits, PlanAvoidsOverrides, yard

LEMMA TypeNext == IInv /\ [Next]_vars => IInv'
<1> SUFFICES ASSUME IInv, [Next]_vars PROVE IInv'
  OBVIOUS
<1>1. CASE UNCHANGED vars
  BY <1>1 DEF vars, yard, IInv, TypeOK, RowsExist, EventWaits, PlanAvoidsOverrides
<1>2. CASE World
  BY <1>2, TypeWorld
<1>3. ASSUME NEW c \in Clerk, NEW t \in Trailer,
             \/ \E task \in Task : AskGate(c, task, t)
             \/ \E k \in DOMAIN rows[t] :
                   AskDock(c, t, k) \/ \E d \in Door : AskReassign(c, t, k, d)
      PROVE  IInv'
  BY <1>3, TypeAsk
<1>4. ASSUME NEW c \in Clerk, PassGate(c) \/ Dock(c) \/ FinishService(c) \/ Reassign(c)
      PROVE  IInv'
  BY <1>4, TypePassGate, TypeDock, TypeFinish, TypeReassign
<1>5. CASE Replan
  BY <1>5, TypeBegin DEF Replan
<1>6. CASE ApplyPlan \/ FailReplan
  BY <1>6, TypeApply, TypeFail
<1> QED
  BY <1>1, <1>2, <1>3, <1>4, <1>5, <1>6 DEF Next, World

LEMMA Invariance == Spec => []IInv
  BY TypeInit, TypeNext, PTL DEF Spec

(* Every variable keeps its type.                                          *)
THEOREM TypeCorrect == Spec => []TypeOK
<1>1. IInv => TypeOK
  BY DEF IInv
<1> QED
  BY <1>1, Invariance, PTL

(* The end of a replan, written or failed, changes no override that is     *)
(* live then.                                                              *)
LEMMA SparingStep ==
    ASSUME IInv, [Next]_vars, plan.open, ~plan'.open,
           NEW r \in Live, The(r).source = "manual_override"
    PROVE  The(r)' = The(r)
<1>1. PICK t \in Trailer : r \in {t} \X DOMAIN rows[t]
  BY DEF Live, Assignments
<1>2. PICK k \in DOMAIN rows[t] : r = <<t, k>>
  BY <1>1
<1>3. k \in 1 .. Len(rows[t]) /\ Len(rows[t]) \in Nat
  BY RowsTyped DEF IInv
<1>4. ApplyPlan \/ rows' = rows
  <2>1. UNCHANGED plan => FALSE
    OBVIOUS
  <2> QED
    BY <2>1, ZenonT(40)
    DEF Next, vars, yard, Tick, UnblockDoors, BlockDoor, CreateTrailer, PostTracking,
       AskGate, AskDock, AskReassign, PassGate, Dock, FinishService, Reassign, Replan,
       BeginReplan, IgnoreEta, FailReplan
<1>5. CASE rows' = rows
  BY <1>2, <1>5 DEF The
<1>6. CASE ApplyPlan
  <2>1. rows' = [u \in Trailer |-> IF u \in DOMAIN plan.slots THEN Rewritten(u) ELSE rows[u]]
    BY <1>6 DEF ApplyPlan
  <2>2. CASE t \in DOMAIN plan.slots
    <3>1. rows[t][k].source = "manual_override"
      BY <1>2 DEF The
    <3>2. plan.current[t] # 0 => rows[t][plan.current[t]].source = "dock-worker"
      BY <2>2 DEF IInv, PlanAvoidsOverrides
    <3>3. k # plan.current[t]
      BY <1>3, <3>1, <3>2
    <3>4. Rewritten(t)[k] = rows[t][k]
      BY <1>3, <2>2, <3>3, RewrittenTyped
    <3> QED
      BY <1>2, <2>1, <2>2, <3>4 DEF The
  <2>3. CASE t \notin DOMAIN plan.slots
    BY <1>2, <2>1, <2>3 DEF The
  <2> QED
    BY <2>2, <2>3
<1> QED
  BY <1>4, <1>5, <1>6

(* Whatever is written between its read and its writes, a replan leaves    *)
(* every live override as it is.                                           *)
THEOREM OverridesSpared == Spec => ReplanSparesOverrides
<1>1. IInv /\ [Next]_vars =>
         [plan.open /\ ~plan'.open =>
            \A r \in Live : The(r).source = "manual_override" => The(r)' = The(r)]_vars
  BY SparingStep
<1> QED
  BY <1>1, Invariance, PTL DEF Spec, ReplanSparesOverrides

-----------------------------------------------------------------------------
(* The trailers no transaction has overtaken.                              *)

Undisturbed == Trailer \ raced

Waiting(t) == Status(t) \in {"EN_ROUTE", "ARRIVED"}
Served(t) == Status(t) \notin {"EN_ROUTE", "ARRIVED", "DOCKED"}

(* What an open request has checked is still so.                           *)
RequestIsFresh(c) ==
    LET t == desk[c].trailer
    IN  /\ desk[c].task \in {"ARRIVE", "FINISH", "DEPART", "DELIVER"} =>
               Status(t) \in Expected(desk[c].task, t)
        /\ desk[c].task = "DOCK" => Status(t) = "ARRIVED"
        /\ desk[c].task \in {"DOCK", "REASSIGN"} => desk[c].row \in LiveOf(t)

RequestsAreFresh ==
    \A c \in Clerk :
        desk[c].task # "NONE" /\ desk[c].trailer \notin raced => RequestIsFresh(c)

(* What an open replan has read is still so.                               *)
PlanIsFresh ==
    plan.open =>
        \A t \in DOMAIN plan.slots \ raced :
            /\ Waiting(t)
            /\ LiveOf(t) = IF plan.current[t] = 0 THEN {} ELSE {plan.current[t]}

(* A trailer's assignments and its goods follow its status.                *)
TrailerInOrder(t) ==
    /\ \A j, k \in LiveOf(t) : j = k
    /\ Served(t) => LiveOf(t) = {}
    /\ goods[t] = IF Status(t) = "NONE" \/ ~Served(t) THEN 0 ELSE 1

YardInOrder == \A t \in Undisturbed : TrailerInOrder(t)

OrderInv == IInv /\ RequestsAreFresh /\ PlanIsFresh /\ YardInOrder

(* A trailer's rows, its status and its goods are what they were.          *)
Untouched(t) ==
    rows'[t] = rows[t] /\ Status(t)' = Status(t) /\ goods'[t] = goods[t]

LEMMA SameTrailer ==
    ASSUME NEW t, Untouched(t)
    PROVE  /\ LiveOf(t)' = LiveOf(t)
           /\ Waiting(t)' <=> Waiting(t)
           /\ TrailerInOrder(t) => TrailerInOrder(t)'
<1>1. LiveOf(t)' = LiveOf(t) /\ Status(t)' = Status(t) /\ goods'[t] = goods[t]
  BY DEF LiveOf, Untouched
<1> QED
  BY <1>1 DEF Waiting, TrailerInOrder, Served

(* A request is as fresh as before if its trailer is untouched.            *)
LEMMA SameRequest ==
    ASSUME NEW c, desk'[c] = desk[c], Untouched(desk[c].trailer), RequestIsFresh(c)
    PROVE  RequestIsFresh(c)'
<1>1. /\ LiveOf(desk[c].trailer)' = LiveOf(desk[c].trailer)
      /\ Status(desk[c].trailer)' = Status(desk[c].trailer)
  BY DEF LiveOf, Untouched
<1> QED
  BY <1>1 DEF RequestIsFresh

LEMMA OrderInit == Init => OrderInv
<1> SUFFICES ASSUME Init PROVE OrderInv
  OBVIOUS
<1>1. ~plan.open /\ \A c \in Clerk : desk[c].task = "NONE"
  BY DEF Init, NoPlan, NoRequest
<1>2. \A t \in Trailer : LiveOf(t) = {} /\ Status(t) = "NONE" /\ goods[t] = 0
  BY DEF Init, LiveOf, Status
<1>3. YardInOrder
  BY <1>2 DEF YardInOrder, TrailerInOrder, Served, Undisturbed
<1> QED
  BY <1>1, <1>3, TypeInit DEF OrderInv, RequestsAreFresh, PlanIsFresh

(* The roads change the status of no trailer but a new one.                *)
LEMMA WorldStep ==
    ASSUME TypeOK, World
    PROVE  /\ UNCHANGED <<plan, desk, rows, goods, raced>>
           /\ \A t \in Trailer : \/ Status(t)' = Status(t)
                                 \/ Status(t) = "NONE" /\ Status(t)' = "EN_ROUTE"
<1>1. UNCHANGED <<plan, desk, rows, goods, raced>>
  BY DEF World, Tick, UnblockDoors, IgnoreEta, BlockDoor, CreateTrailer, PostTracking, yard
<1>2. ASSUME NEW t \in Trailer
      PROVE  \/ Status(t)' = Status(t)
             \/ Status(t) = "NONE" /\ Status(t)' = "EN_ROUTE"
  <2>1. trailers \in [Trailer -> [status : TrailerStatus, eta : Nat]]
    BY DEF TypeOK
  <2>2. CASE trailers' = trailers
    BY <2>2 DEF Status
  <2>3. ASSUME NEW u \in Trailer, NEW eta \in Eta, CreateTrailer(u, eta)
        PROVE  \/ Status(t)' = Status(t)
               \/ Status(t) = "NONE" /\ Status(t)' = "EN_ROUTE"
    BY <2>1, <2>3 DEF CreateTrailer, Status
  <2>4. ASSUME NEW u \in Trailer, NEW eta \in Eta, PostTracking(u, eta)
        PROVE  Status(t)' = Status(t)
    BY <2>1, <2>4 DEF PostTracking, Status
  <2> QED
    BY <2>2, <2>3, <2>4 DEF World, Tick, UnblockDoors, IgnoreEta, BlockDoor, yard
<1> QED
  BY <1>1, <1>2

LEMMA OrderWorld == ASSUME OrderInv, World PROVE OrderInv'
<1>1. /\ UNCHANGED <<plan, desk, rows, goods, raced>>
      /\ \A t \in Trailer : \/ Status(t)' = Status(t)
                            \/ Status(t) = "NONE" /\ Status(t)' = "EN_ROUTE"
  BY WorldStep DEF OrderInv, IInv
<1>2. \A t \in Trailer : LiveOf(t)' = LiveOf(t)
  BY <1>1 DEF LiveOf
<1>3. ASSUME NEW t \in Undisturbed PROVE TrailerInOrder(t)'
  <2>1. TrailerInOrder(t) /\ t \in Trailer
    BY DEF OrderInv, YardInOrder, Undisturbed
  <2> QED
    BY <1>1, <1>2, <2>1 DEF TrailerInOrder, Served
<1>4. RequestsAreFresh'
  <2> SUFFICES ASSUME NEW c \in Clerk, desk[c].task # "NONE", desk[c].trailer \notin raced
               PROVE  RequestIsFresh(c)'
    BY <1>1 DEF RequestsAreFresh
  <2>1. PICK t \in Trailer : t = desk[c].trailer
    BY RequestTyped DEF OrderInv, IInv
  <2>2. RequestIsFresh(c)
    BY DEF OrderInv, RequestsAreFresh
  <2>3. Status(t) # "NONE" => Status(t)' = Status(t)
    BY <1>1
  <2>4. "NONE" \notin Expected(desk[c].task, t) \/ desk[c].task \in {"DOCK", "REASSIGN"}
    BY <2>1 DEF Expected, Goods, OrderInv, IInv, TypeOK, GateRequest, OverrideRequest,
       NoRequest, Tasks
  <2> QED
    BY <1>1, <1>2, <2>1, <2>2, <2>3, <2>4 DEF RequestIsFresh
<1>5. PlanIsFresh'
  <2> SUFFICES ASSUME plan.open, NEW t \in DOMAIN plan.slots \ raced
               PROVE  /\ Waiting(t)'
                      /\ LiveOf(t)' = IF plan.current[t] = 0 THEN {} ELSE {plan.current[t]}
    BY <1>1 DEF PlanIsFresh
  <2>1. t \in Trailer
    BY PlanTyped DEF OrderInv, IInv
  <2>2. /\ Waiting(t)
        /\ LiveOf(t) = IF plan.current[t] = 0 THEN {} ELSE {plan.current[t]}
    BY DEF OrderInv, PlanIsFresh
  <2>3. Status(t)' = Status(t)
    BY <1>1, <2>1, <2>2 DEF Waiting
  <2> QED
    BY <1>2, <2>1, <2>2, <2>3 DEF Waiting
<1>6. IInv'
  BY TypeWorld DEF OrderInv
<1> QED
  BY <1>1, <1>3, <1>4, <1>5, <1>6 DEF OrderInv, YardInOrder, Undisturbed

(* A request is put on the desk with what it has checked.                  *)
LEMMA AskIsFresh ==
    ASSUME TypeOK, NEW c \in Clerk, NEW t \in Trailer,
           \/ \E task \in Task : AskGate(c, task, t)
           \/ \E k \in DOMAIN rows[t] :
                 AskDock(c, t, k) \/ \E d \in Door : AskReassign(c, t, k, d)
    PROVE  \E request :
              /\ desk' = [desk EXCEPT ![c] = request]
              /\ request.trailer = t
              /\ request.task \in {"ARRIVE", "FINISH", "DEPART", "DELIVER"} =>
                     Status(t) \in Expected(request.task, t)
              /\ request.task = "DOCK" => Status(t) = "ARRIVED"
              /\ request.task \in {"DOCK", "REASSIGN"} => request.row \in LiveOf(t)
<1>1. ASSUME NEW task \in Task, AskGate(c, task, t)
      PROVE  \E request : /\ desk' = [desk EXCEPT ![c] = request]
                          /\ request.trailer = t
                          /\ request.task = task
                          /\ task \in {"ARRIVE", "FINISH", "DEPART", "DELIVER"}
                          /\ Status(t) \in Expected(task, t)
  <2> WITNESS [task |-> task, trailer |-> t]
  <2> QED
    BY <1>1 DEF AskGate
<1>2. ASSUME NEW k \in DOMAIN rows[t], AskDock(c, t, k)
      PROVE  \E request : /\ desk' = [desk EXCEPT ![c] = request]
                          /\ request.trailer = t
                          /\ request.task = "DOCK" /\ Status(t) = "ARRIVED"
                          /\ request.row \in LiveOf(t)
  <2> WITNESS [task |-> "DOCK", trailer |-> t, row |-> k]
  <2> QED
    BY <1>2 DEF AskDock, Expected
<1>3. ASSUME NEW k \in DOMAIN rows[t], NEW d \in Door, AskReassign(c, t, k, d)
      PROVE  \E request : /\ desk' = [desk EXCEPT ![c] = request]
                          /\ request.trailer = t
                          /\ request.task = "REASSIGN"
                          /\ request.row \in LiveOf(t)
  <2>1. PICK s \in SlotStarts(Ready(t)) :
           desk' = [desk EXCEPT ![c] = [task |-> "REASSIGN", trailer |-> t, row |-> k,
                                        door |-> d, start |-> s]]
    BY <1>3 DEF AskReassign
  <2>2. k \in LiveOf(t)
    <3>1. rows[t][k] \in Row
      BY RowsTyped
    <3> QED
      BY <1>3, <3>1 DEF AskReassign, Reassignable, Row, LiveOf, LiveStatus
  <2> WITNESS [task |-> "REASSIGN", trailer |-> t, row |-> k, door |-> d, start |-> s]
  <2> QED
    BY <2>1, <2>2
<1> QED
  BY <1>1, <1>2, <1>3

LEMMA OrderAsk ==
    ASSUME OrderInv, NEW c \in Clerk, NEW t \in Trailer,
           \/ \E task \in Task : AskGate(c, task, t)
           \/ \E k \in DOMAIN rows[t] :
                 AskDock(c, t, k) \/ \E d \in Door : AskReassign(c, t, k, d)
    PROVE  OrderInv'
<1>1. UNCHANGED <<trailers, rows, goods, raced, plan>>
  BY DEF AskGate, AskDock, AskReassign, yard
<1>2. TypeOK
  BY DEF OrderInv, IInv
<1>3. PICK request : /\ desk' = [desk EXCEPT ![c] = request]
                     /\ request.trailer = t
                     /\ request.task \in {"ARRIVE", "FINISH", "DEPART", "DELIVER"} =>
                            Status(t) \in Expected(request.task, t)
                     /\ request.task = "DOCK" => Status(t) = "ARRIVED"
                     /\ request.task \in {"DOCK", "REASSIGN"} => request.row \in LiveOf(t)
  BY <1>2, AskIsFresh
<1>4. \A u : Untouched(u)
  BY <1>1 DEF Untouched, Status
<1>5. YardInOrder'
  BY <1>1, <1>4, SameTrailer DEF OrderInv, YardInOrder, Undisturbed
<1>6. PlanIsFresh'
  BY <1>1, <1>4, SameTrailer DEF OrderInv, PlanIsFresh
<1>7. RequestsAreFresh'
  <2> SUFFICES ASSUME NEW a \in Clerk, desk'[a].task # "NONE", desk'[a].trailer \notin raced
               PROVE  RequestIsFresh(a)'
    BY <1>1 DEF RequestsAreFresh
  <2>1. CASE a = c
    <3>1. desk'[a] = request
      BY <1>2, <1>3, <2>1 DEF TypeOK
    <3>2. LiveOf(t)' = LiveOf(t) /\ Status(t)' = Status(t)
      BY <1>1 DEF LiveOf, Status
    <3> QED
      BY <1>3, <3>1, <3>2 DEF RequestIsFresh
  <2>2. CASE a # c
    <3>1. desk'[a] = desk[a]
      BY <1>2, <1>3, <2>2 DEF TypeOK
    <3>2. RequestIsFresh(a)
      BY <3>1 DEF OrderInv, RequestsAreFresh
    <3> QED
      BY <1>4, <3>1, <3>2, SameRequest
  <2> QED
    BY <2>1, <2>2
<1>8. IInv'
  BY TypeAsk DEF OrderInv
<1> QED
  BY <1>5, <1>6, <1>7, <1>8 DEF OrderInv

(* What a commit about one trailer has to show: it is in order, or raced   *)
(* from now on, with every other request about it; and so for the plan.    *)
LEMMA OrderWrite ==
    ASSUME OrderInv, IInv', NEW c \in Clerk, NEW t \in Trailer,
           desk[c].trailer = t, Done(c), UNCHANGED plan,
           raced \subseteq raced', Rivalled(c, t) => t \in raced',
           \A u \in Trailer : u # t => Untouched(u),
           t \notin raced' => TrailerInOrder(t)',
           plan.open /\ t \in DOMAIN plan.slots \ raced' =>
               Waiting(t)' /\ LiveOf(t)' = LiveOf(t)
    PROVE  OrderInv'
<1>1. YardInOrder'
  <2> SUFFICES ASSUME NEW u \in Trailer, u \notin raced', u # t PROVE TrailerInOrder(u)'
    BY DEF YardInOrder, Undisturbed
  <2>1. TrailerInOrder(u)
    BY DEF OrderInv, YardInOrder, Undisturbed
  <2> QED
    BY <2>1, SameTrailer
<1>2. PlanIsFresh'
  <2> SUFFICES ASSUME plan.open, NEW u \in DOMAIN plan.slots \ raced'
               PROVE  /\ Waiting(u)'
                      /\ LiveOf(u)' = IF plan.current[u] = 0 THEN {} ELSE {plan.current[u]}
    BY DEF PlanIsFresh
  <2>1. u \in Trailer /\ u \notin raced
    BY PlanTyped DEF OrderInv, IInv
  <2>2. /\ Waiting(u)
        /\ LiveOf(u) = IF plan.current[u] = 0 THEN {} ELSE {plan.current[u]}
    BY <2>1 DEF OrderInv, PlanIsFresh
  <2>3. Waiting(u)' /\ LiveOf(u)' = LiveOf(u)
    BY <2>1, <2>2, SameTrailer
  <2> QED
    BY <2>2, <2>3
<1>3. RequestsAreFresh'
  <2> SUFFICES ASSUME NEW a \in Clerk, desk'[a].task # "NONE", desk'[a].trailer \notin raced'
               PROVE  RequestIsFresh(a)'
    BY DEF RequestsAreFresh
  <2>1. a # c /\ desk'[a] = desk[a]
    BY DEF OrderInv, IInv, TypeOK, Done, NoRequest
  <2>2. desk[a].trailer \in Trailer
    BY <2>1, RequestTyped DEF OrderInv, IInv
  <2>3. desk[a].trailer # t
    BY <2>1 DEF Rivalled, NoRequest
  <2>4. RequestIsFresh(a)
    BY <2>1 DEF OrderInv, RequestsAreFresh
  <2> QED
    BY <2>1, <2>2, <2>3, <2>4, SameRequest
<1> QED
  BY <1>1, <1>2, <1>3 DEF OrderInv

LEMMA OrderPassGate == ASSUME OrderInv, NEW c \in Clerk, PassGate(c) PROVE OrderInv'
<1>1. desk[c].task \in {"ARRIVE", "DEPART", "DELIVER"}
  BY DEF PassGate
<1>2. PICK t \in Trailer : t = desk[c].trailer
  BY <1>1, RequestTyped DEF OrderInv, IInv
<1>3. t \notin raced => Status(t) \in Expected(desk[c].task, t)
  BY <1>1, <1>2 DEF OrderInv, RequestsAreFresh, RequestIsFresh
<1>4. PICK new \in {"ARRIVED", "DEPARTED", "DELIVERED"} :
          /\ SetStatus(t, new)
          /\ new = "ARRIVED" <=> desk[c].task = "ARRIVE"
  BY <1>2 DEF PassGate
<1>5. Status(t)' = new /\ \A u \in Trailer : u # t => Status(u)' = Status(u)
  BY <1>4, StatusSet DEF OrderInv, IInv, TrailerStatus
<1>6. /\ Done(c) /\ UNCHANGED <<rows, goods, plan>>
      /\ raced \subseteq raced' /\ (Rivalled(c, t) => t \in raced')
  BY <1>2 DEF PassGate, Overtakes
<1>7. LiveOf(t)' = LiveOf(t)
  BY <1>6 DEF LiveOf
<1>8. ASSUME t \notin raced'
      PROVE  /\ TrailerInOrder(t)'
             /\ plan.open /\ t \in DOMAIN plan.slots => Waiting(t)'
  <2>1. goods'[t] = goods[t] /\ TrailerInOrder(t)
    BY <1>6, <1>8 DEF OrderInv, YardInOrder, Undisturbed
  <2>2. CASE new = "ARRIVED"
    <3>1. Status(t) = "EN_ROUTE"
      BY <1>3, <1>4, <1>6, <1>8, <2>2 DEF Expected
    <3> QED
      BY <1>5, <1>7, <2>1, <2>2, <3>1 DEF TrailerInOrder, Served, Waiting
  <2>3. CASE new # "ARRIVED"
    <3>1. Status(t) \in {"UNLOADED", "LOADED", "DEPARTED"}
      BY <1>1, <1>3, <1>4, <1>6, <1>8, <2>3 DEF Expected, Goods
    <3>2. plan.open /\ t \in DOMAIN plan.slots => Waiting(t)
      BY <1>6, <1>8 DEF OrderInv, PlanIsFresh
    <3> QED
      BY <1>5, <1>7, <2>1, <2>3, <3>1, <3>2 DEF TrailerInOrder, Served, Waiting
  <2> QED
    BY <2>2, <2>3
<1>9. \A u \in Trailer : u # t => Untouched(u)
  BY <1>5, <1>6 DEF Untouched
<1>10. IInv'
  BY TypePassGate DEF OrderInv
<1> QED
  BY <1>2, <1>6, <1>7, <1>8, <1>9, <1>10, OrderWrite

(* Docking keeps the rows of the trailer and their windows.                *)
LEMMA DockedRows ==
    ASSUME TypeOK, NEW t \in Trailer, NEW k \in LiveOf(t),
           rows' = [rows EXCEPT ![t][k].status = "CONFIRMED", ![t][k].docked = now]
    PROVE  /\ LiveOf(t)' = LiveOf(t)
           /\ \A u \in Trailer : u # t => rows'[u] = rows[u]
           /\ rows'[t][k] = [rows[t][k] EXCEPT !.status = "CONFIRMED", !.docked = now]
           /\ \A j \in LiveOf(t) : j # k => rows'[t][j] = rows[t][j]
<1>1. \A u \in Trailer : u # t => rows'[u] = rows[u]
  BY DEF TypeOK
<1>2. k \in DOMAIN rows[t] /\ rows[t][k] \in Row /\ rows[t][k].status \in LiveStatus
  BY RowsTyped DEF LiveOf
<1>3. rows'[t] = [rows[t] EXCEPT ![k] = [@ EXCEPT !.status = "CONFIRMED", !.docked = now]]
  BY DEF TypeOK
<1>4. /\ DOMAIN rows'[t] = DOMAIN rows[t]
      /\ \A j \in DOMAIN rows[t] : j # k => rows'[t][j] = rows[t][j]
  BY <1>3
<1>5. rows'[t][k] = [rows[t][k] EXCEPT !.status = "CONFIRMED", !.docked = now]
  BY <1>2, <1>3
<1>6. rows'[t][k].status = "CONFIRMED"
  BY <1>2, <1>5 DEF Row
<1>7. LiveOf(t)' = LiveOf(t)
  BY <1>2, <1>4, <1>6 DEF LiveOf, LiveStatus
<1> QED
  BY <1>1, <1>4, <1>5, <1>7 DEF LiveOf

LEMMA OrderDock == ASSUME OrderInv, NEW c \in Clerk, Dock(c) PROVE OrderInv'
<1>1. desk[c].task = "DOCK"
  BY DEF Dock
<1>2. PICK t \in Trailer : t = desk[c].trailer
  BY <1>1, RequestTyped DEF OrderInv, IInv
<1>3. SetStatus(t, "DOCKED") /\ Done(c) /\ UNCHANGED <<goods, plan>>
  BY <1>2 DEF Dock
<1>4. /\ raced \subseteq raced' /\ (Rivalled(c, t) => t \in raced')
      /\ plan.open /\ t \in DOMAIN plan.slots => t \in raced'
  BY <1>2 DEF Dock, Overtakes, Replanned
<1>5. Status(t)' = "DOCKED" /\ \A u \in Trailer : u # t => Status(u)' = Status(u)
  BY <1>3, StatusSet DEF OrderInv, IInv, TrailerStatus
<1>6. \A u \in Trailer : u # t => Untouched(u)
  BY <1>2, <1>3, <1>5 DEF Dock, Untouched, OrderInv, IInv, TypeOK
<1>7. ASSUME t \notin raced' PROVE TrailerInOrder(t)'
  <2>1. TrailerInOrder(t) /\ Status(t) = "ARRIVED" /\ desk[c].row \in LiveOf(t)
    BY <1>1, <1>2, <1>4, <1>7
       DEF OrderInv, YardInOrder, Undisturbed, RequestsAreFresh, RequestIsFresh
  <2>2. PICK k \in LiveOf(t) : k = desk[c].row
    BY <2>1
  <2>3. LiveOf(t)' = LiveOf(t)
    BY <1>2, <2>2, DockedRows DEF Dock, OrderInv, IInv
  <2> QED
    BY <1>3, <1>5, <2>1, <2>3 DEF TrailerInOrder, Served
<1>8. IInv'
  BY TypeDock DEF OrderInv
<1> QED
  BY <1>2, <1>3, <1>4, <1>6, <1>7, <1>8, OrderWrite

(* What unload and load write.                                             *)
LEMMA FinishStep ==
    ASSUME TypeOK, NEW c \in Clerk, FinishService(c)
    PROVE  \E t \in Trailer :
              /\ t = desk[c].trailer
              /\ Status(t)' = Goods(t) /\ Goods(t) \in {"UNLOADED", "LOADED"}
              /\ goods'[t] = goods[t] + 1 /\ LiveOf(t)' = {}
              /\ \A u \in Trailer : u # t => Untouched(u)
<1>1. desk[c].task = "FINISH"
  BY DEF FinishService
<1>2. PICK t \in Trailer : t = desk[c].trailer
  BY <1>1, RequestTyped
<1>3. /\ SetStatus(t, Goods(t)) /\ Goods(t) \in {"UNLOADED", "LOADED"}
      /\ rows' = [rows EXCEPT ![t] = Released(t)]
      /\ goods' = [goods EXCEPT ![t] = @ + 1]
  BY <1>2 DEF FinishService, Goods
<1>4. Status(t)' = Goods(t) /\ \A u \in Trailer : u # t => Status(u)' = Status(u)
  BY <1>3, StatusSet DEF TrailerStatus
<1>5. /\ rows'[t] = Released(t) /\ goods'[t] = goods[t] + 1
      /\ \A u \in Trailer : u # t => rows'[u] = rows[u] /\ goods'[u] = goods[u]
  BY <1>3 DEF TypeOK
<1>6. LiveOf(t)' = {}
  <2>1. DOMAIN Released(t) = 1 .. Len(rows[t])
    BY RowsTyped DEF Released
  <2>2. \A k \in 1 .. Len(rows[t]) : Released(t)[k].status \notin LiveStatus
    BY ReleasedTyped
  <2> QED
    BY <1>5, <2>1, <2>2 DEF LiveOf
<1> QED
  BY <1>2, <1>3, <1>4, <1>5, <1>6 DEF Untouched

LEMMA OrderFinish == ASSUME OrderInv, NEW c \in Clerk, FinishService(c) PROVE OrderInv'
<1>1. PICK t \in Trailer :
          /\ t = desk[c].trailer
          /\ Status(t)' = Goods(t) /\ Goods(t) \in {"UNLOADED", "LOADED"}
          /\ goods'[t] = goods[t] + 1 /\ LiveOf(t)' = {}
          /\ \A u \in Trailer : u # t => Untouched(u)
  BY FinishStep DEF OrderInv, IInv
<1>2. desk[c].task = "FINISH" /\ Done(c) /\ UNCHANGED plan
  BY DEF FinishService
<1>3. /\ raced \subseteq raced' /\ (Rivalled(c, t) => t \in raced')
      /\ plan.open /\ t \in DOMAIN plan.slots => t \in raced'
  BY <1>1 DEF FinishService, Overtakes, Replanned
<1>4. ASSUME t \notin raced' PROVE TrailerInOrder(t)'
  <2>1. TrailerInOrder(t) /\ Status(t) \in {"ARRIVED", "DOCKED"}
    BY <1>1, <1>2, <1>3, <1>4
       DEF OrderInv, YardInOrder, Undisturbed, RequestsAreFresh, RequestIsFresh, Expected
  <2> QED
    BY <1>1, <2>1 DEF TrailerInOrder, Served
<1>5. IInv'
  BY TypeFinish DEF OrderInv
<1> QED
  BY <1>1, <1>2, <1>3, <1>4, <1>5, OrderWrite

(* An assignment that takes the place of the only live one.                *)
LEMMA MovedIsLive ==
    ASSUME TypeOK, NEW t \in Trailer, NEW k \in 1 .. Len(rows[t]), NEW e \in Row,
           e.status = "ASSIGNED", LiveOf(t) = {k}, rows'[t] = Append(Closed(t, k), e)
    PROVE  LiveOf(t)' = {Len(rows[t]) + 1} /\ rows'[t][Len(rows[t]) + 1] = e
<1>1. /\ rows'[t] \in Seq(Row) /\ Len(rows'[t]) = Len(rows[t]) + 1
      /\ rows'[t][Len(rows[t]) + 1] = e
      /\ \A j \in 1 .. Len(rows[t]) : j # k => rows'[t][j] = rows[t][j]
      /\ rows'[t][k].status = "REASSIGNED"
  BY Moved
<1>2. Len(rows[t]) \in Nat /\ DOMAIN rows[t] = 1 .. Len(rows[t])
  BY RowsTyped
<1>3. DOMAIN rows'[t] = 1 .. Len(rows[t]) + 1
  BY <1>1
<1>4. ASSUME NEW j \in 1 .. Len(rows[t]) PROVE rows'[t][j].status \notin LiveStatus
  <2>1. CASE j = k
    BY <1>1, <2>1 DEF LiveStatus
  <2>2. CASE j # k
    BY <1>1, <1>2, <2>2 DEF LiveOf
  <2> QED
    BY <2>1, <2>2
<1>5. rows'[t][Len(rows[t]) + 1].status \in LiveStatus
  BY <1>1 DEF LiveStatus
<1>6. \A j \in DOMAIN rows'[t] : rows'[t][j].status \in LiveStatus <=> j = Len(rows[t]) + 1
  BY <1>2, <1>3, <1>4, <1>5
<1> QED
  BY <1>1, <1>2, <1>3, <1>6 DEF LiveOf

(* An override of a trailer nobody else is busy with.                      *)
LEMMA OverrideStep ==
    ASSUME OrderInv, NEW c \in Clerk, Reassign(c), desk[c].trailer \notin raced'
    PROVE  \E t \in Trailer, d \in Door, s \in Nat : \E k \in LiveOf(t) :
              LET n == Len(rows[t]) + 1
                  e == NewRow(d, s, "manual_override")
              IN  /\ t = desk[c].trailer /\ d = desk[c].door
                  /\ s = desk[c].start /\ k = desk[c].row
                  /\ LiveOf(t) = {k} /\ LiveOf(t)' = {n} /\ rows'[t][n] = e
<1>1. desk[c].task = "REASSIGN"
  BY DEF Reassign
<1>a. desk[c] \in OverrideRequest
  BY <1>1, SMTT(30) DEF OrderInv, IInv, TypeOK, GateRequest, NoRequest
<1>2. PICK t \in Trailer, d \in Door, s \in Nat :
          t = desk[c].trailer /\ d = desk[c].door /\ s = desk[c].start
  BY <1>a DEF OverrideRequest
<1>3. t \notin raced
  BY <1>2 DEF Reassign, Overtakes
<1>4. PICK k \in LiveOf(t) : k = desk[c].row
  BY <1>1, <1>2, <1>3 DEF OrderInv, RequestsAreFresh, RequestIsFresh
<1>5. k \in 1 .. Len(rows[t]) /\ LiveOf(t) = {k}
  <2>1. TrailerInOrder(t)
    BY <1>3 DEF OrderInv, YardInOrder, Undisturbed
  <2> QED
    BY <1>4, <2>1, RowsTyped DEF TrailerInOrder, LiveOf, OrderInv, IInv
<1> DEFINE e == NewRow(d, s, "manual_override")
<1>6. e \in Row /\ e.status = "ASSIGNED"
  BY NewRowTyped
<1>7. rows' = [rows EXCEPT ![t] = Append(Closed(t, k), e)]
  BY <1>2, <1>4 DEF Reassign
<1> HIDE DEF e
<1>8. rows'[t] = Append(Closed(t, k), e)
  BY <1>7 DEF OrderInv, IInv, TypeOK
<1>9. LiveOf(t)' = {Len(rows[t]) + 1} /\ rows'[t][Len(rows[t]) + 1] = e
  BY <1>5, <1>6, <1>8, MovedIsLive DEF OrderInv, IInv
<1> QED
  BY <1>2, <1>4, <1>5, <1>9 DEF e

LEMMA OrderReassign == ASSUME OrderInv, NEW c \in Clerk, Reassign(c) PROVE OrderInv'
<1>1. desk[c].task = "REASSIGN" /\ Done(c) /\ UNCHANGED <<trailers, goods, plan>>
  BY DEF Reassign
<1>2. PICK t \in Trailer : t = desk[c].trailer
  BY <1>1, RequestTyped DEF OrderInv, IInv
<1>3. /\ raced \subseteq raced' /\ (Rivalled(c, t) => t \in raced')
      /\ plan.open => t \in raced'
  BY <1>2 DEF Reassign, Overtakes
<1>4. \A u \in Trailer : Status(u)' = Status(u) /\ goods'[u] = goods[u]
  BY <1>1 DEF Status
<1>5. \A u \in Trailer : u # t => Untouched(u)
  BY <1>2, <1>4 DEF Reassign, Untouched, OrderInv, IInv, TypeOK
<1>6. ASSUME t \notin raced' PROVE TrailerInOrder(t)'
  <2>1. LiveOf(t) # {} /\ LiveOf(t)' = {Len(rows[t]) + 1}
    BY <1>2, <1>6, OverrideStep
  <2>2. TrailerInOrder(t) /\ ~Served(t)
    BY <1>3, <1>6, <2>1 DEF OrderInv, YardInOrder, Undisturbed, TrailerInOrder
  <2> QED
    BY <1>4, <2>1, <2>2 DEF TrailerInOrder, Served
<1>7. IInv'
  BY TypeReassign DEF OrderInv
<1> QED
  BY <1>1, <1>2, <1>3, <1>5, <1>6, <1>7, OrderWrite

LEMMA OrderBegin ==
    ASSUME OrderInv, NEW event \in {"REPLAN", "ETA", "STARTUP"}, BeginReplan(event)
    PROVE  OrderInv'
<1>1. PICK slots \in Schedules :
          plan' = [open |-> TRUE, event |-> event, slots |-> slots,
                   current |-> [t \in Trailer |-> Current(t)],
                   stuck |-> Requests \ Placeable]
  BY DEF BeginReplan
<1>2. UNCHANGED <<desk, trailers, rows, goods, raced>>
  BY DEF BeginReplan, yard
<1>3. \A u : Untouched(u)
  BY <1>2 DEF Untouched, Status
<1>4. YardInOrder'
  BY <1>2, <1>3, SameTrailer DEF OrderInv, YardInOrder, Undisturbed
<1>5. RequestsAreFresh'
  BY <1>2, <1>3, SameRequest DEF OrderInv, RequestsAreFresh
<1>6. PlanIsFresh'
  <2>1. DOMAIN slots = Placeable /\ Placeable \subseteq Requests /\ Requests \subseteq Trailer
    BY DEF Schedules, Placeable, Requests
  <2>2. ASSUME NEW t \in Placeable \ raced
        PROVE  Waiting(t) /\ LiveOf(t) = IF Current(t) = 0 THEN {} ELSE {Current(t)}
    <3>1. t \in Trailer /\ Waiting(t)
      BY <2>1 DEF Requests, Waiting
    <3>2. \A j, k \in LiveOf(t) : j = k
      BY <3>1 DEF OrderInv, YardInOrder, TrailerInOrder, Undisturbed
    <3>3. CASE LiveOf(t) = {}
      BY <3>1, <3>3 DEF Current
    <3>4. CASE LiveOf(t) # {}
      <4>1. LiveOf(t) \subseteq 1 .. Len(rows[t]) /\ Len(rows[t]) \in Nat
        BY <3>1, RowsTyped DEF LiveOf, OrderInv, IInv
      <4>2. Max(LiveOf(t)) \in LiveOf(t)
        BY <3>4, <4>1, LastPosition
      <4>3. Current(t) = Max(LiveOf(t)) /\ Max(LiveOf(t)) # 0
        BY <3>4, <4>1, <4>2 DEF Current
      <4> QED
        BY <3>1, <3>2, <4>2, <4>3
    <3> QED
      BY <3>3, <3>4
  <2>3. plan'.slots = slots /\ \A t \in Trailer : plan'.current[t] = Current(t)
    BY <1>1
  <2>4. \A t \in Trailer : LiveOf(t)' = LiveOf(t) /\ (Waiting(t)' <=> Waiting(t))
    BY <1>2 DEF LiveOf, Waiting, Status
  <2> QED
    BY <1>2, <2>1, <2>2, <2>3, <2>4 DEF PlanIsFresh
<1>7. IInv'
  BY TypeBegin DEF OrderInv
<1> QED
  BY <1>4, <1>5, <1>6, <1>7 DEF OrderInv

(* The row a plan leaves a trailer says what the plan says.                *)
Placed(t, n) ==
    LET row  == rows'[t][n]
        slot == plan.slots[t]
    IN  /\ row.door = slot.door /\ row.start = slot.start
        /\ row.end = slot.start + Service[slot.door]
        /\ row.source = "dock-worker"
        /\ row.docked # NotDocked => n \in LiveOf(t) /\ row.docked = rows[t][n].docked

(* A plan that is fresh leaves a trailer exactly one assignment.           *)
LEMMA RewrittenIsLive ==
    ASSUME OrderInv, plan.open, NEW t \in DOMAIN plan.slots \ raced, rows'[t] = Rewritten(t)
    PROVE  \E n : LiveOf(t)' = {n} /\ Placed(t, n)
<1>1. t \in Trailer /\ t \in DOMAIN plan.slots /\ t \notin raced /\ plan.slots[t] \in Slot
  BY PlanTyped DEF OrderInv, IInv
<1>2. PICK d \in Door, s \in Nat : d = plan.slots[t].door /\ s = plan.slots[t].start
  BY <1>1 DEF Slot
<1>3. PICK k \in 0 .. Len(rows[t]) : k = plan.current[t]
  BY <1>1 DEF OrderInv, IInv, RowsExist
<1>4. LiveOf(t) = IF k = 0 THEN {} ELSE {k}
  BY <1>1, <1>3 DEF OrderInv, PlanIsFresh
<1>5. /\ rows[t] \in Seq(Row) /\ Len(rows[t]) \in Nat /\ DOMAIN rows[t] = 1 .. Len(rows[t])
      /\ \A j \in 1 .. Len(rows[t]) : rows[t][j] \in Row
  BY <1>1, RowsTyped DEF OrderInv, IInv
<1> DEFINE e == NewRow(d, s, "dock-worker")
<1>6. e \in Row /\ e.status = "ASSIGNED"
  BY NewRowTyped
<1>7. CASE k # 0 /\ rows[t][k].door = d
  <2>1. rows'[t] = [rows[t] EXCEPT ![k] = [@ EXCEPT !.start = s, !.end = s + Service[d],
                                                    !.source = "dock-worker"]]
    BY <1>2, <1>3, <1>7 DEF Rewritten
  <2>2. k \in DOMAIN rows[t] /\ rows[t][k] \in Row
    BY <1>5, <1>7
  <2>3. rows'[t][k].status = rows[t][k].status
    BY <2>1, <2>2 DEF Row
  <2>4. DOMAIN rows'[t] = DOMAIN rows[t]
    BY <2>1
  <2>5. \A j \in DOMAIN rows[t] : j # k => rows'[t][j] = rows[t][j]
    BY <2>1
  <2>6. LiveOf(t)' = LiveOf(t)
    BY <2>2, <2>3, <2>4, <2>5 DEF LiveOf
  <2>7. LiveOf(t) = {k}
    BY <1>4, <1>7
  <2>8. Placed(t, k)
    BY <1>2, <1>7, <2>1, <2>2, <2>7 DEF Placed, Row
  <2> QED
    BY <2>6, <2>7, <2>8
<1>8. CASE k # 0 /\ rows[t][k].door # d
  <2>1. rows'[t] = Append(Closed(t, k), e)
    BY <1>2, <1>3, <1>8 DEF Rewritten
  <2> HIDE DEF e
  <2>2. LiveOf(t)' = {Len(rows[t]) + 1} /\ rows'[t][Len(rows[t]) + 1] = e
    <3>1. LiveOf(t) = {k} /\ k \in 1 .. Len(rows[t]) /\ TypeOK
      BY <1>4, <1>5, <1>8 DEF OrderInv, IInv
    <3> QED
      BY <1>1, <1>6, <2>1, <3>1, MovedIsLive
  <2>3. Placed(t, Len(rows[t]) + 1)
    BY <1>2, <2>2 DEF Placed, e, NewRow
  <2> QED
    BY <2>2, <2>3
<1>9. CASE k = 0
  <2>1. rows'[t] = Append(rows[t], e)
    BY <1>2, <1>3, <1>9 DEF Rewritten
  <2> HIDE DEF e
  <2>2. /\ rows'[t] \in Seq(Row) /\ Len(rows'[t]) = Len(rows[t]) + 1
        /\ rows'[t][Len(rows[t]) + 1] = e
        /\ \A j \in 1 .. Len(rows[t]) : rows'[t][j] = rows[t][j]
    BY <1>5, <1>6, <2>1, RowAppended
  <2>3. DOMAIN rows'[t] = 1 .. Len(rows[t]) + 1
    BY <2>2
  <2>4. \A j \in 1 .. Len(rows[t]) : rows'[t][j].status \notin LiveStatus
    BY <1>4, <1>5, <1>9, <2>2 DEF LiveOf
  <2>5. \A j \in DOMAIN rows'[t] : rows'[t][j].status \in LiveStatus <=> j = Len(rows[t]) + 1
    BY <1>5, <1>6, <2>2, <2>3, <2>4 DEF LiveStatus
  <2>6. LiveOf(t)' = {Len(rows[t]) + 1}
    BY <1>5, <2>3, <2>5 DEF LiveOf
  <2>7. Placed(t, Len(rows[t]) + 1)
    BY <1>2, <2>2 DEF Placed, e, NewRow
  <2> QED
    BY <2>6, <2>7
<1> QED
  BY <1>7, <1>8, <1>9

LEMMA OrderApply == ASSUME OrderInv, ApplyPlan PROVE OrderInv'
<1>1. /\ plan.open /\ ~plan'.open
      /\ rows' = [t \in Trailer |-> IF t \in DOMAIN plan.slots THEN Rewritten(t) ELSE rows[t]]
      /\ UNCHANGED <<trailers, goods, desk>>
      /\ raced' = raced \cup {desk[c].trailer : c \in {d \in Clerk : Outplanned(d)}}
  BY DEF ApplyPlan, NoPlan
<1>2. \A t \in Trailer : Status(t)' = Status(t) /\ goods'[t] = goods[t]
  BY <1>1 DEF Status
<1>3. \A t \in Trailer : t \notin DOMAIN plan.slots => Untouched(t)
  BY <1>1, <1>2 DEF Untouched
<1>4. ASSUME NEW t \in Trailer, t \notin raced' PROVE TrailerInOrder(t)'
  <2>1. t \notin raced /\ TrailerInOrder(t)
    BY <1>1, <1>4 DEF OrderInv, YardInOrder, Undisturbed
  <2>2. CASE t \in DOMAIN plan.slots
    <3>1. ~Served(t)
      BY <1>1, <2>1, <2>2 DEF OrderInv, PlanIsFresh, Waiting, Served
    <3>2. rows'[t] = Rewritten(t)
      BY <1>1, <2>2
    <3>3. PICK n : LiveOf(t)' = {n}
      BY <1>1, <2>1, <2>2, <3>2, RewrittenIsLive
    <3> QED
      BY <1>2, <2>1, <3>1, <3>3 DEF TrailerInOrder, Served
  <2>3. CASE t \notin DOMAIN plan.slots
    BY <1>3, <2>1, <2>3, SameTrailer
  <2> QED
    BY <2>2, <2>3
<1>5. RequestsAreFresh'
  <2> SUFFICES ASSUME NEW c \in Clerk, desk[c].task # "NONE", desk[c].trailer \notin raced'
               PROVE  RequestIsFresh(c)'
    BY <1>1 DEF RequestsAreFresh
  <2>1. PICK t \in Trailer : t = desk[c].trailer
    BY RequestTyped DEF OrderInv, IInv
  <2>2. t \notin raced /\ ~Outplanned(c)
    BY <1>1, <2>1
  <2>3. RequestIsFresh(c)
    BY <2>1, <2>2 DEF OrderInv, RequestsAreFresh
  <2>4. CASE desk[c].task \in {"DOCK", "REASSIGN"}
    <3>1. t \notin DOMAIN plan.slots
      BY <1>1, <2>1, <2>2, <2>4 DEF Outplanned, Moving, Replanned
    <3> QED
      BY <1>1, <1>3, <2>1, <2>3, <3>1, SameRequest
  <2>5. CASE desk[c].task \notin {"DOCK", "REASSIGN"}
    BY <1>1, <1>2, <2>1, <2>3, <2>5 DEF RequestIsFresh
  <2> QED
    BY <2>4, <2>5
<1>6. IInv'
  BY TypeApply DEF OrderInv
<1> QED
  BY <1>1, <1>4, <1>5, <1>6 DEF OrderInv, PlanIsFresh, YardInOrder, Undisturbed

(* A step that ends no request, adds none and touches no trailer.          *)
LEMMA OrderStands ==
    ASSUME OrderInv, IInv', UNCHANGED <<trailers, rows, goods, raced, desk>>,
           UNCHANGED plan \/ ~plan'.open
    PROVE  OrderInv'
<1>1. \A u : Untouched(u)
  BY DEF Untouched, Status
<1>2. YardInOrder'
  BY <1>1, SameTrailer DEF OrderInv, YardInOrder, Undisturbed
<1>3. RequestsAreFresh'
  BY <1>1, SameRequest DEF OrderInv, RequestsAreFresh
<1>4. PlanIsFresh'
  BY <1>1, SameTrailer DEF OrderInv, PlanIsFresh
<1> QED
  BY <1>2, <1>3, <1>4 DEF OrderInv

LEMMA OrderNext == OrderInv /\ [Next]_vars => OrderInv'
<1> SUFFICES ASSUME OrderInv, [Next]_vars PROVE OrderInv'
  OBVIOUS
<1>1. CASE UNCHANGED vars
  BY <1>1, TypeNext, OrderStands DEF OrderInv, vars, yard
<1>2. CASE World
  BY <1>2, OrderWorld
<1>3. ASSUME NEW c \in Clerk, NEW t \in Trailer,
             \/ \E task \in Task : AskGate(c, task, t)
             \/ \E k \in DOMAIN rows[t] :
                   AskDock(c, t, k) \/ \E d \in Door : AskReassign(c, t, k, d)
      PROVE  OrderInv'
  BY <1>3, OrderAsk
<1>4. ASSUME NEW c \in Clerk, PassGate(c) \/ Dock(c) \/ FinishService(c) \/ Reassign(c)
      PROVE  OrderInv'
  BY <1>4, OrderPassGate, OrderDock, OrderFinish, OrderReassign
<1>5. CASE Replan
  BY <1>5, OrderBegin DEF Replan
<1>6. CASE FailReplan
  BY <1>6, TypeFail, OrderStands DEF OrderInv, FailReplan, yard, NoPlan
<1>7. CASE ApplyPlan
  BY <1>7, OrderApply
<1> QED
  BY <1>1, <1>2, <1>3, <1>4, <1>5, <1>6, <1>7 DEF Next, World

LEMMA OrderInvariance == Spec => []OrderInv
  BY OrderInit, OrderNext, PTL DEF Spec

(* However the transactions interleave, a trailer that none of them has    *)
(* been overtaken about has one current assignment.                        *)
THEOREM OneAssignment == Spec => []OneCurrentAssignment
<1>1. OrderInv => OneCurrentAssignment
  BY DEF OrderInv, YardInOrder, TrailerInOrder, Undisturbed, OneCurrentAssignment
<1> QED
  BY <1>1, OrderInvariance, PTL

(* Such a trailer holds no door once it has been served.                   *)
THEOREM DoorsReleased == Spec => []NoDoorHeldByTheServed
<1>1. OrderInv => NoDoorHeldByTheServed
  <2>1. ASSUME OrderInv, NEW t \in Undisturbed,
               Status(t) \notin {"EN_ROUTE", "ARRIVED", "DOCKED"}
        PROVE  LiveOf(t) = {}
    BY <2>1 DEF OrderInv, YardInOrder, TrailerInOrder, Served
  <2> QED
    BY <2>1 DEF NoDoorHeldByTheServed, Undisturbed
<1> QED
  BY <1>1, OrderInvariance, PTL

(* Its goods are received or issued once, and exactly when they move.      *)
THEOREM GoodsCountedOnce == Spec => []GoodsMovedOnce
<1>1. OrderInv => GoodsMovedOnce
  <2>1. ASSUME OrderInv, NEW t \in Undisturbed
        PROVE  goods[t] = IF Status(t) \in {"NONE", "EN_ROUTE", "ARRIVED", "DOCKED"}
                            THEN 0 ELSE 1
    BY <2>1 DEF OrderInv, YardInOrder, TrailerInOrder, Served
  <2> QED
    BY <2>1 DEF GoodsMovedOnce, Undisturbed
<1> QED
  BY <1>1, OrderInvariance, PTL

-----------------------------------------------------------------------------
(* The doors.                                                              *)

(* The window that starts at s at a door is clear of a trailer's windows.  *)
ClearOf(d, s, u) ==
    \A k \in LiveOf(u) :
        rows[u][k].door = d =>
            Disjoint(s, s + Service[d], rows[u][k].start, rows[u][k].end)

(* No two trailers' windows at one door overlap.                           *)
WindowsApart ==
    \A t, u \in Undisturbed : \A j \in LiveOf(t), k \in LiveOf(u) :
        t # u /\ rows[t][j].door = rows[u][k].door =>
            Disjoint(rows[t][j].start, rows[t][j].end, rows[u][k].start, rows[u][k].end)

(* A trailer docked in the past, at a door that takes it unless the        *)
(* operator sent it elsewhere.                                             *)
RowInOrder(t) ==
    \A k \in LiveOf(t) :
        /\ rows[t][k].docked # NotDocked => rows[t][k].docked <= now
        /\ rows[t][k].source = "dock-worker" => rows[t][k].door \in Compatible[t]

(* The window an open override has found is still free.                    *)
OverrideFits(c) ==
    Moving(c) /\ desk[c].trailer \notin raced =>
        \A u \in Undisturbed \ {desk[c].trailer} :
            ClearOf(desk[c].door, desk[c].start, u)

(* The windows of an open plan are at doors that take the trailers, apart  *)
(* from each other and clear of those of the trailers it leaves alone.     *)
PlanFits ==
    plan.open =>
        /\ \A t \in DOMAIN plan.slots : plan.slots[t].door \in Compatible[t]
        /\ \A t, u \in DOMAIN plan.slots : t # u => Clear(plan.slots[t], plan.slots[u])
        /\ \A t \in DOMAIN plan.slots : \A u \in Undisturbed \ DOMAIN plan.slots :
              ClearOf(plan.slots[t].door, plan.slots[t].start, u)

BookingInv ==
    /\ OrderInv
    /\ WindowsApart
    /\ \A t \in Undisturbed : RowInOrder(t)
    /\ \A c \in Clerk : OverrideFits(c)
    /\ PlanFits

(* The live rows of a trailer are told by its rows.                        *)
LEMMA SameRows ==
    ASSUME NEW t, rows'[t] = rows[t]
    PROVE  LiveOf(t)' = LiveOf(t)
  BY DEF LiveOf

(* The live assignments are the trailers' live rows.                       *)
LEMMA LiveRows ==
    ASSUME TypeOK
    PROVE  /\ \A t \in Trailer : \A k \in LiveOf(t) :
                 <<t, k>> \in Live /\ The(<<t, k>>) = rows[t][k]
           /\ \A r \in Live : /\ r[1] \in Trailer /\ r[2] \in LiveOf(r[1])
                              /\ r = <<r[1], r[2]>> /\ The(r) = rows[r[1]][r[2]]
<1>1. ASSUME NEW t \in Trailer, NEW k \in LiveOf(t)
      PROVE  <<t, k>> \in Live /\ The(<<t, k>>) = rows[t][k]
  <2>1. k \in DOMAIN rows[t] /\ rows[t][k].status \in LiveStatus
    BY DEF LiveOf
  <2>2. <<t, k>> \in Assignments
    BY <2>1 DEF Assignments
  <2>3. The(<<t, k>>) = rows[t][k]
    BY DEF The
  <2> QED
    BY <2>1, <2>2, <2>3 DEF Live
<1>2. ASSUME NEW r \in Live
      PROVE  /\ r[1] \in Trailer /\ r[2] \in LiveOf(r[1])
             /\ r = <<r[1], r[2]>> /\ The(r) = rows[r[1]][r[2]]
  <2>1. r \in Assignments /\ The(r).status \in LiveStatus
    BY DEF Live
  <2>2. PICK t \in Trailer : r \in {t} \X DOMAIN rows[t]
    BY <2>1 DEF Assignments
  <2>3. r = <<r[1], r[2]>> /\ r[1] = t /\ r[2] \in DOMAIN rows[t]
    BY <2>2
  <2> QED
    BY <2>1, <2>3 DEF LiveOf, The
<1> QED
  BY <1>1, <1>2

(* What a live row holds.                                                  *)
LEMMA LiveTyped ==
    ASSUME TypeOK, NEW t \in Trailer, NEW k \in LiveOf(t)
    PROVE  /\ rows[t][k].door \in Door /\ rows[t][k].start \in Nat /\ rows[t][k].end \in Nat
           /\ rows[t][k].docked \in Nat \cup {NotDocked}
           /\ rows[t][k].source \in {"dock-worker", "manual_override"}
           /\ Service[rows[t][k].door] \in Nat \ {0}
<1>1. k \in 1 .. Len(rows[t])
  BY RowsTyped DEF LiveOf
<1>2. rows[t][k] \in Row
  BY <1>1, RowsTyped
<1> QED
  BY <1>2, YardDockAssumption DEF Row

(* A window that starts now or later and is clear of the time a row still  *)
(* has its door is clear of the row's window: a trailer docked in the past *)
(* is in no one's way before it docked.                                    *)
LEMMA ClearOfRow ==
    ASSUME TypeOK, NEW u \in Trailer, NEW k \in LiveOf(u), RowInOrder(u),
           NEW s \in Nat, s >= now, NEW n \in Nat \ {0}, NEW until \in Nat,
           until >= rows[u][k].end, Disjoint(s, s + n, BusyFrom(<<u, k>>), until)
    PROVE  Disjoint(s, s + n, rows[u][k].start, rows[u][k].end)
<1>1. The(<<u, k>>) = rows[u][k] /\ now \in Nat
  BY LiveRows DEF TypeOK
<1>2. /\ rows[u][k].start \in Nat /\ rows[u][k].end \in Nat
      /\ rows[u][k].docked \in Nat \cup {NotDocked}
  BY LiveTyped
<1>3. rows[u][k].docked # NotDocked => rows[u][k].docked <= now
  BY DEF RowInOrder
<1> QED
  BY <1>1, <1>2, <1>3 DEF Disjoint, BusyFrom, NotDocked

(* A live row keeps its door, its window and its source.                   *)
SameBooking(t, k) ==
    LET old == rows[t][k]
        new == rows'[t][k]
    IN  /\ new.door = old.door /\ new.start = old.start /\ new.end = old.end
        /\ new.source = old.source /\ new.docked \in {old.docked, now'}

(* What is booked stays in order if no row is added or moved, but of       *)
(* trailers overtaken.                                                     *)
LEMMA BookingFrame ==
    ASSUME BookingInv, OrderInv', now' >= now, raced \subseteq raced',
           \A t \in Undisturbed' :
               LiveOf(t)' \subseteq LiveOf(t) /\ \A k \in LiveOf(t)' : SameBooking(t, k)
    PROVE  /\ WindowsApart'
           /\ \A t \in Undisturbed' : RowInOrder(t)'
           /\ \A c \in Clerk : desk'[c] = desk[c] => OverrideFits(c)'
           /\ UNCHANGED plan \/ ~plan'.open => PlanFits'
<1>1. \A t \in Undisturbed' : t \in Undisturbed
  BY DEF Undisturbed
<1>2. WindowsApart'
  <2> SUFFICES ASSUME NEW t \in Undisturbed', NEW u \in Undisturbed',
                      NEW j \in LiveOf(t)', NEW k \in LiveOf(u)',
                      t # u, rows'[t][j].door = rows'[u][k].door
               PROVE  Disjoint(rows'[t][j].start, rows'[t][j].end,
                               rows'[u][k].start, rows'[u][k].end)
    BY DEF WindowsApart, Disjoint
  <2>1. j \in LiveOf(t) /\ k \in LiveOf(u) /\ SameBooking(t, j) /\ SameBooking(u, k)
    OBVIOUS
  <2>2. Disjoint(rows[t][j].start, rows[t][j].end, rows[u][k].start, rows[u][k].end)
    BY <1>1, <2>1 DEF BookingInv, WindowsApart, SameBooking
  <2> QED
    BY <2>1, <2>2 DEF SameBooking
<1>3. ASSUME NEW t \in Undisturbed' PROVE RowInOrder(t)'
  <2> SUFFICES ASSUME NEW k \in LiveOf(t)'
               PROVE  /\ rows'[t][k].docked # NotDocked => rows'[t][k].docked <= now'
                      /\ rows'[t][k].source = "dock-worker" =>
                             rows'[t][k].door \in Compatible[t]
    BY DEF RowInOrder, NotDocked
  <2>1. k \in LiveOf(t) /\ SameBooking(t, k) /\ RowInOrder(t) /\ t \in Trailer
    BY <1>1 DEF BookingInv, Undisturbed
  <2>2. now \in Nat /\ now' \in Nat /\ rows[t][k].docked \in Nat \cup {NotDocked}
    BY <2>1, LiveTyped DEF BookingInv, OrderInv, IInv, TypeOK
  <2> QED
    BY <2>1, <2>2 DEF RowInOrder, SameBooking, NotDocked
<1>4. ASSUME NEW c \in Clerk, desk'[c] = desk[c] PROVE OverrideFits(c)'
  <2> SUFFICES ASSUME Moving(c), desk[c].trailer \notin raced,
                      NEW u \in Undisturbed', u # desk[c].trailer
               PROVE  ClearOf(desk[c].door, desk[c].start, u)'
    BY <1>4 DEF OverrideFits, Moving, ClearOf
  <2>1. ClearOf(desk[c].door, desk[c].start, u)
    BY <1>1 DEF BookingInv, OverrideFits
  <2> QED
    BY <1>4, <2>1 DEF ClearOf, SameBooking, Disjoint
<1>5. ASSUME UNCHANGED plan \/ ~plan'.open PROVE PlanFits'
  <2> SUFFICES ASSUME UNCHANGED plan, plan.open PROVE PlanFits'
    BY <1>5 DEF PlanFits
  <2>1. ASSUME NEW t \in DOMAIN plan.slots, NEW u \in Undisturbed' \ DOMAIN plan.slots
        PROVE  ClearOf(plan.slots[t].door, plan.slots[t].start, u)'
    <3>1. ClearOf(plan.slots[t].door, plan.slots[t].start, u)
      BY <1>1 DEF BookingInv, PlanFits
    <3> QED
      BY <3>1 DEF ClearOf, SameBooking, Disjoint
  <2> QED
    BY <2>1 DEF BookingInv, PlanFits, Clear, ClearOf, Disjoint
<1> QED
  BY <1>2, <1>3, <1>4, <1>5

(* A step that chooses no window.                                          *)
LEMMA BookingKeeps ==
    ASSUME BookingInv, OrderInv', now' >= now, raced \subseteq raced',
           \A t \in Undisturbed' :
               LiveOf(t)' \subseteq LiveOf(t) /\ \A k \in LiveOf(t)' : SameBooking(t, k),
           \A c \in Clerk : desk'[c] = desk[c] \/ ~Moving(c)',
           UNCHANGED plan \/ ~plan'.open
    PROVE  BookingInv'
<1>1. \A c \in Clerk : OverrideFits(c)'
  BY BookingFrame DEF OverrideFits
<1> QED
  BY <1>1, BookingFrame DEF BookingInv

LEMMA BookingInit == Init => BookingInv
<1> SUFFICES ASSUME Init PROVE BookingInv
  OBVIOUS
<1>1. \A t \in Trailer : LiveOf(t) = {}
  BY DEF Init, LiveOf
<1>2. ~plan.open /\ \A c \in Clerk : ~Moving(c)
  BY DEF Init, NoPlan, NoRequest, Moving
<1> QED
  BY <1>1, <1>2, OrderInit
     DEF BookingInv, WindowsApart, RowInOrder, OverrideFits, PlanFits, Undisturbed

(* A step that leaves the rows and the requests alone.                     *)
LEMMA BookingStands ==
    ASSUME BookingInv, OrderInv', now' >= now, UNCHANGED <<rows, raced, desk>>,
           UNCHANGED plan \/ ~plan'.open
    PROVE  BookingInv'
<1>1. \A t \in Trailer : LiveOf(t)' = LiveOf(t)
  BY DEF LiveOf
<1>2. \A t \in Undisturbed' :
          LiveOf(t)' \subseteq LiveOf(t) /\ \A k \in LiveOf(t)' : SameBooking(t, k)
  BY <1>1 DEF Undisturbed, SameBooking
<1> QED
  BY <1>2, BookingKeeps

LEMMA BookingWorld == ASSUME BookingInv, World PROVE BookingInv'
<1>1. UNCHANGED <<plan, desk, rows, raced>>
  BY WorldStep DEF BookingInv, OrderInv, IInv
<1>2. now' >= now
  <2>1. now \in Nat /\ (now' = now \/ now' = now + 1)
    BY DEF World, Tick, UnblockDoors, IgnoreEta, BlockDoor, CreateTrailer, PostTracking,
       BookingInv, OrderInv, IInv, TypeOK
  <2> QED
    BY <2>1
<1>3. OrderInv'
  BY OrderWorld DEF BookingInv
<1> QED
  BY <1>1, <1>2, <1>3, BookingStands

(* The end of a request that adds no row.                                  *)
LEMMA BookingWrite ==
    ASSUME BookingInv, OrderInv', NEW c \in Clerk, Done(c), UNCHANGED <<now, plan>>,
           raced \subseteq raced',
           \A t \in Undisturbed' :
               LiveOf(t)' \subseteq LiveOf(t) /\ \A k \in LiveOf(t)' : SameBooking(t, k)
    PROVE  BookingInv'
<1>1. now' >= now
  BY DEF BookingInv, OrderInv, IInv, TypeOK
<1>2. \A a \in Clerk : desk'[a] = desk[a] \/ ~Moving(a)'
  BY DEF BookingInv, OrderInv, IInv, TypeOK, Done, Moving, NoRequest
<1> QED
  BY <1>1, <1>2, BookingKeeps

LEMMA BookingPassGate == ASSUME BookingInv, NEW c \in Clerk, PassGate(c) PROVE BookingInv'
<1>1. Done(c) /\ UNCHANGED <<now, rows, plan>> /\ raced \subseteq raced'
  BY DEF PassGate, Overtakes
<1>2. \A t \in Undisturbed' :
          LiveOf(t)' \subseteq LiveOf(t) /\ \A k \in LiveOf(t)' : SameBooking(t, k)
  BY <1>1 DEF LiveOf, SameBooking
<1>3. OrderInv'
  BY OrderPassGate DEF BookingInv
<1> QED
  BY <1>1, <1>2, <1>3, BookingWrite

LEMMA BookingDock == ASSUME BookingInv, NEW c \in Clerk, Dock(c) PROVE BookingInv'
<1>1. desk[c].task = "DOCK" /\ Done(c) /\ UNCHANGED <<now, plan>>
  BY DEF Dock
<1>2. TypeOK
  BY DEF BookingInv, OrderInv, IInv
<1>3. PICK t \in Trailer : t = desk[c].trailer
  BY <1>1, <1>2, RequestTyped
<1>4. raced \subseteq raced'
  BY DEF Dock, Overtakes
<1>5. ASSUME NEW u \in Undisturbed'
      PROVE  LiveOf(u)' \subseteq LiveOf(u) /\ \A j \in LiveOf(u)' : SameBooking(u, j)
  <2>1. CASE u # t
    <3>1. rows'[u] = rows[u]
      BY <1>2, <1>3, <2>1 DEF Dock, TypeOK, Undisturbed
    <3> QED
      BY <3>1, SameRows DEF SameBooking
  <2>2. CASE u = t
    <3>1. t \notin raced
      BY <1>4, <2>2 DEF Undisturbed
    <3>2. desk[c].row \in LiveOf(t)
      BY <1>1, <1>3, <3>1 DEF BookingInv, OrderInv, RequestsAreFresh, RequestIsFresh
    <3>3. PICK k \in LiveOf(t) : k = desk[c].row
      BY <3>2
    <3>4. /\ LiveOf(t)' = LiveOf(t)
          /\ rows'[t][k] = [rows[t][k] EXCEPT !.status = "CONFIRMED", !.docked = now]
          /\ \A j \in LiveOf(t) : j # k => rows'[t][j] = rows[t][j]
      <4>1. rows' = [rows EXCEPT ![t][k].status = "CONFIRMED", ![t][k].docked = now]
        BY <1>3, <3>3 DEF Dock
      <4> QED
        BY <1>2, <4>1, DockedRows
    <3>5. SameBooking(t, k)
      <4>1. rows[t][k] \in Row /\ now' = now
        BY <1>1, <1>2, RowsTyped DEF LiveOf
      <4> QED
        BY <3>4, <4>1 DEF SameBooking, Row
    <3>6. \A j \in LiveOf(t) : j # k => SameBooking(t, j)
      BY <3>4 DEF SameBooking
    <3> QED
      BY <2>2, <3>4, <3>5, <3>6
  <2> QED
    BY <2>1, <2>2
<1>6. OrderInv'
  BY OrderDock DEF BookingInv
<1> QED
  BY <1>1, <1>4, <1>5, <1>6, BookingWrite

LEMMA BookingFinish ==
    ASSUME BookingInv, NEW c \in Clerk, FinishService(c)
    PROVE  BookingInv'
<1>1. PICK t \in Trailer : LiveOf(t)' = {} /\ \A u \in Trailer : u # t => Untouched(u)
  BY FinishStep DEF BookingInv, OrderInv, IInv
<1>2. Done(c) /\ UNCHANGED <<now, plan>> /\ raced \subseteq raced'
  BY DEF FinishService, Overtakes
<1>3. ASSUME NEW u \in Undisturbed'
      PROVE  LiveOf(u)' \subseteq LiveOf(u) /\ \A j \in LiveOf(u)' : SameBooking(u, j)
  BY <1>1, SameRows DEF SameBooking, Untouched, Undisturbed
<1>4. OrderInv'
  BY OrderFinish DEF BookingInv
<1> QED
  BY <1>2, <1>3, <1>4, BookingWrite

LEMMA BookingReassign == ASSUME BookingInv, NEW c \in Clerk, Reassign(c) PROVE BookingInv'
<1>1. desk[c].task = "REASSIGN" /\ Done(c) /\ UNCHANGED <<now, plan>>
  BY DEF Reassign
<1>2. TypeOK
  BY DEF BookingInv, OrderInv, IInv
<1>3. PICK t \in Trailer : t = desk[c].trailer
  BY <1>1, <1>2, RequestTyped
<1>4. OrderInv'
  BY OrderReassign DEF BookingInv
<1>5. raced \subseteq raced'
  BY DEF Reassign, Overtakes
<1>6. \A u \in Trailer : u # t => rows'[u] = rows[u] /\ LiveOf(u)' = LiveOf(u)
  BY <1>2, <1>3, SameRows DEF Reassign, TypeOK
<1>7. CASE t \in raced'
  <2>1. ASSUME NEW u \in Undisturbed'
        PROVE  LiveOf(u)' \subseteq LiveOf(u) /\ \A j \in LiveOf(u)' : SameBooking(u, j)
    BY <1>6, <1>7 DEF SameBooking, Undisturbed
  <2> QED
    BY <1>1, <1>4, <1>5, <2>1, BookingWrite
<1>8. CASE t \notin raced'
  <2>1. t \notin raced /\ ~plan.open /\ \A a \in Clerk \ {c} : ~Moving(a)
    BY <1>3, <1>8 DEF Reassign, Overtakes
  <2>2. PICK d \in Door, s \in Nat : \E k \in LiveOf(t) :
            /\ d = desk[c].door /\ s = desk[c].start
            /\ LiveOf(t)' = {Len(rows[t]) + 1}
            /\ rows'[t][Len(rows[t]) + 1] = NewRow(d, s, "manual_override")
    BY <1>3, <1>8, OverrideStep DEF BookingInv
  <2> DEFINE n == Len(rows[t]) + 1
             e == rows'[t][n]
  <2>3. LiveOf(t)' = {n}
    BY <2>2
  <2>4. /\ e.door = d /\ e.start = s /\ e.end = s + Service[d]
        /\ e.docked = NotDocked /\ e.source = "manual_override"
    BY <2>2 DEF NewRow
  <2>5. \A u \in Undisturbed : u # t => ClearOf(d, s, u)
    BY <1>1, <1>3, <2>1, <2>2 DEF BookingInv, OverrideFits, Moving
  <2> HIDE DEF n
  <2>6. ASSUME NEW u \in Undisturbed', u # t, NEW j \in LiveOf(u)', rows'[u][j].door = d
        PROVE  /\ Disjoint(s, s + Service[d], rows'[u][j].start, rows'[u][j].end)
               /\ Disjoint(rows'[u][j].start, rows'[u][j].end, s, s + Service[d])
    <3>1. u \in Undisturbed /\ rows'[u] = rows[u] /\ j \in LiveOf(u)
      BY <1>5, <1>6, <2>6 DEF Undisturbed
    <3>2. ClearOf(d, s, u)
      BY <2>5, <2>6, <3>1
    <3> QED
      BY <2>6, <3>1, <3>2 DEF ClearOf, Disjoint
  <2>7. WindowsApart'
    <3> SUFFICES ASSUME NEW u \in Undisturbed', NEW v \in Undisturbed',
                        NEW i \in LiveOf(u)', NEW j \in LiveOf(v)',
                        u # v, rows'[u][i].door = rows'[v][j].door
                 PROVE  Disjoint(rows'[u][i].start, rows'[u][i].end,
                                 rows'[v][j].start, rows'[v][j].end)
      BY DEF WindowsApart, Disjoint
    <3>1. CASE u = t
      <4>1. i = n
        BY <2>3, <3>1
      <4> QED
        BY <2>4, <2>6, <3>1, <4>1
    <3>2. CASE v = t
      <4>1. j = n
        BY <2>3, <3>2
      <4> QED
        BY <2>4, <2>6, <3>2, <4>1
    <3>3. CASE u # t /\ v # t
      <4>1. /\ i \in LiveOf(u) /\ j \in LiveOf(v) /\ rows'[u] = rows[u] /\ rows'[v] = rows[v]
            /\ u \in Undisturbed /\ v \in Undisturbed
        BY <1>5, <1>6, <3>3 DEF Undisturbed
      <4> QED
        BY <4>1 DEF BookingInv, WindowsApart
    <3> QED
      BY <3>1, <3>2, <3>3
  <2>8. ASSUME NEW u \in Undisturbed' PROVE RowInOrder(u)'
    <3>1. CASE u = t
      BY <2>3, <2>4, <3>1 DEF RowInOrder, NotDocked
    <3>2. CASE u # t
      <4>1. LiveOf(u)' = LiveOf(u) /\ rows'[u] = rows[u] /\ now' = now /\ u \in Undisturbed
        BY <1>1, <1>5, <1>6, <3>2 DEF Undisturbed
      <4> QED
        BY <4>1 DEF BookingInv, RowInOrder, NotDocked
    <3> QED
      BY <3>1, <3>2
  <2>9. \A a \in Clerk : ~Moving(a)'
    BY <1>1, <1>2, <2>1 DEF Done, TypeOK, Moving, NoRequest
  <2> QED
    BY <1>1, <1>4, <2>1, <2>7, <2>8, <2>9 DEF BookingInv, OverrideFits, PlanFits
<1> QED
  BY <1>7, <1>8

(* The requests.  Only an override chooses a window.                       *)
LEMMA BookingAsk ==
    ASSUME BookingInv, NEW c \in Clerk, NEW t \in Trailer,
           \/ \E task \in Task : AskGate(c, task, t)
           \/ \E k \in DOMAIN rows[t] :
                 AskDock(c, t, k) \/ \E d \in Door : AskReassign(c, t, k, d)
    PROVE  BookingInv'
<1>1. UNCHANGED <<now, rows, raced, plan>>
  BY DEF AskGate, AskDock, AskReassign, yard
<1>2. TypeOK
  BY DEF BookingInv, OrderInv, IInv
<1>3. OrderInv'
  BY OrderAsk DEF BookingInv
<1>4. now' >= now
  BY <1>1, <1>2 DEF TypeOK
<1>5. \A u : LiveOf(u)' = LiveOf(u) /\ rows'[u] = rows[u]
  BY <1>1 DEF LiveOf
<1>6. \A u \in Undisturbed' :
          LiveOf(u)' \subseteq LiveOf(u) /\ \A k \in LiveOf(u)' : SameBooking(u, k)
  BY <1>5 DEF SameBooking
<1>7. \A a \in Clerk \ {c} : desk'[a] = desk[a]
  BY <1>2 DEF AskGate, AskDock, AskReassign, TypeOK
<1>8. CASE ~Moving(c)'
  BY <1>1, <1>3, <1>4, <1>6, <1>7, <1>8, BookingKeeps
<1>9. ASSUME NEW k \in DOMAIN rows[t], NEW d \in Door, AskReassign(c, t, k, d)
      PROVE  OverrideFits(c)'
  <2>1. PICK s \in SlotStarts(Ready(t)) :
           /\ s >= Ready(t) /\ FreeFrom(d, s, <<t, k>>)
           /\ desk' = [desk EXCEPT ![c] = [task |-> "REASSIGN", trailer |-> t, row |-> k,
                                           door |-> d, start |-> s]]
    BY <1>9 DEF AskReassign, EarliestFree
  <2>2. desk'[c].trailer = t /\ desk'[c].door = d /\ desk'[c].start = s
    BY <1>2, <2>1 DEF TypeOK
  <2>3. Ready(t) \in Nat /\ Ready(t) >= now /\ now \in Nat
    BY <1>2 DEF Ready, LaterOf, TypeOK
  <2>4. s \in Nat /\ s >= now
    <3>1. \A q \in Live : The(q).end \in Nat
      BY <1>2, LiveRows, LiveTyped
    <3>2. s \in Nat
      BY <2>3, <3>1 DEF SlotStarts
    <3> QED
      BY <2>1, <2>3, <3>2
  <2>5. ASSUME NEW u \in Undisturbed, u # t, NEW j \in LiveOf(u), rows[u][j].door = d
        PROVE  Disjoint(s, s + Service[d], rows[u][j].start, rows[u][j].end)
    <3>1. u \in Trailer
      BY DEF Undisturbed
    <3>2. <<u, j>> \in Live \ {<<t, k>>} /\ The(<<u, j>>) = rows[u][j]
      BY <1>2, <2>5, <3>1, LiveRows
    <3>3. Disjoint(s, s + Service[d], BusyFrom(<<u, j>>), rows[u][j].end)
      BY <2>1, <2>5, <3>2 DEF FreeFrom
    <3>4. rows[u][j].end \in Nat /\ Service[d] \in Nat \ {0}
      BY <1>2, <3>1, LiveTyped, YardDockAssumption
    <3>5. RowInOrder(u) /\ rows[u][j].end >= rows[u][j].end
      BY <3>4 DEF BookingInv
    <3> QED
      BY <1>2, <2>4, <3>1, <3>3, <3>4, <3>5, ClearOfRow
  <2>6. \A u \in Undisturbed : u # t => ClearOf(d, s, u)'
    BY <1>5, <2>5 DEF ClearOf, Disjoint
  <2> QED
    BY <1>1, <2>2, <2>6 DEF OverrideFits, Undisturbed, ClearOf
<1>10. CASE Moving(c)'
  <2>1. PICK k \in DOMAIN rows[t], d \in Door : AskReassign(c, t, k, d)
    <3>1. ASSUME NEW task \in Task, AskGate(c, task, t) PROVE FALSE
      BY <1>2, <1>10, <3>1 DEF AskGate, TypeOK, Moving
    <3>2. ASSUME NEW k \in DOMAIN rows[t], AskDock(c, t, k) PROVE FALSE
      BY <1>2, <1>10, <3>2 DEF AskDock, TypeOK, Moving
    <3> QED
      BY <3>1, <3>2
  <2>2. OverrideFits(c)'
    BY <1>9, <2>1
  <2>3. /\ WindowsApart'
        /\ \A u \in Undisturbed' : RowInOrder(u)'
        /\ \A a \in Clerk \ {c} : OverrideFits(a)'
        /\ PlanFits'
    BY <1>1, <1>3, <1>4, <1>6, <1>7, BookingFrame
  <2> QED
    BY <1>3, <2>2, <2>3 DEF BookingInv
<1> QED
  BY <1>8, <1>10

(* A window of a plan is clear of every row the plan does not touch: of    *)
(* the immovable ones because the solver works around them, and of what a  *)
(* trailer without a door keeps because that door is out of service.       *)
LEMMA PlannedIsClear ==
    ASSUME BookingInv, NEW slots \in Schedules,
           NEW t \in Placeable, NEW u \in Undisturbed \ Placeable
    PROVE  ClearOf(slots[t].door, slots[t].start, u)
<1> SUFFICES ASSUME NEW k \in LiveOf(u), rows[u][k].door = slots[t].door
             PROVE  Disjoint(slots[t].start, slots[t].start + Service[slots[t].door],
                             rows[u][k].start, rows[u][k].end)
  BY DEF ClearOf
<1>1. TypeOK /\ RowInOrder(u) /\ TrailerInOrder(u) /\ u \in Trailer
  BY DEF BookingInv, OrderInv, IInv, YardInOrder, Undisturbed
<1>2. PICK d \in Door, s \in Nat : d = slots[t].door /\ s = slots[t].start
  <2>1. slots[t] \in Slot
    BY DEF Schedules
  <2> QED
    BY <2>1 DEF Slot
<1>3. Feasible(t, slots[t])
  BY DEF Schedules
<1>4. now \in Nat /\ s >= now /\ Service[d] \in Nat \ {0}
  <2>1. t \in Trailer /\ Ready(t) >= now /\ now \in Nat /\ Ready(t) \in Nat
    BY <1>1 DEF Placeable, Requests, Ready, LaterOf, TypeOK
  <2>2. s >= Ready(t)
    BY <1>2, <1>3 DEF Feasible
  <2> QED
    BY <2>1, <2>2, YardDockAssumption
<1>5. <<u, k>> \in Live /\ The(<<u, k>>) = rows[u][k]
  BY <1>1, LiveRows
<1>6. <<u, k>> \in Pinned
  <2> SUFFICES ASSUME <<u, k>> \notin Pinned PROVE FALSE
    OBVIOUS
  <2>1. Status(u) # "DOCKED" /\ rows[u][k].source = "dock-worker"
    BY <1>1, <1>5, LiveTyped DEF Pinned, Immovable
  <2>2. \A r \in Pinned : r[1] # u
    <3> SUFFICES ASSUME NEW r \in Pinned, r[1] = u PROVE FALSE
      OBVIOUS
    <3>1. r = <<u, r[2]>> /\ r[2] \in LiveOf(u)
      BY <1>1, LiveRows DEF Pinned
    <3>2. r = <<u, k>>
      BY <1>1, <3>1 DEF TrailerInOrder
    <3> QED
      BY <3>2
  <2>3. u \in Requests
    <3>1. Status(u) \in {"EN_ROUTE", "ARRIVED"}
      BY <1>1, <2>1 DEF TrailerInOrder, Served
    <3> QED
      BY <1>1, <2>2, <3>1 DEF Requests
  <2>4. Compatible[u] \cap active = {}
    BY <2>3 DEF Placeable
  <2>5. d \in Compatible[u] /\ d \in active
    BY <1>1, <1>2, <1>3, <2>1 DEF RowInOrder, Feasible
  <2> QED
    BY <2>4, <2>5
<1>7. Disjoint(s, s + Service[d], BusyFrom(<<u, k>>), BookedUntil(<<u, k>>))
  BY <1>2, <1>3, <1>5, <1>6 DEF Feasible
<1>8. BookedUntil(<<u, k>>) \in Nat /\ BookedUntil(<<u, k>>) >= rows[u][k].end
  <2>1. rows[u][k].end \in Nat /\ Grace \in Nat
    BY <1>1, LiveTyped, YardDockAssumption
  <2> QED
    BY <1>4, <1>5, <2>1 DEF BookedUntil, LaterOf
<1>9. Disjoint(s, s + Service[d], rows[u][k].start, rows[u][k].end)
  BY <1>1, <1>4, <1>7, <1>8, ClearOfRow
<1> QED
  BY <1>2, <1>9

LEMMA BookingBegin ==
    ASSUME BookingInv, NEW event \in {"REPLAN", "ETA", "STARTUP"}, BeginReplan(event)
    PROVE  BookingInv'
<1>1. PICK slots \in Schedules : plan'.slots = slots
  BY DEF BeginReplan
<1>2. UNCHANGED <<now, desk, rows, raced>>
  BY DEF BeginReplan, yard
<1>3. OrderInv'
  BY OrderBegin DEF BookingInv
<1>4. \A u : LiveOf(u)' = LiveOf(u) /\ rows'[u] = rows[u]
  BY <1>2 DEF LiveOf
<1>5. /\ WindowsApart'
      /\ \A u \in Undisturbed' : RowInOrder(u)'
      /\ \A c \in Clerk : OverrideFits(c)'
  <2>1. \A u \in Undisturbed' :
            LiveOf(u)' \subseteq LiveOf(u) /\ \A k \in LiveOf(u)' : SameBooking(u, k)
    BY <1>4 DEF SameBooking
  <2>2. now' >= now
    BY <1>2 DEF BookingInv, OrderInv, IInv, TypeOK
  <2> QED
    BY <1>2, <1>3, <2>1, <2>2, BookingFrame
<1>6. PlanFits'
  <2>1. /\ DOMAIN slots = Placeable
        /\ \A t \in Placeable : slots[t].door \in Compatible[t]
        /\ \A t, u \in Placeable : t # u => Clear(slots[t], slots[u])
    BY DEF Schedules, Feasible
  <2>2. ASSUME NEW t \in Placeable, NEW u \in Undisturbed' \ Placeable
        PROVE  ClearOf(slots[t].door, slots[t].start, u)'
    <3>1. ClearOf(slots[t].door, slots[t].start, u)
      BY <1>2, PlannedIsClear DEF Undisturbed
    <3> QED
      BY <1>4, <3>1 DEF ClearOf, Disjoint
  <2> QED
    BY <1>1, <2>1, <2>2 DEF PlanFits, Clear, ClearOf, Disjoint
<1> QED
  BY <1>3, <1>5, <1>6 DEF BookingInv

LEMMA BookingApply == ASSUME BookingInv, ApplyPlan PROVE BookingInv'
<1>1. /\ plan.open /\ ~plan'.open /\ UNCHANGED <<now, desk>>
      /\ rows' = [t \in Trailer |-> IF t \in DOMAIN plan.slots THEN Rewritten(t) ELSE rows[t]]
      /\ raced' = raced \cup {desk[c].trailer : c \in {d \in Clerk : Outplanned(d)}}
  BY DEF ApplyPlan, NoPlan
<1>2. OrderInv'
  BY OrderApply DEF BookingInv
<1>3. \A t \in Undisturbed' : t \in Undisturbed /\ t \in Trailer
  BY <1>1 DEF Undisturbed
<1> DEFINE placed == DOMAIN plan.slots
<1>4. ASSUME NEW t \in Undisturbed', t \in placed
      PROVE  \E n : LiveOf(t)' = {n} /\ Placed(t, n)
  <2>1. rows'[t] = Rewritten(t) /\ t \in DOMAIN plan.slots \ raced
    BY <1>1, <1>3, <1>4 DEF Undisturbed
  <2> QED
    BY <1>1, <2>1, RewrittenIsLive DEF BookingInv
<1>5. ASSUME NEW t \in Undisturbed', t \notin placed
      PROVE  rows'[t] = rows[t] /\ LiveOf(t)' = LiveOf(t)
  BY <1>1, <1>3, <1>5, SameRows
<1>6. ASSUME NEW t \in Undisturbed', t \in placed, NEW u \in Undisturbed', u \notin placed,
             NEW j \in LiveOf(t)', NEW k \in LiveOf(u)', rows'[t][j].door = rows'[u][k].door
      PROVE  /\ Disjoint(rows'[t][j].start, rows'[t][j].end,
                         rows'[u][k].start, rows'[u][k].end)
             /\ Disjoint(rows'[u][k].start, rows'[u][k].end,
                         rows'[t][j].start, rows'[t][j].end)
  <2>1. Placed(t, j)
    BY <1>4, <1>6
  <2>2. k \in LiveOf(u) /\ rows'[u] = rows[u]
    BY <1>5, <1>6
  <2>3. rows[u][k].door = plan.slots[t].door
    BY <1>6, <2>1, <2>2 DEF Placed
  <2>4. ClearOf(plan.slots[t].door, plan.slots[t].start, u)
    BY <1>1, <1>3, <1>6 DEF BookingInv, PlanFits
  <2>5. Disjoint(rows'[t][j].start, rows'[t][j].end, rows'[u][k].start, rows'[u][k].end)
    BY <2>1, <2>2, <2>3, <2>4 DEF Placed, ClearOf
  <2> QED
    BY <2>5 DEF Disjoint
<1>7. WindowsApart'
  <2> SUFFICES ASSUME NEW t \in Undisturbed', NEW u \in Undisturbed',
                      NEW j \in LiveOf(t)', NEW k \in LiveOf(u)',
                      t # u, rows'[t][j].door = rows'[u][k].door
               PROVE  Disjoint(rows'[t][j].start, rows'[t][j].end,
                               rows'[u][k].start, rows'[u][k].end)
    BY DEF WindowsApart, Disjoint
  <2>1. CASE t \in placed /\ u \in placed
    <3>1. Placed(t, j) /\ Placed(u, k)
      BY <1>4, <2>1
    <3>2. Clear(plan.slots[t], plan.slots[u])
      BY <1>1, <2>1 DEF BookingInv, PlanFits
    <3> QED
      BY <3>1, <3>2 DEF Placed, Clear
  <2>2. CASE t \in placed /\ u \notin placed
    BY <1>6, <2>2
  <2>3. CASE t \notin placed /\ u \in placed
    BY <1>6, <2>3
  <2>4. CASE t \notin placed /\ u \notin placed
    <3>1. /\ rows'[t] = rows[t] /\ rows'[u] = rows[u] /\ j \in LiveOf(t) /\ k \in LiveOf(u)
          /\ t \in Undisturbed /\ u \in Undisturbed
      BY <1>3, <1>5, <2>4
    <3> QED
      BY <3>1 DEF BookingInv, WindowsApart
  <2> QED
    BY <2>1, <2>2, <2>3, <2>4
<1>8. ASSUME NEW t \in Undisturbed' PROVE RowInOrder(t)'
  <2>1. CASE t \in placed
    <3> SUFFICES ASSUME NEW k \in LiveOf(t)'
                 PROVE  /\ rows'[t][k].docked # NotDocked => rows'[t][k].docked <= now'
                        /\ rows'[t][k].source = "dock-worker" =>
                               rows'[t][k].door \in Compatible[t]
      BY DEF RowInOrder, NotDocked
    <3>1. Placed(t, k)
      BY <1>4, <2>1
    <3>2. plan.slots[t].door \in Compatible[t] /\ RowInOrder(t) /\ now' = now
      BY <1>1, <1>3, <2>1 DEF BookingInv, PlanFits
    <3> QED
      BY <3>1, <3>2 DEF Placed, RowInOrder
  <2>2. CASE t \notin placed
    <3>1. LiveOf(t)' = LiveOf(t) /\ rows'[t] = rows[t] /\ now' = now /\ t \in Undisturbed
      BY <1>1, <1>3, <1>5, <2>2
    <3> QED
      BY <3>1 DEF BookingInv, RowInOrder, NotDocked
  <2> QED
    BY <2>1, <2>2
<1>9. ASSUME NEW c \in Clerk PROVE OverrideFits(c)'
  <2>1. Moving(c) => desk[c].trailer \in raced'
    BY <1>1 DEF Outplanned
  <2> QED
    BY <1>1, <2>1 DEF OverrideFits, Moving
<1> QED
  BY <1>1, <1>2, <1>7, <1>8, <1>9 DEF BookingInv, PlanFits

LEMMA BookingNext == BookingInv /\ [Next]_vars => BookingInv'
<1> SUFFICES ASSUME BookingInv, [Next]_vars PROVE BookingInv'
  OBVIOUS
<1>0. OrderInv' /\ now \in Nat
  BY OrderNext DEF BookingInv, OrderInv, IInv, TypeOK
<1>1. CASE UNCHANGED vars
  BY <1>0, <1>1, BookingStands DEF vars, yard
<1>2. CASE World
  BY <1>2, BookingWorld
<1>3. ASSUME NEW c \in Clerk, NEW t \in Trailer,
             \/ \E task \in Task : AskGate(c, task, t)
             \/ \E k \in DOMAIN rows[t] :
                   AskDock(c, t, k) \/ \E d \in Door : AskReassign(c, t, k, d)
      PROVE  BookingInv'
  BY <1>3, BookingAsk
<1>4. ASSUME NEW c \in Clerk, PassGate(c) \/ Dock(c) \/ FinishService(c) \/ Reassign(c)
      PROVE  BookingInv'
  BY <1>4, BookingPassGate, BookingDock, BookingFinish, BookingReassign
<1>5. CASE Replan
  BY <1>5, BookingBegin DEF Replan
<1>6. CASE FailReplan
  BY <1>0, <1>6, BookingStands DEF FailReplan, yard, NoPlan
<1>7. CASE ApplyPlan
  BY <1>7, BookingApply
<1> QED
  BY <1>1, <1>2, <1>3, <1>4, <1>5, <1>6, <1>7 DEF Next, World

(* However the transactions interleave, no door is promised twice at a     *)
(* time to trailers none of them has been overtaken about: across plans,   *)
(* overrides, doors taken out of service, early and late docking and       *)
(* overruns, no two of their live windows at one door overlap.             *)
THEOREM NoDoorBookedTwice == Spec => []NoDoubleBooking
<1>1. BookingInv => NoDoubleBooking
  <2> SUFFICES ASSUME BookingInv, NEW q \in Live, NEW r \in Live,
                      q # r, {q[1], r[1]} \cap raced = {}, The(q).door = The(r).door
               PROVE  Disjoint(The(q).start, The(q).end, The(r).start, The(r).end)
    BY DEF NoDoubleBooking
  <2>1. /\ q[1] \in Undisturbed /\ q[2] \in LiveOf(q[1]) /\ q = <<q[1], q[2]>>
        /\ The(q) = rows[q[1]][q[2]]
        /\ r[1] \in Undisturbed /\ r[2] \in LiveOf(r[1]) /\ r = <<r[1], r[2]>>
        /\ The(r) = rows[r[1]][r[2]]
    BY LiveRows DEF BookingInv, OrderInv, IInv, Undisturbed
  <2>2. q[1] # r[1]
    <3>1. TrailerInOrder(q[1])
      BY <2>1 DEF BookingInv, OrderInv, YardInOrder
    <3> QED
      BY <2>1, <3>1 DEF TrailerInOrder
  <2> QED
    BY <2>1, <2>2 DEF BookingInv, WindowsApart
<1>2. Spec => []BookingInv
  BY BookingInit, BookingNext, PTL DEF Spec
<1> QED
  BY <1>1, <1>2, PTL
===============================================================================
