------------------------------ MODULE YardDock ------------------------------
(***************************************************************************)
(* Trailers, doors and the dock schedule: the yard API's endpoints that    *)
(* move a trailer (backend/services/yard_api/main.py, and load and deliver *)
(* of outbound.py), the operator's reassignment, and the dock worker       *)
(* (backend/services/dock_worker/main.py), on one database at READ         *)
(* COMMITTED.                                                              *)
(*                                                                         *)
(* None of them locks what it reads.  An endpoint is its checks (the Ask   *)
(* actions) and its writes with the commit; a replan is a read of the yard *)
(* with the solve, which takes seconds, and the writes with the commit.    *)
(* What they have read may be gone when they write: the history variable   *)
(* raced keeps the trailers to which that may have happened.               *)
(*                                                                         *)
(* The solver is any schedule that meets the hard constraints of           *)
(* shared/dock_engine.plan_docks, whatever it costs: a superset of what    *)
(* CP-SAT and the greedy fallback return.  Time is in coarse units.        *)
(***************************************************************************)
EXTENDS Integers, FiniteSetsExt, Sequences

CONSTANTS Trailer,    \* trailers
          Outbound,   \* those whose direction is OUTBOUND
          Door,       \* docks
          Compatible, \* trailer -> the doors that take its load type
          Service,    \* door -> expected_unload_minutes
          Eta,        \* the arrival times a supplier or a GPS tick may give
          Clerk,      \* gate staff, operators and the simulator's requests
          Task,       \* what they ask for
          Grace,      \* OVERRUN_GRACE_MINUTES
          Horizon,    \* the latest start the solver considers
          MaxTime, MaxMoves, MaxEtaChanges, MaxBlocks, MaxFailures \* bounds

Tasks == {"ARRIVE", "DOCK", "FINISH", "DEPART", "DELIVER", "REASSIGN"}

ASSUME YardDockAssumption ==
    /\ Outbound \subseteq Trailer
    /\ Compatible \in [Trailer -> SUBSET Door]
    /\ Service \in [Door -> Nat \ {0}]
    /\ Eta \subseteq Nat
    /\ Task \subseteq Tasks
    /\ Grace \in Nat /\ Horizon \in Nat /\ MaxTime \in Nat /\ MaxMoves \in Nat
    /\ MaxEtaChanges \in Nat /\ MaxBlocks \in Nat /\ MaxFailures \in Nat

VARIABLES
  now,      \* the clock
  trailers, \* trailer -> its row: [status, eta]
  rows,     \* trailer -> its dock_assignments, oldest first
  active,   \* the doors with is_active
  goods,    \* trailer -> how many goods_receipts or goods_issues name it
  alerted,  \* trailers with an open DOCK_CONFLICT alert
  inbox,    \* events the worker has not handled: [replan, eta], none, one or Many
  plan,     \* the worker's open transaction, or NoPlan
  desk,     \* clerk -> the request whose checks have passed, or NoRequest
  count,    \* what the bounds count: [eta, blocks, failures]
  raced     \* history: trailers whose transactions got in each other's way

yard == <<trailers, rows, goods, raced>>
vars == <<now, yard, active, alerted, inbox, plan, desk, count>>

TrailerStatus == {"NONE", "EN_ROUTE", "ARRIVED", "DOCKED", "UNLOADED", "LOADED",
                  "DEPARTED", "DELIVERED"}
NotDocked == -1
Row == [door : Door,
        status : {"ASSIGNED", "CONFIRMED", "REASSIGNED", "COMPLETED"},
        source : {"dock-worker", "manual_override"},
        start : Nat, end : Nat, docked : Nat \cup {NotDocked}]
Slot == [door : Door, start : 0 .. Horizon]
OpenPlan == [open : {TRUE}, event : {"REPLAN", "ETA", "STARTUP"},
             current : [Trailer -> Nat], stuck : SUBSET Trailer,
             slots : UNION {[placed -> Slot] : placed \in SUBSET Trailer}]
NoPlan == [open |-> FALSE]
GateRequest == [task : Tasks \ {"DOCK", "REASSIGN"}, trailer : Trailer]
                \cup [task : {"DOCK"}, trailer : Trailer, row : Nat]
OverrideRequest == [task : {"REASSIGN"}, trailer : Trailer, row : Nat, door : Door,
                    start : Nat]
NoRequest == [task |-> "NONE"]

Init ==
    /\ now = 0
    /\ trailers = [t \in Trailer |-> [status |-> "NONE", eta |-> 0]]
    /\ rows = [t \in Trailer |-> <<>>]
    /\ active = Door
    /\ goods = [t \in Trailer |-> 0]
    /\ alerted = {}
    /\ inbox = [replan |-> 0, eta |-> 0]
    /\ plan = NoPlan
    /\ desk = [c \in Clerk |-> NoRequest]
    /\ count = [eta |-> 0, blocks |-> 0, failures |-> 0]
    /\ raced = {}

Status(t) == trailers[t].status
LiveStatus == {"ASSIGNED", "CONFIRMED"}
LiveOf(t) == {k \in DOMAIN rows[t] : rows[t][k].status \in LiveStatus}

(* An assignment's id is a pair of a trailer and a position in its rows.   *)
Assignments == UNION {{t} \X DOMAIN rows[t] : t \in Trailer}
The(r) == rows[r[1]][r[2]]
Live == {r \in Assignments : The(r).status \in LiveStatus}

LaterOf(a, b) == IF a >= b THEN a ELSE b

Idle(c) == desk[c] = NoRequest

(* The worker's backlog is counted up to Many, which stands for any number *)
(* from there on: handling one of many leaves one or many.                 *)
Many == 2
OneMore(n) == IF n = Many THEN Many ELSE n + 1
OneLess(n) == IF n = Many THEN {1, Many} ELSE {n - 1}
Signal(b) == [b EXCEPT !.replan = OneMore(@)]

(* The history.  A commit overtakes the other open transactions that read  *)
(* what it writes; the trailers these will write from the stale reads are  *)
(* raced from then on.  A request has read its trailer's status and row, a *)
(* replan its trailers' rows, and both a replan and a REASSIGN the windows *)
(* at the doors.                                                           *)
Rivalled(c, t) ==
    \E d \in Clerk \ {c} : desk[d] # NoRequest /\ desk[d].trailer = t
Replanned(t) == plan.open /\ t \in DOMAIN plan.slots
Moving(c) == desk[c].task = "REASSIGN"
Outplanned(c) ==
    Moving(c) \/ (desk[c].task = "DOCK" /\ Replanned(desk[c].trailer))
Overtakes(t, others) == raced' = IF others THEN raced \cup {t} ELSE raced

-----------------------------------------------------------------------------
(* The world: the clock, the roads and the doors.                          *)

Tick ==
    /\ now < MaxTime
    /\ now' = now + 1
    /\ UNCHANGED <<yard, active, alerted, inbox, plan, desk, count>>

(* Mutant of CreateTrailer: the worker is not told of a new trailer.       *)
CreateTrailerSilently(t, eta) ==
    /\ Status(t) = "NONE"
    /\ trailers' = [trailers EXCEPT ![t] = [status |-> "EN_ROUTE", eta |-> eta]]
    /\ UNCHANGED <<now, rows, active, goods, alerted, inbox, plan, desk, count, raced>>

(* POST /shipments/{id}/trailers and the trailer of dispatch_order.        *)
CreateTrailer(t, eta) ==
    /\ Status(t) = "NONE"
    /\ trailers' = [trailers EXCEPT ![t] = [status |-> "EN_ROUTE", eta |-> eta]]
    /\ inbox' = Signal(inbox)
    /\ UNCHANGED <<now, rows, active, goods, alerted, plan, desk, count, raced>>

(* POST /trailers/{id}/tracking with an ETA that differs by a time unit,   *)
(* which is material; a smaller change gives no event the worker acts on.  *)
(* The status of the trailer is not checked.                               *)
PostTracking(t, eta) ==
    /\ count.eta < MaxEtaChanges
    /\ Status(t) # "NONE" /\ trailers[t].eta # eta
    /\ trailers' = [trailers EXCEPT ![t].eta = eta]
    /\ inbox' = [inbox EXCEPT !.eta = OneMore(@)]
    /\ count' = [count EXCEPT !.eta = @ + 1]
    /\ UNCHANGED <<now, rows, active, goods, alerted, plan, desk, raced>>

(* The simulator takes a door out of service, and back: no event tells.    *)
BlockDoor(d) ==
    /\ count.blocks < MaxBlocks
    /\ d \in active
    /\ \A r \in Live : The(r).status = "CONFIRMED" => The(r).door # d
    /\ active' = active \ {d}
    /\ count' = [count EXCEPT !.blocks = @ + 1]
    /\ UNCHANGED <<now, yard, alerted, inbox, plan, desk>>

UnblockDoors ==
    /\ active # Door
    /\ active' = Door
    /\ UNCHANGED <<now, yard, alerted, inbox, plan, desk, count>>

-----------------------------------------------------------------------------
(* The gate.                                                               *)

Goods(t) == IF t \in Outbound THEN "LOADED" ELSE "UNLOADED"

(* Mutant of Expected: nothing is refused to a trailer that has arrived.   *)
ExpectedLoose(task, t) ==
    IF task = "ARRIVE" THEN {"EN_ROUTE"} ELSE TrailerStatus \ {"NONE", "EN_ROUTE"}

(* The statuses a request is not refused in.                               *)
Expected(task, t) ==
    CASE task = "ARRIVE"  -> {"EN_ROUTE"}
      [] task = "DOCK"    -> {"ARRIVED"}
      [] task = "FINISH"  -> {"ARRIVED", "DOCKED"}
      [] task = "DEPART"  -> {Goods(t)}
      [] task = "DELIVER" -> IF t \in Outbound THEN {"DEPARTED"} ELSE {}

(* The status check of arrive, unload or load, depart, deliver.            *)
AskGate(c, task, t) ==
    /\ Idle(c)
    /\ task \in Task \cap {"ARRIVE", "FINISH", "DEPART", "DELIVER"}
    /\ Status(t) \in Expected(task, t)
    /\ desk' = [desk EXCEPT ![c] = [task |-> task, trailer |-> t]]
    /\ UNCHANGED <<now, yard, active, alerted, inbox, plan, count>>

(* dock checks the status and takes some live assignment of the trailer;   *)
(* whether the door is free is not asked.                                  *)
AskDock(c, t, k) ==
    /\ Idle(c)
    /\ "DOCK" \in Task
    /\ Status(t) \in Expected("DOCK", t)
    /\ k \in LiveOf(t)
    /\ desk' = [desk EXCEPT ![c] = [task |-> "DOCK", trailer |-> t, row |-> k]]
    /\ UNCHANGED <<now, yard, active, alerted, inbox, plan, count>>

SetStatus(t, s) == trailers' = [trailers EXCEPT ![t].status = s]
Done(c) == desk' = [desk EXCEPT ![c] = NoRequest]

(* The writes of arrive, depart and deliver.  Only the arrival is an event *)
(* the worker acts on.                                                     *)
PassGate(c) ==
    LET t == desk[c].trailer
    IN  /\ \/ desk[c].task = "ARRIVE" /\ SetStatus(t, "ARRIVED") /\ inbox' = Signal(inbox)
           \/ desk[c].task = "DEPART" /\ SetStatus(t, "DEPARTED") /\ UNCHANGED inbox
           \/ desk[c].task = "DELIVER" /\ SetStatus(t, "DELIVERED") /\ UNCHANGED inbox
        /\ Done(c)
        /\ Overtakes(t, Rivalled(c, t))
        /\ UNCHANGED <<now, rows, active, goods, alerted, plan, count>>

(* dock: the assignment is confirmed by its id, whatever it is by now.     *)
Dock(c) ==
    LET t == desk[c].trailer
        k == desk[c].row
    IN  /\ desk[c].task = "DOCK"
        /\ SetStatus(t, "DOCKED")
        /\ rows' = [rows EXCEPT ![t][k].status = "CONFIRMED", ![t][k].docked = now]
        /\ inbox' = Signal(inbox)
        /\ Done(c)
        /\ Overtakes(t, Rivalled(c, t) \/ Replanned(t))
        /\ UNCHANGED <<now, active, goods, alerted, plan, count>>

(* Mutant of Released: a confirmed assignment is kept.                     *)
ReleasedUnlessConfirmed(t) ==
    [k \in DOMAIN rows[t] |->
        IF rows[t][k].status = "ASSIGNED" THEN [rows[t][k] EXCEPT !.status = "COMPLETED"]
                                          ELSE rows[t][k]]

(* The UPDATE of unload and load: every live assignment of the trailer.    *)
Released(t) ==
    [k \in DOMAIN rows[t] |->
        IF k \in LiveOf(t) THEN [rows[t][k] EXCEPT !.status = "COMPLETED"]
                           ELSE rows[t][k]]

(* unload, or load for an outbound trailer: the goods have moved, the door *)
(* is released, the receipt or issue is written.                           *)
FinishService(c) ==
    LET t == desk[c].trailer
    IN  /\ desk[c].task = "FINISH"
        /\ SetStatus(t, Goods(t))
        /\ rows' = [rows EXCEPT ![t] = Released(t)]
        /\ goods' = [goods EXCEPT ![t] = @ + 1]
        /\ inbox' = Signal(inbox)
        /\ Done(c)
        /\ Overtakes(t, Rivalled(c, t) \/ Replanned(t))
        /\ UNCHANGED <<now, active, alerted, plan, count>>

-----------------------------------------------------------------------------
(* The operator's override.                                                *)

Moves == Cardinality({r \in Assignments : The(r).status = "REASSIGNED"})

(* When a trailer can be at a door.                                        *)
Ready(t) == IF Status(t) = "ARRIVED" THEN now ELSE LaterOf(trailers[t].eta, now)

Disjoint(s1, e1, s2, e2) == e1 <= s2 \/ e2 <= s1

(* COALESCE(docked_at, planned_start)                                      *)
BusyFrom(r) == IF The(r).docked = NotDocked THEN The(r).start ELSE The(r).docked

(* A door is free from s for one service, as far as its live assignments   *)
(* other than r say.                                                       *)
FreeFrom(d, s, r) ==
    \A q \in Live \ {r} :
        The(q).door = d => Disjoint(s, s + Service[d], BusyFrom(q), The(q).end)

(* _earliest_free_slot returns s: the first such moment from ready on.     *)
EarliestFree(d, ready, r, s) ==
    /\ s >= ready
    /\ FreeFrom(d, s, r)
    /\ \A earlier \in ready .. s - 1 : ~FreeFrom(d, earlier, r)

(* The moments _earliest_free_slot can return: ready, or the end of a      *)
(* window.                                                                 *)
SlotStarts(ready) == {ready} \cup {The(q).end : q \in Live}

Reassignable(t, k) == rows[t][k].status \notin {"REASSIGNED", "COMPLETED"}

(* reassign: the assignment is not over, the new door is in service, its   *)
(* load types are not asked.                                               *)
AskReassign(c, t, k, d) ==
    /\ Idle(c)
    /\ "REASSIGN" \in Task
    /\ Moves < MaxMoves
    /\ Reassignable(t, k)
    /\ d \in active
    /\ \E s \in SlotStarts(Ready(t)) :
          /\ EarliestFree(d, Ready(t), <<t, k>>, s)
          /\ desk' = [desk EXCEPT ![c] = [task |-> "REASSIGN", trailer |-> t, row |-> k,
                                         door |-> d, start |-> s]]
    /\ UNCHANGED <<now, yard, active, alerted, inbox, plan, count>>

NewRow(d, s, source) ==
    [door |-> d, status |-> "ASSIGNED", source |-> source,
     start |-> s, end |-> s + Service[d], docked |-> NotDocked]

(* Mutants of Closed: the old assignment stays, or gets a status the       *)
(* schema does not know.                                                   *)
ClosedNever(t, k) == rows[t]
ClosedAsMoved(t, k) == [rows[t] EXCEPT ![k].status = "MOVED"]

Closed(t, k) == [rows[t] EXCEPT ![k].status = "REASSIGNED"]

(* The old assignment is closed by its id, the new one is the operator's.  *)
Reassign(c) ==
    LET t == desk[c].trailer
    IN  /\ desk[c].task = "REASSIGN"
        /\ rows' = [rows EXCEPT ![t] =
               Append(Closed(t, desk[c].row),
                      NewRow(desk[c].door, desk[c].start, "manual_override"))]
        /\ inbox' = Signal(inbox)
        /\ Done(c)
        /\ Overtakes(t, Rivalled(c, t) \/ plan.open \/ \E d \in Clerk \ {c} : Moving(d))
        /\ UNCHANGED <<now, trailers, active, goods, alerted, plan, count>>

-----------------------------------------------------------------------------
(* The dock worker.                                                        *)

(* Mutant of Immovable: overrides are planned like everything else.        *)
ImmovableAtDoor(r) == Status(r[1]) = "DOCKED"

(* The assignments a replan works around: at the door, or an override.     *)
Immovable(r) == Status(r[1]) = "DOCKED" \/ The(r).source = "manual_override"

Pinned == {r \in Live : Immovable(r)}

(* Until when such an assignment blocks its door: a trailer still there    *)
(* after its window blocks it a while longer.                              *)
BookedUntil(r) ==
    IF Status(r[1]) = "DOCKED" THEN LaterOf(The(r).end, now + Grace) ELSE The(r).end

Requests ==
    {t \in Trailer : Status(t) \in {"EN_ROUTE", "ARRIVED"} /\ \A r \in Pinned : r[1] # t}

(* The row _load_state keeps for a trailer: the last of its live ones.     *)
Current(t) == IF LiveOf(t) = {} THEN 0 ELSE Max(LiveOf(t))

Placeable == {t \in Requests : Compatible[t] \cap active # {}}

(* A slot plan_docks may give a trailer: a door in service that takes its  *)
(* load, not before it is ready, and clear of every immovable window.      *)
Feasible(t, slot) ==
    /\ slot.door \in Compatible[t] \cap active
    /\ slot.start >= Ready(t)
    /\ \A r \in Pinned :
          The(r).door = slot.door =>
              Disjoint(slot.start, slot.start + Service[slot.door],
                       BusyFrom(r), BookedUntil(r))

(* Mutant of Clear: the NoOverlap constraint between trailers is missing.  *)
ClearAlways(a, b) == TRUE

(* NoOverlap per door.                                                     *)
Clear(a, b) ==
    a.door = b.door => Disjoint(a.start, a.start + Service[a.door],
                                b.start, b.start + Service[b.door])

MovesOf(slots) ==
    Cardinality({t \in Placeable :
                    Current(t) # 0 /\ rows[t][Current(t)].door # slots[t].door})

(* What plan_docks may return for the yard as it is.                       *)
Schedules ==
    {slots \in [Placeable -> Slot] :
        /\ \A t \in Placeable : Feasible(t, slots[t])
        /\ \A t, u \in Placeable : t # u => Clear(slots[t], slots[u])
        /\ Moves + MovesOf(slots) <= MaxMoves}

(* What starts a replan: an event, or the start of the worker.             *)
Wakes(event) ==
    CASE event = "REPLAN"  -> inbox.replan > 0
      [] event = "ETA"     -> inbox.eta > 0
      [] event = "STARTUP" -> count.failures < MaxFailures

(* replan's reads and the solve.                                           *)
BeginReplan(event) ==
    /\ ~plan.open
    /\ Wakes(event)
    /\ \E slots \in Schedules :
          plan' = [open |-> TRUE, event |-> event, slots |-> slots,
                   current |-> [t \in Trailer |-> Current(t)],
                   stuck |-> Requests \ Placeable]
    /\ count' = IF event = "STARTUP" THEN [count EXCEPT !.failures = @ + 1] ELSE count
    /\ UNCHANGED <<now, yard, active, alerted, inbox, desk>>

(* ETA_UPDATED that does not move the trailer by ten minutes against the   *)
(* ETA of the last plan.                                                   *)
IgnoreEta ==
    /\ ~plan.open
    /\ inbox.eta > 0
    /\ \E n \in OneLess(inbox.eta) : inbox' = [inbox EXCEPT !.eta = n]
    /\ UNCHANGED <<now, yard, active, alerted, plan, desk, count>>

(* _apply for one trailer of the plan: a new window for the row it had, if *)
(* the door is the same; otherwise that row is closed, by its id, and a    *)
(* new one added.                                                          *)
Rewritten(t) ==
    LET k == plan.current[t]
        d == plan.slots[t].door
        s == plan.slots[t].start
    IN  IF k # 0 /\ rows[t][k].door = d
          THEN [rows[t] EXCEPT ![k] = [@ EXCEPT !.start = s, !.end = s + Service[d],
                                                !.source = "dock-worker"]]
          ELSE Append(IF k = 0 THEN rows[t] ELSE Closed(t, k),
                      NewRow(d, s, "dock-worker"))

(* The event is marked as handled in the same transaction.                 *)
Handle(event) ==
    \/ event = "REPLAN" /\ \E n \in OneLess(inbox.replan) : inbox' = [inbox EXCEPT !.replan = n]
    \/ event = "ETA" /\ \E n \in OneLess(inbox.eta) : inbox' = [inbox EXCEPT !.eta = n]
    \/ event = "STARTUP" /\ UNCHANGED inbox

(* _apply and the commit.  A trailer no door can take gets one alert, and  *)
(* keeps the assignment it may have.  The worker's own events start no     *)
(* replan.                                                                 *)
ApplyPlan ==
    /\ plan.open
    /\ rows' = [t \in Trailer |-> IF t \in DOMAIN plan.slots THEN Rewritten(t) ELSE rows[t]]
    /\ alerted' = alerted \cup {t \in plan.stuck : plan.current[t] = 0}
    /\ Handle(plan.event)
    /\ plan' = NoPlan
    /\ raced' = raced \cup {desk[c].trailer : c \in {d \in Clerk : Outplanned(d)}}
    /\ UNCHANGED <<now, trailers, active, goods, desk, count>>

(* The handler fails or the worker dies: nothing is written, the event     *)
(* comes again.                                                            *)
FailReplan ==
    /\ plan.open
    /\ count.failures < MaxFailures
    /\ plan' = NoPlan
    /\ count' = [count EXCEPT !.failures = @ + 1]
    /\ UNCHANGED <<now, yard, active, alerted, inbox, desk>>

-----------------------------------------------------------------------------
Replan == \E event \in {"REPLAN", "ETA", "STARTUP"} : BeginReplan(event)

Next ==
    \/ Tick
    \/ UnblockDoors
    \/ \E d \in Door : BlockDoor(d)
    \/ \E t \in Trailer, eta \in Eta : CreateTrailer(t, eta) \/ PostTracking(t, eta)
    \/ \E c \in Clerk, t \in Trailer :
          \/ \E task \in Task : AskGate(c, task, t)
          \/ \E k \in DOMAIN rows[t] :
                \/ AskDock(c, t, k)
                \/ \E d \in Door : AskReassign(c, t, k, d)
    \/ \E c \in Clerk : PassGate(c) \/ Dock(c) \/ FinishService(c) \/ Reassign(c)
    \/ Replan \/ IgnoreEta \/ ApplyPlan \/ FailReplan

Spec == Init /\ [][Next]_vars

(* The worker goes on: an event wakes it, and a transaction it has begun   *)
(* ends (event_bus.consume; docker-compose.yml restarts it if it dies), as *)
(* does a request.                                                         *)
LiveSpec ==
    /\ Spec
    /\ WF_vars(Replan) /\ WF_vars(ApplyPlan)
    /\ \A c \in Clerk : WF_vars(PassGate(c) \/ Dock(c) \/ FinishService(c) \/ Reassign(c))

-----------------------------------------------------------------------------
(* Properties.                                                             *)

(* Every variable has its type.                                            *)
TypeOK ==
    /\ now \in Nat
    /\ trailers \in [Trailer -> [status : TrailerStatus, eta : Nat]]
    /\ rows \in [Trailer -> Seq(Row)]
    /\ active \subseteq Door
    /\ goods \in [Trailer -> Nat]
    /\ alerted \subseteq Trailer
    /\ inbox \in [replan : 0 .. Many, eta : 0 .. Many]
    /\ plan = NoPlan \/ plan \in OpenPlan
    /\ desk \in [Clerk -> GateRequest \cup OverrideRequest \cup {NoRequest}]
    /\ count \in [eta : Nat, blocks : Nat, failures : Nat]
    /\ raced \subseteq Trailer

(* However requests and replans interleave, a trailer has one current      *)
(* assignment, which yard_status and the dock endpoint join on: the        *)
(* scheduler's beside an override, as little as two of the scheduler's     *)
(* (dock_worker/main.py:272-374, yard_api/main.py:377-400, 574-660).  This *)
(* and the next three hold of every trailer that is not raced: about which *)
(* no commit overtook an open transaction.                                 *)
OneCurrentAssignment ==
    \A t \in Trailer \ raced : \A j, k \in LiveOf(t) : j = k

(* "The yard-wide invariant ... one door, one trailer, at a time"          *)
(* (test_dock_scheduling_live.py:208-230): no two live windows at one door *)
(* overlap, across replans, overrides, early and late docking, overruns.   *)
NoDoubleBooking ==
    \A q, r \in Live :
        q # r /\ {q[1], r[1]} \cap raced = {} /\ The(q).door = The(r).door =>
            Disjoint(The(q).start, The(q).end, The(r).start, The(r).end)

(* "the dock engine ... sees the door as occupied forever" otherwise       *)
(* (yard_api/main.py:467-469): a trailer that has been served holds none.  *)
NoDoorHeldByTheServed ==
    \A t \in Trailer \ raced :
        Status(t) \notin {"EN_ROUTE", "ARRIVED", "DOCKED"} => LiveOf(t) = {}

(* A replan that commits leaves every live override as it is, whatever was *)
(* written since it read the yard (dock_worker/main.py:49-52).             *)
ReplanSparesOverrides ==
    [][plan.open /\ ~plan'.open =>
        \A r \in Live : The(r).source = "manual_override" => The(r)' = The(r)]_vars

(* Goods are received or issued once per trailer, and exactly when it has  *)
(* been served.                                                            *)
GoodsMovedOnce ==
    \A t \in Trailer \ raced :
        goods[t] = IF Status(t) \in {"NONE", "EN_ROUTE", "ARRIVED", "DOCKED"} THEN 0 ELSE 1

(* A trailer on its way gets an assignment, or an alert if no door can     *)
(* take it, unless it is served first (dock_worker/main.py:272-374).       *)
EventuallyPlannedOrAlerted ==
    \A t \in Trailer :
        Status(t) = "EN_ROUTE" ~>
            LiveOf(t) # {} \/ t \in alerted \/ Status(t) \notin {"EN_ROUTE", "ARRIVED"}
=============================================================================
