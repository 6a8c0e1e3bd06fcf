------------------------------ MODULE Outbound ------------------------------
(***************************************************************************)
(* Outbound orders, their load plans, the trucks that collect them and the *)
(* goods issued (backend/services/yard_api/outbound.py, and arrive, dock   *)
(* and depart of yard_api/main.py), on one database at READ COMMITTED.     *)
(*                                                                         *)
(* No endpoint locks what it reads.  A request is its checks (Ask) and     *)
(* then its writes with the commit, one action per endpoint; overlaps      *)
(* counts how often a request has begun while another was open.            *)
(*                                                                         *)
(* A truck is its trailer, its shipment and its door: every endpoint that  *)
(* writes shipments.status to where a check can see it (DELIVERED or not)  *)
(* writes the trailer's in the same transaction.  Which door it gets, and  *)
(* when, is YardDock's matter: here the dock worker gives it some door.    *)
(***************************************************************************)
EXTENDS Integers, FiniteSets, Sequences

CONSTANTS Order,   \* outbound orders, an id each
          Line,    \* the lines of an order's load plan
          Ordered, \* qty_ordered of a line
          MaxPick, \* bound: the largest quantity a picker enters
          Truck,   \* trucks that can be dispatched, an id each
          Client,  \* who posts requests: warehouse staff, simulator threads
          MaxOverlaps \* bound: 0 for requests that come one at a time

ASSUME OutboundAssumption ==
    /\ Ordered \in Nat \ {0} /\ MaxPick \in Nat /\ Ordered <= MaxPick
    /\ IsFiniteSet(Truck) /\ MaxOverlaps \in Nat

VARIABLES
  order,     \* order -> outbound_orders.status, NONE before it exists
  plan,      \* order -> line -> its load_plans row: [staged, loaded, status]
  truck,     \* truck -> [order, status, door]
  issues,    \* truck -> its goods_issues, each the quantities by line
  req,       \* client -> its request whose checks have passed, or NoRequest
  overlaps   \* requests that began while another was open

tables == <<order, plan, truck, issues>>
outboundVars == <<tables, req, overlaps>>

OrderStatus == {"NONE", "PLANNED", "STAGED", "LOADING", "SHIPPED", "DELIVERED"}
PlanLine == [staged : 0 .. MaxPick, loaded : 0 .. MaxPick,
             status : {"PLANNED", "STAGED", "SHORT", "LOADED"}]
TruckStatus == {"EN_ROUTE", "ARRIVED", "DOCKED", "LOADED", "DEPARTED", "DELIVERED"}
Unused == [status |-> "NONE"]
TruckRow == [order : Order, status : TruckStatus,
             door : {"NONE", "ASSIGNED", "CONFIRMED", "COMPLETED"}]

(* The lines of a body: some of the plan's, with a quantity each.          *)
Body == UNION {[lines -> 0 .. MaxPick] : lines \in (SUBSET Line) \ {{}}}
NoRequest == [op |-> "none"]
Request ==
    [op : {"stage"}, order : Order, body : Body, status : {"PLANNED", "STAGED"}]
      \cup [op : {"dispatch"}, order : Order]
      \cup [op : {"load"}, truck : Truck, body : Body]
      \cup [op : {"arrive", "dock", "depart", "deliver"}, truck : Truck]

Init ==
    /\ order = [o \in Order |-> "NONE"]
    /\ plan = [o \in Order |->
                 [l \in Line |-> [staged |-> 0, loaded |-> 0, status |-> "PLANNED"]]]
    /\ truck = [t \in Truck |-> Unused]
    /\ issues = [t \in Truck |-> <<>>]
    /\ req = [c \in Client |-> NoRequest]
    /\ overlaps = 0

Trucks(o) == {t \in Truck : truck[t] # Unused /\ truck[t].order = o}
At(t, statuses) == truck[t].status \in statuses
Busy(c) == req[c] # NoRequest

-----------------------------------------------------------------------------
(* Checks: what an endpoint asks of the rows it reads.                     *)

Live(o) == {t \in Trucks(o) : truck[t].status # "DELIVERED"}
(* Bound: no request for a truck when the ids are used up.                 *)
Left == Cardinality({t \in Truck : truck[t] = Unused})
           > Cardinality({c \in Client : req[c].op = "dispatch"})

(* Mutants: an order may be dispatched again, a truck loaded again, or     *)
(* leave before it is loaded.                                              *)
MayDispatchAgain(o) == order[o] = "STAGED" /\ Left
MayLoadAgain(t) == At(t, {"ARRIVED", "DOCKED", "LOADED"})
MayDepartEmpty(t) == At(t, {"DOCKED", "LOADED"})

MayStage(o) == order[o] \in {"PLANNED", "STAGED"}
MayDispatch(o) == order[o] = "STAGED" /\ Live(o) = {} /\ Left
MayArrive(t) == At(t, {"EN_ROUTE"})
MayDock(t) == At(t, {"ARRIVED"}) /\ truck[t].door \in {"ASSIGNED", "CONFIRMED"}
MayLoad(t) == At(t, {"ARRIVED", "DOCKED"})
MayDepart(t) == At(t, {"LOADED"})
MayDeliver(t) == At(t, {"DEPARTED"})

(* Empty bodies: every line in full; everything that was staged.           *)
InFull == [l \in Line |-> Ordered]
AllStaged(t) == [l \in Line |-> plan[truck[t].order][l].staged]

(* Whether every line is resolved once body is written over the plan read. *)
Picked(q) == IF q >= Ordered THEN "STAGED" ELSE "SHORT"
Resolved(o, body) ==
    \A l \in Line : l \in DOMAIN body \/ plan[o][l].status \in {"STAGED", "SHORT"}
StatusAfter(o, body) == IF Resolved(o, body) THEN "STAGED" ELSE "PLANNED"

(* A client's request has passed its checks: r is what it has read.        *)
Open(c, r) ==
    /\ ~Busy(c)
    /\ req' = [req EXCEPT ![c] = r]
    /\ IF \E d \in Client : Busy(d)
       THEN overlaps < MaxOverlaps /\ overlaps' = overlaps + 1
       ELSE UNCHANGED overlaps
    /\ UNCHANGED tables

AskStage(c, o, body) ==
    /\ MayStage(o)
    /\ Open(c, [op |-> "stage", order |-> o, body |-> body,
                status |-> StatusAfter(o, body)])
AskDispatch(c, o) == MayDispatch(o) /\ Open(c, [op |-> "dispatch", order |-> o])
AskArrive(c, t) == MayArrive(t) /\ Open(c, [op |-> "arrive", truck |-> t])
AskDock(c, t) == MayDock(t) /\ Open(c, [op |-> "dock", truck |-> t])
AskLoad(c, t, body) ==
    /\ MayLoad(t)
    /\ \A l \in DOMAIN body : body[l] <= AllStaged(t)[l]
    /\ Open(c, [op |-> "load", truck |-> t, body |-> body])
AskDepart(c, t) == MayDepart(t) /\ Open(c, [op |-> "depart", truck |-> t])
AskDeliver(c, t) == MayDeliver(t) /\ Open(c, [op |-> "deliver", truck |-> t])

-----------------------------------------------------------------------------
(* Writes.                                                                 *)

Answered(c) == req' = [req EXCEPT ![c] = NoRequest] /\ UNCHANGED overlaps

(* POST /outbound-orders: the order and its plan in one transaction.       *)
CreateOrder(o) ==
    /\ order[o] = "NONE"
    /\ order' = [order EXCEPT ![o] = "PLANNED"]
    /\ UNCHANGED <<plan, truck, issues, req, overlaps>>

Written(o, body, Row(_, _)) ==
    [plan EXCEPT ![o] = [l \in Line |->
        IF l \in DOMAIN body THEN Row(plan[o][l], body[l]) ELSE plan[o][l]]]

(* POST /outbound-orders/{id}/stage.                                       *)
Stage(c) ==
    /\ req[c].op = "stage"
    /\ plan' = Written(req[c].order, req[c].body,
                 LAMBDA row, q : [row EXCEPT !.staged = q, !.status = Picked(q)])
    /\ order' = [order EXCEPT ![req[c].order] = req[c].status]
    /\ Answered(c)
    /\ UNCHANGED <<truck, issues>>

(* POST /outbound-orders/{id}/dispatch: a shipment and its trailer.        *)
Dispatch(c) ==
    /\ req[c].op = "dispatch"
    /\ \E t \in Truck :
         /\ truck[t] = Unused
         /\ truck' = [truck EXCEPT ![t] = [order |-> req[c].order,
                                           status |-> "EN_ROUTE", door |-> "NONE"]]
    /\ Answered(c)
    /\ UNCHANGED <<order, plan, issues>>

(* The dock worker plans a door for a truck that has none.                 *)
AssignDoor(t) ==
    /\ At(t, {"EN_ROUTE", "ARRIVED"})
    /\ truck[t].door \notin {"ASSIGNED", "CONFIRMED"}
    /\ truck' = [truck EXCEPT ![t].door = "ASSIGNED"]
    /\ UNCHANGED <<order, plan, issues, req, overlaps>>

(* POST /trailers/{id}/arrive.                                             *)
Arrive(c) ==
    /\ req[c].op = "arrive"
    /\ truck' = [truck EXCEPT ![req[c].truck].status = "ARRIVED"]
    /\ Answered(c)
    /\ UNCHANGED <<order, plan, issues>>


(* POST /trailers/{id}/dock: the order is LOADING if it still is STAGED.   *)
Dock(c) ==
    /\ req[c].op = "dock"
    /\ LET t == req[c].truck
       IN  /\ truck' = [truck EXCEPT ![t].status = "DOCKED", ![t].door = "CONFIRMED"]
           /\ order' = [order EXCEPT ![truck[t].order] =
                          IF @ = "STAGED" THEN "LOADING" ELSE @]
    /\ Answered(c)
    /\ UNCHANGED <<plan, issues>>

(* POST /trailers/{id}/load: loads, ships, releases the door and is the    *)
(* only writer of goods_issues.                                            *)
Released(door) == IF door \in {"ASSIGNED", "CONFIRMED"} THEN "COMPLETED" ELSE door
Load(c) ==
    /\ req[c].op = "load"
    /\ LET t == req[c].truck
           o == truck[t].order
       IN  /\ plan' = Written(o, req[c].body,
                        LAMBDA row, q : [row EXCEPT !.loaded = q, !.status = "LOADED"])
           /\ order' = [order EXCEPT ![o] = "SHIPPED"]
           /\ truck' = [truck EXCEPT ![t].status = "LOADED", ![t].door = Released(@)]
           /\ issues' = [issues EXCEPT ![t] = Append(@, req[c].body)]
    /\ Answered(c)

(* POST /trailers/{id}/depart.                                             *)
Depart(c) ==
    /\ req[c].op = "depart"
    /\ truck' = [truck EXCEPT ![req[c].truck].status = "DEPARTED"]
    /\ Answered(c)
    /\ UNCHANGED <<order, plan, issues>>

(* POST /trailers/{id}/deliver.                                            *)
Deliver(c) ==
    /\ req[c].op = "deliver"
    /\ LET t == req[c].truck
       IN  /\ truck' = [truck EXCEPT ![t].status = "DELIVERED"]
           /\ order' = [order EXCEPT ![truck[t].order] = "DELIVERED"]
    /\ Answered(c)
    /\ UNCHANGED <<plan, issues>>

(* The transaction is rolled back: a database or network error.            *)
Abort(c) ==
    /\ Busy(c)
    /\ Answered(c)
    /\ UNCHANGED tables

Ask(c) ==
    \/ \E o \in Order : AskDispatch(c, o) \/ \E body \in Body : AskStage(c, o, body)
    \/ \E t \in Truck : \/ AskArrive(c, t) \/ AskDock(c, t)
                        \/ AskDepart(c, t) \/ AskDeliver(c, t)
                        \/ \E body \in Body : AskLoad(c, t, body)
Answer(c) == \/ Stage(c) \/ Dispatch(c) \/ Arrive(c) \/ Dock(c) \/ Load(c)
             \/ Depart(c) \/ Deliver(c)

Next ==
    \/ \E o \in Order : CreateOrder(o)
    \/ \E t \in Truck : AssignDoor(t)
    \/ \E c \in Client : Ask(c) \/ Answer(c) \/ Abort(c)

Spec == Init /\ [][Next]_outboundVars

-----------------------------------------------------------------------------
(* An order is collected by one truck, ever, and its status, which four    *)
(* endpoints write and two read, tells where that truck is: dispatch_order *)
(* refuses an order that has a live shipment (outbound.py:352-364) and one *)
(* that is no longer STAGED, and docking, loading, delivery and a second   *)
(* staging keep the status such that no third way is left (288-293,        *)
(* 520-523, 604-607) - as long as no requests overlap.                     *)
StatusFor == [status \in TruckStatus |->
    CASE status \in {"EN_ROUTE", "ARRIVED"} -> "STAGED"
      [] status = "DOCKED" -> "LOADING"
      [] status \in {"LOADED", "DEPARTED"} -> "SHIPPED"
      [] status = "DELIVERED" -> "DELIVERED"]
OrderFollowsTruck ==
    overlaps = 0 => \A o \in Order :
        /\ \A t, u \in Trucks(o) : t = u
        /\ \A t \in Trucks(o) : order[o] = StatusFor[truck[t].status]
        /\ order[o] \in {"LOADING", "SHIPPED", "DELIVERED"} => Trucks(o) # {}

(* A truck has one goods issue, and what it says left is what the order's  *)
(* plan says was loaded, which is no more than was staged: nobody restages *)
(* under a loaded truck (outbound.py:493-523, "you cannot load goods       *)
(* nobody picked").                                                        *)
IssuedIsLoaded ==
    overlaps = 0 => \A t \in Truck : issues[t] # <<>> =>
        /\ Len(issues[t]) = 1
        /\ \A l \in DOMAIN issues[t][1] :
             LET row == plan[truck[t].order][l]
             IN  /\ row.status = "LOADED" /\ row.loaded <= row.staged
                 /\ issues[t][1][l] = row.loaded

(* However requests overlap, no truck clears the gate or reaches the       *)
(* customer without a goods issue (outbound.py:537, yard_api/main.py:534). *)
NothingLeavesUnissued ==
    \A t \in Truck : At(t, {"LOADED", "DEPARTED", "DELIVERED"}) => issues[t] # <<>>
=============================================================================
