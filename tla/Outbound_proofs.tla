-------------------------- MODULE Outbound_proofs --------------------------
(***************************************************************************)
(* Proofs about Outbound, for any orders, lines, quantities, trucks and    *)
(* clients.  Two inductive invariants: Issued, which needs no assumption   *)
(* on how requests overlap, and InOrder, which says what is true as long   *)
(* as they have not: one request is open at most, what it checked still    *)
(* holds, and orders, plans, trucks and issues agree.                      *)
(***************************************************************************)
EXTENDS Outbound, TLAPS

TruckOp == {"load", "arrive", "dock", "depart", "deliver"}

TypeInv ==
    /\ order \in [Order -> OrderStatus]
    /\ plan \in [Order -> [Line -> PlanLine]]
    /\ truck \in [Truck -> TruckRow \cup {Unused}]
    /\ issues \in [Truck -> Seq(Body)]
    /\ req \in [Client -> Request \cup {NoRequest}]
    /\ overlaps \in Nat
    /\ \A c \in Client : req[c].op \in TruckOp => truck[req[c].truck] # Unused

Issued ==
    /\ NothingLeavesUnissued
    /\ \A c \in Client : req[c].op \in {"depart", "deliver"} => issues[req[c].truck] # <<>>

(* What a request has checked, as long as nobody else writes.              *)
Holds(r) ==
    /\ r.op = "stage" => MayStage(r.order) /\ r.status = StatusAfter(r.order, r.body)
    /\ r.op = "dispatch" => order[r.order] = "STAGED" /\ Trucks(r.order) = {}
    /\ r.op = "arrive" => At(r.truck, {"EN_ROUTE"})
    /\ r.op = "dock" => At(r.truck, {"ARRIVED"})
    /\ r.op = "load" => /\ At(r.truck, {"ARRIVED", "DOCKED"})
                        /\ \A l \in DOMAIN r.body : r.body[l] <= AllStaged(r.truck)[l]
    /\ r.op = "depart" => At(r.truck, {"LOADED"})
    /\ r.op = "deliver" => At(r.truck, {"DEPARTED"})

OrderInOrder(o) ==
    /\ \A t, u \in Trucks(o) : t = u
    /\ \A t \in Trucks(o) : order[o] = StatusFor[truck[t].status]
    /\ order[o] \in {"LOADING", "SHIPPED", "DELIVERED"} => Trucks(o) # {}
    /\ order[o] = "STAGED" => \A l \in Line : plan[o][l].status \in {"STAGED", "SHORT"}

TruckInOrder(t) ==
    issues[t] # <<>> =>
        /\ At(t, {"LOADED", "DEPARTED", "DELIVERED"})
        /\ Len(issues[t]) = 1
        /\ \A l \in DOMAIN issues[t][1] :
             LET row == plan[truck[t].order][l]
             IN  /\ row.status = "LOADED" /\ row.loaded <= row.staged
                 /\ issues[t][1][l] = row.loaded

InOrder ==
    overlaps = 0 =>
        /\ \A c, d \in Client : Busy(c) /\ Busy(d) => c = d
        /\ \A c \in Client : Holds(req[c])
        /\ \A o \in Order : OrderInOrder(o)
        /\ \A t \in Truck : TruckInOrder(t)

IInv == TypeInv /\ Issued /\ InOrder

-----------------------------------------------------------------------------
(* Types.                                                                  *)

LEMMA UnusedIsNoRow == Unused \notin TruckRow
<1>1. ASSUME Unused \in TruckRow PROVE FALSE
  <2>1. PICK row \in TruckRow : row = Unused
    BY <1>1
  <2>2. row.status \in TruckStatus /\ Unused.status = "NONE"
    BY DEF TruckRow, Unused
  <2> QED
    BY <2>1, <2>2 DEF TruckStatus
<1> QED
  BY <1>1

LEMMA InUse ==
  ASSUME TypeInv, NEW t \in Truck, NEW S \in SUBSET TruckStatus, At(t, S)
  PROVE  truck[t] # Unused /\ truck[t] \in TruckRow
<1>1. truck[t].status # Unused.status
  BY DEF At, TruckStatus, Unused
<1> QED
  BY <1>1 DEF TypeInv

LEMMA RowMoved ==
  ASSUME NEW row \in TruckRow, NEW s \in TruckStatus,
         NEW d \in {"NONE", "ASSIGNED", "CONFIRMED", "COMPLETED"}
  PROVE  /\ [row EXCEPT !.status = s] \in TruckRow
         /\ [row EXCEPT !.door = d] \in TruckRow
         /\ [row EXCEPT !.status = s, !.door = d] \in TruckRow
  BY DEF TruckRow

(* The types of the fields of a request, by its operation.                 *)
LEMMA RequestFields ==
  ASSUME NEW r \in Request \cup {NoRequest}
  PROVE  /\ r.op = "stage" => /\ r.order \in Order /\ r.body \in Body
                              /\ r.status \in {"PLANNED", "STAGED"}
         /\ r.op = "dispatch" => r.order \in Order
         /\ r.op \in TruckOp => r.truck \in Truck
         /\ r.op = "load" => r.body \in Body
  BY DEF Request, NoRequest, TruckOp

LEMMA BodyLines ==
  ASSUME NEW b \in Body
  PROVE  DOMAIN b \subseteq Line /\ \A l \in DOMAIN b : b[l] \in 0 .. MaxPick
  BY DEF Body

LEMMA TypeInit == Init => TypeInv
<1> SUFFICES ASSUME Init PROVE TypeInv
  OBVIOUS
<1>1. [staged |-> 0, loaded |-> 0, status |-> "PLANNED"] \in PlanLine
  BY OutboundAssumption DEF PlanLine
<1>2. \A c \in Client : req[c].op = "none"
  BY DEF Init, NoRequest
<1> QED
  BY <1>1, <1>2 DEF Init, TypeInv, OrderStatus, TruckOp

(* A request is opened: nothing but req and overlaps changes.              *)
LEMMA TypeOpen ==
  ASSUME TypeInv, NEW c \in Client, NEW r \in Request, Open(c, r),
         r.op \in TruckOp => truck[r.truck] # Unused
  PROVE  TypeInv'
<1>1. overlaps' \in Nat
  BY DEF Open, TypeInv
<1>2. req' \in [Client -> Request \cup {NoRequest}]
  BY DEF Open, TypeInv
<1>3. \A d \in Client : req'[d].op \in TruckOp => truck[req'[d].truck] # Unused
  BY DEF Open, TypeInv
<1> QED
  BY <1>1, <1>2, <1>3 DEF Open, TypeInv, tables

LEMMA TypeAsk == ASSUME TypeInv, NEW c \in Client, Ask(c) PROVE TypeInv'
<1>1. ASSUME NEW o \in Order, NEW body \in Body, AskStage(c, o, body) PROVE TypeInv'
  <2> DEFINE r == [op |-> "stage", order |-> o, body |-> body,
                   status |-> StatusAfter(o, body)]
  <2>1. r \in Request /\ r.op \notin TruckOp
    BY DEF Request, StatusAfter, TruckOp
  <2> QED
    BY <1>1, <2>1, TypeOpen DEF AskStage
<1>2. ASSUME NEW o \in Order, AskDispatch(c, o) PROVE TypeInv'
  <2> DEFINE r == [op |-> "dispatch", order |-> o]
  <2>1. r \in Request /\ r.op \notin TruckOp
    BY DEF Request, TruckOp
  <2> QED
    BY <1>2, <2>1, TypeOpen DEF AskDispatch
<1>3. ASSUME NEW t \in Truck, NEW body \in Body, AskLoad(c, t, body) PROVE TypeInv'
  <2> DEFINE r == [op |-> "load", truck |-> t, body |-> body]
  <2>1. r \in Request /\ r.truck = t
    BY DEF Request
  <2>2. truck[t] # Unused
    BY <1>3, InUse DEF AskLoad, MayLoad, TruckStatus
  <2> QED
    BY <1>3, <2>1, <2>2, TypeOpen DEF AskLoad
<1>4. ASSUME NEW t \in Truck, NEW op \in {"arrive", "dock", "depart", "deliver"},
             Open(c, [op |-> op, truck |-> t]), truck[t] # Unused
      PROVE  TypeInv'
  <2> DEFINE r == [op |-> op, truck |-> t]
  <2>1. r \in Request /\ r.truck = t
    BY DEF Request
  <2> QED
    BY <1>4, <2>1, TypeOpen
<1>5. ASSUME NEW t \in Truck, AskArrive(c, t) PROVE TypeInv'
  BY <1>4, <1>5, InUse DEF AskArrive, MayArrive, TruckStatus
<1>6. ASSUME NEW t \in Truck, AskDock(c, t) PROVE TypeInv'
  BY <1>4, <1>6, InUse DEF AskDock, MayDock, TruckStatus
<1>7. ASSUME NEW t \in Truck, AskDepart(c, t) PROVE TypeInv'
  BY <1>4, <1>7, InUse DEF AskDepart, MayDepart, TruckStatus
<1>8. ASSUME NEW t \in Truck, AskDeliver(c, t) PROVE TypeInv'
  BY <1>4, <1>8, InUse DEF AskDeliver, MayDeliver, TruckStatus
<1> QED
  BY <1>1, <1>2, <1>3, <1>5, <1>6, <1>7, <1>8 DEF Ask

(* A client is answered: its request is gone, and no other changes.        *)
LEMMA TypeAnswered ==
  ASSUME TypeInv, NEW c \in Client, Answered(c),
         \A t \in Truck : truck[t] # Unused => truck'[t] # Unused
  PROVE  /\ req' \in [Client -> Request \cup {NoRequest}]
         /\ overlaps' \in Nat
         /\ \A d \in Client : req'[d].op \in TruckOp => truck'[req'[d].truck] # Unused
<1>1. req' \in [Client -> Request \cup {NoRequest}] /\ overlaps' \in Nat
  BY DEF Answered, TypeInv
<1>2. NoRequest.op \notin TruckOp
  BY DEF NoRequest, TruckOp
<1>3. ASSUME NEW d \in Client, req'[d].op \in TruckOp
      PROVE  truck'[req'[d].truck] # Unused
  <2>1. d # c /\ req'[d] = req[d]
    BY <1>2, <1>3 DEF Answered, TypeInv
  <2>2. req[d].truck \in Truck
    BY <1>3, <2>1, RequestFields DEF TypeInv
  <2> QED
    BY <1>3, <2>1, <2>2 DEF TypeInv
<1> QED
  BY <1>1, <1>3

(* One truck's row is changed, and stays a row.                            *)
LEMMA TypeMoved ==
  ASSUME TypeInv, NEW t \in Truck, NEW row \in TruckRow,
         truck' = [truck EXCEPT ![t] = row]
  PROVE  /\ truck' \in [Truck -> TruckRow \cup {Unused}]
         /\ \A u \in Truck : truck[u] # Unused => truck'[u] # Unused
  BY UnusedIsNoRow DEF TypeInv

(* The plan after a body is written over the lines it names.               *)
LEMMA TypeWritten ==
  ASSUME TypeInv, NEW o \in Order, NEW rows \in [Line -> PlanLine]
  PROVE  [plan EXCEPT ![o] = rows] \in [Order -> [Line -> PlanLine]]
  BY DEF TypeInv

LEMMA TypeStage ==
  ASSUME TypeInv, NEW c \in Client, Stage(c)
  PROVE  TypeInv'
<1> DEFINE r == req[c]
           rows == [l \in Line |-> IF l \in DOMAIN r.body
                      THEN [plan[r.order][l] EXCEPT !.staged = r.body[l],
                                                    !.status = Picked(r.body[l])]
                      ELSE plan[r.order][l]]
<1>1. r.order \in Order /\ r.body \in Body /\ r.status \in {"PLANNED", "STAGED"}
  BY RequestFields DEF Stage, TypeInv
<1>2. rows \in [Line -> PlanLine]
  <2>1. ASSUME NEW l \in Line, l \in DOMAIN r.body PROVE rows[l] \in PlanLine
    <3>1. r.body[l] \in 0 .. MaxPick /\ plan[r.order][l] \in PlanLine
      BY <1>1, <2>1, BodyLines DEF TypeInv
    <3> QED
      BY <2>1, <3>1 DEF PlanLine, Picked
  <2>2. ASSUME NEW l \in Line, l \notin DOMAIN r.body PROVE rows[l] \in PlanLine
    BY <1>1, <2>2 DEF TypeInv
  <2> QED
    BY <2>1, <2>2
<1>3. plan' \in [Order -> [Line -> PlanLine]]
  <2>1. plan' = [plan EXCEPT ![r.order] = rows]
    BY DEF Stage, Written
  <2> HIDE DEF rows
  <2> QED
    BY <1>1, <1>2, <2>1, TypeWritten
<1>4. order' \in [Order -> OrderStatus]
  BY <1>1 DEF Stage, TypeInv, OrderStatus
<1>5. truck' = truck /\ issues' = issues /\ Answered(c)
  BY DEF Stage
<1> QED
  BY <1>3, <1>4, <1>5, TypeAnswered DEF TypeInv

LEMMA TypeDispatch ==
  ASSUME TypeInv, NEW c \in Client, Dispatch(c)
  PROVE  TypeInv'
<1>1. PICK t \in Truck :
        truck' = [truck EXCEPT ![t] = [order |-> req[c].order, status |-> "EN_ROUTE",
                                       door |-> "NONE"]]
  BY DEF Dispatch
<1>2. [order |-> req[c].order, status |-> "EN_ROUTE", door |-> "NONE"] \in TruckRow
  BY RequestFields DEF Dispatch, TypeInv, TruckRow, TruckStatus
<1>3. order' = order /\ plan' = plan /\ issues' = issues /\ Answered(c)
  BY DEF Dispatch
<1> QED
  BY <1>1, <1>2, <1>3, TypeMoved, TypeAnswered DEF TypeInv

(* A request about a truck that moves it, and perhaps the order it is for. *)
LEMMA TypeTruckMove ==
  ASSUME TypeInv, NEW c \in Client, req[c].op \in TruckOp, Answered(c),
         NEW s \in TruckStatus,
         NEW d \in {"NONE", "ASSIGNED", "CONFIRMED", "COMPLETED"},
         \/ truck' = [truck EXCEPT ![req[c].truck].status = s]
         \/ truck' = [truck EXCEPT ![req[c].truck].status = s, ![req[c].truck].door = d],
         order' \in [Order -> OrderStatus],
         plan' \in [Order -> [Line -> PlanLine]],
         issues' \in [Truck -> Seq(Body)]
  PROVE  TypeInv'
<1> DEFINE t == req[c].truck
<1>1. t \in Truck /\ truck[t] \in TruckRow
  BY RequestFields DEF TypeInv
<1>2. \E row \in TruckRow : truck' = [truck EXCEPT ![t] = row]
  <2>1. CASE truck' = [truck EXCEPT ![t].status = s]
    <3>1. [truck[t] EXCEPT !.status = s] \in TruckRow
      BY <1>1, RowMoved
    <3> QED
      BY <1>1, <2>1, <3>1
  <2>2. CASE truck' = [truck EXCEPT ![t].status = s, ![t].door = d]
    <3>1. [truck[t] EXCEPT !.status = s, !.door = d] \in TruckRow
      BY <1>1, RowMoved
    <3>2. truck' = [truck EXCEPT ![t] = [truck[t] EXCEPT !.status = s, !.door = d]]
      BY <1>1, <2>2 DEF TypeInv
    <3> QED
      BY <3>1, <3>2
  <2> QED
    BY <2>1, <2>2
<1>3. /\ truck' \in [Truck -> TruckRow \cup {Unused}]
      /\ \A u \in Truck : truck[u] # Unused => truck'[u] # Unused
  BY <1>1, <1>2, TypeMoved
<1> QED
  BY <1>3, TypeAnswered DEF TypeInv

(* The truck of a request, and the order it collects.                      *)
LEMMA TruckOfRequest ==
  ASSUME TypeInv, NEW c \in Client, req[c].op \in TruckOp
  PROVE  /\ req[c].truck \in Truck
         /\ truck[req[c].truck] \in TruckRow
         /\ truck[req[c].truck].order \in Order
<1>1. req[c].truck \in Truck /\ truck[req[c].truck] \in TruckRow
  BY RequestFields DEF TypeInv
<1> QED
  BY <1>1 DEF TruckRow

LEMMA TypeDock == ASSUME TypeInv, NEW c \in Client, Dock(c) PROVE TypeInv'
<1>1. req[c].op \in TruckOp
  BY DEF Dock, TruckOp
<1>2. order' \in [Order -> OrderStatus]
  BY <1>1, TruckOfRequest DEF Dock, TypeInv, OrderStatus
<1>3. /\ truck' = [truck EXCEPT ![req[c].truck].status = "DOCKED",
                                ![req[c].truck].door = "CONFIRMED"]
      /\ plan' = plan /\ issues' = issues /\ Answered(c)
  BY DEF Dock
<1>4. plan' \in [Order -> [Line -> PlanLine]] /\ issues' \in [Truck -> Seq(Body)]
  BY <1>3 DEF TypeInv
<1>5. "DOCKED" \in TruckStatus
  BY DEF TruckStatus
<1> QED
  BY <1>1, <1>2, <1>3, <1>4, <1>5, TypeTruckMove

LEMMA TypeLoad == ASSUME TypeInv, NEW c \in Client, Load(c) PROVE TypeInv'
<1> DEFINE t == req[c].truck
           o == truck[t].order
           b == req[c].body
           rows == [l \in Line |-> IF l \in DOMAIN b
                      THEN [plan[o][l] EXCEPT !.loaded = b[l], !.status = "LOADED"]
                      ELSE plan[o][l]]
<1>1. req[c].op \in TruckOp /\ b \in Body
  BY RequestFields DEF Load, TypeInv, TruckOp
<1>2. t \in Truck /\ truck[t] \in TruckRow /\ o \in Order
  BY <1>1, TruckOfRequest
<1>3. rows \in [Line -> PlanLine]
  <2>1. ASSUME NEW l \in Line, l \in DOMAIN b PROVE rows[l] \in PlanLine
    <3>1. b[l] \in 0 .. MaxPick /\ plan[o][l] \in PlanLine
      BY <1>1, <1>2, <2>1, BodyLines DEF TypeInv
    <3> QED
      BY <2>1, <3>1 DEF PlanLine
  <2>2. ASSUME NEW l \in Line, l \notin DOMAIN b PROVE rows[l] \in PlanLine
    BY <1>2, <2>2 DEF TypeInv
  <2> QED
    BY <2>1, <2>2
<1>4. plan' \in [Order -> [Line -> PlanLine]]
  <2>1. plan' = [plan EXCEPT ![o] = rows]
    BY DEF Load, Written
  <2> HIDE DEF rows
  <2> QED
    BY <1>2, <1>3, <2>1, TypeWritten
<1>5. order' \in [Order -> OrderStatus] /\ issues' \in [Truck -> Seq(Body)]
  <2>1. order' = [order EXCEPT ![o] = "SHIPPED"] /\ issues' = [issues EXCEPT ![t] = Append(@, b)]
    BY DEF Load
  <2>2. Append(issues[t], b) \in Seq(Body)
    BY <1>1, <1>2 DEF TypeInv
  <2> QED
    BY <2>1, <2>2 DEF TypeInv, OrderStatus
<1>6. truck[t].door \in {"NONE", "ASSIGNED", "CONFIRMED", "COMPLETED"}
  BY <1>2 DEF TruckRow
<1>7. Released(truck[t].door) \in {"NONE", "ASSIGNED", "CONFIRMED", "COMPLETED"}
  BY <1>6 DEF Released
<1>8. truck' = [truck EXCEPT ![t].status = "LOADED", ![t].door = Released(truck[t].door)]
  BY <1>2 DEF Load, TypeInv
<1>9. "LOADED" \in TruckStatus /\ Answered(c)
  BY DEF TruckStatus, Load
<1> QED
  BY <1>1, <1>4, <1>5, <1>7, <1>8, <1>9, TypeTruckMove

LEMMA TypeAnswer == ASSUME TypeInv, NEW c \in Client, Answer(c) PROVE TypeInv'
<1>1. CASE Arrive(c)
  <2>1. req[c].op \in TruckOp /\ "ARRIVED" \in TruckStatus
    BY <1>1 DEF Arrive, TruckOp, TruckStatus
  <2> QED
    BY <1>1, <2>1, TypeTruckMove DEF Arrive, TypeInv
<1>2. CASE Depart(c)
  <2>1. req[c].op \in TruckOp /\ "DEPARTED" \in TruckStatus
    BY <1>2 DEF Depart, TruckOp, TruckStatus
  <2> QED
    BY <1>2, <2>1, TypeTruckMove DEF Depart, TypeInv
<1>3. CASE Deliver(c)
  <2>1. req[c].op \in TruckOp /\ "DELIVERED" \in TruckStatus
    BY <1>3 DEF Deliver, TruckOp, TruckStatus
  <2>2. order' \in [Order -> OrderStatus]
    BY <1>3, <2>1, TruckOfRequest DEF Deliver, TypeInv, OrderStatus
  <2> QED
    BY <1>3, <2>1, <2>2, TypeTruckMove DEF Deliver, TypeInv
<1> QED
  BY <1>1, <1>2, <1>3, TypeStage, TypeDispatch, TypeDock, TypeLoad DEF Answer

LEMMA TypeAssignDoor == ASSUME TypeInv, NEW t \in Truck, AssignDoor(t) PROVE TypeInv'
<1>1. truck[t] \in TruckRow
  BY InUse DEF AssignDoor, TruckStatus
<1>2. \E row \in TruckRow : truck' = [truck EXCEPT ![t] = row]
  <2>1. [truck[t] EXCEPT !.door = "ASSIGNED"] \in TruckRow
    BY <1>1 DEF TruckRow
  <2> QED
    BY <2>1 DEF AssignDoor
<1>3. /\ truck' \in [Truck -> TruckRow \cup {Unused}]
      /\ \A u \in Truck : truck[u] # Unused => truck'[u] # Unused
  BY <1>2, TypeMoved
<1>4. \A d \in Client : req[d].op \in TruckOp => truck'[req[d].truck] # Unused
  BY <1>3, TruckOfRequest DEF TypeInv
<1> QED
  BY <1>3, <1>4 DEF TypeInv, AssignDoor

LEMMA TypeNext == TypeInv /\ [Next]_outboundVars => TypeInv'
<1> SUFFICES ASSUME TypeInv, [Next]_outboundVars PROVE TypeInv'
  OBVIOUS
<1>1. ASSUME NEW o \in Order, CreateOrder(o) PROVE TypeInv'
  BY <1>1 DEF CreateOrder, TypeInv, OrderStatus
<1>2. ASSUME NEW c \in Client, Abort(c) PROVE TypeInv'
  BY <1>2, TypeAnswered DEF Abort, tables, TypeInv
<1>3. CASE UNCHANGED outboundVars
  BY <1>3 DEF TypeInv, outboundVars, tables
<1> QED
  BY <1>1, <1>2, <1>3, TypeAssignDoor, TypeAsk, TypeAnswer DEF Next

-----------------------------------------------------------------------------
(* Issued: a goods issue comes before the gate, however requests overlap.  *)

LEMMA IssuedInit == Init => Issued
<1> SUFFICES ASSUME Init PROVE Issued
  OBVIOUS
<1>1. \A t \in Truck : ~At(t, {"LOADED", "DEPARTED", "DELIVERED"})
  BY DEF Init, At, Unused
<1>2. \A c \in Client : req[c].op = "none"
  BY DEF Init, NoRequest
<1> QED
  BY <1>1, <1>2 DEF Issued, NothingLeavesUnissued

(* A client is answered, no issue is removed, and a truck that is now past *)
(* its loading was so before or has an issue.                              *)
LEMMA IssuedStep ==
  ASSUME TypeInv, Issued,
         \A c \in Client : \/ req'[c] = req[c]
                           \/ req'[c].op \in {"depart", "deliver"} =>
                                issues[req'[c].truck] # <<>> /\ req'[c].truck \in Truck,
         \A t \in Truck : issues[t] # <<>> => issues'[t] # <<>>,
         \A t \in Truck : At(t, {"LOADED", "DEPARTED", "DELIVERED"})' =>
             At(t, {"LOADED", "DEPARTED", "DELIVERED"}) \/ issues'[t] # <<>>
  PROVE  Issued'
<1>1. \A t \in Truck : At(t, {"LOADED", "DEPARTED", "DELIVERED"})' => issues'[t] # <<>>
  BY DEF Issued, NothingLeavesUnissued
<1>2. ASSUME NEW c \in Client, req'[c].op \in {"depart", "deliver"}
      PROVE  issues'[req'[c].truck] # <<>>
  <2>1. CASE req'[c] = req[c]
    <3>1. req[c].truck \in Truck
      BY <1>2, <2>1, RequestFields DEF TypeInv, TruckOp
    <3> QED
      BY <1>2, <2>1, <3>1 DEF Issued
  <2>2. CASE req'[c] # req[c]
    BY <1>2, <2>2
  <2> QED
    BY <2>1, <2>2
<1> QED
  BY <1>1, <1>2 DEF Issued, NothingLeavesUnissued

LEMMA Appended ==
  ASSUME NEW S, NEW s \in Seq(S), NEW x \in S
  PROVE  /\ Append(s, x) # <<>>
         /\ s = <<>> => Len(Append(s, x)) = 1 /\ Append(s, x)[1] = x
<1>1. Len(Append(s, x)) = Len(s) + 1 /\ Len(s) \in Nat
  OBVIOUS
<1>2. s = <<>> => Append(s, x) = <<x>>
  OBVIOUS
<1>3. Len(<<>>) = 0
  OBVIOUS
<1>4. Append(s, x) # <<>>
  BY <1>1, <1>3
<1> QED
  BY <1>2, <1>4

LEMMA AnsweredRequests ==
  ASSUME TypeInv, NEW c \in Client, Answered(c), NEW d \in Client
  PROVE  req'[d] = IF d = c THEN NoRequest ELSE req[d]
  BY DEF Answered, TypeInv

LEMMA IssuedAnswer ==
  ASSUME TypeInv, Issued, NEW c \in Client, Answer(c) \/ Abort(c)
  PROVE  Issued'
<1> DEFINE Past(t) == At(t, {"LOADED", "DEPARTED", "DELIVERED"})
<1>1. Answered(c)
  BY DEF Answer, Abort, Stage, Dispatch, Arrive, Dock, Load, Depart, Deliver
<1>2. \A d \in Client : req'[d] = req[d] \/ req'[d].op \notin {"depart", "deliver"}
  BY <1>1, AnsweredRequests DEF NoRequest
<1>3. CASE issues' = issues /\ truck' = truck
  BY <1>2, <1>3, IssuedStep DEF At
<1>4. CASE Dispatch(c)
  <2>1. \A t \in Truck : Past(t)' => Past(t)
    <3>1. PICK u \in Truck :
            truck' = [truck EXCEPT ![u] = [order |-> req[c].order, status |-> "EN_ROUTE",
                                           door |-> "NONE"]]
      BY <1>4 DEF Dispatch
    <3> QED
      BY <3>1 DEF At, TypeInv
  <2> QED
    BY <1>2, <1>4, <2>1, IssuedStep DEF Dispatch
<1>5. ASSUME NEW t \in Truck, truck[t] \in TruckRow, NEW s \in TruckStatus,
             \/ truck' = [truck EXCEPT ![t].status = s]
             \/ \E d : truck' = [truck EXCEPT ![t].status = s, ![t].door = d],
             NEW u \in Truck, Past(u)'
      PROVE  Past(u) \/ (u = t /\ s \in {"LOADED", "DEPARTED", "DELIVERED"})
  <2>1. CASE u # t
    BY <1>5, <2>1 DEF At, TypeInv
  <2>2. CASE u = t
    <3>1. truck'[t].status = s
      BY <1>5 DEF TypeInv, TruckRow
    <3> QED
      BY <1>5, <2>2, <3>1 DEF At
  <2> QED
    BY <2>1, <2>2
<1>6. req[c].op \in TruckOp => req[c].truck \in Truck /\ truck[req[c].truck] \in TruckRow
  BY TruckOfRequest
<1>7. CASE Arrive(c)
  <2>1. \A u \in Truck : Past(u)' => Past(u)
    BY <1>5, <1>6, <1>7 DEF Arrive, TruckOp, TruckStatus
  <2> QED
    BY <1>2, <1>7, <2>1, IssuedStep DEF Arrive
<1>8. CASE Dock(c)
  <2>1. \A u \in Truck : Past(u)' => Past(u)
    BY <1>5, <1>6, <1>8 DEF Dock, TruckOp, TruckStatus
  <2> QED
    BY <1>2, <1>8, <2>1, IssuedStep DEF Dock
<1>9. CASE Load(c)
  <2> DEFINE t == req[c].truck
             b == req[c].body
  <2>1. t \in Truck /\ truck[t] \in TruckRow /\ b \in Body
    BY <1>6, <1>9, RequestFields DEF Load, TruckOp, TypeInv
  <2>2. Append(issues[t], b) # <<>>
    <3>1. issues[t] \in Seq(Body)
      BY <2>1 DEF TypeInv
    <3> QED
      BY <2>1, <3>1, Appended
  <2>3. issues' = [issues EXCEPT ![t] = Append(@, b)]
    BY <1>9 DEF Load
  <2>4. /\ \A u \in Truck : issues[u] # <<>> => issues'[u] # <<>>
        /\ issues'[t] # <<>>
    BY <2>1, <2>2, <2>3 DEF TypeInv
  <2>5. \E d : truck' = [truck EXCEPT ![t].status = "LOADED", ![t].door = d]
    <3>1. truck' = [truck EXCEPT ![t].status = "LOADED", ![t].door = Released(truck[t].door)]
      BY <1>9, <2>1 DEF Load, TypeInv
    <3> QED
      BY <3>1
  <2>6. \A u \in Truck : Past(u)' => Past(u) \/ u = t
    BY <1>5, <2>1, <2>5 DEF TruckStatus
  <2> QED
    BY <1>2, <2>4, <2>6, IssuedStep
<1>10. CASE Depart(c)
  <2>1. issues[req[c].truck] # <<>> /\ req[c].truck \in Truck
    BY <1>6, <1>10 DEF Depart, Issued, TruckOp
  <2>2. \A u \in Truck : Past(u)' => Past(u) \/ u = req[c].truck
    BY <1>5, <1>6, <1>10 DEF Depart, TruckOp, TruckStatus
  <2> QED
    BY <1>2, <1>10, <2>1, <2>2, IssuedStep DEF Depart
<1>11. CASE Deliver(c)
  <2>1. issues[req[c].truck] # <<>> /\ req[c].truck \in Truck
    BY <1>6, <1>11 DEF Deliver, Issued, TruckOp
  <2>2. \A u \in Truck : Past(u)' => Past(u) \/ u = req[c].truck
    BY <1>5, <1>6, <1>11 DEF Deliver, TruckOp, TruckStatus
  <2> QED
    BY <1>2, <1>11, <2>1, <2>2, IssuedStep DEF Deliver
<1> QED
  BY <1>3, <1>4, <1>7, <1>8, <1>9, <1>10, <1>11 DEF Answer, Abort, Stage, tables

LEMMA IssuedAsk ==
  ASSUME TypeInv, Issued, NEW c \in Client, Ask(c)
  PROVE  Issued'
<1>1. /\ UNCHANGED tables
      /\ \A d \in Client : d # c => req'[d] = req[d]
  BY DEF Ask, AskStage, AskDispatch, AskArrive, AskDock, AskLoad, AskDepart, AskDeliver,
         Open, TypeInv
<1>2. req'[c].op \in {"depart", "deliver"} =>
        issues[req'[c].truck] # <<>> /\ req'[c].truck \in Truck
  <2>1. ASSUME NEW t \in Truck, AskDepart(c, t) \/ AskDeliver(c, t)
        PROVE  issues[t] # <<>> /\ req'[c].truck = t
    <3>1. issues[t] # <<>>
      BY <2>1 DEF AskDepart, MayDepart, AskDeliver, MayDeliver, At, Issued,
                  NothingLeavesUnissued
    <3>2. req'[c].truck = t
      BY <2>1 DEF AskDepart, AskDeliver, Open, TypeInv
    <3> QED
      BY <3>1, <3>2
  <2>2. ASSUME NEW o \in Order,
               AskDispatch(c, o) \/ \E body \in Body : AskStage(c, o, body)
        PROVE  req'[c].op \notin {"depart", "deliver"}
    BY <2>2 DEF AskDispatch, AskStage, Open, TypeInv
  <2>3. ASSUME NEW t \in Truck,
               AskArrive(c, t) \/ AskDock(c, t) \/ \E body \in Body : AskLoad(c, t, body)
        PROVE  req'[c].op \notin {"depart", "deliver"}
    BY <2>3 DEF AskArrive, AskDock, AskLoad, Open, TypeInv
  <2> QED
    BY <2>1, <2>2, <2>3 DEF Ask
<1> QED
  BY <1>1, <1>2, IssuedStep DEF tables, At

LEMMA IssuedNext == TypeInv /\ Issued /\ [Next]_outboundVars => Issued'
<1> SUFFICES ASSUME TypeInv, Issued, [Next]_outboundVars PROVE Issued'
  OBVIOUS
<1>1. ASSUME NEW o \in Order, CreateOrder(o) PROVE Issued'
  BY <1>1, IssuedStep DEF CreateOrder, At
<1>2. ASSUME NEW t \in Truck, AssignDoor(t) PROVE Issued'
  <2>1. \A u \in Truck : At(u, {"LOADED", "DEPARTED", "DELIVERED"})' =>
                            At(u, {"LOADED", "DEPARTED", "DELIVERED"})
    BY <1>2, InUse DEF AssignDoor, At, TypeInv, TruckRow, TruckStatus
  <2> QED
    BY <1>2, <2>1, IssuedStep DEF AssignDoor
<1>3. CASE UNCHANGED outboundVars
  BY <1>3, IssuedStep DEF outboundVars, tables, At
<1> QED
  BY <1>1, <1>2, <1>3, IssuedAnswer, IssuedAsk DEF Next

(* Nothing leaves the gate without a goods issue, for any number of        *)
(* clients whose requests overlap as they like.                            *)
THEOREM LoadedBeforeLeaving == Spec => []NothingLeavesUnissued
<1>1. Init => TypeInv /\ Issued
  BY TypeInit, IssuedInit
<1>2. TypeInv /\ Issued /\ [Next]_outboundVars => TypeInv' /\ Issued'
  BY TypeNext, IssuedNext
<1>3. Issued => NothingLeavesUnissued
  BY DEF Issued
<1> QED
  BY <1>1, <1>2, <1>3, PTL DEF Spec

-----------------------------------------------------------------------------
(* InOrder: what holds as long as requests have not overlapped.            *)

AllInOrder == /\ \A o \in Order : OrderInOrder(o)
              /\ \A t \in Truck : TruckInOrder(t)

LEMMA InOrderInit == Init => InOrder
<1> SUFFICES ASSUME Init PROVE InOrder
  OBVIOUS
<1>1. \A c \in Client : req[c] = NoRequest
  BY DEF Init
<1>2. \A c \in Client : Holds(req[c])
  BY <1>1 DEF Holds, NoRequest
<1>3. \A o \in Order : Trucks(o) = {} /\ order[o] = "NONE"
  BY DEF Init, Trucks
<1>4. \A o \in Order : OrderInOrder(o)
  BY <1>3 DEF OrderInOrder
<1>5. \A t \in Truck : TruckInOrder(t)
  BY DEF Init, TruckInOrder
<1> QED
  BY <1>1, <1>2, <1>4, <1>5 DEF InOrder, Busy

LEMMA SameTables ==
  ASSUME UNCHANGED tables
  PROVE  /\ AllInOrder => AllInOrder'
         /\ \A r : Holds(r) => Holds(r)'
<1>1. AllInOrder => AllInOrder'
  BY DEF AllInOrder, OrderInOrder, TruckInOrder, Trucks, At, tables
<1>2. \A r : Holds(r) => Holds(r)'
  BY DEF Holds, MayStage, StatusAfter, Resolved, Trucks, At, AllStaged, tables
<1> QED
  BY <1>1, <1>2

(* The one open request is answered: it is enough that the tables agree.   *)
LEMMA InOrderAnswered ==
  ASSUME TypeInv, InOrder, NEW c \in Client, Busy(c), Answered(c),
         overlaps = 0 => AllInOrder'
  PROVE  InOrder'
<1> SUFFICES ASSUME overlaps' = 0 PROVE InOrder'
  BY DEF InOrder
<1>1. overlaps = 0
  BY DEF Answered
<1>2. \A d \in Client : ~Busy(d)'
  BY <1>1, AnsweredRequests DEF InOrder, Busy
<1>3. ASSUME NEW d \in Client PROVE Holds(req[d])'
  BY <1>2 DEF Busy, Holds, NoRequest
<1>4. \A d, e \in Client : Busy(d)' /\ Busy(e)' => d = e
  BY <1>2
<1> QED
  BY <1>1, <1>3, <1>4 DEF InOrder, AllInOrder

(* The first request opens: it has just checked what Holds says.           *)
LEMMA InOrderOpen ==
  ASSUME TypeInv, InOrder, NEW c \in Client, NEW r, Open(c, r),
         overlaps = 0 => Holds(r)
  PROVE  InOrder'
<1> SUFFICES ASSUME overlaps' = 0 PROVE InOrder'
  BY DEF InOrder
<1>1. overlaps = 0 /\ \A d \in Client : ~Busy(d)
  BY DEF Open, TypeInv
<1>2. UNCHANGED tables /\ \A d \in Client : req'[d] = IF d = c THEN r ELSE NoRequest
  BY <1>1 DEF Open, TypeInv, Busy
<1>3. AllInOrder'
  BY <1>1, <1>2, SameTables DEF InOrder, AllInOrder
<1>4. Holds(NoRequest)'
  BY DEF Holds, NoRequest
<1>5. Holds(r)'
  BY <1>1, <1>2, SameTables
<1>6. ASSUME NEW d \in Client PROVE Holds(req[d])'
  <2>1. CASE d = c
    BY <1>2, <1>5, <2>1 DEF Holds
  <2>2. CASE d # c
    BY <1>2, <1>4, <2>2 DEF Holds
  <2> QED
    BY <2>1, <2>2
<1>7. \A d, e \in Client : Busy(d)' /\ Busy(e)' => d = e
  BY <1>2 DEF Busy
<1> QED
  BY <1>3, <1>6, <1>7 DEF InOrder, AllInOrder

LEMMA InOrderAsk ==
  ASSUME TypeInv, InOrder, NEW c \in Client, Ask(c)
  PROVE  InOrder'
<1>1. ASSUME NEW o \in Order, NEW body \in Body, AskStage(c, o, body) PROVE InOrder'
  <2>1. Holds([op |-> "stage", order |-> o, body |-> body,
               status |-> StatusAfter(o, body)])
    BY <1>1 DEF AskStage, Holds
  <2> QED
    BY <1>1, <2>1, InOrderOpen DEF AskStage
<1>2. ASSUME NEW o \in Order, AskDispatch(c, o) PROVE InOrder'
  <2>1. ASSUME overlaps = 0 PROVE Trucks(o) = {}
    <3>1. order[o] = "STAGED" /\ Live(o) = {} /\ OrderInOrder(o)
      BY <1>2, <2>1 DEF AskDispatch, MayDispatch, InOrder
    <3>2. ASSUME NEW t \in Trucks(o) PROVE FALSE
      <4>1. truck[t].status = "DELIVERED"
        BY <3>1, <3>2 DEF Live
      <4>2. order[o] = "DELIVERED"
        BY <3>1, <3>2, <4>1 DEF OrderInOrder, StatusFor, TruckStatus
      <4> QED
        BY <3>1, <4>2
    <3> QED
      BY <3>2
  <2>2. overlaps = 0 => Holds([op |-> "dispatch", order |-> o])
    BY <1>2, <2>1 DEF AskDispatch, MayDispatch, Holds
  <2> QED
    BY <1>2, <2>2, InOrderOpen DEF AskDispatch
<1>3. ASSUME NEW t \in Truck, AskArrive(c, t) PROVE InOrder'
  <2>1. Holds([op |-> "arrive", truck |-> t])
    BY <1>3 DEF AskArrive, MayArrive, Holds
  <2> QED
    BY <1>3, <2>1, InOrderOpen DEF AskArrive
<1>4. ASSUME NEW t \in Truck, AskDock(c, t) PROVE InOrder'
  <2>1. Holds([op |-> "dock", truck |-> t])
    BY <1>4 DEF AskDock, MayDock, Holds
  <2> QED
    BY <1>4, <2>1, InOrderOpen DEF AskDock
<1>5. ASSUME NEW t \in Truck, NEW body \in Body, AskLoad(c, t, body) PROVE InOrder'
  <2>1. Holds([op |-> "load", truck |-> t, body |-> body])
    BY <1>5 DEF AskLoad, MayLoad, Holds
  <2> QED
    BY <1>5, <2>1, InOrderOpen DEF AskLoad
<1>6. ASSUME NEW t \in Truck, AskDepart(c, t) PROVE InOrder'
  <2>1. Holds([op |-> "depart", truck |-> t])
    BY <1>6 DEF AskDepart, MayDepart, Holds
  <2> QED
    BY <1>6, <2>1, InOrderOpen DEF AskDepart
<1>7. ASSUME NEW t \in Truck, AskDeliver(c, t) PROVE InOrder'
  <2>1. Holds([op |-> "deliver", truck |-> t])
    BY <1>7 DEF AskDeliver, MayDeliver, Holds
  <2> QED
    BY <1>7, <2>1, InOrderOpen DEF AskDeliver
<1> QED
  BY <1>1, <1>2, <1>3, <1>4, <1>5, <1>6, <1>7 DEF Ask

(* A truck's row changes, and its order's status and plan with it.         *)
LEMMA SameTrucks ==
  ASSUME TypeInv, NEW t \in Truck, truck[t] \in TruckRow,
         NEW row \in TruckRow, row.order = truck[t].order,
         truck' = [truck EXCEPT ![t] = row]
  PROVE  /\ \A o \in Order : Trucks(o)' = Trucks(o)
         /\ \A u \in Truck : truck'[u] = IF u = t THEN row ELSE truck[u]
         /\ t \in Trucks(row.order)
<1>1. truck[t] # Unused /\ row # Unused
  BY UnusedIsNoRow
<1>2. \A u \in Truck : truck'[u] = IF u = t THEN row ELSE truck[u]
  BY DEF TypeInv
<1> QED
  BY <1>1, <1>2 DEF Trucks

LEMMA OrdersFollow ==
  ASSUME TypeInv, AllInOrder, NEW t \in Truck, truck[t] \in TruckRow,
         NEW row \in TruckRow, row.order = truck[t].order,
         truck' = [truck EXCEPT ![t] = row],
         order' = [order EXCEPT ![row.order] = StatusFor[row.status]],
         \A o \in Order \ {row.order} : plan'[o] = plan[o],
         \/ row.status \notin {"EN_ROUTE", "ARRIVED"}
         \/ plan' = plan /\ order[row.order] = "STAGED"
  PROVE  \A o \in Order : OrderInOrder(o)'
<1> DEFINE p == row.order
<1>1. p \in Order /\ row.status \in TruckStatus
  BY DEF TruckRow
<1>2. \A o \in Order : order'[o] = IF o = p THEN StatusFor[row.status] ELSE order[o]
  BY <1>1 DEF TypeInv
<1>3. ASSUME NEW o \in Order, o # p PROVE OrderInOrder(o)'
  <2>1. t \notin Trucks(o)
    BY <1>3 DEF Trucks
  <2>2. Trucks(o)' = Trucks(o)
    BY SameTrucks
  <2>3. \A u \in Trucks(o) : truck'[u] = truck[u]
    <3>1. \A u \in Trucks(o) : u \in Truck /\ u # t
      BY <2>1 DEF Trucks
    <3> QED
      BY <3>1, SameTrucks
  <2>4. order'[o] = order[o] /\ plan'[o] = plan[o]
    BY <1>2, <1>3
  <2> QED
    BY <2>2, <2>3, <2>4 DEF AllInOrder, OrderInOrder
<1>4. OrderInOrder(p)'
  <2>6. Trucks(p)' = Trucks(p)
    BY <1>1, SameTrucks
  <2>7. t \in Trucks(p)
    BY SameTrucks
  <2>8. truck'[t] = row
    BY DEF TypeInv
  <2>1. Trucks(p)' = Trucks(p) /\ t \in Trucks(p) /\ truck'[t] = row
    BY <2>6, <2>7, <2>8
  <2>2. \A u \in Trucks(p) : u = t
    BY <1>1, <2>1 DEF AllInOrder, OrderInOrder
  <2>3. order'[p] = StatusFor[row.status]
    BY <1>1, <1>2
  <2>4. order'[p] = "STAGED" => row.status \in {"EN_ROUTE", "ARRIVED"}
    BY <1>1, <2>3 DEF StatusFor, TruckStatus
  <2>5. order'[p] = "STAGED" => \A l \in Line : plan'[p][l].status \in {"STAGED", "SHORT"}
    BY <1>1, <2>4 DEF AllInOrder, OrderInOrder
  <2> QED
    BY <2>1, <2>2, <2>3, <2>5 DEF OrderInOrder
<1> QED
  BY <1>3, <1>4

LEMMA TrucksKeep ==
  ASSUME TypeInv, AllInOrder, NEW t \in Truck, truck[t] \in TruckRow,
         NEW row \in TruckRow, row.order = truck[t].order,
         truck' = [truck EXCEPT ![t] = row],
         issues' = issues, plan' = plan,
         At(t, {"LOADED", "DEPARTED", "DELIVERED"}) =>
             row.status \in {"LOADED", "DEPARTED", "DELIVERED"}
  PROVE  \A u \in Truck : TruckInOrder(u)'
<1>1. \A u \in Truck : truck'[u].order = truck[u].order
  BY SameTrucks
<1>2. \A u \in Truck : At(u, {"LOADED", "DEPARTED", "DELIVERED"})
                         => At(u, {"LOADED", "DEPARTED", "DELIVERED"})'
  BY SameTrucks DEF At
<1> QED
  BY <1>1, <1>2 DEF AllInOrder, TruckInOrder

LEMMA OrderOfTruck ==
  ASSUME TypeInv, AllInOrder, NEW t \in Truck, truck[t] \in TruckRow
  PROVE  /\ truck[t].order \in Order /\ t \in Trucks(truck[t].order)
         /\ order[truck[t].order] = StatusFor[truck[t].status]
<1>1. truck[t].order \in Order /\ t \in Trucks(truck[t].order)
  BY UnusedIsNoRow DEF TruckRow, Trucks
<1>2. OrderInOrder(truck[t].order)
  BY <1>1 DEF AllInOrder
<1> QED
  BY <1>1, <1>2 DEF OrderInOrder

(* A truck moves on, its order with it, and the request is answered.       *)
LEMMA MovedInOrder ==
  ASSUME TypeInv, InOrder, NEW c \in Client, Busy(c), Answered(c),
         NEW t \in Truck, truck[t] \in TruckRow,
         NEW row \in TruckRow, row.order = truck[t].order,
         truck' = [truck EXCEPT ![t] = row], issues' = issues, plan' = plan,
         overlaps = 0 =>
           /\ At(t, {"LOADED", "DEPARTED", "DELIVERED"}) =>
                row.status \in {"LOADED", "DEPARTED", "DELIVERED"}
           /\ order' = [order EXCEPT ![row.order] = StatusFor[row.status]]
           /\ row.status \in {"EN_ROUTE", "ARRIVED"} => order[row.order] = "STAGED"
  PROVE  InOrder'
<1>1. ASSUME overlaps = 0 PROVE AllInOrder'
  <2>1. AllInOrder
    BY <1>1 DEF InOrder, AllInOrder
  <2>2. \A o \in Order \ {row.order} : plan'[o] = plan[o]
    OBVIOUS
  <2>3. \A o \in Order : OrderInOrder(o)'
    BY <1>1, <2>1, <2>2, OrdersFollow
  <2>4. \A u \in Truck : TruckInOrder(u)'
    BY <1>1, <2>1, TrucksKeep
  <2> QED
    BY <2>3, <2>4 DEF AllInOrder
<1> QED
  BY <1>1, InOrderAnswered

LEMMA InOrderArrive ==
  ASSUME TypeInv, InOrder, NEW c \in Client, Arrive(c)
  PROVE  InOrder'
<1> DEFINE t == req[c].truck
           row == [truck[t] EXCEPT !.status = "ARRIVED"]
<1>1. req[c].op \in TruckOp /\ Busy(c) /\ Answered(c)
  BY DEF Arrive, TruckOp, Busy, NoRequest
<1>2. t \in Truck /\ truck[t] \in TruckRow /\ truck[t].order \in Order
  BY <1>1, TruckOfRequest
<1>3. row \in TruckRow /\ row.order = truck[t].order /\ row.status = "ARRIVED"
  BY <1>2 DEF TruckRow, TruckStatus
<1>4. truck' = [truck EXCEPT ![t] = row] /\ issues' = issues /\ plan' = plan
        /\ order' = order
  BY DEF Arrive
<1>5. ASSUME overlaps = 0
      PROVE  /\ At(t, {"EN_ROUTE"})
             /\ order[row.order] = "STAGED"
             /\ order' = [order EXCEPT ![row.order] = StatusFor[row.status]]
  <2>1. At(t, {"EN_ROUTE"}) /\ AllInOrder
    BY <1>5 DEF InOrder, AllInOrder, Holds, Arrive
  <2>2. order[truck[t].order] = StatusFor[truck[t].status]
    BY <1>2, <2>1, OrderOfTruck
  <2>3. order[row.order] = "STAGED" /\ StatusFor[row.status] = "STAGED"
    BY <1>3, <2>1, <2>2 DEF StatusFor, TruckStatus, At
  <2> QED
    BY <1>4, <2>1, <2>3 DEF TypeInv
<1> HIDE DEF row, t
<1> QED
  BY <1>1, <1>2, <1>3, <1>4, <1>5, MovedInOrder DEF At

LEMMA InOrderDock ==
  ASSUME TypeInv, InOrder, NEW c \in Client, Dock(c)
  PROVE  InOrder'
<1> DEFINE t == req[c].truck
           row == [truck[t] EXCEPT !.status = "DOCKED", !.door = "CONFIRMED"]
<1>1. req[c].op \in TruckOp /\ Busy(c) /\ Answered(c)
  BY DEF Dock, TruckOp, Busy, NoRequest
<1>2. t \in Truck /\ truck[t] \in TruckRow /\ truck[t].order \in Order
  BY <1>1, TruckOfRequest
<1>3. row \in TruckRow /\ row.order = truck[t].order /\ row.status = "DOCKED"
  BY <1>2 DEF TruckRow, TruckStatus
<1>4. truck' = [truck EXCEPT ![t] = row] /\ issues' = issues /\ plan' = plan
  BY <1>2 DEF Dock, TypeInv
<1>5. ASSUME overlaps = 0
      PROVE  /\ At(t, {"ARRIVED"})
             /\ order' = [order EXCEPT ![row.order] = StatusFor[row.status]]
  <2>1. At(t, {"ARRIVED"}) /\ AllInOrder
    BY <1>5 DEF InOrder, AllInOrder, Holds, Dock
  <2>2. order[truck[t].order] = StatusFor[truck[t].status]
    BY <1>2, <2>1, OrderOfTruck
  <2>3. order[truck[t].order] = "STAGED" /\ StatusFor[row.status] = "LOADING"
    BY <1>3, <2>1, <2>2 DEF StatusFor, TruckStatus, At
  <2> QED
    BY <1>3, <2>1, <2>3 DEF Dock
<1> HIDE DEF row, t
<1> QED
  BY <1>1, <1>2, <1>3, <1>4, <1>5, MovedInOrder DEF At

LEMMA InOrderDepart ==
  ASSUME TypeInv, InOrder, NEW c \in Client, Depart(c)
  PROVE  InOrder'
<1> DEFINE t == req[c].truck
           row == [truck[t] EXCEPT !.status = "DEPARTED"]
<1>1. req[c].op \in TruckOp /\ Busy(c) /\ Answered(c)
  BY DEF Depart, TruckOp, Busy, NoRequest
<1>2. t \in Truck /\ truck[t] \in TruckRow /\ truck[t].order \in Order
  BY <1>1, TruckOfRequest
<1>3. row \in TruckRow /\ row.order = truck[t].order /\ row.status = "DEPARTED"
  BY <1>2 DEF TruckRow, TruckStatus
<1>4. truck' = [truck EXCEPT ![t] = row] /\ issues' = issues /\ plan' = plan
        /\ order' = order
  BY DEF Depart
<1>5. ASSUME overlaps = 0
      PROVE  order' = [order EXCEPT ![row.order] = StatusFor[row.status]]
  <2>1. At(t, {"LOADED"}) /\ AllInOrder
    BY <1>5 DEF InOrder, AllInOrder, Holds, Depart
  <2>2. order[truck[t].order] = StatusFor[truck[t].status]
    BY <1>2, <2>1, OrderOfTruck
  <2>3. order[row.order] = "SHIPPED" /\ StatusFor[row.status] = "SHIPPED"
    BY <1>3, <2>1, <2>2 DEF StatusFor, TruckStatus, At
  <2> QED
    BY <1>4, <2>1, <2>3 DEF TypeInv
<1> HIDE DEF row, t
<1> QED
  BY <1>1, <1>2, <1>3, <1>4, <1>5, MovedInOrder

LEMMA InOrderDeliver ==
  ASSUME TypeInv, InOrder, NEW c \in Client, Deliver(c)
  PROVE  InOrder'
<1> DEFINE t == req[c].truck
           row == [truck[t] EXCEPT !.status = "DELIVERED"]
<1>1. req[c].op \in TruckOp /\ Busy(c) /\ Answered(c)
  BY DEF Deliver, TruckOp, Busy, NoRequest
<1>2. t \in Truck /\ truck[t] \in TruckRow /\ truck[t].order \in Order
  BY <1>1, TruckOfRequest
<1>3. row \in TruckRow /\ row.order = truck[t].order /\ row.status = "DELIVERED"
  BY <1>2 DEF TruckRow, TruckStatus
<1>4. truck' = [truck EXCEPT ![t] = row] /\ issues' = issues /\ plan' = plan
        /\ order' = [order EXCEPT ![truck[t].order] = "DELIVERED"]
  BY DEF Deliver
<1>5. StatusFor[row.status] = "DELIVERED"
  BY <1>3 DEF StatusFor, TruckStatus
<1> HIDE DEF row, t
<1> QED
  BY <1>1, <1>2, <1>3, <1>4, <1>5, MovedInOrder

(* An order with a truck is not written by stage unless it stays STAGED.   *)
LEMMA InOrderStage ==
  ASSUME TypeInv, InOrder, NEW c \in Client, Stage(c)
  PROVE  InOrder'
<1> DEFINE o == req[c].order
           b == req[c].body
           rows == [l \in Line |-> IF l \in DOMAIN b
                      THEN [plan[o][l] EXCEPT !.staged = b[l], !.status = Picked(b[l])]
                      ELSE plan[o][l]]
<1>1. Busy(c) /\ Answered(c) /\ truck' = truck /\ issues' = issues
  <2>1. Answered(c) /\ truck' = truck /\ issues' = issues
    BY DEF Stage
  <2>2. req[c].op = "stage"
    BY DEF Stage
  <2> QED
    BY <2>1, <2>2 DEF Busy, NoRequest
<1>2. o \in Order /\ b \in Body /\ req[c].status \in {"PLANNED", "STAGED"}
  BY RequestFields DEF Stage, TypeInv
<1>3. plan' = [plan EXCEPT ![o] = rows]
  BY DEF Stage, Written
<1>4. order' = [order EXCEPT ![o] = req[c].status]
  BY DEF Stage
<1> HIDE DEF rows
<1>5. \A p \in Order : /\ order'[p] = IF p = o THEN req[c].status ELSE order[p]
                       /\ plan'[p] = IF p = o THEN rows ELSE plan[p]
  BY <1>3, <1>4 DEF TypeInv
<1>6. ASSUME overlaps = 0 PROVE AllInOrder'
  <2>1. AllInOrder /\ MayStage(o) /\ req[c].status = StatusAfter(o, b)
    BY <1>6 DEF InOrder, AllInOrder, Holds, Stage
  <2>2. \A p \in Order : Trucks(p)' = Trucks(p)
    BY <1>1 DEF Trucks
  <2>3. req[c].status = "STAGED" => \A l \in Line : rows[l].status \in {"STAGED", "SHORT"}
    <3>1. ASSUME req[c].status = "STAGED", NEW l \in Line
          PROVE  rows[l].status \in {"STAGED", "SHORT"}
      <4>1. CASE l \in DOMAIN b
        <5>1. plan[o][l] \in PlanLine
          BY <1>2, <3>1 DEF TypeInv
        <5>2. rows[l] = [plan[o][l] EXCEPT !.staged = b[l], !.status = Picked(b[l])]
          BY <3>1, <4>1 DEF rows
        <5>3. rows[l].status = Picked(b[l])
          BY <5>1, <5>2 DEF PlanLine
        <5> QED
          BY <5>3 DEF Picked
      <4>2. CASE l \notin DOMAIN b
        BY <2>1, <3>1, <4>2 DEF StatusAfter, Resolved, rows
      <4> QED
        BY <4>1, <4>2
    <3> QED
      BY <3>1
  <2>4. Trucks(o) # {} => req[c].status = "STAGED"
    <3>1. ASSUME NEW t \in Trucks(o) PROVE req[c].status = "STAGED"
      <4>1. order[o] = "STAGED"
        <5>1. t \in Truck /\ truck[t] \in TruckRow /\ truck[t].order = o
          BY DEF Trucks, TypeInv
        <5>2. order[o] = StatusFor[truck[t].status] /\ truck[t].status \in TruckStatus
          BY <2>1, <5>1, OrderOfTruck DEF TruckRow
        <5> QED
          BY <2>1, <5>2 DEF MayStage, StatusFor, TruckStatus
      <4>2. \A l \in Line : plan[o][l].status \in {"STAGED", "SHORT"}
        BY <1>2, <2>1, <4>1 DEF AllInOrder, OrderInOrder
      <4> QED
        BY <2>1, <4>2 DEF StatusAfter, Resolved
    <3> QED
      BY <3>1
  <2>5. ASSUME NEW t \in Trucks(o)
        PROVE  /\ req[c].status = order[o]
               /\ ~At(t, {"LOADED", "DEPARTED", "DELIVERED"})
    <3>1. t \in Truck /\ truck[t] \in TruckRow /\ truck[t].order = o
      BY DEF Trucks, TypeInv
    <3>2. order[o] = StatusFor[truck[t].status] /\ truck[t].status \in TruckStatus
      BY <2>1, <3>1, OrderOfTruck DEF TruckRow
    <3>3. order[o] = "STAGED" /\ truck[t].status \in {"EN_ROUTE", "ARRIVED"}
      BY <2>1, <3>2 DEF MayStage, StatusFor, TruckStatus
    <3> QED
      BY <2>4, <3>3 DEF At
  <2>6. ASSUME NEW p \in Order PROVE OrderInOrder(p)'
    <3>1. CASE p # o
      BY <1>1, <1>5, <2>1, <2>2, <3>1 DEF AllInOrder, OrderInOrder
    <3>2. CASE p = o
      <4>1. OrderInOrder(o)
        BY <1>2, <2>1 DEF AllInOrder
      <4>2. order'[o] = req[c].status /\ plan'[o] = rows
        BY <1>2, <1>5
      <4>3. req[c].status \notin {"LOADING", "SHIPPED", "DELIVERED"}
        BY <1>2
      <4> QED
        BY <1>1, <1>2, <2>2, <2>3, <2>5, <3>2, <4>1, <4>2, <4>3 DEF OrderInOrder
    <3> QED
      BY <3>1, <3>2
  <2>7. ASSUME NEW u \in Truck PROVE TruckInOrder(u)'
    <3>1. CASE issues[u] = <<>>
      BY <1>1, <3>1 DEF TruckInOrder
    <3>2. CASE issues[u] # <<>>
      <4>1. At(u, {"LOADED", "DEPARTED", "DELIVERED"})
        BY <2>1, <3>2 DEF AllInOrder, TruckInOrder
      <4>2. truck[u] # Unused /\ truck[u] \in TruckRow
        BY <4>1, InUse DEF TruckStatus
      <4>3. truck[u].order \in Order /\ truck[u].order # o
        BY <2>5, <4>1, <4>2 DEF TruckRow, Trucks
      <4>4. plan'[truck[u].order] = plan[truck[u].order]
        BY <1>5, <4>3
      <4> QED
        BY <1>1, <2>1, <4>4 DEF AllInOrder, TruckInOrder, At
    <3> QED
      BY <3>1, <3>2
  <2> QED
    BY <2>6, <2>7 DEF AllInOrder
<1> QED
  BY <1>1, <1>6, InOrderAnswered

LEMMA InOrderDispatch ==
  ASSUME TypeInv, InOrder, NEW c \in Client, Dispatch(c)
  PROVE  InOrder'
<1>1. /\ Busy(c) /\ Answered(c)
      /\ order' = order /\ plan' = plan /\ issues' = issues
  BY DEF Dispatch, Busy, NoRequest
<1>2. PICK o \in Order : o = req[c].order
  BY RequestFields DEF Dispatch, TypeInv
<1> DEFINE row == [order |-> o, status |-> "EN_ROUTE", door |-> "NONE"]
<1>3. PICK t \in Truck : truck[t] = Unused /\ truck' = [truck EXCEPT ![t] = row]
  BY <1>2 DEF Dispatch
<1>4. row # Unused /\ row.order = o /\ row.status = "EN_ROUTE"
  BY DEF Unused
<1> HIDE DEF row
<1>5. \A u \in Truck : truck'[u] = IF u = t THEN row ELSE truck[u]
  BY <1>3 DEF TypeInv
<1>6. ASSUME overlaps = 0 PROVE AllInOrder'
  <2>1. AllInOrder /\ order[o] = "STAGED" /\ Trucks(o) = {}
    BY <1>2, <1>6 DEF InOrder, AllInOrder, Holds, Dispatch
  <2>2. Trucks(o)' = {t}
    <3>1. \A u \in Truck : u # t => ~(truck[u] # Unused /\ truck[u].order = o)
      BY <2>1 DEF Trucks
    <3> QED
      BY <1>3, <1>4, <1>5, <3>1 DEF Trucks
  <2>3. \A p \in Order \ {o} : Trucks(p)' = Trucks(p)
    BY <1>3, <1>4, <1>5 DEF Trucks
  <2>4. \A p \in Order \ {o} : t \notin Trucks(p)
    BY <1>3 DEF Trucks
  <2>5. ASSUME NEW p \in Order PROVE OrderInOrder(p)'
    <3>1. CASE p # o
      <4>1. \A u \in Trucks(p) : truck'[u] = truck[u]
        <5>1. \A u \in Trucks(p) : u \in Truck /\ u # t
          BY <2>4, <3>1 DEF Trucks
        <5> QED
          BY <1>5, <5>1
      <4> QED
        BY <1>1, <2>1, <2>3, <3>1, <4>1 DEF AllInOrder, OrderInOrder
    <3>2. CASE p = o
      <4>1. OrderInOrder(o)
        BY <1>2, <2>1 DEF AllInOrder
      <4>2. truck'[t].status = "EN_ROUTE" /\ StatusFor["EN_ROUTE"] = "STAGED"
        BY <1>4, <1>5 DEF StatusFor, TruckStatus
      <4> QED
        BY <1>1, <2>1, <2>2, <3>2, <4>1, <4>2 DEF OrderInOrder
    <3> QED
      BY <3>1, <3>2
  <2>6. ASSUME NEW u \in Truck PROVE TruckInOrder(u)'
    <3>1. CASE u = t
      <4>1. issues[t] = <<>>
        BY <1>3, <2>1 DEF AllInOrder, TruckInOrder, At, Unused
      <4> QED
        BY <1>1, <3>1, <4>1 DEF TruckInOrder
    <3>2. CASE u # t
      BY <1>1, <1>5, <2>1, <3>2 DEF AllInOrder, TruckInOrder, At
    <3> QED
      BY <3>1, <3>2
  <2> QED
    BY <2>5, <2>6 DEF AllInOrder
<1> QED
  BY <1>1, <1>6, InOrderAnswered

LEMMA InOrderLoad ==
  ASSUME TypeInv, InOrder, NEW c \in Client, Load(c)
  PROVE  InOrder'
<1>1. req[c].op = "load" /\ Answered(c)
  BY DEF Load
<1>2. Busy(c) /\ req[c].op \in TruckOp
  BY <1>1 DEF Busy, NoRequest, TruckOp
<1>3. PICK t \in Truck : t = req[c].truck
  BY <1>2, TruckOfRequest
<1>4. PICK o \in Order : o = truck[t].order
  BY <1>2, <1>3, TruckOfRequest
<1>5. PICK b \in Body : b = req[c].body
  BY <1>1, RequestFields DEF TypeInv
<1>6. truck[t] \in TruckRow
  BY <1>2, <1>3, TruckOfRequest
<1>7. PICK row \in TruckRow :
        row = [truck[t] EXCEPT !.status = "LOADED", !.door = Released(truck[t].door)]
  <2>1. truck[t].door \in {"NONE", "ASSIGNED", "CONFIRMED", "COMPLETED"}
    BY <1>6 DEF TruckRow
  <2>2. Released(truck[t].door) \in {"NONE", "ASSIGNED", "CONFIRMED", "COMPLETED"}
    BY <2>1 DEF Released
  <2> QED
    BY <1>6, <2>2, RowMoved DEF TruckStatus
<1>8. row.order = o /\ row.status = "LOADED"
  BY <1>4, <1>6, <1>7 DEF TruckRow
<1>9. truck' = [truck EXCEPT ![t] = row]
  BY <1>3, <1>7 DEF Load, TypeInv
<1>10. /\ order' = [order EXCEPT ![o] = "SHIPPED"]
       /\ issues' = [issues EXCEPT ![t] = Append(@, b)]
  BY <1>3, <1>4, <1>5 DEF Load
<1> DEFINE rows == [l \in Line |-> IF l \in DOMAIN b
                      THEN [plan[o][l] EXCEPT !.loaded = b[l], !.status = "LOADED"]
                      ELSE plan[o][l]]
<1>11. plan' = [plan EXCEPT ![o] = rows]
  BY <1>3, <1>4, <1>5 DEF Load, Written
<1>12. \A l \in DOMAIN b :
         rows[l] = [plan[o][l] EXCEPT !.loaded = b[l], !.status = "LOADED"]
  BY BodyLines
<1> HIDE DEF rows
<1>13. plan'[o] = rows /\ \A p \in Order \ {o} : plan'[p] = plan[p]
  BY <1>11 DEF TypeInv
<1>14. ASSUME overlaps = 0 PROVE AllInOrder'
  <2>1. /\ AllInOrder
        /\ At(t, {"ARRIVED", "DOCKED"})
        /\ \A l \in DOMAIN b : b[l] <= AllStaged(t)[l]
    <3>1. Holds(req[c]) /\ AllInOrder
      BY <1>14 DEF InOrder, AllInOrder
    <3> QED
      BY <1>1, <1>3, <1>5, <3>1 DEF Holds
  <2>2. \A p \in Order : OrderInOrder(p)'
    <3>1. StatusFor[row.status] = "SHIPPED"
      BY <1>8 DEF StatusFor, TruckStatus
    <3>2. order' = [order EXCEPT ![row.order] = StatusFor[row.status]]
      BY <1>8, <1>10, <3>1
    <3>3. \A p \in Order \ {row.order} : plan'[p] = plan[p]
      BY <1>8, <1>13
    <3>4. row.status \notin {"EN_ROUTE", "ARRIVED"} /\ row.order = truck[t].order
      BY <1>4, <1>8
    <3> QED
      BY <1>6, <1>9, <2>1, <3>2, <3>3, <3>4, OrdersFollow
  <2>3. /\ truck'[t] = row /\ issues'[t] = Append(issues[t], b)
        /\ \A u \in Truck \ {t} : truck'[u] = truck[u] /\ issues'[u] = issues[u]
    BY <1>9, <1>10 DEF TypeInv
  <2>4. issues[t] = <<>> /\ issues[t] \in Seq(Body)
    BY <2>1 DEF AllInOrder, TruckInOrder, At, TypeInv
  <2>5. Len(issues'[t]) = 1 /\ issues'[t][1] = b
    BY <2>3, <2>4, Appended
  <2>6. TruckInOrder(t)'
    <3>1. ASSUME NEW l \in DOMAIN b
          PROVE  rows[l].status = "LOADED" /\ rows[l].loaded <= rows[l].staged
                   /\ rows[l].loaded = b[l]
      <4>1. l \in Line
        BY BodyLines
      <4>2. plan[o][l] \in PlanLine /\ b[l] <= plan[o][l].staged
        BY <1>4, <2>1, <4>1 DEF TypeInv, AllStaged
      <4>3. rows[l] = [plan[o][l] EXCEPT !.loaded = b[l], !.status = "LOADED"]
        BY <1>12
      <4> QED
        BY <4>2, <4>3 DEF PlanLine
    <3>2. truck'[t].status = "LOADED" /\ plan'[truck'[t].order] = rows
      BY <1>8, <1>13, <2>3
    <3> QED
      BY <2>5, <3>1, <3>2 DEF TruckInOrder, At
  <2>7. ASSUME NEW u \in Truck, u # t PROVE TruckInOrder(u)'
    <3>1. CASE issues[u] = <<>>
      BY <2>3, <2>7, <3>1 DEF TruckInOrder
    <3>2. CASE issues[u] # <<>>
      <4>1. At(u, {"LOADED", "DEPARTED", "DELIVERED"})
        BY <2>1, <3>2 DEF AllInOrder, TruckInOrder
      <4>2. truck[u] # Unused /\ truck[u] \in TruckRow
        BY <4>1, InUse DEF TruckStatus
      <4>3. truck[t] # Unused
        BY <1>6, UnusedIsNoRow
      <4>4. truck[u].order \in Order /\ truck[u].order # o
        <5>1. \A v, w \in Trucks(o) : v = w
          BY <2>1 DEF AllInOrder, OrderInOrder
        <5> QED
          BY <1>4, <2>7, <4>2, <4>3, <5>1 DEF Trucks, TruckRow
      <4>5. plan'[truck[u].order] = plan[truck[u].order]
        BY <1>13, <4>4
      <4> QED
        BY <2>1, <2>3, <2>7, <4>5 DEF AllInOrder, TruckInOrder, At
    <3> QED
      BY <3>1, <3>2
  <2> QED
    BY <2>2, <2>6, <2>7 DEF AllInOrder
<1> QED
  BY <1>1, <1>2, <1>14, InOrderAnswered

LEMMA InOrderAbort ==
  ASSUME TypeInv, InOrder, NEW c \in Client, Abort(c)
  PROVE  InOrder'
<1>1. Busy(c) /\ Answered(c) /\ UNCHANGED tables
  BY DEF Abort
<1>2. overlaps = 0 => AllInOrder'
  BY <1>1, SameTables DEF InOrder, AllInOrder
<1> QED
  BY <1>1, <1>2, InOrderAnswered

(* Nobody answers: the tables change under the open request, if any.       *)
LEMMA InOrderBeside ==
  ASSUME TypeInv, InOrder, UNCHANGED <<req, overlaps>>,
         overlaps = 0 => AllInOrder' /\ \A c \in Client : Holds(req[c])'
  PROVE  InOrder'
  BY DEF InOrder, AllInOrder, Busy

LEMMA InOrderCreate ==
  ASSUME TypeInv, InOrder, NEW o \in Order, CreateOrder(o)
  PROVE  InOrder'
<1>1. /\ order[o] = "NONE" /\ order' = [order EXCEPT ![o] = "PLANNED"]
      /\ UNCHANGED <<plan, truck, issues, req, overlaps>>
  BY DEF CreateOrder
<1>2. \A p \in Order : order'[p] = IF p = o THEN "PLANNED" ELSE order[p]
  BY <1>1 DEF TypeInv
<1>3. \A p \in Order : Trucks(p)' = Trucks(p)
  BY <1>1 DEF Trucks
<1>4. ASSUME overlaps = 0 PROVE AllInOrder' /\ \A c \in Client : Holds(req[c])'
  <2>1. AllInOrder /\ \A c \in Client : Holds(req[c])
    BY <1>4 DEF InOrder, AllInOrder
  <2>2. Trucks(o) = {}
    <3>1. ASSUME NEW t \in Trucks(o) PROVE FALSE
      <4>1. t \in Truck /\ truck[t] \in TruckRow /\ truck[t].order = o
        BY DEF Trucks, TypeInv
      <4>2. order[o] = StatusFor[truck[t].status] /\ truck[t].status \in TruckStatus
        BY <2>1, <4>1, OrderOfTruck DEF TruckRow
      <4> QED
        BY <1>1, <4>2 DEF StatusFor, TruckStatus
    <3> QED
      BY <3>1
  <2>3. ASSUME NEW p \in Order PROVE OrderInOrder(p)'
    <3>1. CASE p # o
      BY <1>1, <1>2, <1>3, <2>1, <3>1 DEF AllInOrder, OrderInOrder
    <3>2. CASE p = o
      BY <1>1, <1>2, <1>3, <2>2, <3>2 DEF OrderInOrder
    <3> QED
      BY <3>1, <3>2
  <2>4. ASSUME NEW t \in Truck PROVE TruckInOrder(t)'
    BY <1>1, <2>1 DEF AllInOrder, TruckInOrder, At
  <2>5. ASSUME NEW c \in Client PROVE Holds(req[c])'
    <3>1. Holds(req[c]) /\ req'[c] = req[c]
      BY <1>1, <2>1
    <3>2. req[c].op = "stage" => MayStage(req[c].order)'
                                 /\ req[c].status = StatusAfter(req[c].order, req[c].body)'
      <4>1. req[c].op = "stage" => req[c].order \in Order /\ req[c].order # o
        BY <1>1, <3>1, RequestFields DEF Holds, MayStage, TypeInv
      <4> QED
        BY <1>1, <1>2, <3>1, <4>1 DEF Holds, MayStage, StatusAfter, Resolved
    <3>3. req[c].op = "dispatch" => order'[req[c].order] = "STAGED"
                                    /\ Trucks(req[c].order)' = {}
      <4>1. req[c].op = "dispatch" => req[c].order \in Order /\ req[c].order # o
        BY <1>1, <3>1, RequestFields DEF Holds, TypeInv
      <4>2. req[c].op = "dispatch" => order'[req[c].order] = order[req[c].order]
        BY <1>2, <4>1
      <4>3. req[c].op = "dispatch" => Trucks(req[c].order)' = {}
        BY <1>1, <3>1 DEF Holds, Trucks
      <4> QED
        BY <3>1, <4>2, <4>3 DEF Holds
    <3> QED
      BY <1>1, <3>1, <3>2, <3>3 DEF Holds, At, AllStaged
  <2> QED
    BY <2>3, <2>4, <2>5 DEF AllInOrder
<1> QED
  BY <1>1, <1>4, InOrderBeside

LEMMA InOrderAssign ==
  ASSUME TypeInv, InOrder, NEW t \in Truck, AssignDoor(t)
  PROVE  InOrder'
<1>1. /\ At(t, {"EN_ROUTE", "ARRIVED"})
      /\ truck' = [truck EXCEPT ![t].door = "ASSIGNED"]
      /\ UNCHANGED <<order, plan, issues, req, overlaps>>
  BY DEF AssignDoor
<1>2. truck[t] \in TruckRow
  BY <1>1, InUse DEF TruckStatus
<1>3. PICK row \in TruckRow : row = [truck[t] EXCEPT !.door = "ASSIGNED"]
  BY <1>2, RowMoved DEF TruckStatus
<1>4. row.order = truck[t].order /\ row.status = truck[t].status
  BY <1>2, <1>3 DEF TruckRow
<1>5. truck' = [truck EXCEPT ![t] = row]
  BY <1>1, <1>3 DEF TypeInv
<1>6. /\ \A p \in Order : Trucks(p)' = Trucks(p)
      /\ \A u \in Truck : truck'[u] = IF u = t THEN row ELSE truck[u]
  BY <1>2, <1>4, <1>5, SameTrucks
<1>7. \A u \in Truck : truck'[u].order = truck[u].order /\ truck'[u].status = truck[u].status
  BY <1>4, <1>6
<1>8. ASSUME overlaps = 0 PROVE AllInOrder' /\ \A c \in Client : Holds(req[c])'
  <2>1. AllInOrder /\ \A c \in Client : Holds(req[c])
    BY <1>8 DEF InOrder, AllInOrder
  <2>2. ASSUME NEW p \in Order PROVE OrderInOrder(p)'
    <3>1. \A u \in Trucks(p) : u \in Truck
      BY DEF Trucks
    <3> QED
      BY <1>1, <1>6, <1>7, <2>1, <3>1 DEF AllInOrder, OrderInOrder
  <2>3. ASSUME NEW u \in Truck PROVE TruckInOrder(u)'
    BY <1>1, <1>7, <2>1 DEF AllInOrder, TruckInOrder, At
  <2>4. ASSUME NEW c \in Client PROVE Holds(req[c])'
    <3>1. Holds(req[c]) /\ req'[c] = req[c] /\ req[c] \in Request \cup {NoRequest}
      BY <1>1, <2>1 DEF TypeInv
    <3>2. req[c].op = "stage" => MayStage(req[c].order)'
                                 /\ req[c].status = StatusAfter(req[c].order, req[c].body)'
      BY <1>1, <3>1 DEF Holds, MayStage, StatusAfter, Resolved
    <3>3. req[c].op = "dispatch" => order'[req[c].order] = "STAGED"
                                    /\ Trucks(req[c].order)' = {}
      <4>1. req[c].op = "dispatch" => req[c].order \in Order
        BY <3>1, RequestFields
      <4>2. req'[c].order = req[c].order
        BY <3>1
      <4> QED
        BY <1>1, <1>6, <3>1, <4>1, <4>2 DEF Holds
    <3>4. req[c].op \in TruckOp =>
            /\ truck'[req[c].truck].order = truck[req[c].truck].order
            /\ truck'[req[c].truck].status = truck[req[c].truck].status
      BY <1>7, <3>1, RequestFields
    <3> QED
      BY <1>1, <3>1, <3>2, <3>3, <3>4 DEF Holds, At, AllStaged, TruckOp
  <2> QED
    BY <2>2, <2>3, <2>4 DEF AllInOrder
<1> QED
  BY <1>1, <1>8, InOrderBeside

LEMMA InOrderNext == TypeInv /\ InOrder /\ [Next]_outboundVars => InOrder'
<1> SUFFICES ASSUME TypeInv, InOrder, [Next]_outboundVars PROVE InOrder'
  OBVIOUS
<1>1. ASSUME NEW c \in Client, Answer(c) PROVE InOrder'
  BY <1>1, InOrderStage, InOrderDispatch, InOrderArrive, InOrderDock, InOrderLoad,
     InOrderDepart, InOrderDeliver DEF Answer
<1>2. CASE UNCHANGED outboundVars
  <2>1. UNCHANGED tables /\ UNCHANGED <<req, overlaps>>
    BY <1>2 DEF outboundVars
  <2>2. overlaps = 0 => AllInOrder' /\ \A c \in Client : Holds(req[c])'
    BY <2>1, SameTables DEF InOrder, AllInOrder
  <2> QED
    BY <2>1, <2>2, InOrderBeside
<1> QED
  BY <1>1, <1>2, InOrderAsk, InOrderAbort, InOrderCreate, InOrderAssign DEF Next

LEMMA InOrderAlways == Spec => [](TypeInv /\ InOrder)
<1>1. Init => TypeInv /\ InOrder
  BY TypeInit, InOrderInit
<1>2. TypeInv /\ InOrder /\ [Next]_outboundVars => TypeInv' /\ InOrder'
  BY TypeNext, InOrderNext
<1> QED
  BY <1>1, <1>2, PTL DEF Spec

(* As long as requests do not overlap, an order has one truck at most and  *)
(* its status says where the truck is, whoever writes it.                  *)
THEOREM OneTruckTellsTheOrder == Spec => []OrderFollowsTruck
<1>1. InOrder => OrderFollowsTruck
  BY DEF InOrder, OrderInOrder, OrderFollowsTruck
<1> QED
  BY <1>1, InOrderAlways, PTL

(* As long as requests do not overlap, what a truck took is what the plan  *)
(* says was loaded, which was staged, in one goods issue.                  *)
THEOREM IssuesMatchThePlan == Spec => []IssuedIsLoaded
<1>1. InOrder => IssuedIsLoaded
  BY DEF InOrder, TruckInOrder, IssuedIsLoaded
<1> QED
  BY <1>1, InOrderAlways, PTL
=============================================================================
