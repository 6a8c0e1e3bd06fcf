---------------------------- MODULE Sourcing_proofs ----------------------------
(***************************************************************************)
(* Proofs about Sourcing, for every set of requisitions, suppliers and     *)
(* clerks and every bound: types, and, as long as no requests overlap,     *)
(* that a requisition becomes one purchase order and that the supplier     *)
(* agent ships none that was shipped, whatever fails in between.           *)
(***************************************************************************)
EXTENDS Sourcing, SequenceTheorems, TLAPS

Placed == 1 .. Len(orders)
Shipped == 1 .. Len(shipments)

OrderRow == [req : Requisition, supplier : {Recommended(Suppliers, BasePrice)},
             status : {"CREATED", "CONFIRMED", "SHIPPED"}]
Request ==
    [op : {"select"}, req : Requisition, supplier : {Recommended(Suppliers, BasePrice)}]
      \cup [op : {"confirm", "ship"}, po : Placed]
      \cup [op : {"trailer"}, shipment : Shipped]
ShipmentRow == [po : Placed, by : Clerk \cup {Agent}, trailers : Nat]
AgentRun == {Resting} \cup [po : Placed, shipment : 0 .. Len(shipments),
                           step : {"confirm", "ship", "trailer", "done"}]

(* Every variable has its type; what a request, an event or the agent      *)
(* names is there.                                                         *)
TypeInv ==
    /\ requisition \in [Requisition -> {"NONE", "PARSED", "UNCLEAR", "CONVERTED"}]
    /\ orders \in Seq(OrderRow)
    /\ shipments \in Seq(ShipmentRow)
    /\ alerted \subseteq Placed /\ inbox \subseteq Placed /\ news \subseteq Shipped
    /\ agent \in AgentRun
    /\ agent.step = "trailer" => agent.shipment # 0
    /\ call \in [Caller -> Request \cup {NoCall}]
    /\ faults \in Nat /\ overlaps \in Nat

(* The agent waits for the call that it has made.                          *)
AgentFollows ==
    Calling(Agent) =>
        /\ agent.step = call[Agent].op
        /\ agent.step \in {"confirm", "ship"} => agent.po = call[Agent].po

(* One caller at a time is in the middle of something.                     *)
Alone == \A c, d \in Engaged : c = d

(* A requisition that is being turned into an order has none yet.          *)
SelectsOnce ==
    /\ \A c \in Caller : call[c].op = "select" => requisition[call[c].req] = "PARSED"
    /\ \A r \in Requisition :
         requisition[r] = "CONVERTED" <=> \E p \in DOMAIN orders : orders[p].req = r
    /\ \A p, q \in DOMAIN orders : orders[p].req = orders[q].req => p = q

(* What the agent is about to ship, or has asked the yard to, is not       *)
(* shipped yet.                                                            *)
ShipsOnce ==
    /\ agent.step \in {"confirm", "ship"} => ShipmentsOf(agent.po) = {}
    /\ \A c \in Caller : call[c].op = "ship" => ShipmentsOf(call[c].po) = {}
    /\ \A i, j \in DOMAIN shipments :
         i < j /\ shipments[i].po = shipments[j].po => shipments[j].by # Agent

IInv ==
    /\ TypeInv
    /\ AgentFollows
    /\ overlaps = 0 => Alone /\ SelectsOnce /\ ShipsOnce

-----------------------------------------------------------------------------
(* What a request of each kind names.                                      *)
LEMMA RequestFields ==
    ASSUME TypeInv, NEW c \in Caller
    PROVE  /\ call[c].op \in {"select", "confirm", "ship", "trailer", "none"}
           /\ Calling(c) <=> call[c].op # "none"
           /\ call[c].op = "select" =>
                /\ call[c].req \in Requisition
                /\ call[c].supplier = Recommended(Suppliers, BasePrice)
           /\ call[c].op \in {"confirm", "ship"} => call[c].po \in Placed
           /\ call[c].op = "trailer" => call[c].shipment \in Shipped
<1>1. call[c] \in Request \cup {NoCall}
  BY DEF TypeInv
<1> QED
  BY <1>1 DEF Request, NoCall, Calling

(* What the agent's run holds.                                             *)
LEMMA AgentFields ==
    ASSUME TypeInv
    PROVE  /\ agent.step \in {"confirm", "ship", "trailer", "done", "rest"}
           /\ agent = Resting <=> agent.step = "rest"
           /\ agent.step # "rest" => /\ agent.po \in Placed
                                     /\ agent.shipment \in 0 .. Len(shipments)
                                     /\ agent = [po |-> agent.po, shipment |-> agent.shipment,
                                                 step |-> agent.step]
<1>1. agent \in AgentRun
  BY DEF TypeInv
<1> QED
  BY <1>1 DEF AgentRun, Resting

LEMMA Counting ==
    ASSUME TypeInv
    PROVE  /\ Len(orders) \in Nat /\ DOMAIN orders = Placed
           /\ Len(shipments) \in Nat /\ DOMAIN shipments = Shipped
           /\ Fault => faults' \in Nat
           /\ \A c : Begins(c) => overlaps' \in Nat
  BY DEF TypeInv, Placed, Shipped, Fault, Begins

(* A call is sent, or answered.                                            *)
LEMMA CallSent ==
    ASSUME TypeInv, NEW c \in Caller, NEW request, Send(c, request)
    PROVE  /\ ~Calling(c)
           /\ \A d \in Caller : call'[d] = IF d = c THEN request ELSE call[d]
           /\ request \in Request => call' \in [Caller -> Request \cup {NoCall}]
  BY DEF TypeInv, Send

LEMMA CallAnswered ==
    ASSUME TypeInv, NEW c \in Caller, Answered(c)
    PROVE  /\ \A d \in Caller : call'[d] = IF d = c THEN NoCall ELSE call[d]
           /\ call' \in [Caller -> Request \cup {NoCall}]
  BY DEF TypeInv, Answered

(* What was typed stays typed when rows are added.                         *)
LEMMA TypeGrows ==
    ASSUME Len(orders) \in Nat, Len(orders') \in Nat, Len(orders) <= Len(orders'),
           Len(shipments) \in Nat, Len(shipments') \in Nat, Len(shipments) <= Len(shipments')
    PROVE  /\ Placed \subseteq Placed' /\ Shipped \subseteq Shipped'
           /\ \A run \in AgentRun : run \in AgentRun'
           /\ \A row \in ShipmentRow : row \in ShipmentRow'
           /\ \A request \in Request : request \in Request'
<1>1. Placed \subseteq Placed' /\ Shipped \subseteq Shipped'
      /\ 0 .. Len(shipments) \subseteq 0 .. Len(shipments')
  BY DEF Placed, Shipped
<1>2. \A run \in AgentRun : run \in AgentRun'
  BY <1>1 DEF AgentRun
<1>3. \A row \in ShipmentRow : row \in ShipmentRow'
  BY <1>1 DEF ShipmentRow
<1>4. \A request \in Request : request \in Request'
  BY <1>1 DEF Request
<1> QED
  BY <1>1, <1>2, <1>3, <1>4

(* A purchase order is added, or its status written.                       *)
LEMMA OrderAdded ==
    ASSUME TypeInv, NEW row \in OrderRow, orders' = Append(orders, row)
    PROVE  /\ orders' \in Seq(OrderRow) /\ Len(orders') = Len(orders) + 1
           /\ Placed' = Placed \cup {Len(orders) + 1} /\ DOMAIN orders' = Placed'
           /\ \A p \in Placed : orders'[p] = orders[p]
           /\ orders'[Len(orders) + 1] = row /\ Len(orders) + 1 \notin Placed
  BY DEF TypeInv, Placed

LEMMA StatusWritten ==
    ASSUME TypeInv, NEW p \in Placed, NEW status \in {"CREATED", "CONFIRMED", "SHIPPED"},
           orders' = [orders EXCEPT ![p].status = status]
    PROVE  /\ orders' \in Seq(OrderRow) /\ Len(orders') = Len(orders)
           /\ DOMAIN orders' = DOMAIN orders
           /\ \A q \in Placed : orders'[q].req = orders[q].req
<1>1. orders \in Seq(OrderRow) /\ Len(orders) \in Nat /\ DOMAIN orders = Placed
      /\ orders \in [Placed -> OrderRow]
  BY DEF TypeInv, Placed
<1>2. orders[p] \in OrderRow /\ [orders[p] EXCEPT !.status = status] \in OrderRow
      /\ [orders[p] EXCEPT !.status = status].req = orders[p].req
  BY <1>1 DEF OrderRow
<1>3. orders' = [orders EXCEPT ![p] = [orders[p] EXCEPT !.status = status]]
  OBVIOUS
<1>4. orders' \in Seq(OrderRow) /\ Len(orders') = Len(orders) /\ DOMAIN orders' = Placed
  BY <1>1, <1>2, <1>3 DEF Placed
<1>5. \A q \in Placed : orders'[q].req = orders[q].req
  BY <1>1, <1>2, <1>3
<1> QED
  BY <1>1, <1>4, <1>5

(* A shipment is added, or its trailers counted.                           *)
LEMMA ShipmentAdded ==
    ASSUME TypeInv, NEW p \in Placed, NEW by \in Clerk \cup {Agent},
           shipments' = Append(shipments, Shipment(p, by)), UNCHANGED orders
    PROVE  /\ shipments' \in Seq(ShipmentRow') /\ Len(shipments') = Len(shipments) + 1
           /\ Shipped' = Shipped \cup {Len(shipments) + 1} /\ DOMAIN shipments' = Shipped'
           /\ \A i \in Shipped : shipments'[i] = shipments[i]
           /\ shipments'[Len(shipments) + 1] = Shipment(p, by)
           /\ \A q : q # p => ShipmentsOf(q)' = ShipmentsOf(q)
<1>1. Shipment(p, by) \in ShipmentRow /\ ShipmentRow' = ShipmentRow
  BY DEF Shipment, ShipmentRow, Placed
<1>2. /\ shipments' \in Seq(ShipmentRow) /\ Len(shipments') = Len(shipments) + 1
      /\ Shipped' = Shipped \cup {Len(shipments) + 1} /\ DOMAIN shipments' = Shipped'
      /\ DOMAIN shipments = Shipped
      /\ \A i \in Shipped : shipments'[i] = shipments[i]
      /\ shipments'[Len(shipments) + 1] = Shipment(p, by)
  BY <1>1 DEF TypeInv, Shipped
<1>3. Shipment(p, by).po = p
  BY DEF Shipment
<1>4. \A q : q # p => ShipmentsOf(q)' = ShipmentsOf(q)
  BY <1>2, <1>3 DEF ShipmentsOf
<1> QED
  BY <1>1, <1>2, <1>4

LEMMA TrailersCounted ==
    ASSUME TypeInv, NEW i \in Shipped, NEW n \in Nat,
           shipments' = [shipments EXCEPT ![i].trailers = n], UNCHANGED orders
    PROVE  /\ shipments' \in Seq(ShipmentRow') /\ Len(shipments') = Len(shipments)
           /\ DOMAIN shipments' = DOMAIN shipments
           /\ \A j \in Shipped : /\ shipments'[j].po = shipments[j].po
                                 /\ shipments'[j].by = shipments[j].by
           /\ \A q : ShipmentsOf(q)' = ShipmentsOf(q)
<1>0. ShipmentRow' = ShipmentRow
  BY DEF ShipmentRow, Placed
<1>1. /\ shipments \in Seq(ShipmentRow) /\ Len(shipments) \in Nat
      /\ DOMAIN shipments = Shipped /\ shipments \in [Shipped -> ShipmentRow]
  BY DEF TypeInv, Shipped
<1> DEFINE row == [shipments[i] EXCEPT !.trailers = n]
<1>2. row \in ShipmentRow /\ row.po = shipments[i].po /\ row.by = shipments[i].by
  BY <1>1 DEF ShipmentRow
<1>3. shipments' = [shipments EXCEPT ![i] = row]
  OBVIOUS
<1> HIDE DEF row
<1>4. /\ shipments' \in Seq(ShipmentRow) /\ Len(shipments') = Len(shipments)
      /\ DOMAIN shipments' = Shipped
  BY <1>1, <1>2, <1>3 DEF Shipped
<1>5. \A j \in Shipped : shipments'[j].po = shipments[j].po /\ shipments'[j].by = shipments[j].by
  BY <1>1, <1>2, <1>3
<1>6. \A q : ShipmentsOf(q)' = ShipmentsOf(q)
  BY <1>1, <1>4, <1>5 DEF ShipmentsOf
<1> QED
  BY <1>0, <1>1, <1>4, <1>5, <1>6

-----------------------------------------------------------------------------
(* Types, and the agent's call.                                            *)
Typed == TypeInv /\ AgentFollows

LEMMA TypeInit == Init => Typed
<1> SUFFICES ASSUME Init PROVE Typed
  OBVIOUS
<1>1. orders \in Seq(OrderRow) /\ shipments \in Seq(ShipmentRow)
  BY DEF Init
<1>2. ~Calling(Agent) /\ agent.step = "rest" /\ agent \in AgentRun
  BY DEF Init, Calling, Resting, AgentRun, Caller
<1> QED
  BY <1>1, <1>2 DEF Init, Typed, TypeInv, AgentFollows

(* The tables stay as they are, and so do the types.                       *)
LEMMA TypeUntouched ==
    ASSUME TypeInv, UNCHANGED <<orders, shipments>>,
           requisition' \in [Requisition -> {"NONE", "PARSED", "UNCLEAR", "CONVERTED"}],
           alerted' \subseteq Placed, inbox' \subseteq Placed, news' \subseteq Shipped,
           agent' \in AgentRun, agent'.step = "trailer" => agent'.shipment # 0,
           call' \in [Caller -> Request \cup {NoCall}],
           faults' \in Nat, overlaps' \in Nat
    PROVE  TypeInv'
<1>1. ShipmentRow' = ShipmentRow /\ AgentRun' = AgentRun
  BY DEF ShipmentRow, AgentRun, Placed
<1>2. Placed' = Placed /\ Shipped' = Shipped
  BY DEF Placed, Shipped
<1>3. Request' = Request
  BY <1>2 DEF Request
<1> QED
  BY <1>1, <1>2, <1>3 DEF TypeInv

(* A person asks.                                                          *)
LEMMA TypeAsk ==
    ASSUME Typed, NEW c \in Clerk,
           \/ \E r \in Requisition : AskSelect(c, r)
           \/ \E p \in DOMAIN orders : AskConfirm(c, p)
    PROVE  Typed'
<1>1. c \in Caller /\ c # Agent /\ Agent \in Caller
  BY SourcingAssumption DEF Caller
<1>2. PICK request \in Request : Send(c, request)
  <2>1. ASSUME NEW r \in Requisition, AskSelect(c, r)
        PROVE  \E request \in Request : Send(c, request)
    <3> DEFINE request == [op |-> "select", req |-> r,
                           supplier |-> Recommended(Suppliers, BasePrice)]
    <3>1. request \in Request
      BY DEF Request
    <3>2. Send(c, request)
      BY <2>1 DEF AskSelect
    <3> QED
      BY <3>1, <3>2
  <2>2. ASSUME NEW p \in DOMAIN orders, AskConfirm(c, p)
        PROVE  \E request \in Request : Send(c, request)
    <3>1. [op |-> "confirm", po |-> p] \in Request
      BY Counting DEF Request, Typed
    <3> QED
      BY <2>2, <3>1 DEF AskConfirm
  <2> QED
    BY <2>1, <2>2
<1>3. Begins(c) /\ UNCHANGED <<rows, inbox, news, agent, faults>>
  BY DEF AskSelect, AskConfirm
<1>4. TypeInv'
  BY <1>1, <1>2, <1>3, Counting, CallSent, TypeUntouched DEF Typed, TypeInv, rows
<1> QED
  BY <1>1, <1>2, <1>3, <1>4, CallSent DEF Typed, AgentFollows, Calling

LEMMA TypeSelect == ASSUME Typed, NEW c \in Caller, Select(c) PROVE Typed'
<1> DEFINE row == [req |-> call[c].req, supplier |-> call[c].supplier, status |-> "CREATED"]
<1>1. /\ orders' = Append(orders, row)
      /\ requisition' = [requisition EXCEPT ![call[c].req] = "CONVERTED"]
      /\ inbox' = inbox \cup {Len(orders) + 1} /\ Answered(c)
      /\ UNCHANGED <<alerted, shipments, news, agent, faults, overlaps>>
  BY DEF Select
<1>2. call[c].op = "select" /\ row \in OrderRow
  BY RequestFields DEF Select, Typed, OrderRow
<1> HIDE DEF row
<1>3. /\ orders' \in Seq(OrderRow) /\ Len(orders') = Len(orders) + 1
      /\ Placed' = Placed \cup {Len(orders) + 1}
  BY <1>1, <1>2, OrderAdded DEF Typed
<1>4. Len(orders) \in Nat /\ Len(shipments) \in Nat
  BY Counting DEF Typed
<1>5. /\ Placed \subseteq Placed' /\ Shipped \subseteq Shipped'
      /\ \A run \in AgentRun : run \in AgentRun'
      /\ \A s \in ShipmentRow : s \in ShipmentRow'
      /\ \A request \in Request : request \in Request'
  BY <1>1, <1>3, <1>4, TypeGrows
<1>6. call' \in [Caller -> Request' \cup {NoCall}]
  BY <1>1, <1>5, CallAnswered DEF Typed
<1>7. shipments' \in Seq(ShipmentRow')
  BY <1>1, <1>5 DEF Typed, TypeInv
<1>8. requisition' \in [Requisition -> {"NONE", "PARSED", "UNCLEAR", "CONVERTED"}]
  BY <1>1 DEF Typed, TypeInv
<1>9. TypeInv'
  BY <1>1, <1>3, <1>5, <1>6, <1>7, <1>8 DEF Typed, TypeInv
<1>10. Agent \in Caller
  BY DEF Caller
<1> QED
  BY <1>1, <1>9, <1>10, CallAnswered DEF Typed, AgentFollows, Calling

(* A call of the agent that is served lets it go on to the next.           *)
LEMMA AgentGoes ==
    ASSUME Typed, NEW c \in Caller, Answered(c), NEW next, Goes(c, next)
    PROVE  AgentFollows'
<1>1. Agent \in Caller
  BY DEF Caller
<1> QED
  BY <1>1, CallAnswered DEF Typed, AgentFollows, Calling, Goes

LEMMA TypeConfirm == ASSUME Typed, NEW c \in Caller, Confirm(c) PROVE Typed'
<1>1. PICK p \in Placed : p = call[c].po
  BY RequestFields DEF Confirm, Typed
<1>2. /\ orders' = [orders EXCEPT ![p].status = "CONFIRMED"]
      /\ Goes(c, [agent EXCEPT !.step = "ship"]) /\ Answered(c)
      /\ UNCHANGED <<requisition, alerted, shipments, inbox, news, faults, overlaps>>
  BY <1>1 DEF Confirm
<1>3. orders' \in Seq(OrderRow) /\ Len(orders') = Len(orders)
  BY <1>2, StatusWritten DEF Typed
<1>4. /\ Placed' = Placed /\ Shipped' = Shipped
      /\ AgentRun' = AgentRun /\ ShipmentRow' = ShipmentRow
  BY <1>2, <1>3 DEF Placed, Shipped, AgentRun, ShipmentRow
<1>5. Request' = Request
  BY <1>4 DEF Request
<1>6. agent' \in AgentRun /\ (agent'.step = "trailer" => agent'.shipment # 0)
  <2>1. CASE c # Agent
    BY <1>2, <2>1 DEF Goes, Typed, TypeInv
  <2>2. CASE c = Agent
    <3>1. agent.step = "confirm" /\ agent' = [agent EXCEPT !.step = "ship"]
      BY <1>2, <2>2 DEF Goes, Confirm, Typed, AgentFollows, Calling, NoCall
    <3> QED
      BY <3>1, AgentFields DEF Typed, AgentRun
  <2> QED
    BY <2>1, <2>2
<1>7. TypeInv'
  BY <1>2, <1>3, <1>4, <1>5, <1>6, CallAnswered DEF Typed, TypeInv
<1> QED
  BY <1>2, <1>7, AgentGoes DEF Typed

LEMMA TypeShip == ASSUME Typed, NEW c \in Caller, Ship(c) PROVE Typed'
<1>1. PICK p \in Placed : p = call[c].po
  BY RequestFields DEF Ship, Typed
<1>2. /\ shipments' = Append(shipments, Shipment(p, Agent))
      /\ news' = news \cup {Len(shipments) + 1}
      /\ Goes(c, [agent EXCEPT !.step = "trailer", !.shipment = Len(shipments) + 1])
      /\ Answered(c)
      /\ UNCHANGED <<requisition, orders, alerted, inbox, faults, overlaps>>
  BY <1>1 DEF Ship
<1>3. /\ shipments' \in Seq(ShipmentRow') /\ Len(shipments') = Len(shipments) + 1
      /\ Shipped' = Shipped \cup {Len(shipments) + 1}
  BY <1>2, ShipmentAdded DEF Typed
<1>4. Len(orders) \in Nat /\ Len(shipments) \in Nat
  BY Counting DEF Typed
<1>5. /\ Placed' = Placed /\ Shipped \subseteq Shipped'
      /\ \A run \in AgentRun : run \in AgentRun'
      /\ \A request \in Request : request \in Request'
  BY <1>2, <1>3, <1>4, TypeGrows DEF Placed
<1>6. call' \in [Caller -> Request' \cup {NoCall}]
  BY <1>2, <1>5, CallAnswered DEF Typed
<1>7. agent' \in AgentRun' /\ (agent'.step = "trailer" => agent'.shipment # 0)
  <2>1. CASE c # Agent
    BY <1>2, <1>5, <2>1 DEF Goes, Typed, TypeInv
  <2>2. CASE c = Agent
    <3>1. /\ agent.step = "ship"
          /\ agent' = [agent EXCEPT !.step = "trailer", !.shipment = Len(shipments) + 1]
      BY <1>2, <2>2 DEF Goes, Ship, Typed, AgentFollows, Calling, NoCall
    <3>2. agent' = [po |-> agent.po, shipment |-> Len(shipments) + 1, step |-> "trailer"]
      BY <3>1, AgentFields DEF Typed
    <3>3. agent.po \in Placed' /\ Len(shipments) + 1 \in 0 .. Len(shipments')
      BY <1>3, <1>4, <1>5, <3>1, AgentFields DEF Typed
    <3> QED
      BY <1>4, <3>2, <3>3 DEF AgentRun
  <2> QED
    BY <2>1, <2>2
<1>8. TypeInv'
  BY <1>2, <1>3, <1>5, <1>6, <1>7 DEF Typed, TypeInv
<1> QED
  BY <1>2, <1>8, AgentGoes DEF Typed

LEMMA TypeSendTrailer == ASSUME Typed, NEW c \in Caller, SendTrailer(c) PROVE Typed'
<1>1. PICK i \in Shipped : i = call[c].shipment
  BY RequestFields DEF SendTrailer, Typed
<1>2. /\ shipments' = [shipments EXCEPT ![i].trailers = @ + 1]
      /\ Goes(c, [agent EXCEPT !.step = "done"]) /\ Answered(c)
      /\ UNCHANGED <<requisition, orders, alerted, inbox, news, faults, overlaps>>
  BY <1>1 DEF SendTrailer
<1>3. PICK n \in Nat : shipments' = [shipments EXCEPT ![i].trailers = n]
  <2>1. shipments[i] \in ShipmentRow
    BY DEF Typed, TypeInv, Shipped
  <2>2. shipments[i].trailers + 1 \in Nat
    BY <2>1 DEF ShipmentRow
  <2> QED
    BY <1>2, <2>2
<1>4. shipments' \in Seq(ShipmentRow') /\ Len(shipments') = Len(shipments)
  BY <1>2, <1>3, TrailersCounted DEF Typed
<1>5. /\ Placed' = Placed /\ Shipped' = Shipped /\ AgentRun' = AgentRun
  BY <1>2, <1>4 DEF Placed, Shipped, AgentRun
<1>6. Request' = Request
  BY <1>5 DEF Request
<1>7. agent' \in AgentRun /\ (agent'.step = "trailer" => agent'.shipment # 0)
  <2>1. CASE c # Agent
    BY <1>2, <2>1 DEF Goes, Typed, TypeInv
  <2>2. CASE c = Agent
    <3>1. agent.step = "trailer" /\ agent' = [agent EXCEPT !.step = "done"]
      BY <1>2, <2>2 DEF Goes, SendTrailer, Typed, AgentFollows, Calling, NoCall
    <3> QED
      BY <3>1, AgentFields DEF Typed, AgentRun
  <2> QED
    BY <2>1, <2>2
<1>8. TypeInv'
  BY <1>2, <1>4, <1>5, <1>6, <1>7, CallAnswered DEF Typed, TypeInv
<1> QED
  BY <1>2, <1>8, AgentGoes DEF Typed

(* A person ships, or sends a truck.                                       *)
LEMMA TypePersonShips ==
    ASSUME Typed, NEW c \in Clerk, NEW p \in Placed, PersonShips(c, p)
    PROVE  Typed'
<1>1. /\ shipments' = Append(shipments, Shipment(p, c))
      /\ news' = news \cup {Len(shipments) + 1} /\ Begins(c)
      /\ UNCHANGED <<requisition, orders, alerted, inbox, agent, call, faults>>
  BY DEF PersonShips
<1>2. /\ shipments' \in Seq(ShipmentRow') /\ Len(shipments') = Len(shipments) + 1
      /\ Shipped' = Shipped \cup {Len(shipments) + 1}
  BY <1>1, ShipmentAdded DEF Typed
<1>3. Len(orders) \in Nat /\ Len(shipments) \in Nat /\ overlaps' \in Nat
  BY <1>1, Counting DEF Typed
<1>4. /\ Placed' = Placed /\ Shipped \subseteq Shipped'
      /\ \A run \in AgentRun : run \in AgentRun'
      /\ \A request \in Request : request \in Request'
  BY <1>1, <1>2, <1>3, TypeGrows DEF Placed
<1>5. call' \in [Caller -> Request' \cup {NoCall}] /\ agent' \in AgentRun'
  BY <1>1, <1>4 DEF Typed, TypeInv
<1> QED
  BY <1>1, <1>2, <1>3, <1>4, <1>5 DEF Typed, TypeInv, AgentFollows, Calling

LEMMA TypePersonSendsTrailer ==
    ASSUME Typed, NEW c \in Clerk, NEW i \in Shipped, PersonSendsTrailer(c, i)
    PROVE  Typed'
<1>1. /\ shipments' = [shipments EXCEPT ![i].trailers = 1] /\ Begins(c)
      /\ UNCHANGED <<requisition, orders, alerted, inbox, news, agent, call, faults>>
  BY DEF PersonSendsTrailer
<1>2. shipments' \in Seq(ShipmentRow') /\ Len(shipments') = Len(shipments)
  BY <1>1, TrailersCounted DEF Typed
<1>3. Placed' = Placed /\ Shipped' = Shipped /\ AgentRun' = AgentRun /\ overlaps' \in Nat
  BY <1>1, <1>2, Counting DEF Placed, Shipped, AgentRun, Typed
<1>4. Request' = Request
  BY <1>3 DEF Request
<1> QED
  BY <1>1, <1>2, <1>3, <1>4 DEF Typed, TypeInv, AgentFollows, Calling

LEMMA TypeCallFails == ASSUME Typed, NEW c \in Caller, CallFails(c) PROVE Typed'
<1>1. /\ Fault /\ Answered(c) /\ Goes(c, Resting)
      /\ UNCHANGED <<rows, inbox, news, overlaps>>
  BY DEF CallFails
<1>2. agent' \in AgentRun /\ (agent'.step = "trailer" => agent'.shipment # 0)
  BY <1>1 DEF Goes, Typed, TypeInv, AgentRun, Resting
<1>3. TypeInv'
  BY <1>1, <1>2, Counting, CallAnswered, TypeUntouched DEF Typed, TypeInv, rows
<1> QED
  BY <1>1, <1>3, AgentGoes DEF Typed

(* The PO of a shipment is there.                                          *)
LEMMA ShipmentNamesOrder ==
    ASSUME TypeInv, NEW i \in Shipped
    PROVE  shipments[i].po \in Placed
<1>1. shipments[i] \in ShipmentRow
  BY DEF TypeInv, Shipped
<1> QED
  BY <1>1 DEF ShipmentRow

LEMMA TypeNoteShipment == ASSUME Typed, NEW i \in news, NoteShipment(i) PROVE Typed'
<1>1. PICK p \in Placed : p = shipments[i].po
  BY ShipmentNamesOrder DEF Typed, TypeInv
<1>2. /\ orders' = [orders EXCEPT ![p].status = "SHIPPED"] /\ news' = news \ {i}
      /\ UNCHANGED <<requisition, alerted, shipments, inbox, agent, call, faults, overlaps>>
  BY <1>1 DEF NoteShipment
<1>3. orders' \in Seq(OrderRow) /\ Len(orders') = Len(orders)
  BY <1>2, StatusWritten DEF Typed
<1>4. /\ Placed' = Placed /\ Shipped' = Shipped
      /\ AgentRun' = AgentRun /\ ShipmentRow' = ShipmentRow
  BY <1>2, <1>3 DEF Placed, Shipped, AgentRun, ShipmentRow
<1>5. Request' = Request
  BY <1>4 DEF Request
<1> QED
  BY <1>2, <1>3, <1>4, <1>5 DEF Typed, TypeInv, AgentFollows, Calling

(* The agent's own steps touch no table but the alerts.                    *)
LEMMA TypeAgentReads ==
    ASSUME Typed, NEW p \in inbox, Skip(p) \/ Decline(p) \/ Accept(p)
    PROVE  Typed'
<1>1. p \in Placed /\ agent = Resting /\ agent.step = "rest"
  BY DEF Typed, TypeInv, Skip, Decline, Accept, Resting
<1>2. UNCHANGED <<requisition, orders, shipments, news, call, faults>>
  BY DEF Skip, Decline, Accept, rows
<1>3. inbox' \subseteq Placed /\ alerted' \subseteq Placed /\ overlaps' \in Nat
  BY <1>1, Counting DEF Skip, Decline, Accept, Typed, TypeInv, Handled, rows
<1>4. agent' \in AgentRun /\ agent'.step # "trailer"
  <2>1. CASE Skip(p) \/ Decline(p)
    BY <1>1, <2>1 DEF Skip, Decline, Typed, TypeInv
  <2>2. CASE Accept(p)
    BY <1>1, <2>2, Counting DEF Accept, AgentRun, Typed
  <2> QED
    BY <2>1, <2>2
<1>5. TypeInv'
  BY <1>2, <1>3, <1>4, TypeUntouched DEF Typed, TypeInv
<1>6. ~Calling(Agent)
  BY <1>1, RequestFields DEF Typed, AgentFollows, Caller, Calling, NoCall
<1> QED
  BY <1>2, <1>5, <1>6 DEF Typed, AgentFollows, Calling

LEMMA TypeAgentCalls == ASSUME Typed, AgentCalls PROVE Typed'
<1>1. /\ agent.step \in {"confirm", "ship", "trailer"} /\ ~Calling(Agent)
      /\ UNCHANGED <<rows, inbox, news, faults, overlaps>>
  BY DEF AgentCalls
<1>2. CASE agent.step = "confirm" /\ ~MayConfirm(agent.po)
  <2>1. agent' = [agent EXCEPT !.step = "ship"] /\ UNCHANGED call
    BY <1>2 DEF AgentCalls
  <2>2. agent' \in AgentRun /\ agent'.step = "ship"
    BY <1>1, <2>1, AgentFields DEF AgentRun, Typed
  <2>3. TypeInv'
    BY <1>1, <2>1, <2>2, TypeUntouched DEF Typed, TypeInv, rows
  <2> QED
    BY <1>1, <2>1, <2>3 DEF Typed, AgentFollows, Calling
<1>3. CASE ~(agent.step = "confirm" /\ ~MayConfirm(agent.po))
  <2> DEFINE request == IF agent.step = "trailer"
                        THEN [op |-> "trailer", shipment |-> agent.shipment]
                        ELSE [op |-> agent.step, po |-> agent.po]
  <2>1. Send(Agent, request) /\ UNCHANGED agent
    BY <1>3 DEF AgentCalls
  <2>2. /\ request \in Request /\ request.op = agent.step
        /\ agent.step \in {"confirm", "ship"} => request.po = agent.po
    <3>1. CASE agent.step = "trailer"
      <4>1. agent.shipment \in Shipped
        BY <3>1, AgentFields DEF Typed, TypeInv, Shipped
      <4> QED
        BY <3>1, <4>1 DEF Request
    <3>2. CASE agent.step # "trailer"
      <4>1. agent.po \in Placed /\ agent.step \in {"confirm", "ship"}
        BY <1>1, <3>2, AgentFields DEF Typed
      <4> QED
        BY <3>2, <4>1 DEF Request
    <3> QED
      BY <3>1, <3>2
  <2>3. Agent \in Caller
    BY DEF Caller
  <2> HIDE DEF request
  <2>4. TypeInv'
    BY <1>1, <2>1, <2>2, <2>3, CallSent, TypeUntouched DEF Typed, TypeInv, rows
  <2>5. call'[Agent] = request
    BY <2>1, <2>3, CallSent DEF Typed
  <2> QED
    BY <2>1, <2>2, <2>4, <2>5 DEF Typed, AgentFollows
<1> QED
  BY <1>2, <1>3

LEMMA TypeAgentEnds == ASSUME Typed, AgentCommits \/ AgentGivesUp PROVE Typed'
<1>1. Agent \in Caller /\ Late \in Caller /\ Agent # Late
  BY DEF Caller, Agent, Late
<1>2. /\ agent' = Resting /\ inbox' \subseteq inbox
      /\ UNCHANGED <<rows, news, overlaps>> /\ faults' \in Nat
  BY Counting DEF AgentCommits, AgentGivesUp, Handled, Typed, TypeInv
<1>3. agent' \in AgentRun /\ agent'.step = "rest"
  BY <1>2 DEF AgentRun, Resting
<1>4. call' \in [Caller -> Request \cup {NoCall}] /\ call'[Agent] = NoCall
  <2>1. CASE AgentCommits
    BY <1>1, <2>1, RequestFields
       DEF AgentCommits, Typed, TypeInv, AgentFollows, Calling
  <2>2. CASE AgentGivesUp
    BY <1>1, <2>2 DEF AgentGivesUp, Typed, TypeInv
  <2> QED
    BY <2>1, <2>2
<1>5. TypeInv'
  BY <1>2, <1>3, <1>4, TypeUntouched DEF Typed, TypeInv, rows
<1> QED
  BY <1>4, <1>5 DEF Typed, AgentFollows, Calling

LEMMA TypeNext == Typed /\ [Next]_vars => Typed'
<1> SUFFICES ASSUME Typed, [Next]_vars PROVE Typed'
  OBVIOUS
<1>1. ASSUME NEW r \in Requisition, CreateRequisition(r) PROVE Typed'
  <2>1. /\ requisition' \in [Requisition -> {"NONE", "PARSED", "UNCLEAR", "CONVERTED"}]
        /\ UNCHANGED <<orders, alerted, shipments, inbox, news, agent, call, faults, overlaps>>
    BY <1>1 DEF CreateRequisition, Typed, TypeInv
  <2> QED
    BY <2>1, TypeUntouched DEF Typed, TypeInv, AgentFollows, Calling
<1>2. ASSUME NEW c \in Clerk, Person(c) PROVE Typed'
  <2>1. DOMAIN orders = Placed /\ DOMAIN shipments = Shipped
    BY Counting DEF Typed
  <2> QED
    BY <1>2, <2>1, TypeAsk, TypePersonShips, TypePersonSendsTrailer DEF Person
<1>3. ASSUME NEW c \in Caller, Serves(c) \/ CallFails(c) PROVE Typed'
  BY <1>3, TypeSelect, TypeConfirm, TypeShip, TypeSendTrailer, TypeCallFails DEF Serves
<1>4. CASE UNCHANGED vars
  BY <1>4, TypeUntouched DEF vars, rows, Typed, TypeInv, AgentFollows, Calling
<1> QED
  BY <1>1, <1>2, <1>3, <1>4, TypeNoteShipment, TypeAgentReads, TypeAgentCalls, TypeAgentEnds
     DEF Next, AgentSteps

-----------------------------------------------------------------------------
(* Requests that do not overlap.                                           *)
Lone == Alone /\ SelectsOnce /\ ShipsOnce

LEMMA WhoIsEngaged ==
    ASSUME NEW c
    PROVE  c \in Engaged <=> (c \in Caller /\ Calling(c)) \/ (c = Agent /\ agent # Resting)
<1>1. CASE agent = Resting
  BY <1>1 DEF Engaged
<1>2. CASE agent # Resting
  BY <1>2 DEF Engaged
<1> QED
  BY <1>1, <1>2

(* Who begins without overlapping begins alone.                            *)
LEMMA BeginsAlone ==
    ASSUME IInv, overlaps' = 0, NEW c, Begins(c)
    PROVE  Lone /\ Engaged \subseteq {c}
<1>1. overlaps \in Nat
  BY DEF IInv, TypeInv
<1>2. Engaged \ {c} = {} /\ overlaps = 0
  BY <1>1 DEF Begins
<1> QED
  BY <1>2 DEF IInv, Lone

(* What a step must not do to keep requisitions in order.                  *)
LEMMA SelectsKept ==
    ASSUME SelectsOnce, UNCHANGED requisition, DOMAIN orders' = DOMAIN orders,
           \A p \in DOMAIN orders : orders'[p].req = orders[p].req,
           \A c \in Caller : call'[c].op = "select" =>
               \E d \in Caller : call'[c] = call[d]
    PROVE  SelectsOnce'
  BY DEF SelectsOnce

(* The same for shipments.                                                 *)
LEMMA ShipsKept ==
    ASSUME ShipsOnce, DOMAIN shipments' = DOMAIN shipments,
           \A i \in DOMAIN shipments : /\ shipments'[i].po = shipments[i].po
                                      /\ shipments'[i].by = shipments[i].by,
           agent'.step \in {"confirm", "ship"} =>
               agent.step \in {"confirm", "ship"} /\ agent'.po = agent.po,
           \A c \in Caller : call'[c].op = "ship" =>
               \/ \E d \in Caller : call'[c] = call[d]
               \/ agent.step = "ship" /\ call'[c].po = agent.po
    PROVE  ShipsOnce'
<1>1. \A p : ShipmentsOf(p)' = ShipmentsOf(p)
  BY DEF ShipmentsOf
<1> QED
  BY <1>1 DEF ShipsOnce

(* And for being alone.                                                    *)
LEMMA AloneKept ==
    ASSUME Alone \/ \E c : Engaged \subseteq {c},
           \/ \A d : d \in Engaged' => d \in Engaged
           \/ \E c : Engaged' \subseteq {c}
    PROVE  Alone'
  BY DEF Alone

LEMMA LoneInit == Init => IInv
<1> SUFFICES ASSUME Init PROVE IInv
  OBVIOUS
<1>1. Engaged = {}
  BY DEF Init, Engaged, Calling
<1>2. Alone /\ SelectsOnce /\ ShipsOnce
  BY <1>1 DEF Init, Alone, SelectsOnce, ShipsOnce, NoCall, Resting
<1> QED
  BY <1>2, TypeInit DEF IInv, Typed

LEMMA LoneAsk ==
    ASSUME IInv, overlaps' = 0, NEW c \in Clerk,
           \/ \E r \in Requisition : AskSelect(c, r)
           \/ \E p \in DOMAIN orders : AskConfirm(c, p)
    PROVE  Lone'
<1>1. c \in Caller /\ c # Agent
  BY SourcingAssumption DEF Caller
<1>2. Begins(c) /\ UNCHANGED <<rows, agent>>
  BY DEF AskSelect, AskConfirm
<1>3. Lone /\ Engaged \subseteq {c}
  BY <1>2, BeginsAlone
<1>4. PICK request : /\ \A d \in Caller : call'[d] = IF d = c THEN request ELSE call[d]
                     /\ \/ request.op = "select" /\ requisition[request.req] = "PARSED"
                        \/ request.op = "confirm"
  <2>1. ASSUME NEW r \in Requisition, AskSelect(c, r)
        PROVE  \E request : /\ Send(c, request)
                            /\ request.op = "select" /\ requisition[request.req] = "PARSED"
    BY <2>1 DEF AskSelect, MaySelect
  <2>2. ASSUME NEW p \in DOMAIN orders, AskConfirm(c, p)
        PROVE  \E request : Send(c, request) /\ request.op = "confirm"
    BY <2>2 DEF AskConfirm
  <2> QED
    BY <1>1, <2>1, <2>2, CallSent DEF IInv
<1>5. Engaged' \subseteq {c}
  BY <1>1, <1>2, <1>3, <1>4, WhoIsEngaged DEF Calling, Engaged
<1>6. SelectsOnce'
  BY <1>2, <1>3, <1>4 DEF Lone, SelectsOnce, rows
<1>7. ShipsOnce'
  BY <1>2, <1>3, <1>4, ShipsKept DEF Lone, rows
<1> QED
  BY <1>3, <1>5, <1>6, <1>7, AloneKept DEF Lone

(* An answer leaves no one engaged but the agent, if it was its call.      *)
LEMMA AnswerEngages ==
    ASSUME TypeInv, NEW c \in Caller, Calling(c), Answered(c),
           \E next : Goes(c, next)
    PROVE  Engaged' \subseteq Engaged
<1>1. \A d \in Caller : Calling(d)' => Calling(d)
  BY CallAnswered DEF Calling
<1>2. agent' # Resting => agent # Resting \/ c = Agent
  BY DEF Goes
<1> QED
  BY <1>1, <1>2, WhoIsEngaged DEF Engaged, Caller

LEMMA LoneSelect == ASSUME IInv, overlaps = 0, NEW c \in Caller, Select(c) PROVE Lone'
<1> DEFINE row == [req |-> call[c].req, supplier |-> call[c].supplier, status |-> "CREATED"]
<1>1. /\ orders' = Append(orders, row) /\ call[c].op = "select"
      /\ requisition' = [requisition EXCEPT ![call[c].req] = "CONVERTED"]
      /\ Answered(c) /\ UNCHANGED <<shipments, agent>>
  BY DEF Select
<1>2. Lone /\ TypeInv
  BY DEF IInv, Lone
<1>3. PICK r \in Requisition : r = call[c].req /\ requisition[r] = "PARSED"
  BY <1>1, <1>2, RequestFields DEF Lone, SelectsOnce
<1>4. row \in OrderRow /\ row.req = r
  BY <1>1, <1>2, <1>3, RequestFields DEF OrderRow
<1> HIDE DEF row
<1>5. /\ DOMAIN orders' = Placed \cup {Len(orders) + 1} /\ DOMAIN orders = Placed
      /\ \A p \in Placed : orders'[p] = orders[p]
      /\ orders'[Len(orders) + 1].req = r /\ Len(orders) + 1 \notin Placed
  BY <1>1, <1>2, <1>4, OrderAdded, Counting
<1>6. \A p \in Placed : orders[p].req # r
  BY <1>2, <1>3, <1>5 DEF Lone, SelectsOnce
<1>7. \A q \in Requisition : requisition'[q] = IF q = r THEN "CONVERTED" ELSE requisition[q]
  BY <1>1, <1>2, <1>3 DEF TypeInv
<1>8. Calling(c) /\ \A d \in Caller : Calling(d) => d = c
  <2>1. Calling(c)
    BY <1>1, <1>2, RequestFields
  <2>2. ASSUME NEW d \in Caller, Calling(d) PROVE d = c
    <3>1. c \in Engaged /\ d \in Engaged
      BY <2>1, <2>2, WhoIsEngaged
    <3> QED
      BY <1>2, <3>1 DEF Lone, Alone
  <2> QED
    BY <2>1, <2>2
<1>9. \A d \in Caller : ~Calling(d)'
  BY <1>1, <1>2, <1>8, CallAnswered DEF Calling
<1>10. SelectsOnce'
  <2>1. \A d \in Caller : call'[d].op # "select" /\ call'[d].op # "ship"
    BY <1>9 DEF Calling, NoCall
  <2>2. ASSUME NEW q \in Requisition
        PROVE  requisition'[q] = "CONVERTED" <=> \E p \in DOMAIN orders' : orders'[p].req = q
    <3>1. requisition[q] = "CONVERTED" <=> \E p \in Placed : orders[p].req = q
      BY <1>2, <1>5 DEF Lone, SelectsOnce
    <3> QED
      BY <1>5, <1>7, <3>1
  <2>3. \A p, q \in DOMAIN orders' : orders'[p].req = orders'[q].req => p = q
    BY <1>2, <1>5, <1>6 DEF Lone, SelectsOnce
  <2> QED
    BY <2>1, <2>2, <2>3 DEF SelectsOnce
<1>11. ShipsOnce'
  <2>1. \A d \in Caller : call'[d].op # "ship"
    BY <1>9 DEF Calling, NoCall
  <2> QED
    BY <1>1, <1>2, <2>1, ShipsKept DEF Lone
<1>12. Engaged' \subseteq Engaged
  BY <1>1, <1>9, WhoIsEngaged DEF Engaged
<1> QED
  BY <1>2, <1>10, <1>11, <1>12, AloneKept DEF Lone

(* An answered call is gone, the others are what they were.                *)
LEMMA AnsweredCalls ==
    ASSUME TypeInv, NEW c \in Caller, Answered(c), NEW d \in Caller,
           call'[d].op \in {"select", "ship"}
    PROVE  d # c /\ call'[d] = call[d]
  BY CallAnswered DEF NoCall

LEMMA LoneConfirm == ASSUME IInv, overlaps = 0, NEW c \in Caller, Confirm(c) PROVE Lone'
<1>1. PICK p \in Placed : p = call[c].po
  BY RequestFields DEF Confirm, IInv
<1>2. /\ orders' = [orders EXCEPT ![p].status = "CONFIRMED"]
      /\ call[c].op = "confirm" /\ Goes(c, [agent EXCEPT !.step = "ship"])
      /\ Answered(c) /\ UNCHANGED <<requisition, shipments>>
  BY <1>1 DEF Confirm
<1>3. Lone /\ TypeInv /\ AgentFollows /\ Calling(c)
  BY <1>2, RequestFields DEF IInv, Lone
<1>4. SelectsOnce'
  <2>1. DOMAIN orders' = DOMAIN orders /\ \A q \in DOMAIN orders : orders'[q].req = orders[q].req
    BY <1>2, <1>3, StatusWritten, Counting
  <2>2. \A d \in Caller : call'[d].op = "select" => call'[d] = call[d]
    BY <1>2, <1>3, AnsweredCalls
  <2> QED
    BY <1>2, <1>3, <2>1, <2>2, SelectsKept DEF Lone
<1>5. ShipsOnce'
  <2>1. ASSUME agent'.step \in {"confirm", "ship"}
        PROVE  agent.step \in {"confirm", "ship"} /\ agent'.po = agent.po
    <3>1. CASE c # Agent
      BY <1>2, <2>1, <3>1 DEF Goes
    <3>2. CASE c = Agent
      <4>1. agent.step = "confirm"
        BY <1>2, <1>3, <3>2 DEF AgentFollows
      <4>2. agent'.po = agent.po
        BY <1>2, <1>3, <3>2, <4>1, AgentFields DEF Goes
      <4> QED
        BY <4>1, <4>2
    <3> QED
      BY <3>1, <3>2
  <2>2. \A d \in Caller : call'[d].op = "ship" => call'[d] = call[d]
    BY <1>2, <1>3, AnsweredCalls
  <2> QED
    BY <1>2, <1>3, <2>1, <2>2, ShipsKept DEF Lone
<1>6. Engaged' \subseteq Engaged
  BY <1>2, <1>3, AnswerEngages
<1> QED
  BY <1>3, <1>4, <1>5, <1>6, AloneKept DEF Lone

(* A shipment is added for a PO that has none, and that nobody else is     *)
(* about to ship; or by a person, when nobody is engaged.                  *)
LEMMA NewShipment ==
    ASSUME TypeInv, ShipsOnce, NEW p \in Placed, NEW by \in Clerk \cup {Agent},
           shipments' = Append(shipments, Shipment(p, by)), UNCHANGED orders,
           by = Agent => ShipmentsOf(p) = {},
           agent'.step \notin {"confirm", "ship"},
           \A c \in Caller : call'[c].op # "ship"
    PROVE  ShipsOnce'
<1>1. /\ DOMAIN shipments' = Shipped \cup {Len(shipments) + 1} /\ DOMAIN shipments = Shipped
      /\ \A i \in Shipped : shipments'[i] = shipments[i]
      /\ shipments'[Len(shipments) + 1] = Shipment(p, by)
      /\ Len(shipments) \in Nat /\ Shipped = 1 .. Len(shipments)
  BY ShipmentAdded, Counting DEF Shipped
<1>2. Shipment(p, by).po = p /\ Shipment(p, by).by = by
  BY DEF Shipment
<1>3. ASSUME NEW i \in DOMAIN shipments', NEW j \in DOMAIN shipments', i < j,
             shipments'[i].po = shipments'[j].po
      PROVE  shipments'[j].by # Agent
  <2>1. i \in Shipped
    BY <1>1, <1>3
  <2>2. CASE j \in Shipped
    BY <1>1, <1>3, <2>1, <2>2 DEF ShipsOnce
  <2>3. CASE j \notin Shipped
    <3>1. j = Len(shipments) + 1 /\ shipments[i].po = p
      BY <1>1, <1>2, <1>3, <2>1, <2>3
    <3>2. i \in ShipmentsOf(p)
      BY <1>1, <2>1, <3>1 DEF ShipmentsOf
    <3> QED
      BY <1>1, <1>2, <3>1, <3>2
  <2> QED
    BY <2>2, <2>3
<1> QED
  BY <1>3 DEF ShipsOnce

LEMMA LoneShip == ASSUME IInv, overlaps = 0, NEW c \in Caller, Ship(c) PROVE Lone'
<1>1. PICK p \in Placed : p = call[c].po
  BY RequestFields DEF Ship, IInv
<1>2. /\ shipments' = Append(shipments, Shipment(p, Agent)) /\ call[c].op = "ship"
      /\ Goes(c, [agent EXCEPT !.step = "trailer", !.shipment = Len(shipments) + 1])
      /\ Answered(c) /\ UNCHANGED <<requisition, orders>>
  BY <1>1 DEF Ship
<1>3. Lone /\ TypeInv /\ AgentFollows /\ Calling(c)
  BY <1>2, RequestFields DEF IInv, Lone
<1>4. SelectsOnce'
  <2>1. \A d \in Caller : call'[d].op = "select" => call'[d] = call[d]
    BY <1>2, <1>3, AnsweredCalls
  <2> QED
    BY <1>2, <1>3, <2>1, SelectsKept DEF Lone
<1>5. \A d \in Engaged : d = c
  BY <1>3, WhoIsEngaged DEF Lone, Alone
<1>6. \A d \in Caller : call'[d].op # "ship"
  <2>1. \A d \in Caller : call[d].op = "ship" => d = c
    BY <1>3, <1>5, RequestFields, WhoIsEngaged
  <2> QED
    BY <1>2, <1>3, <2>1, AnsweredCalls
<1>7. agent'.step \notin {"confirm", "ship"}
  <2>1. CASE c = Agent
    <3>1. agent.step = "ship"
      BY <1>2, <1>3, <2>1 DEF AgentFollows
    <3> QED
      BY <1>2, <1>3, <2>1, <3>1, AgentFields DEF Goes
  <2>2. CASE c # Agent
    <3>1. agent = Resting
      BY <1>5, <2>2, WhoIsEngaged
    <3> QED
      BY <1>2, <2>2, <3>1 DEF Goes, Resting
  <2> QED
    BY <2>1, <2>2
<1>8. ShipmentsOf(p) = {}
  BY <1>1, <1>2, <1>3 DEF Lone, ShipsOnce
<1>9. ShipsOnce'
  BY <1>2, <1>3, <1>6, <1>7, <1>8, NewShipment DEF Lone
<1>10. Engaged' \subseteq Engaged
  BY <1>2, <1>3, AnswerEngages
<1> QED
  BY <1>3, <1>4, <1>9, <1>10, AloneKept DEF Lone

LEMMA LonePersonShips ==
    ASSUME IInv, overlaps' = 0, NEW c \in Clerk, NEW p \in Placed, PersonShips(c, p)
    PROVE  Lone'
<1>1. /\ shipments' = Append(shipments, Shipment(p, c)) /\ ~Calling(c) /\ Begins(c)
      /\ UNCHANGED <<requisition, orders, agent, call>>
  BY DEF PersonShips
<1>2. Lone /\ Engaged \subseteq {c} /\ TypeInv
  BY <1>1, BeginsAlone DEF IInv
<1>3. c # Agent
  BY SourcingAssumption
<1>4. agent = Resting /\ \A d \in Caller : ~Calling(d)
  BY <1>1, <1>2, <1>3, WhoIsEngaged
<1>5. SelectsOnce'
  BY <1>1, <1>2, SelectsKept DEF Lone
<1>6. \A d \in Caller : call'[d].op # "ship"
  BY <1>1, <1>2, <1>4, RequestFields
<1>7. agent'.step \notin {"confirm", "ship"}
  BY <1>1, <1>4 DEF Resting
<1>8. ShipsOnce'
  BY <1>1, <1>2, <1>3, <1>6, <1>7, NewShipment DEF Lone
<1>9. Engaged' = Engaged
  BY <1>1 DEF Engaged, Calling
<1> QED
  BY <1>2, <1>5, <1>8, <1>9, AloneKept DEF Lone

(* The trailers of a shipment are counted: nothing else depends on them.    *)
LEMMA LoneTrailer ==
    ASSUME IInv, NEW i \in Shipped, NEW n \in Nat,
           shipments' = [shipments EXCEPT ![i].trailers = n],
           UNCHANGED <<requisition, orders>>,
           agent'.step \in {"confirm", "ship"} =>
               agent.step \in {"confirm", "ship"} /\ agent'.po = agent.po,
           \A d \in Caller : call'[d].op \in {"select", "ship"} => call'[d] = call[d],
           Lone, Engaged' \subseteq Engaged
    PROVE  Lone'
<1>1. /\ DOMAIN shipments' = DOMAIN shipments
      /\ \A j \in DOMAIN shipments : /\ shipments'[j].po = shipments[j].po
                                     /\ shipments'[j].by = shipments[j].by
  BY TrailersCounted, Counting DEF IInv
<1>2. ShipsOnce'
  BY <1>1, ShipsKept DEF Lone
<1>3. SelectsOnce'
  BY SelectsKept DEF Lone
<1> QED
  BY <1>2, <1>3, AloneKept DEF Lone

LEMMA LoneSendTrailer ==
    ASSUME IInv, overlaps = 0, NEW c \in Caller, SendTrailer(c)
    PROVE  Lone'
<1>1. PICK i \in Shipped : i = call[c].shipment
  BY RequestFields DEF SendTrailer, IInv
<1>2. /\ shipments' = [shipments EXCEPT ![i].trailers = @ + 1] /\ call[c].op = "trailer"
      /\ Goes(c, [agent EXCEPT !.step = "done"]) /\ Answered(c)
      /\ UNCHANGED <<requisition, orders>>
  BY <1>1 DEF SendTrailer
<1>3. Lone /\ TypeInv /\ AgentFollows /\ Calling(c)
  BY <1>2, RequestFields DEF IInv, Lone
<1>4. PICK n \in Nat : shipments' = [shipments EXCEPT ![i].trailers = n]
  <2>1. shipments[i] \in ShipmentRow
    BY <1>3 DEF TypeInv, Shipped
  <2>2. shipments[i].trailers + 1 \in Nat
    BY <2>1 DEF ShipmentRow
  <2> QED
    BY <1>2, <2>2
<1>5. ASSUME agent'.step \in {"confirm", "ship"}
      PROVE  agent.step \in {"confirm", "ship"} /\ agent'.po = agent.po
  <2>1. CASE c # Agent
    BY <1>2, <1>5, <2>1 DEF Goes
  <2>2. CASE c = Agent
    <3>1. agent.step = "trailer"
      BY <1>2, <1>3, <2>2 DEF AgentFollows
    <3> QED
      BY <1>2, <1>3, <1>5, <2>2, <3>1, AgentFields DEF Goes
  <2> QED
    BY <2>1, <2>2
<1>6. \A d \in Caller : call'[d].op \in {"select", "ship"} => call'[d] = call[d]
  BY <1>2, <1>3, AnsweredCalls
<1>7. Engaged' \subseteq Engaged
  BY <1>2, <1>3, AnswerEngages
<1> QED
  BY <1>2, <1>3, <1>4, <1>5, <1>6, <1>7, LoneTrailer

LEMMA LonePersonSendsTrailer ==
    ASSUME IInv, overlaps' = 0, NEW c \in Clerk, NEW i \in Shipped, PersonSendsTrailer(c, i)
    PROVE  Lone'
<1>1. /\ shipments' = [shipments EXCEPT ![i].trailers = 1] /\ Begins(c)
      /\ UNCHANGED <<requisition, orders, agent, call>>
  BY DEF PersonSendsTrailer
<1>2. Lone
  BY <1>1, BeginsAlone
<1>3. Engaged' = Engaged
  BY <1>1 DEF Engaged, Calling
<1> QED
  BY <1>1, <1>2, <1>3, LoneTrailer

(* No table changes but the status of requisitions and orders.             *)
LEMMA LoneUntouched ==
    ASSUME Lone, UNCHANGED <<requisition, shipments>>,
           DOMAIN orders' = DOMAIN orders,
           \A p \in DOMAIN orders : orders'[p].req = orders[p].req,
           agent'.step \in {"confirm", "ship"} =>
               agent.step \in {"confirm", "ship"} /\ agent'.po = agent.po,
           \A d \in Caller : call'[d].op \in {"select", "ship"} =>
               \/ \E e \in Caller : call'[d] = call[e]
               \/ call'[d].op = "ship" /\ agent.step = "ship" /\ call'[d].po = agent.po,
           (\A d : d \in Engaged' => d \in Engaged) \/ \E e : Engaged' \subseteq {e}
    PROVE  Lone'
<1>1. SelectsOnce'
  BY SelectsKept DEF Lone
<1>2. ShipsOnce'
  BY ShipsKept DEF Lone
<1> QED
  BY <1>1, <1>2, AloneKept DEF Lone

LEMMA LoneCallFails == ASSUME IInv, overlaps = 0, NEW c \in Caller, CallFails(c) PROVE Lone'
<1>1. /\ Calling(c) /\ Answered(c) /\ Goes(c, Resting)
      /\ UNCHANGED <<requisition, orders, shipments>>
  BY DEF CallFails, rows
<1>2. Lone /\ TypeInv
  BY DEF IInv, Lone
<1>3. agent'.step \in {"confirm", "ship"} => agent' = agent
  BY <1>1 DEF Goes, Resting
<1>4. \A d \in Caller : call'[d].op \in {"select", "ship"} => call'[d] = call[d]
  BY <1>1, <1>2, AnsweredCalls
<1>5. Engaged' \subseteq Engaged
  BY <1>1, <1>2, AnswerEngages
<1> QED
  BY <1>1, <1>2, <1>3, <1>4, <1>5, LoneUntouched

LEMMA LoneNoteShipment ==
    ASSUME IInv, overlaps = 0, NEW i \in news, NoteShipment(i)
    PROVE  Lone'
<1>1. PICK p \in Placed : p = shipments[i].po
  BY ShipmentNamesOrder DEF IInv, TypeInv
<1>2. /\ orders' = [orders EXCEPT ![p].status = "SHIPPED"]
      /\ UNCHANGED <<requisition, shipments, agent, call>>
  BY <1>1 DEF NoteShipment
<1>3. DOMAIN orders' = DOMAIN orders /\ \A q \in DOMAIN orders : orders'[q].req = orders[q].req
  BY <1>2, StatusWritten, Counting DEF IInv
<1>4. Engaged' = Engaged
  BY <1>2 DEF Engaged, Calling
<1>5. Lone
  BY DEF IInv, Lone
<1> QED
  BY <1>2, <1>3, <1>4, <1>5, LoneUntouched

LEMMA LoneAgentReads ==
    ASSUME IInv, overlaps' = 0, NEW p \in inbox, Skip(p) \/ Decline(p) \/ Accept(p)
    PROVE  Lone'
<1>1. UNCHANGED <<requisition, orders, shipments, call>> /\ agent = Resting
  BY DEF Skip, Decline, Accept, rows
<1>2. CASE Skip(p) \/ Decline(p)
  <2>1. UNCHANGED <<agent, overlaps>> /\ Lone
    BY <1>2 DEF Skip, Decline, IInv, Lone
  <2>2. Engaged' = Engaged
    BY <1>1, <2>1 DEF Engaged, Calling
  <2> QED
    BY <1>1, <2>1, <2>2, LoneUntouched
<1>3. CASE Accept(p)
  <2>1. /\ Begins(Agent) /\ ShipmentsOf(p) = {} /\ agent'.po = p
    BY <1>3 DEF Accept, NothingToDo
  <2>2. Lone /\ Engaged \subseteq {Agent}
    BY <2>1, BeginsAlone
  <2>3. Engaged' \subseteq {Agent}
    BY <1>1, <2>2, WhoIsEngaged DEF Engaged, Calling
  <2>4. ShipsOnce'
    BY <1>1, <2>1, <2>2 DEF Lone, ShipsOnce, ShipmentsOf
  <2>5. SelectsOnce'
    BY <1>1, <2>2, SelectsKept DEF Lone
  <2> QED
    BY <2>2, <2>3, <2>4, <2>5, AloneKept DEF Lone
<1> QED
  BY <1>2, <1>3

LEMMA LoneAgentCalls == ASSUME IInv, overlaps = 0, AgentCalls PROVE Lone'
<1>1. /\ agent.step \in {"confirm", "ship", "trailer"} /\ ~Calling(Agent)
      /\ UNCHANGED <<requisition, orders, shipments>>
  BY DEF AgentCalls, rows
<1>2. Lone /\ TypeInv
  BY DEF IInv, Lone
<1>3. Engaged \subseteq {Agent} /\ Agent \in Caller
  BY <1>1, <1>2, AgentFields, WhoIsEngaged DEF Lone, Alone, Caller
<1>4. CASE agent.step = "confirm" /\ ~MayConfirm(agent.po)
  <2>1. agent' = [agent EXCEPT !.step = "ship"] /\ UNCHANGED call
    BY <1>4 DEF AgentCalls
  <2>2. agent'.po = agent.po
    BY <1>1, <1>2, <2>1, AgentFields
  <2>3. Engaged' \subseteq {Agent}
    BY <1>3, <2>1, WhoIsEngaged DEF Engaged, Calling
  <2> QED
    BY <1>1, <1>2, <1>4, <2>1, <2>2, <2>3, LoneUntouched
<1>5. CASE ~(agent.step = "confirm" /\ ~MayConfirm(agent.po))
  <2>1. PICK request : /\ Send(Agent, request) /\ UNCHANGED agent
                       /\ request.op = agent.step
                       /\ agent.step # "trailer" => request.po = agent.po
    <3> DEFINE request == IF agent.step = "trailer"
                          THEN [op |-> "trailer", shipment |-> agent.shipment]
                          ELSE [op |-> agent.step, po |-> agent.po]
    <3>1. Send(Agent, request) /\ UNCHANGED agent
      BY <1>5 DEF AgentCalls
    <3>2. request.op = agent.step /\ (agent.step # "trailer" => request.po = agent.po)
      OBVIOUS
    <3> QED
      BY <3>1, <3>2
  <2>2. \A d \in Caller : call'[d] = IF d = Agent THEN request ELSE call[d]
    BY <1>2, <1>3, <2>1, CallSent
  <2>3. \A d \in Caller : call'[d].op \in {"select", "ship"} =>
            \/ \E e \in Caller : call'[d] = call[e]
            \/ call'[d].op = "ship" /\ agent.step = "ship" /\ call'[d].po = agent.po
    BY <1>1, <2>1, <2>2
  <2>4. Engaged' \subseteq {Agent}
    BY <1>3, <2>1, <2>2, WhoIsEngaged DEF Engaged, Calling
  <2> QED
    BY <1>1, <1>2, <2>1, <2>3, <2>4, LoneUntouched
<1> QED
  BY <1>4, <1>5

LEMMA LoneAgentEnds == ASSUME IInv, overlaps = 0, AgentCommits \/ AgentGivesUp PROVE Lone'
<1>1. /\ agent' = Resting /\ agent'.step = "rest" /\ agent # Resting
      /\ UNCHANGED <<requisition, orders, shipments>>
  BY DEF AgentCommits, AgentGivesUp, rows, Resting
<1>2. Lone /\ TypeInv
  BY DEF IInv, Lone
<1>3. Engaged \subseteq {Agent} /\ Agent \in Caller /\ Late \in Caller
  BY <1>1, <1>2, WhoIsEngaged DEF Lone, Alone, Caller
<1>4. CASE AgentCommits
  <2>1. UNCHANGED call
    BY <1>4 DEF AgentCommits
  <2>2. Engaged' \subseteq Engaged
    BY <1>1, <2>1 DEF Engaged, Calling
  <2> QED
    BY <1>1, <1>2, <2>1, <2>2, LoneUntouched
<1>5. CASE AgentGivesUp
  <2>1. call' = [call EXCEPT ![Agent] = NoCall,
                             ![Late] = IF Calling(Agent) THEN call[Agent] ELSE @]
    BY <1>5 DEF AgentGivesUp
  <2>2. \A d \in Caller : call'[d] = IF d = Late /\ Calling(Agent) THEN call[Agent]
                                     ELSE IF d = Agent THEN NoCall ELSE call[d]
    BY <1>2, <1>3, <2>1 DEF TypeInv, Agent, Late
  <2>3. \A d \in Caller : call'[d].op \in {"select", "ship"} =>
            \E e \in Caller : call'[d] = call[e]
    BY <1>3, <2>2 DEF NoCall
  <2>4. Engaged' \subseteq {Late}
    <3>1. \A d \in Caller : Calling(d)' => d = Late
      BY <1>3, <2>2, WhoIsEngaged DEF Calling
    <3> QED
      BY <1>1, <3>1 DEF Engaged
  <2> QED
    BY <1>1, <1>2, <2>3, <2>4, LoneUntouched
<1> QED
  BY <1>4, <1>5

LEMMA LoneCreate ==
    ASSUME IInv, overlaps = 0, NEW r \in Requisition, CreateRequisition(r)
    PROVE  Lone'
<1>1. /\ requisition[r] = "NONE" /\ UNCHANGED <<orders, shipments, agent, call>>
      /\ \A q \in Requisition : requisition'[q] # requisition[q] =>
             q = r /\ requisition'[q] # "CONVERTED"
  BY DEF CreateRequisition, IInv, TypeInv
<1>2. Lone /\ TypeInv
  BY DEF IInv, Lone
<1>3. SelectsOnce'
  <2>1. \A c \in Caller : call[c].op = "select" =>
            call[c].req \in Requisition /\ requisition[call[c].req] = "PARSED"
    BY <1>2, RequestFields DEF Lone, SelectsOnce
  <2> QED
    BY <1>1, <1>2, <2>1 DEF Lone, SelectsOnce
<1>4. ShipsOnce'
  BY <1>1, <1>2, ShipsKept DEF Lone
<1>5. Engaged' = Engaged
  BY <1>1 DEF Engaged, Calling
<1> QED
  BY <1>2, <1>3, <1>4, <1>5, AloneKept DEF Lone

LEMMA LoneNext == IInv /\ [Next]_vars => IInv'
<1> SUFFICES ASSUME IInv, [Next]_vars PROVE IInv'
  OBVIOUS
<1>1. Typed' /\ TypeInv
  BY TypeNext DEF IInv, Typed
<1> SUFFICES ASSUME overlaps' = 0 PROVE Lone'
  BY <1>1 DEF IInv, Typed, Lone
<1>2. DOMAIN orders = Placed /\ DOMAIN shipments = Shipped /\ overlaps \in Nat
  BY <1>1, Counting DEF TypeInv
<1>3. ASSUME NEW r \in Requisition, CreateRequisition(r) PROVE Lone'
  BY <1>3, LoneCreate DEF CreateRequisition
<1>4. ASSUME NEW c \in Clerk, Person(c) PROVE Lone'
  BY <1>2, <1>4, LoneAsk, LonePersonShips, LonePersonSendsTrailer DEF Person
<1>5. ASSUME NEW c \in Caller, Serves(c) \/ CallFails(c) PROVE Lone'
  <2>1. overlaps = 0
    BY <1>5 DEF Serves, CallFails, Select, Confirm, Ship, SendTrailer
  <2> QED
    BY <1>5, <2>1, LoneSelect, LoneConfirm, LoneShip, LoneSendTrailer, LoneCallFails DEF Serves
<1>6. ASSUME NEW i \in news, NoteShipment(i) PROVE Lone'
  BY <1>6, LoneNoteShipment DEF NoteShipment
<1>7. CASE AgentSteps \/ AgentGivesUp
  <2>1. CASE AgentCalls
    BY <2>1, LoneAgentCalls DEF AgentCalls
  <2>2. CASE AgentCommits \/ AgentGivesUp
    <3>1. overlaps = 0
      BY <2>2 DEF AgentCommits, AgentGivesUp
    <3> QED
      BY <2>2, <3>1, LoneAgentEnds
  <2> QED
    BY <1>7, <2>1, <2>2, LoneAgentReads DEF AgentSteps
<1>8. CASE UNCHANGED vars
  <2>1. UNCHANGED <<requisition, orders, shipments, agent, call>> /\ Lone
    BY <1>8 DEF vars, rows, IInv, Lone
  <2>2. Engaged' = Engaged
    BY <2>1 DEF Engaged, Calling
  <2> QED
    BY <2>1, <2>2, LoneUntouched
<1> QED
  BY <1>3, <1>4, <1>5, <1>6, <1>7, <1>8 DEF Next

LEMMA Invariance == Spec => []IInv
<1>1. IInv /\ [Next]_vars => IInv'
  BY LoneNext
<1> QED
  BY <1>1, LoneInit, PTL DEF Spec

(* Unless requests overlap, a requisition is turned into one purchase      *)
(* order, in one piece, whatever fails on the way                          *)
(* (procurement_api/main.py:302-371).                                      *)
THEOREM OneOrder == Spec => []OnePOPerRequisition
<1>1. IInv => OnePOPerRequisition
  <2> SUFFICES ASSUME IInv, overlaps = 0, NEW r \in Requisition
               PROVE  /\ \A p, q \in {o \in DOMAIN orders : orders[o].req = r} : p = q
                      /\ requisition[r] = "CONVERTED" <=>
                            {o \in DOMAIN orders : orders[o].req = r} # {}
    BY DEF OnePOPerRequisition
  <2>1. SelectsOnce
    BY DEF IInv
  <2> QED
    BY <2>1 DEF SelectsOnce
<1> QED
  BY <1>1, Invariance, PTL

(* Unless requests overlap, the supplier agent ships no order that was     *)
(* shipped, by a person or by itself before it failed                      *)
(* (supplier_agent/main.py:166-206).                                       *)
THEOREM AgentNeverDoubleShips == Spec => []AgentShipsFirst
<1>1. IInv => AgentShipsFirst
  BY DEF IInv, ShipsOnce, AgentShipsFirst
<1> QED
  BY <1>1, Invariance, PTL
===============================================================================
