------------------------------ MODULE Sourcing ------------------------------
(***************************************************************************)
(* From a requisition to a truck: POST /requisitions, select-supplier and  *)
(* confirm of procurement_api/main.py, the supplier agent with its three   *)
(* HTTP calls (supplier_agent/main.py), and the two endpoints of           *)
(* yard_api/main.py that it calls as people do.                            *)
(*                                                                         *)
(* The agent's handler runs in one transaction, but its calls are          *)
(* transactions of other services: one that the agent has stopped waiting  *)
(* for, after HTTP_TIMEOUT or a crash, may still be carried out.  The bus  *)
(* delivers PO_CREATED again until the handler returns (EventBus).         *)
(***************************************************************************)
EXTENDS SupplierScoring, Sequences

CONSTANTS Requisition, \* ids
          Suppliers,   \* the rows of suppliers
          BasePrice,   \* the material's base_price
          Roll,        \* PO id -> its hash, in thousandths
          Clerk,       \* people calling the APIs
          MaxOrders, MaxShipments, MaxFaults, MaxOverlaps \* bounds

Agent == "agent"
Late == "late"    \* a call the agent has stopped waiting for
Caller == Clerk \cup {Agent, Late}

ASSUME SourcingAssumption ==
    /\ Clerk \cap {Agent, Late} = {}
    /\ Suppliers \subseteq SupplierRow /\ Suppliers # {} /\ IsFiniteSet(Suppliers)
    /\ BasePrice \in Nat \ {0}
    /\ MaxOrders \in Nat /\ Roll \in [1 .. MaxOrders -> 0 .. 1000]
    /\ MaxShipments \in Nat /\ MaxFaults \in Nat /\ MaxOverlaps \in Nat

VARIABLES
  requisition, \* id -> its status; UNCLEAR is PARSED without a material_id
  orders,      \* purchase_orders: [req, supplier, status], a PO's id its place
  alerted,     \* POs with a SUPPLIER_DECLINED alert
  shipments,   \* inbound shipments: [po, by, trailers]
  inbox,       \* POs whose PO_CREATED the agent has not handled
  news,        \* shipments whose SHIPMENT_CREATED the match worker has not
  agent,       \* the handler run: [po, step, shipment], or Resting
  call,        \* caller -> the request a server has of it, or NoCall
  faults, overlaps

rows == <<requisition, orders, alerted, shipments>>
vars == <<rows, inbox, news, agent, call, faults, overlaps>>

Resting == [step |-> "rest"]
NoCall == [op |-> "none"]

Init ==
    /\ requisition = [r \in Requisition |-> "NONE"]
    /\ orders = <<>> /\ alerted = {} /\ shipments = <<>>
    /\ inbox = {} /\ news = {}
    /\ agent = Resting
    /\ call = [c \in Caller |-> NoCall]
    /\ faults = 0 /\ overlaps = 0

Calling(c) == call[c] # NoCall
ShipmentsOf(p) == {i \in DOMAIN shipments : shipments[i].po = p}

(* Who is in the middle of something; c starting now overlaps with others. *)
Engaged == {c \in Caller : Calling(c)} \cup (IF agent = Resting THEN {} ELSE {Agent})
Begins(c) ==
    IF Engaged \ {c} # {}
    THEN overlaps < MaxOverlaps /\ overlaps' = overlaps + 1
    ELSE UNCHANGED overlaps

Send(c, request) ==
    /\ ~Calling(c)
    /\ call' = [call EXCEPT ![c] = request]
Answered(c) == call' = [call EXCEPT ![c] = NoCall]
Fault == faults < MaxFaults /\ faults' = faults + 1

-----------------------------------------------------------------------------
(* Procurement.                                                            *)

(* POST /requisitions and /requisitions/chat.  The chat writes nothing     *)
(* while the parse is ambiguous; the single shot writes what it has.       *)
CreateRequisition(r) ==
    /\ requisition[r] = "NONE"
    /\ \E status \in {"PARSED", "UNCLEAR"} :
         requisition' = [requisition EXCEPT ![r] = status]
    /\ UNCHANGED <<orders, alerted, shipments, inbox, news, agent, call, faults, overlaps>>

(* Mutant: a requisition may be converted again.                           *)
MaySelectAgain(r) == requisition[r] \in {"PARSED", "CONVERTED"}

MaySelect(r) == requisition[r] = "PARSED"

(* The checks, and the scoring and the language model's prose after them.  *)
AskSelect(c, r) ==
    /\ MaySelect(r)
    /\ Len(orders) + Cardinality({d \in Clerk : call[d].op = "select"}) < MaxOrders
    /\ Send(c, [op |-> "select", req |-> r, supplier |-> Recommended(Suppliers, BasePrice)])
    /\ Begins(c)
    /\ UNCHANGED <<rows, inbox, news, agent, faults>>

(* select_supplier's one transaction of writes.                            *)
Select(c) ==
    /\ call[c].op = "select"
    /\ orders' = Append(orders, [req |-> call[c].req, supplier |-> call[c].supplier,
                                 status |-> "CREATED"])
    /\ requisition' = [requisition EXCEPT ![call[c].req] = "CONVERTED"]
    /\ inbox' = inbox \cup {Len(orders) + 1}
    /\ Answered(c)
    /\ UNCHANGED <<alerted, shipments, news, agent, faults, overlaps>>

MayConfirm(p) == orders[p].status = "CREATED"

AskConfirm(c, p) ==
    /\ MayConfirm(p)
    /\ Send(c, [op |-> "confirm", po |-> p])
    /\ Begins(c)
    /\ UNCHANGED <<rows, inbox, news, agent, faults>>

(* The agent goes on when its call is answered.                            *)
Goes(c, next) == agent' = IF c = Agent THEN next ELSE agent

(* confirm_purchase_order's writes: by id, whatever the status is by now.  *)
Confirm(c) ==
    /\ call[c].op = "confirm"
    /\ orders' = [orders EXCEPT ![call[c].po].status = "CONFIRMED"]
    /\ Goes(c, [agent EXCEPT !.step = "ship"])
    /\ Answered(c)
    /\ UNCHANGED <<requisition, alerted, shipments, inbox, news, faults, overlaps>>

-----------------------------------------------------------------------------
(* The yard: neither endpoint asks what the PO or the shipment has.        *)

Shipment(p, by) == [po |-> p, by |-> by, trailers |-> 0]
Ship(c) ==
    /\ call[c].op = "ship"
    /\ shipments' = Append(shipments, Shipment(call[c].po, Agent))
    /\ news' = news \cup {Len(shipments) + 1}
    /\ Goes(c, [agent EXCEPT !.step = "trailer", !.shipment = Len(shipments) + 1])
    /\ Answered(c)
    /\ UNCHANGED <<requisition, orders, alerted, inbox, faults, overlaps>>

SendTrailer(c) ==
    /\ call[c].op = "trailer"
    /\ shipments' = [shipments EXCEPT ![call[c].shipment].trailers = @ + 1]
    /\ Goes(c, [agent EXCEPT !.step = "done"])
    /\ Answered(c)
    /\ UNCHANGED <<requisition, orders, alerted, inbox, news, faults, overlaps>>

PersonShips(c, p) ==
    /\ ~Calling(c) /\ Begins(c)
    /\ shipments' = Append(shipments, Shipment(p, c))
    /\ news' = news \cup {Len(shipments) + 1}
    /\ UNCHANGED <<requisition, orders, alerted, inbox, agent, call, faults>>

PersonSendsTrailer(c, i) ==
    /\ ~Calling(c) /\ Begins(c)
    /\ shipments[i].trailers = 0
    /\ shipments' = [shipments EXCEPT ![i].trailers = 1]
    /\ UNCHANGED <<requisition, orders, alerted, inbox, news, agent, call, faults>>

(* A request ends with an error and its transaction is rolled back.        *)
CallFails(c) ==
    /\ Calling(c) /\ Fault
    /\ Answered(c)
    /\ Goes(c, Resting)
    /\ UNCHANGED <<rows, inbox, news, overlaps>>

(* The match worker's handler of SHIPMENT_CREATED.                         *)
NoteShipment(i) ==
    /\ orders' = [orders EXCEPT ![shipments[i].po].status = "SHIPPED"]
    /\ news' = news \ {i}
    /\ UNCHANGED <<requisition, alerted, shipments, inbox, agent, call, faults, overlaps>>

-----------------------------------------------------------------------------
(* The supplier agent.                                                     *)

Accepts(p) == Roll[p] < orders[p].supplier.reliability

(* Mutant: a retry does not look for what it did the last time.            *)
NothingToDoByStatus(p) == orders[p].status \notin {"CREATED", "CONFIRMED"}

NothingToDo(p) ==
    \/ orders[p].status \notin {"CREATED", "CONFIRMED"}
    \/ ShipmentsOf(p) # {}

(* The handler reads; when there is nothing to call, it commits.           *)
Handled(p) == inbox' = inbox \ {p}
Skip(p) ==
    /\ agent = Resting /\ NothingToDo(p)
    /\ Handled(p)
    /\ UNCHANGED <<rows, news, agent, call, faults, overlaps>>

Decline(p) ==
    /\ agent = Resting /\ ~NothingToDo(p) /\ ~Accepts(p)
    /\ alerted' = alerted \cup {p}
    /\ Handled(p)
    /\ UNCHANGED <<requisition, orders, shipments, news, agent, call, faults, overlaps>>

Accept(p) ==
    /\ agent = Resting /\ ~NothingToDo(p) /\ Accepts(p)
    /\ Begins(Agent)
    /\ agent' = [po |-> p, shipment |-> 0,
                 step |-> IF MayConfirm(p) THEN "confirm" ELSE "ship"]
    /\ UNCHANGED <<rows, inbox, news, call, faults>>

(* Its next call.  A confirmation that is refused (409) is what it wanted. *)
AgentCalls ==
    /\ agent.step \in {"confirm", "ship", "trailer"}
    /\ ~Calling(Agent)
    /\ IF agent.step = "confirm" /\ ~MayConfirm(agent.po)
       THEN agent' = [agent EXCEPT !.step = "ship"] /\ UNCHANGED call
       ELSE /\ Send(Agent,
                 IF agent.step = "trailer"
                 THEN [op |-> "trailer", shipment |-> agent.shipment]
                 ELSE [op |-> agent.step, po |-> agent.po])
            /\ UNCHANGED agent
    /\ UNCHANGED <<rows, inbox, news, faults, overlaps>>

AgentCommits ==
    /\ agent.step = "done"
    /\ Handled(agent.po)
    /\ agent' = Resting
    /\ UNCHANGED <<rows, news, call, faults, overlaps>>

(* Mutant of AgentGivesUp: what failed is acknowledged.                    *)
AgentForgets ==
    /\ agent # Resting /\ Fault
    /\ Calling(Agent) => ~Calling(Late)
    /\ call' = [call EXCEPT ![Agent] = NoCall,
                            ![Late] = IF Calling(Agent) THEN call[Agent] ELSE @]
    /\ agent' = Resting
    /\ inbox' = inbox \ {agent.po}
    /\ UNCHANGED <<rows, news, overlaps>>

(* Timeout of a call, death of the worker, or an error in the handler: the *)
(* claim is rolled back, the event stays unacknowledged, the call goes on. *)
(* Bound: one call at a time is late.                                      *)
AgentGivesUp ==
    /\ agent # Resting /\ Fault
    /\ Calling(Agent) => ~Calling(Late)
    /\ call' = [call EXCEPT ![Agent] = NoCall,
                            ![Late] = IF Calling(Agent) THEN call[Agent] ELSE @]
    /\ agent' = Resting
    /\ UNCHANGED <<rows, inbox, news, overlaps>>

-----------------------------------------------------------------------------
AgentSteps ==
    \/ \E p \in inbox : Skip(p) \/ Decline(p) \/ Accept(p)
    \/ AgentCalls
    \/ AgentCommits

Serves(c) == Select(c) \/ Confirm(c) \/ Ship(c) \/ SendTrailer(c)

Person(c) ==
    \/ \E r \in Requisition : AskSelect(c, r)
    \/ \E p \in DOMAIN orders : \/ AskConfirm(c, p)
                                \/ Len(shipments) < MaxShipments /\ PersonShips(c, p)
    \/ \E i \in DOMAIN shipments : PersonSendsTrailer(c, i)

Next ==
    \/ \E r \in Requisition : CreateRequisition(r)
    \/ \E c \in Clerk : Person(c)
    \/ \E c \in Caller : Serves(c) \/ CallFails(c)
    \/ \E i \in news : NoteShipment(i)
    \/ AgentSteps
    \/ AgentGivesUp

Spec == Init /\ [][Next]_vars

(* The agent's thread runs, a server finishes what it has begun, and the   *)
(* bus goes on delivering.  Strongly for the agent, which in the code      *)
(* waits for no one, but here once MaxOverlaps is used up.                 *)
FairSpec == /\ Spec
            /\ SF_vars(AgentSteps)
            /\ \A c \in Caller : WF_vars(Serves(c))

-----------------------------------------------------------------------------
(* Unless requests overlap, a requisition is turned into one order, in one *)
(* piece: it is CONVERTED if and only if it has one, whatever fails on the *)
(* way (procurement_api/main.py:302-371).                                  *)
OnePOPerRequisition ==
    overlaps = 0 => \A r \in Requisition :
        LET mine == {p \in DOMAIN orders : orders[p].req = r}
        IN  /\ \A p, q \in mine : p = q
            /\ requisition[r] = "CONVERTED" <=> mine # {}

(* The agent never ships what was shipped, by a person or by itself before *)
(* it failed: "re-raising a shipment would double-ship the order"          *)
(* (supplier_agent/main.py:166-173, 194-206).  A call it gave up on counts *)
(* as open until it ends; if the retry does not begin before that, timeout *)
(* and crash between any two calls are harmless in this respect.           *)
AgentShipsFirst ==
    overlaps = 0 => \A i, j \in DOMAIN shipments :
        i < j /\ shipments[i].po = shipments[j].po => shipments[j].by # Agent

(* Every order is shipped in the end, or a person is told that it was      *)
(* declined; and if no call failed, the agent's shipment has its trailer,  *)
(* which is what wakes the dock worker (supplier_agent/main.py:1-20).      *)
EveryOrderSettled ==
    \A p \in 1 .. MaxOrders :
        p \in DOMAIN orders ~>
            \/ p \in alerted
            \/ \E i \in ShipmentsOf(p) :
                 shipments[i].by = Agent /\ faults = 0 => shipments[i].trailers > 0
=============================================================================
