--------------------------- MODULE EventDelivery ---------------------------
(***************************************************************************)
(* What the event bus promises the services that use it, without Redis,    *)
(* publishers, stream entries or acknowledgements: a transaction that      *)
(* records events either commits all of them or none, and each consumer    *)
(* group handles each committed event it wants once, in any order, the     *)
(* events its handler records committing with it.  EventBus implements     *)
(* this; the models of the workers deliver their events this way.          *)
(***************************************************************************)
EXTENDS Naturals

CONSTANTS Event,    \* the event_log ids of a behaviour
          Request,  \* the sets of events that API transactions record
          Group,    \* the consumer groups
          Wanted,   \* group -> the events of its allowed_event_types
          Follow    \* group -> event -> the events its handler records

VARIABLES committed, \* the events whose transaction has committed
          effects    \* group -> event -> how often a handler run committed

deliveryVars == <<committed, effects>>

DeliveryInit ==
    /\ committed = {}
    /\ effects = [g \in Group |-> [e \in Event |-> 0]]

(* An API transaction commits its domain writes and its events together.   *)
Commit(R) ==
    /\ R \cap committed = {}
    /\ committed' = committed \cup R
    /\ UNCHANGED effects

(* A group's handler takes effect for an event it has not handled yet.     *)
Handle(g, e) ==
    /\ e \in committed
    /\ e \in Wanted[g]
    /\ effects[g][e] = 0
    /\ effects' = [effects EXCEPT ![g][e] = 1]
    /\ committed' = committed \cup Follow[g][e]

DeliveryNext ==
    \/ \E R \in Request : Commit(R)
    \/ \E g \in Group, e \in Event : Handle(g, e)

DeliverySafety == DeliveryInit /\ [][DeliveryNext]_deliveryVars

DeliveryFairness ==
    \A g \in Group, e \in Event : WF_deliveryVars(Handle(g, e))

DeliverySpec == DeliverySafety /\ DeliveryFairness
=============================================================================
