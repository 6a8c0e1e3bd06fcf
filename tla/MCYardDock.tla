----------------------------- MODULE MCYardDock -----------------------------
(* Instances of YardDock for TLC.                                          *)
EXTENDS YardDock, TLC

MCService == [d \in Door |-> 1]
MCAnyDoor == [t \in Trailer |-> Door]
(* Only one door takes the loads; an override may still use the other.     *)
MCOnlyDoor == [t \in Trailer |-> {CHOOSE d \in Door : TRUE}]

(* A constraint: two requests at once while there is one trailer, one     *)
(* request while there are two, and nothing after a trailer is raced.      *)
Few ==
    /\ raced = {}
    /\ Cardinality({c \in Clerk : ~Idle(c)})
          + Cardinality({t \in Trailer : Status(t) # "NONE"}) <= 3

Doors == Permutations(Door)
Alike == Doors \cup Permutations(Clerk) \cup Permutations(Trailer)
=============================================================================
