---------------------------- MODULE MCEventBus ----------------------------
(* Instances of EventBus for TLC.                                          *)
EXTENDS EventBus

(* An API request records event 1; the match worker's handler records 3    *)
(* when it handles 1, and ignores 3 itself.  The dashboard wants both.     *)
MCEvent == {1, 3}
MCRequest == {{1}}
MCTwoGroups == {"match", "dash"}
MCOneGroup == {"match"}
MCWanted == [g \in Group |-> IF g = "match" THEN {1} ELSE {1, 3}]
MCFollow == [g \in Group |-> [e \in Event |->
                IF g = "match" /\ e = 1 THEN {3} ELSE {}]]
MCGroupOf == [c \in Consumer |-> IF c = "d1" THEN "dash" ELSE "match"]
=============================================================================
