---------------------------- MODULE MCDecisions ----------------------------
(* Problems for Decisions.  Of the policy, both sides of every boundary:   *)
(* zero and negative bases, 2% of 50 (49 and 51 pass, 48 and 52 do not),   *)
(* 3% of 100 (97 and 103 pass, 104 does not), 33 billed against 34 (just   *)
(* under 3%) and 34 billed against 33 (just over).                         *)
EXTENDS Decisions

MCQuantity == {-1, 0, 48, 49, 50, 51, 52}
MCPrice == {-1, 0, 33, 34, 97, 100, 103, 104}

(* A minute has three units, so a time can be nearer to either side.  One  *)
(* door takes everything, the other one load only; their windows overlap,  *)
(* lie inside one another, touch, leave a gap of a minute or of two, are   *)
(* empty, or began long ago.                                               *)
(* A service takes two minutes or three.                                   *)
B(s, e) == [start |-> s, end |-> e]
MCBookings == {{}, {B(3, 10)}, {B(-2, 1), B(5, 13)}, {B(1, 9), B(4, 6), B(13, 14)},
               {B(1, 4), B(10, 15), B(13, 19), B(30, 30)}}
MCDoors ==
    UNION {{{[id |-> 1, types |-> {"dry", "cold"}, active |-> TRUE, position |-> 0,
              service |-> 2, bookings |-> b],
             [id |-> 2, types |-> {"dry"}, active |-> on, position |-> 1,
              service |-> 3, bookings |-> c]} : b, c \in MCBookings} : on \in BOOLEAN}
MCTrailers ==
    {{[id |-> 1, type |-> "dry", priority |-> "critical", ready |-> r, current |-> 2],
      [id |-> 2, type |-> type, priority |-> "low", ready |-> s, current |-> NoDoor]} :
        r, s \in {1, 2, 4, 8}, type \in {"dry", "cold", "frozen"}}
MCYards == [now : {1}, trailers : MCTrailers, doors : MCDoors]

(* Two suppliers that may differ in everything, and a third, cheap one.    *)
MCRows(id) == [id : {id}, multiplier : {87, 100}, lead : {0, 4, 11},
               quality : {840, 960}, reliability : {790, 940}, risk : {60, 240}]
MCTables ==
    {{r, s, [id |-> 3, multiplier |-> 83, lead |-> 9, quality |-> 780,
             reliability |-> 720, risk |-> 310]} : r \in MCRows(1), s \in MCRows(2)}
=============================================================================
