---------------------------- MODULE MCSimulator ----------------------------
(* Instances of Simulator for TLC.                                         *)
EXTENDS Simulator

(* One order and its trucks, with the loop and a clerk; or two deliveries, *)
(* with a press of the button and of a scenario; or one delivery, with a   *)
(* post that fails.  Orders and deliveries share no table.                 *)
MCAgendas == {[orders |-> 1, receipts |-> 0, ticks |-> 0, injections |-> 0, failures |-> 1],
              [orders |-> 0, receipts |-> 2, ticks |-> 1, injections |-> 1, failures |-> 0],
              [orders |-> 0, receipts |-> 1, ticks |-> 1, injections |-> 0, failures |-> 1]}
=============================================================================
