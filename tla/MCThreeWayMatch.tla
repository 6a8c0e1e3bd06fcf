-------------------------- MODULE MCThreeWayMatch --------------------------
(* Instances of ThreeWayMatch for TLC.                                     *)
EXTENDS ThreeWayMatch

(* 100 pieces at 10 each.  A lot is the whole order or its first half.  A  *)
(* bill is for the whole, right or 1 off the price, beyond tolerance.      *)
MCOrder == [p \in PO |-> [qty |-> 100, price |-> 10]]
Whole == [qty |-> 100, price |-> 10]
Overpriced == [qty |-> 100, price |-> 11]
MCOneBill == {Whole}
MCTwoBills == {Whole, Overpriced}
=============================================================================
