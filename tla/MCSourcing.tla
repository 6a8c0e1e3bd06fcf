----------------------------- MODULE MCSourcing -----------------------------
(* Instances of Sourcing for TLC.                                          *)
EXTENDS Sourcing

(* Two rows of the seed data (seed.py:115, 118): SUP-001 wins.  The first  *)
(* PO is accepted by it, the second declined.                              *)
MCSuppliers ==
    {[id |-> 1, multiplier |-> 100, lead |-> 4, quality |-> 960,
      reliability |-> 940, risk |-> 60],
     [id |-> 4, multiplier |-> 87, lead |-> 7, quality |-> 840,
      reliability |-> 790, risk |-> 240]}
MCRoll == <<500, 970>>
=============================================================================
