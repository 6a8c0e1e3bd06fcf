----------------------------- MODULE MCGateway -----------------------------
(* Instances of LiveHub for TLC.                                           *)
EXTENDS LiveHub

MCTrailerOf == [p \in Tracker |-> "t1"]
=============================================================================
