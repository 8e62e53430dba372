------------------------------ MODULE MCTracker ------------------------------
(* Instances of MessageTracker for TLC. *)
EXTENDS MessageTracker

CONSTANTS m1, m2
=============================================================================
