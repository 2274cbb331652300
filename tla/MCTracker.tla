------------------------------ MODULE MCTracker ------------------------------
(* Tracker on a small instance. *)
EXTENDS Tracker
==============================================================================
