--------------------------- MODULE MCFleetRegistry ---------------------------
(* FleetRegistry on a small instance. *)
EXTENDS FleetRegistry
==============================================================================
