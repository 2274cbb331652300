---------------------------- MODULE MCMonitoring ----------------------------
(* Monitoring with two vehicles. *)
EXTENDS Monitoring
MCVehicles == {"ugv", "uav"}
=============================================================================
