-------------------------- MODULE MCTelemetryDedup --------------------------
(* TelemetryDedup on a small instance: four sequence numbers, used thrice. *)
EXTENDS TelemetryDedup
=============================================================================
