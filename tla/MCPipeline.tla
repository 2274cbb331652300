----------------------------- MODULE MCPipeline -----------------------------
(* Pipeline on a small instance. *)
EXTENDS Pipeline

CONSTANTS v1     \* the vehicle

Number(n) == [nan |-> FALSE, at |-> n]

Telemetry ==
  [size |-> 100, parses |-> TRUE, payload |-> "telemetry", vehicleId |-> v1,
   timestamp |-> 2026,
   location |-> [set |-> TRUE, lat |-> Number(90), lng |-> Number(-180), alt |-> Number(0)],
   speed |-> Number(0), heading |-> Number(359), environment |-> 0, seq |-> 1,
   signal |-> 5, battery |-> 100,
   extensions |-> [maritime |-> [version |-> 1, parses |-> TRUE]],
   capabilities |-> FALSE, severity |-> 0, code |-> FALSE, commandId |-> FALSE, status |-> 0]

Alert == [Telemetry EXCEPT !.payload = "alert", !.code = TRUE]
CommandAck == [Telemetry EXCEPT !.payload = "command_ack", !.commandId = TRUE]

(* One message of each kind that decodes, one for each way not to, and one *)
(* too long, that decodes when the cut falls well.                         *)
MCMessages ==
  {Telemetry,
   [Telemetry EXCEPT !.payload = "heartbeat"],
   Alert,
   CommandAck,
   [Telemetry EXCEPT !.size = 1401],
   [Telemetry EXCEPT !.parses = FALSE],
   [Telemetry EXCEPT !.payload = "empty"],
   [Telemetry EXCEPT !.vehicleId = ""],
   [Telemetry EXCEPT !.timestamp = 1970],
   [Telemetry EXCEPT !.location.set = FALSE],
   [Telemetry EXCEPT !.location.lat = Number(91)],
   [Telemetry EXCEPT !.location.lng = Number(-181)],
   [Telemetry EXCEPT !.speed = Number(-1)],
   [Telemetry EXCEPT !.heading = Number(360)],
   [Telemetry EXCEPT !.signal = 6],
   [Telemetry EXCEPT !.battery = 101],
   [Alert EXCEPT !.code = FALSE],
   [Alert EXCEPT !.location.lat = Number(91)],
   [CommandAck EXCEPT !.commandId = FALSE]}

MCVehicles == {v1}
=============================================================================
