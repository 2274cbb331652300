--------------------------- MODULE VehicleMessage ---------------------------
(***************************************************************************)
(* What becomes of a datagram: DecodeVehicleMessage of internal/protocol,  *)
(* that is validate.go's checks and translate.go's translation to the JSON *)
(* frame that the UI gets.                                                 *)
(*                                                                         *)
(* A message is one record with the fields of every payload kind.  A       *)
(* floating-point field is a number or a NaN, for which every comparison   *)
(* is false; timestamps are in years.  Text that is only passed on is left *)
(* out.                                                                    *)
(***************************************************************************)
EXTENDS Extensions, Integers

CONSTANTS Vehicles     \* vehicle ids

Float == [nan : BOOLEAN, at : Int]
Below(x, n) == ~x.nan /\ x.at < n
Above(x, n) == ~x.nan /\ x.at > n
AtLeast(x, n) == ~x.nan /\ x.at >= n

Absent == -1           \* an optional field that is not set
MaxUDPFrameSize == 1400
MinTimestamp == 2020
MaxTimestamp == 2100

Payloads == {"telemetry", "heartbeat", "alert", "command_ack", "unknown", "empty"}
Place == [set : BOOLEAN, lat : Float, lng : Float, alt : Float]

Namespaces == DOMAIN Codecs \cup {"maritime"}    \* one that has no codec
Versions == {CodecVersion, CodecVersion + 1}     \* one that no codec knows

(* pb.VehicleMessage as it comes from the wire: payload and its fields.    *)
Message ==
  [size : Nat, parses : BOOLEAN, payload : Payloads,
   vehicleId : Vehicles \cup {""}, timestamp : Int, location : Place,
   speed : Float, heading : Float, environment : Nat, seq : Nat,
   signal : Nat \cup {Absent}, battery : Nat \cup {Absent},
   extensions : UNION {[D -> [version : Versions, parses : BOOLEAN]] : D \in SUBSET Namespaces},
   capabilities : BOOLEAN, severity : Nat, code : BOOLEAN,
   commandId : BOOLEAN, status : Nat]

(* What the receiver reads of a datagram: its buffer ends where the limit  *)
(* is, and what lies past it is lost.  The cut may leave anything else     *)
(* than a message, or the payload as it was, or none.                      *)
Received(m) ==
  IF m.size <= MaxUDPFrameSize THEN {m}
  ELSE {[m EXCEPT !.size = MaxUDPFrameSize, !.parses = p] : p \in BOOLEAN}
         \cup {[m EXCEPT !.size = MaxUDPFrameSize, !.payload = "empty"]}

----------------------------------------------------------------------------
(* validate.go *)

(* No datagram is read at more than the limit: see Received.               *)

ValidateFrameSize(m) == m.size <= MaxUDPFrameSize /\ m.size # 0

ValidateTimestamp(m) == ~(m.timestamp < MinTimestamp \/ m.timestamp > MaxTimestamp)

ValidateLocation(p) ==
  /\ ~(Below(p.lat, -90) \/ Above(p.lat, 90))
  /\ ~(Below(p.lng, -180) \/ Above(p.lng, 180))

(* Mutated form: the battery is not looked at. *)
ValidateTelemetryNoBattery(m) ==
  /\ m.vehicleId # "" /\ ValidateTimestamp(m)
  /\ m.location.set /\ ValidateLocation(m.location)
  /\ ~Below(m.speed, 0)
  /\ ~(Below(m.heading, 0) \/ AtLeast(m.heading, 360))
  /\ ~(m.signal # Absent /\ m.signal > 5)

(* An unset environment is logged, not refused.                            *)
ValidateTelemetry(m) ==
  /\ m.vehicleId # "" /\ ValidateTimestamp(m)
  /\ m.location.set /\ ValidateLocation(m.location)
  /\ ~Below(m.speed, 0)
  /\ ~(Below(m.heading, 0) \/ AtLeast(m.heading, 360))
  /\ ~(m.signal # Absent /\ m.signal > 5)
  /\ ~(m.battery # Absent /\ m.battery > 100)

ValidateHeartbeat(m) == m.vehicleId # "" /\ ValidateTimestamp(m)

ValidateAlert(m) ==
  /\ m.vehicleId # "" /\ ValidateTimestamp(m) /\ m.code
  /\ m.location.set => ValidateLocation(m.location)

ValidateCommandAck(m) == m.vehicleId # "" /\ m.commandId /\ ValidateTimestamp(m)

ValidateVehicleMessage(m) ==
  \/ m.payload = "telemetry" /\ ValidateTelemetry(m)
  \/ m.payload = "heartbeat" /\ ValidateHeartbeat(m)
  \/ m.payload = "alert" /\ ValidateAlert(m)
  \/ m.payload = "command_ack" /\ ValidateCommandAck(m)

----------------------------------------------------------------------------
(* translate.go *)

NoFrame == [type |-> "none"]     \* an error is returned

JSONFrame(type, m, data) ==
  [type |-> type, vehicleId |-> m.vehicleId, timestamp |-> m.timestamp, data |-> data]

EnvironmentToString(e) ==
  IF e \in 1 .. 3 THEN <<"air", "ground", "marine">>[e] ELSE "unknown"
SeverityToString(x) ==
  IF x \in 1 .. 3 THEN <<"warning", "error", "critical">>[x] ELSE "info"
AckStatusToString(x) ==
  IF x \in 0 .. 2 THEN <<"accepted", "rejected", "completed">>[x + 1] ELSE "failed"

(* An altitude of zero is taken for one that is not set.                   *)
JSONLocation(p) ==
  [lat |-> p.lat, lng |-> p.lng, altitude |-> p.alt # [nan |-> FALSE, at |-> 0]]

TelemetryToFrame(m) ==
  IF m.vehicleId = "" \/ ~m.location.set THEN NoFrame
  ELSE JSONFrame("telemetry", m,
         [location |-> JSONLocation(m.location), speed |-> m.speed, heading |-> m.heading,
          environment |-> EnvironmentToString(m.environment), seq |-> m.seq,
          batteryPercent |-> m.battery, signalStrength |-> m.signal,
          extensions |-> DecodeAll(m.extensions)])

HeartbeatToFrame(m) ==
  IF m.vehicleId = "" THEN NoFrame
  ELSE JSONFrame("heartbeat", m, [capabilities |-> m.capabilities])

AlertToFrame(m) ==
  IF m.vehicleId = "" THEN NoFrame
  ELSE JSONFrame("alert", m, [severity |-> SeverityToString(m.severity), code |-> m.code,
                              located |-> m.location.set,
                              location |-> JSONLocation(m.location)])

CommandAckToFrame(m) ==
  IF m.vehicleId = "" THEN NoFrame
  ELSE JSONFrame("command_ack", m, [commandId |-> m.commandId,
                                    status |-> AckStatusToString(m.status)])

VehicleMessageToFrame(m) ==
  CASE m.payload = "telemetry" -> TelemetryToFrame(m)
    [] m.payload = "heartbeat" -> HeartbeatToFrame(m)
    [] m.payload = "alert" -> AlertToFrame(m)
    [] m.payload = "command_ack" -> CommandAckToFrame(m)
    [] OTHER -> NoFrame

DecodeVehicleMessage(m) ==
  IF ValidateFrameSize(m) /\ m.parses /\ ValidateVehicleMessage(m)
    THEN VehicleMessageToFrame(m)
    ELSE NoFrame

----------------------------------------------------------------------------
(* The reference: what frame.go's comments promise of a frame *)

InRange(x, low, high) == x.nan \/ x.at \in low .. high

(* Latitude -90 to 90, longitude -180 to 180 (frame.go:58-59).  A NaN gets *)
(* through: each check asks whether the number lies outside.               *)
OnTheMap(l) == InRange(l.lat, -90, 90) /\ InRange(l.lng, -180, 180)

(* A place on the map, a speed, a heading in [0, 360), a battery of 0-100  *)
(* and a signal of 0-5, or these two unknown (frame.go:69-79).             *)
TelemetryInRange(d) ==
  /\ OnTheMap(d.location)
  /\ d.speed.nan \/ d.speed.at >= 0
  /\ InRange(d.heading, 0, 359)
  /\ d.batteryPercent = Absent \/ d.batteryPercent \in 0 .. 100
  /\ d.signalStrength = Absent \/ d.signalStrength \in 0 .. 5

(* What a consumer of the frame relies on: it is of a vehicle, of one of   *)
(* the four kinds, and has what its kind is useless without, in range; an  *)
(* alert has a code, and is on the map if it is anywhere, an ack names its *)
(* command.  The timestamp is the vehicle's own and may be anything        *)
(* (GLOSSARY.md:26).                                                       *)
FrameIsValid(f) ==
  /\ f.type \in {"telemetry", "heartbeat", "alert", "command_ack"}
  /\ f.vehicleId \in Vehicles
  /\ f.type = "telemetry" => TelemetryInRange(f.data)
  /\ f.type = "alert" => f.data.code /\ (f.data.located => OnTheMap(f.data.location))
  /\ f.type = "command_ack" => f.data.commandId
=============================================================================
