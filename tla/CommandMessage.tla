--------------------------- MODULE CommandMessage ---------------------------
(***************************************************************************)
(* A command from the UI's JSON to the protobuf message for the vehicle:   *)
(* frame.go's command types, the builder in internal/command/router.go     *)
(* that the server runs, and translate.go's and validate.go's functions    *)
(* for the same commands.  The JSON here has the types that its command    *)
(* asks for; CommandChecks has the others.                                 *)
(*                                                                         *)
(* The data of a command frame maps the fields that are present to their   *)
(* values; so does a destination.  Coordinates are whole degrees, speeds   *)
(* and altitudes whole metres.  An optional field is <<>> or <<n>>.        *)
(*                                                                         *)
(* Extension commands are husky's: the only ones that the test client has. *)
(***************************************************************************)
EXTENDS CommandChecks

CONSTANTS Uint32     \* the values of a uint32 field: 0 to 2^32 - 1

ASSUME Uint32Assumption == 0 \in Uint32 /\ Uint32 \subseteq Nat

(* The whole numbers that a float32 holds exactly, as speeds are sent.     *)
Float32 == -(2^24) .. 2^24

Nil == <<>>
Field(data, name, zero) == IF name \in DOMAIN data THEN data[name] ELSE zero
OptionalField(data, name) == IF name \in DOMAIN data THEN <<data[name]>> ELSE Nil
NoFields == [name \in {} |-> 0]
NoId == 0   \* otherwise a commandId is a number

----------------------------------------------------------------------------
(* json.Unmarshal into frame.go's types: what is missing is zero *)

Location(d) ==
  [lat |-> Field(d, "lat", 0), lng |-> Field(d, "lng", 0), altMsl |-> OptionalField(d, "altMsl")]

GotoCommand(data) ==
  [commandId |-> Field(data, "commandId", NoId),
   destination |-> Location(Field(data, "destination", NoFields)),
   speed |-> OptionalField(data, "speed")]

SetModeCommand(data) ==
  [commandId |-> Field(data, "commandId", NoId), mode |-> Field(data, "mode", "")]

SetSpeedCommand(data) ==
  [commandId |-> Field(data, "commandId", NoId), speed |-> Field(data, "speed", 0)]

(* The action of an extension command is its payload.type.                 *)
ExtensionCommandInput(data) ==
  LET payload == Field(data, "payload", NoFields) IN
  [commandId |-> Field(data, "commandId", NoId), namespace |-> Field(data, "namespace", ""),
   type |-> Field(payload, "type", ""), payload |-> payload]

(* The command as module CommandChecks looks at it, which does not tell    *)
(* numbers apart. *)
Checked(action, data) ==
  LET e == ExtensionCommandInput(data)
      payload == IF "sensitivity" \in DOMAIN e.payload
                   THEN [e.payload EXCEPT !.sensitivity = "a number"] ELSE e.payload
  IN
  [action |-> action, parses |-> TRUE, namespace |-> e.namespace, type |-> e.type,
   payload |-> IF action = "extension" THEN payload ELSE data]

----------------------------------------------------------------------------
(* husky/codec.go: EncodeCommand, for a payload that it does not refuse *)

(* The sensitivity is converted to uint32.  A number that such a field can *)
(* hold is kept; what becomes of one below zero or too large is up to the  *)
(* machine (Go wraps it on one and clamps it on another).                  *)
Sensitivities(action, data) ==
  LET payload == ExtensionCommandInput(data).payload IN
  IF ~(action = "extension" /\ "sensitivity" \in DOMAIN payload) THEN {0}
  ELSE IF payload.sensitivity \in Uint32 THEN {payload.sensitivity}
  ELSE Uint32

(* The fields of the message that goes to the vehicle; what else is in the *)
(* JSON is left out.                                                       *)
Encoded(action, payload, sensitivity) ==
  CASE action = "setDriveMode" -> [mode |-> payload.mode]
    [] action = "setBumperSensitivity" -> [sensitivity |-> sensitivity]
    [] OTHER -> NoFields

----------------------------------------------------------------------------
(* router.go *)

DefaultSpeed == 5
ValueOrDefault(v, default) == IF v = Nil THEN default ELSE v[1]
ZeroIfNil(v) == ValueOrDefault(v, 0)

ExtensionCommand(e, sensitivity) ==
  [namespace |-> e.namespace, action |-> e.type, version |-> CodecVersion,
   payload |-> Encoded(e.type, e.payload, sensitivity)]

(* Mutated form: the speed asked for is left out. *)
BuildPayloadDefaultSpeed(action, data, sensitivity) ==
  LET goto == GotoCommand(data)
      e == ExtensionCommandInput(data)
  IN
  [kind |-> action, lat |-> goto.destination.lat, lng |-> goto.destination.lng, alt |-> 0,
   speed |-> DefaultSpeed,
   mode |-> IF action = "set_mode" THEN SetModeCommand(data).mode ELSE "",
   extension |-> IF action = "extension" THEN <<ExtensionCommand(e, sensitivity)>> ELSE Nil]

(* buildProtoCommand's payload, for a command that it does not refuse: a   *)
(* goto has no altitude, and 5 m/s if it names no speed.  `sensitivity` is *)
(* what the conversion makes of the number in an extension command.        *)
BuildPayload(action, data, sensitivity) ==
  LET goto == GotoCommand(data)
      e == ExtensionCommandInput(data)
      isGoto == action = "goto"
  IN
  [kind |-> action,
   lat |-> IF isGoto THEN goto.destination.lat ELSE 0,
   lng |-> IF isGoto THEN goto.destination.lng ELSE 0,
   alt |-> 0,
   speed |-> IF isGoto THEN ValueOrDefault(goto.speed, DefaultSpeed)
             ELSE IF action = "set_speed" THEN SetSpeedCommand(data).speed ELSE 0,
   mode |-> IF action = "set_mode" THEN SetModeCommand(data).mode ELSE "",
   extension |-> IF action = "extension" THEN <<ExtensionCommand(e, sensitivity)>> ELSE Nil]

PBCommand(vehicleId, commandId, payload) ==
  [vehicle_id |-> vehicleId, command_id |-> commandId, payload |-> payload]

----------------------------------------------------------------------------
(* translate.go: the same translation, which only its tests call *)

Plain(kind) ==
  [kind |-> kind, lat |-> 0, lng |-> 0, alt |-> 0, speed |-> 0, mode |-> "", extension |-> Nil]

GotoCommandToProto(cmd) ==
  [Plain("goto") EXCEPT !.lat = cmd.destination.lat, !.lng = cmd.destination.lng,
                        !.alt = ZeroIfNil(cmd.destination.altMsl), !.speed = ZeroIfNil(cmd.speed)]
StopCommandToProto == Plain("stop")
ReturnHomeCommandToProto == Plain("return_home")
SetModeCommandToProto(cmd) == [Plain("set_mode") EXCEPT !.mode = cmd.mode]
SetSpeedCommandToProto(cmd) == [Plain("set_speed") EXCEPT !.speed = cmd.speed]

CommandToProto(action, data) ==
  CASE action = "goto" -> GotoCommandToProto(GotoCommand(data))
    [] action = "stop" -> StopCommandToProto
    [] action = "return_home" -> ReturnHomeCommandToProto
    [] action = "set_mode" -> SetModeCommandToProto(SetModeCommand(data))
    [] action = "set_speed" -> SetSpeedCommandToProto(SetSpeedCommand(data))

(* They refuse a command without vehicle or id, and an unknown mode.       *)
Translates(vehicleId, action, data) ==
  /\ vehicleId # "" /\ Field(data, "commandId", NoId) # NoId
  /\ action = "set_mode" => SetModeCommand(data).mode \in {"manual", "autonomous", "guided"}

----------------------------------------------------------------------------
(* validate.go: the checks on commands, which nothing calls *)

ValidateJSONLocation(loc) == loc.lat \in -90 .. 90 /\ loc.lng \in -180 .. 180

ValidateGotoCommand(cmd) ==
  cmd.commandId # NoId /\ ValidateJSONLocation(cmd.destination) /\ ZeroIfNil(cmd.speed) >= 0
ValidateStopCommand(data) == Field(data, "commandId", NoId) # NoId
ValidateReturnHomeCommand(data) == Field(data, "commandId", NoId) # NoId
ValidateSetModeCommand(cmd) ==
  cmd.commandId # NoId /\ cmd.mode \in {"manual", "autonomous", "guided"}
ValidateSetSpeedCommand(cmd) == cmd.commandId # NoId /\ cmd.speed >= 0

ValidateCommand(action, data) ==
  CASE action = "goto" -> ValidateGotoCommand(GotoCommand(data))
    [] action = "stop" -> ValidateStopCommand(data)
    [] action = "return_home" -> ValidateReturnHomeCommand(data)
    [] action = "set_mode" -> ValidateSetModeCommand(SetModeCommand(data))
    [] action = "set_speed" -> ValidateSetSpeedCommand(SetSpeedCommand(data))
    [] OTHER -> TRUE

----------------------------------------------------------------------------
(* builders.go: the frames a client gets *)

Frame(type) == [type |-> type, code |-> "", id |-> NoId, status |-> ""]

NewErrorFrame(code) == [Frame("error") EXCEPT !.code = code]
NewCommandErrorFrame(code, commandId) == [NewErrorFrame(code) EXCEPT !.id = commandId]
NewServerCommandAckFrame(commandId, status) ==
  [Frame("command_ack") EXCEPT !.id = commandId, !.status = status]
NewTimeoutAckFrame(commandId) == NewServerCommandAckFrame(commandId, "timeout")
NewStatusFrame == Frame("status")
=============================================================================
