----------------------------- MODULE TestSender -----------------------------
(***************************************************************************)
(* The project's mock vehicle (cmd/testsender/main.go) and what the server *)
(* makes of its datagrams: decoding (module VehicleMessage), the registry  *)
(* entry (internal/registry: RecordTelemetry, UpdateCapabilities) and the  *)
(* capability check that commands for it then meet (module CommandChecks). *)
(*                                                                         *)
(* The heading is a float64 that is sent as a float32.  It is counted here *)
(* in half steps of float32, a step being HeadingStep degrees: an odd      *)
(* number lies between two values that can be sent.  The position is in    *)
(* degrees, rounded away from zero to the next that is told apart, so that *)
(* it is off the map exactly where its number is.                          *)
(***************************************************************************)
EXTENDS VehicleMessage, CommandChecks, SequencesExt

CONSTANTS
  CommandLines,  \* flags: vid, env, rate, caps and, for custom caps, a list;
                 \* and the bytes that the texts of vid, type and caps take
  HeadingStep,   \* degrees between two float32 headings, a divisor of 360
  SeqSpace,      \* 2^32 in the code
  StartBattery,  \* 90 in the code
  Latitudes,     \* the degrees that are told apart
  Longitudes,
  TelemetryBytes,  \* what of a datagram's size is no text of a flag
  HeartbeatBytes

VARIABLES
  flags,      \* the command line
  running,    \* "no" before the tickers, "yes", or why it ended
  state,      \* vehicleState: lat, lng, heading, batteryPct, seq
  network,    \* the datagram that is on its way, if any
  entry       \* the server's registry entry: [known, legacy, caps]

senderVars == <<flags, running, state>>
vars == <<senderVars, network, entry>>

Circle == 2 * (360 \div HeadingStep)
MinBattery == 20
MaxRate == 1000000000  \* ticks in a second: the ticker counts nanoseconds

(* The flags.  The tool checks none of them, nor how long they are.  A run *)
(* with an empty id, of which the server refuses everything, and one with  *)
(* a text that is not UTF-8, of which nothing is sent, are left out.       *)
CommandLine ==
  [vid : Vehicles, env : STRING, rate : Int, caps : STRING, list : SUBSET STRING,
   bytes : [{"vid", "type", "caps"} -> Nat]]

ASSUME HeadingAssumption == HeadingStep \in Nat \ {0} /\ HeadingStep * (360 \div HeadingStep) = 360
ASSUME SenderAssumption ==
  /\ SeqSpace \in Nat \ {0}
  /\ StartBattery \in MinBattery .. 100
  /\ "" \notin Vehicles
  /\ CommandLines \subseteq CommandLine

(* The starts are told apart, and the edge of the map from what is over it. *)
Told(grid, edge, starts) ==
  /\ grid \subseteq Int /\ starts \subseteq grid
  /\ \A x \in grid : (x > edge => edge \in grid) /\ (x < -edge => -edge \in grid)
ASSUME GridAssumption == Told(Latitudes, 90, {32, 34}) /\ Told(Longitudes, 180, {-85, -81})
ASSUME SizeAssumption == TelemetryBytes \in Nat \ {0} /\ HeartbeatBytes \in Nat \ {0}

NoDatagram == <<>>
NoCapabilities == [commands |-> {}, extensions |-> <<>>, missions |-> FALSE, sensors |-> <<>>]

----------------------------------------------------------------------------
(* What main prepares *)

Environment(f) ==
  CASE f.env = "air" -> 1 [] f.env = "ground" -> 2 [] f.env = "marine" -> 3 [] OTHER -> 0

(* "no-goto" leaves no command at all, like "none".                        *)
SupportedCommands(f) ==
  CASE f.caps = "all" -> CoreCommands
    [] f.caps = "no-stop" -> CoreCommands \ {"stop"}
    [] f.caps \in {"no-goto", "none"} -> {}
    [] OTHER -> f.list

BuildExtensionCapabilities(f) ==
  CASE f.env = "ground" ->
         <<[namespace |-> "husky", version |-> 1,
            actions |-> {"setDriveMode", "triggerEStop", "releaseEStop", "setBumperSensitivity"}]>>
    [] f.env = "marine" ->
         <<[namespace |-> "blueboat", version |-> 1,
            actions |-> {"setThrottle", "setHeading", "deployAnchor", "retractAnchor"}]>>
    [] f.env = "air" ->
         <<[namespace |-> "skydio", version |-> 1,
            actions |-> {"setFlightMode", "setGimbal", "startRecording", "stopRecording",
                         "takePhoto", "orbit", "track", "stopTracking", "setHome"}]>>
    [] OTHER -> <<>>

CameraRGB == 1
BuildCapabilities(f) ==
  [commands |-> SupportedCommands(f),
   extensions |-> BuildExtensionCapabilities(f),
   missions |-> f.caps \notin {"no-goto", "none"},
   sensors |-> IF f.env = "air" THEN <<>> ELSE <<CameraRGB>>]

(* 33.749 N, 84.388 W or 31.968 N, 80.703 W; the altitude in metres.       *)
Start(f) ==
  CASE f.env = "air" -> [lat |-> 34, lng |-> -85, alt |-> 815]
    [] f.env = "marine" -> [lat |-> 32, lng |-> -81, alt |-> 0]
    [] OTHER -> [lat |-> 34, lng |-> -85, alt |-> 315]

----------------------------------------------------------------------------
(* Its messages *)

Number(n) == [nan |-> FALSE, at |-> n]

Plainly ==
  [size |-> 1, parses |-> TRUE, payload |-> "empty", vehicleId |-> "", timestamp |-> 2026,
   location |-> [set |-> FALSE, lat |-> Number(0), lng |-> Number(0), alt |-> Number(0)],
   speed |-> Number(0), heading |-> Number(0),
   environment |-> 0, seq |-> 0, signal |-> Absent, battery |-> Absent, extensions |-> Nothing,
   capabilities |-> FALSE, severity |-> 0, code |-> FALSE, commandId |-> FALSE, status |-> 0]

(* The bytes of a datagram, but for the few by which its numbers vary.     *)
TelemetrySize(f) == TelemetryBytes + f.bytes["vid"]
HeartbeatSize(f) == HeartbeatBytes + f.bytes["vid"] + f.bytes["type"] + f.bytes["caps"]

(* Only the position moves; the altitude is that of the start.             *)
PlaceOf(f, s) ==
  [set |-> TRUE, lat |-> Number(s.lat), lng |-> Number(s.lng), alt |-> Number(Start(f).alt)]

(* float32(h): the nearest step, and the even one of two that are as near. *)
Float32(h) ==
  LET step == h \div 2 IN
  HeadingStep * (IF h % 2 = 0 \/ step % 2 = 0 THEN step ELSE step + 1)

(* The extension telemetry is a sample of the codec of the environment.    *)
SampleExtensions(environment) ==
  LET sample == [version |-> CodecVersion, parses |-> TRUE] IN
  CASE environment = 1 -> [skydio |-> sample] [] environment = 2 -> [husky |-> sample]
    [] environment = 3 -> [blueboat |-> sample] [] OTHER -> Nothing

ToProto(f, s) ==
  [Plainly EXCEPT !.size = TelemetrySize(f), !.payload = "telemetry", !.vehicleId = f.vid,
     !.location = PlaceOf(f, s), !.speed = Number(5), !.heading = Number(Float32(s.heading)),
     !.environment = Environment(f), !.seq = s.seq, !.battery = s.batteryPct,
     !.extensions = SampleExtensions(Environment(f))]

BuildHeartbeat(f) ==
  [Plainly EXCEPT !.size = HeartbeatSize(f), !.payload = "heartbeat", !.vehicleId = f.vid,
     !.capabilities = TRUE]

----------------------------------------------------------------------------
(* The sender *)

Init ==
  /\ flags \in CommandLines
  /\ running = "no"
  /\ state \in [lat : {Start(flags).lat}, lng : {Start(flags).lng},
                heading : 0 .. Circle - 1, batteryPct : {StartBattery}, seq : {0}]
  /\ network = NoDatagram
  /\ entry = [known |-> FALSE, legacy |-> TRUE, caps |-> NoCapabilities]

(* NewTicker panics at a tick that is not positive: at a negative rate, or *)
(* at more than one in a nanosecond, which is truncated to 0.  A rate of 0 *)
(* gives an infinity; the tick it is turned into depends on the machine:   *)
(* negative, or some centuries.                                            *)
StartTicking ==
  /\ running = "no"
  /\ running' \in IF flags.rate \in 1 .. MaxRate THEN {"yes"}
                  ELSE IF flags.rate = 0 THEN {"panic", "yes"} ELSE {"panic"}
  /\ UNCHANGED <<flags, state, network, entry>>

(* Mutated form: a heading of a full circle is left as it is. *)
NormalizeLate(h) == IF h = Circle THEN h ELSE h % Circle

(* The two loops that bring the heading back to [0, 360).                  *)
Normalize(h) == h % Circle

(* A decrement of a uint32, then the floor.                                *)
Drain(battery) == IF battery - 1 < MinBattery THEN MinBattery ELSE battery - 1

(* Where a few metres can bring it: no further than the next degree that   *)
(* is told apart, and past 0, which is the number of 0 itself alone.       *)
Neighbours(x, grid) ==
  {y \in grid : ~\E z \in grid \ {0} : (x < z /\ z < y) \/ (y < z /\ z < x)}

(* The metres of a degree of longitude shrink to none at a pole.           *)
NextLongitudes(s) ==
  IF s.lat \in -89 .. 89 THEN Neighbours(s.lng, Longitudes) ELSE Longitudes

(* The ticker: update, then send.  A turn is at most a step.  The position *)
(* follows heading and speed and is neither wrapped nor bounded; which way *)
(* the heading takes it is left open.  It moves among the degrees that are *)
(* told apart: their ends bound it here.                                   *)
Tick ==
  /\ running = "yes" /\ flags.rate > 0
  /\ network = NoDatagram
  /\ \E turn \in -2 .. 2, battery \in {state.batteryPct, Drain(state.batteryPct)},
        lat \in Neighbours(state.lat, Latitudes), lng \in NextLongitudes(state) :
       state' = [lat |-> lat, lng |-> lng, heading |-> Normalize(state.heading + turn),
                 batteryPct |-> battery, seq |-> (state.seq + 1) % SeqSpace]
  /\ network' = <<ToProto(flags, state')>>
  /\ UNCHANGED <<flags, running, entry>>

(* Mutated form: it says what it can do only before its first telemetry. *)
HeartbeatOnce ==
  /\ running = "yes"
  /\ network = NoDatagram /\ ~entry.known
  /\ network' = <<BuildHeartbeat(flags)>>
  /\ UNCHANGED <<senderVars, entry>>

Heartbeat ==
  /\ running = "yes"
  /\ network = NoDatagram
  /\ network' = <<BuildHeartbeat(flags)>>
  /\ UNCHANGED <<senderVars, entry>>

(* A signal, at any time once it is asked for.                             *)
Stop ==
  /\ running = "yes"
  /\ running' = "stopped"
  /\ UNCHANGED <<flags, state, network, entry>>

----------------------------------------------------------------------------
(* The server *)

SensorTypeToString(t) ==
  IF t \in 1 .. 8
    THEN <<"camera_rgb", "camera_thermal", "camera_depth", "lidar_2d", "lidar_3d", "radar",
           "imu", "gps">>[t]
    ELSE "unknown"

(* capabilitiesToJSON: a missing list is an empty one, a sensor's type its *)
(* name.                                                                   *)
CapabilitiesToJSON(caps) ==
  [caps EXCEPT !.sensors = [i \in DOMAIN @ |-> SensorTypeToString(@[i])]]

(* What is read of its datagrams: each is one field, and cut to the limit  *)
(* it is no message.                                                       *)
Read(m) == {r \in Received(m) : r.size < m.size => ~r.parses}

(* A datagram is lost, or decoded and recorded.  Telemetry makes the       *)
(* vehicle known; a heartbeat's capabilities are taken only for a vehicle  *)
(* that is, and are lost otherwise.                                        *)
Receive ==
  /\ network # NoDatagram
  /\ network' = NoDatagram
  /\ \E r \in Read(network[1]) :
       LET f == DecodeVehicleMessage(r) IN
       entry' = CASE f.type = "telemetry" -> [entry EXCEPT !.known = TRUE]
                  [] f.type = "heartbeat" /\ f.data.capabilities /\ entry.known ->
                       [entry EXCEPT !.legacy = FALSE,
                                     !.caps = CapabilitiesToJSON(BuildCapabilities(flags))]
                  [] OTHER -> entry
  /\ UNCHANGED senderVars

(* Or the sender's system refuses it, as too long for any datagram.        *)
Lose ==
  /\ network # NoDatagram
  /\ network' = NoDatagram
  /\ UNCHANGED <<senderVars, entry>>

Next == StartTicking \/ Tick \/ Heartbeat \/ Stop \/ Receive \/ Lose

(* A tick whose heading is not rounded up to 360; a datagram that gets     *)
(* through and is decoded.                                                 *)
GoodTick == Tick /\ network'[1].heading.at < 360
GoodReceive(type) ==
  Receive /\ \A r \in Read(network[1]) : DecodeVehicleMessage(r).type = type

(* Both tickers tick (select takes a ready case at random), the heading is *)
(* a random walk, and the network does not lose every datagram of a kind.  *)
Fairness ==
  /\ WF_vars(StartTicking) /\ WF_vars(Receive \/ Lose)
  /\ SF_vars(GoodTick) /\ SF_vars(Heartbeat)
  /\ SF_vars(GoodReceive("telemetry")) /\ SF_vars(GoodReceive("heartbeat"))

SafetySpec == Init /\ [][Next]_vars
Spec == SafetySpec /\ Fairness

----------------------------------------------------------------------------
(* Properties *)

(* Shapes; the battery never gets below its floor and so never wraps.      *)
SenderTypeOK ==
  /\ running \in {"no", "yes", "panic", "stopped"}
  /\ state \in [lat : Latitudes, lng : Longitudes, heading : 0 .. Circle - 1,
                batteryPct : MinBattery .. StartBattery, seq : 0 .. SeqSpace - 1]
  /\ network # NoDatagram => network[1] \in Message
  /\ ~entry.legacy => entry.known

(* What of its messages the server takes.                                  *)
WithinLimits(m) ==
  /\ m.size <= MaxUDPFrameSize
  /\ m.payload = "telemetry" => m.heading.at # 360 /\ OnTheMap(m.location)

(* "Useful for verifying the full pipeline" (DEVELOPMENT.md:105): the      *)
(* server decodes what the mock vehicle sends, but for three things that   *)
(* the tool does not prevent: flags too long for a datagram that is read   *)
(* whole, a position that it lets leave the map, and a heading that        *)
(* float32 rounds up to 360, which is refused, although "360 is normalized *)
(* to 0" (pidgin.proto:64).  That happens in the last half step alone.     *)
DecodedWithinLimits ==
  /\ SenderTypeOK
  /\ network # NoDatagram =>
       LET m == network[1] IN
       /\ \A r \in Read(m) : DecodeVehicleMessage(r).type = m.payload <=> WithinLimits(m)
       /\ m.heading.at = 360 => state.heading = Circle - 1

(* Heartbeats that come before the first telemetry are lost, and datagrams *)
(* get lost; while the sender runs and its vehicle is on the map, there    *)
(* comes a time from which on the server takes the core commands of the    *)
(* vehicle's mode and no others, if the flags fit into a datagram.         *)
RefusesTheRest ==
  ~entry.legacy /\ \A c \in CoreCommands :
     IsCommandSupported(entry.caps, [action |-> c]) <=> c \in SupportedCommands(flags)
Fit == TelemetrySize(flags) <= MaxUDPFrameSize /\ HeartbeatSize(flags) <= MaxUDPFrameSize
CapabilitiesAreLearned ==
  []OnTheMap(PlaceOf(flags, state)) =>
    <>[](running = "yes" /\ flags.rate > 0 /\ Fit => RefusesTheRest)
=============================================================================
