----------------------------- MODULE TestClient -----------------------------
(***************************************************************************)
(* The project's test client (cmd/testclient/main.go) against the server:  *)
(* one connection (internal/websocket, client.go and server.go), the       *)
(* router and tracker behind it (internal/command), other clients, and the *)
(* vehicles, whose acks the pipeline broadcasts to every client.           *)
(*                                                                         *)
(* CommandPath has Route step by step; here the Route of this client's     *)
(* commands is the steps that its replies can be told apart by, and that   *)
(* of another client is one step.  Time is not counted: the rate window    *)
(* and the timers may end at any moment.                                   *)
(***************************************************************************)
EXTENDS CommandMessage, SequencesExt

CONSTANTS
  Invocations,   \* the command lines: a record of flags each
  Fleet,         \* the registry: vehicle -> [legacy, caps]
  OtherCommands, \* command frames of other clients
  RateLimit,     \* TrackerConfig.RateLimit
  SendBuffer,    \* capacity of Client.send
  FramesToRead,  \* 5 in normalMode
  MaxBroadcasts, \* bound: telemetry and vehicle acks
  MaxOthers      \* bound: commands of other clients

VARIABLES
  flags,       \* the command line
  at,          \* the client: what it does or waits for
  left,        \* frames still to send or to read
  accepted, rateLimited,   \* testBurst's counters
  status,      \* the status it printed for its command
  outcome,     \* how it ended
  out,         \* frames on their way to the server
  in,          \* frames on their way to the client, Client.send first
  handshaked,  \* Client.handshaked
  stage,       \* the server's ReadPump: "idle", or where it is in handleMessage
  request,     \* the command frame it routes
  reply,       \* the frame it is about to queue
  pending,     \* Tracker.pending
  recent,      \* commands in the rate window, by vehicle
  taken,       \* history: commands tracked, by vehicle
  wire,        \* history: [own, request, command] written to the network
  broadcasts, others   \* what the bounds count

clientVars == <<flags, at, left, accepted, rateLimited, status, outcome>>
serverVars == <<handshaked, stage, request, reply>>
trackerVars == <<pending, recent, taken, wire>>
boundVars == <<broadcasts, others>>
vars == <<clientVars, out, in, serverVars, trackerVars, boundVars>>

NoFrame == Frame("none")
Hello(version) == [type |-> "hello", version |-> version, command |-> "", vid |-> "_client",
                   data |-> NoFields]
Command(command, vid, data) ==
  [type |-> "command", version |-> 1, command |-> command, vid |-> vid, data |-> data]

OwnId == 1                  \* the UUID of sendCommand
BurstId(i) == 100 + i       \* "<cmd>-burst-<i>": of every client that sends a burst

(* The flags; a burst that is not positive is none, written 0.             *)
CommandLine ==
  [badVersion: BOOLEAN, skipHello: BOOLEAN, duration: BOOLEAN, cmd: STRING, vid: STRING,
   lat: Int, lng: Int, speed: Float32, mode: STRING, ext: STRING, action: STRING,
   sensitivity: Int, burst: Nat, wait: BOOLEAN]

(* The UUID of this client's command is nobody else's.  Another client's   *)
(* extension commands are husky's too.                                     *)
ASSUME ClientAssumption ==
  /\ Invocations \subseteq CommandLine
  /\ RateLimit \in Nat /\ SendBuffer \in Nat /\ FramesToRead \in Nat \ {0}
  /\ \A r \in OtherCommands :
       /\ Field(r.data, "commandId", NoId) # OwnId
       /\ r.command = "extension" => Field(r.data, "namespace", "husky") = "husky"

----------------------------------------------------------------------------
(* main: the mode a command line chooses, and what it sends *)

Mode(f) ==
  IF f.badVersion THEN "badVersion"
  ELSE IF f.skipHello THEN "skipHello"
  ELSE IF f.cmd # "" THEN (IF f.burst > 0 THEN "burst" ELSE "command")
  ELSE IF f.duration THEN "duration" ELSE "normal"

ExtPayload(f) ==
  CASE f.action = "setDriveMode" -> [type |-> f.action, mode |-> f.mode]
    [] f.action = "setBumperSensitivity" -> [type |-> f.action, sensitivity |-> f.sensitivity]
    [] OTHER -> [type |-> f.action]

Usable(f) ==
  \/ f.cmd \in CoreCommands
  \/ /\ f.cmd = "ext" /\ f.ext = "husky"
     /\ f.action \in {"setDriveMode", "setBumperSensitivity", "triggerEStop"}

(* The command frame of sendCommand. *)
CommandFrame(f) ==
  LET data ==
    CASE f.cmd = "goto" -> [commandId |-> OwnId, speed |-> f.speed,
                            destination |-> [lat |-> f.lat, lng |-> f.lng]]
      [] f.cmd = "set_mode" -> [commandId |-> OwnId, mode |-> f.mode]
      [] f.cmd = "set_speed" -> [commandId |-> OwnId, speed |-> f.speed]
      [] f.cmd = "ext" -> [commandId |-> OwnId, namespace |-> f.ext, payload |-> ExtPayload(f)]
      [] OTHER -> [commandId |-> OwnId]
  IN Command(IF f.cmd = "ext" THEN "extension" ELSE f.cmd, f.vid, data)

(* A frame of testBurst: whatever the command, its data is the id. *)
BurstFrame(f, i) == Command(f.cmd, f.vid, [commandId |-> BurstId(i)])

(* testSkipHello's frame: the action is in the data, not in the frame. *)
SkipHelloFrame == Command("", "ugv-test-01", [action |-> "stop", commandId |-> OwnId])

ClientInit ==
  /\ flags \in Invocations
  /\ at = "connected" /\ left = 0 /\ accepted = 0 /\ rateLimited = 0
  /\ status = "" /\ outcome = ""

Init ==
  /\ ClientInit
  /\ out = <<>> /\ in = <<>>
  /\ handshaked = FALSE /\ stage = "idle" /\ request = Hello(1) /\ reply = NoFrame
  /\ pending = {} /\ wire = {}
  /\ recent = [v \in DOMAIN Fleet |-> 0] /\ taken = [v \in DOMAIN Fleet |-> 0]
  /\ broadcasts = 0 /\ others = 0

----------------------------------------------------------------------------
(* The client *)

ServerSide == <<serverVars, trackerVars, boundVars>>

(* The first frame: a hello, except for testSkipHello.                     *)
SendFirst ==
  /\ at = "connected"
  /\ at' = CASE Mode(flags) = "badVersion" -> "wantVersionError"
             [] Mode(flags) = "skipHello" -> "wantHelloError"
             [] OTHER -> "wantWelcome"
  /\ out' = Append(out, CASE Mode(flags) = "badVersion" -> Hello(99)
                          [] Mode(flags) = "skipHello" -> SkipHelloFrame
                          [] OTHER -> Hello(1))
  /\ UNCHANGED <<flags, left, accepted, rateLimited, status, outcome, in, ServerSide>>

End(how) == at' = "done" /\ outcome' = how

Reads == in # <<>> /\ in' = Tail(in)

(* testBadVersion and testSkipHello judge the first frame they get.        *)
ReadError(where, code) ==
  /\ at = where /\ Reads
  /\ End(IF Head(in).type = "error" /\ Head(in).code = code THEN "passed" ELSE "failed")
  /\ UNCHANGED <<flags, left, accepted, rateLimited, status, out, ServerSide>>

(* The others want a welcome first, and then go their ways.                *)
ReadWelcome ==
  /\ at = "wantWelcome" /\ Reads
  /\ IF Head(in).type # "welcome" THEN End("fatal") /\ UNCHANGED left
     ELSE /\ at' = CASE Mode(flags) = "normal" -> "reading"
                     [] Mode(flags) = "duration" -> "listening"
                     [] Mode(flags) = "command" -> "toSend"
                     [] Mode(flags) = "burst" -> "sending"
          /\ left' = CASE Mode(flags) = "normal" -> FramesToRead
                       [] Mode(flags) = "burst" -> flags.burst
                       [] OTHER -> 0
          /\ UNCHANGED outcome
  /\ UNCHANGED <<flags, accepted, rateLimited, status, out, ServerSide>>

(* normalMode reads its frames, or reads until the deadline.               *)
ReadFrame ==
  /\ at = "reading" /\ Reads
  /\ left' = left - 1
  /\ IF left = 1 THEN End("passed") ELSE UNCHANGED <<at, outcome>>
  /\ UNCHANGED <<flags, accepted, rateLimited, status, out, ServerSide>>

Listen ==
  /\ at = "listening" /\ Reads
  /\ UNCHANGED <<clientVars, out, ServerSide>>

(* sendCommand: an unknown command ends the program before it is sent.     *)
SendCommand ==
  /\ at = "toSend"
  /\ IF Usable(flags)
       THEN at' = "wantResponse" /\ out' = Append(out, CommandFrame(flags)) /\ UNCHANGED outcome
       ELSE End("fatal") /\ UNCHANGED out
  /\ UNCHANGED <<flags, left, accepted, rateLimited, status, in, ServerSide>>

(* It takes the first command_ack or error for the answer, whatever id it  *)
(* has, and skips every other frame.                                       *)
ReadResponse ==
  LET f == Head(in) IN
  /\ at = "wantResponse" /\ Reads
  /\ CASE f.type = "command_ack" ->
            /\ status' = f.status
            /\ IF flags.wait /\ f.status = "accepted"
                 THEN at' = "waiting" /\ UNCHANGED outcome ELSE End("answered")
       [] f.type = "error" -> End("error") /\ status' = f.code
       [] OTHER -> UNCHANGED <<at, outcome, status>>
  /\ UNCHANGED <<flags, left, accepted, rateLimited, out, ServerSide>>

ReadWaiting ==
  LET f == Head(in) IN
  /\ at = "waiting" /\ Reads
  /\ IF f.type = "command_ack" /\ f.status = "timeout"
       THEN End("timedout") ELSE UNCHANGED <<at, outcome>>
  /\ UNCHANGED <<flags, left, accepted, rateLimited, status, out, ServerSide>>

(* testBurst: all commands, then as many answers.                          *)
SendBurst ==
  /\ at = "sending"
  /\ out' = Append(out, BurstFrame(flags, flags.burst - left + 1))
  /\ IF left = 1 THEN at' = "counting" /\ left' = flags.burst
                 ELSE left' = left - 1 /\ UNCHANGED at
  /\ UNCHANGED <<flags, accepted, rateLimited, status, outcome, in, ServerSide>>

Count ==
  LET f == Head(in)
      answers == f.type \in {"command_ack", "error"}
  IN
  /\ at = "counting" /\ Reads
  /\ accepted' = accepted + (IF f.type = "command_ack" THEN 1 ELSE 0)
  /\ rateLimited' = rateLimited +
       (IF f.type = "error" /\ f.code = "RATE_LIMITED" THEN 1 ELSE 0)
  /\ left' = left - (IF answers THEN 1 ELSE 0)
  /\ IF answers /\ left = 1 THEN End("counted") ELSE UNCHANGED <<at, outcome>>
  /\ UNCHANGED <<flags, status, out, ServerSide>>

(* A failed read or write, and the end of a read deadline: fatal, but for  *)
(* the loops that stop at it.                                              *)
Breaks == {"listening", "waiting", "counting"}
Deadlines == Breaks \cup {"wantResponse"}

Fail ==
  /\ at \notin {"done"}
  /\ End(IF at \in Breaks THEN "stopped" ELSE "fatal")
  /\ UNCHANGED <<flags, left, accepted, rateLimited, status, out, in, ServerSide>>

DeadlinePasses == at \in Deadlines /\ Fail

ClientStep ==
  \/ SendFirst \/ ReadWelcome \/ ReadFrame \/ Listen
  \/ ReadError("wantVersionError", "PROTOCOL_VERSION_UNSUPPORTED")
  \/ ReadError("wantHelloError", "INVALID_MESSAGE")
  \/ SendCommand \/ ReadResponse \/ ReadWaiting \/ SendBurst \/ Count

----------------------------------------------------------------------------
(* The server's side of the connection: ReadPump *)

(* Client.Send: a frame that does not fit is dropped. *)
Send(f) == in' = IF Len(in) < SendBuffer THEN Append(in, f) ELSE in

(* Mutated form: a command before the hello is dropped without an answer. *)
HandleMessageSilent ==
  LET f == Head(out) IN
  /\ stage = "idle" /\ out # <<>>
  /\ out' = Tail(out)
  /\ request' = f
  /\ IF f.version # 1
       THEN Send(NewErrorFrame("PROTOCOL_VERSION_UNSUPPORTED")) /\ UNCHANGED stage
     ELSE IF f.type = "hello" /\ handshaked
       THEN Send(NewErrorFrame("INVALID_MESSAGE")) /\ UNCHANGED stage
     ELSE IF f.type = "command" /\ ~handshaked
       THEN UNCHANGED <<in, stage>>
     ELSE stage' = (IF f.type = "hello" THEN "welcome" ELSE "route") /\ UNCHANGED in
  /\ UNCHANGED <<clientVars, handshaked, reply, trackerVars, boundVars>>

(* handleMessage: the version, then a hello only before the handshake and  *)
(* a command only after it.                                                *)
HandleMessage ==
  LET f == Head(out) IN
  /\ stage = "idle" /\ out # <<>>
  /\ out' = Tail(out)
  /\ request' = f
  /\ IF f.version # 1
       THEN Send(NewErrorFrame("PROTOCOL_VERSION_UNSUPPORTED")) /\ UNCHANGED stage
     ELSE IF (f.type = "hello") = handshaked
       THEN Send(NewErrorFrame("INVALID_MESSAGE")) /\ UNCHANGED stage
     ELSE stage' = (IF f.type = "hello" THEN "welcome" ELSE "route") /\ UNCHANGED in
  /\ UNCHANGED <<clientVars, handshaked, reply, trackerVars, boundVars>>

(* Mutated form: the client takes part in broadcasts before its welcome. *)
QueueWelcomeAfterwards ==
  /\ \/ /\ stage = "welcome"
        /\ handshaked' = TRUE /\ stage' = "greeted"
        /\ UNCHANGED in
     \/ /\ stage = "greeted"
        /\ in' = Append(in, Frame("welcome")) /\ stage' = "idle"
        /\ UNCHANGED handshaked
  /\ UNCHANGED <<clientVars, out, request, reply, trackerVars, boundVars>>

(* handleHello: the welcome is queued, then the client is handshaked.      *)
QueueWelcome ==
  /\ \/ /\ stage = "welcome"
        /\ in' = Append(in, Frame("welcome")) /\ stage' = "greeted"
        /\ UNCHANGED handshaked
     \/ /\ stage = "greeted"
        /\ handshaked' = TRUE /\ stage' = "idle"
        /\ UNCHANGED in
  /\ UNCHANGED <<clientVars, out, request, reply, trackerVars, boundVars>>

----------------------------------------------------------------------------
(* Route *)

Supported(r) ==
  Fleet[r.vid].legacy \/ IsCommandSupported(Fleet[r.vid].caps, Checked(r.command, r.data))

(* What Route refuses a frame for before it gets to the tracker: the reply, *)
(* and whether it names the command.                                       *)
Refusal(r) ==
  LET id == Field(r.data, "commandId", NoId) IN
  IF r.command = "" \/ id = NoId \/ r.vid \in {"", "_client", "_server"}
    THEN NewErrorFrame("INVALID_MESSAGE")
  ELSE IF r.vid \notin DOMAIN Fleet
    THEN NewCommandErrorFrame("VEHICLE_NOT_FOUND", id)
  ELSE IF ~Supported(r)
    THEN NewCommandErrorFrame("COMMAND_NOT_SUPPORTED", id)
  ELSE NoFrame

(* Tracker.Track's rejection: the duplicate first, then the limit.         *)
Rejection(r) ==
  LET id == Field(r.data, "commandId", NoId) IN
  IF id \in pending THEN NewServerCommandAckFrame(id, "rejected")
  ELSE IF recent[r.vid] >= RateLimit THEN NewCommandErrorFrame("RATE_LIMITED", id)
  ELSE NoFrame

FirstRefusal(r) == IF Refusal(r) # NoFrame THEN Refusal(r) ELSE Rejection(r)

(* The proto.Command of a request.                                         *)
Built(r, sensitivity) ==
  PBCommand(r.vid, Field(r.data, "commandId", NoId), BuildPayload(r.command, r.data, sensitivity))

(* The checks and Track.                                                   *)
RouteChecks ==
  /\ stage = "route"
  /\ IF FirstRefusal(request) # NoFrame
       THEN stage' = "reply" /\ reply' = FirstRefusal(request) /\ UNCHANGED trackerVars
       ELSE /\ stage' = "send"
            /\ pending' = pending \cup {request.data.commandId}
            /\ recent' = [recent EXCEPT ![request.vid] = @ + 1]
            /\ taken' = [taken EXCEPT ![request.vid] = @ + 1]
            /\ UNCHANGED <<reply, wire>>
  /\ UNCHANGED <<clientVars, in, out, handshaked, request, boundVars>>

(* Mutated form: a failed write is told like a good one. *)
RouteFailsAccepted ==
  /\ stage = "send"
  /\ reply' = NewServerCommandAckFrame(request.data.commandId, "accepted")
  /\ stage' = "reply"
  /\ UNCHANGED <<clientVars, in, out, handshaked, request, trackerVars, boundVars>>

(* A command that cannot be built or written is taken out of the tracker,  *)
(* and its error names no command.                                         *)
RouteFails ==
  /\ stage = "send"
  /\ reply' = NewErrorFrame(IF BuildProtoCommand(Checked(request.command, request.data))
                              THEN "COMMAND_SEND_FAILED" ELSE "INVALID_MESSAGE")
  /\ pending' = pending \ {request.data.commandId}
  /\ stage' = "reply"
  /\ UNCHANGED <<clientVars, in, out, handshaked, request, recent, taken, wire, boundVars>>

RouteSends ==
  /\ stage = "send"
  /\ BuildProtoCommand(Checked(request.command, request.data))
  /\ \E n \in Sensitivities(request.command, request.data) :
       wire' = wire \cup {[own |-> TRUE, request |-> request, command |-> Built(request, n)]}
  /\ reply' = NewServerCommandAckFrame(request.data.commandId, "accepted")
  /\ stage' = "reply"
  /\ UNCHANGED <<clientVars, in, out, handshaked, request, pending, recent, taken, boundVars>>

(* handleCommand queues the result.                                        *)
QueueReply ==
  /\ stage = "reply"
  /\ Send(reply)
  /\ stage' = "idle" /\ reply' = NoFrame /\ request' = Hello(1)
  /\ UNCHANGED <<clientVars, out, handshaked, trackerVars, boundVars>>

ServerStep ==
  HandleMessage \/ QueueWelcome \/ RouteChecks \/ RouteFails \/ RouteSends \/ QueueReply

----------------------------------------------------------------------------
(* What happens beside the connection, as long as the client is there *)

(* broadcastLoop: only handshaked clients get it, and only if it fits.     *)
Broadcast(f) == IF handshaked THEN Send(f) ELSE UNCHANGED in

Telemetry ==
  /\ at # "done"
  /\ broadcasts < MaxBroadcasts
  /\ broadcasts' = broadcasts + 1
  /\ \E f \in {Frame("telemetry"), NewStatusFrame} : Broadcast(f)
  /\ UNCHANGED <<clientVars, out, serverVars, trackerVars, others>>

(* A vehicle acknowledges a command it got; the tracker is not told.       *)
VehicleAnswers ==
  /\ at # "done"
  /\ broadcasts < MaxBroadcasts
  /\ broadcasts' = broadcasts + 1
  /\ \E w \in wire : Broadcast(NewServerCommandAckFrame(w.command.command_id, "completed"))
  /\ UNCHANGED <<clientVars, out, serverVars, trackerVars, others>>

(* A command's timer fires once it is on its way.                          *)
TimesOut ==
  /\ at # "done"
  /\ \E id \in pending :
       /\ ~(stage \in {"send", "reply"} /\ request.data.commandId = id)
       /\ pending' = pending \ {id}
       /\ Broadcast(NewTimeoutAckFrame(id))
  /\ UNCHANGED <<clientVars, out, serverVars, recent, taken, wire, boundVars>>

WindowMoves ==
  /\ at # "done"
  /\ \E v \in DOMAIN Fleet : recent[v] > 0 /\ recent' = [recent EXCEPT ![v] = @ - 1]
  /\ UNCHANGED <<clientVars, out, in, serverVars, pending, taken, wire, boundVars>>

(* Another client's command is routed, and its reply goes to that client.  *)
OtherRoutes ==
  /\ at # "done"
  /\ others < MaxOthers
  /\ others' = others + 1
  /\ \E r \in OtherCommands :
       /\ FirstRefusal(r) = NoFrame
       /\ BuildProtoCommand(Checked(r.command, r.data))
       /\ pending' = pending \cup {r.data.commandId}
       /\ recent' = [recent EXCEPT ![r.vid] = @ + 1]
       /\ taken' = [taken EXCEPT ![r.vid] = @ + 1]
       /\ \E n \in Sensitivities(r.command, r.data) :
            wire' = wire \cup {[own |-> FALSE, request |-> r, command |-> Built(r, n)]}
  /\ UNCHANGED <<clientVars, out, in, serverVars, broadcasts>>

Next ==
  \/ ClientStep \/ Fail \/ ServerStep
  \/ Telemetry \/ VehicleAnswers \/ TimesOut \/ WindowMoves \/ OtherRoutes

(* Both programs run, and a read deadline passes; vehicles, other clients  *)
(* and the window's end owe the client nothing.                            *)
Fairness == WF_vars(ClientStep) /\ WF_vars(ServerStep) /\ WF_vars(DeadlinePasses)

SafetySpec == Init /\ [][Next]_vars
Spec == SafetySpec /\ Fairness

----------------------------------------------------------------------------
(* Properties *)

Codes == {"", "INVALID_MESSAGE", "PROTOCOL_VERSION_UNSUPPORTED", "VEHICLE_NOT_FOUND",
          "COMMAND_NOT_SUPPORTED", "RATE_LIMITED", "COMMAND_SEND_FAILED"}
Statuses == {"", "accepted", "rejected", "completed", "timeout"}
FrameOK(f) ==
  /\ f.type \in {"none", "welcome", "telemetry", "status", "error", "command_ack"}
  /\ f.code \in Codes /\ (f.code # "") = (f.type = "error")
  /\ f.status \in Statuses /\ (f.status # "") = (f.type = "command_ack")
  /\ f.type = "command_ack" => f.id # NoId

(* Shapes; an ack has a status and names its command, an error has a code. *)
ClientTypeOK ==
  /\ \A i \in DOMAIN in : FrameOK(in[i]) /\ in[i] # NoFrame
  /\ FrameOK(reply) /\ (reply # NoFrame) = (stage = "reply")
  /\ status \in Codes \cup Statuses
  /\ left \in 0 .. (FramesToRead + flags.burst)
  /\ accepted + rateLimited <= flags.burst
  /\ Len(in) <= SendBuffer + 1
  /\ \A v \in DOMAIN Fleet : recent[v] \in 0 .. RateLimit /\ recent[v] <= taken[v]

(* The two error tests always pass, and the others always find the welcome *)
(* first (main.go:104-120, :150-166, :190-192), whatever the server        *)
(* broadcasts meanwhile: they end otherwise only when the connection does. *)
ErrorChecksPass ==
  /\ ClientTypeOK
  /\ outcome # "failed"
  /\ at = "wantWelcome" /\ in # <<>> => Head(in).type = "welcome"

(* What the client asks for with its flags is what leaves the server, down *)
(* to the values: the client's JSON keys, the router's and the codec's     *)
(* agree.  A sensitivity that a uint32 cannot hold leaves as one it can.   *)
AsTheFlagsSay(w) ==
  LET p == w.command.payload IN
  /\ w.command.vehicle_id = flags.vid
  /\ p.kind = (IF flags.cmd = "ext" THEN "extension" ELSE flags.cmd)
  /\ flags.cmd = "goto" => p.lat = flags.lat /\ p.lng = flags.lng /\ p.speed = flags.speed
  /\ flags.cmd = "set_speed" => p.speed = flags.speed
  /\ flags.cmd = "set_mode" => p.mode = flags.mode
  /\ flags.cmd = "ext" =>
       LET x == p.extension[1] IN
       /\ x.namespace = flags.ext /\ x.action = flags.action
       /\ flags.action = "setDriveMode" => x.payload = [mode |-> flags.mode]
       /\ flags.action = "setBumperSensitivity" =>
            /\ x.payload.sensitivity \in Uint32
            /\ flags.sensitivity \in Uint32 => x.payload.sensitivity = flags.sensitivity

(* The server has the translation of commands twice.  The router's, which  *)
(* runs, and translate.go's, which is tested, differ in two fields only:   *)
(* the router leaves out the altitude, and has a default for the speed.    *)
AsTranslated(w) ==
  LET action == w.request.command
      asTested == CommandToProto(action, w.request.data)
      noSpeed == action = "goto" /\ GotoCommand(w.request.data).speed = Nil
  IN
  action \in CoreCommands /\ Translates(w.request.vid, action, w.request.data) =>
    w.command.payload = [asTested EXCEPT !.alt = 0, !.speed = IF noSpeed THEN DefaultSpeed ELSE @]

(* Nothing calls validate.go's checks of commands.  What they would refuse *)
(* and the router sends is a place off the map or a negative speed, never  *)
(* a command without an id or of an unknown mode.                          *)
AsValidated(w) ==
  \/ ValidateCommand(w.request.command, w.request.data)
  \/ /\ w.request.command \in {"goto", "set_speed"}
     /\ Field(w.request.data, "commandId", NoId) # NoId

SentAsAsked ==
  \A w \in wire :
    /\ w.own /\ Mode(flags) = "command" => AsTheFlagsSay(w)
    /\ AsTranslated(w) /\ AsValidated(w)

(* To a command with an id of its own: accepted or completed means it was  *)
(* sent, an error that names it means it was not and is not later.         *)
WasSent(id) == \E w \in wire : w.command.command_id = id
HeardIsTrue ==
  \A i \in DOMAIN in :
    in[i].id = OwnId =>
      /\ in[i].status \in {"accepted", "completed"} => WasSent(OwnId)
      /\ in[i].type = "error" => ~WasSent(OwnId)

(* The client ends, but for the mode that reads a number of frames and has *)
(* no deadline: with a fleet that is silent it waits.                      *)
ToolTerminates == (Mode(flags) # "normal") ~> (at = "done")
=============================================================================
