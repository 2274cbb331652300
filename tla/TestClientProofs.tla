-------------------------- MODULE TestClientProofs --------------------------
(***************************************************************************)
(* Theorems about module TestClient, for every set of command lines, every *)
(* fleet and any commands of other clients, rate limit and buffer size.    *)
(***************************************************************************)
EXTENDS TestClient, TLAPS

----------------------------------------------------------------------------
(* The inductive invariant *)

(* What a client with these flags writes to the connection.                *)
Sendable(f) ==
  IF Mode(f) = "badVersion" THEN {Hello(99)}
  ELSE IF Mode(f) = "skipHello" THEN {SkipHelloFrame}
  ELSE {Hello(1)} \cup {c \in {CommandFrame(f)} : Mode(f) = "command" /\ Usable(f)}
                  \cup {BurstFrame(f, i) : i \in {j \in 1 .. f.burst : Mode(f) = "burst"}}

IdOf(r) == Field(r.data, "commandId", NoId)

(* The messages that a request may be built to.                            *)
Builds(r) == {Built(r, n) : n \in Sensitivities(r.command, r.data)}

Ids == {NoId, OwnId} \cup {BurstId(i) : i \in Nat} \cup {IdOf(r) : r \in OtherCommands}

(* What the server writes to it.                                           *)
ToClient ==
  {f \in [type: {"welcome", "telemetry", "status", "error", "command_ack"},
          code: Codes, id: Ids, status: Statuses] : FrameOK(f)}

(* The client's state fits its mode, and its counters what it waits for.   *)
ModeInv ==
  /\ flags \in CommandLine
  /\ at \in {"connected", "wantVersionError", "wantHelloError", "wantWelcome", "reading",
             "listening", "toSend", "wantResponse", "waiting", "sending", "counting", "done"}
  /\ at = "wantVersionError" => Mode(flags) = "badVersion"
  /\ at = "wantHelloError" => Mode(flags) = "skipHello"
  /\ at = "wantWelcome" => Mode(flags) \in {"normal", "duration", "command", "burst"}
  /\ at \in {"toSend", "wantResponse", "waiting"} => Mode(flags) = "command"
  /\ at \in {"sending", "counting"} => Mode(flags) = "burst"

CountInv ==
  /\ left \in 0 .. (FramesToRead + flags.burst)
  /\ at = "reading" => left \in 1 .. FramesToRead
  /\ at \in {"sending", "counting"} => left \in 1 .. flags.burst
  /\ accepted \in Nat /\ rateLimited \in Nat /\ accepted + rateLimited <= flags.burst
  /\ at \in {"connected", "wantWelcome", "sending"} => accepted = 0 /\ rateLimited = 0
  /\ at = "counting" => accepted + rateLimited + left <= flags.burst

(* Frames are whole, and the queue holds one more than its capacity only   *)
(* when the welcome was waited for.                                        *)
FramesInv ==
  /\ in \in Seq(ToClient) /\ reply \in ToClient \cup {NoFrame}
  /\ reply # NoFrame <=> stage = "reply"
  /\ status \in Codes \cup Statuses
  /\ Len(in) <= SendBuffer + 1
  /\ ~handshaked /\ stage # "greeted" => Len(in) <= SendBuffer

(* The server's side: what it routes the client has sent.                  *)
StageInv ==
  /\ out \in Seq(Sendable(flags))
  /\ handshaked \in BOOLEAN
  /\ stage \in {"idle", "welcome", "greeted", "route", "send", "reply"}
  /\ stage \in {"welcome", "greeted"} => ~handshaked
  /\ stage \in {"route", "send", "reply"} =>
       handshaked /\ request \in Sendable(flags) /\ request.type = "command"
  /\ Mode(flags) \in {"badVersion", "skipHello"} => ~handshaked /\ stage = "idle"

(* What was tracked and written passed the checks before.                  *)
TrackInv ==
  /\ recent \in [DOMAIN Fleet -> 0 .. RateLimit] /\ taken \in [DOMAIN Fleet -> Nat]
  /\ \A v \in DOMAIN Fleet : recent[v] <= taken[v]
  /\ pending \subseteq Ids \ {NoId}
  /\ stage = "send" => IdOf(request) # NoId
  /\ \A w \in wire :
       /\ w.command \in Builds(w.request)
       /\ IdOf(w.request) \in Ids \ {NoId}
       /\ BuildProtoCommand(Checked(w.request.command, w.request.data))
       /\ IF w.own THEN w.request \in Sendable(flags) /\ w.request.type = "command"
                   ELSE IdOf(w.request) # OwnId

(* Where the handshake is while the client waits for its first frame.      *)
FirstInv ==
  /\ at = "connected" => out = <<>> /\ in = <<>> /\ stage = "idle" /\ ~handshaked
  /\ at = "wantVersionError" =>
       \/ out = <<Hello(99)>> /\ in = <<>>
       \/ out = <<>> /\ in \in {<<>>, <<NewErrorFrame("PROTOCOL_VERSION_UNSUPPORTED")>>}
  /\ at = "wantHelloError" =>
       \/ out = <<SkipHelloFrame>> /\ in = <<>>
       \/ out = <<>> /\ in \in {<<>>, <<NewErrorFrame("INVALID_MESSAGE")>>}
  /\ at = "wantWelcome" =>
       \/ out = <<Hello(1)>> /\ in = <<>> /\ stage = "idle" /\ ~handshaked
       \/ out = <<>> /\ in = <<>> /\ stage = "welcome"
       \/ /\ out = <<>> /\ in # <<>> /\ Head(in).type = "welcome"
          /\ stage = "greeted" \/ (stage = "idle" /\ handshaked)
  /\ at = "toSend" => out = <<>> /\ stage \in {"idle", "greeted"}
  /\ outcome # "failed"

(* Nothing has been said or sent of the client's own command.              *)
Untouched == ~WasSent(OwnId) /\ \A i \in DOMAIN in : in[i].id # OwnId

(* The client's own command is routed once, and what is said of it then is *)
(* what came of it.                                                        *)
OwnInv ==
  /\ HeardIsTrue
  /\ OwnId \in pending =>
       Mode(flags) = "command" /\ out = <<>> /\ at \notin {"connected", "wantWelcome", "toSend"}
       /\ stage # "route"
  /\ Mode(flags) # "command" => Untouched /\ reply.id # OwnId
  /\ Mode(flags) = "command" =>
       /\ out \in {<<>>, <<Hello(1)>>, <<CommandFrame(flags)>>}
       /\ (out # <<>> \/ stage \in {"route", "send"} \/ at \in {"connected", "wantWelcome", "toSend"})
            => Untouched
       /\ stage \in {"route", "send", "reply"} =>
            out = <<>> /\ at \notin {"connected", "wantWelcome", "toSend"}
       /\ stage = "reply" =>
            /\ reply.id = OwnId /\ reply.status \in {"accepted", "completed"} => WasSent(OwnId)
            /\ reply.id = OwnId /\ reply.type = "error" => ~WasSent(OwnId)

ClientInv ==
  ModeInv /\ CountInv /\ FramesInv /\ StageInv /\ TrackInv /\ FirstInv /\ OwnInv

----------------------------------------------------------------------------
(* Frames and ids *)

(* The frames of the server, one builder at a time.                        *)
LEMMA FramesAreWhole ==
  /\ \A code \in Codes \ {""} : NewErrorFrame(code) \in ToClient
  /\ \A code \in Codes \ {""}, id \in Ids : NewCommandErrorFrame(code, id) \in ToClient
  /\ \A status_ \in Statuses \ {""}, id \in Ids \ {NoId} :
       NewServerCommandAckFrame(id, status_) \in ToClient
  /\ \A id \in Ids \ {NoId} : NewTimeoutAckFrame(id) \in ToClient
  /\ Frame("welcome") \in ToClient /\ Frame("telemetry") \in ToClient /\ NewStatusFrame \in ToClient
  /\ NoFrame \notin ToClient
<1>1. NoId \in Ids
  BY DEF Ids
<1> QED
  BY <1>1 DEF ToClient, FrameOK, NewErrorFrame, NewCommandErrorFrame, NewServerCommandAckFrame,
     NewTimeoutAckFrame, NewStatusFrame, Frame, NoFrame, Codes, Statuses

(* What a client sends, by its mode.                                       *)
LEMMA SendableShape ==
  ASSUME NEW f, NEW r \in Sendable(f)
  PROVE  /\ Mode(f) = "badVersion" => r = Hello(99)
         /\ Mode(f) = "skipHello" => r = SkipHelloFrame
         /\ Mode(f) \notin {"badVersion", "skipHello"} =>
              \/ r = Hello(1)
              \/ Mode(f) = "command" /\ Usable(f) /\ r = CommandFrame(f)
              \/ Mode(f) = "burst" /\ \E i \in 1 .. f.burst : r = BurstFrame(f, i)
  BY DEF Sendable

(* The id of a command it sends after the handshake.                       *)
LEMMA OwnIds ==
  ASSUME NEW f, NEW r \in Sendable(f), r.type = "command",
         Mode(f) \notin {"badVersion", "skipHello"}
  PROVE  /\ r.version = 1
         /\ r.data.commandId = IdOf(r)
         /\ IdOf(r) \in Ids \ {NoId}
         /\ IdOf(r) = OwnId <=> Mode(f) = "command"
         /\ Mode(f) = "command" => Usable(f) /\ r = CommandFrame(f)
         /\ Mode(f) \in {"command", "burst"}
<1>1. r # Hello(1)
  <2>1. Hello(1).type = "hello"
    BY DEF Hello
  <2> QED
    BY <2>1
<1>2. CASE Mode(f) = "command" /\ Usable(f) /\ r = CommandFrame(f)
  <2>1. r.data.commandId = OwnId /\ "commandId" \in DOMAIN r.data /\ r.version = 1
    BY <1>2 DEF CommandFrame, Command
  <2> QED
    BY <1>2, <2>1 DEF IdOf, Field, Ids, OwnId, NoId
<1>3. CASE Mode(f) = "burst" /\ \E i \in 1 .. f.burst : r = BurstFrame(f, i)
  <2>1. PICK i \in 1 .. f.burst : r = BurstFrame(f, i)
    BY <1>3
  <2>2. r.data.commandId = BurstId(i) /\ "commandId" \in DOMAIN r.data /\ r.version = 1
    BY <2>1 DEF BurstFrame, Command
  <2>3. i \in Nat /\ BurstId(i) \in Nat /\ BurstId(i) > 100
    BY <2>1 DEF BurstId
  <2> QED
    BY <1>3, <2>2, <2>3 DEF IdOf, Field, Ids, OwnId, NoId
<1> QED
  BY <1>1, <1>2, <1>3, SendableShape

(* A command of another client has another id.                             *)
LEMMA OtherIds ==
  ASSUME NEW r \in OtherCommands, FirstRefusal(r) = NoFrame
  PROVE  r.data.commandId = IdOf(r) /\ IdOf(r) \in Ids \ {NoId, OwnId}
  BY ClientAssumption DEF FirstRefusal, Refusal, Rejection, IdOf, Field, NoFrame, Ids,
     NewErrorFrame, NewCommandErrorFrame, NewServerCommandAckFrame, Frame

----------------------------------------------------------------------------
(* The client: its mode and its counters *)

(* The server, the vehicles and the other clients leave the client alone.  *)
LEMMA OthersSteps ==
  ASSUME [Next]_vars, ~ClientStep, ~Fail
  PROVE  UNCHANGED clientVars
<1>1. CASE ServerStep
  BY <1>1 DEF ServerStep, HandleMessage, QueueWelcome, RouteChecks, RouteFails, RouteSends,
     QueueReply
<1>2. CASE Telemetry \/ VehicleAnswers \/ TimesOut \/ WindowMoves \/ OtherRoutes
  BY <1>2 DEF Telemetry, VehicleAnswers, TimesOut, WindowMoves, OtherRoutes
<1> QED
  BY <1>1, <1>2 DEF Next, vars

(* A step of the client leaves the server, the tracker and the bounds alone. *)
LEMMA ClientSteps ==
  ASSUME ClientStep \/ Fail
  PROVE  UNCHANGED ServerSide /\ flags' = flags
  BY DEF ClientStep, Fail, SendFirst, ReadError, ReadWelcome, ReadFrame, Listen, SendCommand,
     ReadResponse, ReadWaiting, SendBurst, Count, clientVars

(* A mode is one of six. *)
LEMMA SixModes ==
  ASSUME NEW f
  PROVE  Mode(f) \in {"badVersion", "skipHello", "command", "burst", "duration", "normal"}
  BY Zenon DEF Mode

(* The client stays within its mode.                                       *)
LEMMA ModeStep ==
  ASSUME ClientInv, [Next]_vars
  PROVE  ModeInv'
<1>1. ModeInv
  BY DEF ClientInv
<1>2. CASE ClientStep \/ Fail
  <2>1. flags' = flags /\ Mode(flags)' = Mode(flags)
    BY <1>2, ClientSteps
  <2>2. Mode(flags) \in {"badVersion", "skipHello", "command", "burst", "duration", "normal"}
    BY SixModes, Zenon
  <2>3. CASE Fail
    BY <1>1, <2>1, <2>3 DEF Fail, End, ModeInv
  <2>4. CASE SendFirst
    BY <1>1, <2>1, <2>2, <2>4 DEF SendFirst, ModeInv
  <2>5. CASE \/ ReadError("wantVersionError", "PROTOCOL_VERSION_UNSUPPORTED")
            \/ ReadError("wantHelloError", "INVALID_MESSAGE")
    BY <1>1, <2>1, <2>5 DEF ReadError, End, ModeInv
  <2>6. CASE ReadWelcome
    BY <1>1, <2>1, <2>2, <2>6 DEF ReadWelcome, End, ModeInv
  <2>7. CASE ReadFrame \/ Listen \/ Count
    BY <1>1, <2>1, <2>7 DEF ReadFrame, Listen, Count, End, ModeInv, clientVars
  <2>8. CASE SendCommand
    BY <1>1, <2>1, <2>8 DEF SendCommand, End, ModeInv
  <2>9. CASE ReadResponse
    BY <1>1, <2>1, <2>9 DEF ReadResponse, End, ModeInv
  <2>10. CASE ReadWaiting
    BY <1>1, <2>1, <2>10 DEF ReadWaiting, End, ModeInv
  <2>11. CASE SendBurst
    BY <1>1, <2>1, <2>11 DEF SendBurst, ModeInv
  <2> QED
    BY <1>2, <2>3, <2>4, <2>5, <2>6, <2>7, <2>8, <2>9, <2>10, <2>11 DEF ClientStep
<1>3. CASE ~ClientStep /\ ~Fail
  BY <1>1, <1>3, OthersSteps DEF ModeInv, clientVars
<1> QED
  BY <1>2, <1>3

(* Its counters fit what it still waits for.                               *)
LEMMA CountStep ==
  ASSUME ClientInv, [Next]_vars
  PROVE  CountInv'
<1>1. CountInv /\ ModeInv /\ flags.burst \in Nat /\ FramesToRead \in Nat \ {0}
  BY ClientAssumption DEF ClientInv, ModeInv, CommandLine
<1>0. left \in Nat /\ accepted \in Nat /\ rateLimited \in Nat
  BY <1>1 DEF CountInv
<1>2. CASE ClientStep \/ Fail
  <2>1. flags' = flags
    BY <1>2, ClientSteps
  <2>3. CASE Fail
    BY <1>1, <2>1, <2>3 DEF Fail, End, CountInv
  <2>4. CASE SendFirst
    BY <1>1, <2>1, <2>4 DEF SendFirst, CountInv
  <2>5. CASE \/ ReadError("wantVersionError", "PROTOCOL_VERSION_UNSUPPORTED")
            \/ ReadError("wantHelloError", "INVALID_MESSAGE")
    BY <1>1, <2>1, <2>5 DEF ReadError, End, CountInv
  <2>6. CASE ReadWelcome
    <3>1. Mode(flags) = "burst" => flags.burst > 0
      BY <1>1 DEF Mode
    <3>2. CASE Head(in).type # "welcome"
      BY <1>1, <2>1, <2>6, <3>2 DEF ReadWelcome, End, CountInv
    <3>3. CASE Head(in).type = "welcome"
      <4>1. Mode(flags) \in {"normal", "duration", "command", "burst"}
        BY <1>1, <2>6 DEF ReadWelcome, ModeInv
      <4>2. CASE Mode(flags) = "normal"
        BY <1>1, <2>1, <2>6, <3>3, <4>2 DEF ReadWelcome, CountInv
      <4>3. CASE Mode(flags) = "burst"
        BY <1>1, <2>1, <2>6, <3>1, <3>3, <4>3 DEF ReadWelcome, CountInv
      <4>4. CASE Mode(flags) \in {"duration", "command"}
        BY <1>1, <2>1, <2>6, <3>3, <4>4 DEF ReadWelcome, CountInv
      <4> QED
        BY <4>1, <4>2, <4>3, <4>4
    <3> QED
      BY <3>2, <3>3
  <2>7. CASE ReadFrame
    BY <1>0, <1>1, <2>1, <2>7 DEF ReadFrame, End, CountInv
  <2>8. CASE Listen
    BY <1>1, <2>1, <2>8 DEF Listen, CountInv, clientVars
  <2>9. CASE SendCommand \/ ReadResponse \/ ReadWaiting
    BY <1>1, <2>1, <2>9 DEF SendCommand, ReadResponse, ReadWaiting, End, CountInv
  <2>10. CASE SendBurst
    BY <1>0, <1>1, <2>1, <2>10 DEF SendBurst, CountInv
  <2>11. CASE Count
    <3> DEFINE ack == IF Head(in).type = "command_ack" THEN 1 ELSE 0
               limited == IF Head(in).type = "error" /\ Head(in).code = "RATE_LIMITED" THEN 1 ELSE 0
               answers == IF Head(in).type \in {"command_ack", "error"} THEN 1 ELSE 0
    <3>1. ack \in {0, 1} /\ limited \in {0, 1} /\ answers \in {0, 1} /\ ack + limited <= answers
      OBVIOUS
    <3>2. /\ accepted' = accepted + ack /\ rateLimited' = rateLimited + limited
          /\ left' = left - answers
          /\ at' = "done" \/ (at' = at /\ ~(answers = 1 /\ left = 1))
          /\ at = "counting"
      BY <2>11 DEF Count, End
    <3> HIDE DEF ack, limited, answers
    <3>3. left \in 1 .. flags.burst /\ accepted + rateLimited + left <= flags.burst
      BY <1>1, <3>2 DEF CountInv
    <3> QED
      BY <1>0, <1>1, <2>1, <3>1, <3>2, <3>3 DEF CountInv
  <2> QED
    BY <1>2, <2>3, <2>4, <2>5, <2>6, <2>7, <2>8, <2>9, <2>10, <2>11 DEF ClientStep
<1>3. CASE ~ClientStep /\ ~Fail
  BY <1>1, <1>3, OthersSteps DEF CountInv, clientVars
<1> QED
  BY <1>2, <1>3

----------------------------------------------------------------------------
(* What is queued *)

(* A step of the client takes a frame from its queue or leaves it alone.   *)
LEMMA ClientReads ==
  ASSUME ClientStep \/ Fail
  PROVE  in' = in \/ (in # <<>> /\ in' = Tail(in))
  BY DEF ClientStep, Fail, SendFirst, ReadError, ReadWelcome, ReadFrame, Listen, SendCommand,
     ReadResponse, ReadWaiting, SendBurst, Count, Reads

(* Client.Send appends a frame, or drops it.                               *)
LEMMA Queued ==
  ASSUME in \in Seq(ToClient), NEW f \in ToClient, Send(f)
  PROVE  /\ in' \in Seq(ToClient)
         /\ in' = Append(in, f) \/ in' = in
         /\ \A i \in DOMAIN in' : (i \in DOMAIN in /\ in'[i] = in[i]) \/ in'[i] = f
         /\ in # <<>> => in' # <<>> /\ Head(in') = Head(in)
         /\ Len(in') > Len(in) => Len(in) < SendBuffer /\ Len(in') = Len(in) + 1
         /\ Len(in') \in Nat /\ Len(in) \in Nat /\ Len(in') >= Len(in)
  BY DEF Send

(* A refusal of Route is a whole frame, or there is none.                  *)
LEMMA RefusalsAreWhole ==
  ASSUME NEW r, IdOf(r) \in Ids
  PROVE  FirstRefusal(r) \in ToClient \cup {NoFrame}
<1> DEFINE id == Field(r.data, "commandId", NoId)
<1>1. id \in Ids
  BY DEF IdOf
<1> HIDE DEF id
<1>2. /\ "INVALID_MESSAGE" \in Codes \ {""} /\ "VEHICLE_NOT_FOUND" \in Codes \ {""}
      /\ "COMMAND_NOT_SUPPORTED" \in Codes \ {""} /\ "RATE_LIMITED" \in Codes \ {""}
      /\ "rejected" \in Statuses \ {""}
  BY DEF Codes, Statuses
<1>3. Refusal(r) \in ToClient \cup {NoFrame}
  BY <1>1, <1>2, FramesAreWhole DEF Refusal, id
<1>4. id # NoId => Rejection(r) \in ToClient \cup {NoFrame}
  BY <1>1, <1>2, FramesAreWhole DEF Rejection, id
<1>5. id = NoId => Refusal(r) # NoFrame
  BY DEF Refusal, id, NewErrorFrame, Frame, NoFrame
<1> QED
  BY <1>3, <1>4, <1>5 DEF FirstRefusal

(* The command that is being routed is one this client sends, with its id. *)
LEMMA RequestIds ==
  ASSUME ClientInv, stage \in {"route", "send", "reply"}
  PROVE  /\ handshaked
         /\ request.data.commandId = IdOf(request)
         /\ IdOf(request) \in Ids \ {NoId}
         /\ IdOf(request) = OwnId <=> Mode(flags) = "command"
         /\ Mode(flags) = "command" => Usable(flags) /\ request = CommandFrame(flags)
         /\ request \in Sendable(flags) /\ request.type = "command"
  BY OwnIds DEF ClientInv, StageInv

(* However a request is built, the id stays.                               *)
LEMMA BuildsKeepId ==
  ASSUME NEW r, NEW c \in Builds(r)
  PROVE  c.command_id = IdOf(r)
BY DEF Builds, Built, PBCommand, IdOf

(* What is on the wire can be built, and has the id of its request.        *)
LEMMA WireIds ==
  ASSUME TrackInv, NEW w \in wire
  PROVE  /\ w.command.command_id = IdOf(w.request) /\ IdOf(w.request) \in Ids \ {NoId}
         /\ BuildProtoCommand(Checked(w.request.command, w.request.data))
<1>1. w.command \in Builds(w.request) /\ IdOf(w.request) \in Ids \ {NoId}
      /\ BuildProtoCommand(Checked(w.request.command, w.request.data))
  BY Zenon DEF TrackInv
<1>2. w.command.command_id = IdOf(w.request)
  BY <1>1, BuildsKeepId
<1> QED
  BY <1>1, <1>2

(* Frames stay whole, and the queue within its capacity and the welcome.   *)
LEMMA FramesStep ==
  ASSUME ClientInv, [Next]_vars
  PROVE  FramesInv'
<1>1. FramesInv /\ StageInv /\ TrackInv
  BY DEF ClientInv
<1>2. in \in Seq(ToClient) /\ Len(in) \in Nat /\ SendBuffer \in Nat
  BY <1>1, ClientAssumption DEF FramesInv
<1>0. /\ "INVALID_MESSAGE" \in Codes \ {""} /\ "COMMAND_SEND_FAILED" \in Codes \ {""}
      /\ "PROTOCOL_VERSION_UNSUPPORTED" \in Codes \ {""}
      /\ "accepted" \in Statuses \ {""} /\ "completed" \in Statuses \ {""}
  BY DEF Codes, Statuses
<1> DEFINE Room == Len(in) <= SendBuffer + 1
                   /\ (~handshaked /\ stage # "greeted" => Len(in) <= SendBuffer)
<1>3. Room
  BY <1>1 DEF FramesInv
<1>4. ASSUME NEW f \in ToClient, Send(f), UNCHANGED handshaked,
             ~handshaked' /\ stage' # "greeted" => stage # "greeted"
      PROVE  in' \in Seq(ToClient) /\ Room'
  BY <1>2, <1>3, <1>4, Queued
<1>5. CASE ClientStep \/ Fail
  <2>1. UNCHANGED <<reply, stage, handshaked>>
    BY <1>5, ClientSteps DEF ServerSide, serverVars
  <2>2. in' \in Seq(ToClient) /\ Len(in') <= Len(in) /\ Len(in') \in Nat
    BY <1>2, <1>5, ClientReads
  <2>3. Room'
    BY <1>2, <1>3, <2>1, <2>2
  <2>4. status' \in Codes \cup Statuses
    <3>1. CASE ReadResponse
      <4>1. Head(in) \in ToClient
        BY <1>2, <3>1 DEF ReadResponse, Reads
      <4>2. Head(in).code \in Codes /\ Head(in).status \in Statuses
        BY <4>1 DEF ToClient
      <4>3. status' \in {status, Head(in).code, Head(in).status}
        BY <3>1 DEF ReadResponse
      <4> QED
        BY <1>1, <4>2, <4>3 DEF FramesInv
    <3>2. CASE ~ReadResponse
      <4>1. status' = status
        BY <1>5, <3>2 DEF ClientStep, Fail, SendFirst, ReadError, ReadWelcome, ReadFrame, Listen,
           SendCommand, ReadWaiting, SendBurst, Count, clientVars
      <4> QED
        BY <1>1, <4>1 DEF FramesInv
    <3> QED
      BY <3>1, <3>2
  <2> QED
    BY <1>1, <2>1, <2>2, <2>3, <2>4 DEF FramesInv
<1>6. CASE ~ClientStep /\ ~Fail
  <2>0. status' = status
    BY <1>6, OthersSteps DEF clientVars
  <2>1. CASE HandleMessage
    <3>1. UNCHANGED <<reply, handshaked>> /\ stage = "idle" /\ stage' \in {"idle", "welcome", "route"}
      BY <2>1 DEF HandleMessage
    <3>2. in' = in \/ \E c \in Codes \ {""} : Send(NewErrorFrame(c))
      BY <1>0, <2>1 DEF HandleMessage
    <3>3. in' \in Seq(ToClient) /\ Room'
      BY <1>2, <1>3, <1>4, <3>1, <3>2, FramesAreWhole
    <3> QED
      BY <1>1, <2>0, <3>1, <3>3 DEF FramesInv
  <2>2. CASE QueueWelcome
    <3>1. UNCHANGED reply /\ stage \in {"welcome", "greeted"} /\ stage' \in {"greeted", "idle"}
      BY <2>2 DEF QueueWelcome
    <3>2. in' \in Seq(ToClient) /\ Room'
      <4>1. CASE stage = "welcome"
        <5>1. in' = Append(in, Frame("welcome")) /\ stage' = "greeted"
          BY <2>2, <4>1 DEF QueueWelcome
        <5>2. ~handshaked
          BY <1>1, <4>1 DEF StageInv
        <5>3. Len(in) <= SendBuffer
          BY <1>3, <4>1, <5>2
        <5>4. Frame("welcome") \in ToClient
          BY FramesAreWhole
        <5>5. in' \in Seq(ToClient) /\ Len(in') = Len(in) + 1
          BY <1>2, <5>1, <5>4
        <5> QED
          BY <1>2, <5>1, <5>3, <5>5
      <4>2. CASE stage = "greeted"
        <5>1. in' = in /\ handshaked' = TRUE
          BY <2>2, <4>2 DEF QueueWelcome
        <5> QED
          BY <1>2, <1>3, <5>1
      <4> QED
        BY <3>1, <4>1, <4>2
    <3> QED
      BY <1>1, <2>0, <3>1, <3>2 DEF FramesInv
  <2>3. CASE RouteChecks
    <3>1. IdOf(request) \in Ids /\ handshaked
      BY <2>3, RequestIds DEF RouteChecks
    <3>2. FirstRefusal(request) \in ToClient \cup {NoFrame}
      BY <3>1, RefusalsAreWhole
    <3>3. /\ UNCHANGED <<in, handshaked>> /\ stage = "route"
          /\ \/ FirstRefusal(request) # NoFrame /\ stage' = "reply" /\ reply' = FirstRefusal(request)
             \/ stage' = "send" /\ reply' = reply
      BY <2>3 DEF RouteChecks, trackerVars
    <3>4. NoFrame \notin ToClient
      BY FramesAreWhole
    <3> QED
      BY <1>1, <1>3, <2>0, <3>1, <3>2, <3>3, <3>4 DEF FramesInv
  <2>4. CASE RouteFails \/ RouteSends
    <3>1. /\ request.data.commandId \in Ids \ {NoId} /\ handshaked
      BY <2>4, RequestIds DEF RouteFails, RouteSends
    <3>2. /\ UNCHANGED <<in, handshaked>> /\ stage' = "reply"
          /\ \/ \E c \in Codes \ {""} : reply' = NewErrorFrame(c)
             \/ reply' = NewServerCommandAckFrame(request.data.commandId, "accepted")
      BY <1>0, <2>4 DEF RouteFails, RouteSends
    <3>3. reply' \in ToClient /\ NoFrame \notin ToClient
      BY <1>0, <3>1, <3>2, FramesAreWhole
    <3> QED
      BY <1>1, <1>3, <2>0, <3>1, <3>2, <3>3 DEF FramesInv
  <2>5. CASE QueueReply
    <3>1. reply \in ToClient
      BY <1>1, <2>5 DEF QueueReply, FramesInv
    <3>2. Send(reply) /\ UNCHANGED handshaked /\ stage = "reply" /\ stage' = "idle" /\ reply' = NoFrame
      BY <2>5 DEF QueueReply
    <3>3. in' \in Seq(ToClient) /\ Room'
      BY <1>4, <3>1, <3>2
    <3> QED
      BY <1>1, <2>0, <3>2, <3>3 DEF FramesInv
  <2>6. CASE Telemetry \/ VehicleAnswers \/ TimesOut \/ WindowMoves \/ OtherRoutes
    <3>1. UNCHANGED <<handshaked, stage, reply>>
      BY <2>6 DEF Telemetry, VehicleAnswers, TimesOut, WindowMoves, OtherRoutes, serverVars
    <3>2. in' = in \/ \E f \in ToClient : Send(f)
      <4>1. CASE Telemetry
        BY <4>1, FramesAreWhole DEF Telemetry, Broadcast
      <4>2. CASE VehicleAnswers
        <5>1. PICK w \in wire : Broadcast(NewServerCommandAckFrame(w.command.command_id, "completed"))
          BY <4>2 DEF VehicleAnswers
        <5>2. w.command.command_id = IdOf(w.request) /\ IdOf(w.request) \in Ids \ {NoId}
          BY <1>1, <5>1, WireIds
        <5> QED
          BY <1>0, <5>1, <5>2, FramesAreWhole DEF Broadcast
      <4>3. CASE TimesOut
        <5>1. PICK id \in pending : Broadcast(NewTimeoutAckFrame(id))
          BY <4>3 DEF TimesOut
        <5>2. id \in Ids \ {NoId}
          BY <1>1, <5>1 DEF TrackInv
        <5> QED
          BY <5>1, <5>2, FramesAreWhole DEF Broadcast
      <4>4. CASE WindowMoves \/ OtherRoutes
        BY <4>4 DEF WindowMoves, OtherRoutes
      <4> QED
        BY <2>6, <4>1, <4>2, <4>3, <4>4
    <3>3. in' \in Seq(ToClient) /\ Room'
      BY <1>2, <1>3, <1>4, <3>1, <3>2
    <3> QED
      BY <1>1, <2>0, <3>1, <3>3 DEF FramesInv
  <2>7. CASE UNCHANGED vars
    BY <1>1, <2>7 DEF FramesInv, vars, clientVars, serverVars
  <2> QED
    BY <1>6, <2>1, <2>2, <2>3, <2>4, <2>5, <2>6, <2>7 DEF Next, ServerStep
<1> QED
  BY <1>5, <1>6

----------------------------------------------------------------------------
(* What the server does with what was sent *)

(* What the client has sent, and how far the server is with it.            *)
LEMMA StageStep ==
  ASSUME ClientInv, [Next]_vars
  PROVE  StageInv'
<1>1. StageInv /\ ModeInv /\ CountInv /\ flags.burst \in Nat
  BY DEF ClientInv, ModeInv, CommandLine
<1>2. CASE ClientStep \/ Fail
  <2>1. UNCHANGED <<flags, stage, handshaked, request>>
    BY <1>2, ClientSteps DEF ServerSide, serverVars
  <2>2. out' = out \/ \E f \in Sendable(flags) : out' = Append(out, f)
    <3>1. CASE SendFirst
      BY <3>1 DEF SendFirst, Sendable
    <3>2. CASE SendCommand
      <4>1. Mode(flags) = "command"
        BY <1>1, <3>2 DEF SendCommand, ModeInv
      <4>2. CASE Usable(flags)
        <5>1. CommandFrame(flags) \in Sendable(flags)
          BY <4>1, <4>2 DEF Sendable
        <5> QED
          BY <3>2, <4>2, <5>1 DEF SendCommand
      <4> QED
        BY <3>2, <4>2 DEF SendCommand
    <3>3. CASE SendBurst
      <4>1. Mode(flags) = "burst" /\ left \in 1 .. flags.burst
        BY <1>1, <3>3 DEF SendBurst, ModeInv, CountInv
      <4>2. flags.burst - left + 1 \in 1 .. flags.burst
        BY <1>1, <4>1
      <4>3. BurstFrame(flags, flags.burst - left + 1) \in Sendable(flags)
        BY <4>1, <4>2 DEF Sendable
      <4> QED
        BY <3>3, <4>3 DEF SendBurst
    <3> QED
      BY <1>2, <3>1, <3>2, <3>3 DEF ClientStep, Fail, ReadError, ReadWelcome, ReadFrame, Listen,
         ReadResponse, ReadWaiting, Count
  <2>3. out' \in Seq(Sendable(flags))
    BY <1>1, <2>2 DEF StageInv
  <2>4. Sendable(flags)' = Sendable(flags) /\ Mode(flags)' = Mode(flags)
    BY <2>1
  <2> QED
    BY <1>1, <2>1, <2>3, <2>4 DEF StageInv
<1>3. CASE ~ClientStep /\ ~Fail
  <2>0. flags' = flags /\ Sendable(flags)' = Sendable(flags) /\ Mode(flags)' = Mode(flags)
    BY <1>3, OthersSteps DEF clientVars
  <2>1. CASE HandleMessage
    <3> DEFINE f == Head(out)
    <3>1. f \in Sendable(flags) /\ out' \in Seq(Sendable(flags))
      BY <1>1, <2>1 DEF HandleMessage, StageInv
    <3>2. /\ UNCHANGED handshaked /\ stage = "idle" /\ request' = f
          /\ \/ stage' = stage
             \/ /\ f.version = 1 /\ ((f.type = "hello") # handshaked)
                /\ stage' = IF f.type = "hello" THEN "welcome" ELSE "route"
      BY <2>1 DEF HandleMessage
    <3> HIDE DEF f
    <3>3. Mode(flags) = "badVersion" => f.version # 1
      <4>1. Hello(99).version = 99
        BY DEF Hello
      <4> QED
        BY <3>1, <4>1, SendableShape
    <3>4. Mode(flags) = "skipHello" => f.type = "command"
      <4>1. SkipHelloFrame.type = "command"
        BY DEF SkipHelloFrame, Command
      <4> QED
        BY <3>1, <4>1, SendableShape
    <3>5. Mode(flags) \notin {"badVersion", "skipHello"} => f.type \in {"hello", "command"}
      <4>1. /\ Hello(1).type = "hello" /\ CommandFrame(flags).type = "command"
            /\ \A i : BurstFrame(flags, i).type = "command"
        BY DEF Hello, CommandFrame, BurstFrame, Command
      <4> QED
        BY <3>1, <4>1, SendableShape
    <3> QED
      BY <1>1, <2>0, <3>1, <3>2, <3>3, <3>4, <3>5 DEF StageInv
  <2>2. CASE QueueWelcome
    <3>1. /\ UNCHANGED <<out, request>>
          /\ \/ stage = "welcome" /\ stage' = "greeted" /\ handshaked' = handshaked
             \/ stage = "greeted" /\ stage' = "idle" /\ handshaked' = TRUE
      BY <2>2 DEF QueueWelcome
    <3>2. Mode(flags) \notin {"badVersion", "skipHello"} /\ handshaked = FALSE
      BY <1>1, <3>1 DEF StageInv
    <3>3. out' \in Seq(Sendable(flags)) /\ handshaked' \in BOOLEAN
      BY <1>1, <3>1 DEF StageInv
    <3> QED
      BY <2>0, <3>1, <3>2, <3>3 DEF StageInv
  <2>3. CASE RouteChecks \/ RouteFails \/ RouteSends
    <3>1. UNCHANGED <<out, handshaked, request>> /\ stage \in {"route", "send"} /\ stage' \in {"send", "reply"}
      BY <2>3 DEF RouteChecks, RouteFails, RouteSends
    <3> QED
      BY <1>1, <2>0, <3>1 DEF StageInv
  <2>4. CASE QueueReply
    BY <1>1, <2>0, <2>4 DEF StageInv, QueueReply
  <2>5. CASE Telemetry \/ VehicleAnswers \/ TimesOut \/ WindowMoves \/ OtherRoutes \/ UNCHANGED vars
    <3>1. UNCHANGED <<out, handshaked, stage, request>>
      BY <2>5 DEF Telemetry, VehicleAnswers, TimesOut, WindowMoves, OtherRoutes, vars, serverVars
    <3> QED
      BY <1>1, <2>0, <3>1 DEF StageInv
  <2> QED
    BY <1>3, <2>1, <2>2, <2>3, <2>4, <2>5 DEF Next, ServerStep
<1> QED
  BY <1>2, <1>3

(* A command that is not refused names a vehicle that has room for it.     *)
LEMMA TrackedVehicle ==
  ASSUME NEW r, FirstRefusal(r) = NoFrame
  PROVE  r.vid \in DOMAIN Fleet /\ ~(recent[r.vid] >= RateLimit)
<1>1. /\ \A code : NewErrorFrame(code) # NoFrame
      /\ \A code, id : NewCommandErrorFrame(code, id) # NoFrame
      /\ \A id, how : NewServerCommandAckFrame(id, how) # NoFrame
  BY DEF NewErrorFrame, NewCommandErrorFrame, NewServerCommandAckFrame, Frame, NoFrame
<1>2. Refusal(r) = NoFrame /\ Rejection(r) = NoFrame
  BY DEF FirstRefusal
<1>3. r.vid \in DOMAIN Fleet
  BY <1>1, <1>2 DEF Refusal
<1>4. ~(recent[r.vid] >= RateLimit)
  BY <1>1, <1>2 DEF Rejection
<1> QED
  BY <1>3, <1>4

(* The tracker holds ids of commands, the window stays within the limit,   *)
(* and what is written was built from a request that can be.               *)
LEMMA TrackStep ==
  ASSUME ClientInv, [Next]_vars
  PROVE  TrackInv'
<1>1. TrackInv /\ RateLimit \in Nat
  BY ClientAssumption DEF ClientInv
<1> DEFINE Known(w) ==
             /\ w.command \in Builds(w.request)
             /\ IdOf(w.request) \in Ids \ {NoId}
             /\ BuildProtoCommand(Checked(w.request.command, w.request.data))
             /\ IF w.own THEN w.request \in Sendable(flags) /\ w.request.type = "command"
                         ELSE IdOf(w.request) # OwnId
           Counted ==
             /\ recent \in [DOMAIN Fleet -> 0 .. RateLimit] /\ taken \in [DOMAIN Fleet -> Nat]
             /\ \A v \in DOMAIN Fleet : recent[v] <= taken[v]
           Sent == \A w \in wire : Known(w)
           Waiting == pending \subseteq Ids \ {NoId}
           Building == stage = "send" => IdOf(request) # NoId
<1>2. TrackInv <=> Counted /\ Waiting /\ Building /\ Sent
  BY Zenon DEF TrackInv
<1>3. TrackInv' <=> Counted' /\ Waiting' /\ Building' /\ Sent'
  BY Zenon DEF TrackInv
<1>4. flags' = flags
  BY ClientSteps, OthersSteps DEF clientVars
<1>5. ASSUME NEW w, Known(w)
      PROVE  Known(w)'
  BY <1>4, <1>5
<1> HIDE DEF Known
<1>6. ASSUME UNCHANGED <<recent, taken>>
      PROVE  Counted'
  BY <1>1, <1>2, <1>6
<1>7. ASSUME NEW r, FirstRefusal(r) = NoFrame,
             recent' = [recent EXCEPT ![r.vid] = @ + 1], taken' = [taken EXCEPT ![r.vid] = @ + 1]
      PROVE  Counted'
  <2>1. r.vid \in DOMAIN Fleet /\ ~(recent[r.vid] >= RateLimit)
    BY <1>7, TrackedVehicle
  <2>2. recent[r.vid] + 1 \in 0 .. RateLimit
    BY <1>1, <1>2, <2>1
  <2> QED
    BY <1>1, <1>2, <1>7, <2>1, <2>2
<1>8. ASSUME UNCHANGED wire
      PROVE  Sent'
  BY <1>1, <1>2, <1>5, <1>8
<1> HIDE DEF Counted, Sent
<1>9. CASE ClientStep \/ Fail
  <2>1. UNCHANGED <<stage, request, pending, recent, taken, wire>>
    BY <1>9, ClientSteps DEF ServerSide, serverVars, trackerVars
  <2> QED
    BY <1>1, <1>2, <1>3, <1>6, <1>8, <2>1
<1>10. CASE HandleMessage \/ QueueWelcome \/ QueueReply
  <2>1. UNCHANGED <<pending, recent, taken, wire>> /\ stage' # "send"
    BY <1>10 DEF HandleMessage, QueueWelcome, QueueReply, trackerVars
  <2> QED
    BY <1>1, <1>2, <1>3, <1>6, <1>8, <2>1
<1>11. CASE RouteChecks
  <2>1. request.data.commandId = IdOf(request) /\ IdOf(request) \in Ids \ {NoId}
    BY <1>11, RequestIds DEF RouteChecks
  <2>2. request' = request /\ wire' = wire
    BY <1>11 DEF RouteChecks, trackerVars
  <2>3. CASE FirstRefusal(request) # NoFrame
    <3>1. UNCHANGED <<pending, recent, taken>> /\ stage' = "reply"
      BY <1>11, <2>3 DEF RouteChecks, trackerVars
    <3> QED
      BY <1>1, <1>2, <1>3, <1>6, <1>8, <2>2, <3>1
  <2>4. CASE FirstRefusal(request) = NoFrame
    <3>1. /\ pending' = pending \cup {request.data.commandId}
          /\ recent' = [recent EXCEPT ![request.vid] = @ + 1]
          /\ taken' = [taken EXCEPT ![request.vid] = @ + 1]
      BY <1>11, <2>4 DEF RouteChecks
    <3>2. Counted'
      BY <1>7, <2>4, <3>1
    <3>3. Waiting' /\ Building'
      BY <1>1, <1>2, <2>1, <2>2, <3>1
    <3> QED
      BY <1>3, <1>8, <2>2, <3>2, <3>3
  <2> QED
    BY <2>3, <2>4
<1>12. CASE RouteFails
  <2>1. UNCHANGED <<recent, taken, wire>> /\ pending' \subseteq pending /\ stage' = "reply"
    BY <1>12 DEF RouteFails
  <2> QED
    BY <1>1, <1>2, <1>3, <1>6, <1>8, <2>1
<1>13. CASE RouteSends
  <2>0. PICK c \in Builds(request) :
          wire' = wire \cup {[own |-> TRUE, request |-> request, command |-> c]}
    BY <1>13 DEF RouteSends, Builds
  <2>1. /\ UNCHANGED <<pending, recent, taken>> /\ stage' = "reply"
        /\ BuildProtoCommand(Checked(request.command, request.data))
    BY <1>13 DEF RouteSends
  <2>2. Known([own |-> TRUE, request |-> request, command |-> c])
    <3>1. IdOf(request) \in Ids \ {NoId} /\ request \in Sendable(flags) /\ request.type = "command"
      BY <1>13, RequestIds DEF RouteSends
    <3> QED
      BY <2>1, <3>1 DEF Known
  <2>3. Sent'
    BY <1>1, <1>2, <1>5, <2>0, <2>2 DEF Sent
  <2> QED
    BY <1>1, <1>2, <1>3, <1>6, <2>1, <2>3
<1>14. CASE Telemetry \/ VehicleAnswers \/ TimesOut
  <2>1. UNCHANGED <<recent, taken, wire, stage, request>> /\ pending' \subseteq pending
    BY <1>14 DEF Telemetry, VehicleAnswers, TimesOut, trackerVars, serverVars
  <2> QED
    BY <1>1, <1>2, <1>3, <1>6, <1>8, <2>1
<1>15. CASE WindowMoves
  <2>1. UNCHANGED <<pending, taken, wire, stage, request>>
    BY <1>15 DEF WindowMoves, serverVars
  <2>2. PICK v \in DOMAIN Fleet : recent[v] > 0 /\ recent' = [recent EXCEPT ![v] = @ - 1]
    BY <1>15 DEF WindowMoves
  <2>3. recent[v] - 1 \in 0 .. RateLimit
    BY <1>1, <1>2, <2>2 DEF Counted
  <2>4. Counted'
    BY <1>1, <1>2, <2>1, <2>2, <2>3 DEF Counted
  <2> QED
    BY <1>1, <1>2, <1>3, <1>8, <2>1, <2>4
<1>16. CASE OtherRoutes
  <2>1. PICK r \in OtherCommands :
          /\ FirstRefusal(r) = NoFrame
          /\ BuildProtoCommand(Checked(r.command, r.data))
          /\ pending' = pending \cup {r.data.commandId}
          /\ recent' = [recent EXCEPT ![r.vid] = @ + 1]
          /\ taken' = [taken EXCEPT ![r.vid] = @ + 1]
          /\ \E c \in Builds(r) :
               wire' = wire \cup {[own |-> FALSE, request |-> r, command |-> c]}
    BY <1>16 DEF OtherRoutes, Builds
  <2>0. PICK c \in Builds(r) :
          wire' = wire \cup {[own |-> FALSE, request |-> r, command |-> c]}
    BY <2>1
  <2>2. r.data.commandId = IdOf(r) /\ IdOf(r) \in Ids \ {NoId, OwnId}
    BY <2>1, OtherIds
  <2>3. Known([own |-> FALSE, request |-> r, command |-> c])
    BY <2>1, <2>2 DEF Known
  <2>4. Sent'
    BY <1>1, <1>2, <1>5, <2>0, <2>3 DEF Sent
  <2>5. Counted'
    BY <1>7, <2>1
  <2>6. Waiting' /\ Building'
    <3>1. UNCHANGED <<stage, request>>
      BY <1>16 DEF OtherRoutes, serverVars
    <3> QED
      BY <1>1, <1>2, <2>1, <2>2, <3>1
  <2> QED
    BY <1>3, <2>4, <2>5, <2>6
<1>17. CASE UNCHANGED vars
  BY <1>1, <1>2, <1>3, <1>6, <1>8, <1>17 DEF vars, trackerVars, serverVars
<1> QED
  BY <1>9, <1>10, <1>11, <1>12, <1>13, <1>14, <1>15, <1>16, <1>17 DEF Next, ServerStep

----------------------------------------------------------------------------
(* The handshake *)

(* The ids and the kinds of the frames.                                    *)
LEMMA FrameFields ==
  /\ \A code : NewErrorFrame(code).id = NoId /\ NewErrorFrame(code).type = "error"
               /\ NewErrorFrame(code).status = "" /\ NewErrorFrame(code).code = code
  /\ \A code, id : NewCommandErrorFrame(code, id).id = id
                   /\ NewCommandErrorFrame(code, id).status = ""
  /\ \A id, how : /\ NewServerCommandAckFrame(id, how).id = id
                  /\ NewServerCommandAckFrame(id, how).status = how
                  /\ NewServerCommandAckFrame(id, how).type = "command_ack"
  /\ \A id : /\ NewTimeoutAckFrame(id).id = id /\ NewTimeoutAckFrame(id).status = "timeout"
             /\ NewTimeoutAckFrame(id).type = "command_ack"
  /\ \A type : Frame(type).id = NoId /\ Frame(type).type = type
  /\ NewStatusFrame.id = NoId /\ NoFrame.id = NoId
  BY DEF NewErrorFrame, NewCommandErrorFrame, NewServerCommandAckFrame, NewTimeoutAckFrame,
     NewStatusFrame, Frame, NoFrame

(* The handshake from the client's first frame to its first answer.        *)
LEMMA FirstStep ==
  ASSUME ClientInv, [Next]_vars
  PROVE  FirstInv'
<1>1. FirstInv /\ StageInv /\ ModeInv /\ FramesInv
  BY DEF ClientInv
<1>2. in \in Seq(ToClient) /\ out \in Seq(Sendable(flags)) /\ SendBuffer \in Nat
  BY <1>1, ClientAssumption DEF FramesInv, StageInv
<1>3. CASE ClientStep \/ Fail
  <2>1. UNCHANGED <<flags, stage, handshaked>>
    BY <1>3, ClientSteps DEF ServerSide, serverVars
  <2>2. CASE Fail
    BY <1>1, <2>2 DEF Fail, End, FirstInv
  <2>3. CASE SendFirst
    <3>1. at = "connected" /\ out = <<>> /\ in = <<>> /\ stage = "idle" /\ ~handshaked
      BY <1>1, <2>3 DEF SendFirst, FirstInv
    <3>2. /\ in' = in /\ outcome' = outcome
          /\ \/ at' = "wantVersionError" /\ out' = Append(out, Hello(99))
             \/ at' = "wantHelloError" /\ out' = Append(out, SkipHelloFrame)
             \/ at' = "wantWelcome" /\ out' = Append(out, Hello(1))
      BY <2>3 DEF SendFirst
    <3>3. \A f : Append(<<>>, f) = <<f>>
      OBVIOUS
    <3>4. \/ at' = "wantVersionError" /\ out' = <<Hello(99)>>
          \/ at' = "wantHelloError" /\ out' = <<SkipHelloFrame>>
          \/ at' = "wantWelcome" /\ out' = <<Hello(1)>>
      BY <3>1, <3>2, <3>3
    <3> QED
      BY <1>1, <2>1, <3>1, <3>2, <3>4 DEF FirstInv
  <2>4. CASE ReadError("wantVersionError", "PROTOCOL_VERSION_UNSUPPORTED")
    <3>1. in # <<>> /\ Head(in) = NewErrorFrame("PROTOCOL_VERSION_UNSUPPORTED")
      BY <1>1, <2>4 DEF ReadError, Reads, FirstInv
    <3>2. Head(in).type = "error" /\ Head(in).code = "PROTOCOL_VERSION_UNSUPPORTED"
      BY <3>1 DEF NewErrorFrame, Frame
    <3>3. at' = "done" /\ outcome' = "passed"
      BY <2>4, <3>2 DEF ReadError, End
    <3> QED
      BY <3>3 DEF FirstInv
  <2>5. CASE ReadError("wantHelloError", "INVALID_MESSAGE")
    <3>1. in # <<>> /\ Head(in) = NewErrorFrame("INVALID_MESSAGE")
      BY <1>1, <2>5 DEF ReadError, Reads, FirstInv
    <3>2. Head(in).type = "error" /\ Head(in).code = "INVALID_MESSAGE"
      BY <3>1 DEF NewErrorFrame, Frame
    <3>3. at' = "done" /\ outcome' = "passed"
      BY <2>5, <3>2 DEF ReadError, End
    <3> QED
      BY <3>3 DEF FirstInv
  <2>6. CASE ReadWelcome
    <3>1. in # <<>> /\ out' = out /\ at = "wantWelcome"
      BY <2>6 DEF ReadWelcome, Reads
    <3>2. Head(in).type = "welcome" /\ out = <<>> /\ stage \in {"greeted", "idle"}
      BY <1>1, <3>1 DEF FirstInv
    <3>3. Mode(flags) \in {"normal", "duration", "command", "burst"}
      BY <1>1, <3>1 DEF ModeInv
    <3>4. at' \in {"reading", "listening", "toSend", "sending"} /\ outcome' = outcome
      BY <2>6, <3>2, <3>3 DEF ReadWelcome
    <3> QED
      BY <1>1, <2>1, <3>1, <3>2, <3>4 DEF FirstInv
  <2>7. CASE ReadFrame \/ Listen \/ SendCommand \/ ReadResponse \/ ReadWaiting \/ SendBurst \/ Count
    <3>1. /\ at' \in {"reading", "listening", "wantResponse", "waiting", "sending", "counting", "done"}
          /\ outcome' \in {outcome, "passed", "fatal", "answered", "error", "timedout", "counted"}
      BY <2>7 DEF ReadFrame, Listen, SendCommand, ReadResponse, ReadWaiting, SendBurst, Count, End,
         clientVars
    <3> QED
      BY <1>1, <3>1 DEF FirstInv
  <2> QED
    BY <1>3, <2>2, <2>3, <2>4, <2>5, <2>6, <2>7 DEF ClientStep
<1>4. CASE ~ClientStep /\ ~Fail
  <2>0. UNCHANGED <<flags, at, outcome>>
    BY <1>4, OthersSteps DEF clientVars
  <2>1. at \in {"wantVersionError", "wantHelloError"} => ~handshaked /\ stage = "idle"
    BY <1>1 DEF ModeInv, StageInv
  <2>2. CASE HandleMessage
    <3> DEFINE f == Head(out)
    <3>1. /\ out # <<>> /\ out' = Tail(out) /\ stage = "idle" /\ handshaked' = handshaked
          /\ f.version # 1 => Send(NewErrorFrame("PROTOCOL_VERSION_UNSUPPORTED")) /\ stage' = stage
          /\ f.version = 1 /\ (f.type = "hello") = handshaked =>
               Send(NewErrorFrame("INVALID_MESSAGE")) /\ stage' = stage
          /\ f.version = 1 /\ (f.type = "hello") # handshaked =>
               stage' = (IF f.type = "hello" THEN "welcome" ELSE "route") /\ in' = in
      BY <2>2 DEF HandleMessage
    <3>2. \A g : in = <<>> /\ Send(g) => in' \in {<<>>, <<g>>}
      BY DEF Send
    <3>3. CASE at = "wantVersionError"
      <4>1. out = <<Hello(99)>> /\ in = <<>>
        BY <1>1, <3>1, <3>3 DEF FirstInv
      <4>2. f.version # 1 /\ out' = <<>>
        <5>1. f = Hello(99) /\ Tail(out) = <<>>
          BY <4>1
        <5>2. Hello(99).version = 99
          BY DEF Hello
        <5> HIDE DEF f
        <5> QED
          BY <3>1, <5>1, <5>2
      <4>3. in' \in {<<>>, <<NewErrorFrame("PROTOCOL_VERSION_UNSUPPORTED")>>}
        BY <3>1, <3>2, <4>1, <4>2
      <4> QED
        BY <1>1, <2>0, <3>3, <4>2, <4>3 DEF FirstInv
    <3>4. CASE at = "wantHelloError"
      <4>1. out = <<SkipHelloFrame>> /\ in = <<>>
        BY <1>1, <3>1, <3>4 DEF FirstInv
      <4>2. f.version = 1 /\ f.type = "command" /\ out' = <<>> /\ handshaked = FALSE
        <5>1. f = SkipHelloFrame /\ Tail(out) = <<>>
          BY <4>1
        <5>2. SkipHelloFrame.version = 1 /\ SkipHelloFrame.type = "command"
          BY DEF SkipHelloFrame, Command
        <5>3. handshaked = FALSE
          BY <1>1, <2>1, <3>4 DEF StageInv
        <5> HIDE DEF f
        <5> QED
          BY <3>1, <5>1, <5>2, <5>3
      <4>3. (f.type = "hello") = handshaked
        BY <4>2
      <4>4. in' \in {<<>>, <<NewErrorFrame("INVALID_MESSAGE")>>}
        BY <3>1, <3>2, <4>1, <4>2, <4>3
      <4> QED
        BY <1>1, <2>0, <3>4, <4>2, <4>4 DEF FirstInv
    <3>5. CASE at = "wantWelcome"
      <4>1. out = <<Hello(1)>> /\ in = <<>> /\ handshaked = FALSE
        BY <1>1, <3>1, <3>5 DEF FirstInv, StageInv
      <4>2. f.version = 1 /\ f.type = "hello" /\ out' = <<>>
        <5>1. f = Hello(1) /\ Tail(out) = <<>>
          BY <4>1
        <5>2. Hello(1).version = 1 /\ Hello(1).type = "hello"
          BY DEF Hello
        <5> HIDE DEF f
        <5> QED
          BY <3>1, <5>1, <5>2
      <4>3. stage' = "welcome" /\ in' = <<>>
        BY <3>1, <4>1, <4>2
      <4> QED
        BY <1>1, <2>0, <3>5, <4>2, <4>3 DEF FirstInv
    <3>6. at \notin {"connected", "toSend"}
      BY <1>1, <3>1 DEF FirstInv
    <3> QED
      BY <1>1, <2>0, <3>3, <3>4, <3>5, <3>6 DEF FirstInv
  <2>3. CASE QueueWelcome
    <3>1. /\ out' = out
          /\ \/ stage = "welcome" /\ in' = Append(in, Frame("welcome")) /\ stage' = "greeted"
             \/ stage = "greeted" /\ handshaked' = TRUE /\ stage' = "idle" /\ in' = in
      BY <2>3 DEF QueueWelcome
    <3>2. at \notin {"connected", "wantVersionError", "wantHelloError"}
      BY <1>1, <2>1, <3>1 DEF FirstInv
    <3>3. CASE at = "wantWelcome"
      <4>1. CASE stage = "welcome"
        <5>1. out = <<>> /\ in = <<>>
          BY <1>1, <3>3, <4>1 DEF FirstInv
        <5>2. in' = <<Frame("welcome")>> /\ stage' = "greeted"
          BY <3>1, <4>1, <5>1
        <5>3. in' # <<>> /\ Head(in').type = "welcome"
          <6>1. Frame("welcome").type = "welcome"
            BY DEF Frame
          <6> QED
            BY <5>2, <6>1
        <5> QED
          BY <1>1, <2>0, <3>1, <3>3, <5>1, <5>2, <5>3 DEF FirstInv
      <4>2. CASE stage = "greeted"
        BY <1>1, <2>0, <3>1, <3>3, <4>2 DEF FirstInv
      <4> QED
        BY <3>1, <4>1, <4>2
    <3> QED
      BY <1>1, <2>0, <3>1, <3>2, <3>3 DEF FirstInv
  <2>4. CASE RouteChecks \/ RouteFails \/ RouteSends \/ QueueReply
    <3>1. stage \in {"route", "send", "reply"}
      BY <2>4 DEF RouteChecks, RouteFails, RouteSends, QueueReply
    <3>2. at \notin {"connected", "wantVersionError", "wantHelloError", "wantWelcome", "toSend"}
      BY <1>1, <2>1, <3>1 DEF FirstInv
    <3> QED
      BY <1>1, <2>0, <3>2 DEF FirstInv
  <2>5. CASE Telemetry \/ VehicleAnswers \/ TimesOut \/ WindowMoves \/ OtherRoutes
    <3>1. UNCHANGED <<out, stage, handshaked>>
      BY <2>5 DEF Telemetry, VehicleAnswers, TimesOut, WindowMoves, OtherRoutes, serverVars
    <3>2. in' = in \/ \E f : Broadcast(f)
      BY <2>5 DEF Telemetry, VehicleAnswers, TimesOut, WindowMoves, OtherRoutes
    <3>3. in' = in \/ (handshaked /\ \E f : Send(f))
      BY <3>2 DEF Broadcast
    <3>4. in # <<>> => in' # <<>> /\ Head(in') = Head(in)
      BY <1>2, <3>3 DEF Send
    <3>5. ~handshaked => in' = in
      BY <3>3
    <3> QED
      BY <1>1, <2>0, <2>1, <3>1, <3>4, <3>5 DEF FirstInv, StageInv
  <2>6. CASE UNCHANGED vars
    BY <1>1, <2>6 DEF vars, clientVars, serverVars, FirstInv
  <2> QED
    BY <1>4, <2>2, <2>3, <2>4, <2>5, <2>6 DEF Next, ServerStep
<1> QED
  BY <1>3, <1>4

----------------------------------------------------------------------------
(* The client's own command *)

(* What is refused is not told as done, and names this command or none.    *)
LEMMA RefusalSays ==
  ASSUME NEW r, FirstRefusal(r) # NoFrame
  PROVE  /\ FirstRefusal(r).status \notin {"accepted", "completed"}
         /\ FirstRefusal(r).id \in {NoId, IdOf(r)}
<1> DEFINE id == Field(r.data, "commandId", NoId)
<1>1. Refusal(r) # NoFrame => Refusal(r) \in
        {NewErrorFrame("INVALID_MESSAGE"), NewCommandErrorFrame("VEHICLE_NOT_FOUND", id),
         NewCommandErrorFrame("COMMAND_NOT_SUPPORTED", id)}
  BY DEF Refusal
<1>2. Rejection(r) # NoFrame => Rejection(r) \in
        {NewServerCommandAckFrame(id, "rejected"), NewCommandErrorFrame("RATE_LIMITED", id)}
  BY DEF Rejection
<1>3. FirstRefusal(r) \in
        {NewErrorFrame("INVALID_MESSAGE"), NewCommandErrorFrame("VEHICLE_NOT_FOUND", id),
         NewCommandErrorFrame("COMMAND_NOT_SUPPORTED", id),
         NewServerCommandAckFrame(id, "rejected"), NewCommandErrorFrame("RATE_LIMITED", id)}
  BY <1>1, <1>2 DEF FirstRefusal
<1>4. id = IdOf(r)
  BY DEF IdOf
<1> HIDE DEF id
<1>5. CASE FirstRefusal(r) = NewErrorFrame("INVALID_MESSAGE")
  BY <1>5 DEF NewErrorFrame, Frame
<1>6. CASE FirstRefusal(r) \in {NewCommandErrorFrame("VEHICLE_NOT_FOUND", id),
         NewCommandErrorFrame("COMMAND_NOT_SUPPORTED", id), NewCommandErrorFrame("RATE_LIMITED", id)}
  BY <1>4, <1>6 DEF NewCommandErrorFrame, NewErrorFrame, Frame
<1>7. CASE FirstRefusal(r) = NewServerCommandAckFrame(id, "rejected")
  BY <1>4, <1>7 DEF NewServerCommandAckFrame, Frame
<1> QED
  BY <1>3, <1>5, <1>6, <1>7

Early == at \in {"connected", "wantWelcome", "toSend"}

(* The first frames are behind it for good.                                *)
LEMMA EarlyStep ==
  ASSUME [Next]_vars, Early'
  PROVE  Early /\ (out' # out => (at = "connected" \/ ~ClientStep))
<1>1. CASE ClientStep \/ Fail
  BY <1>1 DEF ClientStep, Fail, End, SendFirst, ReadError, ReadWelcome, ReadFrame, Listen,
     SendCommand,
     ReadResponse, ReadWaiting, SendBurst, Count, clientVars, Early
<1>2. CASE ~ClientStep /\ ~Fail
  BY <1>2, OthersSteps DEF clientVars, Early
<1> QED
  BY <1>1, <1>2

(* What a frame that is queued does to what was heard.                     *)
LEMMA HeardMore ==
  ASSUME in \in Seq(ToClient), HeardIsTrue, WasSent(OwnId)' = WasSent(OwnId),
         NEW f \in ToClient, in' = in \/ Send(f),
         f.id = OwnId => /\ f.status \in {"accepted", "completed"} => WasSent(OwnId)
                         /\ f.type = "error" => ~WasSent(OwnId)
  PROVE  /\ HeardIsTrue'
         /\ Untouched /\ f.id # OwnId => Untouched'
<1>1. \A i \in DOMAIN in' : (i \in DOMAIN in /\ in'[i] = in[i]) \/ in'[i] = f
  BY Queued
<1> QED
  BY <1>1 DEF HeardIsTrue, Untouched

(* The fate of the client's own command, one step at a time.               *)
LEMMA OwnStep ==
  ASSUME ClientInv, [Next]_vars
  PROVE  OwnInv'
<1>1. OwnInv /\ HeardIsTrue
  BY DEF ClientInv, OwnInv
<1>2. FramesInv /\ StageInv /\ TrackInv /\ FirstInv
  BY DEF ClientInv
<1>3. in \in Seq(ToClient) /\ NoFrame \notin ToClient
  BY <1>2, FramesAreWhole DEF FramesInv
<1> DEFINE Waits == OwnId \in pending =>
                      Mode(flags) = "command" /\ out = <<>> /\ ~Early /\ stage # "route"
           Others == Mode(flags) # "command" => Untouched /\ reply.id # OwnId
           Sending == out \in {<<>>, <<Hello(1)>>, <<CommandFrame(flags)>>}
           Fresh == (out # <<>> \/ stage \in {"route", "send"} \/ Early) => Untouched
           Routing == stage \in {"route", "send", "reply"} => out = <<>> /\ ~Early
           Telling == stage = "reply" =>
             /\ reply.id = OwnId /\ reply.status \in {"accepted", "completed"} => WasSent(OwnId)
             /\ reply.id = OwnId /\ reply.type = "error" => ~WasSent(OwnId)
           Own == Sending /\ Fresh /\ Routing /\ Telling
<1>4. OwnInv <=> HeardIsTrue /\ Waits /\ Others /\ (Mode(flags) = "command" => Own)
  BY DEF OwnInv, Early
<1>5. OwnInv' <=> HeardIsTrue' /\ Waits' /\ Others' /\ (Mode(flags) = "command" => Own)'
  BY DEF OwnInv, Early
<1>6. flags' = flags /\ Mode(flags)' = Mode(flags) /\ CommandFrame(flags)' = CommandFrame(flags)
  BY ClientSteps, OthersSteps DEF clientVars
<1>7. Early' => Early
  BY EarlyStep
<1> HIDE DEF Waits, Others, Sending, Fresh, Routing, Telling
<1>8. Waits /\ Others /\ (Mode(flags) = "command" => Own)
  BY <1>1, <1>4
<1>9. wire' = wire => WasSent(OwnId)' = WasSent(OwnId)
  BY DEF WasSent
<1>10. CASE ClientStep \/ Fail
  <2>1. UNCHANGED <<stage, reply, handshaked, pending, wire>>
    BY <1>10, ClientSteps DEF ServerSide, serverVars, trackerVars
  <2>2. \A i \in DOMAIN in' : \E j \in DOMAIN in : in'[i] = in[j]
    <3>1. in' = in \/ (in # <<>> /\ in' = Tail(in))
      BY <1>10, ClientReads
    <3>2. CASE in' = Tail(in) /\ in # <<>>
      <4>1. \A i \in DOMAIN in' : i + 1 \in DOMAIN in /\ in'[i] = in[i + 1]
        BY <1>3, <3>2
      <4> QED
        BY <4>1
    <3> QED
      BY <3>1, <3>2
  <2>3. HeardIsTrue' /\ (Untouched => Untouched')
    BY <1>1, <1>9, <2>1, <2>2 DEF HeardIsTrue, Untouched
  <2>4. \/ out' = out
        \/ Early /\ ~Early' /\ out = <<>> /\ at = "toSend" /\ out' = Append(out, CommandFrame(flags))
        \/ at = "connected" /\ out = <<>> /\ (Mode(flags) = "command" => out' = Append(out, Hello(1)))
        \/ Mode(flags) # "command"
    <3>1. CASE SendFirst
      BY <1>2, <3>1 DEF SendFirst, FirstInv
    <3>2. CASE SendCommand
      BY <1>2, <3>2 DEF SendCommand, FirstInv, Early, End
    <3>3. CASE SendBurst
      BY <3>3 DEF SendBurst, ClientInv, ModeInv
    <3> QED
      BY <1>10, <3>1, <3>2, <3>3 DEF ClientStep, Fail, ReadError, ReadWelcome, ReadFrame, Listen,
         ReadResponse, ReadWaiting, Count, clientVars
  <2>5. \A f : Append(<<>>, f) = <<f>>
    OBVIOUS
  <2>6. Mode(flags) = "command" => out' = out \/ (Early /\ out' \in {<<Hello(1)>>, <<CommandFrame(flags)>>})
    BY <2>4, <2>5 DEF Early
  <2>7. Waits'
    BY <1>6, <1>7, <1>8, <2>1, <2>6 DEF Waits
  <2>8. Others'
    BY <1>6, <1>8, <2>1, <2>3 DEF Others
  <2>9. Mode(flags) = "command" => Own'
    BY <1>6, <1>7, <1>8, <1>9, <2>1, <2>3, <2>6 DEF Sending, Fresh, Routing, Telling
  <2> QED
    BY <1>5, <1>6, <2>3, <2>7, <2>8, <2>9
<1>11. CASE ~ClientStep /\ ~Fail
  <2>0. UNCHANGED at /\ Early' = Early
    BY <1>11, OthersSteps DEF clientVars, Early
  <2>1. CASE HandleMessage
    <3>1. /\ out # <<>> /\ out' = Tail(out) /\ stage = "idle"
          /\ UNCHANGED <<handshaked, pending, wire, reply>>
          /\ stage' \in {"idle", "welcome", "route"}
          /\ stage' = "route" => Head(out).type # "hello" /\ handshaked
      <4>1. /\ out # <<>> /\ out' = Tail(out) /\ stage = "idle"
            /\ UNCHANGED <<handshaked, pending, wire, reply>>
            /\ \/ stage' = stage
               \/ /\ (Head(out).type = "hello") # handshaked
                  /\ stage' = IF Head(out).type = "hello" THEN "welcome" ELSE "route"
        BY <2>1 DEF HandleMessage, trackerVars
      <4>2. handshaked \in BOOLEAN
        BY <1>2 DEF StageInv
      <4> QED
        BY <4>1, <4>2
    <3>2. in' = in \/ \E c \in Codes \ {""} : Send(NewErrorFrame(c))
      <4>1. "INVALID_MESSAGE" \in Codes \ {""} /\ "PROTOCOL_VERSION_UNSUPPORTED" \in Codes \ {""}
        BY DEF Codes
      <4> QED
        BY <2>1, <4>1 DEF HandleMessage
    <3>3. PICK f \in ToClient : f.id # OwnId /\ (in' = in \/ Send(f))
      <4>1. "INVALID_MESSAGE" \in Codes \ {""} /\ NoId # OwnId
        BY DEF Codes, NoId, OwnId
      <4>2. \A c \in Codes \ {""} : NewErrorFrame(c) \in ToClient /\ NewErrorFrame(c).id # OwnId
        BY <4>1, FramesAreWhole, FrameFields
      <4> QED
        BY <3>2, <4>1, <4>2
    <3>4. HeardIsTrue' /\ (Untouched => Untouched')
      BY <1>1, <1>3, <1>9, <3>1, <3>3, HeardMore
    <3>5. Waits' /\ Others'
      BY <1>6, <1>8, <3>1, <3>4 DEF Waits, Others
    <3>6. ASSUME Mode(flags) = "command"
          PROVE  Own'
      <4>1. out \in {<<Hello(1)>>, <<CommandFrame(flags)>>} /\ Untouched
        BY <1>8, <3>1, <3>6 DEF Sending, Fresh
      <4>2. out' = <<>>
        BY <3>1, <4>1
      <4>3. stage' = "route" => ~Early
        <5>1. SUFFICES ASSUME stage' = "route" PROVE ~Early
          OBVIOUS
        <5>2. Hello(1).type = "hello"
          BY DEF Hello
        <5>3. out # <<Hello(1)>> /\ handshaked
          BY <3>1, <5>1, <5>2
        <5> QED
          BY <1>2, <3>1, <5>3 DEF FirstInv, Early
      <4>4. Untouched'
        BY <3>4, <4>1
      <4> QED
        BY <1>6, <2>0, <3>1, <4>2, <4>3, <4>4 DEF Sending, Fresh, Routing, Telling
    <3> QED
      BY <1>5, <1>6, <3>4, <3>5, <3>6
  <2>2. CASE QueueWelcome
    <3>1. /\ UNCHANGED <<out, reply, pending, wire>>
          /\ stage \in {"welcome", "greeted"} /\ stage' \in {"greeted", "idle"}
          /\ in' = in \/ in' = Append(in, Frame("welcome"))
      BY <2>2 DEF QueueWelcome, trackerVars
    <3>2. Frame("welcome").id # OwnId /\ Frame("welcome") \in ToClient
      <4>1. Frame("welcome").id = NoId /\ NoId # OwnId
        BY DEF Frame, NoId, OwnId
      <4> QED
        BY <4>1, FramesAreWhole
    <3>3. \A i \in DOMAIN in' : (i \in DOMAIN in /\ in'[i] = in[i]) \/ in'[i] = Frame("welcome")
      BY <1>3, <3>1, <3>2
    <3>4. HeardIsTrue' /\ (Untouched => Untouched')
      BY <1>1, <1>9, <3>1, <3>2, <3>3 DEF HeardIsTrue, Untouched
    <3>5. Waits' /\ Others'
      BY <1>6, <1>8, <2>0, <3>1, <3>4 DEF Waits, Others
    <3>6. Mode(flags) = "command" => Own'
      BY <1>6, <1>8, <2>0, <3>1, <3>4 DEF Sending, Fresh, Routing, Telling
    <3> QED
      BY <1>5, <1>6, <3>4, <3>5, <3>6
  <2>3. CASE RouteChecks
    <3>1. /\ UNCHANGED <<in, out, wire>> /\ stage = "route" /\ stage' \in {"send", "reply"}
          /\ \/ /\ FirstRefusal(request) # NoFrame /\ stage' = "reply" /\ pending' = pending
                /\ reply' = FirstRefusal(request)
             \/ stage' = "send" /\ reply' = reply /\ pending' = pending \cup {request.data.commandId}
      BY <2>3 DEF RouteChecks, trackerVars
    <3>2. /\ request.data.commandId = IdOf(request) /\ IdOf(request) # NoId
          /\ IdOf(request) = OwnId <=> Mode(flags) = "command"
      BY <3>1, RequestIds
    <3>3. HeardIsTrue' /\ Untouched' = Untouched
      BY <1>1, <1>9, <3>1 DEF HeardIsTrue, Untouched
    <3>4. stage' = "reply" => /\ reply'.status \notin {"accepted", "completed"}
                              /\ reply'.id \in {NoId, IdOf(request)}
      BY <3>1, RefusalSays
    <3>5. NoId # OwnId
      BY DEF NoId, OwnId
    <3>6. Waits'
      BY <1>6, <1>8, <2>0, <3>1, <3>2 DEF Waits, Routing
    <3>7. Others'
      BY <1>6, <1>8, <3>1, <3>2, <3>3, <3>4, <3>5 DEF Others
    <3>8. Mode(flags) = "command" => Own'
      <4>1. Mode(flags) = "command" => Untouched /\ ~WasSent(OwnId)
        BY <1>8, <3>1 DEF Fresh, Untouched
      <4> QED
        BY <1>6, <1>8, <1>9, <2>0, <3>1, <3>3, <3>4, <4>1 DEF Sending, Fresh, Routing, Telling
    <3> QED
      BY <1>5, <1>6, <3>3, <3>6, <3>7, <3>8
  <2>4. CASE RouteFails
    <3>1. /\ UNCHANGED <<in, out, wire>> /\ stage = "send" /\ stage' = "reply"
          /\ pending' \subseteq pending /\ \E c : reply' = NewErrorFrame(c)
      BY <2>4 DEF RouteFails
    <3>2. reply'.id # OwnId
      <4>1. PICK c : reply' = NewErrorFrame(c)
        BY <3>1
      <4>2. reply'.id = NoId
        BY <4>1 DEF NewErrorFrame, Frame
      <4> QED
        BY <4>2 DEF NoId, OwnId
    <3>3. HeardIsTrue' /\ Untouched' = Untouched
      BY <1>1, <1>9, <3>1 DEF HeardIsTrue, Untouched
    <3>4. Waits' /\ Others'
      BY <1>6, <1>8, <2>0, <3>1, <3>2, <3>3 DEF Waits, Others
    <3>5. Mode(flags) = "command" => Own'
      BY <1>6, <1>8, <2>0, <3>1, <3>2, <3>3 DEF Sending, Fresh, Routing, Telling
    <3> QED
      BY <1>5, <1>6, <3>3, <3>4, <3>5
  <2>5. CASE RouteSends
    <3>0. PICK c \in Builds(request) :
            wire' = wire \cup {[own |-> TRUE, request |-> request, command |-> c]}
      BY <2>5 DEF RouteSends, Builds
    <3>1. /\ UNCHANGED <<in, out, pending>> /\ stage = "send" /\ stage' = "reply"
          /\ reply' = NewServerCommandAckFrame(request.data.commandId, "accepted")
      BY <2>5 DEF RouteSends
    <3>2. /\ request.data.commandId = IdOf(request)
          /\ IdOf(request) = OwnId <=> Mode(flags) = "command"
      BY <3>1, RequestIds
    <3>3. reply'.id = IdOf(request) /\ reply'.type = "command_ack"
      BY <3>1, <3>2 DEF NewServerCommandAckFrame, Frame
    <3>4. c.command_id = IdOf(request)
      BY BuildsKeepId
    <3>5. WasSent(OwnId)' <=> WasSent(OwnId) \/ Mode(flags) = "command"
      <4> DEFINE new == [own |-> TRUE, request |-> request, command |-> c]
      <4>1. new.command.command_id = OwnId <=> Mode(flags) = "command"
        BY <3>2, <3>4
      <4>2. wire' = wire \cup {new}
        BY <3>0
      <4> HIDE DEF new
      <4>3. WasSent(OwnId)' <=> \E w \in wire' : w.command.command_id = OwnId
        BY DEF WasSent
      <4>4. WasSent(OwnId) <=> \E w \in wire : w.command.command_id = OwnId
        BY DEF WasSent
      <4> QED
        BY <4>1, <4>2, <4>3, <4>4
    <3>6. Untouched
      BY <1>8, <3>1 DEF Others, Fresh
    <3>7. HeardIsTrue'
      BY <3>1, <3>6 DEF HeardIsTrue, Untouched
    <3>8. Waits' /\ Others'
      BY <1>6, <1>8, <2>0, <3>1, <3>2, <3>3, <3>5, <3>6 DEF Waits, Others, Untouched
    <3>9. Mode(flags) = "command" => Own'
      BY <1>6, <1>8, <2>0, <3>1, <3>3, <3>5 DEF Sending, Fresh, Routing, Telling
    <3> QED
      BY <1>5, <1>6, <3>7, <3>8, <3>9
  <2>6. CASE QueueReply
    <3>1. /\ UNCHANGED <<out, pending, wire>> /\ stage = "reply" /\ stage' = "idle"
          /\ reply' = NoFrame /\ Send(reply)
      BY <2>6 DEF QueueReply, trackerVars
    <3>2. reply \in ToClient
      BY <1>2, <3>1 DEF FramesInv
    <3>3. NoFrame.id # OwnId
      BY DEF NoFrame, Frame, NoId, OwnId
    <3>4. reply.id = OwnId => /\ reply.status \in {"accepted", "completed"} => WasSent(OwnId)
                              /\ reply.type = "error" => ~WasSent(OwnId)
      BY <1>8, <3>1 DEF Others, Telling
    <3>5. HeardIsTrue' /\ (Untouched /\ reply.id # OwnId => Untouched')
      BY <1>1, <1>3, <1>9, <3>1, <3>2, <3>4, HeardMore
    <3>6. Waits' /\ Others'
      BY <1>6, <1>8, <2>0, <3>1, <3>3, <3>5 DEF Waits, Others
    <3>7. Mode(flags) = "command" => Own'
      BY <1>6, <1>8, <2>0, <3>1 DEF Sending, Fresh, Routing, Telling
    <3> QED
      BY <1>5, <1>6, <3>5, <3>6, <3>7
  <2>7. CASE Telemetry \/ VehicleAnswers \/ TimesOut
    <3>1. UNCHANGED <<out, stage, reply, wire>> /\ pending' \subseteq pending
      BY <2>7 DEF Telemetry, VehicleAnswers, TimesOut, serverVars, trackerVars
    <3>2. PICK f \in ToClient :
            /\ in' = in \/ Send(f)
            /\ f.id = OwnId => /\ f.status \in {"accepted", "completed"} => WasSent(OwnId)
                               /\ f.type = "error" => ~WasSent(OwnId)
                               /\ ~Untouched \/ (Mode(flags) = "command" /\ out = <<>> /\ ~Early
                                                 /\ stage \notin {"route", "send"})
      <4>1. CASE Telemetry
        <5>1. \E f \in {Frame("telemetry"), NewStatusFrame} : in' = in \/ Send(f)
          BY <4>1 DEF Telemetry, Broadcast
        <5>2. NewStatusFrame.id # OwnId /\ Frame("telemetry").id # OwnId
          BY DEF NewStatusFrame, Frame, NoId, OwnId
        <5> QED
          BY <5>1, <5>2, FramesAreWhole
      <4>2. CASE VehicleAnswers
        <5>1. PICK w \in wire : Broadcast(NewServerCommandAckFrame(w.command.command_id, "completed"))
          BY <4>2 DEF VehicleAnswers
        <5> DEFINE f == NewServerCommandAckFrame(w.command.command_id, "completed")
        <5>2. w.command.command_id \in Ids \ {NoId} /\ "completed" \in Statuses \ {""}
          BY <1>2, <5>1, WireIds DEF Statuses
        <5>3. f \in ToClient
          BY <5>2, FramesAreWhole
        <5>4. f.id = w.command.command_id /\ f.type = "command_ack"
          BY DEF NewServerCommandAckFrame, Frame
        <5>5. f.id = OwnId => WasSent(OwnId) /\ ~Untouched
          BY <5>1, <5>4 DEF WasSent, Untouched
        <5>6. in' = in \/ Send(f)
          BY <5>1 DEF Broadcast
        <5> HIDE DEF f
        <5> QED
          BY <5>3, <5>4, <5>5, <5>6
      <4>3. CASE TimesOut
        <5>1. PICK id \in pending : /\ ~(stage \in {"send", "reply"} /\ request.data.commandId = id)
                                    /\ Broadcast(NewTimeoutAckFrame(id))
          BY <4>3 DEF TimesOut
        <5> DEFINE f == NewTimeoutAckFrame(id)
        <5>2. id \in Ids \ {NoId}
          BY <1>2, <5>1 DEF TrackInv
        <5>3. f \in ToClient
          BY <5>2, FramesAreWhole
        <5>4. f.id = id /\ f.type = "command_ack" /\ f.status = "timeout"
          BY DEF NewTimeoutAckFrame, NewServerCommandAckFrame, Frame
        <5>5. f.id = OwnId => Mode(flags) = "command" /\ out = <<>> /\ ~Early /\ stage # "route"
          BY <1>8, <5>1, <5>4 DEF Waits
        <5>6. Mode(flags) = "command" /\ stage = "send" => request.data.commandId = OwnId
          BY RequestIds
        <5>7. in' = in \/ Send(f)
          BY <5>1 DEF Broadcast
        <5> HIDE DEF f
        <5> QED
          BY <5>1, <5>3, <5>4, <5>5, <5>6, <5>7
      <4> QED
        BY <2>7, <4>1, <4>2, <4>3
    <3>3. HeardIsTrue' /\ (Untouched /\ f.id # OwnId => Untouched')
      BY <1>1, <1>3, <1>9, <3>1, <3>2, HeardMore
    <3>4. Waits'
      BY <1>6, <1>8, <2>0, <3>1 DEF Waits
    <3>5. Others'
      BY <1>6, <1>8, <3>1, <3>2, <3>3 DEF Others
    <3>6. Mode(flags) = "command" => Own'
      BY <1>6, <1>8, <1>9, <2>0, <3>1, <3>2, <3>3 DEF Sending, Fresh, Routing, Telling
    <3> QED
      BY <1>5, <1>6, <3>3, <3>4, <3>5, <3>6
  <2>8. CASE OtherRoutes
    <3>1. UNCHANGED <<in, out, stage, reply>>
      BY <2>8 DEF OtherRoutes, serverVars
    <3>2. PICK r \in OtherCommands :
            /\ FirstRefusal(r) = NoFrame
            /\ pending' = pending \cup {r.data.commandId}
            /\ \E c \in Builds(r) :
                 wire' = wire \cup {[own |-> FALSE, request |-> r, command |-> c]}
      BY <2>8 DEF OtherRoutes, Builds
    <3>0. PICK c \in Builds(r) :
            wire' = wire \cup {[own |-> FALSE, request |-> r, command |-> c]}
      BY <3>2
    <3>3. r.data.commandId # OwnId /\ c.command_id # OwnId
      BY <3>2, OtherIds, BuildsKeepId
    <3>4. WasSent(OwnId)' = WasSent(OwnId)
      BY <3>0, <3>3 DEF WasSent
    <3>5. HeardIsTrue' /\ Untouched' = Untouched
      BY <1>1, <3>1, <3>4 DEF HeardIsTrue, Untouched
    <3>6. Waits' /\ Others'
      BY <1>6, <1>8, <2>0, <3>1, <3>2, <3>3, <3>5 DEF Waits, Others
    <3>7. Mode(flags) = "command" => Own'
      BY <1>6, <1>8, <2>0, <3>1, <3>4, <3>5 DEF Sending, Fresh, Routing, Telling
    <3> QED
      BY <1>5, <1>6, <3>5, <3>6, <3>7
  <2>9. CASE WindowMoves \/ UNCHANGED vars
    <3>1. UNCHANGED <<in, out, stage, reply, pending, wire>>
      BY <2>9 DEF WindowMoves, serverVars, vars, trackerVars
    <3>2. HeardIsTrue' /\ Untouched' = Untouched
      BY <1>1, <1>9, <3>1 DEF HeardIsTrue, Untouched
    <3> QED
      BY <1>5, <1>6, <1>8, <1>9, <2>0, <3>1, <3>2 DEF Waits, Others, Sending, Fresh, Routing,
         Telling
  <2> QED
    BY <1>11, <2>1, <2>2, <2>3, <2>4, <2>5, <2>6, <2>7, <2>8, <2>9 DEF Next, ServerStep
<1> QED
  BY <1>10, <1>11

----------------------------------------------------------------------------
(* The theorems *)

(* The first states.                                                       *)
LEMMA ClientInitially ==
  ASSUME Init
  PROVE  ClientInv
<1>1. /\ flags \in CommandLine /\ flags.burst \in Nat /\ FramesToRead \in Nat \ {0}
      /\ RateLimit \in Nat /\ SendBuffer \in Nat
  BY ClientAssumption DEF Init, ClientInit, CommandLine
<1>2. ModeInv
  BY <1>1 DEF Init, ClientInit, ModeInv
<1>3. CountInv
  <2>1. 0 \in 0 .. (FramesToRead + flags.burst) /\ 0 + 0 <= flags.burst
    BY <1>1
  <2>2. at = "connected" /\ left = 0 /\ accepted = 0 /\ rateLimited = 0
    BY DEF Init, ClientInit
  <2> QED
    BY <2>1, <2>2 DEF CountInv
<1>4. FramesInv
  <2>1. "" \in Statuses /\ <<>> \in Seq(ToClient) /\ Len(<<>>) = 0
    BY DEF Statuses
  <2>2. in = <<>> /\ reply = NoFrame /\ stage = "idle" /\ status = ""
    BY DEF Init, ClientInit
  <2>3. 0 <= SendBuffer + 1 /\ 0 <= SendBuffer
    BY <1>1
  <2> QED
    BY <2>1, <2>2, <2>3 DEF FramesInv
<1>5. StageInv
  <2>1. out = <<>> /\ handshaked = FALSE /\ stage = "idle"
    BY DEF Init
  <2>2. <<>> \in Seq(Sendable(flags))
    OBVIOUS
  <2> QED
    BY <2>1, <2>2 DEF StageInv
<1>6. TrackInv
  BY <1>1 DEF Init, TrackInv
<1>7. FirstInv
  BY DEF Init, ClientInit, FirstInv
<1>8. OwnInv
  <2>1. NoFrame.id # OwnId
    BY DEF NoFrame, Frame, NoId, OwnId
  <2>2. HeardIsTrue /\ Untouched
    BY DEF Init, HeardIsTrue, Untouched, WasSent
  <2> QED
    BY <2>1, <2>2 DEF Init, OwnInv
<1> QED
  BY <1>2, <1>3, <1>4, <1>5, <1>6, <1>7, <1>8 DEF ClientInv

(* The invariant is inductive.                                             *)
LEMMA ClientInductive ==
  ASSUME ClientInv, [Next]_vars
  PROVE  ClientInv'
  BY ModeStep, CountStep, FramesStep, StageStep, TrackStep, FirstStep, OwnStep DEF ClientInv

(* ClientInv holds of every behaviour, fair or not: it is what the three   *)
(* theorems below rest on.                                                 *)
THEOREM ClientInvHolds == SafetySpec => []ClientInv
<1>1. Init => ClientInv
  BY ClientInitially
<1>2. ClientInv /\ [Next]_vars => ClientInv'
  BY ClientInductive
<1> QED
  BY <1>1, <1>2, PTL DEF SafetySpec

(* The type invariant is a part of it.                                     *)
LEMMA TypesFollow ==
  ASSUME ClientInv
  PROVE  ClientTypeOK
<1>1. FramesInv /\ CountInv /\ TrackInv
  BY DEF ClientInv
<1>2. \A f \in ToClient : FrameOK(f) /\ f # NoFrame
  BY FramesAreWhole DEF ToClient
<1>3. FrameOK(NoFrame)
  BY DEF NoFrame, Frame, FrameOK, Codes, Statuses
<1>4. \A i \in DOMAIN in : in[i] \in ToClient
  BY <1>1 DEF FramesInv
<1>5. FrameOK(reply) /\ (reply # NoFrame) = (stage = "reply")
  BY <1>1, <1>2, <1>3 DEF FramesInv
<1>6. \A v \in DOMAIN Fleet : recent[v] \in 0 .. RateLimit /\ recent[v] <= taken[v]
  BY <1>1 DEF TrackInv
<1>7. /\ status \in Codes \cup Statuses /\ left \in 0 .. (FramesToRead + flags.burst)
      /\ accepted + rateLimited <= flags.burst /\ Len(in) <= SendBuffer + 1
  BY <1>1 DEF FramesInv, CountInv
<1> QED
  BY <1>2, <1>4, <1>5, <1>6, <1>7 DEF ClientTypeOK

(* testBadVersion and testSkipHello (main.go:104-166) never see their check *)
(* fail, and whoever waits for the welcome (main.go:190) finds it first,   *)
(* for every command line, fleet, buffer size and other traffic.           *)
THEOREM ChecksAlwaysPass == Spec => []ErrorChecksPass
<1>1. ClientInv => ErrorChecksPass
  <2>1. ClientInv => (at = "wantWelcome" /\ in # <<>> => Head(in).type = "welcome")
    BY DEF ClientInv, FirstInv
  <2>2. ClientInv => outcome # "failed"
    BY DEF ClientInv, FirstInv
  <2> QED
    BY <2>1, <2>2, TypesFollow DEF ErrorChecksPass
<1> QED
  BY <1>1, ClientInvHolds, PTL DEF Spec

(* handleCommand's replies, the timeouts and the acks of vehicles tell this *)
(* client the truth about its command: an "accepted" or "completed" is of a *)
(* command that was written to the network, and an error that names it is of *)
(* one that was not and is not later (router.go:140-245).                  *)
THEOREM AnswersAreTrue == Spec => []HeardIsTrue
<1>1. ClientInv => HeardIsTrue
  BY DEF ClientInv, OwnInv
<1> QED
  BY <1>1, ClientInvHolds, PTL DEF Spec

(* A sensitivity is converted to one that a uint32 holds, and to itself if *)
(* it is one.                                                              *)
LEMMA SensitivityConverted ==
  ASSUME NEW data, "sensitivity" \in DOMAIN ExtensionCommandInput(data).payload,
         NEW n \in Sensitivities("extension", data)
  PROVE  LET x == ExtensionCommandInput(data).payload.sensitivity IN
         n \in Uint32 /\ (x \in Uint32 => n = x)
BY DEF Sensitivities

(* The values of the flags reach an extension command.                     *)
LEMMA FlagsReachExtension ==
  ASSUME Usable(flags), flags.cmd = "ext",
         NEW data, data = [commandId |-> OwnId, namespace |-> flags.ext,
                           payload |-> ExtPayload(flags)],
         NEW n \in Sensitivities("extension", data)
  PROVE  LET x == ExtensionCommand(ExtensionCommandInput(data), n) IN
         /\ x.namespace = flags.ext /\ x.action = flags.action
         /\ flags.action = "setDriveMode" => x.payload = [mode |-> flags.mode]
         /\ flags.action = "setBumperSensitivity" =>
              /\ x.payload.sensitivity \in Uint32
              /\ flags.sensitivity \in Uint32 => x.payload.sensitivity = flags.sensitivity
<1> DEFINE e == ExtensionCommandInput(data)
           x == ExtensionCommand(e, n)
<1>1. Field(data, "namespace", "") = flags.ext /\ Field(data, "payload", NoFields) = ExtPayload(flags)
  BY DEF Field
<1>2. /\ "type" \in DOMAIN ExtPayload(flags) /\ ExtPayload(flags).type = flags.action
  BY DEF ExtPayload
<1>3. Field(ExtPayload(flags), "type", "") = flags.action
  BY <1>2 DEF Field
<1>4. e.namespace = flags.ext /\ e.payload = ExtPayload(flags) /\ e.type = flags.action
  BY <1>1, <1>3 DEF ExtensionCommandInput
<1> HIDE DEF e
<1>5. /\ x.namespace = flags.ext /\ x.action = flags.action
      /\ x.payload = Encoded(flags.action, ExtPayload(flags), n)
  BY <1>4 DEF ExtensionCommand
<1> HIDE DEF x
<1>6. CASE flags.action = "setDriveMode"
  <2>1. ExtPayload(flags).mode = flags.mode
    BY <1>6 DEF ExtPayload
  <2>2. x.payload = [mode |-> flags.mode]
    BY <1>5, <1>6, <2>1 DEF Encoded
  <2> QED
    BY <1>5, <1>6, <2>2 DEF x, e
<1>7. CASE flags.action = "setBumperSensitivity"
  <2>1. /\ "sensitivity" \in DOMAIN e.payload /\ e.payload.sensitivity = flags.sensitivity
    BY <1>4, <1>7 DEF ExtPayload
  <2>2. n \in Uint32 /\ (flags.sensitivity \in Uint32 => n = flags.sensitivity)
    BY <2>1, SensitivityConverted DEF e
  <2>3. x.payload = [sensitivity |-> n]
    BY <1>5, <1>7 DEF Encoded
  <2> QED
    BY <1>5, <1>7, <2>2, <2>3 DEF x, e
<1>8. CASE flags.action \notin {"setDriveMode", "setBumperSensitivity"}
  BY <1>5, <1>8 DEF x, e
<1> QED
  BY <1>6, <1>7, <1>8

(* The values of the flags reach the command.                              *)
LEMMA FlagsReachCommand ==
  ASSUME NEW w, Usable(flags), w.request = CommandFrame(flags), w.command \in Builds(w.request)
  PROVE  AsTheFlagsSay(w)
<1> DEFINE r == CommandFrame(flags)
<1> PICK n \in Sensitivities(r.command, r.data) : w.command = Built(r, n)
  BY DEF Builds
<1> DEFINE p == BuildPayload(r.command, r.data, n)
<1>1. w.command = Built(r, n) /\ w.command.vehicle_id = r.vid /\ w.command.payload = p
  BY DEF Built, PBCommand
<1>2. r.vid = flags.vid /\ r.command = (IF flags.cmd = "ext" THEN "extension" ELSE flags.cmd)
  BY DEF CommandFrame, Command
<1>3. p.kind = r.command
  BY DEF BuildPayload
<1>4. flags.cmd = "goto" => p.lat = flags.lat /\ p.lng = flags.lng /\ p.speed = flags.speed
  <2> SUFFICES ASSUME flags.cmd = "goto"
               PROVE  p.lat = flags.lat /\ p.lng = flags.lng /\ p.speed = flags.speed
    OBVIOUS
  <2>1. r.data = [commandId |-> OwnId, speed |-> flags.speed,
                  destination |-> [lat |-> flags.lat, lng |-> flags.lng]]
    BY DEF CommandFrame, Command
  <2>2. r.command = "goto"
    BY <1>2
  <2> HIDE DEF r
  <2>3. OptionalField(r.data, "speed") = <<flags.speed>>
    BY <2>1 DEF OptionalField
  <2>4. Field(r.data, "destination", NoFields) = [lat |-> flags.lat, lng |-> flags.lng]
    BY <2>1 DEF Field
  <2>5. Field([lat |-> flags.lat, lng |-> flags.lng], "lat", 0) = flags.lat
        /\ Field([lat |-> flags.lat, lng |-> flags.lng], "lng", 0) = flags.lng
    BY DEF Field
  <2>6. ValueOrDefault(<<flags.speed>>, DefaultSpeed) = flags.speed
    BY DEF ValueOrDefault, Nil
  <2> QED
    BY <2>2, <2>3, <2>4, <2>5, <2>6 DEF BuildPayload, GotoCommand, Location
<1>5. flags.cmd = "set_speed" => p.speed = flags.speed
  <2> SUFFICES ASSUME flags.cmd = "set_speed" PROVE p.speed = flags.speed
    OBVIOUS
  <2>1. r.data = [commandId |-> OwnId, speed |-> flags.speed]
    BY DEF CommandFrame, Command
  <2>2. Field(r.data, "speed", 0) = flags.speed
    BY <2>1 DEF Field
  <2> QED
    BY <1>2, <2>2 DEF BuildPayload, SetSpeedCommand
<1>6. flags.cmd = "set_mode" => p.mode = flags.mode
  <2> SUFFICES ASSUME flags.cmd = "set_mode" PROVE p.mode = flags.mode
    OBVIOUS
  <2>1. r.data = [commandId |-> OwnId, mode |-> flags.mode]
    BY DEF CommandFrame, Command
  <2>2. Field(r.data, "mode", "") = flags.mode
    BY <2>1 DEF Field
  <2> QED
    BY <1>2, <2>2 DEF BuildPayload, SetModeCommand
<1>7. ASSUME flags.cmd = "ext"
      PROVE  LET x == p.extension[1] IN
             /\ x.namespace = flags.ext /\ x.action = flags.action
             /\ flags.action = "setDriveMode" => x.payload = [mode |-> flags.mode]
             /\ flags.action = "setBumperSensitivity" =>
                  /\ x.payload.sensitivity \in Uint32
                  /\ flags.sensitivity \in Uint32 => x.payload.sensitivity = flags.sensitivity
  <2>1. r.data = [commandId |-> OwnId, namespace |-> flags.ext, payload |-> ExtPayload(flags)]
    BY <1>7 DEF CommandFrame, Command
  <2>2. r.command = "extension"
    BY <1>2, <1>7
  <2> HIDE DEF r
  <2>3. p.extension = <<ExtensionCommand(ExtensionCommandInput(r.data), n)>>
    BY <2>2 DEF BuildPayload
  <2>4. p.extension[1] = ExtensionCommand(ExtensionCommandInput(r.data), n)
    BY <2>3
  <2> HIDE DEF p
  <2> QED
    BY <1>7, <2>1, <2>2, <2>4, FlagsReachExtension
<1> HIDE DEF r, p
<1> QED
  BY <1>1, <1>2, <1>3, <1>4, <1>5, <1>6, <1>7 DEF AsTheFlagsSay

(* A core command's payload, by its fields.                                *)
CoreFields(kind, lat, lng, alt, speed, mode) ==
  [kind |-> kind, lat |-> lat, lng |-> lng, alt |-> alt, speed |-> speed, mode |-> mode,
   extension |-> Nil]

(* The two translations of a core command, router.go:219-345 and           *)
(* translate.go:236-345, differ in the altitude and the default speed.     *)
LEMMA TranslationsDiffer ==
  ASSUME NEW action \in CoreCommands, NEW data, NEW n
  PROVE  BuildPayload(action, data, n) =
           [CommandToProto(action, data) EXCEPT
              !.alt = 0,
              !.speed = IF action = "goto" /\ GotoCommand(data).speed = Nil THEN DefaultSpeed ELSE @]
<1> DEFINE goto == GotoCommand(data)
           noSpeed == action = "goto" /\ goto.speed = Nil
           asTested == CommandToProto(action, data)
<1> HIDE DEF noSpeed, asTested
<1>0. \A lat, lng, alt, speed, mode :
        asTested = CoreFields(action, lat, lng, alt, speed, mode) =>
          [asTested EXCEPT !.alt = 0, !.speed = IF noSpeed THEN DefaultSpeed ELSE @] =
          CoreFields(action, lat, lng, 0, IF noSpeed THEN DefaultSpeed ELSE speed, mode)
  <2> TAKE lat, lng, alt, speed, mode
  <2> HAVE asTested = CoreFields(action, lat, lng, alt, speed, mode)
  <2>1. [asTested EXCEPT !.alt = 0, !.speed = IF noSpeed THEN DefaultSpeed ELSE @] =
          [[asTested EXCEPT !.alt = 0] EXCEPT !.speed = IF noSpeed THEN DefaultSpeed ELSE @]
    OBVIOUS
  <2>2. [asTested EXCEPT !.alt = 0] = CoreFields(action, lat, lng, 0, speed, mode)
    BY DEF CoreFields
  <2>3. [CoreFields(action, lat, lng, 0, speed, mode) EXCEPT
           !.speed = IF noSpeed THEN DefaultSpeed ELSE @] =
        [CoreFields(action, lat, lng, 0, speed, mode) EXCEPT
           !.speed = IF noSpeed THEN DefaultSpeed ELSE speed]
    BY DEF CoreFields
  <2>4. \A new : [CoreFields(action, lat, lng, 0, speed, mode) EXCEPT !.speed = new] =
                  CoreFields(action, lat, lng, 0, new, mode)
    BY DEF CoreFields
  <2> QED
    BY <2>1, <2>2, <2>3, <2>4
<1>1. CASE action = "goto"
  <2>1. asTested =
          CoreFields(action, goto.destination.lat, goto.destination.lng,
                     ZeroIfNil(goto.destination.altMsl), ZeroIfNil(goto.speed), "")
    BY <1>1 DEF asTested, CommandToProto, GotoCommandToProto, Plain, CoreFields
  <2>2. BuildPayload(action, data, n) =
          CoreFields(action, goto.destination.lat, goto.destination.lng, 0,
                     ValueOrDefault(goto.speed, DefaultSpeed), "")
    BY <1>1 DEF BuildPayload, CoreFields
  <2>3. ValueOrDefault(goto.speed, DefaultSpeed) =
          IF noSpeed THEN DefaultSpeed ELSE ZeroIfNil(goto.speed)
    BY <1>1 DEF ZeroIfNil, ValueOrDefault, noSpeed
  <2> HIDE DEF goto
  <2>4. BuildPayload(action, data, n) =
          [asTested EXCEPT
             !.alt = 0, !.speed = IF noSpeed THEN DefaultSpeed ELSE @]
    <3> DEFINE lat == goto.destination.lat
               lng == goto.destination.lng
               alt == ZeroIfNil(goto.destination.altMsl)
               speed == ZeroIfNil(goto.speed)
               mode == ""
               new == IF noSpeed THEN DefaultSpeed ELSE speed
    <3>1. asTested = CoreFields(action, lat, lng, alt, speed, mode)
      BY <2>1
    <3>2. BuildPayload(action, data, n) = CoreFields(action, lat, lng, 0, new, mode)
      BY <2>2, <2>3
    <3> HIDE DEF lat, lng, alt, speed, mode
    <3>3. [asTested EXCEPT !.alt = 0, !.speed = IF noSpeed THEN DefaultSpeed ELSE @] =
          CoreFields(action, lat, lng, 0, new, mode)
      BY <1>0, <3>1
    <3> QED
      BY <3>2, <3>3
  <2> QED
    BY <2>4 DEF goto, noSpeed, asTested
<1>2. CASE action # "goto"
  <2> DEFINE speed == IF action = "set_speed" THEN SetSpeedCommand(data).speed ELSE 0
             mode == IF action = "set_mode" THEN SetModeCommand(data).mode ELSE ""
  <2>1. asTested = CoreFields(action, 0, 0, 0, speed, mode)
    <3>1. CASE action \in {"stop", "return_home"}
      BY <3>1 DEF asTested, CommandToProto, StopCommandToProto, ReturnHomeCommandToProto, Plain,
         CoreFields
    <3>2. CASE action = "set_mode"
      BY <3>2 DEF asTested, CommandToProto, SetModeCommandToProto, Plain, CoreFields
    <3>3. CASE action = "set_speed"
      BY <3>3 DEF asTested, CommandToProto, SetSpeedCommandToProto, Plain, CoreFields
    <3> QED
      BY <1>2, <3>1, <3>2, <3>3 DEF CoreCommands
  <2>2. BuildPayload(action, data, n) = CoreFields(action, 0, 0, 0, speed, mode)
    BY <1>2 DEF BuildPayload, CoreFields, CoreCommands
  <2>3. speed = IF noSpeed THEN DefaultSpeed ELSE speed
    BY <1>2 DEF noSpeed
  <2> HIDE DEF goto, speed, mode
  <2>4. BuildPayload(action, data, n) =
          [asTested EXCEPT
             !.alt = 0, !.speed = IF noSpeed THEN DefaultSpeed ELSE @]
    BY <1>0, <2>1, <2>2, <2>3
  <2> QED
    BY <2>4 DEF goto, noSpeed, asTested
<1> QED
  BY <1>1, <1>2

(* What can be built validates but for its numbers.                        *)
LEMMA BuiltIsValid ==
  ASSUME NEW action, NEW data, Field(data, "commandId", NoId) # NoId,
         BuildProtoCommand(Checked(action, data))
  PROVE  ValidateCommand(action, data) \/ action \in {"goto", "set_speed"}
<1>1. CASE action = "set_mode"
  <2>1. "mode" \in DOMAIN data /\ data.mode \in {"manual", "autonomous", "guided"}
    BY <1>1 DEF BuildProtoCommand, Checked
  <2> QED
    BY <1>1, <2>1 DEF ValidateCommand, ValidateSetModeCommand, SetModeCommand, Field
<1>2. CASE action \in {"stop", "return_home"}
  BY <1>2 DEF ValidateCommand, ValidateStopCommand, ValidateReturnHomeCommand
<1>3. CASE action = "extension"
  BY <1>3 DEF ValidateCommand
<1>4. action \in {"stop", "return_home", "goto", "set_speed", "set_mode", "extension"}
  BY DEF BuildProtoCommand, Checked
<1> QED
  BY <1>1, <1>2, <1>3, <1>4

(* What is written for this client's command has the values of its flags,  *)
(* and for a sensitivity that no uint32 holds some value of that type      *)
(* (husky/codec.go:129); and every command written is what translate.go    *)
(* would have made of it but for altitude and default speed, and passes    *)
(* validate.go but for its numbers.                                        *)
THEOREM CommandsAreAsAsked == Spec => []SentAsAsked
<1>1. ASSUME ClientInv
      PROVE  SentAsAsked
  <2> SUFFICES ASSUME NEW w \in wire
               PROVE  /\ w.own /\ Mode(flags) = "command" => AsTheFlagsSay(w)
                      /\ AsTranslated(w) /\ AsValidated(w)
    BY DEF SentAsAsked
  <2>1. TrackInv
    BY <1>1 DEF ClientInv
  <2>2. /\ w.command \in Builds(w.request) /\ IdOf(w.request) # NoId
        /\ BuildProtoCommand(Checked(w.request.command, w.request.data))
        /\ w.own => w.request \in Sendable(flags) /\ w.request.type = "command"
    BY <2>1, Zenon DEF TrackInv
  <2>3. w.own /\ Mode(flags) = "command" => AsTheFlagsSay(w)
    <3> SUFFICES ASSUME w.own, Mode(flags) = "command" PROVE AsTheFlagsSay(w)
      OBVIOUS
    <3>1. Usable(flags) /\ w.request = CommandFrame(flags)
      BY <2>2, OwnIds
    <3> QED
      BY <2>2, <3>1, FlagsReachCommand
  <2>4. AsTranslated(w)
    <3> SUFFICES ASSUME w.request.command \in CoreCommands
                 PROVE  AsTranslated(w)
      BY DEF AsTranslated
    <3>1. PICK n : w.command.payload = BuildPayload(w.request.command, w.request.data, n)
      BY <2>2 DEF Builds, Built, PBCommand
    <3> QED
      BY <3>1, TranslationsDiffer DEF AsTranslated
  <2>5. AsValidated(w)
    BY <2>2, BuiltIsValid DEF AsValidated, IdOf
  <2> QED
    BY <2>3, <2>4, <2>5
<1> QED
  BY <1>1, ClientInvHolds, PTL DEF Spec

=============================================================================
