---------------------------- MODULE CommandPath ----------------------------
(***************************************************************************)
(* Router.Route (internal/command/router.go) as the goroutines that call   *)
(* it interleave: each connected client's ReadPump runs one Route at a     *)
(* time (internal/websocket/server.go, handleCommand), all of them share   *)
(* the Tracker, the registry and the router's UDP connection, and the      *)
(* timeout goroutines, the pipeline (cmd/tower-server/main.go) and the     *)
(* vehicles run beside them.                                               *)
(*                                                                         *)
(* A Route is a sequence of steps; between two of them it holds no lock.   *)
(* The Tracker's actions are taken from module Tracker unchanged.  What    *)
(* the pipeline does with a vehicle's command_ack is to broadcast it: it   *)
(* never calls Tracker.Acknowledge, whose only callers are Route's error   *)
(* paths.                                                                  *)
(***************************************************************************)
EXTENDS Tracker, CommandChecks

CONSTANTS
  Clients,      \* WebSocket clients, one ReadPump goroutine each
  Commands,     \* what the clients send: action, namespace, type, payload, parses
  CapabilitySets  \* the capabilities that heartbeats advertise

(* There is something to ask for: a text, a vehicle's name and a command.  *)
ASSUME RouteAssumption == CommandIds # {} /\ VehicleIds # {} /\ Commands # {}

VARIABLES
  registry,     \* Registry.vehicles: known to it, and Capabilities
  conn,         \* Router.conn
  stage,        \* where each client's Route is
  request,      \* the command frame it handles
  ticket,       \* the tracked command it owns, an index of commands
  network,      \* history: commands written to the multicast group
  relayed,      \* history: commands whose vehicle ack was broadcast
  acceptedFor,  \* history: commands whose client was told "accepted"
  refusedFor    \* history: tracked commands whose client was told an error

routeVars == <<registry, conn, stage, request, ticket, network, relayed,
               acceptedFor, refusedFor>>
vars == <<trackerVars, routeVars>>

Legacy == [commands |-> {}, extensions |-> <<>>]   \* of no interest: Capabilities is nil
Entry == [known : BOOLEAN, legacy : BOOLEAN, caps : CapabilitySets \cup {Legacy}]
Request == [CommandID : CommandIds, VehicleID : VehicleIds, command : Commands,
            wellFormed : BOOLEAN]

Stages == {"idle", "lookup", "track", "build", "connect", "write", "undo",
           "accepted", "refused"}
Tracked == {"build", "connect", "write", "undo", "accepted"}
NoTicket == 0

Unknown == [known |-> FALSE, legacy |-> TRUE, caps |-> Legacy]

NoRequest == CHOOSE r \in Request : TRUE   \* the value of a dead local

Init ==
  /\ TrackerInit
  /\ registry = [v \in VehicleIds |-> Unknown]
  /\ conn = "nil"
  /\ stage = [cl \in Clients |-> "idle"]
  /\ request = [cl \in Clients |-> NoRequest]
  /\ ticket = [cl \in Clients |-> NoTicket]
  /\ network = {}
  /\ relayed = {}
  /\ acceptedFor = {}
  /\ refusedFor = {}

----------------------------------------------------------------------------
(* The registry, as far as Route reads it *)

(* RecordTelemetry discovers the vehicle; its Capabilities are nil.        *)
Discover(v) ==
  /\ ~registry[v].known
  /\ registry' = [registry EXCEPT ![v].known = TRUE]
  /\ UNCHANGED <<trackerVars, conn, stage, request, ticket, network, relayed,
                 acceptedFor, refusedFor>>

(* UpdateCapabilities: only for a known vehicle, otherwise they are lost.  *)
Advertise(v, caps) ==
  /\ registry[v].known
  /\ registry' = [registry EXCEPT ![v].legacy = FALSE, ![v].caps = caps]
  /\ UNCHANGED <<trackerVars, conn, stage, request, ticket, network, relayed,
                 acceptedFor, refusedFor>>

----------------------------------------------------------------------------
(* Route *)

Goto(cl, s) == stage' = [stage EXCEPT ![cl] = s]

(* Bound: no more requests in progress than commands may be accepted.      *)
BeforeTrack == {cl \in Clients : stage[cl] \in {"lookup", "track"}}
RoomToTrack == Len(commands) + Cardinality(BeforeTrack) < MaxCommands

(* A frame arrives.  ListenAndServe runs after Router.Start.               *)
Receive(cl, r) ==
  /\ conn # "nil"
  /\ onTimeout
  /\ RoomToTrack
  /\ stage[cl] = "idle"
  /\ Goto(cl, "lookup")
  /\ request' = [request EXCEPT ![cl] = r]
  /\ UNCHANGED <<trackerVars, registry, conn, ticket, network, relayed,
                 acceptedFor, refusedFor>>

(* The frame's own checks, registry.Get's copy, and the check of that copy. *)
Lookup(cl) ==
  LET r == request[cl]
      entry == registry[r.VehicleID]
      supported == entry.legacy \/ IsCommandSupported(entry.caps, r.command)
      ok == r.wellFormed /\ entry.known /\ supported
  IN
  /\ stage[cl] = "lookup"
  /\ Goto(cl, IF ok THEN "track" ELSE "refused")
  /\ UNCHANGED <<trackerVars, registry, conn, request, ticket, network, relayed,
                 acceptedFor, refusedFor>>

(* Mutated form: a rejection is cleaned up like a failed send. *)
TrackRefusedUndone(cl) ==
  LET r == request[cl] IN
  /\ stage[cl] = "track"
  /\ TrackDuplicate(r.CommandID, r.VehicleID) \/ TrackRateLimited(r.CommandID, r.VehicleID)
  /\ Goto(cl, "undo")
  /\ UNCHANGED <<registry, conn, request, ticket, network, relayed, acceptedFor, refusedFor>>

TrackRefused(cl) ==
  LET r == request[cl] IN
  /\ stage[cl] = "track"
  /\ TrackDuplicate(r.CommandID, r.VehicleID) \/ TrackRateLimited(r.CommandID, r.VehicleID)
  /\ Goto(cl, "refused")
  /\ UNCHANGED <<registry, conn, request, ticket, network, relayed, acceptedFor, refusedFor>>

TrackOk(cl) ==
  LET r == request[cl] IN
  /\ stage[cl] = "track"
  /\ TrackAccepted(r.CommandID, r.VehicleID)
  /\ Goto(cl, "build")
  /\ ticket' = [ticket EXCEPT ![cl] = Len(commands) + 1]
  /\ UNCHANGED <<registry, conn, request, network, relayed, acceptedFor, refusedFor>>

(* buildProtoCommand; what it built, proto.Marshal takes. *)
Build(cl) ==
  /\ stage[cl] = "build"
  /\ Goto(cl, IF BuildProtoCommand(request[cl].command) THEN "connect" ELSE "undo")
  /\ UNCHANGED <<trackerVars, registry, conn, request, ticket, network, relayed,
                 acceptedFor, refusedFor>>

(* Mutated form: the nil path returns without Acknowledge. *)
ReadConnNoUndo(cl) ==
  /\ stage[cl] = "connect"
  /\ Goto(cl, IF conn = "open" THEN "write" ELSE "refused")
  /\ UNCHANGED <<trackerVars, registry, conn, request, ticket, network, relayed,
                 acceptedFor, refusedFor>>

(* conn is read under the read lock and used after it is released.         *)
ReadConn(cl) ==
  /\ stage[cl] = "connect"
  /\ Goto(cl, IF conn = "open" THEN "write" ELSE "undo")
  /\ UNCHANGED <<trackerVars, registry, conn, request, ticket, network, relayed,
                 acceptedFor, refusedFor>>

(* conn.Write: fails on a closed connection, and may fail on an open one.  *)
WriteOk(cl) ==
  /\ stage[cl] = "write"
  /\ conn = "open"
  /\ Goto(cl, "accepted")
  /\ network' = network \cup {ticket[cl]}
  /\ UNCHANGED <<trackerVars, registry, conn, request, ticket, relayed,
                 acceptedFor, refusedFor>>

(* Mutated form: an error after the datagram has left counts as a failure. *)
WriteFailsTooLate(cl) ==
  /\ stage[cl] = "write"
  /\ Goto(cl, "undo")
  /\ network' = network \cup (IF conn = "open" THEN {ticket[cl]} ELSE {})
  /\ UNCHANGED <<trackerVars, registry, conn, request, ticket, relayed,
                 acceptedFor, refusedFor>>

WriteFails(cl) ==
  /\ stage[cl] = "write"
  /\ Goto(cl, "undo")
  /\ UNCHANGED <<trackerVars, registry, conn, request, ticket, network, relayed,
                 acceptedFor, refusedFor>>

(* The error paths: Acknowledge takes the commandId, and its result is not *)
(* looked at.                                                              *)
Undo(cl) ==
  /\ stage[cl] = "undo"
  /\ Acknowledge(request[cl].CommandID)
  /\ Goto(cl, "refused")
  /\ UNCHANGED <<registry, conn, request, ticket, network, relayed, acceptedFor, refusedFor>>

(* handleCommand queues RouteResult.Frame for the client.                  *)
Reply(cl) ==
  /\ \/ /\ stage[cl] = "accepted"
        /\ acceptedFor' = acceptedFor \cup {ticket[cl]}
        /\ UNCHANGED refusedFor
     \/ /\ stage[cl] = "refused"
        /\ refusedFor' = refusedFor \cup ({ticket[cl]} \ {NoTicket})
        /\ UNCHANGED acceptedFor
  /\ Goto(cl, "idle")
  /\ ticket' = [ticket EXCEPT ![cl] = NoTicket]
  /\ request' = [request EXCEPT ![cl] = NoRequest]
  /\ UNCHANGED <<trackerVars, registry, conn, network, relayed>>

RouteStep(cl) ==
  \/ Lookup(cl) \/ TrackRefused(cl) \/ TrackOk(cl) \/ Build(cl)
  \/ ReadConn(cl) \/ WriteOk(cl) \/ WriteFails(cl) \/ Undo(cl) \/ Reply(cl)

----------------------------------------------------------------------------
(* Start, Stop, and what runs beside the routes *)

RouterStart ==
  /\ conn = "nil"
  /\ conn' = "open"
  /\ UNCHANGED <<trackerVars, registry, stage, request, ticket, network, relayed,
                 acceptedFor, refusedFor>>

(* Stop sets conn to nil again; here "closed", so that Start runs once.    *)
RouterStop ==
  /\ conn = "open"
  /\ conn' = "closed"
  /\ UNCHANGED <<trackerVars, registry, stage, request, ticket, network, relayed,
                 acceptedFor, refusedFor>>

(* A vehicle answers, and main.go's pipeline broadcasts its command_ack.   *)
VehicleResponds(i) ==
  /\ i \in network \ relayed
  /\ relayed' = relayed \cup {i}
  /\ UNCHANGED <<trackerVars, registry, conn, stage, request, ticket, network,
                 acceptedFor, refusedFor>>

Clock == Tick /\ UNCHANGED routeVars

Timers(i) == i \in DOMAIN commands /\ TimeoutGoroutine(i) /\ UNCHANGED routeVars

WireTimeout == SetTimeoutCallback /\ UNCHANGED routeVars

Next ==
  \/ WireTimeout \/ RouterStart \/ RouterStop \/ Clock
  \/ \E v \in VehicleIds : Discover(v)
  \/ \E v \in VehicleIds, caps \in CapabilitySets : Advertise(v, caps)
  \/ \E cl \in Clients, r \in Request : Receive(cl, r)
  \/ \E cl \in Clients : RouteStep(cl)
  \/ \E i \in network : VehicleResponds(i)
  \/ \E i \in Indices : Timers(i)

(* The Go scheduler runs what can run; clients and vehicles owe nothing.   *)
Fairness ==
  /\ WF_vars(Clock)
  /\ \A cl \in Clients : WF_vars(RouteStep(cl))
  /\ \A i \in Indices : WF_vars(Timers(i))

Spec == Init /\ [][Next]_vars /\ Fairness

----------------------------------------------------------------------------
(* Properties *)

(* Shapes, and which stages own a tracked command.                         *)
RouteTypeOK ==
  /\ TypeOK
  /\ registry \in [VehicleIds -> Entry]
  /\ conn \in {"nil", "open", "closed"}
  /\ stage \in [Clients -> Stages]
  /\ request \in [Clients -> Request]
  /\ ticket \in [Clients -> DOMAIN commands \cup {NoTicket}]
  /\ \A cl \in Clients : stage[cl] \in Tracked => ticket[cl] # NoTicket
  /\ relayed \subseteq network
  /\ network \cup acceptedFor \cup refusedFor \subseteq DOMAIN commands

(* A Route that fails after Track takes its command out of the tracker on  *)
(* every path: what is pending was sent, or its Route is still running.    *)
(* Otherwise a client told of an error would get a timeout ack later.      *)
PendingIsRoutedOrSent ==
  \A c \in CommandIds :
    LET i == pending[c] IN
    i # Absent =>
      \/ i \in network
      \/ \E cl \in Clients : ticket[cl] = i /\ stage[cl] \in Tracked

(* "The server sends an immediate `accepted` ack when it successfully      *)
(* broadcasts the command" (PROTOCOL.md:151), and an error means it was    *)
(* not sent, whatever Stop and other Routes do to the connection meanwhile. *)
ReplyMatchesNetwork ==
  /\ acceptedFor \subseteq network
  /\ refusedFor \cap network = {}

(* A command that gets past the capability check was advertised, or it     *)
(* cannot be built and is refused later: the cases the check leaves to     *)
(* buildProtoCommand send nothing the vehicle did not declare.  Vehicles   *)
(* that advertise nothing take everything.                                 *)
UndeclaredIsNotSent ==
  [][\A cl \in Clients :
       stage[cl] = "lookup" /\ stage'[cl] = "track" =>
         LET r == request[cl]
             entry == registry[r.VehicleID]
         IN entry.legacy \/ Declared(entry.caps, r.command) \/ ~BuildProtoCommand(r.command)]_vars

(* No other Route's error path withdraws a command that was sent, as long  *)
(* as its commandId is its own: two Routes of one id are told apart by     *)
(* Track alone, since Acknowledge takes the id.                            *)
SentNeverWithdrawn ==
  \A i \in network : OwnId(i) => outcome[i] # "acknowledged"

(* What the UI relies on: once told "accepted", it gets a vehicle ack or a *)
(* timeout ack for the id, whatever the vehicle does (PROTOCOL.md:151).    *)
(* Commands whose deadline lies past the bounded clock are left out.       *)
Answered(i) ==
  \/ i \in relayed
  \/ /\ outcome[i] = "timedout"
     /\ \E j \in TimeoutFrames(commands[i].CommandID) : timer[j] = "notified"

AcceptedIsAnswered ==
  \A i \in Indices :
    (i \in acceptedFor /\ commands[i].SentAt + Timeout <= MaxTime)
      ~> (i \in DOMAIN commands /\ (Answered(i) \/ ~OwnId(i)))

(* "If no response arrives within TOWER_CMD_TIMEOUT, the server sends a    *)
(* synthetic timeout ack" (PROTOCOL.md:151): the timer of a command whose  *)
(* vehicle ack was relayed before the deadline does not expire.            *)
TimeoutMeansNoResponse ==
  [][\A i \in DOMAIN commands :
       timer[i] = "armed" /\ timer'[i] = "fired" => i \notin relayed]_vars

----------------------------------------------------------------------------
(* The refinement: a tracked command's life, read off what happened *)

LifeOf(i) ==
  IF i \in acceptedFor THEN "accepted"
  ELSE IF i \in refusedFor THEN "refused"
  ELSE IF i \in network THEN "sent"
  ELSE IF i \in DOMAIN commands THEN "taken"
  ELSE "none"

Life == INSTANCE CommandLife WITH
  Requests <- Indices,
  life <- [i \in Indices |-> LifeOf(i)],
  answered <- relayed,
  givenUp <- {i \in DOMAIN commands : outcome[i] = "timedout"}

(* "ensures the UI always gets a response" (tracker.go's package comment), *)
(* in full: whatever Stop, timers and other Routes do in between, a        *)
(* tracked command is told accepted only once it was sent, told an error   *)
(* only if it never was and never will be, is not given up once refused,   *)
(* and is told one of the two in the end.                                  *)
ImplementsCommandLife == Life!LifeSpec
=============================================================================
