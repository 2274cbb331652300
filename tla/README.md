# A verification project for tower-server

tower-server sits between a fleet of vehicles and the browser UIs of their
operators. Vehicles send protobuf messages by UDP multicast; the server checks
them, keeps a registry of who is alive, and broadcasts JSON frames to WebSocket
clients. Clients send commands; the server checks, rate-limits and multicasts
them, and promises each client an answer.

This directory holds TLA+ models of that server, translated from its source, the
TLC configurations that check them on small instances, and theorems that TLAPS
checks for every value of the constants. Paths below are relative to the
repository; `PROJECT.json` maps each definition to the lines it stands for and
lists the runs, mutated forms, hazards, findings and theorems.

To check a model: `tlc -config MCTracker.cfg MCTracker.tla`. To check a proof:
`tlapm CommandPathProofs.tla`.

## 1. The system

| Component | Code | State | Operations |
|---|---|---|---|
| Command tracker | `internal/command/tracker.go` | pending map, a timer per command, timestamps per vehicle | Track, Acknowledge, CancelAll, handleTimeout |
| Command router | `internal/command/router.go` | the UDP connection | Start, Stop, Route (capability check, builder, send) |
| Extension codecs, manifests | `internal/extensions/` | two maps filled at start | Register, EncodeCommand, DecodeAll, LoadManifest |
| Vehicle registry | `internal/registry/registry.go` | vehicles with status, last seen, capabilities | RecordTelemetry, CheckTimeouts, UpdateCapabilities, Remove |
| Sequence tracker | `internal/protocol/sequence.go` | a high-water mark per vehicle | Accept, Reset, ResetAll |
| WebSocket hub | `internal/websocket/` | client set, broadcast queue; per client a send queue and flags | register, handleHello, handleCommand, Broadcast, broadcastLoop, the pumps, Close, Shutdown |
| Telemetry pipeline | `cmd/tower-server/main.go`, `internal/telemetry/multicast.go` | a channel per source, a shared channel | Start per source, fan-in, consumer, close |
| Validation, translation | `internal/protocol/validate.go`, `translate.go` | none | DecodeVehicleMessage |
| Frame builders | `internal/protocol/builders.go` | none | constructors of commands, replies, errors and the welcome |
| Configuration | `internal/config/config.go` | none | Load, Validate, the parsing of sources |
| Observability | `internal/observability/metrics.go` | a gauge for each status, counters | SetVehicleCount, Snapshot |
| Process start | `cmd/tower-server/main.go` | the goroutines and sockets it opened | main, run |
| Test tools | `cmd/testclient/`, `cmd/testsender/` | the client's counters; the mock vehicle's position, heading, battery, sequence number | the client's modes; the sender's two tickers |
| Generated protobuf code | `*.pb.go` | none | accessors |

How they interact:

- The *pipeline* decodes a datagram (*validation, translation*), updates the
  *registry* (telemetry: last seen; heartbeat: capabilities) and then calls the
  *hub*'s Broadcast.
- A client's ReadPump in the *hub* calls *router*.Route. Route reads the
  *registry*, calls *tracker*.Track, asks a *codec* for the bytes and writes to
  the multicast group; its error paths call *tracker*.Acknowledge.
- A *tracker* timer that expires starts a goroutine that calls the hub's
  Broadcast with a synthetic timeout ack.
- A one-second ticker calls *registry*.CheckTimeouts; each transition starts a
  goroutine that broadcasts a status frame. OFFLINE -> ONLINE resets the
  vehicle's mark in the *sequence tracker*. The same ticker then sets
  *observability*'s gauges, one at a time.
- *Process start* loads the *configuration*, the *manifests*, wires the callbacks
  and starts the goroutines above, in that order; a signal cancels them.

What is hard about it: all of these are goroutines that share state under
several locks and none. A Route holds no lock between its steps. Timers fire
after Stop has lost the race. Callbacks run on goroutines of their own. Queues
drop at different places. Channels are closed by a goroutine other than the one
that sends. UDP loses, duplicates and reorders, sequence numbers wrap, and
vehicles reboot.

What makes each component correct:

- tracker: no accepted command is forgotten, none is given up early, the rate
  bound holds in every window;
- router: whatever fails, the reply agrees with what happened on the network,
  what is still pending was sent or is being sent, and what a vehicle did not
  advertise is not sent;
- registry: a status means the silence of telemetry it names, within the ticker's lateness;
  the mark is reset on return and never else;
- sequence tracker: exactly the newer packets are accepted, across wrap-around;
- hub: welcome first, no frame lost but at a full queue, no stalled loop, no
  send on a closed channel, dead connections leave;
- pipeline: per-source order, registry first, only valid frames, nothing lost
  past the first queue;
- process start: what serves is what was configured, nothing runs before it is
  wired, a welcome is true, a signal ends the process in every phase;
- gauges: a page read in quiet adds up, and the gauges catch up;
- test tools: their checks pass on a right server, what they ask for is what is
  sent, what they hear is true, the server decodes what they send within its limits.

## 2. The modules

| Module | Models | Uses |
|---|---|---|
| `Tracker` | tracker.go | |
| `Extensions` | codecs and manifests: which commands, which payloads | |
| `CommandChecks` | Route's decisions on a command's content | Extensions |
| `CommandLife` | abstract: the life of one command | |
| `CommandPath` | Route, its callers, Stop, the timeout goroutines, the vehicles | Tracker, CommandChecks, CommandLife |
| `CommandPathProofs` | theorems on Tracker, CommandChecks and CommandPath | CommandPath |
| `CommandMessage` | a command from JSON to protobuf, replies and errors | CommandChecks |
| `SequenceTracker` | sequence.go | |
| `OrderedDelivery` | abstract: packets let through in order | |
| `TelemetryDedup` | the sequence tracker on a bad network | SequenceTracker, OrderedDelivery |
| `FleetRegistry` | registry.go, the ticker, the callbacks | SequenceTracker |
| `RegistryProofs` | theorems on TelemetryDedup and FleetRegistry | TelemetryDedup, FleetRegistry |
| `Hub` | server.go, client.go | |
| `HubProofs` | theorems on Hub | Hub |
| `VehicleMessage` | validate.go, translate.go, inbound half | Extensions |
| `Pipeline` | main.go's goroutines, multicast.go | VehicleMessage |
| `PipelineProofs` | theorems on VehicleMessage and Pipeline | Pipeline |
| `Configuration` | config.go | |
| `ManifestLoader` | manifest_loader.go's checks | |
| `Welcome` | the welcome frame, extensions/registry.go | |
| `Startup` | main and run, from the init functions to the exit | Configuration, ManifestLoader, Welcome |
| `StartupProofs` | theorems on Startup | Startup |
| `TestClient` | testclient against the server | CommandMessage |
| `TestClientProofs` | theorems on TestClient | TestClient |
| `TestSender` | testsender and what the server makes of it | VehicleMessage, CommandChecks |
| `TestSenderProofs` | theorems on TestSender | TestSender |
| `Monitoring` | metrics.go, the ticker, a request for /metrics | |
| `MonitoringProofs` | theorem on Monitoring | Monitoring |
| `MC*` | small instances for TLC | |

### Tracker

A command that Track accepts becomes an element of `commands`; `pending` maps an
id to the index of the object it holds, so that two uses of one id stay
distinguishable although the code's map keeps only the last. Every exported
method is one critical section and one action. handleTimeout is three: the timer
fires (`TimerFires`), its goroutine gets the lock and removes whatever entry is
under the id (`HandleTimeout`), and it calls onTimeout with the lock released
(`NotifyTimeout`). `timer` says where each of these is. `rateLimiter` holds the
indices whose timestamps the slice holds; it is pruned as the code does, when a
command is recorded.

### CommandPath, CommandChecks, Extensions

Each client has at most one Route under way, since its ReadPump calls it
synchronously. `stage` is where Route is: lookup (its checks, the registry's
copy, the capability check), track, build, connect (reading the conn pointer
under the lock), write, undo, and the reply. Between the steps anything may
happen: another Route with the same id, a timeout, Stop, a new heartbeat, the
vehicle's ack. `network` are the commands written. What fails by content is
decided in CommandChecks: whether the vehicle advertised the command, and whether
the protobuf command can be built. Extensions says of each codec what actions it
encodes and what fields it insists on, and of each manifest what it offers.
A payload maps field names to values; numbers are not told apart (CommandMessage
does that), and modes are the mode names. `proto.Marshal` of a command that was built does not fail and has
no step.

A command's fields that do not have the JSON type that the action wants are
`parses = FALSE`. The frame's own checks (missing type, id or target) are
`wellFormed`.

### CommandLife

What the server promises of one command: none, taken, then refused, or sent and
accepted. CommandPath implements it: `LifeOf` reads a request's station off the
tracker's objects, the network and the replies, `ImplementsCommandLife` is the
specification with that mapping. A duplicate id, a full rate window or an unknown
vehicle never become a request that was taken in.

### CommandMessage

The same command is described four times in the code: by frame.go's JSON types,
by the builder in router.go that the server runs, by translate.go's functions and
by validate.go's, which only tests call. The module has all four, so that the
router's can be compared with the others, and the constructors of replies and
errors. It is used by TestClient.

husky's EncodeCommand, the codec that the test client can reach, is there down to
the fields that it sends. It converts a sensitivity to uint32: a number that such a
field holds (`Uint32`) is kept, and any may come out of one that is negative or too
large, since Go leaves that to the machine. A speed becomes a float32; the model has
the whole numbers that one holds exactly.

### SequenceTracker, TelemetryDedup, OrderedDelivery

`SeqSpace` is 2^32 in the code and `2 * HalfSpace` here. `int32(a - b) > 0` is
`SeqAfter`: the difference modulo SeqSpace lies in 1 .. HalfSpace - 1. TelemetryDedup
gives a vehicle an unbounded packet number, puts it modulo SeqSpace on the wire,
and lets the network lose, duplicate, and delay by up to `Skew` packets.
OrderedDelivery knows neither wire numbers nor a network: of each vehicle's packets
it lets an increasing sequence through, and may be told to start afresh.

### FleetRegistry

Time advances in ticks of the status check. `due` is the ticker's channel of
capacity one; the check may run up to `MaxLag` ticks late. A transition starts a
callback goroutine, which is an element of `notices` until it runs, in any order.
`view` is the last status frame emitted. Discovery starts no callback, as in the
code. A heartbeat gives a vehicle its capabilities and leaves `lastSeen` alone, as in
the code: a vehicle's silence is that of its telemetry. MCFleetHeartbeat adds a
history variable, the time of the last heartbeat, to show what follows from it.

### Hub

For each connection: the ReadPump (`reader`) and the WritePump (`writer`), the
send queue, the flags closed and handshaked. The broadcast loop holds Server.mu
for reading while it sends (`loop.at = "sending"`); registering waits for it,
leaving the set waits for it. A send on a closed channel sets `panicked` and
ends the behaviour, as it ends the process.
The welcome is queued by a blocking send that is a step of its own, and the
handshaked flag is set in another.

Two merges of steps need a word. *Client.Close* sets the flag, closes the channel
and closes the connection: it is one step, since between the parts no other
goroutine reads the flag but another Close (which returns), and a send that meets
the channel open or closed could also run before or after all three. *A status
transition and the Broadcast of its frame* are one step, since a delay between
them only shifts the frame later relative to the handshakes.

### VehicleMessage, Pipeline

A message is one record with the fields of all payload kinds. A floating-point
field is a number or a NaN, whose comparisons are all false, so that a check
written as "refuse what lies outside" lets it through, as the code's does.
Numbers are integers: a heading of 359.5 is like 359, since the code compares with
whole numbers only. Timestamps are in years. Text that is passed on without being
looked at is left out.

Pipeline has for each source the goroutine that reads (`source`, `sourceCh`) and
the fan-in goroutine (`fan`: the frame it holds), the shared channel, the
goroutine that closes it, and the consumer. A datagram is known by its place in
the order of arrival and `arrived` holds the frame it decoded to. The receiver's
buffer has 1400 bytes: of a longer datagram it reads the first 1400 (`Received`),
which may or may not parse, and ValidateFrameSize never sees that it was longer. The
first queue drops when full; the second blocks.

### Configuration, ManifestLoader, Welcome, Startup

The first three are pure: what Load and Validate make of variables that are unset,
unparsable or given; which manifests pass the loader; what a welcome frame says of
codecs and manifests. Of an address only the family is kept, of a shown text only
whether there is one.

Startup is the life of the process. Its environment (`env`, `directory`,
`portTaken`) is chosen once. `phase` follows run; registering a codec, loading an
entry of the directory, starting a source are steps of their own, with `next` as
the loop's index. The sources, the ticker and the HTTP server are goroutines with
their own steps. `signals` may come at any moment: before run has installed its
handler they kill, after it the first cancels and later ones are ignored.

### TestClient

The test client in each of its modes, on one connection with the server's side of
it: handshake, frame checks, Route, the send queue. Route is here as few steps as
its replies can tell apart (CommandPath has it in full), the Route of another
client is one step, and time is not counted: the rate window may move and a timer
expire at any moment, and so may the tool's own deadlines.

### TestSender

The mock vehicle's flags, its state, its two tickers, and what the server makes of
the datagrams that get through: the registry's entry and what it would refuse.
The heading is a float64 that is sent as a float32, and so is counted in half steps
of float32: an odd number lies between two values that can be sent. The position
moves with every tick, among the degrees that are told apart (`Latitudes`,
`Longitudes`), which way is left open; nothing wraps or bounds it, and where it is
over the edge of the map is told apart from what is not. A datagram's size is that of
the texts of its flags and a constant rest.

### Monitoring

Three gauges, set one by one by the ticker from counts it took, and read one by one
by a request. `page` is the last page served, `overlapped` whether a gauge was set
while it was read. Which vehicles have been silent for long enough is left open.

## 3. What TLC checks

The runs of the tracker and of the gauges check for deadlock: there is always a
step left, since CancelAll may be called and a page requested at any time. The
others set CHECK_DEADLOCK FALSE: the process or the tool may stop (a panic,
shutdown, all goroutines gone) or the bounds may be used up. That goroutines do not
wait for each other for ever is what the liveness properties say.

| Run | Properties | Bounds, and why they are enough |
|---|---|---|
| `tracker` | RateBound, PendingHasTimer, OneFramePerExpiry, TimeoutNotEarly, NoOrphanTimer; EveryCommandResolved | 2 ids, 2 vehicles, 3 commands, limit 2, window 2, timeout 2, 4 ticks: an id used again while its first timer is late, a third command at the limit, windows that slide past a prune |
| `command_path` | PendingIsRoutedOrSent, SentNeverWithdrawn; UndeclaredIsNotSent, AcceptedIsAnswered, ImplementsCommandLife | 2 clients on one id and one vehicle, so that every race is between them, limit 1, 2 commands, 2 ticks; one command that is sent and one that the builder refuses; capabilities that name another action |
| `timeout_after_answer` | TimeoutMeansNoResponse is violated: finding 1 | one client |
| `heartbeat_not_heard` | HeartbeatKeepsOnline is violated: finding 2 | one vehicle, standby 2, so that a heartbeat can come after the last telemetry and within it |
| `fleet` | StatusMeansSilence, MarkIsSinceReturn, ViewIsCurrent; MarkLostOnlyOnReturn, SilentGoesOffline | one vehicle (vehicles share nothing but the ticker), standby 1, offline 3, lag 1, 6 ticks, 4 transitions, 4 wire numbers: a full cycle and the start of another, with late checks |
| `dedup` | AcceptsExactlyNewer; ImplementsOrderedDelivery | 2 vehicles, 4 wire numbers, packets late by up to 2, 10 packets: two wrap-arounds |
| `hub` | WelcomeFirst, NoPanicInService, EveryFrameAccounted; LoopNeverStalls, DeadConnectionsLeave | 2 clients, queues of 1, 2 frames, 2 messages, one lost connection: both the broadcast queue and a client's overflow, messages fill the queue before the welcome, and the loop meets one client leaving while it sends to the other |
| `pipeline` | SourceOrderKept, RecordedBeforeBroadcast, FramesAreValid, NoPanicInService; QueuedIsBroadcast | 2 sources, queues of 1, 3 datagrams, 19 messages: one of each kind that is decoded, and one for each way not to be; among them one that the buffer cuts |
| `startup` | ServingIsConfigured, WiredBeforeUse, WelcomeIsTrue; EndsWhenTold | 19 environments: each number at its limit and past it, unparsable, each way of writing sources; 14 directories: each check of the loader failed once; the port taken or not; 2 signals, so that a second meets the shutdown |
| `test_client` | ErrorChecksPass, SentAsAsked, HeardIsTrue; ToolTerminates | 20 command lines: each mode, each command and each way it is refused, a sensitivity that a uint32 holds (three numbers stand for them) and one that it does not; limit and send queue 2, 2 frames to read, 2 broadcasts, one command of another client: limit and queue are reached |
| `test_sender` | DecodedWithinLimits; CapabilitiesAreLearned | 9 command lines: each environment, each set of capabilities, the rates 0, -1 and one that is too high for the ticker, texts too long for a heartbeat and for any datagram; 4 headings, so that the circle is passed; 4 latitudes and 4 longitudes, the last of each off the map; 2 sequence numbers, so that they wrap; a battery of 21, so that it reaches its floor of 20 |
| `monitoring` | QuietPageAddsUp; GaugesCatchUp | 2 vehicles, 3 telemetry packets: a vehicle changes its status between any two gauges |

In the second column the invariants come before the semicolon, the action and
temporal properties after it. StatusMeansSilence joins the registry's type
invariant with SilenceIsReal (no status names more silence than there was) and
StatusIsFresh (none lags by more than the check does); EveryFrameAccounted,
ServingIsConfigured, ErrorChecksPass, DecodedWithinLimits and QuietPageAddsUp have
their module's type invariant as a conjunct. The type invariants of Tracker,
CommandPath, TelemetryDedup and Pipeline are proved instead.

For each property of a passing run there is a mutated form of a definition (the
definitions commented "Mutated form") under which TLC finds the property
violated: a dropped guard, an off-by-one, a missing clean-up, a swapped order.

### Fairness

Weak fairness is given to what the Go runtime schedules: a goroutine that can take
a step takes it. So for timer goroutines that have fired, for each step of Route
(none of them waits for another client's Route but for a mutex), for the callback
goroutines, for the broadcast loop and the pumps, for fan-in and consumer, for
run's own steps, the HTTP server and the signal's goroutine, for the status ticker
and a page that is being read. The clock advances and a timer whose time has come
fires. ReadPump has strong fairness: what it waits for, a place in its queue or the
write lock of Server.mu, comes and goes, and Go gives it to the waiter in the end (a
waiting writer stops new readers of an RWMutex). None is given to the outside:
vehicles, the network, clients, heartbeats, signals, Stop, Cancel, and the source's
read, which has no deadline. A dead connection is noticed because the code sets
read and write deadlines (`pongWait`, `writeWait`).

In the two test tools the outside is part of the model. The test client ends its
waits by its own deadlines, which pass. The mock vehicle's two tickers tick, and a
datagram is received or lost; strong fairness says that of the datagrams it sends for
ever not all are lost, and of the headings not all round to 360. That the vehicle
stays on the map, until what it can do is known, is a premise of
CapabilitiesAreLearned itself. CommandLife owes a
request that was taken in a reply, and nothing else.

### Findings

1. *A command that was answered still times out* (`timeout_after_answer`). Nothing
   in the pipeline calls Acknowledge, which PROTOCOL.md:151 and tracker.go:186 ask
   for.
2. *Heartbeats do not keep a vehicle online* (`heartbeat_not_heard`).
   UpdateCapabilities leaves LastSeen alone (registry.go:300), so that a vehicle that
   sends heartbeats and no telemetry goes to STANDBY and OFFLINE. GLOSSARY.md:37,
   PROTOCOL.md:128 and ADDING_A_VEHICLE.md:21 say that a heartbeat is enough;
   GLOSSARY.md:35-36 and the comments of registry.Config speak of telemetry alone.
   StatusMeansSilence and SilentGoesOffline are about that silence.

Each is a violated property of a run of its own; the properties of the passing
runs are stated for what the code does around them. An id that is used again is one
such case: GLOSSARY.md:80 asks clients for unique ids, and the tracker tells two uses
apart only while the first is pending. A goroutine of the first that is late takes
the entry of the second (tracker.go:160), gives that command up early and leaves its
timer armed. TimeoutNotEarly and NoOrphanTimer cover every id and name this as the
one exception (`TakenByEarlierUse`); SentNeverWithdrawn is about ids used once.

### Other divergences met while modelling

No run shows these; the models have the code's behaviour.

| The code | A doc, a comment or a test |
|---|---|
| A command whose id was used before can be given up early, and its timer stay armed (tracker.go:160) | tracker.go:31, :284 |
| A status frame is dropped at a full broadcast queue (server.go:128) or client queue (client.go:88) | PROTOCOL.md:57 (not droppable), :126 (guaranteed) |
| A message is refused for its timestamp, if it is before 2020 or after 2100 (validate.go:184) | GLOSSARY.md:26 ("Never filter"), PROTOCOL.md:96, README.md:83 |
| A datagram longer than 1400 bytes is cut by the buffer (multicast.go:45) and decoded if the rest parses | validate.go:46: ValidateFrameSize refuses it, which it never can |
| A sensitivity out of range is sent, a negative one as another number (husky codec.go:129) | husky manifest.yaml:53, husky.proto:68 (0-100) |
| Each manifest offers commands that its codec refuses (`OfferedAndRefused`), husky's calibrateIMU and resetOdometry for one (husky manifest.yaml:67) | ADDING_A_VEHICLE.md:258 |
| Shutdown closes the channels of clients still in the set: a send of the loop can panic (server.go:112) | "gracefully shuts down" (server.go:108); NoPanicInService is about the time before |
| A transition between a client's snapshot and its handshake reaches it in neither (server.go:240) | PROTOCOL.md:37, :126 |
| Duplicates are broadcast: nothing calls SequenceTracker.Accept | PROTOCOL.md:81 |
| The accepted reply can be queued after the vehicle's completed (server.go:346) | PROTOCOL.md:144 |
| UNKNOWN_COMMAND is sent for no command (router.go:318) | PROTOCOL.md:190 |
| A refusal before the command is decoded carries no commandId (router.go:328) | frame.go:446 |
| validate.go's checks of commands are not called (router.go:227) | README.md:19 |
| The altitude of a goto is dropped (router.go:234) | pidgin.proto:359 |
| Two sources on one port each hear both groups (multicast.go:64) | docs/NETWORKING.md:179, :182 |
| An IPv6 group passes the check (config.go:200) | the message of config.go:206 |
| A manifest that does not load is logged and skipped (main.go:78) | EXTENSIBILITY.md:53 |
| A manifest's commands are named by `command` (manifest_loader.go:112) | EXTENSIBILITY.md:64 has `action` |
| The connection gauge is never set (server.go:189) | metrics.go:163 |
| testclient's burst counts every ack that it hears, another client's too (testclient main.go:509) | testclient main.go:497 |
| testsender's heading can round to 360 (testsender main.go:312), which the server refuses | pidgin.proto:64 |
| testsender's position can leave the map in a long run (testsender main.go:274), and its texts can make a datagram longer than the server's buffer: the server refuses both | DEVELOPMENT.md:105 |
| testsender's `-caps none` still declares extensions (testsender main.go:189) | DEVELOPMENT.md:84 |

## 4. What TLAPS proves

The theorems hold for every value of the constants that satisfies the modules'
ASSUMEs, which TLC evaluates in the runs; that the bounds of the runs are numbers is
assumed besides:

| Assumption | What it asks, and why the code justifies it |
|---|---|
| `TrackerAssumption`, `RegistryAssumption` | positive timeouts, window and limit, the offline timeout above the standby one: config.Validate |
| `RouteAssumption` | there is an id, a vehicle and a command |
| `HalfSpaceAssumption`, `SkewAssumption` | half the sequence numbers are a positive number; packets are late by no more than that |
| `HubAssumption`, `PipelineAssumption` | positive capacities, as the constants of the code are |
| `MessageAssumption` | what arrives is a protobuf message, of any content |
| `Uint32Assumption` | some natural numbers, 0 among them, are those of a uint32 |
| `StartupAssumption` | environments, directories and codecs have the shapes that their Go types give them; nothing is asked of their content |
| `ClientAssumption` | flags have the types that package flag gives them; ids are UUIDs, so that one client's are not another's; speeds are among those that a float32 holds exactly; other clients' extension commands are husky's |
| `HeadingAssumption`, `SenderAssumption` | the grain of float32 divides the circle; the battery starts between its floor and 100; the vehicle has an id |
| `GridAssumption`, `SizeAssumption` | the mock vehicle's starts are told apart, and the edge of the map from what is over it; a datagram has a byte besides its texts |
| `MonitoringAssumption` | finitely many vehicles |

**CommandPathProofs, the tracker**: `TypeCorrect`, `LimiterCorrect`,
`RateBoundHolds`, `NothingForgotten`, `TimeoutsKeepTheirTime`,
`TimersFollowEntries`. The inductive invariant joins the type invariant with three
parts that say more than the properties. The limiter (`LimiterInv`): no command was
sent later than now (`SentBefore`), and the slice holds exactly the accepted commands
of the window that ends now; a window that gains a command must end now or later, so
what it held before is part of what the limiter counted. The timers (`TimerInv`): a
fired timer has reached its time (`FiredIsDue`), an entry's object has a timer that will
still expire (`PendingHasTimer`), the entry of an id is of its latest use
(`PendingIsLatest`), and nothing has happened to a command that does not exist yet
(`UnusedIsOpen`). So a goroutine either finds its own entry, and is on time, or a later
one, which is the exception that TimeoutNotEarly and NoOrphanTimer name; once it has
taken that one, it takes no other (`TakenStays`).

`ExpiriesAreAnnounced` counts, for each id, expired commands against frames sent
and goroutines about to send: two uses of one id are two of each. It rests on the
callback being set before the first Track (WiredBeforeUse in Startup).

**CommandPathProofs, Route**: `RouteTypeCorrect`, `RoutedOrSent`, `RepliesAreTrue`,
`SentStaysTracked`, `RoutesKeepTheTracker`, `PathImplementsLife`,
`OnlyDeclaredIsSent`. The inductive invariant `PathInv` joins the type invariant and
the tracker's two parts with `RouteInv`: two Routes hold different tickets
(`TicketsDiffer`), a Route past Track holds the object it put into the map
(`TicketsHold`), a reply agrees with the network (`ReplyMatchesNetwork`), what is
pending was sent or is in some Route's hands, and what was withdrawn is not sent
later (`WithdrawnIsFinal`). The tracker's own lemmas are cited for each of its
operations, so that RateBound, PendingHasTimer, TimeoutNotEarly and NoOrphanTimer hold
with its callers too. PathImplementsLife maps each step of CommandPath to one of CommandLife
or to a stutter; its fairness is left to TLC. OnlyDeclaredIsSent assumes what
CheckIsDeclaration assumes, that capabilities name each namespace once.

**CommandPathProofs, the capability check**: `CheckIsDeclaration`. The code
takes the first entry of a namespace and lets the unparsable through to the
builder; for a command that can be built, and capabilities that name each
namespace once, that is exactly what the vehicle declared. With a namespace
twice it is not: only the first entry counts. `OfferedAndRefused` is about the other
side: the commands that a manifest offers and its codec refuses, for every payload.

**RegistryProofs, the sequence tracker**: `DedupTypeCorrect`, `DedupCorrect`,
`DedupImplementsDelivery`. The core is arithmetic: a wire difference modulo
SeqSpace is the true difference modulo SeqSpace (`ModOfDifference`), so two
packets less than HalfSpace apart are compared rightly (`SeqAfterIsOrder`).
The invariant says that the mark is the last accepted packet modulo SeqSpace,
and that this packet lags the newest by at most HalfSpace; the refinement
follows from it step by step. The model assumes that no 2^31 packets in a row
are lost, and that no packet arrives more than 2^31 packets late.

**RegistryProofs, the registry**: `StatusIsSilence`, `MarksAreFresh`,
`MarksAreKept`, `ViewCorrect`. `SilenceInv` bounds the ticker's lateness by
whether a tick is due (`LagBound`), and with it the silence of an online
vehicle (`OnlineBound`) and of one in standby (`SilentBound`). `ViewInv`
numbers the callbacks of a vehicle (`NoticesNumbered`) and says that the
youngest carries its status (`FrameIsStatus`); the view is right when they ran
in order, which the code does not ensure, and ViewIsCurrent says so.

**HubProofs**: `HubTypeCorrect`, `ServiceIsSafe`, `WelcomeComesFirst`,
`FramesAreAccountedFor`. The invariant `AllShapes` has what each goroutine holds in
each of its stations. `ServiceInv` says why the loop never meets a closed channel:
a client whose channel is closed has left the set (`ClosedIsLeft`), and the loop,
which holds the lock, sends to members only (`LoopInSet`). `WelcomeInv` follows a
client's queue through the handshake. `AccountInv` follows a frame from the
broadcast queue to each client or to the list of what was dropped.

**PipelineProofs, messages**: `ValidatedIsTranslated` (the translation's own
error returns are never taken for a datagram) and `DecodedIsValid` (every
decoded frame has what its kind needs, in range, and is of the vehicle that sent it,
whatever the message). What is read of a datagram is a message again
(`ReceivedIsMessage`), so that the second holds of what the buffer cuts, too.

**PipelineProofs, the pipeline**: `PipelineTypeCorrect`, `RecordedFirst`,
`BroadcastsAreValid`, `ServiceDoesNotPanic`, `OrderIsKept`. The inductive
invariant has four parts: what is under way has arrived (`UnderWay`), shapes
and capacities (`Shapes`), the vehicle of the frame in the consumer's hands is
recorded (`Recorded`), and before shutdown a source that is not reading has an
empty channel and an idle fan-in, while the shared channel is closed only when
all sources have returned (`IdleFans`). The last is why a source that fails to
start cannot make another's fan-in panic. OrderIsKept looks at the line of all
frames of a source from the broadcast back to the source's channel (`Line`):
it is increasing, however the frames of other sources fall in between.

**StartupProofs**: `ConfiguredBeforeServing`, `WiredFirst`, `WelcomeTellsTheTruth`.
The inductive invariant `StartInv` has what each phase of run has behind it: the
configuration in use is the one that Load makes of the environment and that Validate
took (`ConfigInv`), no goroutine is there before its phase (`GoroutineInv`), the
manifests are those of the entries passed (`LoaderInv`), the codecs those registered
so far (`CodecInv`). From it to the properties is a matter of what the pure operators
compute: that parsing keeps every source that is not blank (`NonBlankKeeps`,
`LoadedIsGiven`), that a manifest which passes the loader can be filled in and
offered (`ValidCanBeFilled`, `ValidCanBeOffered`; that names differ is tested by the
size of a set, `DistinctNames`), and that the welcome has the highest version of each
codec (`HighestVersion`). These are facts about sequences of any length; they are
proved with a least counterexample (`CountUp`), since the library's induction
theorems cannot be used.

**TestClientProofs**: `ClientInvHolds`, `ChecksAlwaysPass`, `AnswersAreTrue`,
`CommandsAreAsAsked`. `ClientInv` has seven parts. The client's station fits its mode
(`ModeInv`) and its counters what it still waits for (`CountInv`); frames are whole
and the queue is one too long only while the welcome waits for a place (`FramesInv`);
what the server routes the client has sent (`StageInv`), and what was written passed
the checks before (`TrackInv`). `FirstInv` follows the handshake through both
queues: it is why the first frame is the one that the mode's check wants. `OwnInv`
follows the client's own command: before it is routed nothing has been said of its
id, and every frame that names it then is what came of it. `CommandsAreAsAsked` goes
from the flags through JSON, the builder and husky's codec to the fields sent; its last
step is the conversion to uint32, which keeps what such a field holds
(`SensitivityConverted`) and of which nothing is claimed else.

**TestSenderProofs**: `MockIsUnderstood`, `LearnedIsDeclared`. `SenderInv` says that
the datagram on its way is of the state that the vehicle is still in. Each field of it
passes validate.go but two: the place, which is refused exactly if it is off the map
(`PlaceIsChecked`), and the heading, of which the arithmetic of the half steps
(`RoundedHeading`) leaves one that does not pass. A message that the buffer cuts is not decoded
(`ReadOfSent`, `CutIsNotDecoded`). `LearnedIsDeclared` is the safety side of
CapabilitiesAreLearned: once a heartbeat has counted, the server takes the core
commands of the vehicle's mode and no others.

**MonitoringProofs**: `QuietPagesAddUp`. The counts that the ticker takes add up
because they are of disjoint sets of vehicles (`EveryVehicleOnce`); they stay a lower
bound since the registry forgets no vehicle (`GaugesFit`); and a page that nothing
has overlapped so far has the gauges as they are, with the ticker outside its three
stores (`ReadIsCurrent`).

Every safety invariant and every action property of the passing runs is stated by a
theorem. Only model-checked: liveness and the fairness of CommandLife, which are
outside the prover (EveryCommandResolved, AcceptedIsAnswered, ImplementsCommandLife
beyond its safety, SilentGoesOffline, LoopNeverStalls, DeadConnectionsLeave,
QueuedIsBroadcast, EndsWhenTold, ToolTerminates, CapabilitiesAreLearned,
GaugesCatchUp). The two violated properties are TLC's.

## 5. What is not modelled

- *Generated protobuf code* (`*.pb.go`): generated. VehicleMessage and
  CommandMessage have the fields that the server reads and writes. It is about two
  fifths of the implementation's lines.
- *YAML, and the values of decoded extension telemetry*: read and copied by
  libraries or field by field.
- *Logging, the HTTP upgrade, the health page, the format of the metrics page*: no
  decision depends on them.
- *Code that nothing in the server calls*: Server.SendToClient, Client.setID,
  Registry.SetName, most counters of metrics.go. CancelAll and Remove are also
  uncalled but are modelled, since they take part in races that their modules'
  properties are about; so are validate.go's and translate.go's functions for
  commands, as what the router is compared with.
- *The way the mock vehicle goes*: its position may move to any neighbouring degree,
  whatever its heading and speed. Speeds that a float32 rounds, texts that are not UTF-8
  and the few bytes by which the numbers in a datagram vary are left out.
- *The content of frames in Hub*: so that a NaN, which json.Marshal refuses, is
  skipped by WritePump is not seen there.

## 6. The plan

Done, in this order, most important behaviour first: Tracker, CommandPath,
SequenceTracker, FleetRegistry, Hub, Pipeline, Extensions with CommandChecks,
VehicleMessage; the abstract specifications CommandLife and OrderedDelivery and the
refinements; CommandMessage with TestClient, Configuration, ManifestLoader and
Welcome with Startup, TestSender, Monitoring; the proofs of all modules, safety
properties first.

Left:

1. frames with content in Hub, for the frame that cannot be marshalled;
2. Registry composed with the pipeline's two queues, for heartbeats that overtake
   the first telemetry of their vehicle through another source.
