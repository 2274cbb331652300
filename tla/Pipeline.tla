------------------------------ MODULE Pipeline ------------------------------
(***************************************************************************)
(* The telemetry pipeline of cmd/tower-server/main.go and                  *)
(* internal/telemetry/multicast.go: one receiving goroutine and one fan-in *)
(* goroutine per multicast source, a shared channel, the goroutine that    *)
(* closes it when all sources have returned, and the consumer that updates *)
(* the registry and broadcasts.                                            *)
(*                                                                         *)
(* A datagram is known by its place in the order of arrival; `arrived`     *)
(* says what it carries.  The network may deliver the same packet twice.   *)
(***************************************************************************)
EXTENDS VehicleMessage, Sequences, FiniteSets

CONSTANTS
  Sources,        \* the configured multicast sources
  Messages,       \* what a datagram may carry
  SourceBuffer,   \* capacity of a source's own channel, 50 in the code
  SharedBuffer,   \* capacity of telemetryFrames, 100 in the code
  MaxArrivals     \* bound: datagrams that arrive

ASSUME PipelineAssumption ==
  SourceBuffer \in Nat \ {0} /\ SharedBuffer \in Nat \ {0} /\ MaxArrivals \in Nat

ASSUME MessageAssumption == Messages \subseteq Message

VARIABLES
  cancelled,      \* is ctx done?
  source,         \* each Start: "starting", "reading", "returned"
  sourceCh,       \* its channel
  fan,            \* each fan-in: the frame it holds, or what it does
  frames,         \* the channel telemetryFrames
  framesClosed,   \* has it been closed?
  consumer,       \* the frame to be broadcast, or what it does
  known,          \* the vehicles in the registry
  panicked,       \* a send on a closed channel ended the process
  arrived,        \* history: the frames decoded and their sources, in order of arrival
  broadcasts      \* history: the frames given to Server.Broadcast, in order

pipelineVars == <<cancelled, source, sourceCh, fan, frames, framesClosed, consumer, known,
                  panicked, arrived, broadcasts>>

Decoded ==
  [source : Sources,
   frame : {DecodeVehicleMessage(r) : r \in UNION {Received(m) : m \in Messages}} \ {NoFrame}]
Arrivals == 1 .. MaxArrivals

Receiving == 0      \* a goroutine that waits for its channel
Gone == -1          \* a goroutine that has returned

PipelineInit ==
  /\ cancelled = FALSE
  /\ source = [s \in Sources |-> "starting"]
  /\ sourceCh = [s \in Sources |-> <<>>]
  /\ fan = [s \in Sources |-> Receiving]
  /\ frames = <<>>
  /\ framesClosed = FALSE
  /\ consumer = Receiving
  /\ known = {}
  /\ panicked = FALSE
  /\ arrived = <<>>
  /\ broadcasts = <<>>

Cancel ==
  /\ ~cancelled
  /\ cancelled' = TRUE
  /\ UNCHANGED <<source, sourceCh, fan, frames, framesClosed, consumer, known, panicked,
                 arrived, broadcasts>>

----------------------------------------------------------------------------
(* MulticastSource.Start; its deferred close is told by source = "returned" *)

SourceOnly == UNCHANGED <<cancelled, fan, frames, framesClosed, consumer, known, panicked,
                          broadcasts>>

(* Resolve, listen, join: any of them may fail. *)
SourceStarts(s) ==
  /\ source[s] = "starting"
  /\ source' = [source EXCEPT ![s] = "reading"]
  /\ UNCHANGED <<sourceCh, arrived>>
  /\ SourceOnly

SourceFails(s) ==
  /\ source[s] = "starting"
  /\ source' = [source EXCEPT ![s] = "returned"]
  /\ UNCHANGED <<sourceCh, arrived>>
  /\ SourceOnly

(* A datagram is read, cut if it is too long.  One that decodes is queued, *)
(* or dropped when the queue is full; one that does not leaves no trace.   *)
(* The read has no deadline: it may still succeed after ctx is done.       *)
SourceReceives(s, m) ==
  /\ source[s] = "reading"
  /\ Len(arrived) < MaxArrivals
  /\ \E r \in Received(m) :
       LET f == DecodeVehicleMessage(r) IN
       /\ f # NoFrame
       /\ arrived' = Append(arrived, [source |-> s, frame |-> f])
  /\ sourceCh' = IF Len(sourceCh[s]) < SourceBuffer
                   THEN [sourceCh EXCEPT ![s] = Append(@, Len(arrived) + 1)]
                   ELSE sourceCh
  /\ UNCHANGED source
  /\ SourceOnly

(* ctx is looked at between two reads only. *)
SourceReturns(s) ==
  /\ source[s] = "reading"
  /\ cancelled
  /\ source' = [source EXCEPT ![s] = "returned"]
  /\ UNCHANGED <<sourceCh, arrived>>
  /\ SourceOnly

----------------------------------------------------------------------------
(* Fan-in *)

FanOnly == UNCHANGED <<cancelled, source, framesClosed, consumer, known, arrived, broadcasts>>

(* Mutated form: the frame stays in the source's channel. *)
FanPeeks(s) ==
  /\ fan[s] = Receiving
  /\ sourceCh[s] # <<>>
  /\ fan' = [fan EXCEPT ![s] = Head(sourceCh[s])]
  /\ UNCHANGED <<sourceCh, frames, panicked>>
  /\ FanOnly

FanTakes(s) ==
  /\ fan[s] = Receiving
  /\ sourceCh[s] # <<>>
  /\ fan' = [fan EXCEPT ![s] = Head(sourceCh[s])]
  /\ sourceCh' = [sourceCh EXCEPT ![s] = Tail(@)]
  /\ UNCHANGED <<frames, panicked>>
  /\ FanOnly

(* Mutated form: the frame is dropped when the shared channel is full. *)
FanForwardsOrDrops(s) ==
  /\ fan[s] \in Arrivals
  /\ IF framesClosed THEN panicked' = TRUE /\ UNCHANGED <<frames, fan>>
     ELSE /\ frames' = IF Len(frames) < SharedBuffer THEN Append(frames, fan[s]) ELSE frames
          /\ fan' = [fan EXCEPT ![s] = Receiving]
          /\ UNCHANGED panicked
  /\ UNCHANGED sourceCh
  /\ FanOnly

(* It waits for room.  On a closed channel the send panics. *)
FanForwards(s) ==
  /\ fan[s] \in Arrivals
  /\ IF framesClosed THEN panicked' = TRUE /\ UNCHANGED <<frames, fan>>
     ELSE /\ Len(frames) < SharedBuffer
          /\ frames' = Append(frames, fan[s])
          /\ fan' = [fan EXCEPT ![s] = Receiving]
          /\ UNCHANGED panicked
  /\ UNCHANGED sourceCh
  /\ FanOnly

(* ctx is done while it forwards, or its source's channel closed and is    *)
(* drained.                                                                *)
FanReturns(s) ==
  /\ \/ fan[s] \in Arrivals /\ cancelled
     \/ fan[s] = Receiving /\ source[s] = "returned" /\ sourceCh[s] = <<>>
  /\ fan' = [fan EXCEPT ![s] = Gone]
  /\ UNCHANGED <<sourceCh, frames, panicked>>
  /\ FanOnly

----------------------------------------------------------------------------
(* Mutated form: the first source that returns closes the channel. *)
CloseFramesEarly ==
  /\ ~framesClosed
  /\ \E s \in Sources : source[s] = "returned"
  /\ framesClosed' = TRUE
  /\ UNCHANGED <<cancelled, source, sourceCh, fan, frames, consumer, known, panicked,
                 arrived, broadcasts>>

(* sourceWg.Wait counts the sources, not the fan-in goroutines. *)
CloseFrames ==
  /\ ~framesClosed
  /\ \A s \in Sources : source[s] = "returned"
  /\ framesClosed' = TRUE
  /\ UNCHANGED <<cancelled, source, sourceCh, fan, frames, consumer, known, panicked,
                 arrived, broadcasts>>

----------------------------------------------------------------------------
(* The consumer *)

ConsumerOnly == UNCHANGED <<cancelled, source, sourceCh, fan, framesClosed, panicked, arrived>>

(* Mutated form: the registry is told after the broadcast, or never. *)
ConsumerTakesOnly ==
  /\ consumer = Receiving
  /\ frames # <<>>
  /\ consumer' = Head(frames)
  /\ frames' = Tail(frames)
  /\ UNCHANGED <<known, broadcasts>>
  /\ ConsumerOnly

(* A telemetry frame is recorded (module FleetRegistry); a heartbeat's     *)
(* capabilities do not make a vehicle known.                               *)
ConsumerTakes ==
  /\ consumer = Receiving
  /\ frames # <<>>
  /\ consumer' = Head(frames)
  /\ frames' = Tail(frames)
  /\ LET f == arrived[Head(frames)].frame IN
     known' = IF f.type = "telemetry" THEN known \cup {f.vehicleId} ELSE known
  /\ UNCHANGED broadcasts
  /\ ConsumerOnly

(* Any frame is broadcast, whatever its sequence number. *)
ConsumerBroadcasts ==
  /\ consumer \in Arrivals
  /\ broadcasts' = Append(broadcasts, consumer)
  /\ consumer' = Receiving
  /\ UNCHANGED <<frames, known>>
  /\ ConsumerOnly

ConsumerReturns ==
  /\ consumer = Receiving
  /\ framesClosed /\ frames = <<>>
  /\ consumer' = Gone
  /\ UNCHANGED <<frames, known, broadcasts>>
  /\ ConsumerOnly

----------------------------------------------------------------------------
FanStep(s) == FanTakes(s) \/ FanForwards(s) \/ FanReturns(s)
ConsumerStep == ConsumerTakes \/ ConsumerBroadcasts \/ ConsumerReturns

Running(A) == ~panicked /\ A

PipelineNext ==
  \/ Running(Cancel)
  \/ Running(CloseFrames)
  \/ Running(ConsumerStep)
  \/ \E s \in Sources :
       \/ Running(SourceStarts(s))
       \/ Running(SourceFails(s))
       \/ Running(SourceReturns(s))
       \/ Running(FanStep(s))
       \/ \E m \in Messages : Running(SourceReceives(s, m))

PipelineSafety == PipelineInit /\ [][PipelineNext]_pipelineVars

(* The goroutines that can run do; the network owes no datagram, and a     *)
(* source blocked in its read need not return.                             *)
PipelineSpec ==
  /\ PipelineSafety
  /\ \A s \in Sources : WF_pipelineVars(Running(FanStep(s)))
  /\ WF_pipelineVars(Running(ConsumerStep))

----------------------------------------------------------------------------
(* Properties *)

(* Every variable has its shape; channels keep their capacity. *)
PipelineTypeOK ==
  /\ cancelled \in BOOLEAN /\ framesClosed \in BOOLEAN /\ panicked \in BOOLEAN
  /\ source \in [Sources -> {"starting", "reading", "returned"}]
  /\ \A s \in Sources : sourceCh[s] \in Seq(Arrivals) /\ Len(sourceCh[s]) <= SourceBuffer
  /\ fan \in [Sources -> Arrivals \cup {Receiving, Gone}]
  /\ frames \in Seq(Arrivals) /\ Len(frames) <= SharedBuffer
  /\ consumer \in Arrivals \cup {Receiving, Gone}
  /\ known \subseteq Vehicles
  /\ arrived \in Seq(Decoded) /\ Len(arrived) <= MaxArrivals
  /\ broadcasts \in Seq(DOMAIN arrived)

(* Frames of one source are broadcast in the order they arrived and no     *)
(* more than once, although every source has its own goroutines and drops. *)
SourceOrderKept ==
  \A i, j \in DOMAIN broadcasts :
    i < j /\ arrived[broadcasts[i]].source = arrived[broadcasts[j]].source
      => broadcasts[i] < broadcasts[j]

(* A vehicle whose telemetry was broadcast is in the registry: a command   *)
(* sent on seeing it is not refused as for an unknown vehicle.             *)
RecordedBeforeBroadcast ==
  \A i \in DOMAIN broadcasts :
    LET f == arrived[broadcasts[i]].frame IN
    f.type = "telemetry" => f.vehicleId \in known

(* What frame.go promises of a frame holds for every frame broadcast: what *)
(* a vehicle sent out of range, or without what its kind needs, is stopped *)
(* before it is translated, also in a datagram that was cut on its way in. *)
FramesAreValid ==
  \A i \in DOMAIN broadcasts : FrameIsValid(arrived[broadcasts[i]].frame)

(* A source that cannot start does not take the others with it: the shared *)
(* channel is not closed under a goroutine that forwards, before shutdown. *)
NoPanicInService == ~cancelled => ~panicked

(* What a source queued is broadcast, unless the server stops: past the    *)
(* first queue nothing is dropped, and the death of another source changes *)
(* nothing.                                                                *)
Queued(n) == \E s \in Sources : \E i \in DOMAIN sourceCh[s] : sourceCh[s][i] = n

QueuedIsBroadcast ==
  \A n \in Arrivals :
    Queued(n) ~> (cancelled \/ \E i \in DOMAIN broadcasts : broadcasts[i] = n)
=============================================================================
