--------------------------- MODULE FleetRegistry ---------------------------
(***************************************************************************)
(* The vehicle registry, internal/registry/registry.go: the status machine *)
(* ONLINE / STANDBY / OFFLINE driven by telemetry and by the one-second    *)
(* ticker of cmd/tower-server/main.go, and the transition callback, which  *)
(* the registry starts on a goroutine of its own for each transition and   *)
(* which hands a status frame to the WebSocket server.                     *)
(*                                                                         *)
(* The registry shares the sequence tracker: it resets a vehicle's mark    *)
(* when the vehicle comes back from OFFLINE and when it is removed.        *)
(***************************************************************************)
EXTENDS SequenceTracker, Sequences, FiniteSets

CONSTANTS
  StandbyTimeout, OfflineTimeout,   \* Config, in ticks of the status check
  MaxLag,          \* how many ticks late the status check may run
  MaxTime,         \* bound: the last instant of the clock
  MaxTransitions   \* bound: status transitions of one vehicle

(* config.Validate *)
ASSUME RegistryAssumption ==
  /\ StandbyTimeout \in Nat \ {0}
  /\ OfflineTimeout \in Nat
  /\ OfflineTimeout > StandbyTimeout
  /\ MaxLag \in Nat /\ MaxTime \in Nat /\ MaxTransitions \in Nat

Status == {"online", "standby", "offline"}
Times == 0 .. MaxTime

VARIABLES
  now,        \* what r.now() reads
  due,        \* the ticker's channel: when its pending tick was sent, or NoTick
  vehicles,   \* r.vehicles
  notices,    \* the callback goroutines started and not yet run
  view,       \* history: the last status frame emitted for each vehicle
  moves,      \* history: how many transitions each vehicle has made
  inOrder,    \* history: have its status frames been emitted in order?
  freshMark,  \* history: has its high-water mark moved since its last OFFLINE?
  removed     \* history: the vehicles that Remove has deleted

fleetVars == <<now, due, vehicles, notices, view, moves, inOrder, freshMark, removed>>
vars == <<fleetVars, highWaterMark>>

NoTick == -1
NoFrame == "none"

NoVehicle == [known |-> FALSE, status |-> "offline", lastSeen |-> 0, capabilities |-> FALSE]
Vehicle == [known : BOOLEAN, status : Status, lastSeen : Times, capabilities : BOOLEAN]

Known(v) == vehicles[v].known
Elapsed(v) == now - vehicles[v].lastSeen

Init ==
  /\ SequenceInit
  /\ now = 0
  /\ due = NoTick
  /\ vehicles = [v \in VehicleIds |-> NoVehicle]
  /\ notices = {}
  /\ view = [v \in VehicleIds |-> NoFrame]
  /\ moves = [v \in VehicleIds |-> 0]
  /\ inOrder = [v \in VehicleIds |-> TRUE]
  /\ freshMark = [v \in VehicleIds |-> FALSE]
  /\ removed = {}

----------------------------------------------------------------------------
(* Mutated form: the frame carries the status the vehicle left. *)
NotifyTransitionsFrom(vs) ==
  /\ moves' = [v \in VehicleIds |-> IF v \in vs THEN moves[v] + 1 ELSE moves[v]]
  /\ notices' = notices \cup
       {[vehicle |-> v, to |-> vehicles[v].status, serial |-> moves[v] + 1] : v \in vs}

(* notifyTransition: `go cb(t)` for each vehicle of vs, in whatever order  *)
(* the goroutines will run.                                                *)
NotifyTransitions(vs) ==
  /\ moves' = [v \in VehicleIds |-> IF v \in vs THEN moves[v] + 1 ELSE moves[v]]
  /\ notices' = notices \cup
       {[vehicle |-> v, to |-> vehicles'[v].status, serial |-> moves[v] + 1] : v \in vs}

(* The callback runs: a status frame goes to Server.Broadcast.             *)
RunCallback(t) ==
  /\ notices' = notices \ {t}
  /\ view' = [view EXCEPT ![t.vehicle] = t.to]
  /\ inOrder' = [inOrder EXCEPT ![t.vehicle] =
       @ /\ \A u \in notices : u.vehicle = t.vehicle => t.serial <= u.serial]
  /\ UNCHANGED <<now, due, vehicles, moves, freshMark, removed, highWaterMark>>

----------------------------------------------------------------------------
(* RecordTelemetry: its four ways, by what the registry holds *)

(* A new vehicle is entered as ONLINE; the transition is returned to the   *)
(* caller, and no callback is started.                                     *)
Discover(v) ==
  /\ ~Known(v)
  /\ vehicles' = [vehicles EXCEPT ![v] =
       [known |-> TRUE, status |-> "online", lastSeen |-> now, capabilities |-> FALSE]]
  /\ UNCHANGED <<now, due, notices, view, moves, inOrder, freshMark, removed, highWaterMark>>

Seen(v) == [vehicles[v] EXCEPT !.status = "online", !.lastSeen = now]

StayOnline(v) ==
  /\ Known(v) /\ vehicles[v].status = "online"
  /\ vehicles' = [vehicles EXCEPT ![v] = Seen(v)]
  /\ UNCHANGED <<now, due, notices, view, moves, inOrder, freshMark, removed, highWaterMark>>

(* Mutated form: the mark is dropped on every return to ONLINE. *)
ResumeResets(v) ==
  /\ Known(v) /\ vehicles[v].status = "standby"
  /\ Reset(v)
  /\ vehicles' = [vehicles EXCEPT ![v] = Seen(v)]
  /\ NotifyTransitions({v})
  /\ UNCHANGED <<now, due, view, inOrder, freshMark, removed>>

(* Mutated form: telemetry from an OFFLINE vehicle does not reset the mark. *)
ReturnKeepsMark(v) ==
  /\ Known(v) /\ vehicles[v].status = "offline"
  /\ vehicles' = [vehicles EXCEPT ![v] = Seen(v)]
  /\ NotifyTransitions({v})
  /\ freshMark' = [freshMark EXCEPT ![v] = FALSE]
  /\ UNCHANGED <<now, due, view, inOrder, removed, highWaterMark>>

(* STANDBY to ONLINE keeps the high-water mark.                            *)
Resume(v) ==
  /\ Known(v) /\ vehicles[v].status = "standby"
  /\ vehicles' = [vehicles EXCEPT ![v] = Seen(v)]
  /\ NotifyTransitions({v})
  /\ UNCHANGED <<now, due, view, inOrder, freshMark, removed, highWaterMark>>

(* OFFLINE to ONLINE drops it, for a vehicle that rebooted counts from 0.  *)
Return(v) ==
  /\ Known(v) /\ vehicles[v].status = "offline"
  /\ Reset(v)
  /\ vehicles' = [vehicles EXCEPT ![v] = Seen(v)]
  /\ NotifyTransitions({v})
  /\ freshMark' = [freshMark EXCEPT ![v] = FALSE]
  /\ UNCHANGED <<now, due, view, inOrder, removed>>

RecordTelemetry(v) ==
  \/ Discover(v)
  \/ StayOnline(v)
  \/ moves[v] < MaxTransitions /\ (Resume(v) \/ Return(v))

(* The consumer of the tracker, in the order registry_test.go has it: the  *)
(* vehicle is recorded, then its packet's number is offered.               *)
OfferSeq(v, seq) ==
  /\ Known(v) /\ vehicles[v].lastSeen = now
  /\ Accept(v, seq)
  /\ freshMark' = [freshMark EXCEPT ![v] = @ \/ Accepts(v, seq)]
  /\ UNCHANGED <<now, due, vehicles, notices, view, moves, inOrder, removed>>

----------------------------------------------------------------------------
(* CheckTimeouts and its ticker *)

(* Mutated form: the silence is not compared with the OFFLINE limit. *)
AfterCheckHasty(r) ==
  IF r.known /\ r.status = "standby" THEN [r EXCEPT !.status = "offline"]
  ELSE IF r.known /\ r.status = "online" /\ now - r.lastSeen >= StandbyTimeout
    THEN [r EXCEPT !.status = "standby"]
  ELSE r

(* Mutated form: STANDBY vehicles are left where they are. *)
AfterCheckStops(r) ==
  IF r.known /\ r.status = "online" /\ now - r.lastSeen >= StandbyTimeout
    THEN [r EXCEPT !.status = "standby"]
  ELSE r

(* The switch of CheckTimeouts: one step of the machine at most.           *)
AfterCheck(r) ==
  LET silence == now - r.lastSeen IN
  IF r.known /\ r.status = "online" /\ silence >= StandbyTimeout
    THEN [r EXCEPT !.status = "standby"]
  ELSE IF r.known /\ r.status = "standby" /\ silence >= OfflineTimeout
    THEN [r EXCEPT !.status = "offline"]
  ELSE r

(* All vehicles in one critical section, on a tick of main.go's ticker.    *)
CheckTimeouts ==
  LET moved == {v \in VehicleIds : AfterCheck(vehicles[v]) # vehicles[v]} IN
  /\ due # NoTick
  /\ \A v \in moved : moves[v] < MaxTransitions
  /\ due' = NoTick
  /\ vehicles' = [v \in VehicleIds |-> AfterCheck(vehicles[v])]
  /\ NotifyTransitions(moved)
  /\ UNCHANGED <<now, view, inOrder, freshMark, removed, highWaterMark>>

(* A tick of the clock is a tick of the one-second ticker; its channel     *)
(* holds one.  The check is at most MaxLag ticks behind.                   *)
Tick ==
  /\ now < MaxTime
  /\ due # NoTick => now - due < MaxLag
  /\ now' = now + 1
  /\ due' = IF due = NoTick THEN now + 1 ELSE due
  /\ UNCHANGED <<vehicles, notices, view, moves, inOrder, freshMark, removed, highWaterMark>>

----------------------------------------------------------------------------
(* The other operations *)

(* A heartbeat's capabilities are kept for a known vehicle, and lost for   *)
(* one that sent no telemetry yet; lastSeen does not move, so a heartbeat  *)
(* ends no silence.                                                        *)
UpdateCapabilities(v) ==
  /\ IF Known(v) THEN vehicles' = [vehicles EXCEPT ![v].capabilities = TRUE]
                 ELSE UNCHANGED vehicles
  /\ UNCHANGED <<now, due, notices, view, moves, inOrder, freshMark, removed, highWaterMark>>

Remove(v) ==
  /\ vehicles' = [vehicles EXCEPT ![v] = NoVehicle]
  /\ Reset(v)
  /\ removed' = removed \cup {v}
  /\ UNCHANGED <<now, due, notices, view, moves, inOrder, freshMark>>

OtherSteps ==
  \/ Tick
  \/ CheckTimeouts
  \/ \E v \in VehicleIds :
       \/ RecordTelemetry(v)
       \/ Remove(v)
       \/ \E seq \in Seqs : OfferSeq(v, seq)
  \/ \E t \in notices : RunCallback(t)

Next == OtherSteps \/ \E v \in VehicleIds : UpdateCapabilities(v)

(* The clock advances, the ticker goroutine and the callbacks are run.     *)
(* Vehicles owe no telemetry.                                              *)
Fairness ==
  /\ WF_vars(Tick)
  /\ WF_vars(CheckTimeouts)
  /\ WF_vars(\E t \in notices : RunCallback(t))

Spec == Init /\ [][Next]_vars /\ Fairness

----------------------------------------------------------------------------
(* Properties *)

TransitionFrame == [vehicle : VehicleIds, to : Status, serial : 1 .. MaxTransitions]

(* Every variable has its shape. *)
TypeOK ==
  /\ now \in Times
  /\ due \in Times \cup {NoTick}
  /\ vehicles \in [VehicleIds -> Vehicle]
  /\ notices \subseteq TransitionFrame
  /\ view \in [VehicleIds -> Status \cup {NoFrame}]
  /\ moves \in [VehicleIds -> 0 .. MaxTransitions]
  /\ inOrder \in [VehicleIds -> BOOLEAN]
  /\ freshMark \in [VehicleIds -> BOOLEAN]
  /\ removed \subseteq VehicleIds
  /\ highWaterMark \in [VehicleIds -> Seqs \cup {NotSeen}]

(* A vehicle is STANDBY or OFFLINE only after the silence its status       *)
(* stands for, although CheckTimeouts and RecordTelemetry interleave and   *)
(* a status is derived from the one before.  Silence is the code's: "Time  *)
(* without telemetry" (registry.Config; "No telemetry for", GLOSSARY.md:35 *)
(* and 36), heartbeats or not.  The docs also say that heartbeats keep a   *)
(* vehicle ONLINE: MCFleetHeartbeat shows that they do not.                *)
SilenceIsReal ==
  \A v \in VehicleIds :
    /\ vehicles[v].known /\ vehicles[v].status = "standby" => Elapsed(v) >= StandbyTimeout
    /\ vehicles[v].known /\ vehicles[v].status = "offline" => Elapsed(v) >= OfflineTimeout

(* And a silent vehicle does not keep its status longer than the ticker    *)
(* can be late.  A check takes one step of the machine, so a vehicle that  *)
(* a late check finds past both limits needs one more tick and its lag.    *)
Latest(a, b) == IF a > b THEN a ELSE b
StandbyLatest == Latest(OfflineTimeout, StandbyTimeout + MaxLag + 1) + MaxLag

StatusIsFresh ==
  \A v \in VehicleIds :
    /\ vehicles[v].known /\ vehicles[v].status = "online" =>
         Elapsed(v) <= StandbyTimeout + MaxLag
    /\ vehicles[v].known /\ vehicles[v].status = "standby" =>
         Elapsed(v) <= StandbyLatest

(* A status says how long the vehicle has sent no telemetry, from both     *)
(* sides.                                                                  *)
StatusMeansSilence == TypeOK /\ SilenceIsReal /\ StatusIsFresh

(* "The registry MUST call SequenceTracker.Reset on every offline ->       *)
(* online transition" (PROTOCOL.md:90): no high-water mark outlives an     *)
(* OFFLINE period, or a rebooted vehicle's packets would be dropped.       *)
MarkIsSinceReturn ==
  \A v \in VehicleIds : highWaterMark[v] # NotSeen => freshMark[v]

(* Nothing else drops it: after a STANDBY gap duplicates are still known   *)
(* (TestStandbyToOnlineDoesNotResetSequence).                              *)
MarkLostOnlyOnReturn ==
  [][\A v \in VehicleIds :
       highWaterMark[v] # NotSeen /\ highWaterMark'[v] = NotSeen =>
         \/ vehicles[v].status = "offline" /\ vehicles'[v].status = "online"
         \/ ~vehicles'[v].known]_vars

(* The callbacks run on goroutines of their own, so the status frames of a *)
(* vehicle can be emitted out of order.  When they were not, and none is   *)
(* outstanding, the last frame emitted says what the registry holds.       *)
ViewIsCurrent ==
  \A v \in VehicleIds \ removed :
    inOrder[v] /\ moves[v] > 0 /\ (\A t \in notices : t.vehicle # v) =>
      view[v] = vehicles[v].status

(* A vehicle whose telemetry stops becomes OFFLINE, unless it is removed;  *)
(* also when it goes on sending heartbeats, against PROTOCOL.md:128.       *)
(* Bounds: the clock must reach the last check, and transitions be left.   *)
SilentFrom(v, t) ==
  /\ Known(v) /\ vehicles[v].lastSeen = t /\ moves[v] + 2 <= MaxTransitions
  /\ vehicles[v].status = "online"
SilentGoesOffline ==
  \A v \in VehicleIds, t \in Times :
    t + StandbyLatest + 1 <= MaxTime =>
      (SilentFrom(v, t) ~> \/ vehicles[v].status = "offline"
                           \/ vehicles[v].lastSeen # t
                           \/ ~Known(v))
=============================================================================
