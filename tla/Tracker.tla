------------------------------ MODULE Tracker ------------------------------
(***************************************************************************)
(* The command tracker, internal/command/tracker.go: the table of commands *)
(* that wait for an answer, one time.AfterFunc timer per command, and the  *)
(* sliding-window rate limiter kept per vehicle.                           *)
(*                                                                         *)
(* Every exported method is one critical section under Tracker.mu, so it   *)
(* is one action here.  handleTimeout is not: it runs on the goroutine the *)
(* timer starts, and is three steps: the timer fires, the goroutine gets   *)
(* the lock and removes the entry, and, with the lock released, it calls   *)
(* onTimeout.  Any other method may run between those steps.               *)
(*                                                                         *)
(* A command accepted by Track is known by its index in the sequence       *)
(* `commands`, so that two uses of one commandId stay distinguishable      *)
(* where the code's map keeps only the latest.                             *)
(***************************************************************************)
EXTENDS Integers, Sequences, FiniteSets

CONSTANTS
  CommandIds,   \* the commandId strings the clients choose
  VehicleIds,   \* the target vehicles
  Timeout,      \* TrackerConfig.Timeout, in clock ticks
  RateLimit,    \* TrackerConfig.RateLimit
  RateWindow,   \* TrackerConfig.RateWindow, in clock ticks
  MaxCommands,  \* bound: how many commands are accepted in a behaviour
  MaxTime       \* bound: the last instant of the clock

(* config.Validate (internal/config/config.go) refuses CmdTimeout and      *)
(* CmdRateLimit below 1; main.go fixes RateWindow at one second.           *)
ASSUME TrackerAssumption ==
  /\ Timeout \in Nat \ {0}
  /\ RateLimit \in Nat \ {0}
  /\ RateWindow \in Nat \ {0}
  /\ MaxCommands \in Nat
  /\ MaxTime \in Nat

Indices == 1 .. MaxCommands
Absent == 0                       \* no entry in the pending map
Times == 0 .. MaxTime

VARIABLES
  now,          \* what t.now() reads
  onTimeout,    \* has SetTimeoutCallback wired a callback?
  commands,     \* the PendingCommand objects created, in order
  pending,      \* t.pending, as the index of the object it holds
  timer,        \* the state of each object's timer and of its goroutine
  rateLimiter,  \* t.rateLimiter: the commands whose timestamps it holds
  outcome       \* history: how each object left t.pending

trackerVars == <<now, onTimeout, commands, pending, timer, rateLimiter, outcome>>

PendingCommand == [CommandID : CommandIds, VehicleID : VehicleIds, SentAt : Times]

TimerState ==
  { "unset",      \* no such command yet
    "armed",      \* AfterFunc called, not expired
    "stopped",    \* Stop() came first: the goroutine will never start
    "fired",      \* the goroutine runs and has not got the lock yet
    "expiring",   \* it removed an entry and is about to call onTimeout
    "notified",   \* it called onTimeout
    "unheard",    \* there was no onTimeout to call
    "silent" }    \* it found no entry to remove

Outcome == {"open", "acknowledged", "timedout", "cancelled"}

(* The state of NewTracker's result; onTimeout is nil until main.go wires it. *)
TrackerInit ==
  /\ now = 0
  /\ onTimeout = FALSE
  /\ commands = <<>>
  /\ pending = [c \in CommandIds |-> Absent]
  /\ timer = [i \in Indices |-> "unset"]
  /\ rateLimiter = [v \in VehicleIds |-> {}]
  /\ outcome = [i \in Indices |-> "open"]

SetTimeoutCallback ==
  /\ ~onTimeout
  /\ onTimeout' = TRUE
  /\ UNCHANGED <<now, commands, pending, timer, rateLimiter, outcome>>

----------------------------------------------------------------------------
(* Rate limiting *)

(* ts.After(windowStart): the timestamp lies in the window that ends now.  *)
InWindow(i) == commands[i].SentAt > now - RateWindow

(* Mutated form: count > RateLimit instead of >=. *)
CheckRateLimitTooLate(v) == Cardinality({i \in rateLimiter[v] : InWindow(i)}) <= RateLimit

(* checkRateLimitLocked *)
CheckRateLimit(v) == Cardinality({i \in rateLimiter[v] : InWindow(i)}) < RateLimit

(* recordCommandLocked: prune what left the window, append the new one.    *)
RecordCommand(v, i) ==
  rateLimiter' = [rateLimiter EXCEPT ![v] = {j \in @ : InWindow(j)} \cup {i}]

----------------------------------------------------------------------------
(* Track: the three ways it can end *)

TrackDuplicate(c, v) ==
  /\ pending[c] # Absent
  /\ UNCHANGED trackerVars

TrackRateLimited(c, v) ==
  /\ pending[c] = Absent
  /\ ~CheckRateLimit(v)
  /\ UNCHANGED trackerVars

TrackAccepted(c, v) ==
  LET i == Len(commands) + 1 IN
  /\ i \in Indices
  /\ pending[c] = Absent
  /\ CheckRateLimit(v)
  /\ RecordCommand(v, i)
  /\ commands' = Append(commands, [CommandID |-> c, VehicleID |-> v, SentAt |-> now])
  /\ timer' = [timer EXCEPT ![i] = "armed"]
  /\ pending' = [pending EXCEPT ![c] = i]
  /\ UNCHANGED <<now, onTimeout, outcome>>

Track(c, v) ==
  \/ TrackDuplicate(c, v)
  \/ TrackRateLimited(c, v)
  \/ TrackAccepted(c, v)

----------------------------------------------------------------------------
(* Timers and handleTimeout *)

(* Mutated form: the timer's duration is one tick short. *)
TimerFiresShort(i) ==
  /\ timer[i] = "armed"
  /\ commands[i].SentAt + Timeout <= now + 1
  /\ timer' = [timer EXCEPT ![i] = "fired"]
  /\ UNCHANGED <<now, onTimeout, commands, pending, rateLimiter, outcome>>

(* The deadline of command i, set by AfterFunc, has come. *)
Expirable(i) == commands[i].SentAt + Timeout <= now

(* The runtime starts the AfterFunc goroutine at the deadline or later.    *)
TimerFires(i) ==
  /\ timer[i] = "armed"
  /\ Expirable(i)
  /\ timer' = [timer EXCEPT ![i] = "fired"]
  /\ UNCHANGED <<now, onTimeout, commands, pending, rateLimiter, outcome>>

(* Mutated form: "if !exists { return }" is missing. *)
HandleTimeoutAlwaysNotifies(i) ==
  LET c == commands[i].CommandID IN
  /\ timer[i] = "fired"
  /\ timer' = [timer EXCEPT ![i] = "expiring"]
  /\ outcome' = [j \in Indices |-> IF pending[c] = j THEN "timedout" ELSE outcome[j]]
  /\ pending' = [pending EXCEPT ![c] = Absent]
  /\ UNCHANGED <<now, onTimeout, commands, rateLimiter>>

(* The locked section.  The closure carries the commandId, not the object: *)
(* it removes whatever entry the id has by then.                           *)
HandleTimeout(i) ==
  LET c == commands[i].CommandID IN
  /\ timer[i] = "fired"
  /\ IF pending[c] # Absent
       THEN /\ timer' = [timer EXCEPT ![i] = "expiring"]
            /\ outcome' = [outcome EXCEPT ![pending[c]] = "timedout"]
            /\ pending' = [pending EXCEPT ![c] = Absent]
       ELSE /\ timer' = [timer EXCEPT ![i] = "silent"]
            /\ UNCHANGED <<pending, outcome>>
  /\ UNCHANGED <<now, onTimeout, commands, rateLimiter>>

(* Mutated form: the callback is called only when it is nil. *)
NotifyTimeoutInverted(i) ==
  /\ timer[i] = "expiring"
  /\ timer' = [timer EXCEPT ![i] = IF onTimeout THEN "unheard" ELSE "notified"]
  /\ UNCHANGED <<now, onTimeout, commands, pending, rateLimiter, outcome>>

(* After the unlock: the synthetic timeout ack goes to the callback.       *)
NotifyTimeout(i) ==
  /\ timer[i] = "expiring"
  /\ timer' = [timer EXCEPT ![i] = IF onTimeout THEN "notified" ELSE "unheard"]
  /\ UNCHANGED <<now, onTimeout, commands, pending, rateLimiter, outcome>>

----------------------------------------------------------------------------
(* Acknowledge, CancelAll and the clock *)

(* timer.Stop(): it has no effect on a timer that already fired.           *)
Stopped(i) == IF timer[i] = "armed" THEN "stopped" ELSE timer[i]

(* Mutated form: the timer is not stopped. *)
AcknowledgeFoundNoStop(c) ==
  LET i == pending[c] IN
  /\ i # Absent
  /\ outcome' = [outcome EXCEPT ![i] = "acknowledged"]
  /\ pending' = [pending EXCEPT ![c] = Absent]
  /\ UNCHANGED <<now, onTimeout, commands, timer, rateLimiter>>

AcknowledgeFound(c) ==
  LET i == pending[c] IN
  /\ i # Absent
  /\ timer' = [timer EXCEPT ![i] = Stopped(i)]
  /\ outcome' = [outcome EXCEPT ![i] = "acknowledged"]
  /\ pending' = [pending EXCEPT ![c] = Absent]
  /\ UNCHANGED <<now, onTimeout, commands, rateLimiter>>

Acknowledge(c) ==
  \/ AcknowledgeFound(c)
  \/ /\ pending[c] = Absent
     /\ UNCHANGED trackerVars

IsPending(i) == \E c \in CommandIds : pending[c] = i

(* Mutated form: the timers are stopped, the map is kept. *)
CancelAllKeepsMap ==
  /\ timer' = [i \in Indices |-> IF IsPending(i) THEN Stopped(i) ELSE timer[i]]
  /\ UNCHANGED <<now, onTimeout, commands, pending, rateLimiter, outcome>>

CancelAll ==
  /\ timer' = [i \in Indices |-> IF IsPending(i) THEN Stopped(i) ELSE timer[i]]
  /\ outcome' = [i \in Indices |-> IF IsPending(i) THEN "cancelled" ELSE outcome[i]]
  /\ pending' = [c \in CommandIds |-> Absent]
  /\ UNCHANGED <<now, onTimeout, commands, rateLimiter>>

(* Time passes.  Nothing forces a fired timer to run at its deadline: a    *)
(* goroutine can be late by any amount.                                    *)
Tick ==
  /\ now < MaxTime
  /\ now' = now + 1
  /\ UNCHANGED <<onTimeout, commands, pending, timer, rateLimiter, outcome>>

----------------------------------------------------------------------------
(* main.go wires the callback before the server accepts a client.  A call  *)
(* whose timer could not expire within the bounded clock is left out.      *)
CallTrack(c, v) ==
  /\ onTimeout
  /\ now + Timeout <= MaxTime
  /\ Track(c, v)

TimeoutGoroutine(i) ==
  \/ TimerFires(i)
  \/ HandleTimeout(i)
  \/ NotifyTimeout(i)

TrackerNext ==
  \/ SetTimeoutCallback
  \/ \E c \in CommandIds, v \in VehicleIds : CallTrack(c, v)
  \/ \E c \in CommandIds : Acknowledge(c)
  \/ \E i \in DOMAIN commands : TimeoutGoroutine(i)
  \/ CancelAll
  \/ Tick

TrackerSafety == TrackerInit /\ [][TrackerNext]_trackerVars

(* The clock advances, and a runnable goroutine is scheduled.  Callers owe *)
(* nothing: nobody has to track or acknowledge a command.                  *)
TrackerFairness ==
  /\ WF_trackerVars(Tick)
  /\ \A i \in Indices : WF_trackerVars(i \in DOMAIN commands /\ TimeoutGoroutine(i))

TrackerSpec == TrackerSafety /\ TrackerFairness

----------------------------------------------------------------------------
(* Properties *)

(* Every variable has its shape: the pending map names existing commands   *)
(* under their own id, and only existing commands have a timer.            *)
TypeOK ==
  /\ now \in Times
  /\ onTimeout \in BOOLEAN
  /\ commands \in Seq(PendingCommand)
  /\ Len(commands) <= MaxCommands
  /\ pending \in [CommandIds -> DOMAIN commands \cup {Absent}]
  /\ timer \in [Indices -> TimerState]
  /\ \A i \in Indices : timer[i] = "unset" <=> i \notin DOMAIN commands
  /\ rateLimiter \in [VehicleIds -> SUBSET DOMAIN commands]
  /\ outcome \in [Indices -> Outcome]

(* The limiter's slice is pruned on every accepted command and never       *)
(* otherwise (recordCommandLocked); still, at any instant, the timestamps  *)
(* it holds inside the window are exactly those of the vehicle's accepted  *)
(* commands: none is lost by pruning, none is counted for a rejected call. *)
LimiterExact ==
  \A v \in VehicleIds :
    {i \in rateLimiter[v] : InWindow(i)} =
      {i \in DOMAIN commands : commands[i].VehicleID = v /\ InWindow(i)}

(* "RateLimit is max commands per second per vehicle" (TrackerConfig): no  *)
(* window of that length, wherever it ends, holds more accepted commands   *)
(* of one vehicle, whatever ids were used and however they were resolved.  *)
SentInWindow(v, end) ==
  {i \in DOMAIN commands :
     /\ commands[i].VehicleID = v
     /\ end - RateWindow < commands[i].SentAt
     /\ commands[i].SentAt <= end}

RateBound ==
  \A v \in VehicleIds, end \in Times : Cardinality(SentInWindow(v, end)) <= RateLimit

(* An entry of the pending map always has a timer that will still expire,  *)
(* or a goroutine on its way to the lock: no command can be forgotten      *)
(* ("ensures the UI always gets a response", the package comment).         *)
PendingHasTimer ==
  \A c \in CommandIds :
    pending[c] # Absent =>
      /\ commands[pending[c]].CommandID = c
      /\ timer[pending[c]] \in {"armed", "fired"}
      /\ outcome[pending[c]] = "open"

(* Expiries and frames agree per commandId: as many handleTimeout calls    *)
(* reached (or are about to reach) the callback as commands left the map   *)
(* by timeout, even when a stale goroutine removed another's entry.        *)
Expired(c) == {i \in DOMAIN commands : commands[i].CommandID = c /\ outcome[i] = "timedout"}
TimeoutFrames(c) ==
  {i \in DOMAIN commands : commands[i].CommandID = c /\ timer[i] \in {"expiring", "notified"}}

OneFramePerExpiry ==
  \A c \in CommandIds : Cardinality(TimeoutFrames(c)) = Cardinality(Expired(c))

(* handleTimeout looks its entry up by id (tracker.go:160): the goroutine  *)
(* of an earlier use of the id, late for its own entry, takes this one.    *)
TookAnEntry == {j \in DOMAIN commands : timer[j] \in {"expiring", "notified", "unheard"}}

TakenByEarlierUse(i) ==
  /\ outcome[i] = "timedout"
  /\ \E j \in TookAnEntry : j < i /\ commands[j].CommandID = commands[i].CommandID

(* "Timeout is how long to wait for a vehicle ack before sending synthetic *)
(* timeout" (tracker.go:31): a command is given up before its time only by *)
(* the late goroutine of an earlier command with the same id, and so never *)
(* where ids are unique ("must be unique per command instance",            *)
(* GLOSSARY.md:80, which nothing enforces once the first use is answered). *)
TimeoutNotEarly ==
  \A i \in DOMAIN commands :
    outcome[i] = "timedout" => Expirable(i) \/ TakenByEarlierUse(i)

(* What leaves the map takes its timer along, which CancelAll relies on    *)
(* ("prevent timer goroutine leaks", tracker.go:284), with one exception,  *)
(* the same as above: a late handleTimeout deletes the entry it finds and  *)
(* stops no timer, so the timer of a command taken by an earlier use of    *)
(* its id stays armed without an entry, out of CancelAll's reach.          *)
NoOrphanTimer ==
  \A i \in DOMAIN commands :
    timer[i] = "armed" => pending[commands[i].CommandID] = i \/ TakenByEarlierUse(i)

(* Is command i the only one accepted under its commandId so far?          *)
OwnId(i) ==
  \A j \in DOMAIN commands : commands[j].CommandID = commands[i].CommandID => j = i

(* An accepted command does not wait for ever: it is acknowledged,         *)
(* cancelled, or a timeout ack for its id is handed to the callback.       *)
Resolved(i) ==
  \/ outcome[i] \in {"acknowledged", "cancelled"}
  \/ /\ outcome[i] = "timedout"
     /\ \E j \in TimeoutFrames(commands[i].CommandID) : timer[j] = "notified"

EveryCommandResolved ==
  \A i \in Indices : (i \in DOMAIN commands) ~> Resolved(i)
=============================================================================
