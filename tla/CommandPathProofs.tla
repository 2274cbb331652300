-------------------------- MODULE CommandPathProofs --------------------------
(***************************************************************************)
(* Theorems about modules Tracker and CommandPath, for every set of        *)
(* clients, commands, capabilities and ids, and every timeout, limit and   *)
(* window: what the tracker alone keeps true, what Route, run by any       *)
(* number of goroutines beside timers, Start and Stop, keeps true of the   *)
(* commands it tracked, what its capability check lets through, and that   *)
(* it implements CommandLife's safety part.                                *)
(***************************************************************************)
EXTENDS CommandPath, FiniteSetTheorems, TLAPS

----------------------------------------------------------------------------
(* The tracker, whoever calls it *)

(* What the tracker's own code can do in one step, whoever calls it: one   *)
(* case per critical section.  Every invariance proof below splits on      *)
(* these, here and where a router calls the tracker.                       *)
CriticalSection ==
  \/ UNCHANGED trackerVars
  \/ SetTimeoutCallback
  \/ \E c \in CommandIds, v \in VehicleIds : TrackAccepted(c, v)
  \/ \E c \in CommandIds : AcknowledgeFound(c)
  \/ \E i \in DOMAIN commands : TimerFires(i)
  \/ \E i \in DOMAIN commands : HandleTimeout(i)
  \/ \E i \in DOMAIN commands : NotifyTimeout(i)
  \/ CancelAll
  \/ Tick

(* A step of the tracker alone is one of them.                             *)
LEMMA StepCases == [TrackerNext]_trackerVars => CriticalSection
  BY DEF CriticalSection, TrackerNext, CallTrack, Track, TrackDuplicate, TrackRateLimited,
         Acknowledge, TimeoutGoroutine

(* Append leaves the commands already there in place.                      *)
LEMMA AppendedCommand ==
  ASSUME TypeOK, NEW c \in CommandIds, NEW v \in VehicleIds, TrackAccepted(c, v)
  PROVE  /\ commands' \in Seq(PendingCommand)
         /\ Len(commands) \in Nat
         /\ Len(commands') = Len(commands) + 1
         /\ Len(commands') \in Indices
         /\ DOMAIN commands' = DOMAIN commands \cup {Len(commands) + 1}
         /\ Len(commands) + 1 \notin DOMAIN commands
         /\ DOMAIN commands \subseteq Indices
         /\ \A i \in DOMAIN commands : commands'[i] = commands[i]
         /\ commands'[Len(commands) + 1] = [CommandID |-> c, VehicleID |-> v, SentAt |-> now]
PROOF
  <1>1. commands \in Seq(PendingCommand) /\ now \in Times /\ Len(commands) <= MaxCommands
    BY DEF TypeOK
  <1>2. commands' = Append(commands, [CommandID |-> c, VehicleID |-> v, SentAt |-> now])
    BY DEF TrackAccepted
  <1>3. [CommandID |-> c, VehicleID |-> v, SentAt |-> now] \in PendingCommand
    BY <1>1 DEF PendingCommand
  <1>4. Len(commands) + 1 \in Indices
    BY DEF TrackAccepted
  <1> HIDE DEF PendingCommand
  <1> QED BY <1>1, <1>2, <1>3, <1>4, TrackerAssumption DEF Indices

(* NewTracker's result has the types.                                      *)
LEMMA TypeOKInit == TrackerInit => TypeOK
PROOF
  <1> SUFFICES ASSUME TrackerInit PROVE TypeOK
    OBVIOUS
  <1>1. /\ commands \in Seq(PendingCommand)
        /\ Len(commands) = 0
        /\ DOMAIN commands = {}
    BY DEF TrackerInit
  <1>2. 0 <= MaxCommands /\ Len(commands) <= MaxCommands
    BY <1>1, TrackerAssumption
  <1>3. now \in Times
    BY TrackerAssumption DEF TrackerInit, Times
  <1>3a. onTimeout \in BOOLEAN
    BY DEF TrackerInit
  <1>4. pending \in [CommandIds -> DOMAIN commands \cup {Absent}]
    BY DEF TrackerInit
  <1>5. /\ timer \in [Indices -> TimerState]
        /\ outcome \in [Indices -> Outcome]
    BY DEF TrackerInit, TimerState, Outcome
  <1>6. \A i \in Indices : timer[i] = "unset" <=> i \notin DOMAIN commands
    BY <1>1 DEF TrackerInit
  <1>7. rateLimiter \in [VehicleIds -> SUBSET DOMAIN commands]
    BY DEF TrackerInit
  <1> QED BY <1>1, <1>2, <1>3, <1>3a, <1>4, <1>5, <1>6, <1>7 DEF TypeOK

(* Every critical section and every step of a timeout goroutine keeps the  *)
(* types; one case per action.                                             *)
LEMMA TypeOKStep == TypeOK /\ CriticalSection => TypeOK'
PROOF
  <1> SUFFICES ASSUME TypeOK, CriticalSection PROVE TypeOK'
    OBVIOUS
  <1>0. DOMAIN commands \subseteq Indices
    BY TrackerAssumption DEF TypeOK, Indices
  <1>1. CASE UNCHANGED trackerVars
    BY <1>1 DEF trackerVars, TypeOK
  <1>2. CASE SetTimeoutCallback
    BY <1>2 DEF SetTimeoutCallback, TypeOK
  <1>3. CASE \E c \in CommandIds, v \in VehicleIds : TrackAccepted(c, v)
    <2> PICK c \in CommandIds, v \in VehicleIds : TrackAccepted(c, v)
      BY <1>3
    <2> DEFINE n == Len(commands) + 1
    <2>1. /\ now' \in Times
          /\ onTimeout' \in BOOLEAN
          /\ outcome' \in [Indices -> Outcome]
      BY DEF TypeOK, TrackAccepted
    <2>2. commands' \in Seq(PendingCommand) /\ Len(commands') \in Indices
      BY AppendedCommand
    <2>2a. Len(commands') <= MaxCommands
      BY <2>2, TrackerAssumption DEF Indices
    <2>3. pending' \in [CommandIds -> DOMAIN commands' \cup {Absent}]
      BY AppendedCommand DEF TypeOK, TrackAccepted
    <2>4. timer' \in [Indices -> TimerState]
      BY DEF TypeOK, TrackAccepted, TimerState
    <2>5. \A i \in Indices : timer'[i] = "unset" <=> i \notin DOMAIN commands'
      BY AppendedCommand DEF TypeOK, TrackAccepted
    <2>6. rateLimiter' \in [VehicleIds -> SUBSET DOMAIN commands']
      BY AppendedCommand DEF TypeOK, TrackAccepted, RecordCommand
    <2> QED BY <2>1, <2>2, <2>2a, <2>3, <2>4, <2>5, <2>6 DEF TypeOK
  <1>4. CASE \E c \in CommandIds : AcknowledgeFound(c)
    <2> PICK c \in CommandIds : AcknowledgeFound(c)
      BY <1>4
    <2>1. pending[c] \in DOMAIN commands /\ pending[c] \in Indices
      BY <1>0 DEF TypeOK, AcknowledgeFound
    <2>2. timer' \in [Indices -> TimerState]
      BY <2>1 DEF TypeOK, AcknowledgeFound, Stopped, TimerState
    <2>3. \A i \in Indices : timer'[i] = "unset" <=> timer[i] = "unset"
      BY <2>1 DEF TypeOK, AcknowledgeFound, Stopped
    <2>4. outcome' \in [Indices -> Outcome]
      BY <2>1 DEF TypeOK, AcknowledgeFound, Outcome
    <2>5. pending' \in [CommandIds -> DOMAIN commands \cup {Absent}]
      BY DEF TypeOK, AcknowledgeFound
    <2> QED BY <2>2, <2>3, <2>4, <2>5 DEF TypeOK, AcknowledgeFound
  <1>5. CASE \E i \in DOMAIN commands : TimerFires(i)
    BY <1>0, <1>5 DEF TimerFires, TypeOK, TimerState
  <1>6. CASE \E i \in DOMAIN commands : HandleTimeout(i)
    <2> PICK i \in DOMAIN commands : HandleTimeout(i)
      BY <1>6
    <2> DEFINE c == commands[i].CommandID
    <2>1. commands[i] \in PendingCommand
      BY DEF TypeOK
    <2>1a. c \in CommandIds
      BY <2>1 DEF PendingCommand
    <2>2. CASE pending[c] # Absent
      <3>1. pending[c] \in Indices
        BY <1>0, <2>1a, <2>2 DEF TypeOK
      <3>2. timer' \in [Indices -> TimerState]
        BY <1>0, <2>2 DEF TypeOK, HandleTimeout, TimerState
      <3>3. \A j \in Indices : timer'[j] = "unset" <=> timer[j] = "unset"
        BY <1>0, <2>2 DEF TypeOK, HandleTimeout
      <3>4. outcome' \in [Indices -> Outcome]
        BY <2>2, <3>1 DEF TypeOK, HandleTimeout, Outcome
      <3>5. pending' \in [CommandIds -> DOMAIN commands \cup {Absent}]
        BY <2>2 DEF TypeOK, HandleTimeout
      <3> QED BY <3>2, <3>3, <3>4, <3>5 DEF TypeOK, HandleTimeout
    <2>3. CASE pending[c] = Absent
      BY <1>0, <2>3 DEF TypeOK, HandleTimeout, TimerState
    <2> QED BY <2>2, <2>3
  <1>7. CASE \E i \in DOMAIN commands : NotifyTimeout(i)
    BY <1>0, <1>7 DEF NotifyTimeout, TypeOK, TimerState
  <1>8. CASE CancelAll
    <2>1. timer' \in [Indices -> TimerState]
      BY <1>8 DEF TypeOK, CancelAll, Stopped, TimerState
    <2>2. \A i \in Indices : timer'[i] = "unset" <=> timer[i] = "unset"
      BY <1>8 DEF CancelAll, Stopped
    <2>3. outcome' \in [Indices -> Outcome]
      BY <1>8 DEF TypeOK, CancelAll, Outcome
    <2> QED BY <1>8, <2>1, <2>2, <2>3 DEF TypeOK, CancelAll
  <1>9. CASE Tick
    BY <1>9, TrackerAssumption DEF Tick, TypeOK, Times
  <1> QED BY <1>1, <1>2, <1>3, <1>4, <1>5, <1>6, <1>7, <1>8, <1>9 DEF CriticalSection

(* Type correctness: in particular the pending map names only existing     *)
(* commands, and only existing commands have a timer.                      *)
THEOREM TypeCorrect == TrackerSafety => []TypeOK
  BY TypeOKInit, StepCases, TypeOKStep, PTL DEF TrackerSafety

----------------------------------------------------------------------------
(* The rate limiter *)

(* The strengthening RateBound needs: the clock is past every timestamp,   *)
(* and the limiter holds exactly the window that ends now.                 *)
SentBefore == \A i \in DOMAIN commands : commands[i].SentAt <= now

LimiterInv == SentBefore /\ LimiterExact /\ RateBound

(* Everything but Track and Tick leaves what the limiter reads alone.      *)
LEMMA LimiterUntouched ==
  ASSUME TypeOK, LimiterInv, UNCHANGED <<now, commands, rateLimiter>>
  PROVE  LimiterInv'
  BY DEF LimiterInv, SentBefore, LimiterExact, RateBound, InWindow, SentInWindow

(* The fields of an accepted command.                                      *)
LEMMA CommandFields ==
  ASSUME TypeOK, NEW i \in DOMAIN commands
  PROVE  /\ commands[i].CommandID \in CommandIds
         /\ commands[i].VehicleID \in VehicleIds
         /\ commands[i].SentAt \in Nat
PROOF
  <1>1. commands[i] \in PendingCommand
    BY DEF TypeOK
  <1> QED BY <1>1, TrackerAssumption DEF PendingCommand, Times

(* The clock only moves commands out of the window, never into it.         *)
LEMMA LimiterTick ==
  ASSUME TypeOK, LimiterInv, Tick
  PROVE  LimiterInv'
PROOF
  <1>1. /\ now \in Nat /\ now' = now + 1 /\ RateWindow \in Nat
        /\ commands' = commands /\ rateLimiter' = rateLimiter
    BY TrackerAssumption DEF TypeOK, Tick, Times
  <1>2. SentBefore'
    BY <1>1, CommandFields DEF LimiterInv, SentBefore
  <1>3. \A i \in DOMAIN commands : InWindow(i)' => InWindow(i)
    BY <1>1, CommandFields DEF InWindow
  <1>4. LimiterExact'
    <2> SUFFICES ASSUME NEW v \in VehicleIds
                 PROVE  {i \in rateLimiter[v] : InWindow(i)'} =
                          {i \in DOMAIN commands : commands[i].VehicleID = v /\ InWindow(i)'}
      BY <1>1 DEF LimiterExact, InWindow
    <2>1. rateLimiter[v] \subseteq DOMAIN commands
      BY DEF TypeOK
    <2>2. {i \in rateLimiter[v] : InWindow(i)} =
            {i \in DOMAIN commands : commands[i].VehicleID = v /\ InWindow(i)}
      BY DEF LimiterInv, LimiterExact
    <2> QED BY <1>3, <2>1, <2>2
  <1>5. RateBound'
    BY <1>1 DEF LimiterInv, RateBound, SentInWindow
  <1> QED BY <1>2, <1>4, <1>5 DEF LimiterInv

(* An accepted Track prunes what left the window, adds its own command and *)
(* finds less than RateLimit before it.                                    *)
LEMMA LimiterTrack ==
  ASSUME TypeOK, LimiterInv, NEW c \in CommandIds, NEW v \in VehicleIds, TrackAccepted(c, v)
  PROVE  LimiterInv'
PROOF
  <1> DEFINE n == Len(commands) + 1
  <1>1. /\ now \in Nat /\ now' = now
        /\ RateWindow \in Nat /\ RateWindow > 0
        /\ RateLimit \in Nat
    BY TrackerAssumption DEF TypeOK, TrackAccepted, Times
  <1>2. /\ DOMAIN commands' = DOMAIN commands \cup {n}
        /\ n \notin DOMAIN commands
        /\ \A i \in DOMAIN commands : commands'[i] = commands[i]
        /\ commands'[n] = [CommandID |-> c, VehicleID |-> v, SentAt |-> now]
    BY AppendedCommand
  <1>3. /\ commands'[n].VehicleID = v
        /\ commands'[n].SentAt = now
    BY <1>2
  <1>4. SentBefore'
    BY <1>1, <1>2, <1>3 DEF LimiterInv, SentBefore
  <1>5. /\ \A i \in DOMAIN commands : InWindow(i)' <=> InWindow(i)
        /\ \A i : i = n => InWindow(i)'
    BY <1>1, <1>2, <1>3 DEF InWindow
  <1>6. rateLimiter' = [rateLimiter EXCEPT ![v] = {j \in @ : InWindow(j)} \cup {n}]
    BY DEF TrackAccepted, RecordCommand
  <1>7. \A w \in VehicleIds : rateLimiter[w] \subseteq DOMAIN commands
    BY DEF TypeOK
  <1>8. LimiterExact'
    <2> SUFFICES ASSUME NEW w \in VehicleIds
                 PROVE  {i \in rateLimiter'[w] : InWindow(i)'} =
                          {i \in DOMAIN commands' : commands'[i].VehicleID = w /\ InWindow(i)'}
      BY DEF LimiterExact
    <2>1. {i \in rateLimiter[w] : InWindow(i)} =
            {i \in DOMAIN commands : commands[i].VehicleID = w /\ InWindow(i)}
      BY DEF LimiterInv, LimiterExact
    <2>2. CASE w = v
      <3>1. rateLimiter'[w] = {j \in rateLimiter[w] : InWindow(j)} \cup {n}
        BY <1>6, <2>2 DEF TypeOK
      <3> QED BY <1>2, <1>3, <1>5, <1>7, <2>1, <2>2, <3>1
    <2>3. CASE w # v
      <3>1. rateLimiter'[w] = rateLimiter[w]
        BY <1>6, <2>3 DEF TypeOK
      <3> QED BY <1>2, <1>3, <1>5, <1>7, <2>1, <2>3, <3>1
    <2> QED BY <2>2, <2>3
  <1>9. RateBound'
    <2> SUFFICES ASSUME NEW w \in VehicleIds, NEW end \in Times
                 PROVE  Cardinality(SentInWindow(w, end)') <= RateLimit
      BY DEF RateBound
    <2>1. Cardinality(SentInWindow(w, end)) <= RateLimit
      BY DEF LimiterInv, RateBound
    <2>2. end \in Nat
      BY TrackerAssumption DEF Times
    <2>3. CASE w = v /\ now <= end
      (* The new command counts: the window holds it and what the limiter held. *)
      <3> DEFINE live == {i \in rateLimiter[v] : InWindow(i)}
      <3>1. Cardinality(live) < RateLimit
        BY DEF TrackAccepted, CheckRateLimit
      <3>2. live = {i \in DOMAIN commands : commands[i].VehicleID = v /\ InWindow(i)}
        BY DEF LimiterInv, LimiterExact
      <3>3. IsFiniteSet(live)
        <4>1. DOMAIN commands = 1 .. Len(commands) /\ Len(commands) \in Nat
          BY DEF TypeOK
        <4>2. IsFiniteSet(DOMAIN commands)
          BY <4>1, FS_Interval
        <4> QED BY <3>2, <4>2, FS_Subset
      <3>4. SentInWindow(w, end)' \subseteq live \cup {n}
        <4> SUFFICES ASSUME NEW i \in SentInWindow(w, end)', i # n
                     PROVE  i \in live
          OBVIOUS
        <4>1. /\ i \in DOMAIN commands
              /\ commands[i].VehicleID = v
              /\ end - RateWindow < commands[i].SentAt
          BY <1>2, <2>3 DEF SentInWindow
        <4>2. commands[i].SentAt \in Nat
          BY <4>1, CommandFields
        <4>3. InWindow(i)
          BY <1>1, <2>2, <2>3, <4>1, <4>2 DEF InWindow
        <4> QED BY <3>2, <4>1, <4>3
      <3>5. n \notin live
        BY <1>2, <3>2
      <3>6. IsFiniteSet(live \cup {n}) /\ Cardinality(live \cup {n}) = Cardinality(live) + 1
        BY <3>3, <3>5, FS_AddElement
      <3>7. Cardinality(SentInWindow(w, end)') <= Cardinality(live \cup {n})
        BY <3>4, <3>6, FS_Subset
      <3>8. /\ Cardinality(live) \in Nat
            /\ Cardinality(SentInWindow(w, end)') \in Nat
        <4>1. IsFiniteSet(SentInWindow(w, end)')
          BY <3>4, <3>6, FS_Subset
        <4> QED BY <3>3, <4>1, FS_CardinalityType
      <3> HIDE DEF live
      <3> QED BY <1>1, <3>1, <3>6, <3>7, <3>8
    <2>4. CASE ~(w = v /\ now <= end)
      (* The new command is another vehicle's, or lies after the window. *)
      <3>1. SentInWindow(w, end)' = SentInWindow(w, end)
        BY <1>1, <1>2, <1>3, <2>2, <2>4 DEF SentInWindow
      <3> QED BY <2>1, <3>1
    <2> QED BY <2>3, <2>4
  <1> QED BY <1>4, <1>8, <1>9 DEF LimiterInv

(* An empty limiter agrees with no command.                                *)
LEMMA LimiterInit == TrackerInit => LimiterInv
PROOF
  <1> SUFFICES ASSUME TrackerInit PROVE LimiterInv
    OBVIOUS
  <1>1. DOMAIN commands = {}
    BY DEF TrackerInit
  <1>2. SentBefore /\ LimiterExact
    BY <1>1 DEF SentBefore, LimiterExact, TrackerInit
  <1>3. \A v \in VehicleIds, end \in Times : SentInWindow(v, end) = {}
    BY <1>1 DEF SentInWindow
  <1>4. RateBound
    BY <1>3, FS_EmptySet, TrackerAssumption DEF RateBound
  <1> QED BY <1>2, <1>4 DEF LimiterInv

(* Only Track and the clock touch what the limiter's invariant speaks of.  *)
LEMMA LimiterStep == TypeOK /\ LimiterInv /\ CriticalSection => LimiterInv'
PROOF
  <1> SUFFICES ASSUME TypeOK, LimiterInv, CriticalSection
               PROVE  LimiterInv'
    OBVIOUS
  <1>1. CASE Tick
    BY <1>1, LimiterTick
  <1>2. CASE \E c \in CommandIds, v \in VehicleIds : TrackAccepted(c, v)
    BY <1>2, LimiterTrack
  <1>3. CASE UNCHANGED <<now, commands, rateLimiter>>
    BY <1>3, LimiterUntouched
  <1>4. \/ Tick
        \/ \E c \in CommandIds, v \in VehicleIds : TrackAccepted(c, v)
        \/ UNCHANGED <<now, commands, rateLimiter>>
    BY DEF CriticalSection, trackerVars, SetTimeoutCallback, AcknowledgeFound, TimerFires,
           HandleTimeout, NotifyTimeout, CancelAll
  <1> QED BY <1>1, <1>2, <1>3, <1>4

(* The limiter is exact at every instant, although it is pruned only when  *)
(* a command is accepted.                                                  *)
THEOREM LimiterCorrect == TrackerSafety => []LimiterExact
PROOF
  <1>1. LimiterInv => LimiterExact
    BY DEF LimiterInv
  <1> QED BY <1>1, TypeOKInit, StepCases, TypeOKStep, LimiterInit, LimiterStep, PTL DEF TrackerSafety

(* No window of length RateWindow holds more than RateLimit accepted       *)
(* commands of one vehicle.                                                *)
THEOREM RateBoundHolds == TrackerSafety => []RateBound
PROOF
  <1>1. LimiterInv => RateBound
    BY DEF LimiterInv
  <1> QED BY <1>1, TypeOKInit, StepCases, TypeOKStep, LimiterInit, LimiterStep, PTL DEF TrackerSafety

----------------------------------------------------------------------------
(* Timers, entries and deadlines *)

(* TimeoutNotEarly is not inductive alone: that a goroutine holding the    *)
(* lock is late enough comes from its timer (FiredIsDue), and that an entry *)
(* which is not its own is a later use of the id from PendingIsLatest.     *)
FiredIsDue == \A i \in DOMAIN commands : timer[i] = "fired" => Expirable(i)

(* Nothing has happened to a command that does not exist yet.              *)
UnusedIsOpen == \A i \in Indices : i \notin DOMAIN commands => outcome[i] = "open"

(* The entry of an id is of its latest use: Track refuses an id in the map. *)
PendingIsLatest ==
  \A i \in DOMAIN commands :
    LET c == commands[i].CommandID IN pending[c] # Absent => i <= pending[c]

TimerInv ==
  /\ PendingHasTimer /\ NoOrphanTimer /\ FiredIsDue
  /\ TimeoutNotEarly /\ UnusedIsOpen /\ PendingIsLatest

(* At the start nothing is pending and no timer exists.                    *)
LEMMA TimerInvInit == TrackerInit => TimerInv
  BY DEF TrackerInit, TimerInv, PendingHasTimer, NoOrphanTimer, FiredIsDue,
         TimeoutNotEarly, UnusedIsOpen, PendingIsLatest

(* Once taken, a command stays taken: no step gives an expired command     *)
(* another outcome, or a goroutine that took an entry another chance.      *)
LEMMA TakenStays ==
  ASSUME DOMAIN commands \subseteq DOMAIN commands',
         \A j \in DOMAIN commands :
           /\ commands'[j] = commands[j]
           /\ outcome[j] = "timedout" => outcome'[j] = "timedout"
           /\ timer[j] \in {"expiring", "notified", "unheard"}
                => timer'[j] \in {"expiring", "notified", "unheard"}
  PROVE  \A i \in DOMAIN commands : TakenByEarlierUse(i) => TakenByEarlierUse(i)'
  BY DEF TakenByEarlierUse, TookAnEntry

(* Neither the callback nor the rate limiter is part of TimerInv.          *)
LEMMA TimerInvUntouched ==
  ASSUME TypeOK, TimerInv, UNCHANGED <<now, commands, pending, timer, outcome>>
  PROVE  TimerInv'
  BY DEF TimerInv, PendingHasTimer, NoOrphanTimer, FiredIsDue, TimeoutNotEarly,
         UnusedIsOpen, PendingIsLatest, Expirable, TakenByEarlierUse, TookAnEntry

(* Time can only bring deadlines nearer.                                   *)
LEMMA TimerInvTick ==
  ASSUME TypeOK, TimerInv, Tick
  PROVE  TimerInv'
PROOF
  <1>1. /\ now \in Nat /\ now' = now + 1 /\ Timeout \in Nat
        /\ UNCHANGED <<commands, pending, timer, outcome>>
    BY TrackerAssumption DEF TypeOK, Tick, Times
  <1>2. \A i \in DOMAIN commands : Expirable(i) => Expirable(i)'
    BY <1>1, CommandFields DEF Expirable
  <1>3. \A i \in DOMAIN commands : TakenByEarlierUse(i) => TakenByEarlierUse(i)'
    BY <1>1, TakenStays
  <1> QED BY <1>1, <1>2, <1>3
          DEF TimerInv, PendingHasTimer, NoOrphanTimer, FiredIsDue, TimeoutNotEarly,
              UnusedIsOpen, PendingIsLatest

(* A new command gets an armed timer and an entry of its own.              *)
LEMMA TimerInvTrack ==
  ASSUME TypeOK, TimerInv, NEW c \in CommandIds, NEW v \in VehicleIds, TrackAccepted(c, v)
  PROVE  TimerInv'
PROOF
  <1> DEFINE n == Len(commands) + 1
  <1>1. /\ DOMAIN commands' = DOMAIN commands \cup {n}
        /\ n \notin DOMAIN commands
        /\ DOMAIN commands \subseteq Indices
        /\ \A i \in DOMAIN commands : commands'[i] = commands[i]
        /\ commands'[n] = [CommandID |-> c, VehicleID |-> v, SentAt |-> now]
    BY AppendedCommand
  <1>2. commands'[n].CommandID = c
    BY <1>1
  <1>3. /\ n \in Indices
        /\ now' = now /\ outcome' = outcome
        /\ timer' = [timer EXCEPT ![n] = "armed"]
        /\ pending[c] = Absent
        /\ pending' = [pending EXCEPT ![c] = n]
    BY DEF TrackAccepted
  <1>4. timer'[n] = "armed" /\ pending'[c] = n
    BY <1>3 DEF TypeOK
  <1>5. \A i \in DOMAIN commands :
          /\ timer'[i] = timer[i]
          /\ Expirable(i)' <=> Expirable(i)
          /\ TakenByEarlierUse(i) => TakenByEarlierUse(i)'
    <2>1. \A i \in DOMAIN commands :
            /\ timer'[i] = timer[i] /\ outcome'[i] = outcome[i]
            /\ Expirable(i)' <=> Expirable(i)
      BY <1>1, <1>3 DEF TypeOK, Expirable
    <2> QED BY <1>1, <2>1, TakenStays
  <1>6. outcome[n] = "open"
    BY <1>1, <1>3 DEF TimerInv, UnusedIsOpen
  <1>7. PendingHasTimer'
    BY <1>1, <1>2, <1>3, <1>4, <1>5, <1>6 DEF TimerInv, PendingHasTimer, TypeOK
  <1>8. NoOrphanTimer'
    <2> SUFFICES ASSUME NEW i \in DOMAIN commands, timer[i] = "armed", ~TakenByEarlierUse(i)
                 PROVE  pending'[commands[i].CommandID] = i
      BY <1>1, <1>2, <1>4, <1>5 DEF NoOrphanTimer
    <2>1. pending[commands[i].CommandID] = i
      BY DEF TimerInv, NoOrphanTimer
    <2>2. i # Absent
      BY <1>1 DEF Indices, Absent
    <2> QED BY <1>3, <2>1, <2>2, CommandFields DEF TypeOK
  <1>9. FiredIsDue'
    BY <1>1, <1>4, <1>5 DEF TimerInv, FiredIsDue
  <1>10. TimeoutNotEarly'
    BY <1>1, <1>3, <1>5, <1>6 DEF TimerInv, TimeoutNotEarly
  <1>11. UnusedIsOpen'
    BY <1>1, <1>3 DEF TimerInv, UnusedIsOpen
  <1>12. PendingIsLatest'
    <2>1. Len(commands) \in Nat /\ DOMAIN commands = 1 .. Len(commands)
      BY DEF TypeOK
    <2>2. \A i \in DOMAIN commands' : i <= n
      BY <1>1, <2>1
    <2>3. \A i \in DOMAIN commands : commands[i].CommandID # c =>
            pending'[commands[i].CommandID] = pending[commands[i].CommandID]
      BY <1>3, CommandFields DEF TypeOK
    <2>4. \A i \in DOMAIN commands' : commands'[i].CommandID = c \/ i \in DOMAIN commands
      BY <1>1, <1>2
    <2> SUFFICES ASSUME NEW i \in DOMAIN commands', pending'[commands'[i].CommandID] # Absent
                 PROVE  i <= pending'[commands'[i].CommandID]
      BY DEF PendingIsLatest
    <2>5. CASE commands'[i].CommandID = c
      BY <1>4, <2>2, <2>5
    <2>6. CASE commands'[i].CommandID # c
      BY <1>1, <2>3, <2>4, <2>6 DEF TimerInv, PendingIsLatest
    <2> QED BY <2>5, <2>6
  <1> QED BY <1>7, <1>8, <1>9, <1>10, <1>11, <1>12 DEF TimerInv

(* Neither expiry before the lock nor the callback after it touches the    *)
(* map: only the timer of one command changes, and never back to "armed".  *)
LEMMA TimerInvOwnTimer ==
  ASSUME TypeOK, TimerInv, NEW i \in DOMAIN commands, TimerFires(i) \/ NotifyTimeout(i)
  PROVE  TimerInv'
PROOF
  <1>1. UNCHANGED <<now, commands, pending, outcome>>
    BY DEF TimerFires, NotifyTimeout
  <1>2. i \in Indices
    BY TrackerAssumption DEF TypeOK, Indices
  <1>3. /\ \A j \in DOMAIN commands : j # i => timer'[j] = timer[j]
        /\ \/ timer[i] = "armed" /\ timer'[i] = "fired" /\ Expirable(i)
           \/ timer[i] = "expiring" /\ timer'[i] \in {"notified", "unheard"}
    <2>1. timer \in [Indices -> TimerState] /\ DOMAIN commands \subseteq Indices
      BY TrackerAssumption DEF TypeOK, Indices
    <2>2. CASE TimerFires(i)
      BY <1>2, <2>1, <2>2 DEF TimerFires
    <2>3. CASE NotifyTimeout(i)
      BY <1>2, <2>1, <2>3 DEF NotifyTimeout
    <2> QED BY <2>2, <2>3
  <1>4. \A j \in DOMAIN commands :
          /\ Expirable(j)' <=> Expirable(j)
          /\ TakenByEarlierUse(j) => TakenByEarlierUse(j)'
    <2>1. \A j \in DOMAIN commands : TakenByEarlierUse(j) => TakenByEarlierUse(j)'
      BY <1>1, <1>3, TakenStays
    <2> QED BY <1>1, <2>1 DEF Expirable
  <1>5. PendingHasTimer'
    <2> SUFFICES ASSUME NEW c \in CommandIds, pending[c] # Absent
                 PROVE  /\ commands[pending[c]].CommandID = c
                        /\ timer'[pending[c]] \in {"armed", "fired"}
                        /\ outcome[pending[c]] = "open"
      BY <1>1 DEF PendingHasTimer
    <2>1. pending[c] \in DOMAIN commands
      BY DEF TypeOK
    <2> QED BY <1>3, <2>1 DEF TimerInv, PendingHasTimer
  <1>6. NoOrphanTimer' /\ FiredIsDue'
    BY <1>1, <1>3, <1>4 DEF TimerInv, NoOrphanTimer, FiredIsDue
  <1>7. TimeoutNotEarly' /\ UnusedIsOpen' /\ PendingIsLatest'
    BY <1>1, <1>4 DEF TimerInv, TimeoutNotEarly, UnusedIsOpen, PendingIsLatest
  <1> QED BY <1>5, <1>6, <1>7 DEF TimerInv

(* Two ids never share an entry, since the entry names its id.             *)
LEMMA PendingInjective ==
  ASSUME TypeOK, TimerInv, NEW c \in CommandIds, NEW d \in CommandIds,
         pending[c] # Absent, pending[d] = pending[c]
  PROVE  c = d
  BY DEF TimerInv, PendingHasTimer

(* Acknowledge takes the entry and stops its timer in one critical section. *)
LEMMA TimerInvAcknowledge ==
  ASSUME TypeOK, TimerInv, NEW c \in CommandIds, AcknowledgeFound(c)
  PROVE  TimerInv'
PROOF
  <1> DEFINE i == pending[c]
  <1>1. /\ i # Absent /\ i \in DOMAIN commands /\ i \in Indices
        /\ UNCHANGED <<now, commands>>
    BY TrackerAssumption DEF AcknowledgeFound, TypeOK, Indices
  <1>2. /\ timer' = [timer EXCEPT ![i] = Stopped(i)]
        /\ outcome' = [outcome EXCEPT ![i] = "acknowledged"]
        /\ pending' = [pending EXCEPT ![c] = Absent]
    BY DEF AcknowledgeFound
  <1>3. /\ commands[i].CommandID = c
        /\ timer'[i] \in {"stopped", "fired"} /\ (timer'[i] = "fired" => timer[i] = "fired")
        /\ outcome'[i] = "acknowledged"
        /\ \A j \in Indices : j # i => timer'[j] = timer[j] /\ outcome'[j] = outcome[j]
    BY <1>1, <1>2 DEF TypeOK, TimerInv, PendingHasTimer, Stopped
  <1>5. DOMAIN commands \subseteq Indices
    BY TrackerAssumption DEF TypeOK, Indices
  <1>4. \A j \in DOMAIN commands :
          /\ Expirable(j)' <=> Expirable(j)
          /\ TakenByEarlierUse(j) => TakenByEarlierUse(j)'
    <2>1. outcome[i] = "open" /\ timer[i] \in {"armed", "fired"}
      BY <1>1 DEF TimerInv, PendingHasTimer
    <2>2. \A j \in DOMAIN commands : TakenByEarlierUse(j) => TakenByEarlierUse(j)'
      BY <1>1, <1>3, <1>5, <2>1, TakenStays
    <2> QED BY <1>1, <2>2 DEF Expirable
  <1>6. PendingHasTimer'
    <2> SUFFICES ASSUME NEW d \in CommandIds, pending'[d] # Absent
                 PROVE  /\ commands[pending'[d]].CommandID = d
                        /\ timer'[pending'[d]] \in {"armed", "fired"}
                        /\ outcome'[pending'[d]] = "open"
      BY <1>1 DEF PendingHasTimer
    <2>1. d # c /\ pending'[d] = pending[d]
      BY <1>2 DEF TypeOK
    <2>2. pending[d] # i /\ pending[d] \in Indices
      BY <1>1, <1>5, <2>1, PendingInjective DEF TypeOK
    <2> QED BY <1>3, <2>1, <2>2 DEF TimerInv, PendingHasTimer
  <1>7. NoOrphanTimer'
    <2> SUFFICES ASSUME NEW j \in DOMAIN commands, timer'[j] = "armed", ~TakenByEarlierUse(j)
                 PROVE  pending'[commands[j].CommandID] = j
      BY <1>1, <1>4 DEF NoOrphanTimer
    <2>1. j # i /\ timer[j] = "armed"
      BY <1>3, <1>5
    <2>2. pending[commands[j].CommandID] = j
      BY <2>1 DEF TimerInv, NoOrphanTimer
    <2>3. commands[j].CommandID # c
      BY <2>1, <2>2
    <2> QED BY <1>2, <2>2, <2>3, CommandFields DEF TypeOK
  <1>8. FiredIsDue'
    BY <1>1, <1>3, <1>4, <1>5 DEF TimerInv, FiredIsDue
  <1>9. TimeoutNotEarly' /\ UnusedIsOpen'
    BY <1>1, <1>3, <1>4, <1>5 DEF TimerInv, TimeoutNotEarly, UnusedIsOpen
  <1>10. PendingIsLatest'
    BY <1>1, <1>2, CommandFields DEF TimerInv, PendingIsLatest, TypeOK
  <1> QED BY <1>6, <1>7, <1>8, <1>9, <1>10 DEF TimerInv

(* handleTimeout may take another command's entry, under the same id only. *)
LEMMA TimerInvHandle ==
  ASSUME TypeOK, TimerInv, NEW u \in DOMAIN commands, HandleTimeout(u)
  PROVE  TimerInv'
PROOF
  <1> DEFINE c == commands[u].CommandID
             i == pending[c]
  <1>1. /\ c \in CommandIds /\ u \in Indices
        /\ timer[u] = "fired"
        /\ UNCHANGED <<now, commands>>
    BY CommandFields, TrackerAssumption DEF HandleTimeout, TypeOK, Indices
  <1>2. \A j \in DOMAIN commands : Expirable(j)' <=> Expirable(j)
    BY <1>1 DEF Expirable
  <1>3. DOMAIN commands \subseteq Indices
    BY TrackerAssumption DEF TypeOK, Indices
  <1>4. CASE i # Absent
    <2>1. i \in DOMAIN commands /\ commands[i].CommandID = c
      BY <1>1, <1>4 DEF TypeOK, TimerInv, PendingHasTimer
    <2>2. /\ timer' = [timer EXCEPT ![u] = "expiring"]
          /\ outcome' = [outcome EXCEPT ![i] = "timedout"]
          /\ pending' = [pending EXCEPT ![c] = Absent]
      BY <1>4 DEF HandleTimeout
    <2>3. /\ timer'[u] = "expiring"
          /\ outcome'[i] = "timedout"
          /\ \A j \in Indices : j # u => timer'[j] = timer[j]
          /\ \A j \in Indices : j # i => outcome'[j] = outcome[j]
      BY <1>1, <1>3, <2>1, <2>2 DEF TypeOK
    <2>4. \A j \in DOMAIN commands : TakenByEarlierUse(j) => TakenByEarlierUse(j)'
      BY <1>1, <1>3, <2>3, TakenStays
    (* The entry found is the goroutine's own, or of a later use of the id. *)
    <2>4a. \A k \in DOMAIN commands : k = i => u = k \/ TakenByEarlierUse(k)'
      <3> SUFFICES ASSUME NEW k \in DOMAIN commands, k = i, u # k
                   PROVE  TakenByEarlierUse(k)'
        OBVIOUS
      <3>1. u < k
        <4>1. u <= k
          BY <1>4 DEF TimerInv, PendingIsLatest
        <4> QED BY <1>3, <4>1 DEF Indices
      <3>2. u \in TookAnEntry' /\ commands'[u].CommandID = commands'[k].CommandID
        BY <1>1, <2>1, <2>3 DEF TookAnEntry
      <3>3. outcome'[k] = "timedout"
        BY <2>3
      <3> QED BY <3>1, <3>2, <3>3 DEF TakenByEarlierUse
    <2>5. PendingHasTimer'
      <3> SUFFICES ASSUME NEW d \in CommandIds, pending'[d] # Absent
                   PROVE  /\ commands[pending'[d]].CommandID = d
                          /\ timer'[pending'[d]] \in {"armed", "fired"}
                          /\ outcome'[pending'[d]] = "open"
        BY <1>1 DEF PendingHasTimer
      <3>1. d # c /\ pending'[d] = pending[d]
        BY <2>2 DEF TypeOK
      <3>2. /\ commands[pending[d]].CommandID = d
            /\ pending[d] \in Indices
        BY <1>3, <3>1 DEF TypeOK, TimerInv, PendingHasTimer
      <3>3. pending[d] # u /\ pending[d] # i
        BY <2>1, <3>1, <3>2
      <3> QED BY <2>3, <3>1, <3>2, <3>3 DEF TimerInv, PendingHasTimer
    <2>6. NoOrphanTimer'
      <3> SUFFICES ASSUME NEW j \in DOMAIN commands, timer'[j] = "armed",
                          ~(TakenByEarlierUse(j)')
                   PROVE  pending'[commands[j].CommandID] = j
        BY <1>1 DEF NoOrphanTimer
      <3>1. j # u /\ timer[j] = "armed"
        BY <1>3, <2>3
      <3>2. pending[commands[j].CommandID] = j
        BY <2>4, <3>1 DEF TimerInv, NoOrphanTimer
      <3>3. commands[j].CommandID # c
        BY <2>4a, <3>1, <3>2
      <3> QED BY <2>2, <3>2, <3>3, CommandFields DEF TypeOK
    <2>7. FiredIsDue'
      BY <1>1, <1>2, <1>3, <2>3 DEF TimerInv, FiredIsDue
    <2>8. TimeoutNotEarly'
      <3> SUFFICES ASSUME NEW j \in DOMAIN commands, outcome'[j] = "timedout",
                          ~(TakenByEarlierUse(j)')
                   PROVE  Expirable(j)
        BY <1>1, <1>2 DEF TimeoutNotEarly
      <3>1. CASE j = i
        BY <1>1, <2>4a, <3>1 DEF TimerInv, FiredIsDue
      <3>2. CASE j # i
        BY <1>3, <2>3, <2>4, <3>2 DEF TimerInv, TimeoutNotEarly
      <3> QED BY <3>1, <3>2
    <2>9. UnusedIsOpen'
      BY <1>1, <2>1, <2>3 DEF TimerInv, UnusedIsOpen
    <2>10. PendingIsLatest'
      BY <1>1, <2>2, CommandFields DEF TimerInv, PendingIsLatest, TypeOK
    <2> QED BY <2>5, <2>6, <2>7, <2>8, <2>9, <2>10 DEF TimerInv
  <1>5. CASE i = Absent
    <2>1. /\ timer' = [timer EXCEPT ![u] = "silent"]
          /\ UNCHANGED <<pending, outcome>>
      BY <1>5 DEF HandleTimeout
    <2>2. /\ timer'[u] = "silent"
          /\ \A j \in Indices : j # u => timer'[j] = timer[j]
      BY <1>1, <2>1 DEF TypeOK
    <2>3. PendingHasTimer'
      <3> SUFFICES ASSUME NEW d \in CommandIds, pending[d] # Absent
                   PROVE  /\ commands[pending[d]].CommandID = d
                          /\ timer'[pending[d]] \in {"armed", "fired"}
                          /\ outcome[pending[d]] = "open"
        BY <1>1, <2>1 DEF PendingHasTimer
      <3>1. commands[pending[d]].CommandID = d /\ pending[d] \in Indices
        BY <1>3 DEF TypeOK, TimerInv, PendingHasTimer
      <3>2. pending[d] # u
        BY <1>5, <3>1
      <3> QED BY <2>2, <3>1, <3>2 DEF TimerInv, PendingHasTimer
    <2>3a. \A j \in DOMAIN commands : TakenByEarlierUse(j) => TakenByEarlierUse(j)'
      BY <1>1, <1>3, <2>1, <2>2, TakenStays
    <2>4. NoOrphanTimer' /\ FiredIsDue'
      BY <1>1, <1>2, <1>3, <2>1, <2>2, <2>3a DEF TimerInv, NoOrphanTimer, FiredIsDue
    <2>5. TimeoutNotEarly' /\ UnusedIsOpen' /\ PendingIsLatest'
      BY <1>1, <1>2, <2>1, <2>3a DEF TimerInv, TimeoutNotEarly, UnusedIsOpen, PendingIsLatest
    <2> QED BY <2>3, <2>4, <2>5 DEF TimerInv
  <1> QED BY <1>4, <1>5

(* CancelAll stops every timer whose entry it drops.                       *)
LEMMA TimerInvCancel ==
  ASSUME TypeOK, TimerInv, CancelAll
  PROVE  TimerInv'
PROOF
  <1>1. /\ UNCHANGED <<now, commands>>
        /\ DOMAIN commands \subseteq Indices
    BY TrackerAssumption DEF CancelAll, TypeOK, Indices
  <1>3. \A j \in Indices :
          /\ timer'[j] = "armed" => timer[j] = "armed" /\ ~IsPending(j)
          /\ timer'[j] = "fired" => timer[j] = "fired"
          /\ outcome'[j] = "timedout" => outcome[j] = "timedout"
    BY DEF CancelAll, Stopped
  <1>2. \A j \in DOMAIN commands :
          /\ Expirable(j)' <=> Expirable(j)
          /\ TakenByEarlierUse(j) => TakenByEarlierUse(j)'
    <2>1. \A j \in Indices : IsPending(j) => outcome[j] = "open" /\ timer[j] # "expiring"
      <3>1. \A d \in CommandIds : pending[d] # Absent =>
              outcome[pending[d]] = "open" /\ timer[pending[d]] # "expiring"
        BY DEF TimerInv, PendingHasTimer
      <3> QED BY <3>1 DEF IsPending, Indices, Absent
    <2>2. \A j \in DOMAIN commands :
            /\ outcome[j] = "timedout" => outcome'[j] = "timedout"
            /\ timer[j] \in {"expiring", "notified", "unheard"} => timer'[j] = timer[j]
      BY <1>1, <2>1 DEF CancelAll, Stopped
    <2>3. \A j \in DOMAIN commands : TakenByEarlierUse(j) => TakenByEarlierUse(j)'
      BY <1>1, <2>2, TakenStays
    <2> QED BY <1>1, <2>3 DEF Expirable
  <1>4. PendingHasTimer'
    BY DEF CancelAll, PendingHasTimer
  <1>5. NoOrphanTimer'
    (* An armed timer that no earlier use took is pending: it was stopped. *)
    BY <1>1, <1>2, <1>3, CommandFields DEF TimerInv, NoOrphanTimer, IsPending
  <1>6. FiredIsDue' /\ TimeoutNotEarly'
    BY <1>1, <1>2, <1>3 DEF TimerInv, FiredIsDue, TimeoutNotEarly
  <1>7. UnusedIsOpen'
    <2> SUFFICES ASSUME NEW j \in Indices, j \notin DOMAIN commands
                 PROVE  outcome'[j] = "open"
      BY <1>1 DEF UnusedIsOpen
    <2>1. ~IsPending(j)
      <3> SUFFICES ASSUME NEW d \in CommandIds, pending[d] = j
                   PROVE  FALSE
        BY DEF IsPending
      <3>1. j # Absent
        BY DEF Indices, Absent
      <3> QED BY <3>1 DEF TypeOK
    <2> QED BY <2>1 DEF CancelAll, TimerInv, UnusedIsOpen
  <1>8. PendingIsLatest'
    BY <1>1, CommandFields DEF CancelAll, PendingIsLatest
  <1> QED BY <1>4, <1>5, <1>6, <1>7, <1>8 DEF TimerInv

(* The cases together.                                                     *)
LEMMA TimerInvStep == TypeOK /\ TimerInv /\ CriticalSection => TimerInv'
PROOF
  <1> SUFFICES ASSUME TypeOK, TimerInv, CriticalSection
               PROVE  TimerInv'
    OBVIOUS
  <1>1. CASE UNCHANGED trackerVars
    BY <1>1, TimerInvUntouched DEF trackerVars
  <1>2. CASE SetTimeoutCallback
    BY <1>2, TimerInvUntouched DEF SetTimeoutCallback
  <1>3. CASE \E c \in CommandIds, v \in VehicleIds : TrackAccepted(c, v)
    BY <1>3, TimerInvTrack
  <1>4. CASE \E c \in CommandIds : AcknowledgeFound(c)
    BY <1>4, TimerInvAcknowledge
  <1>5. CASE \E i \in DOMAIN commands : TimerFires(i) \/ NotifyTimeout(i)
    BY <1>5, TimerInvOwnTimer
  <1>6. CASE \E i \in DOMAIN commands : HandleTimeout(i)
    BY <1>6, TimerInvHandle
  <1>7. CASE CancelAll
    BY <1>7, TimerInvCancel
  <1>8. CASE Tick
    BY <1>8, TimerInvTick
  <1> QED BY <1>1, <1>2, <1>3, <1>4, <1>5, <1>6, <1>7, <1>8 DEF CriticalSection

(* The timer invariant holds in every reachable state.                     *)
LEMMA TimerInvHolds == TrackerSafety => []TimerInv
  BY TypeOKInit, StepCases, TypeOKStep, TimerInvInit, TimerInvStep, PTL DEF TrackerSafety

(* A pending command always has a timer that will expire or a goroutine on *)
(* its way to the lock: the tracker forgets no command.                    *)
THEOREM NothingForgotten == TrackerSafety => []PendingHasTimer
PROOF
  <1>1. TimerInv => PendingHasTimer
    BY DEF TimerInv
  <1> QED BY <1>1, TimerInvHolds, PTL

(* However late the goroutines run, a command is given up before its       *)
(* deadline only by the goroutine of an earlier command with its id.       *)
THEOREM TimeoutsKeepTheirTime == TrackerSafety => []TimeoutNotEarly
PROOF
  <1>1. TimerInv => TimeoutNotEarly
    BY DEF TimerInv
  <1> QED BY <1>1, TimerInvHolds, PTL

(* What leaves the map takes its timer along, unless the goroutine of an   *)
(* earlier command with the same id took it out.                           *)
THEOREM TimersFollowEntries == TrackerSafety => []NoOrphanTimer
PROOF
  <1>1. TimerInv => NoOrphanTimer
    BY DEF TimerInv
  <1> QED BY <1>1, TimerInvHolds, PTL

----------------------------------------------------------------------------
(* Timeout acks *)

(* An expiry calls the callback only if there is one, and nobody tracks    *)
(* before it is wired.                                                     *)
WiredFirst == DOMAIN commands # {} => onTimeout

(* Callers of Track come after the wiring, which is never undone.          *)
LEMMA WiredFirstStep == TypeOK /\ WiredFirst /\ [TrackerNext]_trackerVars => WiredFirst'
PROOF
  <1> SUFFICES ASSUME TypeOK, WiredFirst, [TrackerNext]_trackerVars PROVE WiredFirst'
    OBVIOUS
  <1>1. CASE \E c \in CommandIds, v \in VehicleIds : CallTrack(c, v)
    BY <1>1 DEF CallTrack, Track, TrackDuplicate, TrackRateLimited, TrackAccepted,
                trackerVars, WiredFirst
  <1>2. CASE ~ \E c \in CommandIds, v \in VehicleIds : CallTrack(c, v)
    <2>1. commands' = commands /\ (onTimeout => onTimeout')
      BY <1>2 DEF TrackerNext, trackerVars, SetTimeoutCallback, Acknowledge, AcknowledgeFound,
                  TimeoutGoroutine, TimerFires, HandleTimeout, NotifyTimeout, CancelAll, Tick
    <2> QED BY <2>1 DEF WiredFirst
  <1> QED BY <1>1, <1>2

(* A step that moves no command into or out of "timed out", and no timer   *)
(* to or from the callback, keeps the count.                               *)
LEMMA FramesUntouched ==
  ASSUME OneFramePerExpiry, commands' = commands,
         \A i \in DOMAIN commands :
           /\ outcome'[i] = "timedout" <=> outcome[i] = "timedout"
           /\ timer'[i] \in {"expiring", "notified"} <=> timer[i] \in {"expiring", "notified"}
  PROVE  OneFramePerExpiry'
PROOF
  <1>1. \A c : Expired(c)' = Expired(c) /\ TimeoutFrames(c)' = TimeoutFrames(c)
    BY DEF Expired, TimeoutFrames
  <1> QED BY <1>1 DEF OneFramePerExpiry

(* A new command has neither expired nor called the callback.              *)
LEMMA FramesTrack ==
  ASSUME TypeOK, TimerInv, OneFramePerExpiry,
         NEW c \in CommandIds, NEW v \in VehicleIds, TrackAccepted(c, v)
  PROVE  OneFramePerExpiry'
PROOF
  <1>0. PICK n : n = Len(commands) + 1
    OBVIOUS
  <1>1. /\ DOMAIN commands' = DOMAIN commands \cup {n}
        /\ n \notin DOMAIN commands /\ n \in Indices /\ DOMAIN commands \subseteq Indices
        /\ \A i \in DOMAIN commands : commands'[i] = commands[i]
    BY <1>0, AppendedCommand
  <1>2. /\ timer'[n] = "armed" /\ outcome'[n] = "open"
        /\ \A i \in DOMAIN commands : timer'[i] = timer[i] /\ outcome'[i] = outcome[i]
    BY <1>0, <1>1 DEF TypeOK, TrackAccepted, TimerInv, UnusedIsOpen
  <1>3. \A d \in CommandIds :
          Expired(d)' = Expired(d) /\ TimeoutFrames(d)' = TimeoutFrames(d)
    BY <1>1, <1>2 DEF Expired, TimeoutFrames
  <1> QED BY <1>3 DEF OneFramePerExpiry

(* A goroutine that finds an entry adds one to each side, under one id,    *)
(* whether the entry is its own or not.                                    *)
LEMMA FramesHandle ==
  ASSUME TypeOK, TimerInv, OneFramePerExpiry, NEW u \in DOMAIN commands, HandleTimeout(u)
  PROVE  OneFramePerExpiry'
PROOF
  <1>0. PICK c, i : c = commands[u].CommandID /\ i = pending[c]
    OBVIOUS
  <1>1. /\ commands' = commands /\ DOMAIN commands \subseteq Indices
        /\ c \in CommandIds /\ timer[u] = "fired"
        /\ timer \in [Indices -> TimerState] /\ outcome \in [Indices -> Outcome]
    BY <1>0, CommandFields, TrackerAssumption DEF HandleTimeout, TypeOK, Indices
  <1>2. CASE i = Absent
    <2>1. timer' = [timer EXCEPT ![u] = "silent"] /\ outcome' = outcome
      BY <1>0, <1>2 DEF HandleTimeout
    <2> QED BY <1>1, <2>1, FramesUntouched
  <1>3. CASE i # Absent
    <2>1. /\ i \in DOMAIN commands /\ commands[i].CommandID = c /\ outcome[i] = "open"
      BY <1>0, <1>1, <1>3 DEF TypeOK, TimerInv, PendingHasTimer
    <2>2. /\ timer' = [timer EXCEPT ![u] = "expiring"]
          /\ outcome' = [outcome EXCEPT ![i] = "timedout"]
      BY <1>0, <1>3 DEF HandleTimeout
    <2>3. /\ timer'[u] = "expiring" /\ outcome'[i] = "timedout"
          /\ \A j \in DOMAIN commands :
               (j # u => timer'[j] = timer[j]) /\ (j # i => outcome'[j] = outcome[j])
      BY <1>1, <2>1, <2>2
    <2>4. \A d \in CommandIds :
            IsFiniteSet(Expired(d)) /\ IsFiniteSet(TimeoutFrames(d))
      <3>1. IsFiniteSet(DOMAIN commands)
        BY FS_Interval DEF TypeOK
      <3> QED BY <3>1, FS_Subset DEF Expired, TimeoutFrames
    <2> SUFFICES ASSUME NEW d \in CommandIds
                 PROVE  Cardinality(TimeoutFrames(d)') = Cardinality(Expired(d)')
      BY DEF OneFramePerExpiry
    <2>5. CASE d = c
      <3>1. /\ TimeoutFrames(d)' = TimeoutFrames(d) \cup {u} /\ u \notin TimeoutFrames(d)
            /\ Expired(d)' = Expired(d) \cup {i} /\ i \notin Expired(d)
        BY <1>0, <1>1, <2>1, <2>3, <2>5 DEF Expired, TimeoutFrames
      <3>2. /\ Cardinality(TimeoutFrames(d)') = Cardinality(TimeoutFrames(d)) + 1
            /\ Cardinality(Expired(d)') = Cardinality(Expired(d)) + 1
        BY <2>4, <3>1, FS_AddElement
      <3> QED BY <3>2 DEF OneFramePerExpiry
    <2>6. CASE d # c
      <3>1. TimeoutFrames(d)' = TimeoutFrames(d) /\ Expired(d)' = Expired(d)
        BY <1>0, <1>1, <2>1, <2>3, <2>6 DEF Expired, TimeoutFrames
      <3> QED BY <3>1 DEF OneFramePerExpiry
    <2> QED BY <2>5, <2>6
  <1> QED BY <1>2, <1>3

(* The cases together.                                                     *)
LEMMA FramesStep ==
  TypeOK /\ TimerInv /\ WiredFirst /\ OneFramePerExpiry /\ CriticalSection => OneFramePerExpiry'
PROOF
  <1> SUFFICES ASSUME TypeOK, TimerInv, WiredFirst, OneFramePerExpiry, CriticalSection
               PROVE  OneFramePerExpiry'
    OBVIOUS
  <1>1. /\ DOMAIN commands \subseteq Indices
        /\ timer \in [Indices -> TimerState] /\ outcome \in [Indices -> Outcome]
    BY TrackerAssumption DEF TypeOK, Indices
  <1>2. CASE UNCHANGED trackerVars \/ SetTimeoutCallback \/ Tick
    BY <1>2, FramesUntouched DEF trackerVars, SetTimeoutCallback, Tick
  <1>3. CASE \E c \in CommandIds, v \in VehicleIds : TrackAccepted(c, v)
    BY <1>3, FramesTrack
  <1>4. ASSUME NEW c \in CommandIds, AcknowledgeFound(c) PROVE OneFramePerExpiry'
    <2>1. outcome[pending[c]] = "open" /\ pending[c] \in Indices
      BY <1>1, <1>4 DEF AcknowledgeFound, TypeOK, TimerInv, PendingHasTimer
    <2> QED BY <1>1, <1>4, <2>1, FramesUntouched DEF AcknowledgeFound, Stopped
  <1>5. CASE \E i \in DOMAIN commands : TimerFires(i) \/ NotifyTimeout(i)
    BY <1>1, <1>5, FramesUntouched DEF TimerFires, NotifyTimeout, WiredFirst
  <1>6. CASE \E i \in DOMAIN commands : HandleTimeout(i)
    BY <1>6, FramesHandle
  <1>7. CASE CancelAll
    <2>1. \A i \in Indices : IsPending(i) => outcome[i] = "open"
      <3> SUFFICES ASSUME NEW i \in Indices, NEW c \in CommandIds, pending[c] = i
                   PROVE  outcome[i] = "open"
        BY DEF IsPending
      <3>1. pending[c] # Absent
        BY DEF Indices, Absent
      <3> QED BY <3>1 DEF TimerInv, PendingHasTimer
    <2>2. \A i \in Indices :
            /\ outcome'[i] = "timedout" <=> outcome[i] = "timedout"
            /\ timer'[i] \in {"expiring", "notified"} <=> timer[i] \in {"expiring", "notified"}
      BY <1>7, <2>1 DEF CancelAll, Stopped
    <2> QED BY <1>1, <1>7, <2>2, FramesUntouched DEF CancelAll
  <1> QED BY <1>2, <1>3, <1>4, <1>5, <1>6, <1>7 DEF CriticalSection

(* As many timeout acks reach the callback, or are about to, as commands   *)
(* were given up under an id, whichever goroutine found which entry.       *)
THEOREM ExpiriesAreAnnounced == TrackerSafety => []OneFramePerExpiry
PROOF
  <1>1. TrackerInit => WiredFirst /\ OneFramePerExpiry
    <2> SUFFICES ASSUME TrackerInit PROVE WiredFirst /\ OneFramePerExpiry
      OBVIOUS
    <2>1. DOMAIN commands = {}
      BY DEF TrackerInit
    <2>2. \A c : Expired(c) = {} /\ TimeoutFrames(c) = {}
      BY <2>1 DEF Expired, TimeoutFrames
    <2> QED BY <2>1, <2>2 DEF WiredFirst, OneFramePerExpiry
  <1>2. TypeOK /\ TimerInv /\ WiredFirst /\ OneFramePerExpiry /\ [TrackerNext]_trackerVars
          => WiredFirst' /\ OneFramePerExpiry'
    BY StepCases, WiredFirstStep, FramesStep
  <1> QED BY <1>1, <1>2, TypeOKInit, StepCases, TypeOKStep, TimerInvInit, TimerInvStep, PTL
          DEF TrackerSafety

----------------------------------------------------------------------------
(* The capability check, for all capabilities and commands *)

(* Capabilities as a heartbeat brings them.                                *)
IsCapabilities(caps) ==
  /\ DOMAIN caps.extensions = 1 .. Len(caps.extensions)
  /\ Len(caps.extensions) \in Nat

UniqueNamespaces(caps) ==
  \A i, j \in DOMAIN caps.extensions :
    caps.extensions[i].namespace = caps.extensions[j].namespace => i = j

(* The least element of a set with one element is that element.            *)
LEMMA FirstOfOne ==
  ASSUME NEW S, S \subseteq Nat, S # {}, \A i, j \in S : i = j
  PROVE  S = {CHOOSE i \in S : \A j \in S : i <= j}
<1>1. PICK k \in S : TRUE
  OBVIOUS
<1>2. S = {k}
  BY <1>1
<1>3. k \in Nat
  BY <1>1
<1>4. k <= k
  BY <1>3
<1>5. \E i \in S : \A j \in S : i <= j
  BY <1>2, <1>4
<1> QED
  BY <1>2, <1>5

(* The check of router.go agrees with its comment: if no namespace is      *)
(* advertised twice, a command that can be built is let through exactly    *)
(* when the vehicle declared it.  With a namespace advertised twice only   *)
(* the first entry counts.                                                 *)
THEOREM CheckIsDeclaration ==
  ASSUME NEW caps, IsCapabilities(caps), UniqueNamespaces(caps),
         NEW c, c.parses \in BOOLEAN, BuildProtoCommand(c)
  PROVE  IsCommandSupported(caps, c) <=> Declared(caps, c)
<1>1. CASE c.action # "extension"
  BY <1>1 DEF IsCommandSupported, Declared, BuildProtoCommand, CoreCommands
<1>2. CASE c.action = "extension"
  <2> DEFINE found == {i \in DOMAIN caps.extensions :
                         caps.extensions[i].namespace = c.namespace}
             first == CHOOSE i \in found : \A j \in found : i <= j
  <2>1. c.parses /\ c.namespace # "" /\ c.type # ""
    BY <1>2 DEF BuildProtoCommand
  <2>2. IsCommandSupported(caps, c) <=>
          found # {} /\ (caps.extensions[first].actions = {}
                         \/ c.type \in caps.extensions[first].actions)
    BY <1>2, <2>1 DEF IsCommandSupported, IsExtensionCommandSupported, CoreCommands
  <2>3. Declared(caps, c) <=>
          \E i \in found : caps.extensions[i].actions = {}
                           \/ c.type \in caps.extensions[i].actions
    BY <1>2 DEF Declared, CoreCommands
  <2>4. found # {} => found = {first}
    <3>1. found \subseteq Nat
      BY DEF IsCapabilities
    <3>2. \A i, j \in found : i = j
      BY DEF UniqueNamespaces
    <3> QED
      BY <3>1, <3>2, FirstOfOne
  <2> HIDE DEF found, first
  <2> QED
    BY <2>2, <2>3, <2>4
<1> QED
  BY <1>1, <1>2

(* "The command field must match an action string your EncodeCommand       *)
(* handles" (ADDING_A_VEHICLE.md:258).  Every manifest of the repository   *)
(* offers commands that its codec refuses, whatever the parameters: a UI   *)
(* that shows them has buttons that never work.                            *)
THEOREM OfferedAndRefused ==
  ASSUME NEW payload
  PROVE  /\ \A a \in {"calibrateIMU", "resetOdometry"} :
              a \in DOMAIN Manifests.husky /\ ~EncodeCommand("husky", a, payload)
         /\ \A a \in {"cableCam", "setObstacleAvoidance"} :
              a \in DOMAIN Manifests.skydio /\ ~EncodeCommand("skydio", a, payload)
         /\ \A a \in {"setThrottle", "setHeading", "deployAnchor", "retractAnchor"} :
              a \in DOMAIN Manifests.blueboat /\ ~EncodeCommand("blueboat", a, payload)
<1>1. \A a \in {"calibrateIMU", "resetOdometry"} :
        a \in DOMAIN Manifests.husky /\ ~EncodeCommand("husky", a, payload)
  BY DEF Manifests, HuskyManifest, EncodeCommand, Codecs, HuskyEncoder
<1>2. \A a \in {"cableCam", "setObstacleAvoidance"} :
        a \in DOMAIN Manifests.skydio /\ ~EncodeCommand("skydio", a, payload)
  BY DEF Manifests, SkydioManifest, EncodeCommand, Codecs, SkydioEncoder
<1>3. \A a \in {"setThrottle", "setHeading", "deployAnchor", "retractAnchor"} :
        a \in DOMAIN Manifests.blueboat /\ ~EncodeCommand("blueboat", a, payload)
  BY DEF Manifests, BlueboatManifest, EncodeCommand, Codecs, BlueboatEncoder
<1> QED
  BY <1>1, <1>2, <1>3

----------------------------------------------------------------------------
(* Steps *)

(* The fields that Route hands to the tracker.                             *)
LEMMA RequestFields ==
  ASSUME RouteTypeOK, NEW cl \in Clients
  PROVE  /\ request[cl].CommandID \in CommandIds
         /\ request[cl].VehicleID \in VehicleIds
PROOF
  <1>1. request[cl] \in Request
    BY DEF RouteTypeOK
  <1> QED BY <1>1 DEF Request

(* Whatever runs, the tracker itself takes one of its critical sections,   *)
(* so that the lemmas on the tracker above hold of its variables here.     *)
LEMMA RouteCases == RouteTypeOK /\ [Next]_vars => CriticalSection
PROOF
  <1> SUFFICES ASSUME RouteTypeOK, [Next]_vars PROVE CriticalSection
    OBVIOUS
  <1>1. CASE UNCHANGED vars
    BY <1>1 DEF vars, CriticalSection
  <1>2. CASE WireTimeout \/ Clock
    BY <1>2 DEF WireTimeout, Clock, CriticalSection
  <1>3. CASE RouterStart \/ RouterStop
    BY <1>3 DEF RouterStart, RouterStop, CriticalSection
  <1>4. CASE \/ \E v \in VehicleIds : Discover(v)
             \/ \E v \in VehicleIds, caps \in CapabilitySets : Advertise(v, caps)
             \/ \E cl \in Clients, r \in Request : Receive(cl, r)
             \/ \E i \in network : VehicleResponds(i)
    BY <1>4 DEF Discover, Advertise, Receive, VehicleResponds, CriticalSection
  <1>5. CASE \E i \in Indices : Timers(i)
    BY <1>5 DEF Timers, TimeoutGoroutine, CriticalSection
  <1>6. ASSUME NEW cl \in Clients, RouteStep(cl) PROVE CriticalSection
    <2>1. CASE TrackOk(cl)
      BY <2>1, RequestFields DEF TrackOk, CriticalSection
    <2>2. CASE Undo(cl)
      BY <2>2, RequestFields DEF Undo, Acknowledge, CriticalSection
    <2>3. CASE TrackRefused(cl)
      BY <2>3 DEF TrackRefused, TrackDuplicate, TrackRateLimited, CriticalSection
    <2>4. CASE \/ Lookup(cl) \/ Build(cl) \/ ReadConn(cl) \/ WriteOk(cl)
               \/ WriteFails(cl) \/ Reply(cl)
      BY <2>4 DEF Lookup, Build, ReadConn, WriteOk, WriteFails, Reply, CriticalSection
    <2> QED BY <1>6, <2>1, <2>2, <2>3, <2>4 DEF RouteStep
  <1> QED BY <1>1, <1>2, <1>3, <1>4, <1>5, <1>6 DEF Next

----------------------------------------------------------------------------
(* Types *)

LEMMA NoRequestType == NoRequest \in Request
PROOF
  <1>1. \E c \in CommandIds, v \in VehicleIds, d \in Commands :
          [CommandID |-> c, VehicleID |-> v, command |-> d, wellFormed |-> TRUE] \in Request
    BY RouteAssumption DEF Request
  <1> QED BY <1>1 DEF NoRequest

(* Before the first frame no Route runs.                                   *)
LEMMA RouteTypeInit == Init => RouteTypeOK
PROOF
  <1> SUFFICES ASSUME Init PROVE RouteTypeOK
    OBVIOUS
  <1>1. TypeOK
    BY TypeOKInit DEF Init
  <1>2. registry \in [VehicleIds -> Entry]
    BY DEF Init, Unknown, Entry
  <1>3. request \in [Clients -> Request]
    BY NoRequestType DEF Init
  <1>4. /\ conn \in {"nil", "open", "closed"}
        /\ stage \in [Clients -> Stages]
        /\ ticket \in [Clients -> DOMAIN commands \cup {NoTicket}]
        /\ \A cl \in Clients : stage[cl] \in Tracked => ticket[cl] # NoTicket
    BY DEF Init, Stages, Tracked
  <1>5. relayed \subseteq network /\ network \cup acceptedFor \cup refusedFor \subseteq DOMAIN commands
    BY DEF Init
  <1> QED BY <1>1, <1>2, <1>3, <1>4, <1>5 DEF RouteTypeOK

(* The tracker's lemma gives its types; of the commands it only matters    *)
(* here that none disappears.                                              *)
LEMMA TrackerTypeStep ==
  ASSUME RouteTypeOK, [Next]_vars
  PROVE  /\ TypeOK'
         /\ DOMAIN commands \subseteq DOMAIN commands'
         /\ NoTicket \notin DOMAIN commands'
PROOF
  <1>1. TypeOK' /\ CriticalSection
    BY TypeOKStep, RouteCases DEF RouteTypeOK
  <1>2. NoTicket \notin DOMAIN commands'
    BY <1>1 DEF TypeOK, NoTicket
  <1>3. CASE \E c \in CommandIds, v \in VehicleIds : TrackAccepted(c, v)
    BY <1>1, <1>2, <1>3, AppendedCommand DEF RouteTypeOK
  <1>4. CASE UNCHANGED commands
    BY <1>1, <1>2, <1>4
  <1> QED BY <1>1, <1>3, <1>4
          DEF CriticalSection, trackerVars, SetTimeoutCallback, AcknowledgeFound,
              TimerFires, HandleTimeout, NotifyTimeout, CancelAll, Tick

(* One case per action; what an action leaves alone keeps its shape.       *)
LEMMA RouteTypeStep == RouteTypeOK /\ [Next]_vars => RouteTypeOK'
PROOF
  <1> SUFFICES ASSUME RouteTypeOK, [Next]_vars PROVE RouteTypeOK'
    OBVIOUS
  <1>1. /\ TypeOK'
        /\ DOMAIN commands \subseteq DOMAIN commands'
        /\ NoTicket \notin DOMAIN commands'
    BY TrackerTypeStep
  <1>2. /\ registry \in [VehicleIds -> Entry]
        /\ conn \in {"nil", "open", "closed"}
        /\ stage \in [Clients -> Stages]
        /\ request \in [Clients -> Request]
        /\ ticket \in [Clients -> DOMAIN commands' \cup {NoTicket}]
        /\ \A cl \in Clients : stage[cl] \in Tracked => ticket[cl] # NoTicket
        /\ relayed \subseteq network
        /\ network \cup acceptedFor \cup refusedFor \subseteq DOMAIN commands'
    BY <1>1 DEF RouteTypeOK
  <1>3. CASE UNCHANGED routeVars
    BY <1>1, <1>2, <1>3 DEF RouteTypeOK, routeVars
  <1>4. CASE RouterStart \/ RouterStop
    BY <1>1, <1>2, <1>4 DEF RouteTypeOK, RouterStart, RouterStop
  <1>5. CASE \E v \in VehicleIds : Discover(v)
    <2> PICK v \in VehicleIds : Discover(v)
      BY <1>5
    <2>1. registry' \in [VehicleIds -> Entry]
      BY <1>2 DEF Discover, Entry
    <2> QED BY <1>1, <1>2, <2>1 DEF RouteTypeOK, Discover
  <1>6. CASE \E v \in VehicleIds, caps \in CapabilitySets : Advertise(v, caps)
    <2> PICK v \in VehicleIds, caps \in CapabilitySets : Advertise(v, caps)
      BY <1>6
    <2>1. registry' \in [VehicleIds -> Entry]
      BY <1>2 DEF Advertise, Entry
    <2> QED BY <1>1, <1>2, <2>1 DEF RouteTypeOK, Advertise
  <1>7. CASE \E cl \in Clients, r \in Request : Receive(cl, r)
    BY <1>1, <1>2, <1>7 DEF RouteTypeOK, Receive, Goto, Stages, Tracked
  <1>8. CASE \E i \in network : VehicleResponds(i)
    BY <1>1, <1>2, <1>8 DEF RouteTypeOK, VehicleResponds
  <1>9. ASSUME NEW cl \in Clients, RouteStep(cl) PROVE RouteTypeOK'
    <2>1. CASE Lookup(cl) \/ TrackRefused(cl)
      BY <1>1, <1>2, <2>1 DEF RouteTypeOK, Lookup, TrackRefused, Goto, Stages, Tracked
    <2>2. CASE TrackOk(cl)
      <3>1. Len(commands) + 1 \in DOMAIN commands'
        BY <2>2, RequestFields, AppendedCommand DEF TrackOk, RouteTypeOK
      <3> QED BY <1>1, <1>2, <2>2, <3>1 DEF RouteTypeOK, TrackOk, Goto, Stages, Tracked
    <2>3. CASE Build(cl) \/ ReadConn(cl) \/ WriteFails(cl)
      BY <1>1, <1>2, <2>3 DEF RouteTypeOK, Build, ReadConn, WriteFails, Goto, Stages, Tracked
    <2>4. CASE WriteOk(cl)
      <3>1. ticket[cl] \in DOMAIN commands'
        BY <1>1, <1>2, <2>4 DEF WriteOk, Tracked
      <3> QED BY <1>1, <1>2, <2>4, <3>1 DEF RouteTypeOK, WriteOk, Goto, Stages, Tracked
    <2>5. CASE Undo(cl)
      BY <1>1, <1>2, <2>5 DEF RouteTypeOK, Undo, Goto, Stages, Tracked
    <2>6. CASE Reply(cl)
      <3>1. /\ request' \in [Clients -> Request]
            /\ ticket' \in [Clients -> DOMAIN commands' \cup {NoTicket}]
            /\ stage' \in [Clients -> Stages]
        BY <1>2, <2>6, NoRequestType DEF Reply, Goto, Stages
      <3>2. \A d \in Clients : stage'[d] \in Tracked => ticket'[d] # NoTicket
        BY <1>2, <2>6 DEF Reply, Goto, Tracked
      <3>3. acceptedFor' \cup refusedFor' \subseteq DOMAIN commands'
        BY <1>1, <1>2, <2>6 DEF Reply, Tracked
      <3> QED BY <1>1, <1>2, <2>6, <3>1, <3>2, <3>3 DEF RouteTypeOK, Reply
    <2> QED BY <1>9, <2>1, <2>2, <2>3, <2>4, <2>5, <2>6 DEF RouteStep
  <1> QED BY <1>3, <1>4, <1>5, <1>6, <1>7, <1>8, <1>9
          DEF Next, vars, WireTimeout, Clock, Timers

(* Type correctness: in particular, every Route past Track and before its  *)
(* reply owns a command of the tracker's, and a reply, a datagram or a     *)
(* vehicle's ack is about such a command.                                  *)
THEOREM RouteTypeCorrect == Spec => []RouteTypeOK
  BY RouteTypeInit, RouteTypeStep, PTL DEF Spec

----------------------------------------------------------------------------
(* Who owns which command *)

(* What is sent is not inductive alone.  A command belongs to one Route    *)
(* until its reply, and that Route's stage says whether it was sent; an    *)
(* error path takes commands of its own id only, so that one withdrawn     *)
(* with an id of its own is the Route's own, and unsent.                   *)
TicketsDiffer ==
  \A a, b \in Clients : ticket[a] # NoTicket /\ ticket[a] = ticket[b] => a = b

Holds(cl) ==
  /\ stage[cl] \in Tracked \cup {"refused"}
  /\ commands[ticket[cl]].CommandID = request[cl].CommandID
  /\ ticket[cl] \notin acceptedFor \cup refusedFor
  /\ ticket[cl] \in network <=> stage[cl] = "accepted"

TicketsHold == \A cl \in Clients : ticket[cl] # NoTicket => Holds(cl)

WithdrawnIsFinal ==
  \A i \in DOMAIN commands :
    outcome[i] = "acknowledged" /\ OwnId(i) =>
      /\ i \notin network
      /\ \A cl \in Clients : ticket[cl] = i => stage[cl] = "refused"

RouteInv ==
  TicketsDiffer /\ TicketsHold /\ ReplyMatchesNetwork /\ PendingIsRoutedOrSent /\ WithdrawnIsFinal

(* No Route runs and nothing is tracked at the start.                      *)
LEMMA RouteInvInit == Init => RouteInv
  BY DEF Init, TrackerInit, RouteInv, TicketsDiffer, TicketsHold, ReplyMatchesNetwork,
         PendingIsRoutedOrSent, WithdrawnIsFinal

(* The clock, timers that fire, the callback, the vehicles and Start and   *)
(* Stop touch nothing that RouteInv speaks of.                             *)
LEMMA RouteInvAside ==
  ASSUME RouteTypeOK, RouteInv,
         UNCHANGED <<commands, pending, outcome, stage, request, ticket, network,
                     acceptedFor, refusedFor>>
  PROVE  RouteInv'
  BY DEF RouteInv, TicketsDiffer, TicketsHold, Holds, ReplyMatchesNetwork,
         PendingIsRoutedOrSent, WithdrawnIsFinal, OwnId

(* A Route without a command of its own moves: it can own one only later.  *)
LEMMA RouteInvUnowned ==
  ASSUME RouteTypeOK, RouteInv, NEW cl \in Clients, NEW s \in Stages \ Tracked,
         stage[cl] \in {"idle", "lookup", "track"}, Goto(cl, s),
         \A d \in Clients : d # cl => request'[d] = request[d],
         UNCHANGED <<commands, pending, outcome, ticket, network, acceptedFor, refusedFor>>
  PROVE  RouteInv'
PROOF
  <1>1. ticket[cl] = NoTicket
    BY DEF RouteInv, TicketsHold, Holds, Tracked
  <1>2. \A d \in Clients : d # cl => stage'[d] = stage[d]
    BY DEF Goto, RouteTypeOK
  <1>3. TicketsDiffer' /\ ReplyMatchesNetwork'
    BY DEF RouteInv, TicketsDiffer, ReplyMatchesNetwork
  <1>4. TicketsHold'
    BY <1>1, <1>2 DEF RouteInv, TicketsHold, Holds
  <1>5. PendingIsRoutedOrSent'
    <2>1. \A d \in Clients : stage[d] \in Tracked => stage'[d] = stage[d]
      BY <1>2 DEF Tracked
    <2> QED BY <2>1 DEF RouteInv, PendingIsRoutedOrSent
  <1>6. WithdrawnIsFinal'
    <2>1. \A i \in DOMAIN commands : ticket[cl] # i
      BY <1>1 DEF RouteTypeOK, TypeOK, NoTicket
    <2> QED BY <1>2, <2>1 DEF RouteInv, WithdrawnIsFinal, OwnId
  <1> QED BY <1>3, <1>4, <1>5, <1>6 DEF RouteInv

(* A Route that owns a command moves on without a datagram: to the next    *)
(* step or to its error path.                                              *)
LEMMA RouteInvMoves ==
  ASSUME RouteTypeOK, RouteInv, NEW cl \in Clients, NEW s \in Tracked \ {"accepted"},
         stage[cl] \in Tracked \ {"accepted"}, Goto(cl, s),
         UNCHANGED <<commands, pending, outcome, request, ticket, network, acceptedFor, refusedFor>>
  PROVE  RouteInv'
PROOF
  <1>1. /\ stage'[cl] = s
        /\ \A d \in Clients : d # cl => stage'[d] = stage[d]
        /\ ticket[cl] # NoTicket
    BY DEF Goto, RouteTypeOK, Tracked
  <1>2. TicketsDiffer' /\ ReplyMatchesNetwork'
    BY DEF RouteInv, TicketsDiffer, ReplyMatchesNetwork
  <1>3. TicketsHold'
    BY <1>1 DEF RouteInv, TicketsHold, Holds
  <1>4. PendingIsRoutedOrSent'
    BY <1>1 DEF RouteInv, PendingIsRoutedOrSent
  <1>5. WithdrawnIsFinal'
    <2> SUFFICES ASSUME NEW i \in DOMAIN commands, outcome[i] = "acknowledged", OwnId(i)
                 PROVE  /\ i \notin network
                        /\ \A d \in Clients : ticket[d] = i => stage'[d] = "refused"
      BY DEF WithdrawnIsFinal, OwnId
    <2>1. ticket[cl] # i
      BY DEF RouteInv, WithdrawnIsFinal, Tracked
    <2> QED BY <1>1, <2>1 DEF RouteInv, WithdrawnIsFinal
  <1> QED BY <1>2, <1>3, <1>4, <1>5 DEF RouteInv

(* The datagram leaves: its Route owns the command, so no one was told an  *)
(* error for it and no other Route has withdrawn it.                       *)
LEMMA RouteInvWrite ==
  ASSUME RouteTypeOK, RouteInv, NEW cl \in Clients, WriteOk(cl)
  PROVE  RouteInv'
PROOF
  <1> DEFINE n == ticket[cl]
  <1>1. /\ stage[cl] = "write" /\ stage'[cl] = "accepted"
        /\ \A d \in Clients : d # cl => stage'[d] = stage[d]
        /\ network' = network \cup {n}
        /\ UNCHANGED <<commands, pending, outcome, request, ticket, acceptedFor, refusedFor>>
    BY DEF WriteOk, Goto, RouteTypeOK, trackerVars
  <1>2. n # NoTicket /\ Holds(cl)
    BY <1>1 DEF RouteTypeOK, RouteInv, TicketsHold, Tracked
  <1>3. \A d \in Clients : d # cl => ticket[d] # n
    BY <1>2 DEF RouteInv, TicketsDiffer
  <1>4. TicketsDiffer'
    BY <1>1 DEF RouteInv, TicketsDiffer
  <1>5. TicketsHold'
    BY <1>1, <1>2, <1>3 DEF RouteInv, TicketsHold, Holds, Tracked
  <1>6. ReplyMatchesNetwork'
    BY <1>1, <1>2 DEF RouteInv, ReplyMatchesNetwork, Holds
  <1>7. PendingIsRoutedOrSent'
    BY <1>1 DEF RouteInv, PendingIsRoutedOrSent
  <1>8. WithdrawnIsFinal'
    <2> SUFFICES ASSUME NEW i \in DOMAIN commands, outcome[i] = "acknowledged", OwnId(i)
                 PROVE  /\ i \notin network'
                        /\ \A d \in Clients : ticket[d] = i => stage'[d] = "refused"
      BY <1>1 DEF WithdrawnIsFinal, OwnId
    <2>1. n # i
      BY <1>1 DEF RouteInv, WithdrawnIsFinal
    <2> QED BY <1>1, <2>1 DEF RouteInv, WithdrawnIsFinal
  <1> QED BY <1>4, <1>5, <1>6, <1>7, <1>8 DEF RouteInv

(* Track accepts: the command is new, and no one else's.                   *)
LEMMA RouteInvTrack ==
  ASSUME RouteTypeOK, TimerInv, RouteInv, NEW cl \in Clients, TrackOk(cl)
  PROVE  RouteInv'
PROOF
  <1> DEFINE n == Len(commands) + 1
             c == request[cl].CommandID
             v == request[cl].VehicleID
  <1>1. TrackAccepted(c, v) /\ c \in CommandIds /\ v \in VehicleIds
    BY RequestFields DEF TrackOk
  <1>2. /\ DOMAIN commands' = DOMAIN commands \cup {n}
        /\ n \notin DOMAIN commands /\ n # NoTicket /\ n \in Indices
        /\ \A i \in DOMAIN commands : commands'[i] = commands[i]
        /\ commands'[n] = [CommandID |-> c, VehicleID |-> v, SentAt |-> now]
    <2>1. TypeOK
      BY DEF RouteTypeOK
    <2>2. n \in Indices
      BY <1>1, <2>1, AppendedCommand
    <2>3. n # NoTicket
      BY <2>2 DEF Indices, NoTicket
    <2> QED BY <1>1, <2>1, <2>2, <2>3, AppendedCommand
  <1>3. /\ stage[cl] = "track" /\ stage'[cl] = "build" /\ ticket'[cl] = n
        /\ \A d \in Clients : d # cl => stage'[d] = stage[d] /\ ticket'[d] = ticket[d]
        /\ pending' = [pending EXCEPT ![c] = n]
        /\ UNCHANGED <<outcome, request, network, acceptedFor, refusedFor>>
    BY <1>1 DEF TrackOk, TrackAccepted, Goto, RouteTypeOK
  <1>4. /\ network \cup acceptedFor \cup refusedFor \subseteq DOMAIN commands
        /\ \A d \in Clients : ticket[d] \in DOMAIN commands \cup {NoTicket}
    BY DEF RouteTypeOK
  <1>5. TicketsDiffer'
    BY <1>2, <1>3, <1>4 DEF RouteInv, TicketsDiffer
  <1>6. TicketsHold'
    <2> SUFFICES ASSUME NEW d \in Clients, ticket'[d] # NoTicket
                 PROVE  Holds(d)'
      BY DEF TicketsHold
    <2>1. CASE d = cl
      <3>1. commands'[n].CommandID = c
        BY <1>2
      <3> QED BY <1>2, <1>3, <1>4, <2>1, <3>1 DEF Holds, Tracked
    <2>2. CASE d # cl
      BY <1>2, <1>3, <1>4, <2>2 DEF RouteInv, TicketsHold, Holds
    <2> QED BY <2>1, <2>2
  <1>7. ReplyMatchesNetwork'
    BY <1>3 DEF RouteInv, ReplyMatchesNetwork
  <1>8. PendingIsRoutedOrSent'
    <2> SUFFICES ASSUME NEW d \in CommandIds, pending'[d] # Absent
                 PROVE  \/ pending'[d] \in network
                        \/ \E e \in Clients : ticket'[e] = pending'[d] /\ stage'[e] \in Tracked
      BY <1>3 DEF PendingIsRoutedOrSent
    <2>1. CASE d = c
      BY <1>1, <1>3, <2>1 DEF RouteTypeOK, TypeOK, Tracked
    <2>2. CASE d # c
      <3>1. pending'[d] = pending[d]
        BY <1>3, <2>2 DEF RouteTypeOK, TypeOK
      <3>2. \A e \in Clients : stage[e] \in Tracked => e # cl
        BY <1>3 DEF Tracked
      <3> QED BY <1>3, <3>1, <3>2 DEF RouteInv, PendingIsRoutedOrSent
    <2> QED BY <2>1, <2>2
  <1>9. WithdrawnIsFinal'
    <2> SUFFICES ASSUME NEW i \in DOMAIN commands', outcome[i] = "acknowledged", OwnId(i)'
                 PROVE  /\ i \notin network
                        /\ \A d \in Clients : ticket'[d] = i => stage'[d] = "refused"
      BY <1>3 DEF WithdrawnIsFinal
    <2>1. i # n
      BY <1>2 DEF TimerInv, UnusedIsOpen
    <2>2. i \in DOMAIN commands /\ OwnId(i)
      BY <1>2, <2>1 DEF OwnId
    <2> QED BY <1>3, <2>1, <2>2 DEF RouteInv, WithdrawnIsFinal
  <1> QED BY <1>5, <1>6, <1>7, <1>8, <1>9 DEF RouteInv

(* A timeout goroutine may only remove an entry.                           *)
LEMMA RouteInvHandle ==
  ASSUME RouteTypeOK, RouteInv, NEW u \in DOMAIN commands, HandleTimeout(u),
         UNCHANGED routeVars
  PROVE  RouteInv'
PROOF
  <1> DEFINE c == commands[u].CommandID
  <1>1. UNCHANGED <<commands, stage, request, ticket, network, acceptedFor, refusedFor>>
    BY DEF HandleTimeout, routeVars
  <1>2. /\ \A d \in CommandIds : pending'[d] # Absent => pending'[d] = pending[d]
        /\ \A i \in DOMAIN commands : outcome'[i] = "acknowledged" => outcome[i] = "acknowledged"
    <2>1. /\ pending \in [CommandIds -> DOMAIN commands \cup {Absent}]
          /\ outcome \in [Indices -> Outcome]
          /\ DOMAIN commands \subseteq Indices
      BY TrackerAssumption DEF RouteTypeOK, TypeOK, Indices
    <2>2. CASE pending[c] # Absent
      BY <2>1, <2>2 DEF HandleTimeout
    <2>3. CASE pending[c] = Absent
      BY <2>3 DEF HandleTimeout
    <2> QED BY <2>2, <2>3
  <1>3. TicketsDiffer' /\ TicketsHold' /\ ReplyMatchesNetwork'
    BY <1>1 DEF RouteInv, TicketsDiffer, TicketsHold, Holds, ReplyMatchesNetwork
  <1>4. PendingIsRoutedOrSent'
    BY <1>1, <1>2 DEF RouteInv, PendingIsRoutedOrSent
  <1>5. WithdrawnIsFinal'
    BY <1>1, <1>2 DEF RouteInv, WithdrawnIsFinal, OwnId
  <1> QED BY <1>3, <1>4, <1>5 DEF RouteInv

(* An error path withdraws whatever its id names.  If that is a command    *)
(* with an id of its own, then it is the Route's, which has not sent it.   *)
LEMMA RouteInvUndo ==
  ASSUME RouteTypeOK, TimerInv, RouteInv, NEW cl \in Clients, Undo(cl)
  PROVE  RouteInv'
PROOF
  <1> DEFINE n == ticket[cl]
             c == request[cl].CommandID
             i == pending[c]
  <1>1. /\ stage[cl] = "undo" /\ stage'[cl] = "refused"
        /\ \A d \in Clients : d # cl => stage'[d] = stage[d]
        /\ c \in CommandIds
        /\ UNCHANGED <<commands, request, ticket, network, acceptedFor, refusedFor>>
    BY RequestFields DEF Undo, Acknowledge, AcknowledgeFound, trackerVars, Goto, RouteTypeOK
  <1>2. /\ n \in DOMAIN commands /\ n # NoTicket
        /\ commands[n].CommandID = c /\ n \notin network
    BY <1>1 DEF RouteTypeOK, RouteInv, TicketsHold, Holds, Tracked
  <1>3. \A d \in Clients : d # cl => ticket[d] # n
    BY <1>2 DEF RouteInv, TicketsDiffer
  <1>4. /\ pending'[c] = Absent
        /\ \A d \in CommandIds : d # c => pending'[d] = pending[d]
        /\ \A j \in DOMAIN commands :
             outcome'[j] = "acknowledged" => outcome[j] = "acknowledged" \/ (j = i /\ i # Absent)
    <2>1. /\ pending \in [CommandIds -> DOMAIN commands \cup {Absent}]
          /\ outcome \in [Indices -> Outcome]
          /\ DOMAIN commands \subseteq Indices
      BY TrackerAssumption DEF RouteTypeOK, TypeOK, Indices
    <2>2. CASE i # Absent
      <3>1. AcknowledgeFound(c)
        BY <2>2 DEF Undo, Acknowledge
      <3> QED BY <1>1, <2>1, <2>2, <3>1 DEF AcknowledgeFound
    <2>3. CASE i = Absent
      <3>1. UNCHANGED trackerVars
        BY <2>3 DEF Undo, Acknowledge, AcknowledgeFound
      <3> QED BY <2>3, <3>1 DEF trackerVars
    <2> QED BY <2>2, <2>3
  <1>5. TicketsDiffer' /\ ReplyMatchesNetwork'
    BY <1>1 DEF RouteInv, TicketsDiffer, ReplyMatchesNetwork
  <1>6. TicketsHold'
    BY <1>1, <1>2 DEF RouteInv, TicketsHold, Holds
  <1>7. PendingIsRoutedOrSent'
    <2> SUFFICES ASSUME NEW d \in CommandIds, pending'[d] # Absent
                 PROVE  \/ pending'[d] \in network
                        \/ \E e \in Clients : ticket[e] = pending'[d] /\ stage'[e] \in Tracked
      BY <1>1 DEF PendingIsRoutedOrSent
    <2>1. d # c /\ pending'[d] = pending[d]
      BY <1>4
    (* The entry left is another id's, so it is not the Route's command.   *)
    <2>2. commands[pending[d]].CommandID = d
      BY <2>1 DEF TimerInv, PendingHasTimer
    <2>3. pending[d] # n
      BY <1>2, <2>1, <2>2
    <2> QED BY <1>1, <2>1, <2>3 DEF RouteInv, PendingIsRoutedOrSent
  <1>8. WithdrawnIsFinal'
    <2> SUFFICES ASSUME NEW j \in DOMAIN commands, outcome'[j] = "acknowledged", OwnId(j)
                 PROVE  /\ j \notin network
                        /\ \A d \in Clients : ticket[d] = j => stage'[d] = "refused"
      BY <1>1 DEF WithdrawnIsFinal, OwnId
    <2>1. CASE outcome[j] = "acknowledged"
      BY <1>1, <2>1 DEF RouteInv, WithdrawnIsFinal
    <2>2. CASE j = i /\ i # Absent
      <3>1. commands[j].CommandID = c
        BY <1>1, <2>2 DEF TimerInv, PendingHasTimer
      <3>2. j = n
        BY <1>2, <3>1 DEF OwnId
      <3> QED BY <1>1, <1>2, <1>3, <3>2
    <2> QED BY <1>4, <2>1, <2>2
  <1> QED BY <1>5, <1>6, <1>7, <1>8 DEF RouteInv

(* The reply ends the ownership; it says what the stage says.              *)
LEMMA RouteInvReply ==
  ASSUME RouteTypeOK, RouteInv, NEW cl \in Clients, Reply(cl)
  PROVE  RouteInv'
PROOF
  <1> DEFINE n == ticket[cl]
  <1>1. /\ stage'[cl] = "idle" /\ ticket'[cl] = NoTicket
        /\ \A d \in Clients : d # cl =>
             stage'[d] = stage[d] /\ ticket'[d] = ticket[d] /\ request'[d] = request[d]
        /\ UNCHANGED <<commands, pending, outcome, network>>
    BY DEF Reply, Goto, RouteTypeOK, trackerVars
  <1>2. \/ /\ stage[cl] = "accepted" /\ n # NoTicket
           /\ acceptedFor' = acceptedFor \cup {n} /\ refusedFor' = refusedFor
        \/ /\ stage[cl] = "refused"
           /\ refusedFor' = refusedFor \cup ({n} \ {NoTicket}) /\ acceptedFor' = acceptedFor
    BY DEF Reply, RouteTypeOK, Tracked
  <1>3. n # NoTicket => Holds(cl)
    BY DEF RouteInv, TicketsHold
  <1>4. \A d \in Clients : d # cl /\ ticket[d] # NoTicket => ticket[d] # n
    BY DEF RouteInv, TicketsDiffer
  <1>5. TicketsDiffer'
    BY <1>1 DEF RouteInv, TicketsDiffer
  <1>6. TicketsHold'
    BY <1>1, <1>2, <1>4 DEF RouteInv, TicketsHold, Holds
  <1>7. ReplyMatchesNetwork'
    BY <1>1, <1>2, <1>3 DEF RouteInv, ReplyMatchesNetwork, Holds
  <1>8. PendingIsRoutedOrSent'
    <2> SUFFICES ASSUME NEW c \in CommandIds, pending[c] # Absent, pending[c] \notin network
                 PROVE  \E d \in Clients : ticket'[d] = pending[c] /\ stage'[d] \in Tracked
      BY <1>1 DEF PendingIsRoutedOrSent
    <2>1. PICK d \in Clients : ticket[d] = pending[c] /\ stage[d] \in Tracked
      BY DEF RouteInv, PendingIsRoutedOrSent
    <2>2. d # cl
      BY <1>2, <1>3, <2>1 DEF Holds, Tracked
    <2> QED BY <1>1, <2>1, <2>2
  <1>9. WithdrawnIsFinal'
    <2>1. \A i \in DOMAIN commands : i # NoTicket
      BY DEF RouteTypeOK, TypeOK, NoTicket
    <2> QED BY <1>1, <2>1 DEF RouteInv, WithdrawnIsFinal, OwnId
  <1> QED BY <1>5, <1>6, <1>7, <1>8, <1>9 DEF RouteInv

(* The cases together.                                                     *)
LEMMA RouteInvStep == RouteTypeOK /\ TimerInv /\ RouteInv /\ [Next]_vars => RouteInv'
PROOF
  <1> SUFFICES ASSUME RouteTypeOK, TimerInv, RouteInv, [Next]_vars PROVE RouteInv'
    OBVIOUS
  <1>1. CASE UNCHANGED vars
    BY <1>1, RouteInvAside DEF vars, trackerVars, routeVars
  <1>2. CASE WireTimeout \/ Clock
    BY <1>2, RouteInvAside DEF WireTimeout, SetTimeoutCallback, Clock, Tick, routeVars
  <1>3. CASE \/ RouterStart \/ RouterStop
             \/ \E v \in VehicleIds : Discover(v)
             \/ \E v \in VehicleIds, caps \in CapabilitySets : Advertise(v, caps)
             \/ \E i \in network : VehicleResponds(i)
    BY <1>3, RouteInvAside
       DEF RouterStart, RouterStop, Discover, Advertise, VehicleResponds, trackerVars
  <1>4. ASSUME NEW cl \in Clients, NEW r \in Request, Receive(cl, r) PROVE RouteInv'
    <2>1. \A d \in Clients : d # cl => request'[d] = request[d]
      BY <1>4 DEF Receive, RouteTypeOK
    <2> QED BY <1>4, <2>1, RouteInvUnowned DEF Receive, Stages, Tracked, trackerVars
  <1>5. ASSUME NEW i \in Indices, Timers(i) PROVE RouteInv'
    <2>1. CASE TimerFires(i) \/ NotifyTimeout(i)
      BY <1>5, <2>1, RouteInvAside DEF Timers, TimerFires, NotifyTimeout, routeVars
    <2>2. CASE HandleTimeout(i)
      BY <1>5, <2>2, RouteInvHandle DEF Timers
    <2> QED BY <1>5, <2>1, <2>2 DEF Timers, TimeoutGoroutine
  <1>6. ASSUME NEW cl \in Clients, RouteStep(cl) PROVE RouteInv'
    <2>1. CASE Lookup(cl) \/ TrackRefused(cl)
      <3>1. /\ stage[cl] \in {"lookup", "track"}
            /\ \/ Goto(cl, "track") \/ Goto(cl, "refused")
            /\ UNCHANGED <<commands, pending, outcome, request, ticket, network,
                           acceptedFor, refusedFor>>
        BY <2>1 DEF Lookup, TrackRefused, TrackDuplicate, TrackRateLimited, trackerVars
      <3>2. "track" \in Stages \ Tracked /\ "refused" \in Stages \ Tracked
        BY DEF Stages, Tracked
      <3> QED BY <3>1, <3>2, RouteInvUnowned
    <2>2. CASE Build(cl) \/ ReadConn(cl) \/ WriteFails(cl)
      <3>1. /\ stage[cl] \in Tracked \ {"accepted"}
            /\ \E s \in Tracked \ {"accepted"} : Goto(cl, s)
            /\ UNCHANGED <<commands, pending, outcome, request, ticket, network,
                           acceptedFor, refusedFor>>
        BY <2>2 DEF Build, ReadConn, WriteFails, Tracked, trackerVars
      <3> QED BY <3>1, RouteInvMoves
    <2>3. CASE TrackOk(cl)
      BY <2>3, RouteInvTrack
    <2>4. CASE WriteOk(cl)
      BY <2>4, RouteInvWrite
    <2>5. CASE Undo(cl)
      BY <2>5, RouteInvUndo
    <2>6. CASE Reply(cl)
      BY <2>6, RouteInvReply
    <2> QED BY <1>6, <2>1, <2>2, <2>3, <2>4, <2>5, <2>6 DEF RouteStep
  <1> QED BY <1>1, <1>2, <1>3, <1>4, <1>5, <1>6 DEF Next

----------------------------------------------------------------------------
(* Theorems *)

(* The tracker's invariants hold of the tracker that routes share.         *)
PathInv == RouteTypeOK /\ LimiterInv /\ TimerInv /\ RouteInv

LEMMA PathInvInit == Init => PathInv
  BY RouteTypeInit, LimiterInit, TimerInvInit, RouteInvInit DEF Init, PathInv

LEMMA PathInvStep == PathInv /\ [Next]_vars => PathInv'
  BY RouteCases, RouteTypeStep, LimiterStep, TimerInvStep, RouteInvStep DEF PathInv, RouteTypeOK

LEMMA PathInvHolds == Spec => []PathInv
  BY PathInvInit, PathInvStep, PTL DEF Spec

(* A command that still waits for an answer was sent, or its Route is      *)
(* still running: no error path forgets to take it out of the tracker.     *)
THEOREM RoutedOrSent == Spec => []PendingIsRoutedOrSent
PROOF
  <1>1. PathInv => PendingIsRoutedOrSent
    BY DEF PathInv, RouteInv
  <1> QED BY <1>1, PathInvHolds, PTL

(* "accepted" is said of commands that were sent, an error of commands     *)
(* that were not and never will be.                                        *)
THEOREM RepliesAreTrue == Spec => []ReplyMatchesNetwork
PROOF
  <1>1. PathInv => ReplyMatchesNetwork
    BY DEF PathInv, RouteInv
  <1> QED BY <1>1, PathInvHolds, PTL

(* A command that was sent under an id of its own is never withdrawn.      *)
THEOREM SentStaysTracked == Spec => []SentNeverWithdrawn
PROOF
  <1>1. PathInv => SentNeverWithdrawn
    BY DEF PathInv, RouteTypeOK, RouteInv, WithdrawnIsFinal, SentNeverWithdrawn
  <1> QED BY <1>1, PathInvHolds, PTL

(* However many clients route at once, the limit per vehicle holds, and a  *)
(* pending command has a timer that will expire.                           *)
THEOREM RoutesKeepTheTracker ==
  Spec => [](RateBound /\ PendingHasTimer /\ TimeoutNotEarly /\ NoOrphanTimer)
PROOF
  <1>1. PathInv => RateBound /\ PendingHasTimer /\ TimeoutNotEarly /\ NoOrphanTimer
    BY DEF PathInv, LimiterInv, TimerInv
  <1> QED BY <1>1, PathInvHolds, PTL

----------------------------------------------------------------------------
(* The refinement *)

(* What is pending was neither refused nor timed out yet.                  *)
LEMMA PendingLives ==
  ASSUME PathInv, NEW c \in CommandIds, pending[c] # Absent
  PROVE  /\ pending[c] \in DOMAIN commands /\ pending[c] \in Indices
         /\ LifeOf(pending[c]) \in {"taken", "sent", "accepted"}
         /\ outcome[pending[c]] = "open"
PROOF
  <1>1. /\ pending[c] \in DOMAIN commands
        /\ DOMAIN commands \subseteq Indices
    BY TrackerAssumption DEF PathInv, RouteTypeOK, TypeOK, Indices
  <1>2. outcome[pending[c]] = "open"
    BY DEF PathInv, TimerInv, PendingHasTimer
  <1>3. pending[c] \notin refusedFor
    <2>1. CASE pending[c] \in network
      BY <2>1 DEF PathInv, RouteInv, ReplyMatchesNetwork
    <2>2. CASE pending[c] \notin network
      <3>1. PICK cl \in Clients : ticket[cl] = pending[c]
        BY <2>2 DEF PathInv, RouteInv, PendingIsRoutedOrSent
      <3>2. ticket[cl] # NoTicket
        BY <3>1 DEF Absent, NoTicket
      <3> QED BY <3>1, <3>2 DEF PathInv, RouteInv, TicketsHold, Holds
    <2> QED BY <2>1, <2>2
  <1> QED BY <1>1, <1>2, <1>3 DEF LifeOf

(* At the start no request is taken in.                                    *)
LEMMA LifeStarts == Init => Life!LifeInit
  BY DEF Init, TrackerInit, Life!LifeInit, LifeOf

(* What a step leaves alone of a command's life.                           *)
LEMMA LifeStutters ==
  ASSUME UNCHANGED <<commands, outcome, network, relayed, acceptedFor, refusedFor>>
  PROVE  UNCHANGED Life!lifeVars
  BY DEF Life!lifeVars, LifeOf

(* Track takes a request in.                                               *)
LEMMA LifeTaken ==
  ASSUME PathInv, NEW cl \in Clients, TrackOk(cl)
  PROVE  Life!LifeNext
PROOF
  <1>0. PICK n : n = Len(commands) + 1
    OBVIOUS
  <1>1. TypeOK /\ RouteTypeOK /\ UnusedIsOpen
    BY DEF PathInv, RouteTypeOK, TimerInv
  <1>2. /\ DOMAIN commands' = DOMAIN commands \cup {n}
        /\ n \notin DOMAIN commands /\ n \in Indices
    BY <1>0, <1>1, RequestFields, AppendedCommand DEF TrackOk
  <1>3. UNCHANGED <<outcome, network, relayed, acceptedFor, refusedFor>>
    BY DEF TrackOk, TrackAccepted
  <1>4. network \cup acceptedFor \cup refusedFor \subseteq DOMAIN commands
    BY <1>1 DEF RouteTypeOK
  <1>5. /\ LifeOf(n) = "none" /\ LifeOf(n)' = "taken"
        /\ \A i \in Indices : i # n => LifeOf(i)' = LifeOf(i)
    BY <1>2, <1>3, <1>4 DEF LifeOf
  <1>6. {i \in DOMAIN commands' : outcome'[i] = "timedout"} =
          {i \in DOMAIN commands : outcome[i] = "timedout"}
    BY <1>1, <1>2, <1>3 DEF UnusedIsOpen
  <1>7. Life!Take(n)
    BY <1>2, <1>3, <1>5, <1>6 DEF Life!Take, Life!Moves
  <1> QED BY <1>2, <1>7 DEF Life!LifeNext

(* The datagram sends it.                                                  *)
LEMMA LifeSent ==
  ASSUME PathInv, NEW cl \in Clients, WriteOk(cl)
  PROVE  Life!LifeNext
PROOF
  <1>0. PICK n : n = ticket[cl]
    OBVIOUS
  <1>1. /\ stage[cl] = "write" /\ network' = network \cup {n}
        /\ UNCHANGED <<commands, outcome, relayed, acceptedFor, refusedFor>>
    BY <1>0 DEF WriteOk, trackerVars
  <1>2. /\ n \in DOMAIN commands /\ n \notin network \cup acceptedFor \cup refusedFor
    BY <1>0, <1>1 DEF PathInv, RouteTypeOK, RouteInv, TicketsHold, Holds, Tracked
  <1>3. n \in Indices
    BY <1>2, TrackerAssumption DEF PathInv, RouteTypeOK, TypeOK, Indices
  <1>4. /\ LifeOf(n) = "taken" /\ LifeOf(n)' = "sent"
        /\ \A i \in Indices : i # n => LifeOf(i)' = LifeOf(i)
    BY <1>1, <1>2 DEF LifeOf
  <1>5. Life!Transmit(n)
    BY <1>1, <1>3, <1>4 DEF Life!Transmit, Life!Moves
  <1> QED BY <1>3, <1>5 DEF Life!LifeNext, Life!Proceed

(* The reply tells what became of it, if there is something to tell.       *)
LEMMA LifeTold ==
  ASSUME PathInv, NEW cl \in Clients, Reply(cl)
  PROVE  [Life!LifeNext]_(Life!lifeVars)
PROOF
  <1>0. PICK n : n = ticket[cl]
    OBVIOUS
  <1>1. UNCHANGED <<commands, outcome, network, relayed>>
    BY DEF Reply, trackerVars
  <1>2. n # NoTicket => n \in DOMAIN commands /\ n \in Indices /\ Holds(cl)
    BY <1>0, TrackerAssumption DEF PathInv, RouteTypeOK, TypeOK, Indices, RouteInv, TicketsHold
  <1>3. CASE stage[cl] = "accepted"
    <2>1. /\ acceptedFor' = acceptedFor \cup {n} /\ refusedFor' = refusedFor
          /\ n # NoTicket
      BY <1>0, <1>3 DEF Reply, PathInv, RouteTypeOK, Tracked
    <2>2. /\ LifeOf(n) = "sent" /\ LifeOf(n)' = "accepted"
          /\ \A i \in Indices : i # n => LifeOf(i)' = LifeOf(i)
      BY <1>0, <1>1, <1>2, <1>3, <2>1 DEF LifeOf, Holds
    <2>3. Life!TellAccepted(n)
      BY <1>1, <1>2, <2>1, <2>2 DEF Life!TellAccepted, Life!Moves
    <2> QED BY <1>2, <2>1, <2>3 DEF Life!LifeNext, Life!Proceed
  <1>4. CASE stage[cl] = "refused"
    <2>1. acceptedFor' = acceptedFor /\ refusedFor' = refusedFor \cup ({n} \ {NoTicket})
      BY <1>0, <1>4 DEF Reply
    <2>2. CASE n = NoTicket
      BY <1>1, <2>1, <2>2, LifeStutters
    <2>3. CASE n # NoTicket
      <3>1. /\ LifeOf(n) = "taken" /\ LifeOf(n)' = "refused"
            /\ \A i \in Indices : i # n => LifeOf(i)' = LifeOf(i)
        BY <1>0, <1>1, <1>2, <1>4, <2>1, <2>3 DEF LifeOf, Holds
      <3>2. Life!TellError(n)
        BY <1>1, <1>2, <2>1, <2>3, <3>1 DEF Life!TellError, Life!Moves
      <3> QED BY <1>2, <2>3, <3>2 DEF Life!LifeNext, Life!Proceed
    <2> QED BY <2>2, <2>3
  <1> QED BY <1>3, <1>4 DEF Reply

(* Only what was sent is answered.                                         *)
LEMMA LifeAnswered ==
  ASSUME PathInv, NEW n \in network, VehicleResponds(n)
  PROVE  Life!LifeNext
PROOF
  <1>1. /\ relayed' = relayed \cup {n}
        /\ UNCHANGED <<commands, outcome, network, acceptedFor, refusedFor>>
    BY DEF VehicleResponds, trackerVars
  <1>2. n \in Indices
    BY TrackerAssumption DEF PathInv, RouteTypeOK, TypeOK, Indices
  <1>3. LifeOf(n) \in {"sent", "accepted"}
    BY DEF PathInv, RouteInv, ReplyMatchesNetwork, LifeOf
  <1>4. \A i \in Indices : LifeOf(i)' = LifeOf(i)
    BY <1>1 DEF LifeOf
  <1>5. Life!Answer(n)
    BY <1>1, <1>2, <1>3, <1>4 DEF Life!Answer
  <1> QED BY <1>2, <1>5 DEF Life!LifeNext

(* A timeout gives up the entry it finds, which was not refused.           *)
LEMMA LifeGivenUp ==
  ASSUME PathInv, NEW u \in DOMAIN commands, HandleTimeout(u), UNCHANGED routeVars
  PROVE  [Life!LifeNext]_(Life!lifeVars)
PROOF
  <1> DEFINE c == commands[u].CommandID
  <1>0. PICK n : n = pending[c]
    OBVIOUS
  <1>1. UNCHANGED <<commands, network, relayed, acceptedFor, refusedFor>>
    BY DEF HandleTimeout, routeVars
  <1>2. c \in CommandIds
    BY CommandFields DEF PathInv, RouteTypeOK
  <1>3. \A i \in Indices : LifeOf(i)' = LifeOf(i)
    BY <1>1 DEF LifeOf
  <1>4. CASE n # Absent
    <2>1. /\ n \in DOMAIN commands /\ n \in Indices
          /\ LifeOf(n) \in {"taken", "sent", "accepted"}
      BY <1>0, <1>2, <1>4, PendingLives
    <2>2. outcome' = [outcome EXCEPT ![n] = "timedout"]
      BY <1>0, <1>4 DEF HandleTimeout
    <2>3. /\ outcome'[n] = "timedout"
          /\ \A i \in DOMAIN commands : i # n => outcome'[i] = outcome[i]
      BY <2>1, <2>2, TrackerAssumption DEF PathInv, RouteTypeOK, TypeOK, Indices
    <2>4. {i \in DOMAIN commands' : outcome'[i] = "timedout"} =
            {i \in DOMAIN commands : outcome[i] = "timedout"} \cup {n}
      BY <1>1, <2>1, <2>3
    <2>5. Life!GiveUp(n)
      BY <1>1, <1>3, <2>1, <2>4 DEF Life!GiveUp
    <2> QED BY <2>1, <2>5 DEF Life!LifeNext
  <1>5. CASE n = Absent
    <2>1. UNCHANGED outcome
      BY <1>0, <1>5 DEF HandleTimeout
    <2> QED BY <1>1, <2>1, LifeStutters
  <1> QED BY <1>4, <1>5

(* An error path's Acknowledge is invisible: what it takes out had not     *)
(* been given up.                                                          *)
LEMMA LifeUndone ==
  ASSUME PathInv, NEW cl \in Clients, Undo(cl)
  PROVE  UNCHANGED Life!lifeVars
PROOF
  <1> DEFINE c == request[cl].CommandID
             n == pending[c]
  <1>1. UNCHANGED <<commands, network, relayed, acceptedFor, refusedFor>>
    BY DEF Undo, Acknowledge, AcknowledgeFound, trackerVars
  <1>2. c \in CommandIds
    BY RequestFields DEF PathInv
  <1>3. CASE AcknowledgeFound(c)
    <2>1. n # Absent /\ n \in DOMAIN commands /\ outcome[n] = "open"
      BY <1>2, <1>3, PendingLives DEF AcknowledgeFound
    <2>2. /\ outcome'[n] = "acknowledged"
          /\ \A i \in DOMAIN commands : i # n => outcome'[i] = outcome[i]
      BY <1>3, <2>1, TrackerAssumption DEF AcknowledgeFound, PathInv, RouteTypeOK, TypeOK, Indices
    <2>3. {i \in DOMAIN commands' : outcome'[i] = "timedout"} =
            {i \in DOMAIN commands : outcome[i] = "timedout"}
      BY <1>1, <2>1, <2>2
    <2>4. \A i \in Indices : LifeOf(i)' = LifeOf(i)
      BY <1>1 DEF LifeOf
    <2> QED BY <1>1, <2>3, <2>4 DEF Life!lifeVars
  <1>4. CASE UNCHANGED trackerVars
    BY <1>1, <1>4, LifeStutters DEF trackerVars
  <1> QED BY <1>3, <1>4 DEF Undo, Acknowledge

(* The cases together: every step of the path is a step of some command's  *)
(* life, or invisible.                                                     *)
LEMMA LifeSteps == PathInv /\ [Next]_vars => [Life!LifeNext]_(Life!lifeVars)
PROOF
  <1> SUFFICES ASSUME PathInv, [Next]_vars PROVE [Life!LifeNext]_(Life!lifeVars)
    OBVIOUS
  <1>1. CASE UNCHANGED vars
    BY <1>1, LifeStutters DEF vars, trackerVars, routeVars
  <1>2. CASE WireTimeout \/ Clock
    BY <1>2, LifeStutters DEF WireTimeout, SetTimeoutCallback, Clock, Tick, routeVars
  <1>3. CASE \/ RouterStart \/ RouterStop
             \/ \E v \in VehicleIds : Discover(v)
             \/ \E v \in VehicleIds, caps \in CapabilitySets : Advertise(v, caps)
             \/ \E cl \in Clients, r \in Request : Receive(cl, r)
    BY <1>3, LifeStutters DEF RouterStart, RouterStop, Discover, Advertise, Receive, trackerVars
  <1>4. CASE \E i \in network : VehicleResponds(i)
    BY <1>4, LifeAnswered
  <1>5. ASSUME NEW i \in Indices, Timers(i) PROVE [Life!LifeNext]_(Life!lifeVars)
    <2>1. CASE TimerFires(i) \/ NotifyTimeout(i)
      BY <1>5, <2>1, LifeStutters DEF Timers, TimerFires, NotifyTimeout, routeVars
    <2>2. CASE HandleTimeout(i)
      BY <1>5, <2>2, LifeGivenUp DEF Timers
    <2> QED BY <1>5, <2>1, <2>2 DEF Timers, TimeoutGoroutine
  <1>6. ASSUME NEW cl \in Clients, RouteStep(cl) PROVE [Life!LifeNext]_(Life!lifeVars)
    <2>1. CASE \/ Lookup(cl) \/ TrackRefused(cl) \/ Build(cl) \/ ReadConn(cl) \/ WriteFails(cl)
      BY <2>1, LifeStutters
         DEF Lookup, TrackRefused, TrackDuplicate, TrackRateLimited, Build, ReadConn,
             WriteFails, trackerVars
    <2>2. CASE TrackOk(cl)
      BY <2>2, LifeTaken
    <2>3. CASE WriteOk(cl)
      BY <2>3, LifeSent
    <2>4. CASE Undo(cl)
      BY <2>4, LifeUndone
    <2>5. CASE Reply(cl)
      BY <2>5, LifeTold
    <2> QED BY <1>6, <2>1, <2>2, <2>3, <2>4, <2>5 DEF RouteStep
  <1> QED BY <1>1, <1>2, <1>3, <1>4, <1>5, <1>6 DEF Next

(* Route, the tracker and its timers implement the safety part of a        *)
(* command's life, for any number of clients, ids and commands: accepted   *)
(* only after it was sent, refused only if it never is, answered only if   *)
(* it was sent, never given up once refused.                               *)
THEOREM PathImplementsLife == Spec => Life!LifeSafety
PROOF
  <1>1. Init => PathInv /\ Life!LifeInit
    BY PathInvInit, LifeStarts
  <1>2. PathInv /\ [Next]_vars => PathInv' /\ [Life!LifeNext]_(Life!lifeVars)
    BY PathInvStep, LifeSteps
  <1> QED BY <1>1, <1>2, PTL DEF Spec, Life!LifeSafety

----------------------------------------------------------------------------
(* Capabilities *)

(* A Route gets past the check only with what its copy of the entry allows. *)
LEMMA PassedIsSupported ==
  ASSUME RouteTypeOK, [Next]_vars, NEW cl \in Clients, stage[cl] = "lookup", stage'[cl] = "track"
  PROVE  LET entry == registry[request[cl].VehicleID]
         IN  entry.legacy \/ IsCommandSupported(entry.caps, request[cl].command)
PROOF
  <1>1. /\ stage \in [Clients -> Stages]
        /\ \A d \in Clients : d # cl /\ RouteStep(d) => stage'[cl] = stage[cl]
    BY DEF RouteTypeOK, RouteStep, Lookup, TrackRefused, TrackOk, Build, ReadConn, WriteOk,
           WriteFails, Undo, Reply, Goto
  <1>2. \A d \in Clients, r \in Request : Receive(d, r) => d # cl /\ stage'[cl] = stage[cl]
    BY <1>1 DEF Receive, Goto
  <1>3. \/ UNCHANGED stage
        \/ \E d \in Clients, r \in Request : Receive(d, r)
        \/ \E d \in Clients : RouteStep(d)
    BY DEF Next, vars, routeVars, WireTimeout, RouterStart, RouterStop, Clock, Discover,
           Advertise, VehicleResponds, Timers
  <1>4. RouteStep(cl)
    BY <1>1, <1>2, <1>3
  <1>5. Lookup(cl)
    BY <1>4 DEF RouteStep, TrackRefused, TrackOk, Build, ReadConn, WriteOk, WriteFails,
                Undo, Reply
  <1> QED BY <1>1, <1>5 DEF Lookup, Goto

(* Where no vehicle advertises a namespace twice, the check against a copy *)
(* that may be stale, together with the builder after it, lets through     *)
(* nothing but what that copy declares.                                    *)
THEOREM OnlyDeclaredIsSent ==
  ASSUME \A caps \in CapabilitySets : IsCapabilities(caps) /\ UniqueNamespaces(caps),
         \A c \in Commands : c.parses \in BOOLEAN
  PROVE  Spec => UndeclaredIsNotSent
PROOF
  <1>1. ASSUME RouteTypeOK, [Next]_vars, NEW cl \in Clients,
               stage[cl] = "lookup", stage'[cl] = "track"
        PROVE  LET r == request[cl]
                   entry == registry[r.VehicleID]
               IN  entry.legacy \/ Declared(entry.caps, r.command) \/ ~BuildProtoCommand(r.command)
    <2> DEFINE r == request[cl]
               entry == registry[r.VehicleID]
    <2>1. entry.legacy \/ IsCommandSupported(entry.caps, r.command)
      BY <1>1, PassedIsSupported
    <2>2. entry.caps \in CapabilitySets \cup {Legacy} /\ r.command.parses \in BOOLEAN
      <3>1. r \in Request
        BY <1>1 DEF RouteTypeOK
      <3>2. entry \in Entry
        BY <1>1, RequestFields DEF RouteTypeOK
      <3> QED BY <3>1, <3>2 DEF Request, Entry
    <2>3. IsCapabilities(Legacy) /\ UniqueNamespaces(Legacy)
      BY DEF Legacy, IsCapabilities, UniqueNamespaces
    <2>4. IsCapabilities(entry.caps) /\ UniqueNamespaces(entry.caps)
      BY <2>2, <2>3
    <2> QED BY <2>1, <2>2, <2>4, CheckIsDeclaration
  <1>2. RouteTypeOK /\ [Next]_vars =>
          [\A cl \in Clients :
             stage[cl] = "lookup" /\ stage'[cl] = "track" =>
               LET r == request[cl]
                   entry == registry[r.VehicleID]
               IN entry.legacy \/ Declared(entry.caps, r.command)
                    \/ ~BuildProtoCommand(r.command)]_vars
    BY <1>1
  <1> QED BY <1>2, RouteTypeCorrect, PTL DEF Spec, UndeclaredIsNotSent
=============================================================================
