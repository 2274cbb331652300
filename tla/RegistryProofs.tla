--------------------------- MODULE RegistryProofs ---------------------------
(***************************************************************************)
(* Theorems about the vehicle registry and its sequence tracker.           *)
(*                                                                         *)
(* Module TelemetryDedup: the int32 comparison of sequence numbers is      *)
(* right for every width, every number of packets and every lateness up to *)
(* half the space.                                                         *)
(*                                                                         *)
(* Module FleetRegistry: status, marks and view, for any vehicles,         *)
(* timeouts, width of sequence numbers and lateness of the status check.   *)
(***************************************************************************)
EXTENDS FleetRegistry, TelemetryDedup, TLAPS

----------------------------------------------------------------------------
(* TelemetryDedup: remainders and distances *)

(* A remainder is what the division algorithm says.                        *)
LEMMA ModOfSum ==
  ASSUME NEW S \in Nat \ {0}, NEW x \in Int, NEW q \in Int, NEW r \in 0 .. S - 1,
         x = S * q + r
  PROVE  x % S = r
  OBVIOUS

(* And every number has that form.                                         *)
LEMMA ModSplit ==
  ASSUME NEW S \in Nat \ {0}, NEW x \in Int
  PROVE  \E q \in Int : x = (S * q) + (x % S) /\ x % S \in 0 .. S - 1
<1>1. x \div S \in Int /\ x = (S * (x \div S)) + (x % S) /\ x % S \in 0 .. S - 1
  OBVIOUS
<1> QED BY <1>1

(* Subtracting wrapped numbers and wrapping again loses nothing: what      *)
(* seqAfter computes from two wire numbers is a remainder of the distance  *)
(* of the packets they stand for.                                          *)
LEMMA ModOfDifference ==
  ASSUME NEW S \in Nat \ {0}, NEW a \in Int, NEW b \in Int
  PROVE  ((a % S) - (b % S)) % S = (a - b) % S
<1> DEFINE r == (a - b) % S
           d == (a % S) - (b % S)
<1>1. PICK p \in Int : a = (S * p) + (a % S) /\ a % S \in 0 .. S - 1
  BY ModSplit
<1>2. PICK q \in Int : b = (S * q) + (b % S) /\ b % S \in 0 .. S - 1
  BY ModSplit
<1>3. a - b \in Int
  OBVIOUS
<1>4. PICK k \in Int : a - b = (S * k) + r /\ r \in 0 .. S - 1
  BY <1>3, ModSplit
<1>5. S * (k - p + q) = (S * k) - (S * p) + (S * q)
  OBVIOUS
<1>6. d = (S * (k - p + q)) + r
  BY <1>1, <1>2, <1>4, <1>5
<1>7. d \in Int /\ r \in 0 .. S - 1 /\ k - p + q \in Int
  BY <1>1, <1>2, <1>4
<1> HIDE DEF r, d
<1>8. d % S = r
  BY <1>6, <1>7, ModOfSum
<1> QED BY <1>8 DEF r, d

(* seqAfter on the wire numbers of two packets less than HalfSpace apart   *)
(* orders the packets.                                                     *)
LEMMA SeqAfterIsOrder ==
  ASSUME NEW a \in Int, NEW b \in Int, a - b < HalfSpace, b - a < HalfSpace
  PROVE  SeqAfter(a % SeqSpace, b % SeqSpace) <=> a > b
<1>1. HalfSpace \in Nat \ {0} /\ SeqSpace = 2 * HalfSpace /\ SeqSpace \in Nat \ {0}
  BY HalfSpaceAssumption DEF SeqSpace
<1> DEFINE diff == (a - b) % SeqSpace
<1>2. ((a % SeqSpace) - (b % SeqSpace)) % SeqSpace = diff
  BY <1>1, ModOfDifference
<1>3. a - b \in Int
  OBVIOUS
<1>4. CASE a >= b
  <2>1. a - b \in 0 .. SeqSpace - 1 /\ a - b = (SeqSpace * 0) + (a - b)
    BY <1>1, <1>3, <1>4
  <2>2. diff = a - b
    BY <1>1, <1>3, <2>1, ModOfSum
  <2> QED BY <1>2, <1>4, <2>2 DEF SeqAfter
<1>5. CASE a < b
  <2>1. a - b + SeqSpace \in 0 .. SeqSpace - 1
        /\ a - b = (SeqSpace * (-1)) + (a - b + SeqSpace)
    BY <1>1, <1>3, <1>5
  <2>2. diff = a - b + SeqSpace
    BY <1>1, <1>3, <2>1, ModOfSum
  <2>3. ~ (diff < HalfSpace)
    BY <1>1, <2>2
  <2> QED BY <1>2, <1>5, <2>3 DEF SeqAfter
<1> QED BY <1>4, <1>5

----------------------------------------------------------------------------
(* The inductive invariant: the packet last accepted was sent, and it lags *)
(* the newest by at most half the sequence space.                          *)
LastIsNear(v) ==
  /\ oldest[v] <= sent[v]
  /\ last[v] # NotSeen => last[v] < sent[v] /\ sent[v] - last[v] <= HalfSpace

DedupInv == DedupTypeOK /\ \A v \in VehicleIds : LastIsNear(v)

(* What the invariant is for: near packets are judged by their order.      *)
LEMMA NearIsJudged ==
  ASSUME DedupInv
  PROVE  AcceptsExactlyNewer
<1> SUFFICES ASSUME NEW v \in VehicleIds, NEW n \in InFlight(v)
             PROVE  Accepts(v, n % SeqSpace) <=> n > last[v]
  BY DEF AcceptsExactlyNewer
<1>1. /\ sent[v] \in Nat /\ oldest[v] \in Nat
      /\ last[v] \in Nat \cup {NotSeen}
      /\ highWaterMark[v] = IF last[v] = NotSeen THEN NotSeen ELSE last[v] % SeqSpace
      /\ LastIsNear(v)
      /\ Skew \in Nat /\ Skew <= HalfSpace
      /\ HalfSpace \in Nat \ {0}
  BY SkewAssumption, HalfSpaceAssumption DEF DedupInv, DedupTypeOK
<1>2. n \in Nat /\ n < sent[v] /\ n >= sent[v] - Skew
  BY <1>1 DEF InFlight, Larger
<1>3. CASE last[v] = NotSeen
  BY <1>1, <1>2, <1>3 DEF Accepts, NotSeen
<1>4. CASE last[v] # NotSeen
  <2>1. last[v] \in Nat /\ last[v] < sent[v] /\ sent[v] - last[v] <= HalfSpace
    BY <1>1, <1>4 DEF LastIsNear
  <2>2. n - last[v] < HalfSpace /\ last[v] - n < HalfSpace
    BY <1>1, <1>2, <2>1
  <2>3. SeqAfter(n % SeqSpace, last[v] % SeqSpace) <=> n > last[v]
    BY <1>2, <2>1, <2>2, SeqAfterIsOrder
  <2>4. last[v] % SeqSpace \in Nat
    BY <2>1, HalfSpaceAssumption DEF SeqSpace
  <2> QED BY <1>1, <1>4, <2>3, <2>4 DEF Accepts, NotSeen
<1> QED BY <1>3, <1>4

(* At the start nothing was sent.                                          *)
LEMMA DedupInvInit ==
  ASSUME DedupInit
  PROVE  DedupInv
  BY SkewAssumption DEF DedupInit, SequenceInit, DedupInv, DedupTypeOK, LastIsNear, NotSeen

(* A packet offered keeps it: it is newer than the last one if it is taken. *)
LEMMA DedupInvOffer ==
  ASSUME DedupInv, NEW v \in VehicleIds, NEW n \in InFlight(v), Offer(v, n)
  PROVE  DedupInv'
<1>1. Accepts(v, n % SeqSpace) <=> n > last[v]
  BY NearIsJudged DEF AcceptsExactlyNewer
<1>2. /\ sent \in [VehicleIds -> 0 .. MaxSent]
      /\ oldest \in [VehicleIds -> 0 .. MaxSent]
      /\ last \in [VehicleIds -> 0 .. MaxSent - 1 \cup {NotSeen}]
      /\ highWaterMark \in [VehicleIds -> Seqs \cup {NotSeen}]
      /\ Skew \in Nat /\ Skew <= HalfSpace /\ HalfSpace \in Nat \ {0} /\ MaxSent \in Nat
  BY SkewAssumption, HalfSpaceAssumption DEF DedupInv, DedupTypeOK
<1>3. n \in 0 .. MaxSent - 1 /\ n < sent[v] /\ sent[v] - n <= HalfSpace
  BY <1>2 DEF InFlight, Larger
<1>4. n % SeqSpace \in Seqs
  BY <1>2, <1>3 DEF SeqSpace, Seqs
<1>5. UNCHANGED <<sent, oldest>>
  BY DEF Offer
<1>6. CASE Accepts(v, n % SeqSpace)
  <2>1. /\ highWaterMark' = [highWaterMark EXCEPT ![v] = n % SeqSpace]
        /\ last' = [last EXCEPT ![v] = n]
    BY <1>6 DEF Offer, Accept
  <2>2. DedupTypeOK'
    BY <1>2, <1>3, <1>4, <1>5, <2>1 DEF DedupInv, DedupTypeOK, NotSeen
  <2>3. \A w \in VehicleIds : LastIsNear(w)'
    BY <1>2, <1>3, <1>5, <2>1 DEF DedupInv, LastIsNear
  <2> QED BY <2>2, <2>3 DEF DedupInv
<1>7. CASE ~ Accepts(v, n % SeqSpace)
  <2>1. UNCHANGED <<highWaterMark, last>>
    BY <1>2, <1>7 DEF Offer, Accept
  <2> QED BY <1>5, <2>1 DEF DedupInv, DedupTypeOK, LastIsNear
<1> QED BY <1>6, <1>7

(* Every other step keeps it too.                                          *)
LEMMA DedupInvStep ==
  ASSUME DedupInv, [DedupNext]_dedupVars
  PROVE  DedupInv'
<1> USE SkewAssumption, HalfSpaceAssumption
<1>1. ASSUME NEW v \in VehicleIds, Send(v)
      PROVE  DedupInv'
  BY <1>1 DEF DedupInv, DedupTypeOK, LastIsNear, Send, NotSeen
<1>2. ASSUME NEW v \in VehicleIds, NEW n \in InFlight(v), Offer(v, n)
      PROVE  DedupInv'
  BY <1>2, DedupInvOffer
<1>3. ASSUME NEW v \in VehicleIds, NEW rebooted \in BOOLEAN, ReturnOnline(v, rebooted)
      PROVE  DedupInv'
  BY <1>3 DEF DedupInv, DedupTypeOK, LastIsNear, ReturnOnline, Reset, NotSeen
<1>4. CASE ForgetAll
  BY <1>4 DEF DedupInv, DedupTypeOK, LastIsNear, ForgetAll, ResetAll, NotSeen
<1>5. CASE UNCHANGED dedupVars
  BY <1>5 DEF DedupInv, DedupTypeOK, LastIsNear, dedupVars
<1> QED BY <1>1, <1>2, <1>3, <1>4, <1>5 DEF DedupNext

(* In every behaviour the mark is the wire number of the packet accepted   *)
(* last: sequence.go keeps its map in step with the network.               *)
THEOREM DedupTypeCorrect == DedupSpec => []DedupTypeOK
<1>1. DedupInit => DedupInv
  BY DedupInvInit
<1>2. DedupInv /\ [DedupNext]_dedupVars => DedupInv'
  BY DedupInvStep
<1>3. DedupInv => DedupTypeOK
  BY DEF DedupInv
<1> QED BY <1>1, <1>2, <1>3, PTL DEF DedupSpec

(* Accept takes exactly the packets newer than all it took, for every      *)
(* width of the sequence number and through every number of wrap-arounds.  *)
THEOREM DedupCorrect == DedupSpec => []AcceptsExactlyNewer
<1>1. DedupInit => DedupInv
  BY DedupInvInit
<1>2. DedupInv /\ [DedupNext]_dedupVars => DedupInv'
  BY DedupInvStep
<1>3. DedupInv => AcceptsExactlyNewer
  BY NearIsJudged
<1> QED BY <1>1, <1>2, <1>3, PTL DEF DedupSpec

----------------------------------------------------------------------------
(* The refinement.  Initially nothing is let through on either side.       *)
LEMMA DeliveryStarts ==
  ASSUME DedupInit
  PROVE  Delivery!DeliveryInit
  BY DEF DedupInit, Delivery!DeliveryInit, Delivery!None, NotSeen

(* A step of the tracker delivers a newer packet, starts afresh, or is     *)
(* invisible: a packet that is refused, or sent and not yet arrived.       *)
LEMMA DeliverySteps ==
  ASSUME DedupInv, [DedupNext]_dedupVars
  PROVE  [Delivery!DeliveryNext]_last
<1> USE DEF Delivery!None, NotSeen
<1>0. /\ MaxSent \in Nat /\ Skew \in Nat
      /\ last \in [VehicleIds -> 0 .. MaxSent - 1 \cup {NotSeen}]
      /\ sent \in [VehicleIds -> 0 .. MaxSent] /\ oldest \in [VehicleIds -> 0 .. MaxSent]
  BY SkewAssumption DEF DedupInv, DedupTypeOK
<1>1. ASSUME NEW v \in VehicleIds, Send(v)
      PROVE  UNCHANGED last
  BY <1>1 DEF Send
<1>2. ASSUME NEW v \in VehicleIds, NEW n \in InFlight(v), Offer(v, n)
      PROVE  [Delivery!DeliveryNext]_last
  <2>1. n \in 0 .. MaxSent - 1
    BY <1>0 DEF InFlight, Larger
  <2>2. CASE Accepts(v, n % SeqSpace)
    <3>1. n > last[v]
      BY <2>2, NearIsJudged DEF AcceptsExactlyNewer
    <3>2. last' = [last EXCEPT ![v] = n]
      BY <1>2, <2>2 DEF Offer
    <3>3. Delivery!Deliver(v, n)
      BY <3>1, <3>2 DEF Delivery!Deliver
    <3> QED BY <2>1, <3>3 DEF Delivery!DeliveryNext
  <2>3. CASE ~ Accepts(v, n % SeqSpace)
    <3>1. last' = [last EXCEPT ![v] = last[v]]
      BY <1>2, <2>3 DEF Offer
    <3> QED BY <1>0, <3>1
  <2> QED BY <2>2, <2>3
<1>3. ASSUME NEW v \in VehicleIds, NEW rebooted \in BOOLEAN, ReturnOnline(v, rebooted)
      PROVE  [Delivery!DeliveryNext]_last
  <2>1. last' = [last EXCEPT ![v] = NotSeen]
    BY <1>3 DEF ReturnOnline
  <2>2. last' = [w \in VehicleIds |-> IF w \in {v} THEN NotSeen ELSE last[w]]
    BY <1>0, <2>1
  <2>3. Delivery!StartAfresh({v})
    BY <2>2 DEF Delivery!StartAfresh
  <2> QED BY <2>3 DEF Delivery!DeliveryNext
<1>4. CASE ForgetAll
  <2>1. last' = [w \in VehicleIds |-> IF w \in VehicleIds THEN NotSeen ELSE last[w]]
    BY <1>4 DEF ForgetAll
  <2>2. Delivery!StartAfresh(VehicleIds)
    BY <2>1 DEF Delivery!StartAfresh
  <2> QED BY <2>2 DEF Delivery!DeliveryNext
<1>5. CASE UNCHANGED dedupVars
  BY <1>5 DEF dedupVars
<1> QED BY <1>1, <1>2, <1>3, <1>4, <1>5 DEF DedupNext

(* The tracker on its network implements ordered delivery, for every width *)
(* of the sequence numbers, every lateness within half of them and any     *)
(* number of vehicles and packets.                                         *)
THEOREM DedupImplementsDelivery == DedupSpec => ImplementsOrderedDelivery
<1>1. DedupInit => DedupInv /\ Delivery!DeliveryInit
  BY DedupInvInit, DeliveryStarts
<1>2. DedupInv /\ [DedupNext]_dedupVars => DedupInv' /\ [Delivery!DeliveryNext]_last
  BY DedupInvStep, DeliverySteps
<1> QED BY <1>1, <1>2, PTL DEF DedupSpec, ImplementsOrderedDelivery, Delivery!DeliverySpec

----------------------------------------------------------------------------
(* FleetRegistry: steps *)

(* What a step does, one case per critical section.                        *)
FleetStep(v) ==
  \/ Discover(v) \/ StayOnline(v)
  \/ moves[v] < MaxTransitions /\ (Resume(v) \/ Return(v))
  \/ UpdateCapabilities(v) \/ Remove(v)
  \/ \E seq \in Seqs : OfferSeq(v, seq)

LEMMA FleetCases ==
  ASSUME [Next]_vars
  PROVE  \/ UNCHANGED vars
         \/ Tick
         \/ CheckTimeouts
         \/ \E v \in VehicleIds : FleetStep(v)
         \/ \E t \in notices : RunCallback(t)
  BY DEF Next, OtherSteps, RecordTelemetry, FleetStep

----------------------------------------------------------------------------
(* Types *)

LEMMA FleetTypeInit == Init => TypeOK
  BY RegistryAssumption
     DEF Init, SequenceInit, TypeOK, Times, NoTick, NoVehicle, Vehicle, Status, NoFrame

(* A transition adds one to the count and one frame to what is emitted.    *)
LEMMA NotifyTypes ==
  ASSUME TypeOK, NEW vs \in SUBSET VehicleIds, \A v \in vs : moves[v] < MaxTransitions,
         vehicles' \in [VehicleIds -> Vehicle], NotifyTransitions(vs)
  PROVE  moves' \in [VehicleIds -> 0 .. MaxTransitions] /\ notices' \subseteq TransitionFrame
PROOF
  <1>1. \A v \in VehicleIds : moves[v] \in 0 .. MaxTransitions /\ vehicles'[v].status \in Status
    BY DEF TypeOK, Vehicle
  <1>2. \A v \in vs : moves[v] + 1 \in 1 .. MaxTransitions
    BY <1>1, RegistryAssumption
  <1>3. moves' \in [VehicleIds -> 0 .. MaxTransitions]
    BY <1>1, <1>2, RegistryAssumption DEF NotifyTransitions
  <1>4. \A v \in vs :
          [vehicle |-> v, to |-> vehicles'[v].status, serial |-> moves[v] + 1] \in TransitionFrame
    BY <1>1, <1>2 DEF TransitionFrame
  <1> QED BY <1>3, <1>4 DEF NotifyTransitions, TypeOK

(* The numbers that Accept keeps, and what Reset leaves.                   *)
LEMMA MarkTypes ==
  ASSUME TypeOK, NEW v \in VehicleIds,
         Reset(v) \/ (\E seq \in Seqs : Accept(v, seq)) \/ UNCHANGED highWaterMark
  PROVE  highWaterMark' \in [VehicleIds -> Seqs \cup {NotSeen}]
  BY DEF TypeOK, Reset, Accept

LEMMA FleetTypeStep == TypeOK /\ [Next]_vars => TypeOK'
PROOF
  <1> SUFFICES ASSUME TypeOK, [Next]_vars PROVE TypeOK'
    OBVIOUS
  <1> USE DEF TypeOK
  <1>1. CASE UNCHANGED vars
    BY <1>1 DEF vars, fleetVars
  <1>2. CASE Tick
    <2>1. now' \in Times /\ due' \in Times \cup {NoTick}
      BY <1>2, RegistryAssumption DEF Tick, Times
    <2> QED BY <1>2, <2>1 DEF Tick
  <1>3. CASE CheckTimeouts
    <2> DEFINE moved == {v \in VehicleIds : AfterCheck(vehicles[v]) # vehicles[v]}
    <2>1. \A v \in VehicleIds : AfterCheck(vehicles[v]) \in Vehicle
      <3> SUFFICES ASSUME NEW v \in VehicleIds PROVE AfterCheck(vehicles[v]) \in Vehicle
        OBVIOUS
      <3>1. vehicles[v] \in Vehicle
        OBVIOUS
      <3> QED BY <3>1 DEF AfterCheck, Vehicle, Status
    <2>2. vehicles' \in [VehicleIds -> Vehicle]
      BY <1>3, <2>1 DEF CheckTimeouts
    <2>3. /\ moved \in SUBSET VehicleIds
          /\ \A v \in moved : moves[v] < MaxTransitions
          /\ NotifyTransitions(moved)
      BY <1>3 DEF CheckTimeouts
    <2>4. moves' \in [VehicleIds -> 0 .. MaxTransitions] /\ notices' \subseteq TransitionFrame
      BY <2>2, <2>3, NotifyTypes
    <2> QED BY <1>3, <2>2, <2>4 DEF CheckTimeouts
  <1>4. ASSUME NEW v \in VehicleIds, FleetStep(v) PROVE TypeOK'
    <2>1. highWaterMark' \in [VehicleIds -> Seqs \cup {NotSeen}]
      BY <1>4, MarkTypes
         DEF FleetStep, Discover, StayOnline, Resume, Return, UpdateCapabilities, Remove, OfferSeq
    <2>2. vehicles[v] \in Vehicle /\ now \in Times
      OBVIOUS
    <2>2a. Seen(v) \in Vehicle
      BY <2>2 DEF Seen, Vehicle, Status
    <2>3. CASE Discover(v) \/ StayOnline(v) \/ UpdateCapabilities(v) \/ Remove(v)
      <3>1. [known |-> TRUE, status |-> "online", lastSeen |-> now, capabilities |-> FALSE]
              \in Vehicle
        BY <2>2 DEF Vehicle, Status
      <3>2. NoVehicle \in Vehicle
        BY RegistryAssumption DEF NoVehicle, Vehicle, Status, Times
      <3>3. [vehicles[v] EXCEPT !.capabilities = TRUE] \in Vehicle
        BY <2>2 DEF Vehicle
      <3>4. \E e \in Vehicle : vehicles' = [vehicles EXCEPT ![v] = e] \/ vehicles' = vehicles
        BY <2>3, <2>2a, <3>1, <3>2, <3>3
           DEF Discover, StayOnline, UpdateCapabilities, Remove
      <3>5. vehicles' \in [VehicleIds -> Vehicle]
        BY <3>4
      <3> QED BY <2>1, <2>3, <3>5 DEF Discover, StayOnline, UpdateCapabilities, Remove
    <2>4. CASE moves[v] < MaxTransitions /\ (Resume(v) \/ Return(v))
      <3>1. vehicles' \in [VehicleIds -> Vehicle]
        BY <2>2a, <2>4 DEF Resume, Return
      <3>2. NotifyTransitions({v})
        BY <2>4 DEF Resume, Return
      <3>3. moves' \in [VehicleIds -> 0 .. MaxTransitions] /\ notices' \subseteq TransitionFrame
        BY <2>4, <3>1, <3>2, NotifyTypes
      <3> QED BY <2>1, <2>4, <3>1, <3>3 DEF Resume, Return
    <2>5. ASSUME NEW seq \in Seqs, OfferSeq(v, seq) PROVE TypeOK'
      <3>1. freshMark' \in [VehicleIds -> BOOLEAN]
        BY <2>5 DEF OfferSeq, Accepts, SeqAfter
      <3> QED BY <2>1, <2>5, <3>1 DEF OfferSeq
    <2> QED BY <1>4, <2>3, <2>4, <2>5 DEF FleetStep
  <1>5. ASSUME NEW t \in notices, RunCallback(t) PROVE TypeOK'
    <2>1. t.vehicle \in VehicleIds /\ t.to \in Status
      BY DEF TransitionFrame
    <2>2. view' \in [VehicleIds -> Status \cup {NoFrame}]
      BY <1>5, <2>1 DEF RunCallback
    <2>3. inOrder' \in [VehicleIds -> BOOLEAN]
      BY <1>5, <2>1 DEF RunCallback
    <2> QED BY <1>5, <2>2, <2>3 DEF RunCallback
  <1> QED BY FleetCases, <1>1, <1>2, <1>3, <1>4, <1>5

----------------------------------------------------------------------------
(* Silence *)

(* A check leaves nobody past a limit that it compares; between two checks *)
(* the silence grows with the clock, and the clock is at most MaxLag ahead *)
(* of the tick that waits for the check.                                   *)
Since == now - due
StandbyBound == Latest(OfflineTimeout, StandbyTimeout + MaxLag + 1)

LagBound == due # NoTick => due <= now /\ Since <= MaxLag

OnlineBound(v) ==
  Known(v) /\ vehicles[v].status = "online" =>
    IF due = NoTick THEN Elapsed(v) < StandbyTimeout ELSE Elapsed(v) <= StandbyTimeout + Since

SilentBound(v) ==
  Known(v) /\ vehicles[v].status = "standby" =>
    IF due = NoTick THEN Elapsed(v) < StandbyBound ELSE Elapsed(v) <= StandbyBound + Since

SilenceInv ==
  LagBound /\ SilenceIsReal /\ \A v \in VehicleIds : OnlineBound(v) /\ SilentBound(v)

LEMMA SilenceImplied == TypeOK /\ SilenceInv => StatusMeansSilence
PROOF
  <1> SUFFICES ASSUME TypeOK, SilenceInv PROVE StatusMeansSilence
    OBVIOUS
  <1>1. /\ StandbyTimeout \in Nat \ {0} /\ OfflineTimeout \in Nat /\ MaxLag \in Nat
        /\ now \in Nat /\ (due # NoTick => due \in Nat)
    BY RegistryAssumption DEF TypeOK, Times
  <1>2. \A v \in VehicleIds : vehicles[v].lastSeen \in Nat
    BY RegistryAssumption DEF TypeOK, Vehicle, Times
  <1>3. StandbyBound \in Nat
    BY <1>1 DEF StandbyBound, Latest
  <1>4. StatusIsFresh
    <2> SUFFICES ASSUME NEW v \in VehicleIds
                 PROVE  /\ Known(v) /\ vehicles[v].status = "online" =>
                             Elapsed(v) <= StandbyTimeout + MaxLag
                        /\ Known(v) /\ vehicles[v].status = "standby" =>
                             Elapsed(v) <= StandbyBound + MaxLag
      BY DEF StatusIsFresh, Known, StandbyLatest, StandbyBound
    <2> QED BY <1>1, <1>2, <1>3
            DEF SilenceInv, LagBound, OnlineBound, SilentBound, Since, Elapsed
  <1> QED BY <1>4 DEF StatusMeansSilence, SilenceInv

(* A step of one vehicle that leaves the clock alone: either the entry     *)
(* keeps its status and its time, or it was heard just now, or it is gone. *)
LEMMA SilenceVehicle ==
  ASSUME TypeOK, SilenceInv, UNCHANGED <<now, due>>,
         \A w \in VehicleIds :
           \/ /\ vehicles'[w].status = vehicles[w].status
              /\ vehicles'[w].lastSeen = vehicles[w].lastSeen
              /\ vehicles'[w].known = vehicles[w].known
           \/ vehicles'[w].status = "online" /\ vehicles'[w].lastSeen = now
           \/ ~vehicles'[w].known
  PROVE  SilenceInv'
PROOF
  <1>1. /\ StandbyTimeout \in Nat \ {0} /\ MaxLag \in Nat
        /\ now \in Nat /\ (due # NoTick => due \in Nat)
    BY RegistryAssumption DEF TypeOK, Times
  <1>2. LagBound'
    BY DEF SilenceInv, LagBound, Since
  <1>3. SilenceIsReal'
    BY DEF SilenceInv, SilenceIsReal, Elapsed
  <1>4. \A w \in VehicleIds : OnlineBound(w)'
    BY <1>1 DEF SilenceInv, OnlineBound, LagBound, Since, Elapsed, Known
  <1>5. \A w \in VehicleIds : SilentBound(w)'
    BY DEF SilenceInv, SilentBound, Since, Elapsed, Known
  <1> QED BY <1>2, <1>3, <1>4, <1>5 DEF SilenceInv

(* The clock ticks: a check becomes due at once, or is due already.        *)
LEMMA SilenceTick ==
  ASSUME TypeOK, SilenceInv, Tick
  PROVE  SilenceInv'
PROOF
  <1>1. /\ StandbyTimeout \in Nat \ {0} /\ OfflineTimeout \in Nat /\ MaxLag \in Nat
        /\ now \in Nat /\ now' = now + 1 /\ (due # NoTick => due \in Nat)
        /\ \A v \in VehicleIds : vehicles[v].lastSeen \in Nat
    BY RegistryAssumption DEF Tick, TypeOK, Vehicle, Times
  <1>2. /\ vehicles' = vehicles
        /\ due' = IF due = NoTick THEN now + 1 ELSE due
        /\ due # NoTick => Since < MaxLag
    BY DEF Tick, Since
  <1>3. StandbyBound \in Nat
    BY <1>1 DEF StandbyBound, Latest
  <1>4. due' # NoTick /\ Since' = IF due = NoTick THEN 0 ELSE Since + 1
    BY <1>1, <1>2 DEF NoTick, Since
  <1>4a. due # NoTick => Since \in Int
    BY <1>1 DEF Since
  <1>5. LagBound'
    <2>1. CASE due = NoTick
      BY <1>1, <1>2, <1>4, <2>1 DEF LagBound
    <2>2. CASE due # NoTick
      BY <1>1, <1>2, <1>4, <1>4a, <2>2 DEF SilenceInv, LagBound
    <2> QED BY <2>1, <2>2
  <1>6. \A v \in VehicleIds : Elapsed(v) \in Int /\ Elapsed(v)' = Elapsed(v) + 1
    BY <1>1, <1>2 DEF Elapsed
  <1>7. SilenceIsReal'
    BY <1>1, <1>2, <1>6 DEF SilenceInv, SilenceIsReal
  <1>8. \A v \in VehicleIds : OnlineBound(v)' /\ SilentBound(v)'
    BY <1>1, <1>2, <1>3, <1>4, <1>4a, <1>6 DEF SilenceInv, OnlineBound, SilentBound, Known
  <1> QED BY <1>5, <1>7, <1>8 DEF SilenceInv

(* The check moves what is past a limit one step on, and nothing else.     *)
LEMMA SilenceCheck ==
  ASSUME TypeOK, SilenceInv, CheckTimeouts
  PROVE  SilenceInv'
PROOF
  <1>1. /\ StandbyTimeout \in Nat \ {0} /\ OfflineTimeout \in Nat /\ MaxLag \in Nat
        /\ now \in Nat /\ now' = now /\ due \in Nat /\ due # NoTick /\ due' = NoTick
        /\ \A v \in VehicleIds : vehicles[v].lastSeen \in Nat
    BY RegistryAssumption DEF CheckTimeouts, TypeOK, Vehicle, Times
  <1>2. /\ StandbyBound \in Nat /\ StandbyBound >= OfflineTimeout
        /\ StandbyBound > StandbyTimeout + MaxLag
    BY <1>1 DEF StandbyBound, Latest
  <1>3. Since \in Int /\ Since <= MaxLag
    BY <1>1 DEF SilenceInv, LagBound, Since
  <1>4. LagBound'
    BY <1>1 DEF LagBound
  <1>5. ASSUME NEW v \in VehicleIds
        PROVE  /\ vehicles'[v].known /\ vehicles'[v].status = "standby" =>
                    Elapsed(v)' >= StandbyTimeout /\ Elapsed(v)' < StandbyBound
               /\ vehicles'[v].known /\ vehicles'[v].status = "offline" =>
                    Elapsed(v)' >= OfflineTimeout
               /\ vehicles'[v].known /\ vehicles'[v].status = "online" =>
                    Elapsed(v)' < StandbyTimeout
    <2>1. vehicles[v] \in Vehicle /\ vehicles'[v] = AfterCheck(vehicles[v])
      BY DEF TypeOK, CheckTimeouts
    <2>2. /\ vehicles'[v].known = vehicles[v].known
          /\ vehicles'[v].lastSeen = vehicles[v].lastSeen
          /\ vehicles'[v].status =
               IF Known(v) /\ vehicles[v].status = "online" /\ Elapsed(v) >= StandbyTimeout
                 THEN "standby"
               ELSE IF Known(v) /\ vehicles[v].status = "standby" /\ Elapsed(v) >= OfflineTimeout
                 THEN "offline"
               ELSE vehicles[v].status
      BY <2>1 DEF AfterCheck, Known, Elapsed, Vehicle
    <2>3. Elapsed(v) \in Int /\ Elapsed(v)' = Elapsed(v)
      BY <1>1, <2>2 DEF Elapsed
    <2> QED BY <1>1, <1>2, <1>3, <2>2, <2>3
            DEF SilenceInv, SilenceIsReal, OnlineBound, SilentBound, Known
  <1>6. SilenceIsReal'
    BY <1>5 DEF SilenceIsReal
  <1>7. \A v \in VehicleIds : OnlineBound(v)' /\ SilentBound(v)'
    BY <1>1, <1>5 DEF OnlineBound, SilentBound, Known
  <1> QED BY <1>4, <1>6, <1>7 DEF SilenceInv

LEMMA SilenceInit == Init => SilenceInv
  BY DEF Init, SilenceInv, LagBound, SilenceIsReal, OnlineBound, SilentBound, Known, NoVehicle

LEMMA SilenceStep == TypeOK /\ SilenceInv /\ [Next]_vars => SilenceInv'
PROOF
  <1> SUFFICES ASSUME TypeOK, SilenceInv, [Next]_vars PROVE SilenceInv'
    OBVIOUS
  <1>1. CASE UNCHANGED vars
    BY <1>1, SilenceVehicle DEF vars, fleetVars
  <1>2. CASE Tick
    BY <1>2, SilenceTick
  <1>3. CASE CheckTimeouts
    BY <1>3, SilenceCheck
  <1>4. ASSUME NEW v \in VehicleIds, FleetStep(v) PROVE SilenceInv'
    <2>1. vehicles \in [VehicleIds -> Vehicle]
      BY DEF TypeOK
    <2>2. CASE Discover(v)
      BY <2>1, <2>2, SilenceVehicle DEF Discover
    <2>3. CASE StayOnline(v) \/ Resume(v) \/ Return(v)
      <3>1. Seen(v).status = "online" /\ Seen(v).lastSeen = now
        BY <2>1 DEF Seen, Vehicle
      <3>2. vehicles' = [vehicles EXCEPT ![v] = Seen(v)] /\ UNCHANGED <<now, due>>
        BY <2>3 DEF StayOnline, Resume, Return
      <3> QED BY <2>1, <3>1, <3>2, SilenceVehicle
    <2>4. CASE UpdateCapabilities(v)
      BY <2>1, <2>4, SilenceVehicle DEF UpdateCapabilities, Vehicle
    <2>5. CASE Remove(v)
      BY <2>1, <2>5, SilenceVehicle DEF Remove, NoVehicle
    <2>6. CASE \E seq \in Seqs : OfferSeq(v, seq)
      BY <2>6, SilenceVehicle DEF OfferSeq
    <2> QED BY <1>4, <2>2, <2>3, <2>4, <2>5, <2>6 DEF FleetStep
  <1>5. CASE \E t \in notices : RunCallback(t)
    BY <1>5, SilenceVehicle DEF RunCallback
  <1> QED BY FleetCases, <1>1, <1>2, <1>3, <1>4, <1>5

(* A vehicle's status says how long it has been silent, from both sides,   *)
(* however late the check runs within MaxLag, and whatever telemetry comes *)
(* between two checks.                                                     *)
THEOREM StatusIsSilence == Spec => []StatusMeansSilence
  BY FleetTypeInit, FleetTypeStep, SilenceInit, SilenceStep, SilenceImplied, PTL DEF Spec

----------------------------------------------------------------------------
(* High-water marks *)

LEMMA MarkStep == TypeOK /\ MarkIsSinceReturn /\ [Next]_vars => MarkIsSinceReturn'
PROOF
  <1> SUFFICES ASSUME TypeOK, MarkIsSinceReturn, [Next]_vars PROVE MarkIsSinceReturn'
    OBVIOUS
  <1> USE DEF TypeOK, MarkIsSinceReturn
  <1>1. CASE UNCHANGED <<highWaterMark, freshMark>>
    BY <1>1
  <1>2. ASSUME NEW v \in VehicleIds, Return(v) \/ Remove(v) PROVE MarkIsSinceReturn'
    BY <1>2 DEF Return, Remove, Reset
  <1>3. ASSUME NEW v \in VehicleIds, NEW seq \in Seqs, OfferSeq(v, seq) PROVE MarkIsSinceReturn'
    <2>1. CASE Accepts(v, seq)
      BY <1>3, <2>1 DEF OfferSeq, Accept
    <2>2. CASE ~Accepts(v, seq)
      BY <1>3, <2>2 DEF OfferSeq, Accept
    <2> QED BY <2>1, <2>2
  <1> QED BY FleetCases, <1>1, <1>2, <1>3
          DEF vars, fleetVars, Tick, CheckTimeouts, FleetStep, Discover, StayOnline, Resume,
              UpdateCapabilities, RunCallback

(* No high-water mark outlives an OFFLINE period.                          *)
THEOREM MarksAreFresh == Spec => []MarkIsSinceReturn
PROOF
  <1>1. Init => MarkIsSinceReturn
    BY DEF Init, SequenceInit, MarkIsSinceReturn
  <1> QED BY <1>1, FleetTypeInit, FleetTypeStep, MarkStep, PTL DEF Spec

(* Nothing but a return from OFFLINE and Remove drops a mark.              *)
THEOREM MarksAreKept == Spec => MarkLostOnlyOnReturn
PROOF
  <1>1. ASSUME TypeOK, [Next]_vars, NEW v \in VehicleIds,
               highWaterMark[v] # NotSeen, highWaterMark'[v] = NotSeen
        PROVE  \/ vehicles[v].status = "offline" /\ vehicles'[v].status = "online"
               \/ ~vehicles'[v].known
    <2>1. /\ vehicles \in [VehicleIds -> Vehicle]
          /\ highWaterMark \in [VehicleIds -> Seqs \cup {NotSeen}]
      BY <1>1 DEF TypeOK
    <2>2. ASSUME NEW w \in VehicleIds, NEW seq \in Seqs, OfferSeq(w, seq) PROVE FALSE
      <3>1. seq # NotSeen
        BY HalfSpaceAssumption DEF Seqs, NotSeen, SeqSpace
      <3> QED BY <1>1, <2>1, <2>2, <3>1 DEF OfferSeq, Accept
    <2>3. ASSUME NEW w \in VehicleIds, Return(w) PROVE
            vehicles[v].status = "offline" /\ vehicles'[v].status = "online"
      <3>1. w = v
        BY <1>1, <2>1, <2>3 DEF Return, Reset
      <3>2. Seen(v).status = "online"
        BY <2>1 DEF Seen, Vehicle
      <3> QED BY <2>1, <2>3, <3>1, <3>2 DEF Return
    <2>4. ASSUME NEW w \in VehicleIds, Remove(w) PROVE ~vehicles'[v].known
      <3>1. w = v
        BY <1>1, <2>1, <2>4 DEF Remove, Reset
      <3> QED BY <2>1, <2>4, <3>1 DEF Remove, NoVehicle
    <2>5. ~UNCHANGED highWaterMark
      BY <1>1
    <2> QED BY <1>1, <2>2, <2>3, <2>4, <2>5, FleetCases
            DEF vars, Tick, CheckTimeouts, FleetStep, Discover, StayOnline, Resume,
                UpdateCapabilities, RunCallback
  <1>2. TypeOK /\ [Next]_vars =>
          [\A v \in VehicleIds :
             highWaterMark[v] # NotSeen /\ highWaterMark'[v] = NotSeen =>
               \/ vehicles[v].status = "offline" /\ vehicles'[v].status = "online"
               \/ ~vehicles'[v].known]_vars
    BY <1>1
  <1> QED BY <1>2, FleetTypeInit, FleetTypeStep, PTL DEF Spec, MarkLostOnlyOnReturn

----------------------------------------------------------------------------
(* Status frames *)

(* The transitions of a vehicle are numbered.  As long as its callbacks    *)
(* have run in order, the last transition's frame is either outstanding,   *)
(* with the status the registry holds, or it was the last to be emitted.   *)
(* Discovery adds no transition, and a vehicle that was never removed is   *)
(* discovered only once, before its first.                                 *)
Newest(t, v) == t.vehicle = v /\ t.serial = moves[v]

NoticesNumbered ==
  /\ \A t \in notices : t.serial <= moves[t.vehicle]
  /\ \A t, u \in notices : t.vehicle = u.vehicle /\ t.serial = u.serial => t = u

FrameIsStatus(v) ==
  /\ ~Known(v) => moves[v] = 0
  /\ \A t \in notices : Newest(t, v) => t.to = vehicles[v].status
  /\ inOrder[v] /\ moves[v] > 0 =>
       \/ \E t \in notices : Newest(t, v)
       \/ (\A t \in notices : t.vehicle # v) /\ view[v] = vehicles[v].status

ViewInv == NoticesNumbered /\ \A v \in VehicleIds \ removed : FrameIsStatus(v)

LEMMA ViewInit == Init => ViewInv
  BY DEF Init, ViewInv, NoticesNumbered, FrameIsStatus

LEMMA ViewImplied == TypeOK /\ ViewInv => ViewIsCurrent
  BY DEF ViewInv, FrameIsStatus, Newest, ViewIsCurrent

(* No transition: the entries keep their status, or a vehicle is           *)
(* discovered, or removed.                                                 *)
LEMMA ViewQuiet ==
  ASSUME TypeOK, ViewInv, UNCHANGED <<notices, moves, inOrder, view>>,
         removed \subseteq removed',
         \A v \in VehicleIds \ removed' :
           /\ vehicles'[v].known \/ ~Known(v)
           /\ Known(v) => vehicles'[v].status = vehicles[v].status
  PROVE  ViewInv'
PROOF
  <1>1. NoticesNumbered'
    BY DEF ViewInv, NoticesNumbered
  <1>2. ASSUME NEW v \in VehicleIds \ removed' PROVE FrameIsStatus(v)'
    <2>1. FrameIsStatus(v)
      BY <1>2 DEF ViewInv
    <2>2. CASE Known(v)
      BY <1>2, <2>1, <2>2 DEF FrameIsStatus, Newest, Known
    <2>3. CASE ~Known(v)
      <3>1. moves[v] = 0
        BY <2>1, <2>3 DEF FrameIsStatus
      <3>2. \A t \in notices : ~Newest(t, v)
        BY <3>1 DEF Newest, TypeOK, TransitionFrame
      <3> QED BY <3>1, <3>2 DEF FrameIsStatus, Newest
    <2> QED BY <2>2, <2>3
  <1> QED BY <1>1, <1>2 DEF ViewInv

(* Transitions: each gets the next number and the new status.              *)
LEMMA ViewMoves ==
  ASSUME TypeOK, ViewInv, NEW vs \in SUBSET VehicleIds, NotifyTransitions(vs),
         \A v \in vs : moves[v] < MaxTransitions,
         UNCHANGED <<inOrder, view, removed>>,
         \A v \in VehicleIds : Known(v)' <=> Known(v),
         \A v \in VehicleIds \ vs : vehicles'[v].status = vehicles[v].status,
         \A v \in vs : Known(v)
  PROVE  ViewInv'
PROOF
  <1>1. /\ \A v \in VehicleIds : moves[v] \in Nat
        /\ \A t \in notices : t.vehicle \in VehicleIds /\ t.serial \in Nat
        /\ \A t \in notices : t.serial <= moves[t.vehicle]
    BY DEF TypeOK, TransitionFrame, ViewInv, NoticesNumbered
  <1> DEFINE frame(v) == [vehicle |-> v, to |-> vehicles'[v].status, serial |-> moves[v] + 1]
  <1>2. notices' = notices \cup {frame(v) : v \in vs}
    BY DEF NotifyTransitions
  <1>3. /\ \A v \in vs : moves'[v] = moves[v] + 1
        /\ \A v \in VehicleIds \ vs : moves'[v] = moves[v]
    BY DEF NotifyTransitions
  <1>4. \A t \in notices' : \/ t \in notices
                            \/ \E v \in vs : t = frame(v)
    BY <1>2
  <1>5. \A v \in vs : frame(v).vehicle = v /\ frame(v).serial = moves[v] + 1
                       /\ frame(v).to = vehicles'[v].status /\ frame(v) \in notices'
    BY <1>2
  <1> HIDE DEF frame
  <1>6. NoticesNumbered'
    <2>1. \A t \in notices' : t.serial <= moves'[t.vehicle]
      <3> SUFFICES ASSUME NEW t \in notices' PROVE t.serial <= moves'[t.vehicle]
        OBVIOUS
      <3>1. CASE t \in notices
        BY <1>1, <1>3, <3>1
      <3>2. ASSUME NEW v \in vs, t = frame(v) PROVE t.serial <= moves'[t.vehicle]
        BY <1>1, <1>3, <1>5, <3>2
      <3> QED BY <1>4, <3>1, <3>2
    <2>2. ASSUME NEW t \in notices', NEW u \in notices',
                 t.vehicle = u.vehicle, t.serial = u.serial
          PROVE  t = u
      <3>1. CASE t \in notices /\ u \in notices
        BY <2>2, <3>1 DEF ViewInv, NoticesNumbered
      <3>2. ASSUME NEW v \in vs, t = frame(v), u \in notices PROVE FALSE
        BY <1>1, <1>5, <2>2, <3>2
      <3>3. ASSUME NEW v \in vs, u = frame(v), t \in notices PROVE FALSE
        BY <1>1, <1>5, <2>2, <3>3
      <3>4. ASSUME NEW v \in vs, NEW w \in vs, t = frame(v), u = frame(w) PROVE t = u
        BY <1>5, <2>2, <3>4
      <3> QED BY <1>4, <3>1, <3>2, <3>3, <3>4
    <2> QED BY <2>1, <2>2 DEF NoticesNumbered
  <1>7. ASSUME NEW v \in VehicleIds \ removed PROVE FrameIsStatus(v)'
    <2>1. FrameIsStatus(v)
      BY <1>7 DEF ViewInv
    <2>2. CASE v \in vs
      <3>1. \A t \in notices' : Newest(t, v)' => t = frame(v)
        <4> SUFFICES ASSUME NEW t \in notices', t.vehicle = v, t.serial = moves'[v]
                     PROVE  t = frame(v)
          BY DEF Newest
        <4>1. t \notin notices
          BY <1>1, <1>3, <2>2
        <4> QED BY <1>4, <1>5, <4>1
      <3>2. \E t \in notices' : Newest(t, v)'
        <4>1. PICK f : f = frame(v)
          OBVIOUS
        <4>2. f \in notices' /\ Newest(f, v)'
          BY <1>3, <1>5, <2>2, <4>1 DEF Newest
        <4> QED BY <4>2
      <3>3. Known(v)'
        BY <2>2
      <3>4. \A t \in notices' : Newest(t, v)' => t.to = vehicles'[v].status
        BY <1>5, <2>2, <3>1
      <3> QED BY <3>2, <3>3, <3>4 DEF FrameIsStatus
    <2>3. CASE v \notin vs
      <3>1. \A t \in notices' : t.vehicle = v => t \in notices
        BY <1>4, <1>5, <2>3
      <3>2. /\ moves'[v] = moves[v] /\ vehicles'[v].status = vehicles[v].status
            /\ notices \subseteq notices' /\ (Known(v)' <=> Known(v))
        BY <1>2, <1>3, <1>7, <2>3
      <3>3. \A t \in notices' : Newest(t, v)' <=> (t \in notices /\ Newest(t, v))
        BY <3>1, <3>2 DEF Newest
      <3> QED BY <2>1, <3>1, <3>2, <3>3 DEF FrameIsStatus
    <2> QED BY <2>2, <2>3
  <1> QED BY <1>6, <1>7 DEF ViewInv

(* A callback emits its frame: the newest last, or out of order.           *)
LEMMA ViewCallback ==
  ASSUME TypeOK, ViewInv, NEW t \in notices, RunCallback(t)
  PROVE  ViewInv'
PROOF
  <1>1. /\ notices' = notices \ {t}
        /\ view' = [view EXCEPT ![t.vehicle] = t.to]
        /\ UNCHANGED <<vehicles, moves, removed>>
    BY DEF RunCallback
  <1>2. /\ t.vehicle \in VehicleIds
        /\ \A u \in notices : u.serial \in Nat
        /\ \A v \in VehicleIds : moves[v] \in Nat
    BY DEF TypeOK, TransitionFrame
  <1>3. NoticesNumbered'
    BY <1>1 DEF ViewInv, NoticesNumbered
  <1>4. ASSUME NEW v \in VehicleIds \ removed PROVE FrameIsStatus(v)'
    <2>1. FrameIsStatus(v)
      BY <1>4 DEF ViewInv
    <2>2. /\ (~Known(v) => moves[v] = 0)'
          /\ \A u \in notices' : Newest(u, v)' => u.to = vehicles'[v].status
      BY <1>1, <2>1 DEF FrameIsStatus, Newest, Known
    <2>3. CASE v # t.vehicle
      <3>1. inOrder'[v] = inOrder[v] /\ view'[v] = view[v]
        BY <1>1, <1>2, <2>3 DEF RunCallback, TypeOK
      <3>2. \A u \in notices : u.vehicle = v => u \in notices'
        BY <1>1, <2>3
      <3> QED BY <1>1, <2>1, <2>2, <3>1, <3>2 DEF FrameIsStatus, Newest
    <2>4. CASE v = t.vehicle
      <3> SUFFICES ASSUME inOrder'[v], moves[v] > 0
                   PROVE  \/ \E u \in notices' : Newest(u, v)
                          \/ (\A u \in notices' : u.vehicle # v) /\ view'[v] = vehicles[v].status
        BY <1>1, <2>2 DEF FrameIsStatus, Newest
      <3>1. inOrder[v] /\ \A u \in notices : u.vehicle = v => t.serial <= u.serial
        BY <1>2, <2>4 DEF RunCallback, TypeOK
      <3>2. view'[v] = t.to
        BY <1>1, <1>2, <2>4 DEF TypeOK
      (* Were the newest gone, t could not be outstanding.                 *)
      <3>3. PICK u \in notices : Newest(u, v)
        BY <2>1, <2>4, <3>1 DEF FrameIsStatus
      <3>4. CASE u = t
        <4>1. \A w \in notices' : w.vehicle # v
          <5> SUFFICES ASSUME NEW w \in notices', w.vehicle = v PROVE FALSE
            OBVIOUS
          <5>1. w \in notices /\ w # t
            BY <1>1
          <5>2. t.serial <= w.serial /\ w.serial <= moves[v] /\ t.serial = moves[v]
            BY <3>1, <3>3, <3>4, <5>1 DEF ViewInv, NoticesNumbered, Newest
          <5>3. w.serial = t.serial
            BY <1>2, <1>4, <5>1, <5>2
          <5> QED BY <2>4, <5>1, <5>3 DEF ViewInv, NoticesNumbered
        <4>2. t.to = vehicles[v].status
          BY <2>1, <3>3, <3>4 DEF FrameIsStatus
        <4> QED BY <3>2, <4>1, <4>2
      <3>5. CASE u # t
        BY <1>1, <3>3, <3>5
      <3> QED BY <3>4, <3>5
    <2> QED BY <2>3, <2>4
  <1> QED BY <1>1, <1>3, <1>4 DEF ViewInv

LEMMA ViewStep == TypeOK /\ ViewInv /\ [Next]_vars => ViewInv'
PROOF
  <1> SUFFICES ASSUME TypeOK, ViewInv, [Next]_vars PROVE ViewInv'
    OBVIOUS
  <1>0. vehicles \in [VehicleIds -> Vehicle]
    BY DEF TypeOK
  <1>1. CASE UNCHANGED vars \/ Tick
    BY <1>1, ViewQuiet DEF vars, fleetVars, Tick, Known
  <1>2. CASE CheckTimeouts
    <2> DEFINE moved == {v \in VehicleIds : AfterCheck(vehicles[v]) # vehicles[v]}
    <2>1. /\ moved \in SUBSET VehicleIds
          /\ \A v \in moved : moves[v] < MaxTransitions
          /\ NotifyTransitions(moved) /\ UNCHANGED <<inOrder, view, removed>>
          /\ \A v \in VehicleIds : vehicles'[v] = AfterCheck(vehicles[v])
      BY <1>2 DEF CheckTimeouts
    <2>2. /\ \A v \in VehicleIds : Known(v)' <=> Known(v)
          /\ \A v \in VehicleIds \ moved : vehicles'[v].status = vehicles[v].status
          /\ \A v \in moved : Known(v)
      <3> SUFFICES ASSUME NEW v \in VehicleIds
                   PROVE  /\ AfterCheck(vehicles[v]).known = vehicles[v].known
                          /\ AfterCheck(vehicles[v]) # vehicles[v] => vehicles[v].known
        BY <2>1 DEF Known
      <3>1. vehicles[v] \in Vehicle
        BY <1>0
      <3> QED BY <3>1 DEF AfterCheck, Vehicle
    <2> HIDE DEF moved
    <2> QED BY <2>1, <2>2, ViewMoves
  <1>3. ASSUME NEW v \in VehicleIds, FleetStep(v) PROVE ViewInv'
    <2>1. vehicles[v] \in Vehicle
      BY <1>0
    <2>2. CASE Discover(v) \/ StayOnline(v)
      <3>1. Seen(v).known = vehicles[v].known /\ Seen(v).status = "online"
        BY <2>1 DEF Seen, Vehicle
      <3> QED BY <1>0, <2>2, <3>1, ViewQuiet DEF Discover, StayOnline, Known
    <2>3. CASE UpdateCapabilities(v)
      BY <1>0, <2>1, <2>3, ViewQuiet DEF UpdateCapabilities, Known, Vehicle
    <2>4. CASE Remove(v)
      BY <1>0, <2>4, ViewQuiet DEF Remove, Known
    <2>5. CASE \E seq \in Seqs : OfferSeq(v, seq)
      BY <2>5, ViewQuiet DEF OfferSeq, Known
    <2>6. CASE moves[v] < MaxTransitions /\ (Resume(v) \/ Return(v))
      <3>1. Seen(v).known = vehicles[v].known
        BY <2>1 DEF Seen, Vehicle
      <3>2. /\ vehicles' = [vehicles EXCEPT ![v] = Seen(v)]
            /\ NotifyTransitions({v}) /\ Known(v)
            /\ UNCHANGED <<inOrder, view, removed>>
        BY <2>6 DEF Resume, Return
      <3>3. /\ \A w \in VehicleIds : Known(w)' <=> Known(w)
            /\ \A w \in VehicleIds \ {v} : vehicles'[w].status = vehicles[w].status
        BY <1>0, <3>1, <3>2 DEF Known
      <3> QED BY <2>6, <3>2, <3>3, ViewMoves
    <2> QED BY <1>3, <2>2, <2>3, <2>4, <2>5, <2>6 DEF FleetStep
  <1>4. CASE \E t \in notices : RunCallback(t)
    BY <1>4, ViewCallback
  <1> QED BY FleetCases, <1>1, <1>2, <1>3, <1>4

(* Unless a vehicle's callbacks overtook each other, the last frame that   *)
(* was emitted for it says what the registry holds, for any number of      *)
(* vehicles and transitions.                                               *)
THEOREM ViewCorrect == Spec => []ViewIsCurrent
  BY FleetTypeInit, FleetTypeStep, ViewInit, ViewStep, ViewImplied, PTL DEF Spec
=============================================================================
