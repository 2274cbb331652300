-------------------------- MODULE TestSenderProofs --------------------------
(***************************************************************************)
(* What of the mock vehicle's messages the server decodes: for every       *)
(* command line and length of its texts, every grain of float32 and of the *)
(* position, every start of the battery and every number of sequence       *)
(* numbers.                                                                *)
(***************************************************************************)
EXTENDS TestSender, TLAPS

----------------------------------------------------------------------------
(* The heading as it is sent *)

(* Multiplying by a positive number keeps the order.                       *)
LEMMA TimesKeepsOrder ==
  ASSUME NEW k \in Nat \ {0}, NEW a \in Int, NEW b \in Int, a < b
  PROVE  k * a < k * b
<1>1. k * b = k * a + k * (b - a)
  OBVIOUS
<1>2. k * (b - a) >= b - a
  <2>1. \A c \in Nat : k * c >= c
    OBVIOUS
  <2> QED
    BY <2>1
<1> QED
  BY <1>1, <1>2

(* The circle is a positive even number of half steps.                     *)
LEMMA CircleIsEven ==
  /\ 360 \div HeadingStep \in Nat \ {0}
  /\ Circle = 2 * (360 \div HeadingStep)
  /\ Circle \in Nat \ {0}
<1>1. HeadingStep \in Nat \ {0} /\ HeadingStep * (360 \div HeadingStep) = 360
  BY HeadingAssumption
<1>2. 360 \div HeadingStep \in Int
  BY <1>1
<1>3. 360 \div HeadingStep > 0
  <2> DEFINE k == 360 \div HeadingStep
  <2>1. k \in Int /\ HeadingStep * k = 360
    BY <1>1, <1>2
  <2> HIDE DEF k
  <2>2. k > 0
    <3>1. k = 0 => HeadingStep * k = 0
      BY <1>1, <2>1
    <3>2. k < 0 => HeadingStep * k < HeadingStep * 0
      BY <1>1, <2>1, TimesKeepsOrder
    <3> QED
      BY <1>1, <2>1, <3>1, <3>2
  <2> QED
    BY <2>2 DEF k
<1> QED
  BY <1>2, <1>3 DEF Circle

(* Only the last half step of the circle is rounded up to 360.             *)
LEMMA RoundedHeading ==
  ASSUME NEW h \in 0 .. Circle - 1
  PROVE  /\ Float32(h) \in 0 .. 360
         /\ Float32(h) = 360 => h = Circle - 1
<1> DEFINE k == 360 \div HeadingStep
           step == h \div 2
           up == IF h % 2 = 0 \/ step % 2 = 0 THEN step ELSE step + 1
<1>1. HeadingStep \in Nat \ {0} /\ k \in Nat \ {0} /\ HeadingStep * k = 360 /\ Circle = 2 * k
  BY CircleIsEven, HeadingAssumption
<1>2. h \in Int /\ step \in Int /\ 0 <= step /\ step < k /\ (h % 2 # 0 => h = 2 * step + 1)
  <2> HIDE DEF k
  <2> QED
    BY <1>1
<1>3. up \in Int /\ 0 <= up /\ up <= k /\ (up = k => h = Circle - 1)
  <2> HIDE DEF k, step
  <2> QED
    BY <1>1, <1>2
<1>4. Float32(h) = HeadingStep * up
  BY DEF Float32
<1> HIDE DEF k, up
<1>5. HeadingStep * up >= 0 /\ HeadingStep * up <= 360 /\ HeadingStep * up \in Int
  <2>1. up < k => HeadingStep * up < HeadingStep * k
    BY <1>1, <1>3, TimesKeepsOrder
  <2>2. 0 < up => HeadingStep * 0 < HeadingStep * up
    BY <1>1, <1>3, TimesKeepsOrder
  <2>3. up = 0 => HeadingStep * up = 0
    BY <1>1
  <2> QED
    BY <1>1, <1>3, <2>1, <2>2, <2>3
<1>6. HeadingStep * up = 360 => up = k
  <2>1. up < k => HeadingStep * up < HeadingStep * k
    BY <1>1, <1>3, TimesKeepsOrder
  <2> QED
    BY <1>1, <1>3, <2>1
<1> QED
  BY <1>3, <1>4, <1>5, <1>6

----------------------------------------------------------------------------
(* Its messages *)

(* A battery that never fills above 100 is a number, and so is the count.  *)
LEMMA SenderNumbers == SeqSpace \in Nat \ {0} /\ StartBattery \in MinBattery .. 100
<1>1. SeqSpace \in Nat \ {0}
  BY SenderAssumption
<1>2. StartBattery \in MinBattery .. 100
  BY SenderAssumption
<1> QED
  BY <1>1, <1>2

(* The vehicle has an id. *)
LEMMA FlagsNameAVehicle ==
  ASSUME NEW f \in CommandLine
  PROVE  f.vid \in Vehicles /\ f.vid # ""
<1>1. f.vid \in Vehicles
  BY DEF CommandLine
<1>2. "" \notin Vehicles
  BY SenderAssumption
<1> QED
  BY <1>1, <1>2

VehicleStates ==
  [lat : Latitudes, lng : Longitudes, heading : 0 .. Circle - 1,
   batteryPct : MinBattery .. StartBattery, seq : 0 .. SeqSpace - 1]

(* The degrees that are told apart are numbers, the starts among them.     *)
LEMMA Grids ==
  /\ Latitudes \subseteq Int /\ 32 \in Latitudes /\ 34 \in Latitudes
  /\ Longitudes \subseteq Int /\ -85 \in Longitudes /\ -81 \in Longitudes
BY GridAssumption DEF Told

(* Its state is five numbers in their ranges. *)
LEMMA StateFields ==
  ASSUME NEW s \in VehicleStates
  PROVE  /\ s.lat \in Latitudes /\ s.lng \in Longitudes
         /\ s.lat \in Int /\ s.lng \in Int
         /\ s.heading \in 0 .. Circle - 1 /\ s.heading \in Int
         /\ s.batteryPct \in MinBattery .. StartBattery
         /\ s.batteryPct \in Nat /\ s.batteryPct <= 100
         /\ s.seq \in 0 .. SeqSpace - 1 /\ s.seq \in Nat
<1>1. /\ s.lat \in Latitudes /\ s.lng \in Longitudes
      /\ s.heading \in 0 .. Circle - 1 /\ s.batteryPct \in MinBattery .. StartBattery
      /\ s.seq \in 0 .. SeqSpace - 1
  BY DEF VehicleStates
<1>2. s.batteryPct \in Nat /\ s.batteryPct <= 100
  BY <1>1, SenderNumbers DEF MinBattery
<1>3. s.heading \in Int /\ s.seq \in Nat
  BY <1>1, SenderNumbers
<1>4. s.lat \in Int /\ s.lng \in Int
  BY <1>1, Grids
<1> QED
  BY <1>1, <1>2, <1>3, <1>4

(* A sample is extension telemetry that a message may carry.               *)
LEMMA SamplesAreExtensions ==
  ASSUME NEW e
  PROVE  SampleExtensions(e) \in
           UNION {[D -> [version : Versions, parses : BOOLEAN]] : D \in SUBSET Namespaces}
<1> DEFINE sample == [version |-> CodecVersion, parses |-> TRUE]
           Versioned == [version : Versions, parses : BOOLEAN]
<1>1. sample \in Versioned
  BY DEF Versions
<1>2. {"husky"} \subseteq Namespaces /\ {"skydio"} \subseteq Namespaces
      /\ {"blueboat"} \subseteq Namespaces /\ {} \subseteq Namespaces
  BY DEF Namespaces, Codecs
<1> HIDE DEF sample, Versioned
<1>3. /\ [skydio |-> sample] \in [{"skydio"} -> Versioned]
      /\ [husky |-> sample] \in [{"husky"} -> Versioned]
      /\ [blueboat |-> sample] \in [{"blueboat"} -> Versioned]
      /\ Nothing \in [{} -> Versioned]
  BY <1>1 DEF Nothing
<1>4. SampleExtensions(e) \in {[skydio |-> sample], [husky |-> sample], [blueboat |-> sample],
                               Nothing}
  BY DEF SampleExtensions, sample
<1>5. \A D \in SUBSET Namespaces : \A x \in [D -> Versioned] :
        x \in UNION {[E -> Versioned] : E \in SUBSET Namespaces}
  OBVIOUS
<1>6. SampleExtensions(e) \in UNION {[E -> Versioned] : E \in SUBSET Namespaces}
  <2> DEFINE All == UNION {[E -> Versioned] : E \in SUBSET Namespaces}
  <2>1. /\ [skydio |-> sample] \in All /\ [husky |-> sample] \in All
        /\ [blueboat |-> sample] \in All /\ Nothing \in All
    BY <1>2, <1>3, <1>5
  <2> HIDE DEF All
  <2>2. SampleExtensions(e) \in All
    BY <1>4, <2>1
  <2> QED
    BY <2>2 DEF All
<1> QED
  BY <1>6 DEF Versioned

(* What every datagram starts from is a message of a time that passes.     *)
LEMMA PlainlyIsMessage ==
  /\ Plainly \in Message /\ Plainly.parses = TRUE /\ Plainly.signal = Absent
  /\ Plainly.timestamp \in MinTimestamp .. MaxTimestamp
<1> DEFINE Zero == Number(0)
           Nowhere == [set |-> FALSE, lat |-> Zero, lng |-> Zero, alt |-> Zero]
<1>1. Zero \in Float /\ Nowhere \in Place
  BY DEF Float, Place, Number
<1>2. Nothing \in
        UNION {[D -> [version : Versions, parses : BOOLEAN]] : D \in SUBSET Namespaces}
  <2>1. Nothing \in [{} -> [version : Versions, parses : BOOLEAN]] /\ {} \subseteq Namespaces
    BY DEF Nothing
  <2> QED
    BY <2>1
<1> HIDE DEF Zero, Nowhere
<1>3. Plainly \in Message
  BY <1>1, <1>2 DEF Plainly, Message, Payloads, Absent, Zero, Nowhere
<1>4. Plainly.parses = TRUE /\ Plainly.signal = Absent
  BY DEF Plainly
<1>5. Plainly.timestamp = 2026
  BY DEF Plainly
<1> QED
  BY <1>3, <1>4, <1>5 DEF MinTimestamp, MaxTimestamp

(* A datagram has at least a byte. *)
LEMMA Sizes ==
  ASSUME NEW f \in CommandLine
  PROVE  /\ TelemetrySize(f) \in Nat /\ TelemetrySize(f) # 0
         /\ HeartbeatSize(f) \in Nat /\ HeartbeatSize(f) # 0
<1>1. f.bytes["vid"] \in Nat /\ f.bytes["type"] \in Nat /\ f.bytes["caps"] \in Nat
  <2>1. f.bytes \in [{"vid", "type", "caps"} -> Nat]
    BY DEF CommandLine
  <2> QED
    BY <2>1
<1>2. TelemetryBytes \in Nat \ {0} /\ HeartbeatBytes \in Nat \ {0}
  BY SizeAssumption
<1> QED
  BY <1>1, <1>2 DEF TelemetrySize, HeartbeatSize

(* What passes the checks that every kind of payload has.                  *)
Sent(m) == m.parses = TRUE /\ m.size \in Nat /\ m.size # 0 /\ ValidateTimestamp(m)

(* Its time passes if it is Plainly's. *)
LEMMA TimedLikePlainly ==
  ASSUME NEW m, m.timestamp = Plainly.timestamp
  PROVE  ValidateTimestamp(m)
<1>1. m.timestamp \in MinTimestamp .. MaxTimestamp
  BY PlainlyIsMessage
<1> QED
  BY <1>1 DEF ValidateTimestamp, MinTimestamp, MaxTimestamp

(* What the fields of a telemetry datagram are.                            *)
LEMMA TelemetryFields ==
  ASSUME NEW f \in CommandLine, NEW s
  PROVE  LET m == ToProto(f, s) IN
         /\ Sent(m) /\ m.size = TelemetrySize(f)
         /\ m.payload = "telemetry" /\ m.vehicleId = f.vid
         /\ m.location = PlaceOf(f, s)
         /\ m.speed = Number(5)
         /\ m.heading = Number(Float32(s.heading))
         /\ m.signal = Absent /\ m.battery = s.batteryPct
<1> DEFINE m == ToProto(f, s)
<1>1. /\ m.payload = "telemetry" /\ m.vehicleId = f.vid /\ m.location = PlaceOf(f, s)
      /\ m.speed = Number(5) /\ m.heading = Number(Float32(s.heading))
      /\ m.signal = Plainly.signal /\ m.battery = s.batteryPct
      /\ m.size = TelemetrySize(f)
      /\ m.timestamp = Plainly.timestamp /\ m.parses = Plainly.parses
  BY PlainlyIsMessage DEF ToProto, Message
<1> HIDE DEF m
<1>2. Sent(m)
  BY <1>1, Sizes, TimedLikePlainly, PlainlyIsMessage DEF Sent
<1> QED
  BY <1>1, <1>2, PlainlyIsMessage DEF m

(* And of a heartbeat.                                                     *)
LEMMA HeartbeatFields ==
  ASSUME NEW f \in CommandLine
  PROVE  LET m == BuildHeartbeat(f) IN
         /\ Sent(m) /\ m.size = HeartbeatSize(f)
         /\ m.payload = "heartbeat" /\ m.vehicleId = f.vid /\ m.heading = Number(0)
<1> DEFINE m == BuildHeartbeat(f)
<1>1. /\ m.payload = "heartbeat" /\ m.vehicleId = f.vid /\ m.size = HeartbeatSize(f)
      /\ m.heading = Plainly.heading
      /\ m.timestamp = Plainly.timestamp /\ m.parses = Plainly.parses
  BY PlainlyIsMessage DEF BuildHeartbeat, Message
<1>2. Plainly.heading = Number(0)
  BY DEF Plainly
<1> HIDE DEF m
<1>3. Sent(m)
  BY <1>1, Sizes, TimedLikePlainly, PlainlyIsMessage DEF Sent
<1> QED
  BY <1>1, <1>2, <1>3 DEF m

(* Where the vehicle is is a place, which the server refuses exactly if it *)
(* is not on the map.                                                      *)
LEMMA PlaceIsChecked ==
  ASSUME NEW f, NEW s \in VehicleStates
  PROVE  /\ PlaceOf(f, s) \in Place /\ PlaceOf(f, s).set
         /\ ValidateLocation(PlaceOf(f, s)) <=> OnTheMap(PlaceOf(f, s))
<1>1. s.lat \in Int /\ s.lng \in Int
  BY StateFields
<1>2. Start(f).alt \in Int
  BY DEF Start
<1>3. \A n \in Int : Number(n) \in Float /\ Number(n).nan = FALSE /\ Number(n).at = n
  BY DEF Number, Float
<1>4. PlaceOf(f, s) \in Place /\ PlaceOf(f, s).set
  BY <1>1, <1>2, <1>3 DEF PlaceOf, Place
<1>5. PlaceOf(f, s).lat = Number(s.lat) /\ PlaceOf(f, s).lng = Number(s.lng)
  BY DEF PlaceOf
<1>6. \A x \in Int, low \in Int, high \in Int :
        ~(Below(Number(x), low) \/ Above(Number(x), high)) <=> InRange(Number(x), low, high)
  BY DEF Number, InRange, Below, Above
<1>7. ~(Below(Number(s.lat), -90) \/ Above(Number(s.lat), 90)) <=> InRange(Number(s.lat), -90, 90)
  BY <1>1, <1>6
<1>8. ~(Below(Number(s.lng), -180) \/ Above(Number(s.lng), 180)) <=> InRange(Number(s.lng), -180, 180)
  BY <1>1, <1>6
<1> QED
  BY <1>4, <1>5, <1>7, <1>8 DEF ValidateLocation, OnTheMap

(* What is read of a datagram that is sent: itself, or what does not parse. *)
LEMMA ReadOfSent ==
  ASSUME NEW m \in Message, NEW r \in Read(m)
  PROVE  \/ m.size <= MaxUDPFrameSize /\ r = m
         \/ ~(m.size <= MaxUDPFrameSize) /\ ~r.parses
<1>1. MaxUDPFrameSize \in Nat
  BY DEF MaxUDPFrameSize
<1>2. CASE m.size <= MaxUDPFrameSize
  BY <1>2 DEF Read, Received
<1>3. CASE ~(m.size <= MaxUDPFrameSize)
  <2>1. r \in Received(m) /\ (r.size < m.size => ~r.parses)
    BY DEF Read
  <2>2. r.size = MaxUDPFrameSize \/ ~r.parses
    <3>1. \/ \E p \in BOOLEAN : r = [m EXCEPT !.size = MaxUDPFrameSize, !.parses = p]
          \/ r = [m EXCEPT !.size = MaxUDPFrameSize, !.payload = "empty"]
      BY <1>3, <2>1 DEF Received
    <3>2. \A p \in BOOLEAN : [m EXCEPT !.size = MaxUDPFrameSize, !.parses = p].size = MaxUDPFrameSize
      BY DEF Message
    <3>3. [m EXCEPT !.size = MaxUDPFrameSize, !.payload = "empty"].size = MaxUDPFrameSize
      BY DEF Message
    <3> QED
      BY <3>1, <3>2, <3>3
  <2>3. m.size \in Nat
    BY DEF Message
  <2> QED
    BY <1>1, <1>3, <2>1, <2>2, <2>3
<1> QED
  BY <1>2, <1>3

(* A telemetry datagram is a message.                                      *)
LEMMA TelemetryIsMessage ==
  ASSUME NEW f \in CommandLine, NEW s \in VehicleStates
  PROVE  ToProto(f, s) \in Message
<1>1. s.heading \in 0 .. Circle - 1 /\ s.batteryPct \in Nat /\ s.seq \in Nat /\ f.vid \in Vehicles
  BY StateFields, FlagsNameAVehicle
<1>2. Float32(s.heading) \in Int
  BY <1>1, RoundedHeading
<1>3. PlaceOf(f, s) \in Place
  BY PlaceIsChecked
<1>4. Environment(f) \in Nat /\ TelemetrySize(f) \in Nat
  BY Sizes DEF Environment
<1>5. SampleExtensions(Environment(f)) \in
        UNION {[D -> [version : Versions, parses : BOOLEAN]] : D \in SUBSET Namespaces}
  BY SamplesAreExtensions
<1>6. Number(5) \in Float /\ Number(Float32(s.heading)) \in Float
  BY <1>2 DEF Float, Number
<1> QED
  BY <1>1, <1>3, <1>4, <1>5, <1>6, PlainlyIsMessage DEF ToProto, Message, Payloads

(* A heartbeat is a message.                                               *)
LEMMA HeartbeatIsMessage ==
  ASSUME NEW f \in CommandLine
  PROVE  BuildHeartbeat(f) \in Message
<1>1. f.vid \in Vehicles /\ HeartbeatSize(f) \in Nat
  BY FlagsNameAVehicle, Sizes
<1> QED
  BY <1>1, PlainlyIsMessage DEF BuildHeartbeat, Message, Payloads

(* The server decodes a telemetry datagram that is read whole, exactly if  *)
(* its heading is not 360 and its position on the map.                     *)
LEMMA TelemetryIsDecoded ==
  ASSUME NEW f \in CommandLine, NEW s \in VehicleStates,
         TelemetrySize(f) <= MaxUDPFrameSize
  PROVE  DecodeVehicleMessage(ToProto(f, s)).type = "telemetry"
           <=> Float32(s.heading) # 360 /\ OnTheMap(PlaceOf(f, s))
<1> DEFINE m == ToProto(f, s)
<1>1. /\ Sent(m) /\ m.size = TelemetrySize(f)
      /\ m.payload = "telemetry" /\ m.vehicleId = f.vid /\ m.location = PlaceOf(f, s)
      /\ m.speed = Number(5) /\ m.heading = Number(Float32(s.heading))
      /\ m.signal = Absent /\ m.battery = s.batteryPct
  BY TelemetryFields
<1> HIDE DEF m
<1>2. m.vehicleId # ""
  <2>1. f.vid # ""
    BY FlagsNameAVehicle
  <2> QED
    BY <1>1, <2>1
<1>3. m.location.set /\ (ValidateLocation(m.location) <=> OnTheMap(PlaceOf(f, s)))
  BY <1>1, PlaceIsChecked
<1>4. ~Below(m.speed, 0)
  BY <1>1 DEF Below, Number
<1>5. Below(m.heading, 0) \/ AtLeast(m.heading, 360) <=> Float32(s.heading) = 360
  <2>1. Float32(s.heading) \in 0 .. 360
    BY StateFields, RoundedHeading
  <2>2. m.heading.at = Float32(s.heading) /\ m.heading.nan = FALSE
    BY <1>1 DEF Number
  <2> QED
    BY <2>1, <2>2 DEF Below, AtLeast
<1>6. ~(m.battery > 100)
  <2>1. m.battery = s.batteryPct /\ s.batteryPct \in Nat /\ s.batteryPct <= 100
    BY <1>1, StateFields
  <2> QED
    BY <2>1
<1>7. ValidateFrameSize(m) /\ ValidateTimestamp(m) /\ m.parses
  BY <1>1 DEF Sent, ValidateFrameSize
<1>8. ValidateVehicleMessage(m) <=> Float32(s.heading) # 360 /\ OnTheMap(PlaceOf(f, s))
  BY <1>1, <1>2, <1>3, <1>4, <1>5, <1>6, <1>7 DEF ValidateVehicleMessage, ValidateTelemetry
<1>9. VehicleMessageToFrame(m).type = "telemetry"
  BY <1>1, <1>2, <1>3 DEF VehicleMessageToFrame, TelemetryToFrame, JSONFrame
<1>10. NoFrame.type # "telemetry"
  BY DEF NoFrame
<1> QED
  BY <1>7, <1>8, <1>9, <1>10 DEF DecodeVehicleMessage, m

(* And every heartbeat that is read whole.                                 *)
LEMMA HeartbeatIsDecoded ==
  ASSUME NEW f \in CommandLine, HeartbeatSize(f) <= MaxUDPFrameSize
  PROVE  DecodeVehicleMessage(BuildHeartbeat(f)).type = "heartbeat"
<1> DEFINE m == BuildHeartbeat(f)
<1>1. Sent(m) /\ m.size = HeartbeatSize(f) /\ m.payload = "heartbeat" /\ m.vehicleId = f.vid
  BY HeartbeatFields
<1> HIDE DEF m
<1>2. m.vehicleId # ""
  <2>1. f.vid # ""
    BY FlagsNameAVehicle
  <2> QED
    BY <1>1, <2>1
<1>3. ValidateFrameSize(m) /\ ValidateTimestamp(m) /\ m.parses
  BY <1>1 DEF Sent, ValidateFrameSize
<1>4. ValidateVehicleMessage(m)
  BY <1>1, <1>2, <1>3 DEF ValidateVehicleMessage, ValidateHeartbeat
<1>5. VehicleMessageToFrame(m).type = "heartbeat"
  BY <1>1, <1>2 DEF VehicleMessageToFrame, HeartbeatToFrame, JSONFrame
<1> QED
  BY <1>3, <1>4, <1>5 DEF DecodeVehicleMessage, m

(* Something is read of every datagram.                                    *)
LEMMA SomethingIsRead ==
  ASSUME NEW m \in Message
  PROVE  Read(m) # {}
<1>1. CASE m.size <= MaxUDPFrameSize
  <2>1. m \in Received(m)
    BY <1>1 DEF Received
  <2>2. m.size \in Nat
    BY DEF Message
  <2> QED
    BY <2>1, <2>2 DEF Read
<1>2. CASE ~(m.size <= MaxUDPFrameSize)
  <2> DEFINE r == [m EXCEPT !.size = MaxUDPFrameSize, !.parses = FALSE]
  <2>1. r \in Received(m)
    BY <1>2 DEF Received
  <2>2. ~r.parses
    BY DEF Message
  <2> QED
    BY <2>1, <2>2 DEF Read
<1> QED
  BY <1>1, <1>2

(* Of one that is not read whole, none is.                                 *)
LEMMA CutIsNotDecoded ==
  ASSUME NEW r, ~r.parses
  PROVE  DecodeVehicleMessage(r).type = "none"
BY DEF DecodeVehicleMessage, NoFrame

----------------------------------------------------------------------------
(* The sender *)

(* The datagram on its way is of the state that the vehicle is still in.   *)
Current ==
  network \in {NoDatagram, <<ToProto(flags, state)>>, <<BuildHeartbeat(flags)>>}

SenderInv == flags \in CommandLine /\ SenderTypeOK /\ Current

(* Before its tickers the tool has sent nothing. *)
LEMMA SenderInvInit == Init => SenderInv
<1> SUFFICES ASSUME Init PROVE SenderInv
  OBVIOUS
<1>1. flags \in CommandLine
  BY SenderAssumption DEF Init
<1>2. state \in VehicleStates
  <2>1. Start(flags).lat \in Latitudes /\ Start(flags).lng \in Longitudes
    BY Grids DEF Start
  <2> QED
    BY <2>1, SenderNumbers DEF Init, VehicleStates, MinBattery
<1> QED
  BY <1>1, <1>2 DEF Init, SenderInv, SenderTypeOK, VehicleStates, Current

(* A tick leaves the vehicle at a degree that is told apart, the heading   *)
(* on the circle and the battery at its floor or above.                    *)
LEMMA TickKeepsState ==
  ASSUME SenderTypeOK, Tick
  PROVE  state' \in VehicleStates
<1>1. PICK turn \in -2 .. 2, battery \in {state.batteryPct, Drain(state.batteryPct)},
           lat \in Neighbours(state.lat, Latitudes), lng \in NextLongitudes(state) :
        state' = [lat |-> lat, lng |-> lng, heading |-> Normalize(state.heading + turn),
                  batteryPct |-> battery, seq |-> (state.seq + 1) % SeqSpace]
  BY DEF Tick
<1>2. /\ state.heading \in Int /\ state.batteryPct \in MinBattery .. StartBattery
      /\ state.seq \in Int
  BY StateFields DEF SenderTypeOK, VehicleStates
<1>3. Normalize(state.heading + turn) \in 0 .. Circle - 1
  BY <1>2, CircleIsEven DEF Normalize
<1>4. battery \in MinBattery .. StartBattery
  BY <1>2, SenderNumbers DEF Drain, MinBattery
<1>5. (state.seq + 1) % SeqSpace \in 0 .. SeqSpace - 1
  BY <1>2, SenderNumbers
<1>6. lat \in Latitudes /\ lng \in Longitudes
  BY DEF Neighbours, NextLongitudes
<1> QED
  BY <1>1, <1>3, <1>4, <1>5, <1>6 DEF VehicleStates

(* Every step keeps it: the state changes only when a datagram of the new  *)
(* state takes the place of none.                                          *)
LEMMA SenderInvStep == SenderInv /\ [Next]_vars => SenderInv'
<1> SUFFICES ASSUME SenderInv, [Next]_vars PROVE SenderInv'
  OBVIOUS
<1> USE DEF SenderInv
<1>1. CASE Tick
  <2>1. state' \in VehicleStates
    BY <1>1, TickKeepsState
  <2>2. network' = <<ToProto(flags, state')>> /\ UNCHANGED <<flags, running, entry>>
    BY <1>1 DEF Tick
  <2>3. network'[1] \in Message
    BY <2>1, <2>2, TelemetryIsMessage
  <2> QED
    BY <2>1, <2>2, <2>3 DEF SenderTypeOK, VehicleStates, Current
<1>2. CASE Heartbeat
  <2>1. network' = <<BuildHeartbeat(flags)>> /\ UNCHANGED <<senderVars, entry>>
    BY <1>2 DEF Heartbeat
  <2>2. network'[1] \in Message
    BY <2>1, HeartbeatIsMessage
  <2> QED
    BY <2>1, <2>2 DEF SenderTypeOK, VehicleStates, Current, senderVars
<1>3. CASE StartTicking
  BY <1>3 DEF StartTicking, SenderTypeOK, Current
<1>4. CASE Stop
  BY <1>4 DEF Stop, SenderTypeOK, Current
<1>5. CASE Lose
  BY <1>5 DEF Lose, SenderTypeOK, Current, senderVars
<1>6. CASE Receive
  <2>1. network' = NoDatagram /\ UNCHANGED senderVars
    BY <1>6 DEF Receive
  <2>2. ~entry'.legacy => entry'.known
    <3>0. PICK r \in Read(network[1]) :
            LET f == DecodeVehicleMessage(r) IN
            entry' = CASE f.type = "telemetry" -> [entry EXCEPT !.known = TRUE]
                       [] f.type = "heartbeat" /\ f.data.capabilities /\ entry.known ->
                            [entry EXCEPT !.legacy = FALSE,
                                          !.caps = CapabilitiesToJSON(BuildCapabilities(flags))]
                       [] OTHER -> entry
      BY <1>6 DEF Receive
    <3> DEFINE f == DecodeVehicleMessage(r)
               caps == CapabilitiesToJSON(BuildCapabilities(flags))
    <3>1. entry' = CASE f.type = "telemetry" -> [entry EXCEPT !.known = TRUE]
                     [] f.type = "heartbeat" /\ f.data.capabilities /\ entry.known ->
                          [entry EXCEPT !.legacy = FALSE, !.caps = caps]
                     [] OTHER -> entry
      BY <3>0
    <3> HIDE DEF f, caps
    <3> QED
      BY <3>1 DEF SenderTypeOK
  <2> QED
    BY <2>1, <2>2 DEF SenderTypeOK, VehicleStates, Current, senderVars
<1>7. CASE UNCHANGED vars
  BY <1>7 DEF vars, senderVars, SenderTypeOK, Current
<1> QED
  BY <1>1, <1>2, <1>3, <1>4, <1>5, <1>6, <1>7 DEF Next

(* Whatever its flags and however long it runs, the server decodes exactly *)
(* those of the mock vehicle's messages that fit into a datagram that is   *)
(* read whole, and, of its telemetry, those that are on the map and whose  *)
(* heading float32 does not round up to 360 (testsender main.go's update   *)
(* and toProto, multicast.go's buffer, validate.go); to 360 it rounds only *)
(* the last half step before the full circle.                              *)
THEOREM MockIsUnderstood == SafetySpec => []DecodedWithinLimits
<1>1. SenderInv => DecodedWithinLimits
  <2> SUFFICES ASSUME SenderInv PROVE DecodedWithinLimits
    OBVIOUS
  <2> SUFFICES ASSUME network # NoDatagram
               PROVE  \A r \in Read(network[1]) :
                        /\ DecodeVehicleMessage(r).type = network[1].payload
                             <=> WithinLimits(network[1])
                        /\ network[1].heading.at = 360 => state.heading = Circle - 1
    <3>1. CASE network = NoDatagram
      BY <3>1 DEF SenderInv, DecodedWithinLimits
    <3>2. CASE network # NoDatagram
      <4>1. network[1] \in Message
        BY <3>2 DEF SenderInv, SenderTypeOK
      <4>2. Read(network[1]) # {}
        BY <4>1, SomethingIsRead
      <4> QED
        BY <3>2, <4>2 DEF SenderInv, DecodedWithinLimits
    <3> QED
      BY <3>1, <3>2
  <2> TAKE r \in Read(network[1])
  <2> USE DEF SenderInv
  <2>1. CASE network = <<BuildHeartbeat(flags)>>
    <3> DEFINE m == BuildHeartbeat(flags)
    <3>1. network[1] = m /\ m \in Message
      BY <2>1, HeartbeatIsMessage
    <3>2. m.payload = "heartbeat" /\ m.size = HeartbeatSize(flags) /\ m.heading = Number(0)
      BY HeartbeatFields
    <3> HIDE DEF m
    <3>3. WithinLimits(m) <=> m.size <= MaxUDPFrameSize
      BY <3>2 DEF WithinLimits
    <3>4. m.heading.at # 360
      BY <3>2 DEF Number
    <3>5. CASE m.size <= MaxUDPFrameSize /\ r = m
      <4>1. DecodeVehicleMessage(m).type = "heartbeat"
        BY <3>2, <3>5, HeartbeatIsDecoded DEF m
      <4> QED
        BY <3>1, <3>2, <3>3, <3>4, <3>5, <4>1
    <3>6. CASE ~(m.size <= MaxUDPFrameSize) /\ ~r.parses
      BY <3>1, <3>2, <3>3, <3>4, <3>6, CutIsNotDecoded
    <3> QED
      BY <3>1, <3>5, <3>6, ReadOfSent
  <2>2. CASE network = <<ToProto(flags, state)>>
    <3> DEFINE m == ToProto(flags, state)
    <3>1. state \in VehicleStates
      BY DEF SenderTypeOK, VehicleStates
    <3>2. network[1] = m /\ m \in Message
      BY <2>2, <3>1, TelemetryIsMessage
    <3>3. /\ m.payload = "telemetry" /\ m.size = TelemetrySize(flags)
          /\ m.heading = Number(Float32(state.heading)) /\ m.location = PlaceOf(flags, state)
      BY TelemetryFields
    <3>4. m.heading.at = Float32(state.heading)
      BY <3>3 DEF Number
    <3> HIDE DEF m
    <3>5. m.heading.at = 360 => state.heading = Circle - 1
      <4>1. state.heading \in 0 .. Circle - 1
        BY <3>1, StateFields
      <4>2. Float32(state.heading) = 360 => state.heading = Circle - 1
        BY <4>1, RoundedHeading
      <4> QED
        BY <3>4, <4>2
    <3>6. CASE m.size <= MaxUDPFrameSize /\ r = m
      <4>1. DecodeVehicleMessage(m).type = "telemetry" <=> m.heading.at # 360 /\ OnTheMap(m.location)
        BY <3>1, <3>3, <3>4, <3>6, TelemetryIsDecoded DEF m
      <4> QED
        BY <3>2, <3>3, <3>5, <3>6, <4>1 DEF WithinLimits
    <3>7. CASE ~(m.size <= MaxUDPFrameSize) /\ ~r.parses
      BY <3>2, <3>3, <3>5, <3>7, CutIsNotDecoded DEF WithinLimits
    <3> QED
      BY <3>2, <3>6, <3>7, ReadOfSent
  <2> QED
    BY <2>1, <2>2 DEF Current
<1> QED
  BY <1>1, SenderInvInit, SenderInvStep, PTL DEF SafetySpec

----------------------------------------------------------------------------
(* What the server learns *)

(* The commands in the entry are those of the command line.                *)
Learned ==
  /\ entry = [known |-> entry.known, legacy |-> entry.legacy, caps |-> entry.caps]
  /\ ~entry.legacy => entry.caps.commands = SupportedCommands(flags)

(* Only a heartbeat changes the capabilities of the entry.                 *)
LEMMA LearnedStep == Learned /\ [Next]_vars => Learned'
<1> SUFFICES ASSUME Learned, [Next]_vars PROVE Learned'
  OBVIOUS
<1>1. CASE Receive
  <2>0. PICK r \in Read(network[1]) :
          LET f == DecodeVehicleMessage(r) IN
          entry' = CASE f.type = "telemetry" -> [entry EXCEPT !.known = TRUE]
                     [] f.type = "heartbeat" /\ f.data.capabilities /\ entry.known ->
                          [entry EXCEPT !.legacy = FALSE,
                                        !.caps = CapabilitiesToJSON(BuildCapabilities(flags))]
                     [] OTHER -> entry
    BY <1>1 DEF Receive
  <2> DEFINE f == DecodeVehicleMessage(r)
             caps == CapabilitiesToJSON(BuildCapabilities(flags))
  <2>1. caps.commands = SupportedCommands(flags)
    BY DEF CapabilitiesToJSON, BuildCapabilities
  <2>2. /\ entry' = CASE f.type = "telemetry" -> [entry EXCEPT !.known = TRUE]
                      [] f.type = "heartbeat" /\ f.data.capabilities /\ entry.known ->
                           [entry EXCEPT !.legacy = FALSE, !.caps = caps]
                      [] OTHER -> entry
        /\ flags' = flags
    BY <1>1, <2>0 DEF Receive, senderVars
  <2>3. SupportedCommands(flags)' = SupportedCommands(flags)
    BY <2>2 DEF SupportedCommands
  <2> HIDE DEF f, caps
  <2>4. /\ entry' = [known |-> entry'.known, legacy |-> entry'.legacy, caps |-> entry'.caps]
        /\ \/ entry'.legacy = entry.legacy /\ entry'.caps = entry.caps
           \/ entry'.caps = caps
    <3>1. entry = [known |-> entry.known, legacy |-> entry.legacy, caps |-> entry.caps]
      BY DEF Learned
    <3> QED
      BY <2>2, <3>1
  <2> QED
    BY <2>1, <2>3, <2>4 DEF Learned
<1>2. CASE StartTicking \/ Tick \/ Heartbeat \/ Stop \/ Lose \/ UNCHANGED vars
  <2>1. entry' = entry /\ flags' = flags
    BY <1>2 DEF StartTicking, Tick, Heartbeat, Stop, Lose, vars, senderVars
  <2> QED
    BY <2>1 DEF Learned, SupportedCommands
<1> QED
  BY <1>1, <1>2 DEF Next

(* From the first heartbeat that counts, the server takes the core         *)
(* commands that the vehicle's mode declares and refuses the others        *)
(* (testsender main.go's buildCapabilities, registry.go's                  *)
(* UpdateCapabilities, router.go's isCommandSupported): what               *)
(* CapabilitiesAreLearned says will come to be is never wrong once it is.  *)
THEOREM LearnedIsDeclared == SafetySpec => [](~entry.legacy => RefusesTheRest)
<1>1. Init => Learned
  BY DEF Init, Learned
<1>2. Learned => (~entry.legacy => RefusesTheRest)
  <2> SUFFICES ASSUME Learned, ~entry.legacy, NEW c \in CoreCommands
               PROVE  IsCommandSupported(entry.caps, [action |-> c]) <=> c \in SupportedCommands(flags)
    BY DEF RefusesTheRest
  <2>1. c # "extension"
    BY DEF CoreCommands
  <2>2. [action |-> c].action = c
    OBVIOUS
  <2> QED
    BY <2>1, <2>2 DEF IsCommandSupported, Learned
<1> QED
  BY <1>1, <1>2, LearnedStep, PTL DEF SafetySpec
=============================================================================
