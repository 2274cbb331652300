--------------------------- MODULE PipelineProofs ---------------------------
(***************************************************************************)
(* What validate.go and translate.go do to a message, for every message a  *)
(* vehicle may send, and the safety of module Pipeline, for any number of  *)
(* sources, messages and buffers of any capacity.                          *)
(***************************************************************************)
EXTENDS Pipeline, SequenceTheorems, TLAPS

----------------------------------------------------------------------------
(* DecodeVehicleMessage *)

(* A message's fields have their shapes. *)
LEMMA MessageFields ==
  ASSUME NEW m \in Message
  PROVE  /\ m.payload \in Payloads
         /\ m.vehicleId \in Vehicles \cup {""}
         /\ m.timestamp \in Int
         /\ m.location \in Place
         /\ m.speed \in Float
         /\ m.heading \in Float
         /\ m.signal \in Nat \cup {Absent}
         /\ m.battery \in Nat \cup {Absent}
  BY DEF Message

(* What validate.go accepts translate.go translates: the error returns of  *)
(* VehicleMessageToFrame and of the functions it calls are never taken for *)
(* a datagram.                                                             *)
THEOREM ValidatedIsTranslated ==
  ASSUME NEW m \in Message, ValidateVehicleMessage(m)
  PROVE  VehicleMessageToFrame(m) # NoFrame
<1>1. CASE m.payload = "telemetry"
  BY <1>1 DEF ValidateVehicleMessage, ValidateTelemetry, VehicleMessageToFrame,
              TelemetryToFrame, JSONFrame, NoFrame
<1>2. CASE m.payload = "heartbeat"
  BY <1>2 DEF ValidateVehicleMessage, ValidateHeartbeat, VehicleMessageToFrame,
              HeartbeatToFrame, JSONFrame, NoFrame
<1>3. CASE m.payload = "alert"
  BY <1>3 DEF ValidateVehicleMessage, ValidateAlert, VehicleMessageToFrame,
              AlertToFrame, JSONFrame, NoFrame
<1>4. CASE m.payload = "command_ack"
  BY <1>4 DEF ValidateVehicleMessage, ValidateCommandAck, VehicleMessageToFrame,
              CommandAckToFrame, JSONFrame, NoFrame
<1> QED
  BY <1>1, <1>2, <1>3, <1>4 DEF ValidateVehicleMessage

(* A floating-point field that lies neither below nor above a range is in  *)
(* it, or it is NaN.                                                       *)
LEMMA NotOutside ==
  ASSUME NEW x \in Float, NEW low \in Int, NEW high \in Int,
         ~Below(x, low), ~Above(x, high)
  PROVE  InRange(x, low, high)
<1>1. x.at \in Int
  BY DEF Float
<1>2. CASE x.nan
  BY <1>2 DEF InRange
<1>3. CASE ~x.nan
  <2>1. ~(x.at < low) /\ ~(x.at > high)
    BY <1>3 DEF Below, Above
  <2>2. x.at \in low .. high
    BY <1>1, <2>1
  <2> QED
    BY <2>2 DEF InRange
<1> QED
  BY <1>2, <1>3

(* A place that validate.go accepts is on the map. *)
LEMMA PlaceAccepted ==
  ASSUME NEW p \in Place, ValidateLocation(p)
  PROVE  OnTheMap(p)
<1>1. p.lat \in Float /\ p.lng \in Float
  BY DEF Place
<1>2. InRange(p.lat, -90, 90)
  BY <1>1, NotOutside DEF ValidateLocation
<1>3. InRange(p.lng, -180, 180)
  BY <1>1, NotOutside DEF ValidateLocation
<1> QED
  BY <1>2, <1>3 DEF OnTheMap

(* A telemetry message that validate.go accepts is in the ranges that      *)
(* frame.go promises, but for the fields that are NaN.                     *)
LEMMA TelemetryAcceptedInRange ==
  ASSUME NEW m \in Message, ValidateTelemetry(m)
  PROVE  /\ OnTheMap(m.location)
         /\ m.speed.nan \/ m.speed.at >= 0
         /\ InRange(m.heading, 0, 359)
         /\ m.battery = Absent \/ m.battery \in 0 .. 100
         /\ m.signal = Absent \/ m.signal \in 0 .. 5
<1>1. m.location \in Place /\ m.heading \in Float /\ m.speed \in Float
  BY MessageFields
<1>2. OnTheMap(m.location)
  BY <1>1, PlaceAccepted DEF ValidateTelemetry
<1>3. m.speed.nan \/ m.speed.at >= 0
  <2>1. m.speed.at \in Int
    BY <1>1 DEF Float
  <2>2. m.speed.nan \/ ~(m.speed.at < 0)
    BY DEF ValidateTelemetry, Below
  <2> QED
    BY <2>1, <2>2
<1>5. ~Below(m.heading, 0) /\ ~AtLeast(m.heading, 360)
  BY DEF ValidateTelemetry
<1>6. ~Above(m.heading, 359)
  <2>1. m.heading.at \in Int
    BY <1>1 DEF Float
  <2>2. m.heading.at > 359 => m.heading.at >= 360
    BY <2>1
  <2> QED
    BY <1>5, <2>2 DEF AtLeast, Above
<1>7. InRange(m.heading, 0, 359)
  BY <1>1, <1>5, <1>6, NotOutside
<1>8. m.battery = Absent \/ m.battery \in 0 .. 100
  <2>1. m.battery \in Nat \cup {Absent}
    BY MessageFields
  <2>2. m.battery = Absent \/ ~(m.battery > 100)
    BY DEF ValidateTelemetry
  <2> QED
    BY <2>1, <2>2
<1>9. m.signal = Absent \/ m.signal \in 0 .. 5
  <2>1. m.signal \in Nat \cup {Absent}
    BY MessageFields
  <2>2. m.signal = Absent \/ ~(m.signal > 5)
    BY DEF ValidateTelemetry
  <2> QED
    BY <2>1, <2>2
<1> QED
  BY <1>2, <1>3, <1>7, <1>8, <1>9

(* The place of a frame is that of the message.                            *)
LEMMA PlaceKept ==
  ASSUME NEW p, OnTheMap(p)
  PROVE  OnTheMap(JSONLocation(p))
<1>1. JSONLocation(p).lat = p.lat /\ JSONLocation(p).lng = p.lng
  BY DEF JSONLocation
<1> QED
  BY <1>1 DEF OnTheMap

(* What DecodeVehicleMessage returns without an error is a valid frame, of *)
(* the vehicle that sent it.                                               *)
THEOREM DecodedIsValid ==
  ASSUME NEW m \in Message, DecodeVehicleMessage(m) # NoFrame
  PROVE  /\ FrameIsValid(DecodeVehicleMessage(m))
         /\ DecodeVehicleMessage(m).vehicleId = m.vehicleId
<1> DEFINE f == VehicleMessageToFrame(m)
<1>1. DecodeVehicleMessage(m) = f /\ ValidateVehicleMessage(m)
  BY DEF DecodeVehicleMessage
<1>2. CASE m.payload = "telemetry"
  <2> DEFINE data == [location |-> JSONLocation(m.location), speed |-> m.speed,
                      heading |-> m.heading,
                      environment |-> EnvironmentToString(m.environment), seq |-> m.seq,
                      batteryPercent |-> m.battery, signalStrength |-> m.signal,
                      extensions |-> DecodeAll(m.extensions)]
  <2>1. ValidateTelemetry(m)
    BY <1>1, <1>2 DEF ValidateVehicleMessage
  <2>2. m.vehicleId \in Vehicles /\ m.vehicleId # "" /\ m.location.set
    BY <2>1, MessageFields DEF ValidateTelemetry
  <2>3. f = JSONFrame("telemetry", m, data)
    BY <1>2, <2>2 DEF VehicleMessageToFrame, TelemetryToFrame
  <2>4. f.type = "telemetry" /\ f.vehicleId = m.vehicleId /\ f.data = data
    BY <2>3 DEF JSONFrame
  <2>5. /\ data.location = JSONLocation(m.location) /\ data.heading = m.heading
        /\ data.speed = m.speed
        /\ data.batteryPercent = m.battery /\ data.signalStrength = m.signal
    OBVIOUS
  <2> HIDE DEF f, data
  <2>6. TelemetryInRange(f.data)
    BY <2>1, <2>4, <2>5, TelemetryAcceptedInRange, PlaceKept DEF TelemetryInRange
  <2> QED
    BY <1>1, <2>2, <2>4, <2>6 DEF FrameIsValid
<1>3. CASE m.payload = "heartbeat"
  <2>1. m.vehicleId \in Vehicles /\ m.vehicleId # ""
    BY <1>1, <1>3, MessageFields DEF ValidateVehicleMessage, ValidateHeartbeat
  <2>2. f.type = "heartbeat" /\ f.vehicleId = m.vehicleId
    BY <1>3, <2>1 DEF VehicleMessageToFrame, HeartbeatToFrame, JSONFrame
  <2> HIDE DEF f
  <2> QED
    BY <1>1, <2>1, <2>2 DEF FrameIsValid
<1>4. CASE m.payload = "alert"
  <2> DEFINE data == [severity |-> SeverityToString(m.severity), code |-> m.code,
                      located |-> m.location.set, location |-> JSONLocation(m.location)]
  <2>1. ValidateAlert(m)
    BY <1>1, <1>4 DEF ValidateVehicleMessage
  <2>2. m.vehicleId \in Vehicles /\ m.vehicleId # ""
    BY <2>1, MessageFields DEF ValidateAlert
  <2>3. f = JSONFrame("alert", m, data)
    BY <1>4, <2>2 DEF VehicleMessageToFrame, AlertToFrame
  <2>4. f.type = "alert" /\ f.vehicleId = m.vehicleId /\ f.data = data
    BY <2>3 DEF JSONFrame
  <2>5. /\ data.code = m.code /\ data.located = m.location.set
        /\ data.location = JSONLocation(m.location)
    OBVIOUS
  <2> HIDE DEF f, data
  <2>6. m.code /\ (m.location.set => OnTheMap(JSONLocation(m.location)))
    BY <2>1, MessageFields, PlaceAccepted, PlaceKept DEF ValidateAlert
  <2> QED
    BY <1>1, <2>2, <2>4, <2>5, <2>6 DEF FrameIsValid
<1>5. CASE m.payload = "command_ack"
  <2> DEFINE data == [commandId |-> m.commandId, status |-> AckStatusToString(m.status)]
  <2>1. m.vehicleId \in Vehicles /\ m.vehicleId # "" /\ m.commandId
    BY <1>1, <1>5, MessageFields DEF ValidateVehicleMessage, ValidateCommandAck
  <2>2. f = JSONFrame("command_ack", m, data)
    BY <1>5, <2>1 DEF VehicleMessageToFrame, CommandAckToFrame
  <2>3. f.type = "command_ack" /\ f.vehicleId = m.vehicleId /\ f.data = data
    BY <2>2 DEF JSONFrame
  <2>4. data.commandId = m.commandId
    OBVIOUS
  <2> HIDE DEF f, data
  <2> QED
    BY <1>1, <2>1, <2>3, <2>4 DEF FrameIsValid
<1> QED
  BY <1>1, <1>2, <1>3, <1>4, <1>5 DEF ValidateVehicleMessage

(* What is read of a message has a message's shape.                        *)
LEMMA ReceivedIsMessage ==
  ASSUME NEW m \in Message, NEW r \in Received(m)
  PROVE  r \in Message
<1>1. CASE m.size <= MaxUDPFrameSize
  BY <1>1 DEF Received
<1>2. CASE ~(m.size <= MaxUDPFrameSize)
  <2>1. MaxUDPFrameSize \in Nat
    BY SMT DEF MaxUDPFrameSize
  <2>2. \/ \E p \in BOOLEAN : r = [m EXCEPT !.size = MaxUDPFrameSize, !.parses = p]
        \/ r = [m EXCEPT !.size = MaxUDPFrameSize, !.payload = "empty"]
    BY <1>2 DEF Received
  <2>3. "empty" \in Payloads
    BY DEF Payloads
  <2>4. CASE \E p \in BOOLEAN : r = [m EXCEPT !.size = MaxUDPFrameSize, !.parses = p]
    BY <2>1, <2>4 DEF Message
  <2>5. CASE r = [m EXCEPT !.size = MaxUDPFrameSize, !.payload = "empty"]
    BY <2>1, <2>3, <2>5 DEF Message
  <2> QED
    BY <2>2, <2>4, <2>5
<1> QED
  BY <1>1, <1>2

----------------------------------------------------------------------------
(* The pipeline *)

(* What is under way has arrived. *)
UnderWay ==
  /\ sourceCh \in [Sources -> Seq(DOMAIN arrived)]
  /\ fan \in [Sources -> DOMAIN arrived \cup {Receiving, Gone}]
  /\ frames \in Seq(DOMAIN arrived)
  /\ consumer \in DOMAIN arrived \cup {Receiving, Gone}
  /\ broadcasts \in Seq(DOMAIN arrived)

(* The variables that hold no frame, and the lengths. *)
Shapes ==
  /\ cancelled \in BOOLEAN /\ framesClosed \in BOOLEAN /\ panicked \in BOOLEAN
  /\ source \in [Sources -> {"starting", "reading", "returned"}]
  /\ \A s \in Sources : Len(sourceCh[s]) <= SourceBuffer
  /\ Len(frames) <= SharedBuffer
  /\ known \subseteq Vehicles
  /\ arrived \in Seq(Decoded) /\ Len(arrived) <= MaxArrivals

(* The vehicle of the frame that the consumer holds has been recorded.     *)
Recorded ==
  \A n \in DOMAIN arrived :
    LET f == arrived[n].frame IN
    (consumer = n \/ \E i \in DOMAIN broadcasts : broadcasts[i] = n) /\ f.type = "telemetry"
      => f.vehicleId \in known

(* Before shutdown only a source that never read has returned, so its      *)
(* fan-in has nothing to forward; the shared channel is closed when all    *)
(* have returned.                                                          *)
IdleFans ==
  /\ framesClosed => \A s \in Sources : source[s] = "returned"
  /\ ~cancelled => /\ ~panicked
                   /\ \A s \in Sources : source[s] # "reading" =>
                        sourceCh[s] = <<>> /\ fan[s] \in {Receiving, Gone}

PipelineInv == UnderWay /\ Shapes /\ Recorded /\ IdleFans

(* A sequence over a set is one over any larger set. *)
LEMMA SeqGrows ==
  ASSUME NEW S, NEW T, S \subseteq T, NEW q \in Seq(S)
  PROVE  q \in Seq(T)
OBVIOUS

(* A decoded frame is valid. *)
LEMMA DecodedFrames ==
  ASSUME NEW d \in Decoded
  PROVE  FrameIsValid(d.frame)
<1> PICK m \in Messages : \E r \in Received(m) :
      d.frame = DecodeVehicleMessage(r) /\ DecodeVehicleMessage(r) # NoFrame
  BY DEF Decoded
<1>1. PICK r \in Received(m) :
        d.frame = DecodeVehicleMessage(r) /\ DecodeVehicleMessage(r) # NoFrame
  OBVIOUS
<1>2. r \in Message
  BY MessageAssumption, ReceivedIsMessage
<1> QED
  BY <1>1, <1>2, DecodedIsValid

(* A frame that has arrived is valid. *)
LEMMA ArrivedFrames ==
  ASSUME arrived \in Seq(Decoded), NEW n \in DOMAIN arrived
  PROVE  FrameIsValid(arrived[n].frame)
<1>1. arrived[n] \in Decoded
  OBVIOUS
<1> QED
  BY <1>1, DecodedFrames

(* The server starts with nothing under way. *)
LEMMA PipelineInitially ==
  ASSUME PipelineInit
  PROVE  PipelineInv
<1>1. arrived = <<>> /\ DOMAIN arrived = {} /\ Len(arrived) = 0
  BY DEF PipelineInit
<1>2. UnderWay
  BY <1>1 DEF PipelineInit, UnderWay
<1>3. Shapes
  <2>1. \A s \in Sources : Len(sourceCh[s]) = 0
    BY DEF PipelineInit
  <2>2. Len(frames) = 0 /\ arrived \in Seq(Decoded)
    BY DEF PipelineInit
  <2>3. /\ cancelled \in BOOLEAN /\ framesClosed \in BOOLEAN /\ panicked \in BOOLEAN
        /\ source \in [Sources -> {"starting", "reading", "returned"}]
        /\ known \subseteq Vehicles
    BY DEF PipelineInit
  <2> QED
    BY <1>1, <2>1, <2>2, <2>3, PipelineAssumption DEF Shapes
<1>4. Recorded
  <2> SUFFICES ASSUME NEW n \in DOMAIN arrived
               PROVE  FALSE
    BY DEF Recorded
  <2> QED
    BY <1>1
<1>5. IdleFans
  BY DEF PipelineInit, IdleFans
<1> QED
  BY <1>2, <1>3, <1>4, <1>5 DEF PipelineInv

(* Nothing arrives in most steps: what keeps the records keeps Recorded.   *)
LEMMA RecordedKept ==
  ASSUME Recorded, UNCHANGED <<arrived, consumer, broadcasts, known>>
  PROVE  Recorded'
BY DEF Recorded

(* Cancel ends what IdleFans asks of the fan-ins.                          *)
LEMMA CancelKeeps ==
  ASSUME PipelineInv, Cancel
  PROVE  PipelineInv'
<1>1. UnderWay'
  BY DEF PipelineInv, Cancel, UnderWay
<1>2. Shapes'
  BY DEF PipelineInv, Cancel, Shapes
<1>3. Recorded'
  BY RecordedKept DEF PipelineInv, Cancel
<1>4. IdleFans'
  BY DEF PipelineInv, Cancel, IdleFans
<1> QED
  BY <1>1, <1>2, <1>3, <1>4 DEF PipelineInv

(* A source starts, fails to start or returns. *)
LEMMA SourceStateKeeps ==
  ASSUME PipelineInv, NEW s \in Sources, SourceStarts(s) \/ SourceFails(s) \/ SourceReturns(s)
  PROVE  PipelineInv'
<1>1. UnderWay'
  BY DEF PipelineInv, SourceStarts, SourceFails, SourceReturns, SourceOnly, UnderWay
<1>2. Shapes'
  BY DEF PipelineInv, SourceStarts, SourceFails, SourceReturns, SourceOnly, Shapes
<1>3. Recorded'
  BY RecordedKept DEF PipelineInv, SourceStarts, SourceFails, SourceReturns, SourceOnly
<1>4. IdleFans'
  <2>1. source[s] # "returned" => ~framesClosed
    BY DEF PipelineInv, IdleFans
  <2>2. UNCHANGED <<cancelled, fan, framesClosed, panicked, sourceCh>>
    BY DEF SourceStarts, SourceFails, SourceReturns, SourceOnly
  <2>3. /\ source[s] # "returned"
        /\ ~cancelled => source[s] = "starting"
        /\ \A t \in Sources \ {s} : source'[t] = source[t]
    BY DEF PipelineInv, Shapes, SourceStarts, SourceFails, SourceReturns
  <2> QED
    BY <2>1, <2>2, <2>3 DEF PipelineInv, IdleFans
<1> QED
  BY <1>1, <1>2, <1>3, <1>4 DEF PipelineInv

(* A source receives a datagram. *)
LEMMA SourceReceivesKeeps ==
  ASSUME PipelineInv, NEW s \in Sources, NEW m \in Messages, SourceReceives(s, m)
  PROVE  PipelineInv'
<1> PICK r \in Received(m) :
      DecodeVehicleMessage(r) # NoFrame /\
      arrived' = Append(arrived, [source |-> s, frame |-> DecodeVehicleMessage(r)])
  BY DEF SourceReceives
<1> DEFINE n == Len(arrived) + 1
           d == [source |-> s, frame |-> DecodeVehicleMessage(r)]
<1>1. d \in Decoded
  BY DEF Decoded
<1>2. arrived \in Seq(Decoded) /\ arrived' = Append(arrived, d) /\ Len(arrived) < MaxArrivals
  BY DEF PipelineInv, Shapes, SourceReceives
<1> HIDE DEF d
<1>3. /\ arrived' \in Seq(Decoded) /\ Len(arrived') = n /\ n \in DOMAIN arrived'
      /\ n \notin DOMAIN arrived
      /\ DOMAIN arrived' = DOMAIN arrived \cup {n}
      /\ \A k \in DOMAIN arrived : arrived'[k] = arrived[k]
  BY <1>1, <1>2
<1> HIDE DEF n
<1>4. /\ sourceCh \in [Sources -> Seq(DOMAIN arrived)]
      /\ frames \in Seq(DOMAIN arrived) /\ broadcasts \in Seq(DOMAIN arrived)
      /\ consumer \in DOMAIN arrived \cup {Receiving, Gone}
      /\ fan \in [Sources -> DOMAIN arrived \cup {Receiving, Gone}]
  BY DEF PipelineInv, UnderWay
<1>5. UNCHANGED <<cancelled, source, fan, frames, framesClosed, consumer, known, panicked,
                  broadcasts>>
  BY DEF SourceReceives, SourceOnly
<1>6. sourceCh[s] \in Seq(DOMAIN arrived)
  BY <1>4
<1>7. /\ sourceCh'[s] \in Seq(DOMAIN arrived') /\ Len(sourceCh'[s]) <= SourceBuffer
      /\ \A t \in Sources \ {s} : sourceCh'[t] = sourceCh[t]
      /\ sourceCh' = [t \in Sources |-> sourceCh'[t]]
  <2>1. sourceCh[s] \in Seq(DOMAIN arrived')
    BY <1>3, <1>6, SeqGrows
  <2>2. CASE Len(sourceCh[s]) < SourceBuffer
    <3>1. sourceCh' = [sourceCh EXCEPT ![s] = Append(@, n)]
      BY <2>2 DEF SourceReceives, n
    <3>2. sourceCh'[s] = Append(sourceCh[s], n)
      BY <1>4, <3>1
    <3>3. Append(sourceCh[s], n) \in Seq(DOMAIN arrived')
      BY <1>3, <2>1
    <3>4. Len(sourceCh'[s]) = Len(sourceCh[s]) + 1 /\ Len(sourceCh[s]) \in Nat
      BY <1>6, <3>2
    <3>5. Len(sourceCh'[s]) <= SourceBuffer
      BY <2>2, <3>4, PipelineAssumption
    <3>6. sourceCh' = [t \in Sources |-> IF t = s THEN Append(sourceCh[s], n) ELSE sourceCh[t]]
      BY <1>4, <3>1
    <3>7. \A t \in Sources \ {s} : sourceCh'[t] = sourceCh[t]
      BY <3>6
    <3>8. sourceCh' = [t \in Sources |-> sourceCh'[t]]
      BY <3>6
    <3> QED
      BY <3>2, <3>3, <3>5, <3>7, <3>8
  <2>3. CASE ~(Len(sourceCh[s]) < SourceBuffer)
    BY <1>4, <2>1, <2>3 DEF SourceReceives, PipelineInv, Shapes
  <2> QED
    BY <2>2, <2>3
<1>8. UnderWay'
  <2>1. \A t \in Sources : sourceCh'[t] \in Seq(DOMAIN arrived')
    <3> TAKE t \in Sources
    <3>1. CASE t = s
      BY <1>7, <3>1
    <3>2. CASE t # s
      <4>1. sourceCh[t] \in Seq(DOMAIN arrived) /\ sourceCh'[t] = sourceCh[t]
        BY <1>4, <1>7, <3>2
      <4> QED
        BY <1>3, <4>1, SeqGrows
    <3> QED
      BY <3>1, <3>2
  <2>2. sourceCh' \in [Sources -> Seq(DOMAIN arrived')]
    BY <1>7, <2>1
  <2>3. frames \in Seq(DOMAIN arrived') /\ broadcasts \in Seq(DOMAIN arrived')
    BY <1>3, <1>4, SeqGrows
  <2>4. /\ consumer \in DOMAIN arrived' \cup {Receiving, Gone}
        /\ fan \in [Sources -> DOMAIN arrived' \cup {Receiving, Gone}]
    BY <1>3, <1>4
  <2> QED
    BY <1>5, <2>2, <2>3, <2>4 DEF UnderWay
<1>9. Shapes'
  <2>1. \A t \in Sources : Len(sourceCh'[t]) <= SourceBuffer
    BY <1>7 DEF PipelineInv, Shapes
  <2>2. Len(arrived') <= MaxArrivals
    BY <1>2, <1>3, PipelineAssumption DEF n
  <2> QED
    BY <1>3, <1>5, <2>1, <2>2 DEF PipelineInv, Shapes
<1>10. Recorded'
  <2> SUFFICES ASSUME NEW k \in DOMAIN arrived',
                      consumer = k \/ \E i \in DOMAIN broadcasts : broadcasts[i] = k,
                      arrived'[k].frame.type = "telemetry"
               PROVE  arrived'[k].frame.vehicleId \in known
    BY <1>5 DEF Recorded
  <2>1. k \in DOMAIN arrived
    <3>1. \A i \in DOMAIN broadcasts : broadcasts[i] \in DOMAIN arrived
      BY <1>4
    <3>2. n \notin {Receiving, Gone}
      BY <1>2 DEF n, Receiving, Gone
    <3> QED
      BY <1>3, <1>4, <3>1, <3>2
  <2> QED
    BY <1>3, <2>1 DEF PipelineInv, Recorded
<1>11. IdleFans'
  <2>1. source[s] = "reading"
    BY DEF SourceReceives
  <2> QED
    BY <1>5, <1>7, <2>1 DEF PipelineInv, IdleFans
<1> QED
  BY <1>8, <1>9, <1>10, <1>11 DEF PipelineInv

(* A fan-in takes a frame from its source's channel. *)
LEMMA FanTakesKeeps ==
  ASSUME PipelineInv, NEW s \in Sources, FanTakes(s)
  PROVE  PipelineInv'
<1>1. UNCHANGED <<cancelled, source, frames, framesClosed, consumer, known, panicked, arrived,
                  broadcasts>>
  BY DEF FanTakes, FanOnly
<1>2. /\ sourceCh \in [Sources -> Seq(DOMAIN arrived)] /\ sourceCh[s] # <<>>
      /\ fan \in [Sources -> DOMAIN arrived \cup {Receiving, Gone}]
      /\ fan' = [fan EXCEPT ![s] = Head(sourceCh[s])]
      /\ sourceCh' = [sourceCh EXCEPT ![s] = Tail(sourceCh[s])]
  BY DEF PipelineInv, UnderWay, FanTakes
<1>3. sourceCh[s] \in Seq(DOMAIN arrived)
  BY <1>2
<1>4. /\ Head(sourceCh[s]) \in DOMAIN arrived /\ Tail(sourceCh[s]) \in Seq(DOMAIN arrived)
      /\ Len(Tail(sourceCh[s])) = Len(sourceCh[s]) - 1 /\ Len(sourceCh[s]) \in Nat
  BY <1>2, <1>3
<1>5. UnderWay'
  <2>1. sourceCh' \in [Sources -> Seq(DOMAIN arrived)]
    BY <1>2, <1>4
  <2>2. fan' \in [Sources -> DOMAIN arrived \cup {Receiving, Gone}]
    BY <1>2, <1>4
  <2> QED
    BY <1>1, <2>1, <2>2 DEF PipelineInv, UnderWay
<1>6. Shapes'
  <2> SUFFICES ASSUME NEW t \in Sources
               PROVE  Len(sourceCh'[t]) <= SourceBuffer
    BY <1>1 DEF PipelineInv, Shapes
  <2>1. Len(sourceCh[t]) <= SourceBuffer /\ Len(sourceCh[s]) <= SourceBuffer
    BY DEF PipelineInv, Shapes
  <2>2. CASE t = s
    <3>1. Len(sourceCh'[t]) = Len(sourceCh[s]) - 1
      BY <1>2, <1>4, <2>2
    <3> QED
      BY <1>4, <2>1, <3>1, PipelineAssumption
  <2>3. CASE t # s
    <3>1. sourceCh'[t] = sourceCh[t]
      BY <1>2, <2>3
    <3> QED
      BY <2>1, <3>1
  <2> QED
    BY <2>2, <2>3
<1>7. Recorded'
  BY <1>1, RecordedKept DEF PipelineInv
<1>8. IdleFans'
  <2>1. ~cancelled => source[s] = "reading"
    BY <1>2 DEF PipelineInv, IdleFans
  <2>2. \A t \in Sources \ {s} : sourceCh'[t] = sourceCh[t] /\ fan'[t] = fan[t]
    BY <1>2
  <2> QED
    BY <1>1, <2>1, <2>2 DEF PipelineInv, IdleFans
<1> QED
  BY <1>5, <1>6, <1>7, <1>8 DEF PipelineInv

(* A fan-in forwards, or finds the channel closed. *)
LEMMA FanForwardsKeeps ==
  ASSUME PipelineInv, NEW s \in Sources, FanForwards(s)
  PROVE  PipelineInv'
<1>1. UNCHANGED <<cancelled, source, sourceCh, framesClosed, consumer, known, arrived,
                  broadcasts>>
  BY DEF FanForwards, FanOnly
<1>2. /\ fan \in [Sources -> DOMAIN arrived \cup {Receiving, Gone}]
      /\ frames \in Seq(DOMAIN arrived) /\ Len(frames) <= SharedBuffer
      /\ fan[s] \in DOMAIN arrived
  <2>1. fan[s] \in Arrivals /\ Receiving \notin Arrivals /\ Gone \notin Arrivals
    BY PipelineAssumption DEF FanForwards, Arrivals, Receiving, Gone
  <2>2. fan[s] \in DOMAIN arrived \cup {Receiving, Gone}
    BY DEF PipelineInv, UnderWay
  <2> QED
    BY <2>1, <2>2 DEF PipelineInv, UnderWay, Shapes
<1>3. Recorded'
  BY <1>1, RecordedKept DEF PipelineInv
<1>4. ~cancelled => source[s] = "reading"
  <2>1. fan[s] \notin {Receiving, Gone}
    BY PipelineAssumption DEF FanForwards, Arrivals, Receiving, Gone
  <2> QED
    BY <2>1 DEF PipelineInv, IdleFans
<1>5. CASE framesClosed
  <2>1. panicked' = TRUE /\ UNCHANGED <<frames, fan>>
    BY <1>5 DEF FanForwards
  <2>2. cancelled
    BY <1>4, <1>5 DEF PipelineInv, IdleFans
  <2>3. UnderWay' /\ Shapes'
    BY <1>1, <2>1 DEF PipelineInv, UnderWay, Shapes
  <2>4. IdleFans'
    BY <1>1, <2>1, <2>2 DEF PipelineInv, IdleFans
  <2> QED
    BY <1>3, <2>3, <2>4 DEF PipelineInv
<1>6. CASE ~framesClosed
  <2>1. /\ Len(frames) < SharedBuffer /\ frames' = Append(frames, fan[s])
        /\ fan' = [fan EXCEPT ![s] = Receiving] /\ UNCHANGED panicked
    BY <1>6 DEF FanForwards
  <2>2. frames' \in Seq(DOMAIN arrived) /\ Len(frames') = Len(frames) + 1 /\ Len(frames) \in Nat
    BY <1>2, <2>1
  <2>3. fan' \in [Sources -> DOMAIN arrived \cup {Receiving, Gone}]
    BY <1>2, <2>1
  <2>4. UnderWay'
    BY <1>1, <2>2, <2>3 DEF PipelineInv, UnderWay
  <2>5. Len(frames') <= SharedBuffer
    BY <2>1, <2>2, PipelineAssumption
  <2>6. Shapes'
    BY <1>1, <2>1, <2>5 DEF PipelineInv, Shapes
  <2>7. \A t \in Sources : fan'[t] = fan[t] \/ fan'[t] = Receiving
    BY <1>2, <2>1
  <2>8. IdleFans'
    BY <1>1, <2>1, <2>7 DEF PipelineInv, IdleFans
  <2> QED
    BY <1>3, <2>4, <2>6, <2>8 DEF PipelineInv
<1> QED
  BY <1>5, <1>6

(* A fan-in returns. *)
LEMMA FanReturnsKeeps ==
  ASSUME PipelineInv, NEW s \in Sources, FanReturns(s)
  PROVE  PipelineInv'
<1>1. UNCHANGED <<cancelled, source, sourceCh, frames, framesClosed, consumer, known, panicked,
                  arrived, broadcasts>>
  BY DEF FanReturns, FanOnly
<1>2. /\ fan \in [Sources -> DOMAIN arrived \cup {Receiving, Gone}]
      /\ fan' = [fan EXCEPT ![s] = Gone]
  BY DEF PipelineInv, UnderWay, FanReturns
<1>3. fan' \in [Sources -> DOMAIN arrived \cup {Receiving, Gone}]
  BY <1>2
<1>4. UnderWay'
  BY <1>1, <1>3 DEF PipelineInv, UnderWay
<1>5. Shapes'
  BY <1>1 DEF PipelineInv, Shapes
<1>6. Recorded'
  BY <1>1, RecordedKept DEF PipelineInv
<1>7. \A t \in Sources : fan'[t] = fan[t] \/ fan'[t] = Gone
  BY <1>2
<1>8. IdleFans'
  BY <1>1, <1>7 DEF PipelineInv, IdleFans
<1> QED
  BY <1>4, <1>5, <1>6, <1>8 DEF PipelineInv

(* The shared channel is closed. *)
LEMMA CloseFramesKeeps ==
  ASSUME PipelineInv, CloseFrames
  PROVE  PipelineInv'
<1>1. UnderWay'
  BY DEF PipelineInv, CloseFrames, UnderWay
<1>2. Shapes'
  BY DEF PipelineInv, CloseFrames, Shapes
<1>3. Recorded'
  BY RecordedKept DEF PipelineInv, CloseFrames
<1>4. IdleFans'
  BY DEF PipelineInv, CloseFrames, IdleFans
<1> QED
  BY <1>1, <1>2, <1>3, <1>4 DEF PipelineInv

(* The consumer takes a frame and records its vehicle. *)
LEMMA ConsumerTakesKeeps ==
  ASSUME PipelineInv, ConsumerTakes
  PROVE  PipelineInv'
<1> DEFINE h == Head(frames)
           f == arrived[h].frame
<1>1. UNCHANGED <<cancelled, source, sourceCh, fan, framesClosed, panicked, arrived, broadcasts>>
  BY DEF ConsumerTakes, ConsumerOnly
<1>2. /\ frames \in Seq(DOMAIN arrived) /\ frames # <<>>
      /\ consumer = Receiving /\ consumer' = h /\ frames' = Tail(frames)
      /\ known' = IF f.type = "telemetry" THEN known \cup {f.vehicleId} ELSE known
  BY DEF PipelineInv, UnderWay, ConsumerTakes
<1>3. /\ h \in DOMAIN arrived /\ frames' \in Seq(DOMAIN arrived)
      /\ Len(frames') = Len(frames) - 1 /\ Len(frames) \in Nat
  BY <1>2
<1>4. FrameIsValid(f)
  BY <1>3, ArrivedFrames DEF PipelineInv, Shapes
<1> HIDE DEF h
<1>5. UnderWay'
  BY <1>1, <1>2, <1>3 DEF PipelineInv, UnderWay
<1>6. Shapes'
  <2>1. Len(frames') <= SharedBuffer
    <3>1. Len(frames) <= SharedBuffer
      BY DEF PipelineInv, Shapes
    <3> QED
      BY <1>3, <3>1, PipelineAssumption
  <2>2. f.vehicleId \in Vehicles
    BY <1>4 DEF FrameIsValid
  <2>3. known' \subseteq Vehicles
    BY <1>2, <2>2 DEF PipelineInv, Shapes
  <2> QED
    BY <1>1, <2>1, <2>3 DEF PipelineInv, Shapes
<1>7. Recorded'
  <2> SUFFICES ASSUME NEW n \in DOMAIN arrived,
                      consumer' = n \/ \E i \in DOMAIN broadcasts : broadcasts[i] = n,
                      arrived[n].frame.type = "telemetry"
               PROVE  arrived[n].frame.vehicleId \in known'
    BY <1>1 DEF Recorded
  <2>1. CASE n = h
    BY <1>2, <2>1
  <2>2. CASE n # h
    <3>1. arrived[n].frame.vehicleId \in known
      BY <1>2, <2>2 DEF PipelineInv, Recorded
    <3> QED
      BY <1>2, <3>1
  <2> QED
    BY <2>1, <2>2
<1>8. IdleFans'
  BY <1>1 DEF PipelineInv, IdleFans
<1> QED
  BY <1>5, <1>6, <1>7, <1>8 DEF PipelineInv

(* The consumer broadcasts the frame it holds. *)
LEMMA ConsumerBroadcastsKeeps ==
  ASSUME PipelineInv, ConsumerBroadcasts
  PROVE  PipelineInv'
<1>1. UNCHANGED <<cancelled, source, sourceCh, fan, frames, framesClosed, known, panicked, arrived>>
  BY DEF ConsumerBroadcasts, ConsumerOnly
<1>2. /\ consumer \in DOMAIN arrived /\ broadcasts \in Seq(DOMAIN arrived)
      /\ broadcasts' = Append(broadcasts, consumer) /\ consumer' = Receiving
  <2>1. consumer \notin {Receiving, Gone}
    BY PipelineAssumption DEF ConsumerBroadcasts, Arrivals, Receiving, Gone
  <2> QED
    BY <2>1 DEF PipelineInv, UnderWay, ConsumerBroadcasts
<1>3. broadcasts' \in Seq(DOMAIN arrived)
  BY <1>2
<1>4. UnderWay'
  BY <1>1, <1>2, <1>3 DEF PipelineInv, UnderWay
<1>5. Shapes'
  BY <1>1 DEF PipelineInv, Shapes
<1>6. Recorded'
  <2> SUFFICES ASSUME NEW n \in DOMAIN arrived,
                      consumer' = n \/ \E i \in DOMAIN broadcasts' : broadcasts'[i] = n,
                      arrived[n].frame.type = "telemetry"
               PROVE  arrived[n].frame.vehicleId \in known
    BY <1>1 DEF Recorded
  <2>1. consumer' # n
    <3>1. DOMAIN arrived \subseteq Nat \ {0}
      BY DEF PipelineInv, Shapes
    <3> QED
      BY <1>2, <3>1 DEF Receiving
  <2>2. PICK i \in DOMAIN broadcasts' : broadcasts'[i] = n
    BY <2>1
  <2>3. n = consumer \/ \E j \in DOMAIN broadcasts : broadcasts[j] = n
    BY <1>2, <2>2
  <2> QED
    BY <2>3 DEF PipelineInv, Recorded
<1>7. IdleFans'
  BY <1>1 DEF PipelineInv, IdleFans
<1> QED
  BY <1>4, <1>5, <1>6, <1>7 DEF PipelineInv

(* The consumer returns. *)
LEMMA ConsumerReturnsKeeps ==
  ASSUME PipelineInv, ConsumerReturns
  PROVE  PipelineInv'
<1>1. /\ UNCHANGED <<cancelled, source, sourceCh, fan, frames, framesClosed, known, panicked,
                     arrived, broadcasts>>
      /\ consumer' = Gone
  BY DEF ConsumerReturns, ConsumerOnly
<1>2. UnderWay'
  BY <1>1 DEF PipelineInv, UnderWay
<1>3. Shapes'
  BY <1>1 DEF PipelineInv, Shapes
<1>4. Recorded'
  <2>1. \A n \in DOMAIN arrived : n # Gone
    <3>1. DOMAIN arrived \subseteq Nat
      BY DEF PipelineInv, Shapes
    <3> QED
      BY <3>1 DEF Gone
  <2> QED
    BY <1>1, <2>1 DEF PipelineInv, Recorded
<1>5. IdleFans'
  BY <1>1 DEF PipelineInv, IdleFans
<1> QED
  BY <1>2, <1>3, <1>4, <1>5 DEF PipelineInv

(* Every step keeps the invariant. *)
LEMMA PipelineStep ==
  ASSUME PipelineInv, [PipelineNext]_pipelineVars
  PROVE  PipelineInv'
<1>1. CASE UNCHANGED pipelineVars
  <2>1. UnderWay' /\ Shapes'
    BY <1>1 DEF pipelineVars, PipelineInv, UnderWay, Shapes
  <2>2. Recorded' /\ IdleFans'
    BY <1>1, RecordedKept DEF pipelineVars, PipelineInv, IdleFans
  <2> QED
    BY <2>1, <2>2 DEF PipelineInv
<1>2. CASE Running(Cancel) \/ Running(CloseFrames)
  BY <1>2, CancelKeeps, CloseFramesKeeps DEF Running
<1>3. CASE Running(ConsumerStep)
  BY <1>3, ConsumerTakesKeeps, ConsumerBroadcastsKeeps, ConsumerReturnsKeeps
     DEF Running, ConsumerStep
<1>4. ASSUME NEW s \in Sources,
             Running(SourceStarts(s)) \/ Running(SourceFails(s)) \/ Running(SourceReturns(s))
      PROVE  PipelineInv'
  BY <1>4, SourceStateKeeps DEF Running
<1>5. ASSUME NEW s \in Sources, Running(FanStep(s))
      PROVE  PipelineInv'
  BY <1>5, FanTakesKeeps, FanForwardsKeeps, FanReturnsKeeps DEF Running, FanStep
<1>6. ASSUME NEW s \in Sources, NEW m \in Messages, Running(SourceReceives(s, m))
      PROVE  PipelineInv'
  BY <1>6, SourceReceivesKeeps DEF Running
<1> QED
  BY <1>1, <1>2, <1>3, <1>4, <1>5, <1>6 DEF PipelineNext

(* The invariant holds in every reachable state. *)
LEMMA PipelineInvariant == PipelineSafety => []PipelineInv
<1>1. PipelineInit => PipelineInv
  BY PipelineInitially
<1>2. PipelineInv /\ [PipelineNext]_pipelineVars => PipelineInv'
  BY PipelineStep
<1> QED
  BY <1>1, <1>2, PTL DEF PipelineSafety

----------------------------------------------------------------------------
(* Every variable has its shape and no channel exceeds its capacity.       *)
THEOREM PipelineTypeCorrect == PipelineSafety => []PipelineTypeOK
<1>1. ASSUME PipelineInv PROVE PipelineTypeOK
  <2>1. DOMAIN arrived \subseteq Arrivals
    <3>1. arrived \in Seq(Decoded) /\ Len(arrived) <= MaxArrivals
      BY <1>1 DEF PipelineInv, Shapes
    <3>2. DOMAIN arrived = 1 .. Len(arrived) /\ Len(arrived) \in Nat
      BY <3>1
    <3> QED
      BY <3>1, <3>2, PipelineAssumption DEF Arrivals
  <2>2. \A s \in Sources : sourceCh[s] \in Seq(Arrivals)
    <3> TAKE s \in Sources
    <3>1. sourceCh[s] \in Seq(DOMAIN arrived)
      BY <1>1 DEF PipelineInv, UnderWay
    <3> QED
      BY <2>1, <3>1, SeqGrows
  <2>3. frames \in Seq(Arrivals)
    BY <1>1, <2>1, SeqGrows DEF PipelineInv, UnderWay
  <2>4. fan \in [Sources -> Arrivals \cup {Receiving, Gone}]
    BY <1>1, <2>1 DEF PipelineInv, UnderWay
  <2>5. consumer \in Arrivals \cup {Receiving, Gone} /\ broadcasts \in Seq(DOMAIN arrived)
    BY <1>1, <2>1 DEF PipelineInv, UnderWay
  <2> QED
    BY <1>1, <2>2, <2>3, <2>4, <2>5 DEF PipelineTypeOK, PipelineInv, Shapes
<1> QED
  BY <1>1, PipelineInvariant, PTL

(* A vehicle whose telemetry has been broadcast is in the registry.        *)
THEOREM RecordedFirst == PipelineSafety => []RecordedBeforeBroadcast
<1>1. ASSUME PipelineInv PROVE RecordedBeforeBroadcast
  <2> SUFFICES ASSUME NEW i \in DOMAIN broadcasts,
                      arrived[broadcasts[i]].frame.type = "telemetry"
               PROVE  arrived[broadcasts[i]].frame.vehicleId \in known
    BY DEF RecordedBeforeBroadcast
  <2>1. broadcasts[i] \in DOMAIN arrived
    BY <1>1 DEF PipelineInv, UnderWay
  <2> QED
    BY <1>1, <2>1 DEF PipelineInv, Recorded
<1> QED
  BY <1>1, PipelineInvariant, PTL

(* Every frame broadcast is valid, whatever the vehicles send.             *)
THEOREM BroadcastsAreValid == PipelineSafety => []FramesAreValid
<1>1. ASSUME PipelineInv PROVE FramesAreValid
  <2> SUFFICES ASSUME NEW i \in DOMAIN broadcasts
               PROVE  FrameIsValid(arrived[broadcasts[i]].frame)
    BY DEF FramesAreValid
  <2>1. broadcasts[i] \in DOMAIN arrived
    BY <1>1 DEF PipelineInv, UnderWay
  <2> QED
    BY <1>1, <2>1, ArrivedFrames DEF PipelineInv, Shapes
<1> QED
  BY <1>1, PipelineInvariant, PTL

(* No source that fails to start, however many do, makes the server send   *)
(* on a closed channel while it is in service.                             *)
THEOREM ServiceDoesNotPanic == PipelineSafety => []NoPanicInService
<1>1. ASSUME PipelineInv PROVE NoPanicInService
  BY <1>1 DEF PipelineInv, IdleFans, NoPanicInService
<1> QED
  BY <1>1, PipelineInvariant, PTL

----------------------------------------------------------------------------
(* The order of a source's frames                                          *)

(* What a goroutine holds, as a sequence.                                  *)
Held(n) == IF n \in {Receiving, Gone} THEN <<>> ELSE <<n>>

(* The frames past the fan-ins, oldest first, those of each source before  *)
(* it, and where each frame came from.                                     *)
Line == broadcasts \o (Held(consumer) \o frames)
Own == [s \in Sources |-> Held(fan[s]) \o sourceCh[s]]
From == [n \in DOMAIN arrived |-> arrived[n].source]

(* The frames of a source are numbered upwards along the line and along    *)
(* its own queue, and those in the queue come after those in the line.     *)
Orderly(line, own, from) ==
  /\ \A i, j \in DOMAIN line : i < j /\ from[line[i]] = from[line[j]] => line[i] < line[j]
  /\ \A s \in Sources :
       /\ \A k \in DOMAIN own[s] : from[own[s][k]] = s
       /\ \A k, l \in DOMAIN own[s] : k < l => own[s][k] < own[s][l]
       /\ \A i \in DOMAIN line, k \in DOMAIN own[s] :
            from[line[i]] = s => line[i] < own[s][k]

(* Where each element of a longer sequence comes from.                     *)
LEMMA AppendPlaces ==
  ASSUME NEW S, NEW q \in Seq(S), NEW e \in S, NEW r, r = Append(q, e)
  PROVE  /\ Len(q) \in Nat /\ DOMAIN q = 1 .. Len(q) /\ DOMAIN r = 1 .. Len(q) + 1
         /\ \A k \in DOMAIN r : (k \in DOMAIN q /\ r[k] = q[k])
                  \/ (k = Len(q) + 1 /\ r[k] = e)
<1>1. PICK l \in Nat : l = Len(q)
  OBVIOUS
<1>2. \A k \in 1 .. l + 1 : k \in 1 .. l \/ k = l + 1
  OBVIOUS
<1>3. DOMAIN q = 1 .. l
  BY <1>1
<1>4. r \in Seq(S) /\ Len(r) = l + 1 /\ r[l + 1] = e /\ \A k \in 1 .. l : r[k] = q[k]
  BY <1>1, AppendProperties
<1>5. DOMAIN r = 1 .. l + 1
  BY <1>4
<1>6. ASSUME NEW k \in DOMAIN r
      PROVE  (k \in DOMAIN q /\ r[k] = q[k]) \/ (k = l + 1 /\ r[k] = e)
  <2>1. CASE k \in 1 .. l
    BY <1>3, <1>4, <2>1
  <2>2. CASE k = l + 1
    BY <1>4, <2>2
  <2>3. QED
    BY <1>2, <1>5, <2>1, <2>2
<1>7. QED
  BY <1>1, <1>3, <1>5, <1>6

(* A datagram is numbered above all others.                                *)
LEMMA OrderlyArrives ==
  ASSUME NEW n \in Nat, NEW line \in Seq(1 .. n), NEW own \in [Sources -> Seq(1 .. n)],
         NEW from, NEW after, NEW s \in Sources, NEW q,
         Orderly(line, own, from),
         \A m \in 1 .. n : after[m] = from[m],
         after[n + 1] = s,
         q = own[s] \/ q = Append(own[s], n + 1)
  PROVE  Orderly(line, [own EXCEPT ![s] = q], after)
<1>1. PICK mine : mine = [own EXCEPT ![s] = q]
  OBVIOUS
<1>2. /\ \A i \in DOMAIN line : line[i] \in 1 .. n
      /\ \A t \in Sources : \A k \in DOMAIN own[t] : own[t][k] \in 1 .. n
  OBVIOUS
<1>3. mine[s] = q /\ \A t \in Sources \ {s} : mine[t] = own[t]
  BY <1>1
<1>4. /\ own[s] \in Seq(1 .. n) /\ Len(own[s]) \in Nat /\ DOMAIN own[s] = 1 .. Len(own[s])
      /\ \A k \in DOMAIN q : (k \in DOMAIN own[s] /\ q[k] = own[s][k])
               \/ (k = Len(own[s]) + 1 /\ q[k] = n + 1)
  <2>1. PICK o \in Seq(1 .. n) : o = own[s]
    OBVIOUS
  <2>2. Len(o) \in Nat /\ DOMAIN o = 1 .. Len(o)
    OBVIOUS
  <2>3. CASE q = o
    <3>1. q = own[s]
      BY <2>1, <2>3
    <3>2. \A k \in DOMAIN q : k \in DOMAIN own[s] /\ q[k] = own[s][k]
      BY <3>1
    <3>3. QED
      BY <2>1, <2>2, <3>2
  <2>4. CASE q = Append(o, n + 1)
    <3>1. o \in Seq(Nat) /\ n + 1 \in Nat
      BY SeqGrows
    <3>2. PICK p \in Seq(Nat), e \in Nat : p = o /\ e = n + 1 /\ q = Append(p, e)
      BY <2>4, <3>1
    <3>3. /\ Len(p) \in Nat /\ DOMAIN p = 1 .. Len(p) /\ DOMAIN q = 1 .. Len(p) + 1
          /\ \A k \in DOMAIN q : (k \in DOMAIN p /\ q[k] = p[k])
                  \/ (k = Len(p) + 1 /\ q[k] = e)
      <4> HIDE <1>2, <1>3, <2>1, <2>4, <3>1
      <4> QED
        BY <3>2, AppendPlaces
    <3>4. QED
      BY <2>1, <2>2, <3>2, <3>3
  <2>5. QED
    BY <2>1, <2>3, <2>4
<1>5. \A k \in DOMAIN q : after[q[k]] = s
  BY <1>2, <1>4 DEF Orderly
<1>6. ASSUME NEW k \in DOMAIN q, NEW l \in DOMAIN q, k < l PROVE q[k] < q[l]
  <2>1. k \in DOMAIN own[s] /\ q[k] = own[s][k]
    <3>1. DOMAIN q \subseteq 1 .. Len(own[s]) + 1
      BY <1>4
    <3>2. QED
      BY <1>4, <1>6, <3>1
  <2>2. CASE l \in DOMAIN own[s] /\ q[l] = own[s][l]
    BY <1>6, <2>1, <2>2 DEF Orderly
  <2>3. CASE q[l] = n + 1
    BY <1>2, <2>1, <2>3
  <2>4. QED
    BY <1>4, <2>2, <2>3
<1>7. ASSUME NEW i \in DOMAIN line, NEW k \in DOMAIN q, after[line[i]] = s
      PROVE  line[i] < q[k]
  <2>1. CASE k \in DOMAIN own[s] /\ q[k] = own[s][k]
    BY <1>2, <1>7, <2>1 DEF Orderly
  <2>2. CASE q[k] = n + 1
    BY <1>2, <2>2
  <2>3. QED
    BY <1>4, <2>1, <2>2
<1>8. \A i, j \in DOMAIN line :
        i < j /\ after[line[i]] = after[line[j]] => line[i] < line[j]
  BY <1>2 DEF Orderly
<1>9. ASSUME NEW t \in Sources \ {s}
      PROVE  /\ \A k \in DOMAIN mine[t] : after[mine[t][k]] = t
             /\ \A k, l \in DOMAIN mine[t] : k < l => mine[t][k] < mine[t][l]
             /\ \A i \in DOMAIN line, k \in DOMAIN mine[t] :
                  after[line[i]] = t => line[i] < mine[t][k]
  <2>1. mine[t] = own[t]
    BY <1>3
  <2>2. /\ \A k \in DOMAIN own[t] : after[own[t][k]] = from[own[t][k]]
        /\ \A i \in DOMAIN line : after[line[i]] = from[line[i]]
    BY <1>2
  <2>3. QED
    BY <2>1, <2>2 DEF Orderly
<1>10. Orderly(line, mine, after)
  <2>1. ASSUME NEW t \in Sources
        PROVE  /\ \A k \in DOMAIN mine[t] : after[mine[t][k]] = t
               /\ \A k, l \in DOMAIN mine[t] : k < l => mine[t][k] < mine[t][l]
               /\ \A i \in DOMAIN line, k \in DOMAIN mine[t] :
                    after[line[i]] = t => line[i] < mine[t][k]
    <3>1. CASE t = s
      BY <1>3, <1>5, <1>6, <1>7, <3>1
    <3>2. CASE t # s
      BY <1>9, <3>2
    <3>3. QED
      BY <3>1, <3>2
  <2>2. QED
    BY <1>8, <2>1 DEF Orderly
<1>11. QED
  BY <1>1, <1>10

(* A frame that leaves the front of a queue leaves the rest in order.      *)
LEMMA OrderlyDrops ==
  ASSUME NEW n \in Nat, NEW line, NEW own \in [Sources -> Seq(1 .. n)], NEW from,
         NEW s \in Sources, own[s] # <<>>, Orderly(line, own, from)
  PROVE  Orderly(line, [own EXCEPT ![s] = Tail(@)], from)
<1>1. PICK mine : mine = [own EXCEPT ![s] = Tail(@)]
  OBVIOUS
<1>2. mine[s] = Tail(own[s]) /\ \A t \in Sources \ {s} : mine[t] = own[t]
  BY <1>1
<1>3. /\ DOMAIN mine[s] \subseteq Nat
      /\ \A k \in DOMAIN mine[s] : k + 1 \in DOMAIN own[s] /\ mine[s][k] = own[s][k + 1]
  BY <1>2
<1>4. \A k \in DOMAIN mine[s] : from[mine[s][k]] = s
  BY <1>3 DEF Orderly
<1>5. ASSUME NEW k \in DOMAIN mine[s], NEW l \in DOMAIN mine[s], k < l
      PROVE  mine[s][k] < mine[s][l]
  <2>1. k + 1 < l + 1
    BY <1>3, <1>5
  <2>2. QED
    BY <1>3, <2>1 DEF Orderly
<1>6. \A i \in DOMAIN line, k \in DOMAIN mine[s] : from[line[i]] = s => line[i] < mine[s][k]
  BY <1>3 DEF Orderly
<1>7. Orderly(line, mine, from)
  BY <1>2, <1>4, <1>5, <1>6 DEF Orderly
<1>8. QED
  BY <1>1, <1>7

(* The fan-in takes the front of the queue to the end of the line.         *)
LEMMA OrderlyForwards ==
  ASSUME NEW n \in Nat, NEW line \in Seq(1 .. n), NEW own \in [Sources -> Seq(1 .. n)],
         NEW from, NEW s \in Sources, own[s] # <<>>, Orderly(line, own, from)
  PROVE  Orderly(Append(line, Head(own[s])), [own EXCEPT ![s] = Tail(@)], from)
<1>1. PICK mine : mine = [own EXCEPT ![s] = Tail(@)]
  OBVIOUS
<1>2. PICK longer : longer = Append(line, Head(own[s]))
  OBVIOUS
<1>3. Orderly(line, mine, from)
  BY <1>1, OrderlyDrops
<1>4. /\ 1 \in DOMAIN own[s] /\ Head(own[s]) = own[s][1] /\ own[s][1] \in 1 .. n
      /\ Len(line) \in Nat /\ DOMAIN line = 1 .. Len(line)
      /\ DOMAIN longer = 1 .. Len(line) + 1
      /\ \A i \in DOMAIN longer : (i \in DOMAIN line /\ longer[i] = line[i])
               \/ (i = Len(line) + 1 /\ longer[i] = own[s][1])
  <2>1. PICK o \in Seq(1 .. n) : o = own[s] /\ o # <<>>
    OBVIOUS
  <2>2. 1 \in DOMAIN o /\ Head(o) = o[1] /\ o[1] \in 1 .. n
    BY <2>1
  <2>3. longer = Append(line, o[1])
    BY <1>2, <2>1, <2>2
  <2>4. /\ Len(line) \in Nat /\ DOMAIN line = 1 .. Len(line)
        /\ DOMAIN longer = 1 .. Len(line) + 1
        /\ \A i \in DOMAIN longer : (i \in DOMAIN line /\ longer[i] = line[i])
                 \/ (i = Len(line) + 1 /\ longer[i] = o[1])
    <3>1. PICK e \in 1 .. n : e = o[1] /\ longer = Append(line, e)
      BY <2>2, <2>3
    <3>2. /\ Len(line) \in Nat /\ DOMAIN line = 1 .. Len(line)
          /\ DOMAIN longer = 1 .. Len(line) + 1
          /\ \A i \in DOMAIN longer : (i \in DOMAIN line /\ longer[i] = line[i])
                   \/ (i = Len(line) + 1 /\ longer[i] = e)
      BY <3>1, AppendPlaces
    <3>3. QED
      BY <3>1, <3>2
  <2>5. QED
    BY <2>1, <2>2, <2>4
<1>5. from[own[s][1]] = s
  BY <1>4 DEF Orderly
<1>6. ASSUME NEW i \in DOMAIN longer, NEW j \in DOMAIN longer,
             i < j, from[longer[i]] = from[longer[j]]
      PROVE  longer[i] < longer[j]
  <2>1. i \in DOMAIN line /\ longer[i] = line[i]
    BY <1>4, <1>6
  <2>2. CASE j \in DOMAIN line /\ longer[j] = line[j]
    BY <1>6, <2>1, <2>2 DEF Orderly
  <2>3. CASE longer[j] = own[s][1]
    BY <1>4, <1>5, <1>6, <2>1, <2>3 DEF Orderly
  <2>4. QED
    BY <1>4, <2>2, <2>3
<1>7. ASSUME NEW t \in Sources, NEW i \in DOMAIN longer, NEW k \in DOMAIN mine[t],
             from[longer[i]] = t
      PROVE  longer[i] < mine[t][k]
  <2>1. CASE i \in DOMAIN line /\ longer[i] = line[i]
    BY <1>3, <1>7, <2>1 DEF Orderly
  <2>2. CASE longer[i] = own[s][1]
    <3>1. t = s
      BY <1>5, <1>7, <2>2
    <3>2. k + 1 \in DOMAIN own[s] /\ mine[t][k] = own[s][k + 1] /\ 1 < k + 1
      BY <1>1, <3>1
    <3>3. QED
      BY <1>4, <2>2, <3>2 DEF Orderly
  <2>3. QED
    BY <1>4, <2>1, <2>2
<1>8. Orderly(longer, mine, from)
  BY <1>3, <1>6, <1>7 DEF Orderly
<1>9. QED
  BY <1>1, <1>2, <1>8

(* What the line and the queues are made of.                               *)
LEMMA OrderTypes ==
  ASSUME PipelineInv
  PROVE  /\ Len(arrived) \in Nat /\ DOMAIN arrived = 1 .. Len(arrived)
         /\ Held(consumer) \in Seq(DOMAIN arrived)
         /\ Line \in Seq(DOMAIN arrived)
         /\ \A s \in Sources : Held(fan[s]) \in Seq(DOMAIN arrived)
         /\ Own \in [Sources -> Seq(DOMAIN arrived)]
<1>1. Len(arrived) \in Nat /\ DOMAIN arrived = 1 .. Len(arrived)
  BY DEF PipelineInv, Shapes
<1>0. ASSUME NEW m \in DOMAIN arrived \cup {Receiving, Gone}
      PROVE  Held(m) \in Seq(DOMAIN arrived)
  <2>1. CASE m \in {Receiving, Gone}
    BY <2>1 DEF Held
  <2>2. CASE m \notin {Receiving, Gone}
    BY <2>2 DEF Held
  <2>3. QED
    BY <2>1, <2>2
<1>2. Held(consumer) \in Seq(DOMAIN arrived)
  BY <1>0 DEF PipelineInv, UnderWay
<1>3. Held(consumer) \o frames \in Seq(DOMAIN arrived)
  BY <1>2, ConcatProperties DEF PipelineInv, UnderWay
<1>4. Line \in Seq(DOMAIN arrived)
  BY <1>3, ConcatProperties DEF Line, PipelineInv, UnderWay
<1>5. ASSUME NEW s \in Sources
      PROVE  /\ Held(fan[s]) \in Seq(DOMAIN arrived)
             /\ Held(fan[s]) \o sourceCh[s] \in Seq(DOMAIN arrived)
  <2>1. Held(fan[s]) \in Seq(DOMAIN arrived) /\ sourceCh[s] \in Seq(DOMAIN arrived)
    BY <1>0 DEF PipelineInv, UnderWay
  <2>2. QED
    BY <2>1, ConcatProperties
<1>6. QED
  BY <1>1, <1>2, <1>4, <1>5 DEF Own

OrderInv == Orderly(Line, Own, From)

(* What is appended to the second of two sequences is appended to both.    *)
LEMMA AppendToLast ==
  ASSUME NEW S, NEW a \in Seq(S), NEW b \in Seq(S), NEW e \in S
  PROVE  a \o Append(b, e) = Append(a \o b, e)
<1>1. <<e>> \in Seq(S) /\ a \o b \in Seq(S)
  BY ConcatProperties
<1>2. Append(b, e) = b \o <<e>> /\ Append(a \o b, e) = (a \o b) \o <<e>>
  BY <1>1, AppendIsConcat
<1>3. (a \o b) \o <<e>> = a \o (b \o <<e>>)
  BY <1>1, ConcatAssociative
<1>4. QED
  BY <1>2, <1>3

LEMMA OrderStep ==
  ASSUME PipelineInv, PipelineInv', OrderInv, PipelineNext
  PROVE  OrderInv'
<1> PICK n \in Nat : n = Len(arrived)
  BY OrderTypes
<1> DEFINE D == 1 .. n
<1>0. /\ DOMAIN arrived = D /\ Held(consumer) \in Seq(D) /\ Line \in Seq(D)
      /\ Own \in [Sources -> Seq(D)] /\ \A s \in Sources : Held(fan[s]) \in Seq(D)
      /\ broadcasts \in Seq(D) /\ frames \in Seq(D) /\ sourceCh \in [Sources -> Seq(D)]
      /\ fan \in [Sources -> D \cup {Receiving, Gone}] /\ consumer \in D \cup {Receiving, Gone}
  BY OrderTypes DEF PipelineInv, UnderWay
<1> HIDE DEF D
<1>a. Line' = Line /\ Own' = Own /\ From' = From => OrderInv'
  BY DEF OrderInv
<1>1. CASE Cancel \/ CloseFrames
  BY <1>1, <1>a DEF Cancel, CloseFrames, Line, Own, From
<1>2. ASSUME NEW s \in Sources, SourceStarts(s) \/ SourceFails(s) \/ SourceReturns(s)
      PROVE  OrderInv'
  BY <1>2, <1>a DEF SourceStarts, SourceFails, SourceReturns, SourceOnly, Line, Own, From
<1>3. ASSUME NEW s \in Sources, NEW m \in Messages, SourceReceives(s, m) PROVE OrderInv'
  <2>1. Line' = Line
    BY <1>3 DEF SourceReceives, SourceOnly, Line
  <2>2. PICK q : /\ q = sourceCh[s] \/ q = Append(sourceCh[s], n + 1)
                 /\ sourceCh' = [sourceCh EXCEPT ![s] = q]
    BY <1>0, <1>3 DEF SourceReceives
  <2>3. PICK r : r = Held(fan[s]) \o q
    OBVIOUS
  <2>4. Own[s] = Held(fan[s]) \o sourceCh[s]
    BY DEF Own
  <2>5. r = Own[s] \/ r = Append(Own[s], n + 1)
    <3>1. CASE q = sourceCh[s]
      BY <2>3, <2>4, <3>1
    <3>2. CASE q = Append(sourceCh[s], n + 1)
      <4>1. Held(fan[s]) \in Seq(Nat) /\ sourceCh[s] \in Seq(Nat) /\ n + 1 \in Nat
        BY <1>0, SeqGrows DEF D
      <4>2. Held(fan[s]) \o Append(sourceCh[s], n + 1) = Append(Held(fan[s]) \o sourceCh[s], n + 1)
        <5>1. PICK h \in Seq(Nat), c \in Seq(Nat), e \in Nat :
                h = Held(fan[s]) /\ c = sourceCh[s] /\ e = n + 1
          BY <4>1
        <5>2. h \o Append(c, e) = Append(h \o c, e)
          BY AppendToLast
        <5>3. QED
          BY <5>1, <5>2
      <4>3. QED
        BY <2>3, <2>4, <3>2, <4>2
    <3>3. QED
      BY <2>2, <3>1, <3>2
  <2>6. Own' = [Own EXCEPT ![s] = r]
    <3>1. fan' = fan
      BY <1>3 DEF SourceReceives, SourceOnly
    <3>2. Own' = [t \in Sources |-> Held(fan[t]) \o sourceCh'[t]]
      BY <3>1 DEF Own
    <3>3. \A t \in Sources \ {s} : sourceCh'[t] = sourceCh[t]
      BY <1>0, <2>2
    <3>4. sourceCh'[s] = q
      BY <1>0, <2>2
    <3>5. QED
      BY <2>3, <3>2, <3>3, <3>4 DEF Own
  <2>7. (\A k \in 1 .. n : From'[k] = From[k]) /\ From'[n + 1] = s
    <3>1. PICK d : d.source = s /\ arrived' = Append(arrived, d)
      BY <1>3 DEF SourceReceives
    <3>2. arrived \in Seq(Decoded)
      BY DEF PipelineInv, Shapes
    <3>3. /\ DOMAIN arrived' = 1 .. n + 1 /\ arrived'[n + 1] = d
          /\ \A k \in 1 .. n : arrived'[k] = arrived[k]
      BY <3>1, <3>2
    <3>4. n + 1 \in 1 .. n + 1 /\ \A k \in 1 .. n : k \in 1 .. n + 1 /\ k \in DOMAIN arrived
      BY <1>0 DEF D
    <3>5. QED
      BY <3>1, <3>3, <3>4 DEF From
  <2>8. QED
    BY <1>0, <2>1, <2>5, <2>6, <2>7, OrderlyArrives DEF OrderInv, D
<1>4. ASSUME NEW s \in Sources, FanTakes(s) PROVE OrderInv'
  <2>1. Line' = Line /\ From' = From
    BY <1>4 DEF FanTakes, FanOnly, Line, From
  <2>2. Held(fan'[s]) \o sourceCh'[s] = Held(fan[s]) \o sourceCh[s]
    <3>1. sourceCh[s] \in Seq(D) /\ sourceCh[s] # <<>>
      BY <1>0, <1>4 DEF FanTakes
    <3>2. fan'[s] = Head(sourceCh[s]) /\ sourceCh'[s] = Tail(sourceCh[s]) /\ fan[s] = Receiving
      BY <1>0, <1>4 DEF FanTakes
    <3>3. Held(fan'[s]) = <<Head(sourceCh[s])>>
      <4>1. Head(sourceCh[s]) \in D
        BY <3>1
      <4>2. QED
        BY <3>2, <4>1 DEF Held, D, Receiving, Gone
    <3>4. Held(fan[s]) = <<>>
      BY <3>2 DEF Held
    <3>5. <<Head(sourceCh[s])>> \o Tail(sourceCh[s]) = sourceCh[s]
      BY <3>1
    <3>6. <<>> \o sourceCh[s] = sourceCh[s]
      BY <3>1, ConcatEmptySeq
    <3>7. QED
      BY <3>2, <3>3, <3>4, <3>5, <3>6
  <2>3. \A t \in Sources \ {s} : fan'[t] = fan[t] /\ sourceCh'[t] = sourceCh[t]
    BY <1>0, <1>4 DEF FanTakes
  <2>4. Own' = Own
    BY <2>2, <2>3 DEF Own
  <2>5. QED
    BY <1>a, <2>1, <2>4
<1>5. ASSUME NEW s \in Sources, FanForwards(s) \/ FanReturns(s) PROVE OrderInv'
  <2>1. From' = From /\ sourceCh' = sourceCh /\ consumer' = consumer /\ broadcasts' = broadcasts
    BY <1>5 DEF FanForwards, FanReturns, FanOnly, From
  <2>2. CASE UNCHANGED <<frames, fan>>
    BY <1>a, <2>1, <2>2 DEF Line, Own
  <2>3. ASSUME fan' = [fan EXCEPT ![s] = Receiving] \/ fan' = [fan EXCEPT ![s] = Gone],
               fan[s] \notin {Receiving, Gone}
        PROVE  Own' = [Own EXCEPT ![s] = Tail(@)] /\ Own[s] # <<>> /\ Head(Own[s]) = fan[s]
    <3>1. sourceCh[s] \in Seq(D) /\ fan[s] \in D
      BY <1>0, <2>3
    <3>2. Own[s] = <<fan[s]>> \o sourceCh[s]
      BY <2>3 DEF Own, Held
    <3>3. Own[s] # <<>> /\ Head(Own[s]) = fan[s] /\ Tail(Own[s]) = sourceCh[s]
      BY <3>1, <3>2
    <3>4. Held(fan'[s]) = <<>> /\ \A t \in Sources \ {s} : fan'[t] = fan[t]
      BY <1>0, <2>3 DEF Held
    <3>5. Own'[s] = sourceCh[s]
      BY <2>1, <3>1, <3>4, ConcatEmptySeq DEF Own
    <3>6. \A t \in Sources \ {s} : Own'[t] = Own[t]
      BY <2>1, <3>4 DEF Own
    <3>7. DOMAIN Own' = Sources /\ Own' = [t \in Sources |-> Own'[t]]
      BY DEF Own
    <3>8. QED
      BY <1>0, <3>3, <3>5, <3>6, <3>7
  <2>4. CASE FanForwards(s) /\ ~framesClosed
    <3>1. /\ fan[s] \in Arrivals /\ frames' = Append(frames, fan[s])
          /\ fan' = [fan EXCEPT ![s] = Receiving]
      BY <2>4 DEF FanForwards
    <3>2. fan[s] \notin {Receiving, Gone} /\ fan[s] \in D
      BY <1>0, <3>1, PipelineAssumption DEF Arrivals, Receiving, Gone
    <3>3. Line' = Append(Line, fan[s])
      <4>1. PICK b \in Seq(D), h \in Seq(D), f \in Seq(D), e \in D :
              b = broadcasts /\ h = Held(consumer) /\ f = frames /\ e = fan[s]
        BY <1>0, <3>2
      <4>2. h \o f \in Seq(D)
        BY ConcatProperties
      <4>3. h \o Append(f, e) = Append(h \o f, e)
        BY AppendToLast
      <4>4. b \o Append(h \o f, e) = Append(b \o (h \o f), e)
        BY <4>2, AppendToLast
      <4>5. QED
        BY <2>1, <3>1, <4>1, <4>3, <4>4 DEF Line
    <3>4. PICK own : own = [Own EXCEPT ![s] = Tail(@)]
      OBVIOUS
    <3>5. Own' = own /\ Line' = Append(Line, Head(Own[s])) /\ Own[s] # <<>>
      BY <2>3, <3>1, <3>2, <3>3, <3>4
    <3>6. Orderly(Append(Line, Head(Own[s])), own, From)
      BY <1>0, <3>4, <3>5, OrderlyForwards DEF OrderInv, D
    <3>7. QED
      BY <2>1, <3>5, <3>6 DEF OrderInv
  <2>5. CASE FanReturns(s)
    <3>1. Line' = Line /\ fan' = [fan EXCEPT ![s] = Gone]
      BY <2>1, <2>5 DEF FanReturns, Line
    <3>2. CASE fan[s] \in Arrivals
      <4>1. fan[s] \notin {Receiving, Gone}
        BY <3>2, PipelineAssumption DEF Arrivals, Receiving, Gone
      <4>2. PICK own : own = [Own EXCEPT ![s] = Tail(@)]
        OBVIOUS
      <4>3. Own' = own /\ Own[s] # <<>>
        BY <2>3, <3>1, <4>1, <4>2
      <4>4. Orderly(Line, own, From)
        BY <1>0, <4>2, <4>3, OrderlyDrops DEF OrderInv, D
      <4>5. QED
        BY <2>1, <3>1, <4>3, <4>4 DEF OrderInv
    <3>3. CASE fan[s] = Receiving
      <4>1. Held(fan'[s]) = Held(fan[s]) /\ \A t \in Sources \ {s} : fan'[t] = fan[t]
        BY <1>0, <3>1, <3>3 DEF Held
      <4>2. Own' = Own
        BY <2>1, <4>1 DEF Own
      <4>3. QED
        BY <1>a, <2>1, <3>1, <4>2
    <3>4. QED
      BY <2>5, <3>2, <3>3 DEF FanReturns
  <2>6. QED
    BY <1>5, <2>2, <2>4, <2>5 DEF FanForwards
<1>6. CASE ConsumerTakes
  <2>1. Own' = Own /\ From' = From
    BY <1>6 DEF ConsumerTakes, ConsumerOnly, Own, From
  <2>2. /\ frames # <<>> /\ frames' = Tail(frames) /\ consumer' = Head(frames)
        /\ consumer = Receiving /\ broadcasts' = broadcasts
    BY <1>6 DEF ConsumerTakes
  <2>3. Held(consumer') = <<Head(frames)>> /\ Held(consumer) = <<>>
    <3>1. Head(frames) \in D
      BY <1>0, <2>2
    <3>2. QED
      BY <2>2, <3>1 DEF Held, D, Receiving, Gone
  <2>4. <<Head(frames)>> \o Tail(frames) = frames /\ <<>> \o frames = frames
    BY <1>0, <2>2, ConcatEmptySeq
  <2>5. Line' = Line
    BY <2>2, <2>3, <2>4 DEF Line
  <2>6. QED
    BY <1>a, <2>1, <2>5
<1>7. CASE ConsumerBroadcasts
  <2>1. Own' = Own /\ From' = From
    BY <1>7 DEF ConsumerBroadcasts, ConsumerOnly, Own, From
  <2>2. /\ consumer \in Arrivals /\ consumer' = Receiving /\ frames' = frames
        /\ broadcasts' = Append(broadcasts, consumer)
    BY <1>7 DEF ConsumerBroadcasts
  <2>3. consumer \notin {Receiving, Gone} /\ consumer \in D
    BY <1>0, <2>2, PipelineAssumption DEF Arrivals, Receiving, Gone
  <2>4. Held(consumer) = <<consumer>> /\ Held(consumer') = <<>>
    BY <2>2, <2>3 DEF Held
  <2>5. broadcasts' = broadcasts \o <<consumer>> /\ <<consumer>> \in Seq(D)
    BY <1>0, <2>2, <2>3, AppendIsConcat
  <2>6. (broadcasts \o <<consumer>>) \o frames = broadcasts \o (<<consumer>> \o frames)
    BY <1>0, <2>5, ConcatAssociative
  <2>7. <<>> \o frames = frames
    BY <1>0, ConcatEmptySeq
  <2>8. Line' = Line
    BY <2>2, <2>4, <2>5, <2>6, <2>7 DEF Line
  <2>9. QED
    BY <1>a, <2>1, <2>8
<1>8. CASE ConsumerReturns
  <2>1. Own' = Own /\ From' = From
    BY <1>8 DEF ConsumerReturns, ConsumerOnly, Own, From
  <2>2. Held(consumer') = Held(consumer) /\ frames' = frames /\ broadcasts' = broadcasts
    BY <1>8 DEF ConsumerReturns, Held
  <2>3. Line' = Line
    BY <2>2 DEF Line
  <2>4. QED
    BY <1>a, <2>1, <2>3
<1>9. QED
  BY <1>1, <1>2, <1>3, <1>4, <1>5, <1>6, <1>7, <1>8
     DEF PipelineNext, Running, FanStep, ConsumerStep

LEMMA OrderInit == PipelineInit => OrderInv
<1> SUFFICES ASSUME PipelineInit PROVE OrderInv
  OBVIOUS
<1>1. broadcasts = <<>> /\ frames = <<>> /\ Held(consumer) = <<>>
  BY DEF PipelineInit, Held
<1>2. Line = <<>>
  BY <1>1 DEF Line
<1>3. \A s \in Sources : Own[s] = <<>>
  BY DEF PipelineInit, Own, Held
<1>4. QED
  BY <1>2, <1>3 DEF OrderInv, Orderly

LEMMA OrderStutter == OrderInv /\ UNCHANGED pipelineVars => OrderInv'
BY DEF OrderInv, Line, Own, From, pipelineVars

(* Frames of one source are broadcast in the order of their arrival and no *)
(* more than once, for any number of sources and capacities (main.go:182). *)
THEOREM OrderIsKept == PipelineSafety => []SourceOrderKept
<1>1. PipelineInv /\ PipelineInv' /\ OrderInv /\ [PipelineNext]_pipelineVars => OrderInv'
  BY OrderStep, OrderStutter
<1>2. ASSUME PipelineInv, OrderInv PROVE SourceOrderKept
  <2>1. broadcasts \in Seq(DOMAIN arrived) /\ Held(consumer) \o frames \in Seq(DOMAIN arrived)
    BY <1>2, OrderTypes, ConcatProperties DEF PipelineInv, UnderWay
  <2>2. \A i \in DOMAIN broadcasts : i \in DOMAIN Line /\ Line[i] = broadcasts[i]
    BY <2>1 DEF Line
  <2>3. \A i \in DOMAIN broadcasts : From[broadcasts[i]] = arrived[broadcasts[i]].source
    BY <2>1 DEF From
  <2>4. QED
    BY <1>2, <2>2, <2>3 DEF SourceOrderKept, OrderInv, Orderly
<1>3. QED
  BY <1>1, <1>2, OrderInit, PipelineInvariant, PTL DEF PipelineSafety
=============================================================================
