-------------------------- MODULE MonitoringProofs --------------------------
(***************************************************************************)
(* What a page of metrics shows when no gauge was being set while it was   *)
(* read, for any number of vehicles.                                       *)
(***************************************************************************)
EXTENDS Monitoring, FiniteSetTheorems, TLAPS

FleetOK == DOMAIN fleet \subseteq Vehicles /\ fleet \in [DOMAIN fleet -> StatusSet]

(* The shape of the fleet, without the set of its shapes.                  *)
LEMMA FleetShape == fleet \in UNION {[D -> StatusSet] : D \in SUBSET Vehicles} <=> FleetOK
<1>1. ASSUME fleet \in UNION {[D -> StatusSet] : D \in SUBSET Vehicles} PROVE FleetOK
  BY <1>1 DEF FleetOK
<1>2. ASSUME FleetOK PROVE fleet \in UNION {[D -> StatusSet] : D \in SUBSET Vehicles}
  BY <1>2 DEF FleetOK
<1> QED
  BY <1>1, <1>2

----------------------------------------------------------------------------
(* Counting *)

(* There are no more vehicles of a status than vehicles that may be known. *)
LEMMA FewOfAStatus ==
  ASSUME NEW S, S \subseteq Vehicles
  PROVE  IsFiniteSet(S) /\ Cardinality(S) \in 0 .. Cardinality(Vehicles)
<1>1. IsFiniteSet(Vehicles)
  BY MonitoringAssumption
<1>2. IsFiniteSet(S) /\ Cardinality(S) <= Cardinality(Vehicles)
  BY <1>1, FS_Subset
<1> QED
  BY <1>1, <1>2, FS_CardinalityType

(* Two sets with nothing in common add up.                                 *)
LEMMA DisjointAddsUp ==
  ASSUME NEW S, NEW T, IsFiniteSet(S), IsFiniteSet(T), S \cap T = {}
  PROVE  /\ IsFiniteSet(S \cup T)
         /\ Cardinality(S \cup T) = Cardinality(S) + Cardinality(T)
<1>1. /\ IsFiniteSet(S \cup T)
      /\ Cardinality(S \cup T) = Cardinality(S) + Cardinality(T) - Cardinality(S \cap T)
  BY FS_Union
<1>2. Cardinality(S \cap T) = 0
  BY FS_EmptySet
<1>3. Cardinality(S) \in Nat /\ Cardinality(T) \in Nat
  BY FS_CardinalityType
<1> QED
  BY <1>1, <1>2, <1>3

(* CountByStatus counts every known vehicle once.                          *)
LEMMA EveryVehicleOnce ==
  ASSUME FleetOK
  PROVE  /\ CountByStatus \in Counts
         /\ Total(CountByStatus) = Count
<1> DEFINE Of(s) == {v \in DOMAIN fleet : fleet[v] = s}
<1>1. \A s : IsFiniteSet(Of(s)) /\ Cardinality(Of(s)) \in 0 .. Cardinality(Vehicles)
  <2> TAKE s
  <2>1. Of(s) \subseteq Vehicles
    BY DEF FleetOK
  <2> HIDE DEF Of
  <2> QED
    BY <2>1, FewOfAStatus
<1>2. CountByStatus \in Counts
  BY <1>1 DEF CountByStatus, Counts
<1>3. /\ CountByStatus["online"] = Cardinality(Of("online"))
      /\ CountByStatus["standby"] = Cardinality(Of("standby"))
      /\ CountByStatus["offline"] = Cardinality(Of("offline"))
  BY DEF CountByStatus, StatusSet
<1>4. /\ Of("online") \cap Of("standby") = {}
      /\ (Of("online") \cup Of("standby")) \cap Of("offline") = {}
      /\ (Of("online") \cup Of("standby")) \cup Of("offline") = DOMAIN fleet
  BY DEF FleetOK, StatusSet
<1> HIDE DEF Of
<1>5. /\ IsFiniteSet(Of("online") \cup Of("standby"))
      /\ Cardinality(Of("online") \cup Of("standby")) =
           Cardinality(Of("online")) + Cardinality(Of("standby"))
  BY <1>1, <1>4, DisjointAddsUp
<1>6. Cardinality(DOMAIN fleet) =
        Cardinality(Of("online") \cup Of("standby")) + Cardinality(Of("offline"))
  BY <1>1, <1>4, <1>5, DisjointAddsUp
<1>7. Total(CountByStatus) = Count
  BY <1>3, <1>5, <1>6 DEF Total, Count
<1> QED
  BY <1>2, <1>7

(* The registry forgets no vehicle.                                        *)
LEMMA CountGrows ==
  ASSUME FleetOK, FleetOK', DOMAIN fleet \subseteq DOMAIN fleet'
  PROVE  Count <= Count'
<1>1. IsFiniteSet(DOMAIN fleet')
  BY FewOfAStatus DEF FleetOK
<1> QED
  BY <1>1, FS_Subset DEF Count

----------------------------------------------------------------------------
(* The invariant *)

(* The shapes, field by field.                                             *)
Shapes ==
  /\ FleetOK
  /\ gauges \in Counts /\ page \in Counts
  /\ tick \in [at : 0 .. 4, counts : Counts]
  /\ scrape \in [at : 0 .. 2, read : Counts]

(* They are the type invariant.                                            *)
LEMMA ShapesAreTypes == MonitorTypeOK <=> Shapes
  BY FleetShape DEF MonitorTypeOK, Shapes

(* What the ticker has taken and not yet set, and what the gauges show     *)
(* while it sets none, is no more than the registry has; the gauges that   *)
(* it has set are what it took.                                            *)
GaugesFit ==
  /\ tick.at \in 2 .. 4 => Total(tick.counts) <= Count
  /\ tick.at \in 0 .. 2 => Total(gauges) <= Count
  /\ tick.at \in 3 .. 4 => gauges["online"] = tick.counts["online"]
  /\ tick.at = 4 => gauges["standby"] = tick.counts["standby"]

(* A page that nothing has overlapped so far has the gauges as they are.   *)
ReadIsCurrent ==
  scrape.at > 0 /\ ~overlapped =>
    /\ tick.at \in 0 .. 2
    /\ scrape.read["online"] = gauges["online"]
    /\ scrape.at = 2 => scrape.read["standby"] = gauges["standby"]

MonitorInv == Shapes /\ GaugesFit /\ ReadIsCurrent

(* Counts are numbers.                                                     *)
LEMMA CountNumbers ==
  ASSUME NEW c \in Counts
  PROVE  c["online"] \in Nat /\ c["standby"] \in Nat /\ c["offline"] \in Nat
<1>1. Cardinality(Vehicles) \in Nat
  BY MonitoringAssumption, FS_CardinalityType
<1> QED
  BY <1>1 DEF Counts, StatusSet

(* Three gauges that are nought are counts.                                *)
LEMMA NoneIsCounts == None \in Counts /\ Total(None) = 0
<1>1. Cardinality(Vehicles) \in Nat
  BY MonitoringAssumption, FS_CardinalityType
<1> QED
  BY <1>1 DEF None, Counts, Total, StatusSet

(* At first no vehicle is known and every gauge is nought.                 *)
LEMMA MonitorInit == Init => MonitorInv
<1> SUFFICES ASSUME Init PROVE MonitorInv
  OBVIOUS
<1>1. DOMAIN fleet = {} /\ FleetOK
  BY DEF Init, FleetOK
<1>2. Count = 0
  BY <1>1, FS_EmptySet DEF Count
<1>3. Shapes
  BY <1>1, NoneIsCounts DEF Init, Shapes
<1>4. GaugesFit
  BY <1>2, NoneIsCounts DEF Init, GaugesFit
<1>5. ReadIsCurrent
  BY DEF Init, ReadIsCurrent
<1> QED
  BY <1>3, <1>4, <1>5 DEF MonitorInv

(* A step that touches the fleet only, and forgets no vehicle.             *)
LEMMA FleetStep ==
  ASSUME MonitorInv, FleetOK', DOMAIN fleet \subseteq DOMAIN fleet',
         UNCHANGED <<gauges, scrape, page, overlapped>>,
         tick'.counts = tick.counts, tick' \in [at : 0 .. 4, counts : Counts],
         tick'.at = tick.at \/ (tick.at = 0 /\ tick'.at = 1)
  PROVE  MonitorInv'
<1>1. Shapes
  BY DEF MonitorInv
<1>2. Count <= Count' /\ Count \in Nat /\ Count' \in Nat
  <2>1. Count <= Count'
    BY <1>1, CountGrows DEF Shapes
  <2>2. IsFiniteSet(DOMAIN fleet) /\ IsFiniteSet(DOMAIN fleet')
    BY <1>1, FewOfAStatus DEF Shapes, FleetOK
  <2> QED
    BY <2>1, <2>2, FS_CardinalityType DEF Count
<1>3. Shapes'
  BY <1>1 DEF Shapes
<1>4. tick.counts \in Counts /\ gauges \in Counts
  BY <1>1 DEF Shapes
<1>5. Total(gauges) \in Nat /\ Total(tick.counts) \in Nat
  BY <1>4, CountNumbers DEF Total
<1>6. Total(gauges)' = Total(gauges) /\ Total(tick.counts)' = Total(tick.counts)
  BY DEF Total
<1>7. GaugesFit'
  BY <1>2, <1>5, <1>6 DEF MonitorInv, GaugesFit
<1>8. ReadIsCurrent'
  BY DEF MonitorInv, ReadIsCurrent
<1> QED
  BY <1>3, <1>7, <1>8 DEF MonitorInv

(* RecordTelemetry adds a vehicle, or none.                                *)
LEMMA RecordStep ==
  ASSUME MonitorInv, NEW v \in Vehicles, RecordTelemetry(v)
  PROVE  MonitorInv'
<1>1. Shapes
  BY DEF MonitorInv
<1>2. FleetOK' /\ DOMAIN fleet \subseteq DOMAIN fleet'
  BY <1>1 DEF RecordTelemetry, Shapes, FleetOK, StatusSet
<1>3. UNCHANGED <<gauges, tick, scrape, page, overlapped>>
  BY DEF RecordTelemetry
<1>4. /\ tick'.counts = tick.counts /\ tick'.at = tick.at
      /\ tick' \in [at : 0 .. 4, counts : Counts]
  BY <1>1, <1>3 DEF Shapes
<1> QED
  BY <1>2, <1>3, <1>4, FleetStep

(* CheckTimeouts changes statuses.                                         *)
LEMMA CheckStep ==
  ASSUME MonitorInv, CheckTimeouts
  PROVE  MonitorInv'
<1>1. Shapes
  BY DEF MonitorInv
<1>2. FleetOK' /\ DOMAIN fleet \subseteq DOMAIN fleet'
  BY <1>1 DEF CheckTimeouts, Shapes, FleetOK, StatusSet, Older
<1>3. /\ tick'.counts = tick.counts /\ tick' \in [at : 0 .. 4, counts : Counts]
      /\ tick.at = 0 /\ tick'.at = 1
  BY <1>1 DEF CheckTimeouts, Shapes
<1> QED
  BY <1>2, <1>3, FleetStep DEF CheckTimeouts

(* What the ticker takes is every vehicle once.                            *)
LEMMA TakeStep ==
  ASSUME MonitorInv, TakeCounts
  PROVE  MonitorInv'
<1>1. Shapes
  BY DEF MonitorInv
<1>2. CountByStatus \in Counts /\ Total(CountByStatus) = Count
  BY <1>1, EveryVehicleOnce DEF Shapes
<1>3. /\ tick.at = 1 /\ tick'.at = 2 /\ tick'.counts = CountByStatus
      /\ tick' \in [at : 0 .. 4, counts : Counts]
      /\ UNCHANGED <<fleet, gauges, scrape, page, overlapped>>
  BY <1>2 DEF TakeCounts
<1>4. Shapes'
  BY <1>1, <1>3 DEF Shapes, FleetOK
<1>5. Count' = Count /\ Total(gauges)' = Total(gauges) /\ Total(tick.counts)' = Total(CountByStatus)
  BY <1>3 DEF Count, Total
<1>6. Count \in Nat
  <2>1. IsFiniteSet(DOMAIN fleet)
    BY <1>1, FewOfAStatus DEF Shapes, FleetOK
  <2> QED
    BY <2>1, FS_CardinalityType DEF Count
<1>7. GaugesFit'
  BY <1>2, <1>3, <1>5, <1>6 DEF MonitorInv, GaugesFit
<1>8. ReadIsCurrent'
  BY <1>3 DEF MonitorInv, ReadIsCurrent
<1> QED
  BY <1>4, <1>7, <1>8 DEF MonitorInv

(* Each gauge becomes what the ticker took; with the third they are that.  *)
LEMMA SetStep ==
  ASSUME MonitorInv, SetVehicleCount
  PROVE  MonitorInv'
<1>1. Shapes /\ GaugesFit
  BY DEF MonitorInv
<1> DEFINE s == Statuses[tick.at - 1]
<1>2. /\ tick.at \in 2 .. 4
      /\ gauges' = [gauges EXCEPT ![s] = tick.counts[s]]
      /\ tick' = IF tick.at = 4 THEN [at |-> 0, counts |-> None] ELSE [tick EXCEPT !.at = @ + 1]
      /\ overlapped' = (overlapped \/ scrape.at > 0)
      /\ UNCHANGED <<fleet, scrape, page>>
  BY DEF SetVehicleCount
<1>3. /\ tick.at = 2 => s = "online"
      /\ tick.at = 3 => s = "standby"
      /\ tick.at = 4 => s = "offline"
  BY DEF Statuses
<1> HIDE DEF s
<1>4. s \in StatusSet
  BY <1>2, <1>3 DEF StatusSet
<1>5. tick.counts \in Counts /\ gauges \in Counts /\ tick.at \in 2 .. 4
  BY <1>1, <1>2 DEF Shapes
<1>6. gauges' \in Counts
  BY <1>2, <1>4, <1>5 DEF Counts
<1>7. tick' \in [at : 0 .. 4, counts : Counts]
  BY <1>1, <1>2, NoneIsCounts DEF Shapes
<1>8. Shapes'
  BY <1>1, <1>2, <1>6, <1>7 DEF Shapes, FleetOK
<1>9. Count' = Count /\ Count \in Nat
  <2>1. IsFiniteSet(DOMAIN fleet)
    BY <1>1, FewOfAStatus DEF Shapes, FleetOK
  <2> QED
    BY <1>2, <2>1, FS_CardinalityType DEF Count
<1>10. \A t \in StatusSet : gauges'[t] = IF t = s THEN tick.counts[s] ELSE gauges[t]
  BY <1>2, <1>5 DEF Counts
<1>11. GaugesFit'
  <2>1. CASE tick.at = 2
    <3>1. tick'.at = 3 /\ tick'.counts = tick.counts
      BY <1>1, <1>2, <2>1 DEF Shapes
    <3>2. gauges'["online"] = tick.counts["online"]
      BY <1>3, <1>10, <2>1 DEF StatusSet
    <3> QED
      BY <1>1, <1>9, <2>1, <3>1, <3>2 DEF GaugesFit, Total
  <2>2. CASE tick.at = 3
    <3>1. tick'.at = 4 /\ tick'.counts = tick.counts
      BY <1>1, <1>2, <2>2 DEF Shapes
    <3>2. gauges'["online"] = gauges["online"] /\ gauges'["standby"] = tick.counts["standby"]
      BY <1>3, <1>10, <2>2 DEF StatusSet
    <3> QED
      BY <1>1, <1>9, <2>2, <3>1, <3>2 DEF GaugesFit, Total
  <2>3. CASE tick.at = 4
    <3>1. tick'.at = 0
      BY <1>2, <2>3
    <3>2. /\ gauges'["online"] = gauges["online"] /\ gauges'["standby"] = gauges["standby"]
          /\ gauges'["offline"] = tick.counts["offline"]
      BY <1>3, <1>10, <2>3 DEF StatusSet
    <3>3. Total(gauges)' = Total(tick.counts)
      BY <1>1, <2>3, <3>2 DEF GaugesFit, Total
    <3> QED
      BY <1>1, <1>9, <2>3, <3>1, <3>3 DEF GaugesFit
  <2> QED
    BY <1>2, <2>1, <2>2, <2>3
<1>12. ReadIsCurrent'
  BY <1>2 DEF ReadIsCurrent
<1> QED
  BY <1>8, <1>11, <1>12 DEF MonitorInv

(* What a request reads of the gauges, and the page it makes.              *)
LEMMA SnapshotReads ==
  ASSUME MonitorInv, Snapshot
  PROVE  /\ UNCHANGED <<fleet, gauges, tick>>
         /\ scrape' \in [at : 0 .. 2, read : Counts] /\ page' \in Counts
         /\ scrape.at = 0 =>
              /\ scrape'.at = 1 /\ scrape'.read["online"] = gauges["online"]
              /\ ~overlapped' => tick.at \notin 3 .. 4
         /\ scrape.at = 1 =>
              /\ scrape'.at = 2 /\ scrape'.read["standby"] = gauges["standby"]
              /\ scrape'.read["online"] = scrape.read["online"]
              /\ overlapped' = overlapped
         /\ scrape.at = 2 =>
              /\ scrape'.at = 0
              /\ page' = [scrape.read EXCEPT !["offline"] = gauges["offline"]]
<1>1. Shapes
  BY DEF MonitorInv
<1> DEFINE s == Statuses[scrape.at + 1]
           read == [scrape.read EXCEPT ![s] = gauges[s]]
<1>2. /\ scrape.at < 3
      /\ scrape' = IF scrape.at = 2 THEN [at |-> 0, read |-> None]
                   ELSE [at |-> scrape.at + 1, read |-> read]
      /\ page' = IF scrape.at = 2 THEN read ELSE page
      /\ overlapped' = IF scrape.at = 0 THEN tick.at \in 3 .. 4 ELSE overlapped
      /\ UNCHANGED <<fleet, gauges, tick>>
  BY DEF Snapshot
<1>3. /\ scrape.at \in 0 .. 2
      /\ scrape.at = 0 => s = "online"
      /\ scrape.at = 1 => s = "standby"
      /\ scrape.at = 2 => s = "offline"
  BY <1>1 DEF Statuses, Shapes
<1>4. s \in StatusSet
  BY <1>3 DEF StatusSet
<1> HIDE DEF s
<1>5. scrape.read \in Counts /\ gauges \in Counts /\ page \in Counts
  BY <1>1 DEF Shapes
<1>6. read \in Counts /\ \A t \in StatusSet : read[t] = IF t = s THEN gauges[s] ELSE scrape.read[t]
  BY <1>4, <1>5 DEF Counts
<1>7. scrape.at = 2 => read = [scrape.read EXCEPT !["offline"] = gauges["offline"]]
  BY <1>3
<1> HIDE DEF read
<1>8. scrape' \in [at : 0 .. 2, read : Counts] /\ page' \in Counts
  BY <1>2, <1>3, <1>5, <1>6, NoneIsCounts
<1>9. CASE scrape.at = 0
  <2>1. scrape'.at = 1 /\ scrape'.read = read
    BY <1>2, <1>9
  <2>2. read["online"] = gauges["online"]
    BY <1>3, <1>6, <1>9 DEF StatusSet
  <2>3. ~overlapped' => tick.at \notin 3 .. 4
    BY <1>2, <1>9
  <2> QED
    BY <1>2, <1>8, <1>9, <2>1, <2>2, <2>3
<1>10. CASE scrape.at = 1
  <2>1. scrape'.at = 2 /\ scrape'.read = read
    BY <1>2, <1>10
  <2>2. read["standby"] = gauges["standby"] /\ read["online"] = scrape.read["online"]
    BY <1>3, <1>6, <1>10 DEF StatusSet
  <2> QED
    BY <1>2, <1>8, <1>10, <2>1, <2>2
<1>11. CASE scrape.at = 2
  BY <1>2, <1>7, <1>8, <1>11
<1> QED
  BY <1>3, <1>9, <1>10, <1>11

(* A request reads the next gauge, or serves its page.                     *)
LEMMA SnapshotStep ==
  ASSUME MonitorInv, Snapshot
  PROVE  MonitorInv'
<1>1. Shapes
  BY DEF MonitorInv
<1>2. Shapes'
  BY <1>1, SnapshotReads DEF Shapes, FleetOK
<1>3. UNCHANGED <<fleet, gauges, tick>>
  BY SnapshotReads
<1>4. GaugesFit'
  <2>1. Count' = Count /\ Total(gauges)' = Total(gauges) /\ Total(tick.counts)' = Total(tick.counts)
    BY <1>3 DEF Count, Total
  <2> QED
    BY <1>3, <2>1 DEF MonitorInv, GaugesFit
<1>5. scrape.at \in 0 .. 2 /\ tick.at \in 0 .. 4
  BY <1>1 DEF Shapes
<1>6. ReadIsCurrent'
  <2>1. CASE scrape.at = 0
    BY <1>3, <1>5, <2>1, SnapshotReads DEF ReadIsCurrent
  <2>2. CASE scrape.at = 1
    BY <1>3, <1>5, <2>2, SnapshotReads DEF MonitorInv, ReadIsCurrent
  <2>3. CASE scrape.at = 2
    BY <2>3, SnapshotReads DEF ReadIsCurrent
  <2> QED
    BY <1>5, <2>1, <2>2, <2>3
<1> QED
  BY <1>2, <1>4, <1>6 DEF MonitorInv

(* Every step keeps the invariant.                                         *)
LEMMA MonitorStep == MonitorInv /\ [Next]_vars => MonitorInv'
<1> SUFFICES ASSUME MonitorInv, [Next]_vars PROVE MonitorInv'
  OBVIOUS
<1>1. CASE \E v \in Vehicles : RecordTelemetry(v)
  BY <1>1, RecordStep
<1>2. CASE CheckTimeouts
  BY <1>2, CheckStep
<1>3. CASE TakeCounts
  BY <1>3, TakeStep
<1>4. CASE SetVehicleCount
  BY <1>4, SetStep
<1>5. CASE Snapshot
  BY <1>5, SnapshotStep
<1>6. CASE UNCHANGED vars
  BY <1>6 DEF vars, MonitorInv, Shapes, FleetOK, GaugesFit, ReadIsCurrent, Count, Total
<1> QED
  BY <1>1, <1>2, <1>3, <1>4, <1>5, <1>6 DEF Next

----------------------------------------------------------------------------
(* The theorem *)

(* The step that serves a page which nothing overlapped serves the gauges, *)
(* and they have no more vehicles than the registry.                       *)
LEMMA QuietPage ==
  ASSUME MonitorInv, [Next]_vars, PageDone, ~overlapped
  PROVE  page' = gauges /\ Total(page') <= Count
<1>1. Shapes
  BY DEF MonitorInv
<1>2. scrape.at = 2 /\ scrape'.at = 0
  BY DEF PageDone
<1>3. Snapshot
  <2>1. ASSUME \/ \E v \in Vehicles : RecordTelemetry(v)
               \/ CheckTimeouts \/ TakeCounts \/ SetVehicleCount \/ UNCHANGED vars
        PROVE  scrape' = scrape
    <3>1. CASE \E v \in Vehicles : RecordTelemetry(v)
      BY <3>1 DEF RecordTelemetry
    <3>2. CASE CheckTimeouts
      BY <3>2 DEF CheckTimeouts
    <3>3. CASE TakeCounts
      BY <3>3 DEF TakeCounts
    <3>4. CASE SetVehicleCount
      BY <3>4 DEF SetVehicleCount
    <3>5. CASE UNCHANGED vars
      BY <3>5 DEF vars
    <3> QED
      BY <2>1, <3>1, <3>2, <3>3, <3>4, <3>5
  <2> QED
    BY <1>2, <2>1 DEF Next
<1>4. page' = [scrape.read EXCEPT !["offline"] = gauges["offline"]]
  BY <1>2, <1>3, SnapshotReads
<1>5. /\ tick.at \in 0 .. 2
      /\ scrape.read["online"] = gauges["online"] /\ scrape.read["standby"] = gauges["standby"]
  BY <1>2 DEF MonitorInv, ReadIsCurrent
<1>6. scrape.read \in Counts /\ gauges \in Counts
  BY <1>1 DEF Shapes
<1>7. page' = gauges
  BY <1>4, <1>5, <1>6 DEF Counts, StatusSet
<1> QED
  BY <1>5, <1>7 DEF MonitorInv, GaugesFit

(* A page of /metrics that was read while the ticker set no gauge is the   *)
(* gauges as they are and counts each vehicle once at most (metrics.go's   *)
(* SetVehicleCount and Snapshot, main.go's ticker), for any number of      *)
(* vehicles and any interleaving of ticker, request and telemetry.         *)
THEOREM QuietPagesAddUp == SafetySpec => QuietPageAddsUp
<1>1. MonitorInv => MonitorTypeOK
  BY ShapesAreTypes DEF MonitorInv
<1>2. MonitorInv /\ [Next]_vars => [PageDone /\ ~overlapped => page' = gauges /\ Total(page') <= Count]_vars
  BY QuietPage
<1> QED
  BY <1>1, <1>2, MonitorInit, MonitorStep, PTL DEF SafetySpec, QuietPageAddsUp
=============================================================================
