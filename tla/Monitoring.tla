----------------------------- MODULE Monitoring -----------------------------
(***************************************************************************)
(* What an operator can see of the running server: the gauges of           *)
(* internal/observability/metrics.go, which the status ticker of           *)
(* cmd/tower-server/main.go sets from the registry's counts and a request  *)
(* for /metrics reads, while vehicles come and go.                         *)
(*                                                                         *)
(* Each gauge is an atomic of its own: setting the three and reading the   *)
(* three are sequences of steps.  The time that CheckTimeouts looks at is  *)
(* left out: any vehicle may have been silent for long enough.             *)
(***************************************************************************)
EXTENDS Integers, FiniteSets

CONSTANTS
  Vehicles,
  MaxHeard       \* bound: telemetry packets

ASSUME MonitoringAssumption == IsFiniteSet(Vehicles)

VARIABLES
  fleet,         \* Registry: the status of each known vehicle
  gauges,        \* Metrics: a gauge for each status
  tick,          \* the ticker's goroutine: where it is, and the counts it took
  scrape,        \* a request's goroutine: where it is, and what it read
  page,          \* history: the last page served
  overlapped,    \* history: a gauge was set while it was read
  heard          \* what the bound counts

vars == <<fleet, gauges, tick, scrape, page, overlapped, heard>>

(* The order in which the gauges are set and read.                         *)
Statuses == <<"online", "standby", "offline">>
StatusSet == {"online", "standby", "offline"}
None == [s \in StatusSet |-> 0]

(* CountByStatus, and the sum of what it or a page shows.                  *)
CountByStatus == [s \in StatusSet |-> Cardinality({v \in DOMAIN fleet : fleet[v] = s})]
Total(counts) == counts["online"] + counts["standby"] + counts["offline"]
Count == Cardinality(DOMAIN fleet)

Init ==
  /\ fleet = [v \in {} |-> ""]
  /\ gauges = None
  /\ tick = [at |-> 0, counts |-> None]
  /\ scrape = [at |-> 0, read |-> None]
  /\ page = None /\ overlapped = FALSE
  /\ heard = 0

----------------------------------------------------------------------------
(* RecordTelemetry: a vehicle is discovered or heard again.                *)
RecordTelemetry(v) ==
  /\ heard < MaxHeard
  /\ heard' = heard + 1
  /\ fleet' = [w \in DOMAIN fleet \cup {v} |-> IF w = v THEN "online" ELSE fleet[w]]
  /\ UNCHANGED <<gauges, tick, scrape, page, overlapped>>

(* The ticker: CheckTimeouts takes the silent vehicles one step on, then   *)
(* they are counted, under two holds of the lock, then each gauge is set.  *)
Older(status) == IF status = "online" THEN "standby" ELSE "offline"

CheckTimeouts ==
  /\ tick.at = 0
  /\ \E silent \in SUBSET DOMAIN fleet :
       fleet' = [v \in DOMAIN fleet |-> IF v \in silent THEN Older(fleet[v]) ELSE fleet[v]]
  /\ tick' = [tick EXCEPT !.at = 1]
  /\ UNCHANGED <<gauges, scrape, page, overlapped, heard>>

TakeCounts ==
  /\ tick.at = 1
  /\ tick' = [at |-> 2, counts |-> CountByStatus]
  /\ UNCHANGED <<fleet, gauges, scrape, page, overlapped, heard>>

(* Mutated form: a gauge is set only upwards. *)
SetVehicleCountUpwards ==
  LET s == Statuses[tick.at - 1] IN
  /\ tick.at \in 2 .. 4
  /\ gauges' = [gauges EXCEPT ![s] = IF tick.counts[s] > @ THEN tick.counts[s] ELSE @]
  /\ tick' = IF tick.at = 4 THEN [at |-> 0, counts |-> None] ELSE [tick EXCEPT !.at = @ + 1]
  /\ overlapped' = (overlapped \/ scrape.at > 0)
  /\ UNCHANGED <<fleet, scrape, page, heard>>

(* Mutated form: the standby gauge is forgotten. *)
SetVehicleCountNoStandby ==
  LET s == Statuses[tick.at - 1] IN
  /\ tick.at \in 2 .. 4
  /\ gauges' = [gauges EXCEPT ![s] = IF s = "standby" THEN @ ELSE tick.counts[s]]
  /\ tick' = IF tick.at = 4 THEN [at |-> 0, counts |-> None] ELSE [tick EXCEPT !.at = @ + 1]
  /\ overlapped' = (overlapped \/ scrape.at > 0)
  /\ UNCHANGED <<fleet, scrape, page, heard>>

(* SetVehicleCounts: one store at a time.                                  *)
SetVehicleCount ==
  LET s == Statuses[tick.at - 1] IN
  /\ tick.at \in 2 .. 4
  /\ gauges' = [gauges EXCEPT ![s] = tick.counts[s]]
  /\ tick' = IF tick.at = 4 THEN [at |-> 0, counts |-> None] ELSE [tick EXCEPT !.at = @ + 1]
  /\ overlapped' = (overlapped \/ scrape.at > 0)
  /\ UNCHANGED <<fleet, scrape, page, heard>>

(* Snapshot loads them one at a time, and PrometheusHandler prints them.   *)
Snapshot ==
  LET s == Statuses[scrape.at + 1]
      read == [scrape.read EXCEPT ![s] = gauges[s]]
  IN
  /\ scrape.at < 3
  /\ scrape' = IF scrape.at = 2 THEN [at |-> 0, read |-> None]
               ELSE [at |-> scrape.at + 1, read |-> read]
  /\ page' = IF scrape.at = 2 THEN read ELSE page
  /\ overlapped' = IF scrape.at = 0 THEN tick.at \in 3 .. 4 ELSE overlapped
  /\ UNCHANGED <<fleet, gauges, tick, heard>>

Next ==
  \/ \E v \in Vehicles : RecordTelemetry(v)
  \/ CheckTimeouts \/ TakeCounts \/ SetVehicleCount \/ Snapshot

(* The ticker ticks for ever, and a monitor keeps asking.                  *)
Ticker == CheckTimeouts \/ TakeCounts \/ SetVehicleCount
Fairness == WF_vars(Ticker) /\ WF_vars(Snapshot)

SafetySpec == Init /\ [][Next]_vars
Spec == SafetySpec /\ Fairness

----------------------------------------------------------------------------
(* Properties *)

(* Shapes.                                                                 *)
Counts == [StatusSet -> 0 .. Cardinality(Vehicles)]
MonitorTypeOK ==
  /\ fleet \in UNION {[D -> StatusSet] : D \in SUBSET Vehicles}
  /\ gauges \in Counts /\ page \in Counts
  /\ tick \in [at : 0 .. 4, counts : Counts]
  /\ scrape \in [at : 0 .. 2, read : Counts]

(* A page that was read while no gauge was being set shows every vehicle   *)
(* once at most: it is the gauges as they are, and has no more vehicles    *)
(* than the registry.                                                      *)
PageDone == scrape.at = 2 /\ scrape'.at = 0
QuietPageAddsUp ==
  /\ []MonitorTypeOK
  /\ [][PageDone /\ ~overlapped => page' = gauges /\ Total(page') <= Count]_vars

(* When vehicles stop sending, the gauges come to show the registry's      *)
(* counts and stay there: no transition is lost between check and count.   *)
GaugesCatchUp == <>[](gauges = CountByStatus)
=============================================================================
