-------------------------- MODULE MCFleetHeartbeat --------------------------
(* FleetRegistry with a memory of the heartbeats it was given. *)
EXTENDS FleetRegistry

VARIABLE lastHeartbeat   \* history: when UpdateCapabilities was last called

NoHeartbeat == 0 - StandbyTimeout   \* long enough ago

(* The pipeline calls UpdateCapabilities for each heartbeat. *)
HeartbeatArrives(v) ==
  /\ UpdateCapabilities(v)
  /\ lastHeartbeat' = [lastHeartbeat EXCEPT ![v] = now]

HeartbeatSpec ==
  /\ Init /\ lastHeartbeat = [v \in VehicleIds |-> NoHeartbeat]
  /\ [][\/ OtherSteps /\ UNCHANGED lastHeartbeat
        \/ \E v \in VehicleIds : HeartbeatArrives(v)]_<<vars, lastHeartbeat>>

(* "Low-frequency keep-alive from vehicles (1Hz) to maintain ONLINE status *)
(* when not sending telemetry" (GLOSSARY.md:37): a vehicle leaves ONLINE   *)
(* only when neither telemetry nor a heartbeat came for the timeout        *)
(* (registry.go's CheckTimeouts looks at LastSeen, which UpdateCapabilities *)
(* leaves alone).                                                          *)
HeartbeatKeepsOnline ==
  [][\A v \in VehicleIds :
       vehicles[v].status = "online" /\ vehicles'[v].status = "standby" =>
         now - lastHeartbeat[v] >= StandbyTimeout]_<<vars, lastHeartbeat>>
=============================================================================
