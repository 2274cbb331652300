------------------------------ MODULE Welcome ------------------------------
(***************************************************************************)
(* What a UI learns of the extensions: internal/extensions/registry.go's   *)
(* list of them, and the payload of the welcome frame that                 *)
(* internal/websocket/server.go builds from the codecs and the manifests.  *)
(***************************************************************************)
EXTENDS Integers, Sequences, FiniteSetsExt

ProtocolVersion == 1
TelemetryRateHz == 10
HeartbeatIntervalMs == 1000

Absent == "absent"   \* a field with omitempty that has nothing to say
OmitEmpty(s) == IF s = <<>> THEN Absent ELSE s

(* GetAvailableExtensions: the highest version of each codec; one without  *)
(* versions is left out.  The order is that of a map.                      *)
AvailableExtensions(codecs) ==
  {[Namespace |-> ns, Version |-> Max({codecs[ns][i] : i \in DOMAIN codecs[ns]})] :
     ns \in {n \in DOMAIN codecs : codecs[n] # <<>>}}

(* collectManifests: field by field; empty options and parameters are left *)
(* out of the JSON, and so is a target mode that is not given.             *)
CollectParameter(p) ==
  [name |-> p.name, type |-> p.type, options |-> OmitEmpty(p.options),
   min |-> OmitEmpty(p.min), max |-> OmitEmpty(p.max)]

CollectCommand(c) ==
  [command |-> c.command,
   targetMode |-> IF c.targetMode = "" THEN Absent ELSE c.targetMode,
   parameters |-> OmitEmpty([j \in DOMAIN c.parameters |-> CollectParameter(c.parameters[j])])]

CollectManifests(manifests) ==
  [ns \in DOMAIN manifests |->
     [namespace |-> manifests[ns].namespace,
      commands |-> [i \in DOMAIN manifests[ns].commands |->
                      CollectCommand(manifests[ns].commands[i])]]]

NewWelcomeFrame(fleet, availableExtensions, manifests) ==
  [type |-> "welcome", protocolVersion |-> ProtocolVersion,
   supportedVersions |-> {ProtocolVersion}, fleet |-> fleet,
   telemetryRateHz |-> TelemetryRateHz, heartbeatIntervalMs |-> HeartbeatIntervalMs,
   availableExtensions |-> availableExtensions, manifests |-> manifests]

GetWelcomeFrame(fleet, codecs, manifests) ==
  NewWelcomeFrame(fleet, AvailableExtensions(codecs), CollectManifests(manifests))
=============================================================================
