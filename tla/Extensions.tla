----------------------------- MODULE Extensions -----------------------------
(***************************************************************************)
(* The extension codecs registered by cmd/tower-server (internal/          *)
(* extensions: husky, skydio, blueboat) and the manifests that the server  *)
(* sends to the UI.                                                        *)
(*                                                                         *)
(* A codec is known by the command actions it encodes and, for each, the   *)
(* payload fields it insists on with the values it takes; a manifest by    *)
(* the commands it offers and the parameters the UI fills in.  A payload   *)
(* maps field names to values; numbers and other texts are not told apart. *)
(***************************************************************************)

Num == {"a number"}
Modes == {"manual", "autonomous", "guided", "idle", "hover", "waypoint", "orbit", "track",
          "cableCam", "returnHome", "landing", "emergency", "hold", "survey", "loiter",
          "docking"}
Text == {"a text"} \cup Modes

Nothing == [field \in {} |-> {}]

HuskyEncoder ==
  [setDriveMode |-> [mode |-> {"manual", "autonomous", "guided"}],
   setBumperSensitivity |-> [sensitivity |-> Num],
   triggerEStop |-> Nothing,
   releaseEStop |-> Nothing]

SkydioEncoder ==
  [setFlightMode |-> [mode |-> {"idle", "hover", "manual", "waypoint", "orbit", "track",
                                "cableCam", "returnHome", "landing", "emergency"}],
   setGimbal |-> Nothing,
   startRecording |-> Nothing,
   stopRecording |-> Nothing,
   takePhoto |-> Nothing,
   orbit |-> [centerLat |-> Num, centerLng |-> Num],
   track |-> [screenX |-> Num, screenY |-> Num],
   stopTracking |-> Nothing,
   setHome |-> [lat |-> Num, lng |-> Num]]

BlueboatEncoder ==
  [setNavMode |-> [mode |-> {"manual", "hold", "waypoint", "survey", "returnHome", "loiter",
                             "docking"}],
   startSurvey |-> [zoneId |-> Text],
   setDock |-> [dockLocationLat |-> Num, dockLocationLng |-> Num]]

(* extensions.codecs after the three init functions. *)
Codecs == [husky |-> HuskyEncoder, skydio |-> SkydioEncoder, blueboat |-> BlueboatEncoder]

(* Codec.EncodeCommand succeeds: a field that is missing or has the wrong  *)
(* type or value is an error, and so is an action it does not know.        *)
EncodeCommand(namespace, action, payload) ==
  /\ action \in DOMAIN Codecs[namespace]
  /\ LET wants == Codecs[namespace][action] IN
     \A field \in DOMAIN wants : field \in DOMAIN payload /\ payload[field] \in wants[field]

(* All three codecs know version 1 of their telemetry. *)
CodecVersion == 1

(* DecodeAll: what a codec does not know, or cannot decode, becomes an     *)
(* error entry of its own namespace.                                       *)
DecodeAll(exts) ==
  [namespace \in DOMAIN exts |->
     [version |-> exts[namespace].version,
      error |-> ~ /\ namespace \in DOMAIN Codecs
                  /\ exts[namespace].version = CodecVersion
                  /\ exts[namespace].parses]]

----------------------------------------------------------------------------
(* manifest.yaml of each extension: command, parameters *)

HuskyManifest ==
  [setDriveMode |-> [mode |-> {"manual", "autonomous", "guided"}],
   setBumperSensitivity |-> [sensitivity |-> Num],
   triggerEStop |-> Nothing,
   releaseEStop |-> Nothing,
   calibrateIMU |-> Nothing,
   resetOdometry |-> Nothing]

SkydioManifest ==
  [setFlightMode |-> [mode |-> {"hover", "manual", "waypoint", "orbit"}],
   setGimbal |-> [pitchDeg |-> Num, yawDeg |-> Num],
   startRecording |-> Nothing,
   stopRecording |-> Nothing,
   takePhoto |-> Nothing,
   orbit |-> [center |-> Text, radius |-> Num],
   track |-> Nothing,
   stopTracking |-> Nothing,
   setHome |-> [lat |-> Num, lng |-> Num],
   cableCam |-> Nothing,
   setObstacleAvoidance |-> [enabled |-> {"true", "false"}]]

BlueboatManifest ==
  [setThrottle |-> [throttle |-> Num],
   setHeading |-> [heading |-> Num],
   deployAnchor |-> Nothing,
   retractAnchor |-> Nothing,
   startSurvey |-> [laneSpacingM |-> Num, speedMs |-> Num],
   setNavMode |-> [mode |-> {"manual", "hold", "waypoint", "loiter"}]]

Manifests == [husky |-> HuskyManifest, skydio |-> SkydioManifest, blueboat |-> BlueboatManifest]
=============================================================================
