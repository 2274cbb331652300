---------------------------- MODULE CommandChecks ----------------------------
(***************************************************************************)
(* What Router.Route (internal/command/router.go) decides about a command  *)
(* from its content: is it one the vehicle advertised, and can the         *)
(* protobuf command be built?                                              *)
(*                                                                         *)
(* A command is its action and, for an extension command, the namespace,   *)
(* the action within it and the payload; `parses` says that its fields     *)
(* have the JSON types that the action asks for.  Capabilities are the     *)
(* core commands and the sequence of extensions, each with the actions it  *)
(* names: none for all.                                                    *)
(***************************************************************************)
EXTENDS Extensions, Integers, Sequences

CoreCommands == {"goto", "stop", "return_home", "set_mode", "set_speed"}

(* The first entry of the namespace decides.                               *)
IsExtensionCommandSupported(caps, c) ==
  LET found == {i \in DOMAIN caps.extensions : caps.extensions[i].namespace = c.namespace}
      first == CHOOSE i \in found : \A j \in found : i <= j
  IN
  \/ ~c.parses \/ c.namespace = ""
  \/ found # {} /\ \/ caps.extensions[first].actions = {}
                   \/ c.type = ""
                   \/ c.type \in caps.extensions[first].actions

(* Mutated form: the namespace is enough. *)
IsCommandSupportedByNamespace(caps, c) ==
  \/ c.action \in CoreCommands /\ c.action \in caps.commands
  \/ c.action = "extension" /\ \E i \in DOMAIN caps.extensions :
                                  caps.extensions[i].namespace = c.namespace
  \/ c.action \notin CoreCommands \cup {"extension"}

(* A core or extension command must be advertised; any other is left to    *)
(* the builder, which refuses it.                                          *)
IsCommandSupported(caps, c) ==
  \/ c.action \in CoreCommands /\ c.action \in caps.commands
  \/ c.action = "extension" /\ IsExtensionCommandSupported(caps, c)
  \/ c.action \notin CoreCommands \cup {"extension"}

(* buildProtoCommand succeeds.                                             *)
BuildProtoCommand(c) ==
  \/ c.action \in {"stop", "return_home"}
  \/ c.action \in {"goto", "set_speed"} /\ c.parses
  \/ /\ c.action = "set_mode" /\ c.parses
     /\ "mode" \in DOMAIN c.payload /\ c.payload.mode \in {"manual", "autonomous", "guided"}
  \/ /\ c.action = "extension" /\ c.parses
     /\ c.namespace # "" /\ c.type # ""
     /\ c.namespace \in DOMAIN Codecs
     /\ EncodeCommand(c.namespace, c.type, c.payload)

----------------------------------------------------------------------------
(* The reference: what the comment on isCommandSupported promises *)

(* "Vehicle capabilities include this command in supported_commands"; "for *)
(* extension commands: vehicle supports that extension namespace +         *)
(* specific action" (router.go:345-348), where "empty means all actions"   *)
(* (frame.go:138).                                                         *)
Declared(caps, c) ==
  \/ c.action \in CoreCommands /\ c.action \in caps.commands
  \/ /\ c.action = "extension"
     /\ \E i \in DOMAIN caps.extensions :
          /\ caps.extensions[i].namespace = c.namespace
          /\ caps.extensions[i].actions = {} \/ c.type \in caps.extensions[i].actions
=============================================================================
