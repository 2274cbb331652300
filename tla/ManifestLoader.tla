--------------------------- MODULE ManifestLoader ---------------------------
(***************************************************************************)
(* internal/extensions/manifest_loader.go: the checks a manifest.yaml has  *)
(* to pass, and manifest.go's and frame.go's description of what passes.   *)
(* Texts that are shown and not looked at are left out; of a label it      *)
(* matters only whether there is one.                                      *)
(***************************************************************************)
EXTENDS Integers, Sequences, FiniteSets, Functions

ParamTypes == {"string", "number", "boolean", "select", "zone", "coordinates", "vehicle"}
TargetModes == {"", "single", "broadcast", "both"}
Unbounded == <<>>      \* a bound that is not given; <<n>> for one that is

(* What a manifest.yaml can say. *)
Bound == {b \in Seq(Int) : Len(b) <= 1}
ParameterOption == [value: BOOLEAN, label: BOOLEAN]
CommandParameter ==
  [name: STRING, label: BOOLEAN, type: STRING, options: Seq(ParameterOption),
   min: Bound, max: Bound]
CommandDefinition ==
  [command: STRING, label: BOOLEAN, targetMode: STRING, parameters: Seq(CommandParameter)]
ExtensionManifest ==
  [namespace: STRING, version: BOOLEAN, commands: Seq(CommandDefinition)]

(* One parameter of a command. *)
ValidParameter(p) ==
  /\ p.name # "" /\ p.label
  /\ p.type # "" /\ p.type \in ParamTypes
  /\ ~(p.type = "select" /\ p.options = <<>>)
  /\ \A k \in DOMAIN p.options : p.options[k].value /\ p.options[k].label
  /\ ~(p.min # Unbounded /\ p.max # Unbounded /\ p.min[1] > p.max[1])

ValidCommand(c) ==
  /\ c.command # "" /\ c.label
  /\ c.targetMode \in TargetModes
  /\ IsInjective([j \in DOMAIN c.parameters |-> c.parameters[j].name])
  /\ \A j \in DOMAIN c.parameters : ValidParameter(c.parameters[j])

(* validateManifest finds nothing to complain about. *)
ValidateManifest(m) ==
  /\ m.namespace # "" /\ m.version /\ m.commands # <<>>
  /\ IsInjective([i \in DOMAIN m.commands |-> m.commands[i].command])
  /\ \A i \in DOMAIN m.commands : ValidCommand(m.commands[i])
=============================================================================
