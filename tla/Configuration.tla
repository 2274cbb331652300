--------------------------- MODULE Configuration ---------------------------
(***************************************************************************)
(* internal/config/config.go: what becomes of the environment variables.   *)
(* A variable is unset (or empty), set to something that does not parse,   *)
(* or set to a number; durations are whole seconds.  TOWER_MCAST_SOURCES   *)
(* is the sequence of its comma-separated parts.                           *)
(***************************************************************************)
EXTENDS Integers, Sequences, TLC

Setting == [set: BOOLEAN, parses: BOOLEAN, value: Int]
Unset == [set |-> FALSE, parses |-> FALSE, value |-> 0]
Junk == [set |-> TRUE, parses |-> FALSE, value |-> 0]
Given(n) == [set |-> TRUE, parses |-> TRUE, value |-> n]

Numbers == {"WSPort", "CmdMulticastPort", "StandbyTimeout", "OfflineTimeout", "CmdTimeout",
            "CmdRateLimit"}

Default ==
  [WSPort |-> 9000, CmdMulticastPort |-> 14551, StandbyTimeout |-> 3, OfflineTimeout |-> 10,
   CmdTimeout |-> 5, CmdRateLimit |-> 10]

DefaultSources == <<[Group |-> "239.255.0.1", Port |-> 14550, Label |-> "default"]>>

(* A part of TOWER_MCAST_SOURCES as split at its colons.                   *)
SourcePart == [blank: BOOLEAN, host: STRING, hasPort: BOOLEAN, port: Setting, label: STRING]

(* The variables that Load reads. *)
Environment ==
  [numbers: [Numbers -> Setting], sources: Seq(SourcePart), groupIsAddress: BOOLEAN]

Ports == 1 .. 65535

(* The multicast addresses that are told apart; any other host is none.    *)
IPv4Groups == {"239.255.0.1", "239.255.1.1"}
IPv6Groups == {"ff02::1"}

(* ip.IsMulticast() knows both families. *)
IsMulticastAddress(host) == host \in IPv4Groups \cup IPv6Groups

(* An IPv6 host has too many colons for a label.                           *)
PartOK(part) ==
  /\ part.hasPort /\ part.port.parses
  /\ part.port.value \in Ports
  /\ IsMulticastAddress(part.host)
  /\ part.host \in IPv6Groups => part.label = ""

(* The loop over the parts: a blank one is skipped.                        *)
NonBlank(parts) ==
  LET kept[n \in 0 .. Len(parts)] ==
        IF n = 0 THEN <<>>
        ELSE IF parts[n].blank THEN kept[n - 1] ELSE Append(kept[n - 1], parts[n])
  IN kept[Len(parts)]

(* One bad part, or an address and port given twice, refuses them all.     *)
ParseMulticastSources(parts) ==
  LET given == NonBlank(parts)
      key(i) == <<given[i].host, given[i].port.value>>
  IN
  [ok |-> /\ given # <<>>
          /\ \A i \in DOMAIN given : PartOK(given[i])
          /\ \A i, j \in DOMAIN given : key(i) = key(j) => i = j,
   sources |-> [i \in DOMAIN given |->
     [Group |-> given[i].host, Port |-> given[i].port.value,
      Label |-> IF given[i].label # "" THEN given[i].label ELSE "source-" \o ToString(i - 1)]]]

(* Load: the first variable that does not parse is an error.  The command  *)
(* group is taken as it is; here it is whether that is an address.         *)
Load(env) ==
  LET parsed == ParseMulticastSources(env.sources) IN
  [ok |-> /\ \A x \in Numbers : env.numbers[x].set => env.numbers[x].parses
          /\ env.sources # <<>> => parsed.ok,
   numbers |-> [x \in Numbers |->
                  IF env.numbers[x].set THEN env.numbers[x].value ELSE Default[x]],
   MulticastSources |-> IF env.sources = <<>> THEN DefaultSources ELSE parsed.sources,
   CmdMulticastGroup |-> env.groupIsAddress]

(* Mutated form: each timeout is looked at by itself. *)
ValidateEachAlone(cfg) ==
  LET n == cfg.numbers IN
  /\ n.WSPort \in Ports /\ n.CmdMulticastPort \in Ports
  /\ cfg.MulticastSources # <<>>
  /\ n.StandbyTimeout > 0 /\ n.OfflineTimeout > 0
  /\ n.CmdTimeout > 0 /\ n.CmdRateLimit > 0

Validate(cfg) ==
  LET n == cfg.numbers IN
  /\ n.WSPort \in Ports /\ n.CmdMulticastPort \in Ports
  /\ cfg.MulticastSources # <<>>
  /\ n.StandbyTimeout > 0 /\ n.OfflineTimeout > n.StandbyTimeout
  /\ n.CmdTimeout > 0 /\ n.CmdRateLimit > 0
=============================================================================
