----------------------------- MODULE MCStartup -----------------------------
(* Startup on a handful of environments and directories. *)
EXTENDS Startup

Part(host, port) ==
  [blank |-> FALSE, host |-> host, hasPort |-> TRUE, port |-> port, label |-> ""]
BlankPart == [Part("", Unset) EXCEPT !.blank = TRUE]

Plain ==
  [numbers |-> [x \in Numbers |-> Unset], sources |-> <<>>, groupIsAddress |-> TRUE]
Set(x, setting) == [Plain EXCEPT !.numbers[x] = setting]
Timeouts(standby, offline) ==
  [Plain EXCEPT !.numbers["StandbyTimeout"] = Given(standby),
                !.numbers["OfflineTimeout"] = Given(offline)]
Sources(parts) == [Plain EXCEPT !.sources = parts]

G1 == "239.255.0.1"
G2 == "239.255.1.1"

\* docs/NETWORKING.md: two groups, one port
OnePort == Sources(<<[Part(G1, Given(14550)) EXCEPT !.label = "ugv"],
                     [Part(G2, Given(14550)) EXCEPT !.label = "usv"]>>)
TwoPorts == Sources(<<Part(G1, Given(14550)), BlankPart, Part(G2, Given(14551))>>)
IPv6Source == Sources(<<Part("ff02::1", Given(14550))>>)

MCEnvironments ==
  { Plain, Set("WSPort", Junk), Set("WSPort", Given(0)), Set("WSPort", Given(65536)),
    Set("CmdRateLimit", Given(0)), Set("CmdTimeout", Given(1)), Set("StandbyTimeout", Given(12)),
    Timeouts(5, 5), Timeouts(5, 6), Timeouts(0, 1),
    [Plain EXCEPT !.groupIsAddress = FALSE],
    OnePort, TwoPorts, IPv6Source,
    Sources(<<BlankPart>>), Sources(<<Part(G1, Given(0))>>), Sources(<<Part(G1, Junk)>>),
    Sources(<<Part("192.168.1.1", Given(14550))>>),
    Sources(<<Part(G1, Given(14550)), Part(G1, Given(14550))>>) }
Parameter(name, type) ==
  [name |-> name, label |-> TRUE, type |-> type, options |-> <<>>, min |-> <<>>, max |-> <<>>]
Command(name, parameters) ==
  [command |-> name, label |-> TRUE, targetMode |-> "both", parameters |-> parameters]
Manifest(ns, commands) == [namespace |-> ns, version |-> TRUE, commands |-> commands]
Entry(name, kind, manifest) == [name |-> name, kind |-> kind, manifest |-> manifest]
NoManifest == Manifest("", <<>>)

Mode == [Parameter("mode", "select") EXCEPT !.options = <<[value |-> TRUE, label |-> TRUE]>>]
Bounded(low, high) == [Parameter("speed", "number") EXCEPT !.min = <<low>>, !.max = <<high>>]

Husky == Manifest("husky", <<Command("setDriveMode", <<Mode>>), Command("triggerEStop", <<>>)>>)
Skydio == Manifest("skydio", <<Command("setGimbal", <<Bounded(1, 2)>>)>>)
Shipped == <<Entry("codec.go", "file", NoManifest), Entry("husky", "manifest", Husky),
             Entry("skydio", "manifest", Skydio)>>
Broken(m) == <<Entry("broken", "manifest", m), Entry("skydio", "manifest", Skydio)>>

MCDirectories ==
  { <<>>, Shipped,
    <<Entry("new", "empty", NoManifest), Entry("husky", "unreadable", NoManifest),
      Entry("skydio", "manifest", Skydio)>>,
    <<Entry("blueboat", "unparsable", NoManifest), Entry("husky", "manifest", Husky)>>,
    Broken(Manifest("husky", <<Command("drive", <<Parameter("mode", "select")>>)>>)),
    Broken(Manifest("husky", <<Command("drive", <<Bounded(2, 1)>>)>>)),
    Broken(Manifest("husky", <<Command("drive", <<Mode, Mode>>)>>)),
    Broken(Manifest("husky", <<Command("drive", <<>>), Command("drive", <<>>)>>)),
    Broken(Manifest("husky", <<Command("drive", <<Parameter("mode", "enum")>>)>>)),
    Broken(Manifest("husky", <<>>)), Broken([Husky EXCEPT !.version = FALSE]),
    Broken([Husky EXCEPT !.commands[2].targetMode = "all"]),
    Broken([Husky EXCEPT !.commands[1].parameters[1].options[1].label = FALSE]),
    <<Entry("skydio", "manifest", Skydio), Entry("skydio2", "manifest", Skydio)>> }

MCImports ==
  << [namespace |-> "blueboat", versions |-> <<>>], [namespace |-> "husky", versions |-> <<1, 2>>],
     [namespace |-> "skydio", versions |-> <<1>>] >>
=============================================================================
