------------------------------ MODULE Startup ------------------------------
(***************************************************************************)
(* The life of the process, cmd/tower-server/main.go: the codecs that      *)
(* register themselves, configuration, manifests, the goroutines that run  *)
(* starts and the order it starts them in, the listening sockets, the      *)
(* signal and the way out.  Its environment is chosen at the start: the    *)
(* variables, the directory of manifests and whether the port is in use.   *)
(***************************************************************************)
EXTENDS Configuration, ManifestLoader, Welcome

CONSTANTS
  Environments,   \* environment variables the process may be started with
  Directories,    \* contents of internal/extensions: a sequence of entries
  Imports,        \* the codecs imported for their init function
  MaxSignals      \* bound: signals sent to the process

(* What the loader finds of one entry of the directory. *)
DirectoryEntry ==
  [name: STRING, kind: {"file", "empty", "unreadable", "unparsable", "manifest"},
   manifest: ExtensionManifest]
Codec == [namespace: STRING, versions: Seq(Nat)]

(* The constants are of the Go types: uint32 for a version.                *)
ASSUME StartupAssumption ==
  /\ Environments \subseteq Environment
  /\ Directories \subseteq Seq(DirectoryEntry)
  /\ Imports \in Seq(Codec)
  /\ MaxSignals \in Nat

VARIABLES
  env, directory, portTaken,   \* the environment, never changed
  phase,      \* where run is
  next,       \* the loop index of the phase
  cfg,        \* the configuration it loaded
  codecs,     \* extensions.codecs: namespace to version
  manifests,  \* extensions.manifests
  failed,     \* manifests that LoadManifestsFromDir reports
  wired,      \* are the tracker's, the registry's and the server's callbacks set?
  source,     \* each telemetry source's goroutine
  ticking,    \* does the status ticker run?
  conn,       \* is Router.conn open?
  http,       \* the HTTP server
  signals,    \* signals sent
  cancelled   \* ctx

world == <<env, directory, portTaken>>
goroutines == <<source, ticking, conn, http>>
loaded == <<cfg, codecs, manifests, failed, wired>>
vars == <<world, phase, next, goroutines, loaded, signals, cancelled>>

Phases == {"init", "load", "validate", "manifests", "wire", "sources", "ticker", "router",
           "listen", "serve", "shutdown"}
Ends == {"ended", "exit 1", "panicked", "killed"}
NoConfig == Load([numbers |-> [x \in Numbers |-> Unset], sources |-> <<>>,
                  groupIsAddress |-> TRUE])

Init ==
  /\ env \in Environments
  /\ directory \in Directories
  /\ portTaken \in BOOLEAN
  /\ phase = "init" /\ next = 1
  /\ cfg = NoConfig
  /\ codecs = <<>> /\ manifests = <<>> /\ failed = {}
  /\ wired = FALSE
  /\ source = <<>> /\ ticking = FALSE /\ conn = FALSE /\ http = "down"
  /\ signals = 0 /\ cancelled = FALSE

Goto(p) == phase' = p /\ next' = 1

----------------------------------------------------------------------------
(* Before main: the init functions *)

Extend(f, x, y) == [z \in DOMAIN f \cup {x} |-> IF z = x THEN y ELSE f[z]]

(* Register: a second codec of a namespace panics. *)
Register ==
  LET codec == Imports[next] IN
  /\ phase = "init" /\ next <= Len(Imports)
  /\ IF codec.namespace \in DOMAIN codecs
       THEN Goto("panicked") /\ UNCHANGED codecs
       ELSE /\ codecs' = Extend(codecs, codec.namespace, codec.versions)
            /\ next' = next + 1
            /\ UNCHANGED phase
  /\ UNCHANGED <<world, goroutines, cfg, manifests, failed, wired, signals, cancelled>>

EnterMain ==
  /\ phase = "init" /\ next > Len(Imports)
  /\ Goto("load")
  /\ UNCHANGED <<world, goroutines, loaded, signals, cancelled>>

----------------------------------------------------------------------------
(* run, up to the first goroutine *)

LoadConfig ==
  /\ phase = "load"
  /\ Goto(IF Load(env).ok THEN "validate" ELSE "exit 1")
  /\ cfg' = Load(env)
  /\ UNCHANGED <<world, goroutines, codecs, manifests, failed, wired, signals, cancelled>>

ValidateConfig ==
  /\ phase = "validate"
  /\ Goto(IF Validate(cfg) THEN "manifests" ELSE "exit 1")
  /\ UNCHANGED <<world, goroutines, loaded, signals, cancelled>>

(* A plain file, or a directory without manifest.yaml, is no extension.    *)
Skipped(entry) == entry.kind \in {"file", "empty"}
Loads(entry) == entry.kind = "manifest" /\ ValidateManifest(entry.manifest)

(* Mutated form: the first manifest that fails ends the loop. *)
LoadEntryOrStop ==
  LET entry == directory[next]
      m == entry.manifest
  IN
  /\ phase = "manifests" /\ next <= Len(directory)
  /\ IF Loads(entry)
       THEN /\ m.namespace \notin DOMAIN manifests
            /\ manifests' = Extend(manifests, m.namespace, m)
            /\ UNCHANGED failed
       ELSE /\ failed' = failed \cup IF Skipped(entry) THEN {} ELSE {entry.name}
            /\ UNCHANGED manifests
  /\ next' = IF Loads(entry) \/ Skipped(entry) THEN next + 1 ELSE Len(directory) + 1
  /\ UNCHANGED <<world, phase, goroutines, cfg, codecs, wired, signals, cancelled>>

(* LoadManifestsFromDir, one entry: one that cannot be read, parsed or     *)
(* validated is reported, and the loop goes on.  RegisterManifest panics   *)
(* for a namespace that has a manifest.                                    *)
LoadEntry ==
  LET entry == directory[next]
      m == entry.manifest
      repeated == Loads(entry) /\ m.namespace \in DOMAIN manifests
  IN
  /\ phase = "manifests" /\ next <= Len(directory)
  /\ IF repeated THEN Goto("panicked") ELSE next' = next + 1 /\ UNCHANGED phase
  /\ manifests' = IF Loads(entry) /\ ~repeated THEN Extend(manifests, m.namespace, m)
                                               ELSE manifests
  /\ failed' = IF Loads(entry) \/ Skipped(entry) THEN failed ELSE failed \cup {entry.name}
  /\ UNCHANGED <<world, goroutines, cfg, codecs, wired, signals, cancelled>>

(* What it reports is logged as a warning, and so is a directory that      *)
(* cannot be read, which is an empty one here.                             *)
ManifestsDone ==
  /\ phase = "manifests" /\ next > Len(directory)
  /\ Goto("wire")
  /\ UNCHANGED <<world, goroutines, loaded, signals, cancelled>>

(* Mutated form: the callbacks are not set before the goroutines start. *)
WireLater ==
  /\ phase = "wire"
  /\ Goto("sources")
  /\ UNCHANGED <<world, goroutines, loaded, signals, cancelled>>

(* The components are made and wired, and signals are taken from here on.  *)
Wire ==
  /\ phase = "wire"
  /\ Goto("sources")
  /\ wired' = TRUE
  /\ UNCHANGED <<world, goroutines, cfg, codecs, manifests, failed, signals, cancelled>>

----------------------------------------------------------------------------
(* The goroutines *)

(* One goroutine per source; the consumer starts with the last.            *)
LaunchSource ==
  /\ phase = "sources"
  /\ source' = Append(source, "starting")
  /\ IF Len(source') = Len(cfg.MulticastSources)
       THEN Goto("ticker")
       ELSE UNCHANGED <<phase, next>>
  /\ UNCHANGED <<world, ticking, conn, http, loaded, signals, cancelled>>

(* MulticastSource.Start: the address must be an IPv4 one, and the port    *)
(* free: net.ListenUDP does not share it.                                  *)
PortFree(i) ==
  \A j \in DOMAIN source :
    source[j] = "listening" => cfg.MulticastSources[j].Port # cfg.MulticastSources[i].Port

SourceStarts(i) ==
  LET src == cfg.MulticastSources[i] IN
  /\ source[i] = "starting"
  /\ source' = [source EXCEPT ![i] =
       IF src.Group \in IPv4Groups /\ PortFree(i) THEN "listening" ELSE "failed"]
  /\ UNCHANGED <<world, phase, next, ticking, conn, http, loaded, signals, cancelled>>

(* It looks at ctx between two datagrams. *)
SourceReturns(i) ==
  /\ source[i] = "listening" /\ cancelled
  /\ source' = [source EXCEPT ![i] = "returned"]
  /\ UNCHANGED <<world, phase, next, ticking, conn, http, loaded, signals, cancelled>>

StartTicker ==
  /\ phase = "ticker"
  /\ Goto("router")
  /\ ticking' = TRUE
  /\ UNCHANGED <<world, source, conn, http, loaded, signals, cancelled>>

TickerReturns ==
  /\ ticking /\ cancelled
  /\ ticking' = FALSE
  /\ UNCHANGED <<world, phase, next, source, conn, http, loaded, signals, cancelled>>

(* Router.Start; on its error run returns, and cancel is deferred.         *)
StartRouter ==
  /\ phase = "router"
  /\ IF cfg.CmdMulticastGroup
       THEN Goto("listen") /\ conn' = TRUE /\ UNCHANGED cancelled
       ELSE Goto("exit 1") /\ cancelled' = TRUE /\ UNCHANGED conn
  /\ UNCHANGED <<world, source, ticking, http, loaded, signals>>

(* Server.ListenAndServe: the broadcast loop and the HTTP goroutine start. *)
Listen ==
  /\ phase = "listen"
  /\ Goto("serve")
  /\ http' = "starting"
  /\ UNCHANGED <<world, source, ticking, conn, loaded, signals, cancelled>>

(* http.Server.ListenAndServe binds the port.                              *)
HTTPStarts ==
  /\ http = "starting"
  /\ http' = IF portTaken THEN "failed" ELSE "up"
  /\ UNCHANGED <<world, phase, next, source, ticking, conn, loaded, signals, cancelled>>

----------------------------------------------------------------------------
(* The way out *)

(* Mutated form: the HTTP server's error is not sent to errCh. *)
ServeReturnsOnSignalOnly ==
  /\ phase = "serve"
  /\ cancelled
  /\ Goto("shutdown")
  /\ UNCHANGED <<world, goroutines, loaded, signals, cancelled>>

(* ListenAndServe's select sees ctx.Done, or the error after which run     *)
(* looks at ctx again.                                                     *)
ServeReturns ==
  /\ phase = "serve"
  /\ cancelled \/ http = "failed"
  /\ IF cancelled
       THEN Goto("shutdown") /\ UNCHANGED <<conn, cancelled>>
       ELSE Goto("exit 1") /\ conn' = FALSE /\ cancelled' = TRUE
  /\ UNCHANGED <<world, source, ticking, http, loaded, signals>>

(* Shutdown, at most five seconds; then the deferred Stop.                 *)
ShutdownEnds ==
  /\ phase = "shutdown"
  /\ Goto("ended")
  /\ http' = "closed"
  /\ conn' = FALSE
  /\ UNCHANGED <<world, source, ticking, loaded, signals, cancelled>>

(* SIGINT or SIGTERM.  Before signal.Notify it kills the process; after    *)
(* that sigCh keeps it, and the second one has no effect.                  *)
Signal ==
  /\ phase \in Phases
  /\ signals < MaxSignals
  /\ signals' = signals + 1
  /\ IF wired THEN UNCHANGED <<phase, next>> ELSE Goto("killed")
  /\ UNCHANGED <<world, goroutines, loaded, cancelled>>

HandleSignal ==
  /\ wired /\ signals > 0 /\ ~cancelled
  /\ cancelled' = TRUE
  /\ UNCHANGED <<world, phase, next, goroutines, loaded, signals>>

MainStep ==
  \/ Register \/ EnterMain \/ LoadConfig \/ ValidateConfig \/ LoadEntry \/ ManifestsDone
  \/ Wire \/ LaunchSource \/ StartTicker \/ StartRouter \/ Listen \/ ServeReturns
  \/ ShutdownEnds

(* When the process has ended nothing runs any more. *)
Next ==
  /\ phase \in Phases
  /\ \/ MainStep
     \/ \E i \in DOMAIN source : SourceStarts(i) \/ SourceReturns(i)
     \/ TickerReturns \/ HTTPStarts \/ Signal \/ HandleSignal

(* Goroutines that can run are run.  Nobody has to send a signal, and a    *)
(* source that reads waits for a datagram.                                 *)
Running(action) == phase \in Phases /\ action
Fairness ==
  /\ WF_vars(Running(MainStep))
  /\ WF_vars(Running(HTTPStarts))
  /\ WF_vars(Running(HandleSignal))

Spec == Init /\ [][Next]_vars /\ Fairness

----------------------------------------------------------------------------
(* Properties *)

Setup == {"init", "load", "validate", "manifests", "wire"}
Started == phase \in (Phases \ Setup)

(* Every part of the state has its type.                                   *)
StartTypeOK ==
  /\ phase \in Phases \cup Ends
  /\ next \in Nat \ {0}
  /\ failed \subseteq {directory[i].name : i \in DOMAIN directory}
  /\ DOMAIN codecs \subseteq {Imports[i].namespace : i \in DOMAIN Imports}
  /\ \A ns \in DOMAIN manifests : manifests[ns].namespace = ns
  /\ source \in Seq({"starting", "listening", "failed", "returned"})
  /\ Len(source) <= Len(cfg.MulticastSources)
  /\ http \in {"down", "starting", "up", "failed", "closed"}
  /\ signals \in 0 .. MaxSignals
  /\ {ticking, conn, wired, cancelled, portTaken} \subseteq BOOLEAN

(* What the components take for granted of their configuration holds once  *)
(* a goroutine runs, whatever the environment: the assumptions of modules  *)
(* Tracker and FleetRegistry, and one goroutine for each group and port.   *)
(* A variable that is set is followed, never replaced by its default.      *)
ConfigurationHolds ==
  LET n == cfg.numbers
      s == cfg.MulticastSources
  IN
  /\ n.CmdTimeout > 0 /\ n.CmdRateLimit > 0
  /\ n.StandbyTimeout > 0 /\ n.OfflineTimeout > n.StandbyTimeout
  /\ s # <<>>
  /\ \A i, j \in DOMAIN s : s[i].Group = s[j].Group /\ s[i].Port = s[j].Port => i = j
  /\ \A x \in Numbers : env.numbers[x].set => Given(n[x]) = env.numbers[x]
  /\ \A i \in DOMAIN env.sources :
       ~env.sources[i].blank =>
         \E j \in DOMAIN s : s[j].Group = env.sources[i].host /\
                             s[j].Port = env.sources[i].port.value
ServingIsConfigured == StartTypeOK /\ (Started => ConfigurationHolds)

(* No goroutine that broadcasts, times out or takes commands runs before   *)
(* the callbacks are set (SetCommandRouter: "Must be called before         *)
(* starting the server"), and whoever reaches the HTTP server finds the    *)
(* router's connection open.                                               *)
WiredBeforeUse ==
  /\ source # <<>> \/ ticking \/ http # "down" => wired
  /\ phase = "serve" /\ http = "up" /\ ~cancelled => conn

(* A control that an operator can fill in: of a known kind and captioned;  *)
(* of a select there is a choice, every choice can be seen and sent; and   *)
(* some number lies between the bounds (then so does 0 or a bound).        *)
CanBeFilled(p) ==
  /\ p.label
  /\ p.type \in {"string", "number", "boolean", "select", "zone", "coordinates", "vehicle"}
  /\ p.type = "select" => \E k \in DOMAIN p.options : p.options[k].value
  /\ \A k \in DOMAIN p.options : p.options[k] = [value |-> TRUE, label |-> TRUE]
  /\ \E n \in {0} \cup Range(p.min) \cup Range(p.max) :
       (p.min # <<>> => p.min[1] <= n) /\ (p.max # <<>> => n <= p.max[1])

(* The extension has a name and a version, every command a name of its     *)
(* own, a known target mode and a form that can be filled in.              *)
CanBeOffered(m) ==
  /\ m.namespace # "" /\ m.version /\ m.commands # <<>>
  /\ Cardinality({m.commands[i].command : i \in DOMAIN m.commands} \ {""}) = Len(m.commands)
  /\ \A i \in DOMAIN m.commands :
       LET ps == m.commands[i].parameters IN
       /\ m.commands[i].label
       /\ m.commands[i].targetMode \in {"", "single", "broadcast", "both"}
       /\ Cardinality({ps[j].name : j \in DOMAIN ps} \ {""}) = Len(ps)
       /\ \A j \in DOMAIN ps : CanBeFilled(ps[j])

(* The welcome offers exactly the manifests in the directory that a UI can *)
(* render: a broken one is not shown, and does not take another with it.   *)
OffersWhatCanBeFilled ==
  phase = "serve" =>
    DOMAIN GetWelcomeFrame({}, codecs, manifests).manifests =
      {directory[i].manifest.namespace :
         i \in {k \in DOMAIN directory : directory[k].kind = "manifest"
                                           /\ CanBeOffered(directory[k].manifest)}}

(* The version of an extension that the welcome names is one that its      *)
(* codec knows, and none it knows is higher.                               *)
OffersTheLatestVersion ==
  phase = "serve" =>
    \A e \in GetWelcomeFrame({}, codecs, manifests).availableExtensions :
      \E i \in DOMAIN Imports :
        LET known == {Imports[i].versions[k] : k \in DOMAIN Imports[i].versions} IN
        /\ Imports[i].namespace = e.Namespace
        /\ e.Version \in known
        /\ \A v \in known : v <= e.Version

(* What the welcome tells a UI is true of the server that runs.            *)
WelcomeIsTrue == OffersWhatCanBeFilled /\ OffersTheLatestVersion

(* A signal ends the process, in whatever phase of the start it comes, and *)
(* so does an HTTP port that is taken.                                     *)
EndsWhenTold ==
  (phase \in Phases /\ (signals > 0 \/ http = "failed")) ~> (phase \in Ends)
=============================================================================
