---------------------------- MODULE StartupProofs ----------------------------
(***************************************************************************)
(* Theorems about module Startup, for any environments, directories of     *)
(* manifests and imported codecs.  What is computed entry by entry, a loop *)
(* over the sources, the parameters or the versions, is proved by counting *)
(* up to the length (CountUp).                                             *)
(***************************************************************************)
EXTENDS Startup, FiniteSetTheorems, WellFoundedInduction, TLAPS

----------------------------------------------------------------------------
(* Counting *)

(* A set of numbers that is not empty has a least one.                     *)
LEMMA LeastNumber ==
  ASSUME NEW S \in SUBSET Nat, S # {}
  PROVE  \E n \in S : \A m \in S : n <= m
<1> DEFINE R == OpToRel(<, Nat)
<1>1. IsWellFoundedOn(R, Nat)
  BY NatLessThanWellFounded
<1>2. \A x, y \in Nat : x < y => <<x, y>> \in R
  BY DEF OpToRel
<1> HIDE DEF R
<1>3. PICK n \in S : \A m \in S : <<m, n>> \notin R
  BY <1>1, WFMin
<1>4. \A m \in S : ~(m < n)
  BY <1>2, <1>3
<1> QED BY <1>4

(* Counting up: what holds of 0, and of n + 1 if of n, holds up to N.  A   *)
(* least counterexample cannot be 0, nor follow a number.                  *)
LEMMA CountUp ==
  ASSUME NEW N \in Nat, NEW S, 0 \in S,
         \A n \in 0 .. N - 1 : n \in S => n + 1 \in S
  PROVE  \A n \in 0 .. N : n \in S
<1> DEFINE Out == {n \in 0 .. N : n \notin S}
<1> SUFFICES ASSUME Out # {}
             PROVE  FALSE
  OBVIOUS
<1>1. Out \in SUBSET Nat
  OBVIOUS
<1> HIDE DEF Out
<1>2. PICK n \in Out : \A m \in Out : n <= m
  BY <1>1, LeastNumber
<1>3. n \in 0 .. N /\ n \notin S /\ n # 0
  BY <1>2 DEF Out
<1>4. n - 1 \in 0 .. N - 1 /\ n - 1 \notin Out
  BY <1>2, <1>3
<1>5. n - 1 \in S
  BY <1>4 DEF Out
<1> QED BY <1>3, <1>4, <1>5

(* The test that the loader makes with the size of a set: as many names as *)
(* entries, the empty one not counted, means that all differ and none is   *)
(* empty (manifest_loader.go:106, :131 keep the names seen in a map).        *)
LEMMA DistinctNames ==
  ASSUME NEW n \in Nat, NEW S, NEW f \in Surjection(1 .. n, S), NEW x
  PROVE  Cardinality(S \ {x}) = n
           <=> (\A i, j \in 1 .. n : f[i] = f[j] => i = j) /\ \A i \in 1 .. n : f[i] # x
<1> DEFINE C == Cardinality(S)
           D == Cardinality(S \ {x})
<1>1. f \in [1 .. n -> S] /\ \A s \in S : \E i \in 1 .. n : f[i] = s
  BY DEF Surjection
<1>2. f \in Injection(1 .. n, S) <=> \A i, j \in 1 .. n : f[i] = f[j] => i = j
  BY <1>1 DEF Injection, IsInjective
<1>3. IsFiniteSet(1 .. n) /\ Cardinality(1 .. n) = n
  BY FS_Interval
<1>4. IsFiniteSet(S) /\ C \in Nat /\ C <= n /\ (C = n <=> f \in Injection(1 .. n, S))
  BY <1>3, FS_Surjection, FS_CardinalityType
<1>5. D = IF x \in S THEN C - 1 ELSE C
  BY <1>4, FS_RemoveElement
<1> HIDE DEF C
<1>6. D = n <=> x \notin S /\ C = n
  BY <1>4, <1>5
<1> QED BY <1>1, <1>2, <1>4, <1>6

----------------------------------------------------------------------------
(* The configuration *)

(* The loop of ParseMulticastSources leaves out blank entries and no other. *)
LEMMA NonBlankKeeps ==
  ASSUME NEW parts \in Seq(SourcePart)
  PROVE  /\ NonBlank(parts) \in Seq(SourcePart)
         /\ \A i \in DOMAIN parts : ~parts[i].blank =>
              \E j \in DOMAIN NonBlank(parts) : NonBlank(parts)[j] = parts[i]
<1> DEFINE N == Len(parts)
           Step(f, n) == IF n = 0 THEN <<>>
                         ELSE IF parts[n].blank THEN f[n - 1] ELSE Append(f[n - 1], parts[n])
           Follows(f, n) == f = [k \in 0 .. n |-> Step(f, k)]
           Kept == CHOOSE f : Follows(f, N)
<1>1. NonBlank(parts) = Kept[N]
  BY DEF NonBlank
<1>2. N \in Nat /\ DOMAIN parts = 1 .. N /\ \A i \in 1 .. N : parts[i] \in SourcePart
  OBVIOUS
<1> HIDE DEF N
<1>3. \E f : Follows(f, N)
  <2> DEFINE S == {n \in 0 .. N : \E f : Follows(f, n)}
  <2>1. 0 \in S
    <3> DEFINE g == [k \in 0 .. 0 |-> <<>>]
    <3>1. Follows(g, 0)
      OBVIOUS
    <3> HIDE DEF g
    <3>2. \E f : Follows(f, 0)
      BY <3>1
    <3> HIDE DEF Follows
    <3> QED BY <1>2, <3>2
  <2>2. ASSUME NEW n \in 0 .. N - 1, n \in S
        PROVE  n + 1 \in S
    <3>1. PICK f : Follows(f, n)
      BY <2>2
    <3> DEFINE g == [k \in 0 .. n + 1 |-> IF k = n + 1 THEN Step(f, n + 1) ELSE f[k]]
    <3>2. \A k \in 0 .. n : f[k] = Step(f, k)
      BY <3>1
    <3>3. \A k \in 0 .. n + 1 : g[k] = Step(g, k)
      BY <1>2, <3>2
    <3>4. Follows(g, n + 1)
      BY <3>3
    <3> HIDE DEF g
    <3>5. \E h : Follows(h, n + 1)
      BY <3>4
    <3> HIDE DEF Follows
    <3> QED BY <1>2, <3>5
  <2> HIDE DEF S
  <2>3. N \in S
    BY <1>2, <2>1, <2>2, CountUp
  <2> HIDE DEF Follows
  <2> QED BY <2>3 DEF S
<1>4. Follows(Kept, N)
  <2> HIDE DEF Follows
  <2> QED BY <1>3
<1> HIDE DEF Kept
<1>5. \A n \in 0 .. N : Kept[n] = Step(Kept, n)
  BY <1>4
<1> DEFINE Has(n, i) == \E j \in DOMAIN Kept[n] : Kept[n][j] = parts[i]
           T == {n \in 0 .. N : /\ Kept[n] \in Seq(SourcePart)
                                /\ \A i \in 1 .. n : ~parts[i].blank => Has(n, i)}
<1>6. 0 \in T
  <2>1. Kept[0] = <<>>
    BY <1>2, <1>5
  <2>2. Kept[0] \in Seq(SourcePart) /\ 0 \in 0 .. N
    BY <1>2, <2>1
  <2>3. \A i \in 1 .. 0 : Has(0, i)
    OBVIOUS
  <2> HIDE DEF Has
  <2> QED BY <2>2, <2>3
<1>7. ASSUME NEW n \in 0 .. N - 1, n \in T
      PROVE  n + 1 \in T
  <2>1. n + 1 \in 1 .. N /\ n + 1 # 0 /\ (n + 1) - 1 = n /\ parts[n + 1] \in SourcePart
    BY <1>2
  <2>2. Kept[n + 1] = IF parts[n + 1].blank THEN Kept[n] ELSE Append(Kept[n], parts[n + 1])
    BY <1>2, <1>5, <2>1
  <2>3. Kept[n] \in Seq(SourcePart) /\ \A i \in 1 .. n : ~parts[i].blank => Has(n, i)
    BY <1>7
  <2>4. Kept[n + 1] \in Seq(SourcePart)
    BY <2>1, <2>2, <2>3
  <2>5. ASSUME NEW i \in 1 .. n + 1, ~parts[i].blank
        PROVE  Has(n + 1, i)
    <3>1. CASE i = n + 1
      <4>1. Kept[n + 1] = Append(Kept[n], parts[i])
        BY <2>2, <2>5, <3>1
      <4>2. Len(Kept[n]) + 1 \in DOMAIN Kept[n + 1] /\ Kept[n + 1][Len(Kept[n]) + 1] = parts[i]
        BY <2>1, <2>3, <3>1, <4>1
      <4> QED BY <3>1, <4>2
    <3>2. CASE i \in 1 .. n
      <4>1. PICK j \in DOMAIN Kept[n] : Kept[n][j] = parts[i]
        BY <2>3, <2>5, <3>2
      <4>2. j \in DOMAIN Kept[n + 1] /\ Kept[n + 1][j] = Kept[n][j]
        BY <2>1, <2>2, <2>3, <4>1
      <4> QED BY <4>1, <4>2
    <3> QED BY <2>1, <3>1, <3>2
  <2> QED BY <2>1, <2>4, <2>5
<1> HIDE DEF T
<1>8. N \in T
  BY <1>2, <1>6, <1>7, CountUp
<1> QED BY <1>1, <1>2, <1>8 DEF T

(* What Load succeeds with is what the environment says.                   *)
LEMMA LoadedIsGiven ==
  ASSUME NEW e \in Environment
  PROVE  /\ Len(Load(e).MulticastSources) \in Nat
         /\ Load(e).MulticastSources # <<>> => Len(Load(e).MulticastSources) > 0
         /\ Load(e).ok =>
              /\ \A x \in Numbers :
                   e.numbers[x].set => Given(Load(e).numbers[x]) = e.numbers[x]
              /\ \A i, j \in DOMAIN Load(e).MulticastSources :
                   /\ Load(e).MulticastSources[i].Group = Load(e).MulticastSources[j].Group
                   /\ Load(e).MulticastSources[i].Port = Load(e).MulticastSources[j].Port
                   => i = j
              /\ \A i \in DOMAIN e.sources : ~e.sources[i].blank =>
                   \E j \in DOMAIN Load(e).MulticastSources :
                     /\ Load(e).MulticastSources[j].Group = e.sources[i].host
                     /\ Load(e).MulticastSources[j].Port = e.sources[i].port.value
<1> DEFINE given == NonBlank(e.sources)
           parsed == ParseMulticastSources(e.sources)
           s == Load(e).MulticastSources
<1>1. e.sources \in Seq(SourcePart) /\ e.numbers \in [Numbers -> Setting]
  BY DEF Environment
<1>2. /\ given \in Seq(SourcePart)
      /\ \A i \in DOMAIN e.sources : ~e.sources[i].blank =>
           \E j \in DOMAIN given : given[j] = e.sources[i]
  BY <1>1, NonBlankKeeps
<1>3. /\ s = IF e.sources = <<>> THEN DefaultSources ELSE parsed.sources
      /\ Load(e).ok <=> /\ \A x \in Numbers : e.numbers[x].set => e.numbers[x].parses
                        /\ e.sources # <<>> => parsed.ok
      /\ \A x \in Numbers : Load(e).numbers[x] =
           IF e.numbers[x].set THEN e.numbers[x].value ELSE Default[x]
  BY DEF Load
<1>4. /\ parsed.ok => \A i, j \in DOMAIN given :
           given[i].host = given[j].host /\ given[i].port.value = given[j].port.value => i = j
      /\ parsed.sources = [i \in DOMAIN given |-> parsed.sources[i]]
      /\ \A i \in DOMAIN given : /\ parsed.sources[i].Group = given[i].host
                               /\ parsed.sources[i].Port = given[i].port.value
  BY DEF ParseMulticastSources
<1> HIDE DEF given, parsed
<1>5. /\ DOMAIN s = IF e.sources = <<>> THEN {1} ELSE DOMAIN given
      /\ e.sources # <<>> => \A i \in DOMAIN given :
           s[i].Group = given[i].host /\ s[i].Port = given[i].port.value
  <2>1. CASE e.sources = <<>>
    BY <1>3, <2>1 DEF DefaultSources
  <2>2. CASE e.sources # <<>>
    BY <1>3, <1>4, <2>2
  <2> QED BY <2>1, <2>2
<1>6. s \in Seq({s[i] : i \in DOMAIN s})
  <2>1. CASE e.sources = <<>>
    BY <1>3, <2>1 DEF DefaultSources
  <2>2. CASE e.sources # <<>>
    <3>1. s = [i \in 1 .. Len(given) |-> s[i]]
      BY <1>2, <1>3, <1>4, <2>2
    <3> HIDE DEF s
    <3> QED BY <1>2, <3>1
  <2> QED BY <2>1, <2>2
<1>7. ASSUME Load(e).ok
      PROVE  \A x \in Numbers : e.numbers[x].set => Given(Load(e).numbers[x]) = e.numbers[x]
  BY <1>1, <1>3, <1>7 DEF Given, Setting
<1>8. ASSUME Load(e).ok, NEW i \in DOMAIN s, NEW j \in DOMAIN s,
             s[i].Group = s[j].Group, s[i].Port = s[j].Port
      PROVE  i = j
  <2>1. CASE e.sources = <<>>
    BY <1>5, <2>1
  <2>2. CASE e.sources # <<>>
    BY <1>3, <1>4, <1>5, <1>8, <2>2
  <2> QED BY <2>1, <2>2
<1>9. ASSUME Load(e).ok, NEW i \in DOMAIN e.sources, ~e.sources[i].blank
      PROVE  \E j \in DOMAIN s :
               s[j].Group = e.sources[i].host /\ s[j].Port = e.sources[i].port.value
  <2>1. PICK j \in DOMAIN given : given[j] = e.sources[i]
    BY <1>2, <1>9
  <2>2. e.sources # <<>>
    BY <1>9
  <2> QED BY <1>5, <2>1, <2>2
<1>10. Len(s) \in Nat /\ (s # <<>> => Len(s) > 0)
  BY <1>6
<1> HIDE DEF s
<1> QED BY <1>7, <1>8, <1>9, <1>10 DEF s

----------------------------------------------------------------------------
(* The manifests *)

(* A parameter that ValidateManifest lets through can be filled in.        *)
LEMMA ValidCanBeFilled ==
  ASSUME NEW p \in CommandParameter
  PROVE  ValidParameter(p) <=> p.name # "" /\ CanBeFilled(p)
<1>1. /\ p.options \in Seq(ParameterOption) /\ p.label \in BOOLEAN
      /\ p.min \in Seq(Int) /\ Len(p.min) <= 1 /\ p.max \in Seq(Int) /\ Len(p.max) <= 1
  BY DEF CommandParameter, Bound
<1>2. /\ p.min # <<>> => 1 \in DOMAIN p.min /\ p.min[1] \in Int
      /\ p.max # <<>> => 1 \in DOMAIN p.max /\ p.max[1] \in Int
  <2>1. ASSUME NEW b \in Seq(Int), b # <<>>
        PROVE  1 \in DOMAIN b /\ b[1] \in Int
    BY <2>1
  <2> QED BY <1>1, <2>1
<1>3. (\A k \in DOMAIN p.options : p.options[k].value /\ p.options[k].label)
        <=> \A k \in DOMAIN p.options : p.options[k] = [value |-> TRUE, label |-> TRUE]
  <2>1. \A o \in ParameterOption : o.value /\ o.label <=> o = [value |-> TRUE, label |-> TRUE]
    BY DEF ParameterOption
  <2>2. \A k \in DOMAIN p.options : p.options[k] \in ParameterOption
    BY <1>1
  <2> QED BY <2>1, <2>2
<1>4. ~(p.min # Unbounded /\ p.max # Unbounded /\ p.min[1] > p.max[1])
        <=> \E n \in {0} \cup Range(p.min) \cup Range(p.max) :
              (p.min # <<>> => p.min[1] <= n) /\ (p.max # <<>> => n <= p.max[1])
  <2> DEFINE Low(n) == p.min # <<>> => p.min[1] <= n
             High(n) == p.max # <<>> => n <= p.max[1]
  <2>1. \A n \in Range(p.min) \cup Range(p.max) : n \in Int
    BY <1>1 DEF Range
  <2>2. p.min # <<>> => p.min[1] \in Range(p.min)
    BY <1>2 DEF Range
  <2>3. p.max # <<>> => p.max[1] \in Range(p.max)
    BY <1>2 DEF Range
  <2>4. CASE p.min = <<>> /\ p.max = <<>>
    BY <2>4 DEF Unbounded
  <2>5. CASE p.min # <<>> /\ p.max = <<>>
    BY <1>2, <2>2, <2>5 DEF Unbounded
  <2>6. CASE p.min = <<>> /\ p.max # <<>>
    BY <1>2, <2>3, <2>6 DEF Unbounded
  <2>7. CASE p.min # <<>> /\ p.max # <<>>
    BY <1>2, <2>1, <2>2, <2>7 DEF Unbounded
  <2> QED BY <2>4, <2>5, <2>6, <2>7
<1>5. ASSUME \A k \in DOMAIN p.options : p.options[k].value /\ p.options[k].label
      PROVE  ~(p.type = "select" /\ p.options = <<>>)
               <=> (p.type = "select" => \E k \in DOMAIN p.options : p.options[k].value)
  <2>1. p.options # <<>> => 1 \in DOMAIN p.options
    BY <1>1
  <2>2. p.options = <<>> => DOMAIN p.options = {}
    OBVIOUS
  <2> QED BY <1>5, <2>1, <2>2
<1>6. p.type # "" /\ p.type \in ParamTypes
        <=> p.type \in {"string", "number", "boolean", "select", "zone", "coordinates", "vehicle"}
  BY DEF ParamTypes
<1> QED BY <1>3, <1>4, <1>5, <1>6 DEF ValidParameter, CanBeFilled

(* The same as DistinctNames, for the names of a sequence.                 *)
LEMMA NamesAreDistinct ==
  ASSUME NEW n \in Nat, NEW S, NEW f, f \in Surjection(1 .. n, S)
  PROVE  Cardinality(S \ {""}) = n <=> IsInjective(f) /\ \A i \in 1 .. n : f[i] # ""
<1>1. Cardinality(S \ {""}) = n
        <=> (\A i, j \in 1 .. n : f[i] = f[j] => i = j) /\ \A i \in 1 .. n : f[i] # ""
  BY DistinctNames
<1>2. IsInjective(f) <=> \A i, j \in 1 .. n : f[i] = f[j] => i = j
  BY DEF IsInjective, Surjection
<1> QED BY <1>1, <1>2

(* A command that ValidateManifest lets through can be offered.            *)
LEMMA ValidCommandCanBeFilled ==
  ASSUME NEW c \in CommandDefinition
  PROVE  LET ps == c.parameters IN
         ValidCommand(c) <=>
           /\ c.command # "" /\ c.label
           /\ c.targetMode \in {"", "single", "broadcast", "both"}
           /\ Cardinality({ps[j].name : j \in DOMAIN ps} \ {""}) = Len(ps)
           /\ \A j \in DOMAIN ps : CanBeFilled(ps[j])
<1> DEFINE ps == c.parameters
           names == [j \in DOMAIN ps |-> ps[j].name]
           S == {ps[j].name : j \in DOMAIN ps}
<1>1. ps \in Seq(CommandParameter)
  BY DEF CommandDefinition
<1>2. ValidCommand(c) <=> /\ c.command # "" /\ c.label /\ c.targetMode \in TargetModes
                          /\ IsInjective(names)
                          /\ \A j \in DOMAIN ps : ValidParameter(ps[j])
  BY DEF ValidCommand
<1>3. Len(ps) \in Nat /\ DOMAIN ps = 1 .. Len(ps) /\ \A j \in DOMAIN ps : ps[j] \in CommandParameter
  BY <1>1
<1>4. names \in [1 .. Len(ps) -> S] /\ \A x \in S : \E j \in 1 .. Len(ps) : names[j] = x
  BY <1>3
<1>5. \A j \in DOMAIN ps : names[j] = ps[j].name
  OBVIOUS
<1>6. \A j \in DOMAIN ps : ValidParameter(ps[j]) <=> ps[j].name # "" /\ CanBeFilled(ps[j])
  BY <1>3, ValidCanBeFilled
<1> SUFFICES ValidCommand(c) <=>
               /\ c.command # "" /\ c.label
               /\ c.targetMode \in {"", "single", "broadcast", "both"}
               /\ Cardinality(S \ {""}) = Len(ps)
               /\ \A j \in DOMAIN ps : CanBeFilled(ps[j])
  BY Zenon
<1> HIDE DEF S, names, ps
<1>7. Cardinality(S \ {""}) = Len(ps)
        <=> IsInjective(names) /\ \A j \in 1 .. Len(ps) : names[j] # ""
  <2>1. ASSUME NEW n \in Nat, n = Len(ps)
        PROVE  Cardinality(S \ {""}) = n
                 <=> IsInjective(names) /\ \A j \in 1 .. n : names[j] # ""
    <3>1. names \in Surjection(1 .. n, S)
      BY <1>4, <2>1 DEF Surjection
    <3> QED BY <3>1, NamesAreDistinct
  <2> QED BY <1>3, <2>1
<1> QED BY <1>2, <1>3, <1>5, <1>6, <1>7 DEF TargetModes

(* ValidateManifest lets exactly the manifests through that can be offered. *)
LEMMA ValidCanBeOffered ==
  ASSUME NEW m \in ExtensionManifest
  PROVE  ValidateManifest(m) <=> CanBeOffered(m)
<1> DEFINE cs == m.commands
           names == [i \in DOMAIN cs |-> cs[i].command]
           S == {cs[i].command : i \in DOMAIN cs}
           Fits(c) ==
             /\ c.label
             /\ c.targetMode \in {"", "single", "broadcast", "both"}
             /\ Cardinality({c.parameters[j].name : j \in DOMAIN c.parameters} \ {""})
                  = Len(c.parameters)
             /\ \A j \in DOMAIN c.parameters : CanBeFilled(c.parameters[j])
<1>1. cs \in Seq(CommandDefinition)
  BY DEF ExtensionManifest
<1>2. /\ Len(cs) \in Nat /\ DOMAIN cs = 1 .. Len(cs)
      /\ \A i \in DOMAIN cs : cs[i] \in CommandDefinition
  BY <1>1
<1>3. names \in [1 .. Len(cs) -> S] /\ \A x \in S : \E i \in 1 .. Len(cs) : names[i] = x
  BY <1>2
<1>4. \A i \in DOMAIN cs : names[i] = cs[i].command
  OBVIOUS
<1>5. \A i \in DOMAIN cs : ValidCommand(cs[i]) <=> cs[i].command # "" /\ Fits(cs[i])
  BY <1>2, ValidCommandCanBeFilled
<1>6. ValidateManifest(m) <=> /\ m.namespace # "" /\ m.version /\ cs # <<>>
                              /\ IsInjective(names)
                              /\ \A i \in DOMAIN cs : ValidCommand(cs[i])
  BY DEF ValidateManifest
<1>7. CanBeOffered(m) <=> /\ m.namespace # "" /\ m.version /\ cs # <<>>
                          /\ Cardinality(S \ {""}) = Len(cs)
                          /\ \A i \in DOMAIN cs : Fits(cs[i])
  BY Zenon DEF CanBeOffered
<1> HIDE DEF S, names, cs, Fits
<1>8. Cardinality(S \ {""}) = Len(cs)
        <=> IsInjective(names) /\ \A i \in 1 .. Len(cs) : names[i] # ""
  <2>1. ASSUME NEW n \in Nat, n = Len(cs)
        PROVE  Cardinality(S \ {""}) = n
                 <=> IsInjective(names) /\ \A i \in 1 .. n : names[i] # ""
    <3>1. names \in Surjection(1 .. n, S)
      BY <1>3, <2>1 DEF Surjection
    <3> QED BY <3>1, NamesAreDistinct
  <2> QED BY <1>2, <2>1
<1> QED BY <1>2, <1>4, <1>5, <1>6, <1>7, <1>8

----------------------------------------------------------------------------
(* The versions *)

(* Of finitely many versions one is the highest.                           *)
LEMMA SomeIsHighest ==
  ASSUME NEW N \in Nat, NEW s, \A i \in 1 .. N + 1 : s[i] \in Nat
  PROVE  \E j \in 1 .. N + 1 : \A i \in 1 .. N + 1 : s[i] <= s[j]
<1> DEFINE Top(n) == \E j \in 1 .. n + 1 : \A i \in 1 .. n + 1 : s[i] <= s[j]
           T == {n \in 0 .. N : Top(n)}
<1>1. 0 \in T
  OBVIOUS
<1>2. ASSUME NEW n \in 0 .. N - 1, n \in T
      PROVE  n + 1 \in T
  <2>1. PICK j \in 1 .. n + 1 : \A i \in 1 .. n + 1 : s[i] <= s[j]
    BY <1>2
  <2>2. CASE s[n + 2] <= s[j]
    <3>1. j \in 1 .. n + 2 /\ \A i \in 1 .. n + 2 : s[i] <= s[j]
      BY <2>1, <2>2
    <3> QED BY <3>1
  <2>3. CASE ~(s[n + 2] <= s[j])
    <3>1. \A i \in 1 .. n + 2 : s[i] <= s[n + 2]
      BY <2>1, <2>3
    <3> QED BY <3>1
  <2> QED BY <2>2, <2>3
<1> HIDE DEF T
<1>3. N \in T
  BY <1>1, <1>2, CountUp
<1> QED BY <1>3 DEF T

(* Max of a codec's versions is one of them, and no other is higher.       *)
LEMMA HighestVersion ==
  ASSUME NEW s \in Seq(Nat), s # <<>>
  PROVE  /\ Max({s[i] : i \in DOMAIN s}) \in {s[i] : i \in DOMAIN s}
         /\ \A v \in {s[i] : i \in DOMAIN s} : v <= Max({s[i] : i \in DOMAIN s})
<1>1. \A i \in DOMAIN s : s[i] \in Nat
  OBVIOUS
<1>2. \E j \in DOMAIN s : \A i \in DOMAIN s : s[i] <= s[j]
  <2>1. ASSUME NEW N \in Nat, N + 1 = Len(s)
        PROVE  \E j \in 1 .. N + 1 : \A i \in 1 .. N + 1 : s[i] <= s[j]
    <3>1. \A i \in 1 .. N + 1 : s[i] \in Nat
      BY <1>1, <2>1
    <3> QED BY <3>1, SomeIsHighest
  <2>2. Len(s) - 1 \in Nat /\ (Len(s) - 1) + 1 = Len(s) /\ DOMAIN s = 1 .. Len(s)
    OBVIOUS
  <2> QED BY <2>1, <2>2
<1>3. PICK j \in DOMAIN s : \A i \in DOMAIN s : s[i] <= s[j]
  BY <1>2
<1> DEFINE S == {s[i] : i \in DOMAIN s}
<1>4. s[j] \in S /\ (\A v \in S : s[j] >= v) /\ \A v \in S : v \in Nat
  BY <1>1, <1>3
<1> HIDE DEF S
<1>5. Max(S) \in S /\ \A v \in S : Max(S) >= v
  BY <1>4 DEF Max
<1>6. \A v \in S : v <= Max(S)
  BY <1>4, <1>5
<1> QED BY <1>5, <1>6 DEF S
----------------------------------------------------------------------------
(* The inductive invariant *)

(* The configuration is the one that Load makes of the environment, and    *)
(* from the validation on one that Validate lets through.                  *)
ConfigInv ==
  /\ cfg \in {NoConfig, Load(env)}
  /\ phase \in Phases \ {"init", "load"} => cfg = Load(env) /\ cfg.ok
  /\ phase \in Phases \ {"init", "load", "validate"} => Validate(cfg)

(* Where run is, and what runs beside it.                                  *)
GoroutineInv ==
  /\ phase \in Phases => (wired <=> Started)
  /\ ~wired => source = <<>> /\ ~ticking /\ http = "down"
  /\ phase = "sources" => Len(source) < Len(cfg.MulticastSources)
  /\ phase \in {"listen", "serve"} => conn

(* The namespaces of the first n entries of a directory that load.         *)
OfferedBy(d, n) == {d[i].manifest.namespace : i \in {k \in 1 .. n : Loads(d[k])}}
Offered(n) == OfferedBy(directory, n)

(* The registered manifests are those of the entries that were looked at.  *)
LoaderInv ==
  /\ phase \in {"init", "load", "validate"} => manifests = <<>>
  /\ phase = "manifests" =>
       next <= Len(directory) + 1 /\ DOMAIN manifests = Offered(next - 1)
  /\ phase \in Phases \ {"init", "load", "validate", "manifests"} =>
       DOMAIN manifests = Offered(Len(directory))

(* A registered codec is one of the imported ones.                         *)
CodecInv ==
  \A ns \in DOMAIN codecs :
    \E i \in DOMAIN Imports : Imports[i].namespace = ns /\ Imports[i].versions = codecs[ns]

(* All of it, and the choices of the environment.                          *)
StartInv ==
  /\ env \in Environments /\ directory \in Directories
  /\ StartTypeOK /\ ConfigInv /\ GoroutineInv /\ LoaderInv /\ CodecInv

(* The steps of the source goroutines.                                     *)
ThreadSteps == \E i \in DOMAIN source : SourceStarts(i) \/ SourceReturns(i)

----------------------------------------------------------------------------
(* Steps *)

(* The kinds of what the process is started with.                          *)
LEMMA WorldTyped ==
  ASSUME StartInv
  PROVE  /\ env \in Environment /\ directory \in Seq(DirectoryEntry)
         /\ Imports \in Seq(Codec) /\ MaxSignals \in Nat
         /\ Len(cfg.MulticastSources) \in Nat
         /\ Len(Load(env).MulticastSources) \in Nat
<1>1. env \in Environment /\ directory \in Seq(DirectoryEntry) /\ Imports \in Seq(Codec)
      /\ MaxSignals \in Nat
  BY StartupAssumption DEF StartInv
<1> DEFINE unset == [numbers |-> [x \in Numbers |-> Unset], sources |-> <<>>,
                     groupIsAddress |-> TRUE]
<1>2. unset \in Environment
  BY DEF Environment, Unset, Setting
<1>3. NoConfig = Load(unset)
  BY DEF NoConfig
<1> HIDE DEF unset
<1>4. Len(Load(env).MulticastSources) \in Nat /\ Len(NoConfig.MulticastSources) \in Nat
  BY <1>1, <1>2, <1>3, LoadedIsGiven
<1> QED BY <1>1, <1>4 DEF StartInv, ConfigInv

(* Where run goes in a step.                                               *)
LEMMA PlaceStep ==
  ASSUME StartInv, [Next]_vars
  PROVE  phase' \in Phases \cup Ends /\ next' \in Nat \ {0}
<1>1. phase \in Phases \cup Ends /\ next \in Nat \ {0}
  BY DEF StartInv, StartTypeOK
<1> DEFINE Stays == phase' = phase /\ next' \in {next, next + 1}
           Goes == \E p \in Phases \cup Ends : Goto(p)
<1>2. CASE Stays
  BY <1>1, <1>2
<1>3. CASE Goes
  BY <1>3 DEF Goto
<1>4. CASE UNCHANGED vars
  BY <1>2, <1>4 DEF vars
<1>5. CASE Register \/ EnterMain
  <2>1. Stays \/ Goto("panicked") \/ Goto("load")
    BY <1>5 DEF Register, EnterMain
  <2> QED BY <1>2, <1>3, <2>1 DEF Phases, Ends
<1>6. CASE LoadConfig \/ ValidateConfig
  <2>1. Goto("validate") \/ Goto("manifests") \/ Goto("exit 1")
    BY <1>6 DEF LoadConfig, ValidateConfig
  <2> QED BY <1>3, <2>1 DEF Phases, Ends
<1>7. CASE LoadEntry
  <2>1. Stays \/ Goto("panicked")
    BY <1>7 DEF LoadEntry
  <2> QED BY <1>2, <1>3, <2>1 DEF Phases, Ends
<1>8. CASE ManifestsDone \/ Wire \/ StartTicker \/ Listen
  <2>1. Goto("wire") \/ Goto("sources") \/ Goto("router") \/ Goto("serve")
    BY <1>8 DEF ManifestsDone, Wire, StartTicker, Listen
  <2> QED BY <1>3, <2>1 DEF Phases, Ends
<1>9. CASE LaunchSource
  <2>1. Stays \/ Goto("ticker")
    BY <1>9 DEF LaunchSource
  <2> QED BY <1>2, <1>3, <2>1 DEF Phases, Ends
<1>10. CASE StartRouter \/ ServeReturns \/ ShutdownEnds
  <2>1. Goto("listen") \/ Goto("shutdown") \/ Goto("exit 1") \/ Goto("ended")
    BY <1>10 DEF StartRouter, ServeReturns, ShutdownEnds
  <2> QED BY <1>3, <2>1 DEF Phases, Ends
<1>11. CASE Signal
  <2>1. Stays \/ Goto("killed")
    BY <1>11 DEF Signal
  <2> QED BY <1>2, <1>3, <2>1 DEF Phases, Ends
<1>12. CASE ThreadSteps \/ TickerReturns \/ HTTPStarts \/ HandleSignal
  BY <1>2, <1>12
     DEF ThreadSteps, SourceStarts, SourceReturns, TickerReturns, HTTPStarts, HandleSignal
<1> QED BY <1>4, <1>5, <1>6, <1>7, <1>8, <1>9, <1>10, <1>11, <1>12 DEF Next, MainStep, ThreadSteps

(* Steps keep the types.                                                   *)
LEMMA TypeStep ==
  ASSUME StartInv, [Next]_vars
  PROVE  StartTypeOK'
<1>1. StartTypeOK /\ Len(source) \in Nat
  BY DEF StartInv, StartTypeOK
<1>2. /\ directory \in Seq(DirectoryEntry) /\ Imports \in Seq(Codec) /\ MaxSignals \in Nat
      /\ Len(cfg.MulticastSources) \in Nat /\ Len(Load(env).MulticastSources) \in Nat
  BY WorldTyped
<1>3. phase' \in Phases \cup Ends /\ next' \in Nat \ {0}
  BY PlaceStep
<1> USE <1>3 DEF StartTypeOK
<1>4. CASE UNCHANGED vars
  BY <1>1, <1>4 DEF vars, world, goroutines, loaded
<1>5. CASE Register
  <2>1. next \in DOMAIN Imports
    BY <1>1, <1>2, <1>5 DEF Register
  <2>2. DOMAIN codecs' \subseteq DOMAIN codecs \cup {Imports[next].namespace}
    BY <1>5 DEF Register, Extend
  <2>3. DOMAIN codecs' \subseteq {Imports[i].namespace : i \in DOMAIN Imports}
    BY <1>1, <2>1, <2>2
  <2> QED BY <1>1, <1>5, <2>3 DEF Register, world, goroutines
<1>6. CASE EnterMain \/ ValidateConfig \/ ManifestsDone \/ Wire
  <2>1. UNCHANGED <<world, goroutines, cfg, codecs, manifests, failed, signals, cancelled>>
        /\ wired' \in {wired, TRUE}
    BY <1>6 DEF EnterMain, ValidateConfig, ManifestsDone, Wire, loaded
  <2> QED BY <1>1, <2>1 DEF world, goroutines
<1>7. CASE LoadConfig
  <2>1. /\ phase = "load" /\ cfg' = Load(env)
        /\ UNCHANGED <<world, goroutines, codecs, manifests, failed, wired, signals, cancelled>>
    BY <1>7 DEF LoadConfig
  <2>2. Len(source) = 0
    BY <2>1 DEF StartInv, GoroutineInv, Started, Setup, Phases
  <2> QED BY <1>1, <1>2, <2>1, <2>2 DEF world, goroutines
<1>8. CASE LoadEntry
  <2>1. next \in DOMAIN directory
    BY <1>1, <1>2, <1>8 DEF LoadEntry
  <2>2. failed' \subseteq {directory[i].name : i \in DOMAIN directory}
    BY <1>1, <1>8, <2>1 DEF LoadEntry
  <2>3. \A ns \in DOMAIN manifests' : manifests'[ns].namespace = ns
    BY <1>1, <1>8 DEF LoadEntry, Extend
  <2> QED BY <1>1, <1>8, <2>2, <2>3 DEF LoadEntry, world, goroutines
<1>9. CASE LaunchSource
  <2>1. Len(source) < Len(cfg.MulticastSources)
    BY <1>9 DEF LaunchSource, StartInv, GoroutineInv
  <2>2. /\ source' \in Seq({"starting", "listening", "failed", "returned"})
        /\ Len(source') = Len(source) + 1
    BY <1>1, <1>9 DEF LaunchSource
  <2> QED BY <1>1, <1>2, <1>9, <2>1, <2>2 DEF LaunchSource, world, loaded
<1>10. CASE StartTicker \/ StartRouter \/ Listen
  <2>1. /\ UNCHANGED <<world, source, loaded, signals>>
        /\ ticking' \in {ticking, TRUE} /\ conn' \in {conn, TRUE} /\ http' \in {http, "starting"}
        /\ cancelled' \in {cancelled, TRUE}
    BY <1>10 DEF StartTicker, StartRouter, Listen
  <2> QED BY <1>1, <2>1 DEF world, loaded
<1>11. CASE ServeReturns \/ ShutdownEnds
  <2>1. /\ UNCHANGED <<world, source, ticking, loaded, signals>>
        /\ conn' \in {conn, FALSE} /\ http' \in {http, "closed"}
        /\ cancelled' \in {cancelled, TRUE}
    BY <1>11 DEF ServeReturns, ShutdownEnds
  <2> QED BY <1>1, <2>1 DEF world, loaded
<1>12. CASE ThreadSteps
  <2>1. PICK i \in DOMAIN source : SourceStarts(i) \/ SourceReturns(i)
    BY <1>12 DEF ThreadSteps
  <2>2. \E s \in {"listening", "failed", "returned"} : source' = [source EXCEPT ![i] = s]
    BY <2>1 DEF SourceStarts, SourceReturns
  <2>3. source' \in Seq({"starting", "listening", "failed", "returned"})
        /\ Len(source') = Len(source)
    BY <1>1, <2>2
  <2> QED BY <1>1, <2>1, <2>3 DEF SourceStarts, SourceReturns, world, loaded
<1>13. CASE TickerReturns
  BY <1>1, <1>13 DEF TickerReturns, world, loaded
<1>14. CASE HTTPStarts
  BY <1>1, <1>14 DEF HTTPStarts, world, loaded
<1>15. CASE Signal
  BY <1>1, <1>2, <1>15 DEF Signal, world, goroutines, loaded
<1>16. CASE HandleSignal
  BY <1>1, <1>16 DEF HandleSignal, world, goroutines, loaded
<1> QED BY <1>4, <1>5, <1>6, <1>7, <1>8, <1>9, <1>10, <1>11, <1>12, <1>13, <1>14, <1>15, <1>16
        DEF Next, MainStep, ThreadSteps

(* The environment and the directory stay as they are.                     *)
LEMMA WorldStep ==
  ASSUME StartInv, [Next]_vars
  PROVE  env' = env /\ directory' = directory
BY DEF Next, MainStep, vars, world, Register, EnterMain, LoadConfig, ValidateConfig, LoadEntry,
  ManifestsDone, Wire, LaunchSource, StartTicker, StartRouter, Listen, ServeReturns, ShutdownEnds,
  SourceStarts, SourceReturns, TickerReturns, HTTPStarts, Signal, HandleSignal

(* The configuration stays the one of the environment.                     *)
LEMMA ConfigStep ==
  ASSUME StartInv, [Next]_vars
  PROVE  ConfigInv'
<1> USE DEF ConfigInv
<1>1. ConfigInv /\ env' = env
  BY WorldStep DEF StartInv
<1>2. NoConfig' = NoConfig /\ Load(env)' = Load(env)
  BY <1>1 DEF NoConfig, Load
<1>3. CASE phase \in Phases /\ LoadConfig
  BY <1>1, <1>2, <1>3 DEF LoadConfig, Goto, Phases
<1>4. CASE phase \in Phases /\ (ValidateConfig \/ EnterMain \/ Register)
  BY <1>1, <1>2, <1>4 DEF ValidateConfig, EnterMain, Register, Goto, Phases, loaded
<1>5. CASE phase \in Phases /\ (LoadEntry \/ ManifestsDone \/ Wire \/ LaunchSource \/ StartTicker)
  BY <1>1, <1>2, <1>5
     DEF LoadEntry, ManifestsDone, Wire, LaunchSource, StartTicker, Goto, Phases, loaded
<1>6. CASE phase \in Phases /\ (StartRouter \/ Listen \/ ServeReturns \/ ShutdownEnds)
  BY <1>1, <1>2, <1>6
     DEF StartRouter, Listen, ServeReturns, ShutdownEnds, Goto, Phases, loaded
<1>7. CASE phase \in Phases /\ (ThreadSteps \/ TickerReturns \/ HTTPStarts \/ HandleSignal)
  BY <1>1, <1>2, <1>7
     DEF ThreadSteps, SourceStarts, SourceReturns, TickerReturns, HTTPStarts, HandleSignal, loaded
<1>8. CASE phase \in Phases /\ Signal
  BY <1>1, <1>2, <1>8 DEF Signal, Goto, Phases, loaded
<1>9. CASE UNCHANGED vars
  BY <1>1, <1>2, <1>9 DEF vars, loaded
<1> QED BY <1>3, <1>4, <1>5, <1>6, <1>7, <1>8, <1>9 DEF Next, MainStep, ThreadSteps

(* What runs beside run was started after the wiring.                      *)
LEMMA GoroutineStep ==
  ASSUME StartInv, [Next]_vars
  PROVE  GoroutineInv'
<1> USE DEF GoroutineInv, Started, Setup
<1>1. GoroutineInv /\ StartTypeOK
  BY DEF StartInv
<1>2. phase = "wire" => Len(cfg.MulticastSources) > 0
  <2>1. SUFFICES ASSUME phase = "wire"
                 PROVE  Len(cfg.MulticastSources) > 0
    OBVIOUS
  <2>2. cfg = Load(env) /\ Validate(cfg)
    BY <2>1 DEF StartInv, ConfigInv, Phases
  <2>3. cfg.MulticastSources # <<>>
    BY <2>2 DEF Validate
  <2> QED BY <2>2, <2>3, WorldTyped, LoadedIsGiven
<1>3. CASE phase \in Phases /\ (Register \/ EnterMain)
  BY <1>1, <1>3 DEF Register, EnterMain, Goto, Phases, goroutines, loaded
<1>13. CASE phase \in Phases /\ (LoadConfig \/ ValidateConfig)
  <2>1. Goto("validate") \/ Goto("manifests") \/ Goto("exit 1")
    BY <1>13 DEF LoadConfig, ValidateConfig
  <2>2. phase \in {"load", "validate"} /\ UNCHANGED <<goroutines, wired>>
    BY <1>13 DEF LoadConfig, ValidateConfig, loaded
  <2>3. source = <<>> /\ ~ticking /\ http = "down" /\ ~wired
    BY <1>1, <2>2 DEF Phases
  <2> QED BY <2>1, <2>2, <2>3 DEF Goto, Phases, goroutines
<1>4. CASE phase \in Phases /\ (LoadEntry \/ ManifestsDone)
  BY <1>1, <1>4 DEF LoadEntry, ManifestsDone, Goto, Phases, goroutines, loaded
<1>5. CASE phase \in Phases /\ Wire
  <2>1. source = <<>> /\ Len(source) = 0
    BY <1>1, <1>5 DEF Wire
  <2> QED BY <1>1, <1>2, <1>5, <2>1 DEF Wire, Goto, Phases, goroutines
<1>6. CASE phase \in Phases /\ LaunchSource
  <2>1. Len(source') = Len(source) + 1 /\ Len(source) \in Nat
    BY <1>1, <1>6 DEF LaunchSource, StartTypeOK
  <2>2. cfg' = cfg /\ Len(cfg.MulticastSources) \in Nat
    BY <1>6, WorldTyped DEF LaunchSource, loaded
  <2> QED BY <1>1, <1>6, <2>1, <2>2 DEF LaunchSource, Goto, Phases, loaded
<1>7. CASE phase \in Phases /\ (StartTicker \/ StartRouter \/ Listen)
  <2>1. wired /\ wired' = wired
    BY <1>1, <1>7 DEF StartTicker, StartRouter, Listen, Phases, loaded
  <2>2. \/ Goto("router") \/ Goto("exit 1")
        \/ Goto("listen") /\ conn'
        \/ phase = "listen" /\ Goto("serve") /\ conn' = conn
    BY <1>7 DEF StartTicker, StartRouter, Listen
  <2> QED BY <1>1, <2>1, <2>2 DEF Goto, Phases
<1>8. CASE phase \in Phases /\ (ServeReturns \/ ShutdownEnds)
  <2>1. wired /\ wired' = wired
    BY <1>1, <1>8 DEF ServeReturns, ShutdownEnds, Phases, loaded
  <2>2. Goto("shutdown") \/ Goto("exit 1") \/ Goto("ended")
    BY <1>8 DEF ServeReturns, ShutdownEnds
  <2> QED BY <2>1, <2>2 DEF Goto, Phases
<1>9. CASE phase \in Phases /\ ThreadSteps
  <2>1. PICK i \in DOMAIN source : SourceStarts(i) \/ SourceReturns(i)
    BY <1>9 DEF ThreadSteps
  <2>2. \E s \in {"listening", "failed", "returned"} : source' = [source EXCEPT ![i] = s]
    BY <2>1 DEF SourceStarts, SourceReturns
  <2>3. Len(source') = Len(source) /\ source # <<>>
    BY <1>1, <2>1, <2>2 DEF StartTypeOK
  <2> QED BY <1>1, <2>1, <2>3 DEF SourceStarts, SourceReturns, loaded
<1>10. CASE phase \in Phases /\ (TickerReturns \/ HTTPStarts \/ HandleSignal)
  BY <1>1, <1>10 DEF TickerReturns, HTTPStarts, HandleSignal, goroutines, loaded
<1>11. CASE phase \in Phases /\ Signal
  BY <1>1, <1>11 DEF Signal, Goto, Phases, goroutines, loaded
<1>12. CASE UNCHANGED vars
  BY <1>1, <1>12 DEF vars, goroutines, loaded
<1> QED BY <1>3, <1>4, <1>5, <1>6, <1>7, <1>8, <1>9, <1>10, <1>11, <1>12, <1>13
        DEF Next, MainStep, ThreadSteps

(* The loader goes through the directory entry by entry.                   *)
LEMMA LoaderStep ==
  ASSUME StartInv, [Next]_vars
  PROVE  LoaderInv'
<1> USE DEF LoaderInv
<1>1. LoaderInv /\ directory' = directory /\ directory \in Seq(DirectoryEntry)
      /\ next \in Nat \ {0} /\ Len(directory) \in Nat
  BY WorldStep, WorldTyped DEF StartInv, StartTypeOK
<1>2. \A n : Offered(n)' = Offered(n)
  BY <1>1 DEF Offered
<1>3. CASE phase \in Phases /\ LoadEntry
  <2> DEFINE entry == directory[next]
             ns == entry.manifest.namespace
  <2>1. next \in 1 .. Len(directory) /\ next <= Len(directory) /\ (next + 1) - 1 = next
        /\ DOMAIN manifests = Offered(next - 1)
    BY <1>1, <1>3 DEF LoadEntry
  <2>2. Offered(next) = Offered(next - 1) \cup IF Loads(entry) THEN {ns} ELSE {}
    <3>1. 1 .. next = (1 .. next - 1) \cup {next}
      BY <1>1
    <3> QED BY <3>1 DEF Offered, OfferedBy
  <2>3. CASE Loads(entry) /\ ns \in DOMAIN manifests
    BY <1>3, <2>3 DEF LoadEntry, Goto, Phases
  <2>4. CASE Loads(entry) /\ ns \notin DOMAIN manifests
    <3>1. manifests' = Extend(manifests, ns, entry.manifest) /\ next' = next + 1 /\ phase' = phase
      BY <1>3, <2>4 DEF LoadEntry
    <3>2. DOMAIN manifests' = DOMAIN manifests \cup {ns}
      BY <3>1 DEF Extend
    <3>3. DOMAIN manifests' = Offered(next)
      BY <2>1, <2>2, <2>4, <3>2
    <3>4. phase = "manifests"
      BY <1>3 DEF LoadEntry
    <3> HIDE DEF entry
    <3> QED BY <1>1, <1>2, <2>1, <3>1, <3>3, <3>4
  <2>5. CASE ~Loads(entry)
    <3>1. manifests' = manifests /\ next' = next + 1 /\ phase' = phase
      BY <1>3, <2>5 DEF LoadEntry
    <3>2. DOMAIN manifests' = Offered(next)
      BY <2>1, <2>2, <2>5, <3>1
    <3>3. phase = "manifests"
      BY <1>3 DEF LoadEntry
    <3> HIDE DEF entry
    <3> QED BY <1>1, <1>2, <2>1, <3>1, <3>2, <3>3
  <2> QED BY <2>3, <2>4, <2>5
<1>4. CASE phase \in Phases /\ ManifestsDone
  <2>1. next - 1 = Len(directory)
    BY <1>1, <1>4 DEF ManifestsDone
  <2> QED BY <1>1, <1>2, <1>4, <2>1 DEF ManifestsDone, Goto, Phases, loaded
<1>5. CASE phase \in Phases /\ (Register \/ EnterMain \/ LoadConfig)
  BY <1>1, <1>2, <1>5 DEF Register, EnterMain, LoadConfig, Goto, Phases, loaded
<1>6. CASE phase \in Phases /\ ValidateConfig
  <2>1. Offered(0) = {} /\ DOMAIN <<>> = {} /\ 1 - 1 = 0
    BY DEF Offered, OfferedBy
  <2>2. manifests' = <<>> /\ (Goto("manifests") \/ Goto("exit 1"))
    BY <1>1, <1>6 DEF ValidateConfig, loaded
  <2>3. CASE Goto("exit 1")
    BY <2>3 DEF Goto, Phases
  <2>4. CASE Goto("manifests")
    <3>1. phase' = "manifests" /\ next' = 1 /\ DOMAIN manifests' = {} /\ Offered(0)' = {}
      BY <1>2, <2>1, <2>2, <2>4 DEF Goto
    <3>2. next' <= Len(directory') + 1 /\ Offered(next - 1)' = {}
      BY <1>1, <2>1, <3>1
    <3> QED BY <3>1, <3>2
  <2> QED BY <2>2, <2>3, <2>4
<1>7. CASE phase \in Phases /\ (Wire \/ LaunchSource \/ StartTicker \/ StartRouter)
  BY <1>1, <1>2, <1>7 DEF Wire, LaunchSource, StartTicker, StartRouter, Goto, Phases, loaded
<1>8. CASE phase \in Phases /\ (Listen \/ ServeReturns \/ ShutdownEnds)
  BY <1>1, <1>2, <1>8 DEF Listen, ServeReturns, ShutdownEnds, Goto, Phases, loaded
<1>9. CASE phase \in Phases /\ (ThreadSteps \/ TickerReturns \/ HTTPStarts \/ HandleSignal)
  BY <1>1, <1>2, <1>9
     DEF ThreadSteps, SourceStarts, SourceReturns, TickerReturns, HTTPStarts, HandleSignal, loaded
<1>10. CASE phase \in Phases /\ Signal
  BY <1>1, <1>2, <1>10 DEF Signal, Goto, Phases, loaded
<1>11. CASE UNCHANGED vars
  BY <1>1, <1>2, <1>11 DEF vars, loaded
<1> QED BY <1>3, <1>4, <1>5, <1>6, <1>7, <1>8, <1>9, <1>10, <1>11 DEF Next, MainStep, ThreadSteps

(* Codecs come from the imports.                                           *)
LEMMA CodecStep ==
  ASSUME StartInv, [Next]_vars
  PROVE  CodecInv'
<1>1. CodecInv /\ next \in Nat \ {0} /\ Imports \in Seq(Codec)
  BY WorldTyped DEF StartInv, StartTypeOK
<1>2. CASE Register
  <2>1. next \in DOMAIN Imports
    BY <1>1, <1>2 DEF Register
  <2> QED BY <1>1, <1>2, <2>1 DEF Register, CodecInv, Extend
<1>3. CASE ~Register
  <2>1. codecs' = codecs
    BY <1>3 DEF Next, MainStep, vars, loaded, EnterMain, LoadConfig, ValidateConfig, LoadEntry,
      ManifestsDone, Wire, LaunchSource, StartTicker, StartRouter, Listen, ServeReturns,
      ShutdownEnds, SourceStarts, SourceReturns, TickerReturns, HTTPStarts, Signal, HandleSignal
  <2> QED BY <1>1, <2>1 DEF CodecInv
<1> QED BY <1>2, <1>3

----------------------------------------------------------------------------
(* The theorems *)

(* The first states.                                                       *)
LEMMA StartInitially ==
  ASSUME Init
  PROVE  StartInv
<1> USE DEF Init
<1>1. MaxSignals \in Nat /\ Environments \subseteq Environment
  BY StartupAssumption
<1>2. StartTypeOK
  <2> DEFINE unset == [numbers |-> [x \in Numbers |-> Unset], sources |-> <<>>,
                       groupIsAddress |-> TRUE]
  <2>1. unset \in Environment /\ cfg = Load(unset)
    BY DEF Environment, Unset, Setting, NoConfig
  <2> HIDE DEF unset
  <2>2. Len(cfg.MulticastSources) \in Nat
    BY <2>1, LoadedIsGiven
  <2>3. phase \in Phases \cup Ends
    BY DEF Phases
  <2>4. source \in Seq({"starting", "listening", "failed", "returned"}) /\ Len(source) = 0
    OBVIOUS
  <2>5. DOMAIN codecs = {} /\ DOMAIN manifests = {}
    OBVIOUS
  <2>6. {ticking, conn, wired, cancelled, portTaken} \subseteq BOOLEAN
    OBVIOUS
  <2>7. http \in {"down", "starting", "up", "failed", "closed"} /\ failed = {}
        /\ next = 1 /\ signals \in 0 .. MaxSignals
    BY <1>1
  <2> HIDE DEF Init
  <2> QED BY <2>2, <2>3, <2>4, <2>5, <2>6, <2>7 DEF StartTypeOK
<1>3. ConfigInv
  BY DEF ConfigInv, Phases
<1>4. GoroutineInv
  BY DEF GoroutineInv, Started, Setup, Phases
<1>5. LoaderInv
  BY DEF LoaderInv, Phases
<1>6. CodecInv
  BY DEF CodecInv
<1> QED BY <1>2, <1>3, <1>4, <1>5, <1>6 DEF StartInv

(* The invariant is inductive.                                             *)
LEMMA StartInductive ==
  ASSUME StartInv, [Next]_vars
  PROVE  StartInv'
<1>1. env' \in Environments /\ directory' \in Directories
  BY WorldStep DEF StartInv
<1> QED BY <1>1, TypeStep, ConfigStep, GoroutineStep, LoaderStep, CodecStep DEF StartInv

(* It holds of every behaviour.                                            *)
LEMMA StartInvHolds == Spec => []StartInv
BY StartInitially, StartInductive, PTL DEF Spec

(* A process that serves has the configuration that its environment asks   *)
(* for, and a usable one (config.go:72-135, :189-233): numbers as given,   *)
(* timeouts in order, no source of the list lost or doubled.               *)
THEOREM ConfiguredBeforeServing == Spec => []ServingIsConfigured
<1>1. ASSUME StartInv
      PROVE  ServingIsConfigured
  <2>1. StartTypeOK
    BY <1>1 DEF StartInv
  <2>2. ASSUME Started
        PROVE  ConfigurationHolds
    <3>1. cfg = Load(env) /\ cfg.ok /\ Validate(cfg)
      BY <1>1, <2>2 DEF StartInv, ConfigInv, Started, Setup, Phases
    <3>2. env \in Environment
      BY <1>1, WorldTyped
    <3>3. /\ cfg.numbers.CmdTimeout > 0 /\ cfg.numbers.CmdRateLimit > 0
          /\ cfg.numbers.StandbyTimeout > 0
          /\ cfg.numbers.OfflineTimeout > cfg.numbers.StandbyTimeout
          /\ cfg.MulticastSources # <<>>
      BY <3>1 DEF Validate
    <3>4. /\ \A x \in Numbers :
               env.numbers[x].set => Given(cfg.numbers[x]) = env.numbers[x]
          /\ \A i, j \in DOMAIN cfg.MulticastSources :
               /\ cfg.MulticastSources[i].Group = cfg.MulticastSources[j].Group
               /\ cfg.MulticastSources[i].Port = cfg.MulticastSources[j].Port
               => i = j
          /\ \A i \in DOMAIN env.sources : ~env.sources[i].blank =>
               \E j \in DOMAIN cfg.MulticastSources :
                 /\ cfg.MulticastSources[j].Group = env.sources[i].host
                 /\ cfg.MulticastSources[j].Port = env.sources[i].port.value
      BY <3>1, <3>2, LoadedIsGiven
    <3> QED BY <3>3, <3>4 DEF ConfigurationHolds
  <2> QED BY <2>1, <2>2 DEF ServingIsConfigured
<1> QED BY <1>1, StartInvHolds, PTL

(* The callbacks are set before any goroutine runs that uses them, and the *)
(* router has its connection before the HTTP server has a port             *)
(* (main.go:85-260).                                                       *)
THEOREM WiredFirst == Spec => []WiredBeforeUse
<1>1. ASSUME StartInv
      PROVE  WiredBeforeUse
  BY <1>1 DEF StartInv, GoroutineInv, WiredBeforeUse
<1> QED BY <1>1, StartInvHolds, PTL

(* The welcome offers the valid manifests of the directory, all of them.   *)
LEMMA OffersValidManifests ==
  ASSUME StartInv
  PROVE  OffersWhatCanBeFilled
<1> SUFFICES ASSUME phase = "serve"
             PROVE  DOMAIN GetWelcomeFrame({}, codecs, manifests).manifests =
                      {directory[i].manifest.namespace :
                         i \in {k \in DOMAIN directory : directory[k].kind = "manifest"
                                  /\ CanBeOffered(directory[k].manifest)}}
  BY DEF OffersWhatCanBeFilled
<1>1. DOMAIN manifests = Offered(Len(directory))
  BY DEF StartInv, LoaderInv, Phases
<1>2. DOMAIN GetWelcomeFrame({}, codecs, manifests).manifests = DOMAIN manifests
  BY DEF GetWelcomeFrame, NewWelcomeFrame, CollectManifests
<1>3. directory \in Seq(DirectoryEntry)
  BY WorldTyped
<1>4. ASSUME NEW k \in DOMAIN directory
      PROVE  Loads(directory[k]) <=>
               directory[k].kind = "manifest" /\ CanBeOffered(directory[k].manifest)
  <2>1. directory[k] \in DirectoryEntry
    BY <1>3
  <2>2. directory[k].manifest \in ExtensionManifest
    BY <2>1 DEF DirectoryEntry
  <2> QED BY <2>2, ValidCanBeOffered DEF Loads
<1> QED BY <1>1, <1>2, <1>3, <1>4 DEF Offered, OfferedBy

(* It names the highest version of a codec that was imported.              *)
LEMMA OffersHighestVersions ==
  ASSUME StartInv
  PROVE  OffersTheLatestVersion
<1> SUFFICES ASSUME NEW e \in GetWelcomeFrame({}, codecs, manifests).availableExtensions
             PROVE  \E i \in DOMAIN Imports :
                      LET known == {Imports[i].versions[k] : k \in DOMAIN Imports[i].versions} IN
                      /\ Imports[i].namespace = e.Namespace
                      /\ e.Version \in known
                      /\ \A v \in known : v <= e.Version
  BY DEF OffersTheLatestVersion
<1>1. e \in AvailableExtensions(codecs)
  BY DEF GetWelcomeFrame, NewWelcomeFrame
<1>2. PICK ns \in DOMAIN codecs :
        /\ codecs[ns] # <<>>
        /\ e = [Namespace |-> ns, Version |-> Max({codecs[ns][i] : i \in DOMAIN codecs[ns]})]
  BY <1>1 DEF AvailableExtensions
<1>3. PICK i \in DOMAIN Imports : Imports[i].namespace = ns /\ Imports[i].versions = codecs[ns]
  BY DEF StartInv, CodecInv
<1>4. codecs[ns] \in Seq(Nat)
  <2>1. Imports[i] \in Codec
    BY WorldTyped
  <2> QED BY <1>3, <2>1 DEF Codec
<1> DEFINE s == codecs[ns]
           known == {s[k] : k \in DOMAIN s}
<1>5. Max(known) \in known /\ \A v \in known : v <= Max(known)
  <2>1. s \in Seq(Nat) /\ s # <<>>
    BY <1>2, <1>4
  <2> HIDE DEF s
  <2> QED BY <2>1, HighestVersion
<1>6. e.Namespace = ns /\ e.Version = Max(known)
  BY <1>2
<1>7. known = {Imports[i].versions[k] : k \in DOMAIN Imports[i].versions}
  BY <1>3
<1> HIDE DEF known
<1> QED BY <1>3, <1>5, <1>6, <1>7

(* The extensions and the manifests in a welcome are those of the running  *)
(* server: nothing that cannot be filled in, nothing valid left out, the   *)
(* latest version of each codec (server.go:254-335, registry.go).          *)
THEOREM WelcomeTellsTheTruth == Spec => []WelcomeIsTrue
<1>1. ASSUME StartInv
      PROVE  WelcomeIsTrue
  BY <1>1, OffersValidManifests, OffersHighestVersions DEF WelcomeIsTrue
<1> QED BY <1>1, StartInvHolds, PTL
==============================================================================
