---------------------------- MODULE FleetProofs ----------------------------
(***************************************************************************)
(* Proofs about Fleet, for every value of --engines and every scenario.    *)
(***************************************************************************)
EXTENDS Fleet, SequenceTheorems, TLAPS

-----------------------------------------------------------------------------
(* The inductive invariant                                                 *)

\* What Driver makes of a token: the name tells the kind and the ports.
Instances ==
    {d \in [kind : EngineKinds, name : Seq(EngineKinds \cup Nat), seeder : {TRUE}, off : Nat] :
        \/ d.name = <<d.kind>> /\ d.off = 0
        \/ d.name[2] \in Nat /\ d.name = <<d.kind, d.name[2]>> /\ d.off = d.name[2] * 100}

\* Drivers are built before any is started, and the n-th of a token is not
\* among the first n drivers.
Building ==
    /\ tokens \in Seq(Tokens) /\ drivers \in Seq(Instances) /\ swarm \in Swarms
    /\ phase # "build" => tokens = <<>>
    /\ tokens = <<>> => drivers # <<>>
    /\ phase = "build" => cur = 0
    /\ phase \in {"build", "start"} => added = {}
    /\ phase = "add" => tor <= Len(swarm)
    /\ tokens # <<>> => inst <= Len(drivers)
    /\ \A i \in 1 .. Len(drivers) : drivers[i].off <= (i - 1) * 100

\* A file holds what an earlier run left there, or what was staged, all of it or
\* not.
Origin(p) ==
    \/ disk[p] = "truncated"
    \/ \E t \in 1 .. Len(swarm) : used /\ swarm[t].given /\ disk[p] = swarm[t].payload
    \/ \E n \in 1 .. Len(drivers), t \in 1 .. Len(swarm) :
          IsSeeder(n, t) /\ p = SeedPath(n, t) /\ disk[p] = swarm[t].payload

Files == \A p \in DOMAIN disk : Origin(p)

\* The torrents a driver has got, and the one it is about to get.
Given(n, t) ==
    \/ \E a \in added : a.driver = n /\ a.torrent = t
    \/ phase = "add" /\ cur = n /\ tor = t

Staged ==
    \A n \in 1 .. Len(drivers), t \in 1 .. Len(swarm) :
        /\ Given(n, t) /\ IsSeeder(n, t)
        /\ drivers[n].kind # "libtorrent" /\ ~NameShared(t) /\ phase # "failed"
        => Holds(n, t)

IInv == TypeOK /\ Building /\ Files /\ Staged

-----------------------------------------------------------------------------
(* Paths                                                                   *)

LEMMA Pair ==
  ASSUME NEW a, NEW b
  PROVE  <<a>> \o <<b>> = <<a, b>>
<1> DEFINE S == {a, b}
<1>1. <<a>> \in Seq(S) /\ <<b>> \in Seq(S) /\ <<a, b>> \in Seq(S)
  OBVIOUS
<1>2. /\ <<a>> \o <<b>> \in Seq(S)
      /\ Len(<<a>> \o <<b>>) = 2 /\ Len(<<a, b>>) = 2
      /\ \A i \in 1 .. 2 : (<<a>> \o <<b>>)[i] = <<a, b>>[i]
  OBVIOUS
<1> QED
  BY <1>1, <1>2, SeqEqual

LEMMA Triple ==
  ASSUME NEW a, NEW b, NEW c
  PROVE  <<a, b>> \o <<c>> = <<a, b, c>>
<1> DEFINE S == {a, b, c}
<1>1. <<a, b>> \in Seq(S) /\ <<c>> \in Seq(S) /\ <<a, b, c>> \in Seq(S)
  OBVIOUS
<1>2. /\ <<a, b>> \o <<c>> \in Seq(S)
      /\ Len(<<a, b>> \o <<c>>) = 3 /\ Len(<<a, b, c>>) = 3
      /\ \A i \in 1 .. 3 : (<<a, b>> \o <<c>>)[i] = <<a, b, c>>[i]
  OBVIOUS
<1> QED
  BY <1>1, <1>2, SeqEqual

\* The file of a torrent below one directory, or none.
LEMMA ShortPath ==
  ASSUME NEW a, NEW b
  PROVE  <<a>> \o <<>> \o <<b>> = <<a, b>>
<1>1. <<a>> \o <<>> = <<a>>
  OBVIOUS
<1>2. <<a>> \o <<b>> = <<a, b>>
  BY Pair
<1> QED
  BY <1>1, <1>2, Zenon

LEMMA LongPath ==
  ASSUME NEW a, NEW d, NEW b
  PROVE  <<a>> \o <<d>> \o <<b>> = <<a, d, b>>
<1>1. <<a>> \o <<d>> = <<a, d>>
  BY Pair
<1>2. <<a, d>> \o <<b>> = <<a, d, b>>
  BY Triple
<1> QED
  BY <1>1, <1>2, Zenon

LEMMA DeepPath ==
  ASSUME NEW a, NEW c, NEW d, NEW b
  PROVE  (<<a>> \o <<c, d>> \o <<b>>)[1] = a
<1> DEFINE S == {a, b, c, d}
<1>1. <<a>> \in Seq(S) /\ <<c, d>> \in Seq(S) /\ <<b>> \in Seq(S)
  OBVIOUS
<1>2. /\ <<a>> \o <<c, d>> \in Seq(S) /\ Len(<<a>> \o <<c, d>>) = 3
      /\ (<<a>> \o <<c, d>>)[1] = a
  OBVIOUS
<1> HIDE DEF S
<1> QED
  BY <1>1, <1>2, ConcatProperties

\* Every driver but libtorrent stages where its engine looks: the directory is
\* one of three, and the data directory and the file name can be read off.
LEMMA DirsFact ==
  ASSUME NEW k \in EngineKinds
  PROVE  /\ SeedDir(k) \in {<<>>, <<"swarm">>, <<"data">>}
         /\ k # "libtorrent" => LookDir(k) = SeedDir(k)
         /\ k = "libtorrent" => LookDir(k) = <<"downloads", "swarm">>
<1> USE DEF SeedDir, LookDir, SaveDir, Mounted, ContainerDir, EngineKinds, HostKinds,
       ContainerKinds
<1>1. CASE k \in {"typhon", "rain"}
  BY <1>1
<1>2. CASE k = "rqbit"
  <2>1. ContainerDir(k, SaveDir) = <<"data", "swarm">>
    BY <1>2, Pair
  <2>2. Tail(<<"data", "swarm">>) = <<"swarm">> /\ <<>> \o <<"swarm">> = <<"swarm">>
    OBVIOUS
  <2> QED
    BY <1>2, <2>1, <2>2
<1>3. CASE k = "transmission"
  <2>1. ContainerDir(k, SaveDir) = <<"downloads", "swarm">>
    BY <1>3, Pair
  <2>2. Tail(<<"downloads", "swarm">>) = <<"swarm">> /\ <<>> \o <<"swarm">> = <<"swarm">>
    OBVIOUS
  <2> QED
    BY <1>3, <2>1, <2>2
<1>4. CASE k = "libtorrent"
  <2>1. Head(<<"swarm">>) # "downloads"
    OBVIOUS
  <2>2. ContainerDir(k, SaveDir) = <<"downloads", "swarm">>
    BY <1>4, <2>1, Pair
  <2>3. Tail(<<"downloads", "swarm">>) = <<"swarm">>
    OBVIOUS
  <2>4. <<"downloads">> \o <<"swarm">> = <<"downloads", "swarm">>
    BY Pair
  <2> QED
    BY <1>4, <2>2, <2>3, <2>4
<1>5. CASE k = "rtorrent"
  <2>1. Tail(<<"rtorrent", "data">>) = <<"data">> /\ <<>> \o <<"data">> = <<"data">>
    OBVIOUS
  <2> QED
    BY <1>5, <2>1
<1> QED
  BY <1>1, <1>2, <1>3, <1>4, <1>5

LEMMA InstanceFact ==
  ASSUME drivers \in Seq(Instances), NEW n \in 1 .. Len(drivers)
  PROVE  drivers[n].kind \in EngineKinds /\ drivers[n].seeder = TRUE /\ drivers[n].off \in Nat
<1>1. drivers[n] \in Instances
  OBVIOUS
<1> QED
  BY <1>1 DEF Instances

LEMMA PathFact ==
  ASSUME Building, NEW n \in 1 .. Len(drivers), NEW t \in 1 .. Len(swarm)
  PROVE  /\ SeedPath(n, t) \in {<<drivers[n].name, swarm[t].base>>,
                                <<drivers[n].name, "swarm", swarm[t].base>>,
                                <<drivers[n].name, "data", swarm[t].base>>}
         /\ drivers[n].kind # "libtorrent" => LookPath(n, t) = SeedPath(n, t)
         /\ SeedPath(n, t)[1] = drivers[n].name /\ LookPath(n, t)[1] = drivers[n].name
<1> DEFINE k == drivers[n].kind
           a == drivers[n].name
           b == swarm[t].base
<1>1. k \in EngineKinds
  BY InstanceFact DEF Building
<1>2. /\ SeedPath(n, t) = <<a>> \o SeedDir(k) \o <<b>>
      /\ LookPath(n, t) = <<a>> \o LookDir(k) \o <<b>>
  BY DEF SeedPath, LookPath, DataDir
<1>3. SeedPath(n, t) \in {<<a, b>>, <<a, "swarm", b>>, <<a, "data", b>>}
  <2>1. SeedDir(k) \in {<<>>, <<"swarm">>, <<"data">>}
    BY <1>1, DirsFact
  <2>2. CASE SeedDir(k) = <<>>
    BY <1>2, <2>2, ShortPath
  <2>3. CASE SeedDir(k) = <<"swarm">>
    BY <1>2, <2>3, LongPath
  <2>4. CASE SeedDir(k) = <<"data">>
    BY <1>2, <2>4, LongPath
  <2> QED
    BY <2>1, <2>2, <2>3, <2>4
<1>4. k # "libtorrent" => LookPath(n, t) = SeedPath(n, t)
  BY <1>1, <1>2, DirsFact
<1>5. SeedPath(n, t)[1] = a
  BY <1>3
<1>6. LookPath(n, t)[1] = a
  <2>1. CASE k # "libtorrent"
    BY <1>4, <1>5, <2>1
  <2>2. CASE k = "libtorrent"
    <3>1. LookPath(n, t) = <<a>> \o <<"downloads", "swarm">> \o <<b>>
      BY <1>1, <1>2, <2>2, DirsFact
    <3> QED
      BY <3>1, DeepPath
  <2> QED
    BY <2>1, <2>2
<1> QED
  BY <1>3, <1>4, <1>5, <1>6

\* Two torrents whose payloads are staged in one place have one file name.
LEMMA SamePlace ==
  ASSUME Building, NEW n \in 1 .. Len(drivers), NEW t \in 1 .. Len(swarm),
         NEW m \in 1 .. Len(drivers), NEW u \in 1 .. Len(swarm),
         SeedPath(n, t) = SeedPath(m, u)
  PROVE  swarm[t].base = swarm[u].base
<1> DEFINE Paths(a, b) == {<<a, b>>, <<a, "swarm", b>>, <<a, "data", b>>}
<1>1. ASSUME NEW a, NEW b, NEW c, NEW d, NEW p \in Paths(a, b), p \in Paths(c, d)
      PROVE  b = d
  <2>1. /\ (p = <<a, b>> /\ Len(p) = 2 /\ p[2] = b) \/ (Len(p) = 3 /\ p[3] = b)
        /\ (p = <<c, d>> /\ Len(p) = 2 /\ p[2] = d) \/ (Len(p) = 3 /\ p[3] = d)
    BY <1>1
  <2> QED
    BY <2>1
<1>2. /\ SeedPath(n, t) \in Paths(drivers[n].name, swarm[t].base)
      /\ SeedPath(m, u) \in Paths(drivers[m].name, swarm[u].base)
  BY PathFact
<1> HIDE DEF Paths
<1> QED
  BY <1>1, <1>2

\* Paths, seeders and names are those of the drivers and the scenario.
LEMMA PlacesStand ==
  ASSUME UNCHANGED <<drivers, swarm>>
  PROVE  /\ \A n, t : /\ SeedPath(n, t)' = SeedPath(n, t) /\ LookPath(n, t)' = LookPath(n, t)
                      /\ IsSeeder(n, t)' <=> IsSeeder(n, t)
         /\ \A t : NameShared(t)' <=> NameShared(t)
BY DEF SeedPath, LookPath, DataDir, IsSeeder, NameShared

-----------------------------------------------------------------------------
(* Building the drivers                                                    *)

LEMMA SwarmFact ==
  ASSUME Building
  PROVE  /\ Len(swarm) \in Nat
         /\ \A t \in 1 .. Len(swarm) :
               swarm[t].verify \in BOOLEAN /\ swarm[t].payload # "truncated"
BY ConstantsAssumption DEF Building

LEMMA DriverFact ==
  ASSUME NEW token \in Tokens, NEW n \in Nat
  PROVE  /\ Driver(token, n) \in Instances
         /\ Driver(token, n).kind \in EngineKinds /\ Driver(token, n).off <= n * 100
<1>1. token.kind \in EngineKinds /\ token.count \in Nat
  BY DEF Tokens
<1>2. CASE token.count > 1
  <2>1. Driver(token, n) =
           [kind |-> token.kind, name |-> <<token.kind, n>>, seeder |-> TRUE, off |-> n * 100]
    BY <1>2 DEF Driver, Wrap
  <2>2. <<token.kind, n>> \in Seq(EngineKinds \cup Nat) /\ n * 100 \in Nat
    BY <1>1
  <2> QED
    BY <1>1, <2>1, <2>2 DEF Instances
<1>3. CASE ~(token.count > 1)
  <2>1. Driver(token, n) =
           [kind |-> token.kind, name |-> <<token.kind>>, seeder |-> TRUE, off |-> 0]
    BY <1>3 DEF Driver
  <2>2. <<token.kind>> \in Seq(EngineKinds \cup Nat)
    BY <1>1
  <2> QED
    BY <1>1, <2>1, <2>2 DEF Instances
<1> QED
  BY <1>2, <1>3

LEMMA BuildStep ==
  ASSUME IInv, BuildDriver
  PROVE  IInv'
<1>0. /\ phase = "build" /\ tokens # <<>>
      /\ drivers' = Append(drivers, Driver(Head(tokens), inst))
      /\ UNCHANGED <<swarm, used, phase, cur, tor, staged, disk, added>>
  BY DEF BuildDriver
<1>1. /\ tokens \in Seq(Tokens) /\ drivers \in Seq(Instances) /\ inst \in Nat
      /\ inst < Head(tokens).count /\ inst <= Len(drivers) /\ cur = 0 /\ added = {}
      /\ \A i \in 1 .. Len(drivers) : drivers[i].off <= (i - 1) * 100
  BY <1>0 DEF IInv, TypeOK, Building
<1>2. PICK d : d = Driver(Head(tokens), inst)
  OBVIOUS
<1>3. Head(tokens) \in Tokens /\ Tail(tokens) \in Seq(Tokens)
  BY <1>0, <1>1
<1>4. d \in Instances /\ d.kind \in EngineKinds /\ d.off <= inst * 100 /\ d.off \in Nat
  BY <1>1, <1>2, <1>3, DriverFact DEF Instances
<1>5. /\ drivers' \in Seq(Instances) /\ Len(drivers') = Len(drivers) + 1 /\ Len(drivers) \in Nat
      /\ \A i \in 1 .. Len(drivers) : drivers'[i] = drivers[i]
      /\ drivers'[Len(drivers) + 1] = d
  BY <1>0, <1>1, <1>2, <1>4
<1>6. /\ tokens' \in Seq(Tokens) /\ inst' \in Nat /\ inst' <= Len(drivers')
      /\ tokens' # <<>> => inst' < Head(tokens').count
  <2>1. CASE inst + 1 < Head(tokens).count
    BY <1>1, <1>5, <2>1 DEF BuildDriver
  <2>2. CASE ~(inst + 1 < Head(tokens).count)
    <3>1. inst' = 0 /\ tokens' = Tail(tokens)
      BY <2>2 DEF BuildDriver
    <3>2. tokens' # <<>> => Head(tokens') \in Tokens
      BY <1>3, <3>1
    <3>3. \A token \in Tokens : token.count \in Nat /\ 0 < token.count
      BY DEF Tokens
    <3>4. tokens' # <<>> => 0 < Head(tokens').count
      BY <3>2, <3>3
    <3> QED
      BY <1>3, <1>5, <3>1, <3>4
  <2> QED
    BY <2>1, <2>2
<1>7. \A i \in 1 .. Len(drivers') :
         drivers'[i].kind \in EngineKinds /\ drivers'[i].off <= (i - 1) * 100
  <2> SUFFICES ASSUME NEW i \in 1 .. Len(drivers')
               PROVE  drivers'[i].kind \in EngineKinds /\ drivers'[i].off <= (i - 1) * 100
    OBVIOUS
  <2>1. CASE i \in 1 .. Len(drivers)
    BY <1>1, <1>5, <2>1, InstanceFact
  <2>2. CASE i = Len(drivers) + 1
    BY <1>1, <1>4, <1>5, <2>2
  <2> QED
    BY <1>5, <2>1, <2>2
<1>8. TypeOK'
  BY <1>0, <1>1, <1>5, <1>6, <1>7 DEF IInv, TypeOK
<1>9. Building'
  BY <1>0, <1>1, <1>5, <1>6, <1>7 DEF IInv, Building
<1>10. Files'
  <2> SUFFICES ASSUME NEW p \in DOMAIN disk
               PROVE  Origin(p)'
    BY <1>0 DEF Files
  <2>1. Origin(p)
    BY DEF IInv, Files
  <2>2. ASSUME NEW n \in 1 .. Len(drivers), NEW t \in 1 .. Len(swarm)
        PROVE  /\ n \in 1 .. Len(drivers')
               /\ SeedPath(n, t)' = SeedPath(n, t) /\ IsSeeder(n, t)' <=> IsSeeder(n, t)
    BY <1>0, <1>5, <2>2 DEF SeedPath, DataDir, IsSeeder
  <2> QED
    BY <1>0, <2>1, <2>2 DEF Origin
<1>11. Staged'
  BY <1>0, <1>1 DEF Staged, Given
<1> QED
  BY <1>8, <1>9, <1>10, <1>11 DEF IInv

-----------------------------------------------------------------------------
(* The steps of the run                                                    *)

LEMMA BuildingStands ==
  ASSUME Building, UNCHANGED buildVars, phase # "build", phase' # "build",
         phase' = "start" => added' = {},
         phase' = "add" => tor' <= Len(swarm)
  PROVE  Building'
BY DEF Building, buildVars

LEMMA FilesStand ==
  ASSUME Files, UNCHANGED buildVars, UNCHANGED disk
  PROVE  Files'
<1> SUFFICES ASSUME NEW p \in DOMAIN disk
             PROVE  Origin(p)'
  BY DEF Files
<1>1. Origin(p)
  BY DEF Files
<1> QED
  BY <1>1, PlacesStand DEF Origin, buildVars

\* No driver gets a torrent that it seeds and for which nothing was staged.
LEMMA StagedStands ==
  ASSUME Staged, UNCHANGED buildVars, UNCHANGED disk, phase # "failed",
         \A n \in 1 .. Len(drivers), t \in 1 .. Len(swarm) :
            Given(n, t)' /\ IsSeeder(n, t) => Given(n, t)
  PROVE  Staged'
<1> SUFFICES ASSUME NEW n \in 1 .. Len(drivers), NEW t \in 1 .. Len(swarm),
                    Given(n, t)', IsSeeder(n, t)', drivers[n].kind # "libtorrent",
                    NameShared(t)' <=> FALSE
             PROVE  Holds(n, t)'
  BY DEF Staged, buildVars
<1>1. IsSeeder(n, t) /\ ~NameShared(t) /\ LookPath(n, t)' = LookPath(n, t)
  BY PlacesStand DEF buildVars
<1>2. Holds(n, t)
  BY <1>1 DEF Staged
<1> QED
  BY <1>1, <1>2 DEF Holds, buildVars

\* Staging leaves the other files alone.
LEMMA WriteEffect ==
  ASSUME NEW path, NEW payload, Write(path, payload)
  PROVE  /\ DOMAIN disk' = DOMAIN disk \cup {path}
         /\ disk'[path] = payload
         /\ \A p \in DOMAIN disk : p # path => disk'[p] = disk[p]
BY DEF Write

LEMMA StartStep ==
  ASSUME IInv, StartDriver
  PROVE  IInv'
<1>0. /\ phase = "start" /\ cur < Len(drivers) /\ cur' = cur + 1
      /\ disk' = [p \in DOMAIN disk \cup LeftOver(cur + 1) |->
                    IF p \in DOMAIN disk THEN disk[p] ELSE OldPayload(cur + 1, p)]
      /\ UNCHANGED <<buildVars, phase, tor, staged, added>>
  BY DEF StartDriver
<1>1. added = {} /\ Len(drivers) \in Nat /\ cur \in 0 .. Len(drivers)
  BY <1>0 DEF IInv, TypeOK, Building
<1>2. PICK c : c = cur + 1
  OBVIOUS
<1>3. TypeOK'
  BY <1>0, <1>1 DEF IInv, TypeOK, buildVars
<1>4. Building'
  BY <1>0, <1>1, BuildingStands DEF IInv
<1>5. Files'
  <2> SUFFICES ASSUME NEW p \in DOMAIN disk'
               PROVE  Origin(p)'
    BY DEF Files
  <2>1. CASE p \in DOMAIN disk
    <3>1. Origin(p) /\ disk'[p] = disk[p]
      BY <1>0, <2>1 DEF IInv, Files
    <3> QED
      BY <1>0, <3>1, PlacesStand DEF Origin, buildVars
  <2>2. CASE p \notin DOMAIN disk
    <3>1. p \in LeftOver(c) /\ disk'[p] = OldPayload(c, p)
      BY <1>0, <1>2, <2>2
    <3>2. used /\ \E t \in 1 .. Len(swarm) : swarm[t].given /\ LookPath(c, t) = p
      BY <3>1 DEF LeftOver
    <3>3. PICK t \in 1 .. Len(swarm) : swarm[t].given /\ disk'[p] = swarm[t].payload
      BY <3>1, <3>2 DEF OldPayload
    <3> QED
      BY <1>0, <3>2, <3>3 DEF Origin, buildVars
  <2> QED
    BY <2>1, <2>2
<1>6. Staged'
  BY <1>0, <1>1 DEF Staged, Given
<1> QED
  BY <1>3, <1>4, <1>5, <1>6 DEF IInv

LEMMA StageStep ==
  ASSUME IInv, Stage
  PROVE  IInv'
<1>0. /\ phase = "stage" /\ tor <= Len(swarm) /\ IsSeeder(cur, tor)
      /\ Write(SeedPath(cur, tor), swarm[tor].payload)
      /\ phase' = "add" /\ staged' = TRUE
      /\ UNCHANGED <<buildVars, cur, tor, added>>
  BY DEF Stage
<1>1. Len(swarm) \in Nat
  BY SwarmFact DEF IInv
<1>2. PICK c \in 1 .. Len(drivers) : c = cur
  BY <1>0 DEF IInv, TypeOK
<1>3. PICK u \in 1 .. Len(swarm) : u = tor
  BY <1>0, <1>1 DEF IInv, TypeOK
<1>4. PICK q : q = SeedPath(c, u)
  OBVIOUS
<1>5. /\ DOMAIN disk' = DOMAIN disk \cup {q} /\ disk'[q] = swarm[u].payload
      /\ \A p \in DOMAIN disk : p # q => disk'[p] = disk[p]
  BY <1>0, <1>2, <1>3, <1>4, WriteEffect
<1>6. TypeOK'
  BY <1>0 DEF IInv, TypeOK, buildVars
<1>7. Building'
  BY <1>0, BuildingStands DEF IInv
<1>8. Files'
  <2> SUFFICES ASSUME NEW p \in DOMAIN disk'
               PROVE  Origin(p)'
    BY DEF Files
  <2>1. CASE p = q
    <3>1. IsSeeder(c, u)' /\ p = SeedPath(c, u)' /\ disk'[p] = swarm'[u].payload
      BY <1>0, <1>2, <1>3, <1>4, <1>5, <2>1, PlacesStand DEF buildVars
    <3> QED
      BY <1>0, <3>1 DEF Origin, buildVars
  <2>2. CASE p # q
    <3>1. Origin(p) /\ disk'[p] = disk[p]
      BY <1>5, <2>2 DEF IInv, Files
    <3> QED
      BY <1>0, <3>1, PlacesStand DEF Origin, buildVars
  <2> QED
    BY <2>1, <2>2
<1>9. Staged'
  <2> SUFFICES ASSUME NEW n \in 1 .. Len(drivers), NEW t \in 1 .. Len(swarm),
                      Given(n, t)', IsSeeder(n, t), drivers[n].kind # "libtorrent",
                      ~NameShared(t)
               PROVE  /\ LookPath(n, t) \in DOMAIN disk'
                      /\ disk'[LookPath(n, t)] = swarm[t].payload
    BY <1>0, PlacesStand DEF Staged, Holds, buildVars
  <2>1. LookPath(n, t) = SeedPath(n, t)
    BY PathFact DEF IInv
  <2>2. CASE LookPath(n, t) = q
    <3>0. Building /\ SeedPath(n, t) = SeedPath(c, u)
      BY <1>4, <2>1, <2>2 DEF IInv
    <3>1. swarm[t].base = swarm[u].base
      BY <1>2, <1>3, <3>0, SamePlace
    <3>2. t = u
      BY <3>1 DEF NameShared
    <3> QED
      BY <1>5, <2>2, <3>2
  <2>3. CASE LookPath(n, t) # q
    <3>1. ~(n = c /\ t = u)
      BY <1>4, <2>1, <2>3
    <3>2. Given(n, t)
      BY <1>0, <1>2, <1>3, <3>1 DEF Given
    <3>3. Holds(n, t)
      BY <1>0, <3>2 DEF IInv, Staged
    <3> QED
      BY <1>5, <2>3, <3>3 DEF Holds
  <2> QED
    BY <2>2, <2>3
<1> QED
  BY <1>6, <1>7, <1>8, <1>9 DEF IInv

LEMMA StageFailsStep ==
  ASSUME IInv, StageFails
  PROVE  IInv'
<1>0. /\ phase = "stage" /\ phase' = "failed"
      /\ Write(SeedPath(cur, tor), "truncated")
      /\ UNCHANGED <<buildVars, cur, tor, staged, added>>
  BY DEF StageFails
<1>1. PICK q : q = SeedPath(cur, tor)
  OBVIOUS
<1>2. /\ DOMAIN disk' = DOMAIN disk \cup {q} /\ disk'[q] = "truncated"
      /\ \A p \in DOMAIN disk : p # q => disk'[p] = disk[p]
  BY <1>0, <1>1, WriteEffect
<1>3. TypeOK'
  BY <1>0 DEF IInv, TypeOK, buildVars
<1>4. Building'
  BY <1>0, BuildingStands DEF IInv
<1>5. Files'
  <2> SUFFICES ASSUME NEW p \in DOMAIN disk'
               PROVE  Origin(p)'
    BY DEF Files
  <2>1. CASE p = q
    BY <1>2, <2>1 DEF Origin
  <2>2. CASE p # q
    <3>1. Origin(p) /\ disk'[p] = disk[p]
      BY <1>2, <2>2 DEF IInv, Files
    <3> QED
      BY <1>0, <3>1, PlacesStand DEF Origin, buildVars
  <2> QED
    BY <2>1, <2>2
<1>6. Staged'
  BY <1>0 DEF Staged
<1> QED
  BY <1>3, <1>4, <1>5, <1>6 DEF IInv

LEMMA AddStep ==
  ASSUME IInv, SkipStaging \/ AddTorrent
  PROVE  IInv'
<1>0. /\ phase \in {"stage", "add"} /\ phase' \in {"stage", "add"}
      /\ UNCHANGED <<buildVars, cur, disk>>
  BY DEF SkipStaging, AddTorrent
<1>1. /\ Len(swarm) \in Nat /\ tor \in 1 .. Len(swarm) + 1 /\ cur \in 1 .. Len(drivers)
      /\ staged \in BOOLEAN
      /\ added \subseteq [driver : 1 .. Len(drivers), torrent : 1 .. Len(swarm), seed : BOOLEAN]
  BY <1>0, SwarmFact DEF IInv, TypeOK
<1>2. CASE SkipStaging
  <2>1. /\ phase = "stage" /\ phase' = "add" /\ tor <= Len(swarm) /\ ~IsSeeder(cur, tor)
        /\ staged' = FALSE /\ UNCHANGED <<tor, added>>
    BY <1>2 DEF SkipStaging
  <2>2. TypeOK'
    BY <1>0, <2>1 DEF IInv, TypeOK, buildVars
  <2>3. Building'
    BY <1>0, <2>1, BuildingStands DEF IInv
  <2>4. Files'
    BY <1>0, FilesStand DEF IInv
  <2>5. Staged'
    BY <1>0, <2>1, StagedStands DEF IInv, Given
  <2> QED
    BY <2>2, <2>3, <2>4, <2>5 DEF IInv
<1>3. CASE AddTorrent
  <2>1. /\ phase = "add" /\ phase' = "stage" /\ tor' = tor + 1 /\ staged' = staged
        /\ tor <= Len(swarm)
    BY <1>3 DEF AddTorrent, IInv, Building
  <2>2. PICK s : s = (staged /\ ~swarm[tor].verify)
    OBVIOUS
  <2>3. s \in BOOLEAN
    BY <1>1, <2>2, Zenon
  <2>4. added' = added \cup {[driver |-> cur, torrent |-> tor, seed |-> s]}
    BY <1>3, <2>2 DEF AddTorrent
  <2>5. added' \subseteq
           [driver : 1 .. Len(drivers), torrent : 1 .. Len(swarm), seed : BOOLEAN]
    BY <1>1, <2>1, <2>3, <2>4
  <2>6. tor' \in 1 .. Len(swarm) + 1
    BY <1>1, <2>1
  <2>7. TypeOK'
    BY <1>0, <1>1, <2>1, <2>5, <2>6 DEF IInv, TypeOK, buildVars
  <2>8. Building'
    BY <1>0, <2>1, BuildingStands DEF IInv
  <2>9. Files'
    BY <1>0, FilesStand DEF IInv
  <2>10. \A n, t : Given(n, t)' => Given(n, t)
    BY <2>1, <2>4 DEF Given
  <2>11. Staged'
    BY <1>0, <2>10, StagedStands DEF IInv
  <2> QED
    BY <2>7, <2>8, <2>9, <2>11 DEF IInv
<1> QED
  BY <1>2, <1>3

\* The steps that only move on.
LEMMA OtherStep ==
  ASSUME IInv, Built \/ AllStarted \/ NextDriver \/ UNCHANGED vars
  PROVE  IInv'
<1>0. /\ UNCHANGED <<buildVars, staged, disk, added>>
      /\ Len(swarm) \in Nat /\ Len(drivers) \in Nat
  BY SwarmFact DEF IInv, Building, Built, AllStarted, NextDriver, vars, buildVars
<1>1. Files'
  BY <1>0, FilesStand DEF IInv
<1>2. CASE Built
  <2>1. phase = "build" /\ phase' = "start" /\ tokens = <<>> /\ UNCHANGED <<cur, tor>>
    BY <1>2 DEF Built
  <2>2. TypeOK' /\ Building'
    BY <1>0, <2>1 DEF IInv, TypeOK, Building, buildVars
  <2>3. Staged'
    BY <1>0, <2>1, StagedStands DEF IInv, Given
  <2> QED
    BY <1>1, <2>2, <2>3 DEF IInv
<1>3. CASE AllStarted
  <2>1. phase = "start" /\ phase' = "stage" /\ cur' = 1 /\ tor' = tor
    BY <1>3 DEF AllStarted
  <2>2. drivers # <<>>
    BY <2>1 DEF IInv, Building
  <2>3. 1 \in 1 .. Len(drivers) /\ 1 \in 0 .. Len(drivers)
    <3>1. Len(drivers) # 0
      BY <2>2 DEF IInv, Building
    <3> QED
      BY <1>0, <3>1
  <2>4. TypeOK'
    BY <1>0, <2>1, <2>3 DEF IInv, TypeOK, buildVars
  <2>5. Building'
    BY <1>0, <2>1, BuildingStands DEF IInv
  <2>6. Staged'
    BY <1>0, <2>1, StagedStands DEF IInv, Given
  <2> QED
    BY <1>1, <2>4, <2>5, <2>6 DEF IInv
<1>4. CASE NextDriver
  <2>1. /\ phase = "stage"
        /\ \/ cur < Len(drivers) /\ cur' = cur + 1 /\ tor' = 1 /\ phase' = phase
           \/ phase' = "sampling" /\ UNCHANGED <<cur, tor>>
    BY <1>4 DEF NextDriver
  <2>2. /\ cur' \in 0 .. Len(drivers) /\ cur' \in 1 .. Len(drivers)
        /\ tor' \in 1 .. Len(swarm) + 1
    BY <1>0, <2>1 DEF IInv, TypeOK
  <2>4. TypeOK'
    BY <1>0, <2>1, <2>2 DEF IInv, TypeOK, buildVars
  <2>5. Building'
    BY <1>0, <2>1, BuildingStands DEF IInv
  <2>6. Staged'
    BY <1>0, <2>1, StagedStands DEF IInv, Given
  <2> QED
    BY <1>1, <2>4, <2>5, <2>6 DEF IInv
<1>5. CASE UNCHANGED vars
  <2>1. TypeOK' /\ Building'
    BY <1>5 DEF IInv, TypeOK, Building, vars
  <2>2. Staged'
    <3>1. CASE phase = "failed"
      BY <1>5, <3>1 DEF Staged, vars
    <3>2. CASE phase # "failed"
      <4>1. \A n, t : Given(n, t)' => Given(n, t)
        BY <1>5 DEF Given, vars
      <4> QED
        BY <1>0, <3>2, <4>1, StagedStands DEF IInv
    <3> QED
      BY <3>1, <3>2
  <2> QED
    BY <1>1, <2>1, <2>2 DEF IInv
<1> QED
  BY <1>2, <1>3, <1>4, <1>5

-----------------------------------------------------------------------------
(* The theorems                                                            *)

LEMMA InitIInv == Init => IInv
<1> SUFFICES ASSUME Init
             PROVE  IInv
  OBVIOUS
<1>1. /\ tokens \in Seq(Tokens) /\ tokens # <<>> /\ swarm \in Swarms
      /\ drivers = <<>> /\ Len(drivers) = 0 /\ inst = 0
  BY ConstantsAssumption DEF Init
<1>2. Len(swarm) \in Nat
  BY <1>1, ConstantsAssumption
<1>3. Head(tokens) \in Tokens /\ inst < Head(tokens).count
  <2>1. Head(tokens) \in Tokens
    BY <1>1
  <2> QED
    BY <1>1, <2>1 DEF Tokens
<1>4. drivers \in Seq(Instances)
  BY <1>1
<1>5. TypeOK
  <2>1. /\ used \in BOOLEAN /\ phase = "build" /\ cur = 0 /\ tor = 1 /\ staged = FALSE
        /\ added = {}
    BY DEF Init
  <2>2. /\ 0 \in 0 .. Len(drivers) /\ 1 \in 1 .. Len(swarm) + 1 /\ 0 \in Nat
        /\ \A i \in 1 .. Len(drivers) : drivers[i].kind \in EngineKinds
    BY <1>1, <1>2
  <2> QED
    BY <1>1, <1>3, <2>1, <2>2 DEF TypeOK
<1>6. Building
  BY <1>1, <1>4 DEF Init, Building
<1>7. Files
  BY DEF Init, Files
<1>8. Staged
  BY <1>1 DEF Staged
<1> QED
  BY <1>5, <1>6, <1>7, <1>8 DEF IInv

LEMMA Invariant == Spec => []IInv
<1>1. IInv /\ [Next]_vars => IInv'
  BY BuildStep, StartStep, StageStep, StageFailsStep, AddStep, OtherStep DEF Next, Over
<1> QED
  BY <1>1, InitIInv, PTL DEF Spec

\* The variables keep their types: no driver or torrent is looked up past the end
\* of its list (buildDrivers in main.go, phases 1 and 2 of runner.Run).
THEOREM TypeCorrect == Spec => []TypeOK
<1>1. IInv => TypeOK
  BY DEF IInv
<1> QED
  BY <1>1, Invariant, PTL

\* A seeder has its payload where its engine looks for it, libtorrent and
\* payloads of one name apart, and no later staging replaces it (runner.go,
\* phase 2; SeedPath and AddTorrent of engine/*.go).
THEOREM OtherSeedersHoldAlways == Spec => []OtherSeedersHold
<1>1. IInv => OtherSeedersHold
  <2> SUFFICES ASSUME IInv, NEW a \in added,
                      drivers[a.driver].name \in swarm[a.torrent].seeders,
                      drivers[a.driver].kind # "libtorrent", ~NameShared(a.torrent),
                      phase # "failed"
               PROVE  Holds(a.driver, a.torrent)
    BY DEF OtherSeedersHold
  <2>1. a.driver \in 1 .. Len(drivers) /\ a.torrent \in 1 .. Len(swarm)
    BY DEF IInv, TypeOK
  <2>2. drivers[a.driver].seeder = TRUE
    BY <2>1, InstanceFact DEF IInv, Building
  <2>3. Given(a.driver, a.torrent) /\ IsSeeder(a.driver, a.torrent)
    BY <2>2 DEF Given, IsSeeder
  <2> QED
    BY <2>1, <2>3 DEF IInv, Staged
<1> QED
  BY <1>1, Invariant, PTL

\* What a leecher finds where its engine looks is not the payload it is to
\* download, a reused payload_path apart (runner.go, isSeeder and phase 2).
THEOREM LeechersEmptyAlways == Spec => []LeechersEmpty
<1>1. IInv => LeechersEmpty
  <2> SUFFICES ASSUME IInv, NEW a \in added,
                      drivers[a.driver].name \notin swarm[a.torrent].seeders,
                      Holds(a.driver, a.torrent), ~PayloadShared(a.torrent)
               PROVE  used /\ swarm[a.torrent].given
    BY DEF LeechersEmpty
  <2>0. PICK d \in 1 .. Len(drivers), t \in 1 .. Len(swarm) : d = a.driver /\ t = a.torrent
    BY DEF IInv, TypeOK
  <2>1. PICK p : p = LookPath(d, t)
    OBVIOUS
  <2>2. Origin(p) /\ disk[p] = swarm[t].payload
    BY <2>0, <2>1 DEF IInv, Files, Holds
  <2>3. disk[p] # "truncated"
    BY <2>2, SwarmFact DEF IInv
  <2>4. \A u \in 1 .. Len(swarm) : disk[p] = swarm[u].payload => u = t
    BY <2>0, <2>2 DEF PayloadShared
  <2>5. ASSUME NEW n \in 1 .. Len(drivers), IsSeeder(n, t), p = SeedPath(n, t)
        PROVE  FALSE
    <3>0. Building
      BY DEF IInv
    <3>a. SeedPath(n, t)[1] = drivers[n].name /\ LookPath(d, t)[1] = drivers[d].name
      BY <2>0, <2>5, <3>0, PathFact
    <3>1. drivers[n].name = drivers[d].name
      BY <2>1, <2>5, <3>a
    <3> QED
      BY <2>0, <2>5, <3>1 DEF IsSeeder
  <2> QED
    BY <2>0, <2>2, <2>3, <2>4, <2>5 DEF Origin
<1> QED
  BY <1>1, Invariant, PTL

-----------------------------------------------------------------------------
(* Names and ports                                                         *)

\* The data directory tells which instance it is.
LEMMA NameFact ==
  ASSUME NEW d \in Instances
  PROVE  /\ d.name[1] = d.kind
         /\ \/ Len(d.name) = 1 /\ d.off = 0
            \/ Len(d.name) = 2 /\ d.off = d.name[2] * 100
<1>1. CASE d.name = <<d.kind>> /\ d.off = 0
  BY <1>1
<1>2. CASE d.name = <<d.kind, d.name[2]>> /\ d.off = d.name[2] * 100
  <2>1. PICK x : x = d.name[2]
    OBVIOUS
  <2>2. d.name = <<d.kind, x>>
    BY <1>2, <2>1
  <2>3. Len(<<d.kind, x>>) = 2 /\ <<d.kind, x>>[1] = d.kind
    OBVIOUS
  <2> QED
    BY <1>2, <2>2, <2>3
<1> QED
  BY <1>1, <1>2 DEF Instances

LEMMA NamesTell ==
  ASSUME NEW d \in Instances, NEW e \in Instances, <<d.name>> = <<e.name>>
  PROVE  d.kind = e.kind /\ d.off = e.off
<1>1. d.name = e.name
  OBVIOUS
<1> QED
  BY <1>1, NameFact

LEMMA OffFact ==
  ASSUME NEW d \in Instances, NEW n \in 1 .. 20, d.off <= (n - 1) * 100
  PROVE  \E m \in 0 .. 19 : d.off = m * 100
<1>1. CASE d.off = 0
  BY <1>1
<1>2. CASE d.off # 0
  <2>1. PICK m \in Nat : d.off = m * 100
    BY <1>2 DEF Instances
  <2>2. m <= n - 1
    BY <2>1
  <2> QED
    BY <2>1, <2>2
<1> QED
  BY <1>1, <1>2

\* A port is that of the n-th engine for peers, or one of its kind's.
OfKind(k, m, p) ==
    \/ k = "rqbit" /\ (p = 13030 + m * 100 \/ \E e \in 0 .. 5 : p = 14240 + e + m * 100)
    \/ k = "transmission" /\ p = 19091 + m * 100
    \/ k = "libtorrent" /\ p = 18080 + m * 100
    \/ k = "rain" /\ p = 17246 + m * 100
    \/ k = "rtorrent" /\ p = 15000 + m * 100

OfPlace(k, n, p) ==
    /\ 17000 + n - 1 <= p /\ p <= 17000 + n - 1 + 10
    /\ k # "rain" => p = 17000 + n - 1

LEMMA PortFact ==
  ASSUME NEW n \in 1 .. Len(drivers), drivers[n].kind \in EngineKinds, n \in 1 .. 20,
         NEW m \in 0 .. 19, drivers[n].off = m * 100, NEW p \in PortsOf(n)
  PROVE  p \in Int /\ (OfKind(drivers[n].kind, m, p) \/ OfPlace(drivers[n].kind, n, p))
<1> DEFINE k == drivers[n].kind
           off == drivers[n].off
<1>0. off \in Nat /\ n \in Nat
  OBVIOUS
<1>1. p \in RpcPorts(drivers[n]) \/ p \in PeerPorts(drivers[n], n)
  BY DEF PortsOf
<1>2. CASE p \in RpcPorts(drivers[n])
  <2>1. k \in {"typhon", "rain", "rqbit", "transmission", "libtorrent", "rtorrent"}
    BY DEF EngineKinds, HostKinds, ContainerKinds
  <2>2. \/ k = "rqbit" /\ p = 13030 + off
        \/ k = "transmission" /\ p = 19091 + off
        \/ k = "libtorrent" /\ p = 18080 + off
        \/ k = "rain" /\ p = 17246 + off
        \/ k = "rtorrent" /\ p = 15000 + off
    BY <1>2, <2>1 DEF RpcPorts
  <2> QED
    BY <1>0, <2>2 DEF OfKind
<1>3. CASE p \in PeerPorts(drivers[n], n)
  <2>1. CASE k = "rqbit"
    <3>1. p \in (14240 + off) .. (14240 + off + 5)
      BY <1>3, <2>1 DEF PeerPorts
    <3>2. PICK e \in 0 .. 5 : p = 14240 + e + m * 100
      <4>1. p - 14240 - off \in 0 .. 5 /\ p = 14240 + (p - 14240 - off) + m * 100
        BY <1>0, <3>1
      <4> QED
        BY <4>1
    <3> QED
      BY <2>1, <3>2 DEF OfKind
  <2>2. CASE k = "rain"
    <3>1. p \in (17000 + n - 1) .. (17000 + n - 1 + 10)
      BY <1>3, <2>2 DEF PeerPorts, ListenPort
    <3> QED
      BY <1>0, <2>2, <3>1 DEF OfPlace
  <2>3. CASE k \notin {"rqbit", "rain"}
    <3>1. p = 17000 + n - 1
      BY <1>3, <2>3 DEF PeerPorts, ListenPort
    <3> QED
      BY <1>0, <3>1 DEF OfPlace
  <2> QED
    BY <2>1, <2>2, <2>3
<1> QED
  BY <1>1, <1>2, <1>3

\* The ports of a kind are not those of another one, nor those for peers.
LEMMA KindsApart ==
  ASSUME NEW k, NEW l, NEW m \in 0 .. 19, NEW o \in 0 .. 19, NEW p \in Int,
         OfKind(k, m, p), OfKind(l, o, p)
  PROVE  k = l /\ m = o
BY DEF OfKind

LEMMA KindAndPlaceApart ==
  ASSUME NEW k, NEW l, NEW m \in 0 .. 19, NEW n \in 1 .. 20, NEW p \in Int,
         OfKind(k, m, p), OfPlace(l, n, p)
  PROVE  FALSE
BY DEF OfKind, OfPlace

\* Up to twenty engines share no directory and no port, but for tokens of one kind
\* that make the same instance and rain's ten ports (Wrap in main.go, phase 1 of
\* runner.Run).  The 21st rtorrent would ask for 17000.
THEOREM SmallFleetsShareNothing == Spec => [](Len(drivers) <= 20 => NothingShared)
<1>1. IInv => (Len(drivers) <= 20 => NothingShared)
  <2> SUFFICES ASSUME IInv, Len(drivers) <= 20, NEW i \in Up, NEW j \in Up,
                      i < j, ~SameInstance(i, j)
               PROVE  /\ DataDir(i) # DataDir(j)
                      /\ drivers[i].kind # "rain" => PortsOf(i) \cap PortsOf(j) = {}
    BY DEF NothingShared
  <2>1. Len(drivers) \in Nat /\ drivers \in Seq(Instances)
    BY DEF IInv, Building
  <2>2. /\ i \in 1 .. Len(drivers) /\ j \in 1 .. Len(drivers)
        /\ i \in 1 .. 20 /\ j \in 1 .. 20
    BY <2>1 DEF Up, IInv, TypeOK
  <2>3. drivers[i] \in Instances /\ drivers[j] \in Instances
    BY <2>1, <2>2
  <2>4. drivers[i].off <= (i - 1) * 100 /\ drivers[j].off <= (j - 1) * 100
    BY <2>2 DEF IInv, Building
  <2>5. PICK m \in 0 .. 19 : drivers[i].off = m * 100
    BY <2>2, <2>3, <2>4, OffFact
  <2>6. PICK o \in 0 .. 19 : drivers[j].off = o * 100
    BY <2>2, <2>3, <2>4, OffFact
  <2>7. DataDir(i) # DataDir(j)
    BY <2>3, NamesTell DEF DataDir, SameInstance
  <2>8. ASSUME NEW p \in PortsOf(i), p \in PortsOf(j), drivers[i].kind # "rain"
        PROVE  FALSE
    <3>1. drivers[i].kind \in EngineKinds /\ drivers[j].kind \in EngineKinds
      BY <2>1, <2>2, InstanceFact
    <3>2. p \in Int /\ (OfKind(drivers[i].kind, m, p) \/ OfPlace(drivers[i].kind, i, p))
      BY <2>2, <2>5, <2>8, <3>1, PortFact
    <3>3. OfKind(drivers[j].kind, o, p) \/ OfPlace(drivers[j].kind, j, p)
      BY <2>2, <2>6, <2>8, <3>1, PortFact
    <3>4. ~(OfPlace(drivers[i].kind, i, p) /\ OfPlace(drivers[j].kind, j, p))
      BY <2>2, <2>8, <3>2 DEF OfPlace
    <3>5. ~(OfKind(drivers[i].kind, m, p) /\ OfKind(drivers[j].kind, o, p))
      BY <2>5, <2>6, <3>2, KindsApart DEF SameInstance
    <3> QED
      BY <2>2, <2>5, <2>6, <3>2, <3>3, <3>4, <3>5, KindAndPlaceApart
  <2> QED
    BY <2>7, <2>8
<1> QED
  BY <1>1, Invariant, PTL
=============================================================================
