------------------------------- MODULE Fleet -------------------------------
(***************************************************************************)
(* What the engines of a run get from the harness, and from each other:    *)
(* buildDrivers in cmd/bench/main.go turns --engines into drivers, phase 1 *)
(* of runner.Run gives each a data directory and ports, phase 2 stages     *)
(* payloads for the seeders and adds the swarm torrents.  Each driver maps *)
(* directories and ports to its engine in its own way (internal/engine).   *)
(*                                                                         *)
(* A path is a sequence of directory names.  Ports are the real numbers,   *)
(* with the default flags.  Lists that buildDrivers rejects are left out.  *)
(***************************************************************************)
EXTENDS Integers, Sequences

CONSTANTS
    Lists,      \* values of --engines: sequences of [kind, count]
    Swarms      \* sequences of torrents: [payload, base, given, seeders, verify]

HostKinds      == {"typhon", "rain"}
ContainerKinds == {"rqbit", "transmission", "libtorrent", "rtorrent"}
EngineKinds    == HostKinds \cup ContainerKinds

Tokens == [kind : EngineKinds, count : Nat \ {0}]

ASSUME ConstantsAssumption ==
    /\ Lists \subseteq Seq(Tokens) /\ <<>> \notin Lists
    /\ \A sw \in Swarms :
          /\ Len(sw) \in Nat
          /\ \A t \in 1 .. Len(sw) :
                /\ sw[t].verify \in BOOLEAN /\ sw[t].given \in BOOLEAN
                /\ sw[t].payload # "truncated"

VARIABLES
    tokens,     \* what is left of --engines
    inst,       \* the next instance of the first token
    drivers,    \* the drivers, in order
    swarm,      \* the torrents of the scenario; given: payload_path is set
    used,       \* --work-dir names the directory of an earlier run
    phase,      \* "build", "start", "stage", "add", "sampling", "failed"
    cur,        \* drivers that are up; then the driver that gets its torrents
    tor,        \* the torrent it gets
    staged,     \* isSeeder: the payload has been copied for it
    disk,       \* disk[path]: the payload in a file
    added       \* AddTorrent calls: [driver, torrent, seed]

vars == <<tokens, inst, drivers, swarm, used, phase, cur, tor, staged, disk, added>>
buildVars == <<tokens, inst, drivers, swarm, used>>

TypeOK ==
    /\ inst \in Nat /\ used \in BOOLEAN
    /\ tokens # <<>> => inst < Head(tokens).count
    /\ \A i \in 1 .. Len(drivers) : drivers[i].kind \in EngineKinds
    /\ phase \in {"build", "start", "stage", "add", "sampling", "failed"}
    /\ cur \in 0 .. Len(drivers)
    /\ phase \in {"stage", "add"} => cur \in 1 .. Len(drivers)
    /\ tor \in 1 .. Len(swarm) + 1
    /\ staged \in BOOLEAN
    /\ added \subseteq
          [driver : 1 .. Len(drivers), torrent : 1 .. Len(swarm), seed : BOOLEAN]

Init ==
    /\ tokens \in Lists /\ swarm \in Swarms /\ used \in BOOLEAN
    /\ inst = 0 /\ drivers = <<>>
    /\ phase = "build" /\ cur = 0 /\ tor = 1 /\ staged = FALSE
    /\ disk = [p \in {} |-> "none"]
    /\ added = {}

-----------------------------------------------------------------------------
(* Drivers                                                                 *)

\* Mutant: ports of instances next to each other.
WrapNarrow(k, n) == [kind |-> k, name |-> <<k, n>>, seeder |-> TRUE, off |-> n]

\* One of several instances: "typhon-0", and its ports.
Wrap(k, n) == [kind |-> k, name |-> <<k, n>>, seeder |-> TRUE, off |-> n * 100]

\* A single instance keeps its short name.
Driver(token, n) ==
    IF token.count > 1 THEN Wrap(token.kind, n)
    ELSE [kind |-> token.kind, name |-> <<token.kind>>, seeder |-> TRUE, off |-> 0]

BuildDriver ==
    /\ phase = "build" /\ tokens # <<>>
    /\ drivers' = Append(drivers, Driver(Head(tokens), inst))
    /\ IF inst + 1 < Head(tokens).count
         THEN inst' = inst + 1 /\ UNCHANGED tokens
         ELSE inst' = 0 /\ tokens' = Tail(tokens)
    /\ UNCHANGED <<swarm, used, phase, cur, tor, staged, disk, added>>

Built ==
    /\ phase = "build" /\ tokens = <<>>
    /\ phase' = "start"
    /\ UNCHANGED <<buildVars, cur, tor, staged, disk, added>>

\* The ports of the n-th driver: its RPC port, and what its engine listens on
\* for peers.  Runner hands out 17000, 17001, ...; rqbit does not take it.
RpcPorts(d) ==
    CASE d.kind = "typhon"       -> {}
      [] d.kind = "rqbit"        -> {13030 + d.off}
      [] d.kind = "transmission" -> {19091 + d.off}
      [] d.kind = "libtorrent"   -> {18080 + d.off}
      [] d.kind = "rain"         -> {17246 + d.off}
      [] d.kind = "rtorrent"     -> {15000 + d.off}

ListenPort(n) == 17000 + n - 1

PeerPorts(d, n) ==
    CASE d.kind = "rqbit" -> (14240 + d.off) .. (14240 + d.off + 5)
      [] d.kind = "rain"  -> ListenPort(n) .. (ListenPort(n) + 10)
      [] OTHER            -> {ListenPort(n)}

PortsOf(n) == RpcPorts(drivers[n]) \cup PeerPorts(drivers[n], n)

-----------------------------------------------------------------------------
(* Where payloads go, and where engines look for them                      *)

\* Every swarm torrent is saved under "swarm" in the data directory.
SaveDir == <<"swarm">>

DataDir(n) == <<drivers[n].name>>

\* Mutant: transmission's payload goes to the data directory itself.
SeedDirFlat(k) ==
    CASE k \in {"rain", "transmission"} -> <<>>
      [] k = "rtorrent" -> <<"data">>
      [] OTHER          -> SaveDir

\* SeedPath of each driver, below the data directory.
SeedDir(k) ==
    CASE k = "rain"     -> <<>>
      [] k = "rtorrent" -> <<"data">>
      [] OTHER          -> SaveDir

SeedPath(n, t) == DataDir(n) \o SeedDir(drivers[n].kind) \o <<swarm[t].base>>

\* Where the engine is told to look, in the container: AddTorrent for all but
\* rtorrent, whose directory is set in Start.
ContainerDir(k, rel) ==
    CASE k = "rqbit"        -> <<"data">> \o rel
      [] k = "transmission" -> <<"downloads">> \o rel
      [] k = "libtorrent"   -> <<"downloads">> \o
                                 (IF Head(rel) = "downloads" THEN Tail(rel) ELSE rel)
      [] k = "rtorrent"     -> <<"rtorrent", "data">>

\* The directory mounted at the first component of that path.
Mounted(k) == IF k = "libtorrent" THEN <<"downloads">> ELSE <<>>

\* The same place on the host, below the data directory.
LookDir(k) ==
    CASE k = "typhon" -> SaveDir
      [] k = "rain"   -> <<>>
      [] OTHER        -> Mounted(k) \o Tail(ContainerDir(k, SaveDir))

LookPath(n, t) == DataDir(n) \o LookDir(drivers[n].kind) \o <<swarm[t].base>>

-----------------------------------------------------------------------------
(* Phase 1: data directories                                               *)

\* What the earlier run left where the engine looks: the file of a payload_path,
\* staged or downloaded.  A random payload has a name of its own in every run.
LeftOver(n) ==
    {LookPath(n, t) : t \in {u \in 1 .. Len(swarm) : used /\ swarm[u].given}}

OldPayload(n, p) ==
    swarm[CHOOSE t \in 1 .. Len(swarm) : swarm[t].given /\ LookPath(n, t) = p].payload

\* MkdirAll is content with a directory that exists.
StartDriver ==
    /\ phase = "start" /\ cur < Len(drivers)
    /\ cur' = cur + 1
    /\ disk' = [p \in DOMAIN disk \cup LeftOver(cur + 1) |->
                  IF p \in DOMAIN disk THEN disk[p] ELSE OldPayload(cur + 1, p)]
    /\ UNCHANGED <<buildVars, phase, tor, staged, added>>

AllStarted ==
    /\ phase = "start" /\ cur = Len(drivers)
    /\ phase' = "stage" /\ cur' = 1
    /\ UNCHANGED <<buildVars, tor, staged, disk, added>>

-----------------------------------------------------------------------------
(* Phase 2: staging and adding                                             *)

Write(path, payload) ==
    disk' = [p \in DOMAIN disk \cup {path} |-> IF p = path THEN payload ELSE disk[p]]

\* Mutant: whoever seeds one torrent gets the payload of all.
IsSeederOfAny(n, t) ==
    /\ \E u \in 1 .. Len(swarm) : drivers[n].name \in swarm[u].seeders
    /\ drivers[n].seeder

IsSeeder(n, t) == drivers[n].name \in swarm[t].seeders /\ drivers[n].seeder

Stage ==
    /\ phase = "stage" /\ tor <= Len(swarm) /\ IsSeeder(cur, tor)
    /\ Write(SeedPath(cur, tor), swarm[tor].payload)
    /\ phase' = "add" /\ staged' = TRUE
    /\ UNCHANGED <<buildVars, cur, tor, added>>

\* The copy breaks off: Run returns the error.
StageFails ==
    /\ phase = "stage" /\ tor <= Len(swarm) /\ IsSeeder(cur, tor)
    /\ Write(SeedPath(cur, tor), "truncated")
    /\ phase' = "failed"
    /\ UNCHANGED <<buildVars, cur, tor, staged, added>>

SkipStaging ==
    /\ phase = "stage" /\ tor <= Len(swarm) /\ ~IsSeeder(cur, tor)
    /\ phase' = "add" /\ staged' = FALSE
    /\ UNCHANGED <<buildVars, cur, tor, disk, added>>

\* addOneWithSeed, with verify turning the seed flag off.
AddTorrent ==
    /\ phase = "add"
    /\ added' = added \cup
          {[driver |-> cur, torrent |-> tor, seed |-> staged /\ ~swarm[tor].verify]}
    /\ phase' = "stage" /\ tor' = tor + 1
    /\ UNCHANGED <<buildVars, cur, staged, disk>>

\* Mutant: one engine too many.
NextDriverPastEnd ==
    /\ phase = "stage" /\ tor = Len(swarm) + 1
    /\ IF cur <= Len(drivers) THEN cur' = cur + 1 /\ tor' = 1 /\ UNCHANGED phase
                              ELSE phase' = "sampling" /\ UNCHANGED <<cur, tor>>
    /\ UNCHANGED <<buildVars, staged, disk, added>>

NextDriver ==
    /\ phase = "stage" /\ tor = Len(swarm) + 1
    /\ IF cur < Len(drivers) THEN cur' = cur + 1 /\ tor' = 1 /\ UNCHANGED phase
                             ELSE phase' = "sampling" /\ UNCHANGED <<cur, tor>>
    /\ UNCHANGED <<buildVars, staged, disk, added>>

Over == phase \in {"sampling", "failed"} /\ UNCHANGED vars

Next ==
    \/ BuildDriver \/ Built \/ StartDriver \/ AllStarted
    \/ Stage \/ StageFails \/ SkipStaging \/ AddTorrent \/ NextDriver
    \/ Over

Spec == Init /\ [][Next]_vars

-----------------------------------------------------------------------------
(* Properties                                                              *)

Up == IF phase \in {"build", "start"} THEN 1 .. cur ELSE 1 .. Len(drivers)

Holds(n, t) ==
    LookPath(n, t) \in DOMAIN disk /\ disk[LookPath(n, t)] = swarm[t].payload

\* Two tokens of one kind are numbered independently: what they make can have
\* the name or the ports of each other.
SameInstance(i, j) ==
    drivers[i].kind = drivers[j].kind /\ drivers[i].off = drivers[j].off

\* README.md:213-214 "Each engine gets its own data dir", "No two drivers share
\* storage, ports, or peer pools": none do, but for two tokens of one kind that make
\* the same instance, and for the ten ports that rain takes above its own, which
\* are those of the drivers after it.
NothingShared ==
    \A i, j \in Up : i < j /\ ~SameInstance(i, j) =>
        /\ DataDir(i) # DataDir(j)
        /\ drivers[i].kind # "rain" => PortsOf(i) \cap PortsOf(j) = {}

\* scenario.go:90 "Seeders is the list of engine names that start the run already
\* holding a complete copy of the payload": it is where the engine looks, and no
\* later staging puts something else there.
SeedersHold ==
    \A a \in added : drivers[a.driver].name \in swarm[a.torrent].seeders =>
        Holds(a.driver, a.torrent)

\* Two payload_path entries end in the same file name.
NameShared(t) == \E u \in 1 .. Len(swarm) : u # t /\ swarm[u].base = swarm[t].base

\* The same of every engine but libtorrent, and of every torrent whose payload has
\* a name of its own; the copy that breaks off ends the run.
OtherSeedersHold ==
    \A a \in added :
        /\ drivers[a.driver].name \in swarm[a.torrent].seeders
        /\ drivers[a.driver].kind # "libtorrent" /\ ~NameShared(a.torrent)
        /\ phase # "failed"
        => Holds(a.driver, a.torrent)

\* Two torrents are made of the same payload_path.
PayloadShared(t) ==
    \E u \in 1 .. Len(swarm) : u # t /\ swarm[u].payload = swarm[t].payload

\* scenario.go:91 "Engines NOT in this list start empty and have to download": no
\* staging, for whichever torrent or engine, puts their payload where they look,
\* and no earlier run did, unless the directory is reused with a payload_path.
\* A payload that two torrents share says nothing of either.
LeechersEmpty ==
    \A a \in added : drivers[a.driver].name \notin swarm[a.torrent].seeders =>
        \/ ~Holds(a.driver, a.torrent)
        \/ used /\ swarm[a.torrent].given
        \/ PayloadShared(a.torrent)
=============================================================================
