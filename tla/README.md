# Verification of bt-engine-bench

TLA+ models of the benchmark harness `bt-engine-bench`, the TLC configurations
that check them, and TLAPS proofs about them.  Paths below are relative to the
repository (`src/`).

## 1. The system

`bench compare` reads a scenario, starts several BitTorrent engines (child
processes or Docker containers) one after the other, feeds each of them the same
torrents, samples their statistics into a CSV file until the scenario's duration
has elapsed or SIGINT arrives, and tears everything down.

| component | state it keeps | operations | interacts with |
|---|---|---|---|
| `cmd/bench/main.go` | flags, the driver list, the signal context, the CSV writer | `runCompare`, `buildDrivers`, `runGentorrent` | calls `runner.Run`; closes the writer in a `defer`, or dies in `log.Fatalf` |
| `internal/runner` | `live` (the drivers that came up), the tracker, `runCtx`, one sampling goroutine per driver | `Run`, `materialiseSwarm`, `addOneWithSeed`, `copyFile` | calls every driver; starts and stops the tracker; goroutines share the CSV writer |
| `internal/engine` typhon | child process, Unix socket, `pending` map, `idSeq`, `closed`, reader goroutine | `Start`, `call`, `readLoop`, `failPending`, `AddTorrent`, `Stats`, `Stop` | newline-delimited JSON over the socket |
| `internal/engine` rain | child process | `Start`, `waitReady`, `call`, `AddTorrent`, `Stats`, `Stop` | JSON-RPC 2.0 over HTTP |
| `internal/engine` rqbit, qbit, transmission, rtorrent | container name, session id (transmission) | `Start`, `waitReady`, `AddTorrent`, `Stats`, `Stop` | `docker` CLI; HTTP or SCGI |
| `internal/tracker` | swarms: info_hash to peers with their last announce | `handleAnnounce`, `gcLoop`, `Start`, `Stop` | engines announce over HTTP |
| `internal/metrics` | buffered CSV writer and a mutex | `New`, `WriteSample`, `Close` | all sampling goroutines |
| `internal/scenario` | none | `Load` | read by main |
| `internal/torrentgen`, `internal/bencode` | none | `GenerateFile`, `Encode` | called by the runner and `gentorrent` |
| `scripts/plot.py` | none | reads the CSV | the last row of each engine is its final state |

What is hard in this code, and the properties that make each part right:

- **typhon driver.** Several goroutines are inside `call` while `readLoop` routes
  replies and `failPending` ends everything; a reply, a write error, an expiry and
  the loss of the connection may all end one call.  The reader must never block,
  the map must not leak, nobody may wait for an answer that cannot come, every
  call and `Stop` must return.
- **runner.** A failure or SIGINT at any step must still stop what was started, in
  an order in which nothing is used after it is gone: samplers, engines, tracker,
  CSV file.  All stops share one deadline.
- **sampling goroutine.** The ticker, the deadline of each sample, the end of the
  run and SIGINT race one another, and typhon's write to its socket knows none of
  them.  But for that write no tick may be lost, no row may carry old counters and
  the goroutine must end; totals must not go down.
- **drivers' `Stats`.** Two to many requests, any of which may fail; some drivers
  drop the error.
- **tracker.** Announces of many engines, late requests, restarts and the sweep.
  Engines must hear of each other, live peers must stay and dead ones must go.
- **names, directories, ports, staging.** Written in `main.go`, `runner.go` and
  three functions of every driver, and must fit together for any `--engines` list.
- **drivers' life.** A readiness poll that takes any answer, a context that ends in
  the middle of `docker run`, a session id that is renewed under a call, lost
  answers.  `Start` must end in time, a driver must talk to its own engine, no
  torrent may be added twice.
- **metrics writer.** Goroutines share a buffer that is written out in the middle of
  rows, a write error sticks, the last rows are in memory until `Close`.  The file
  must be a prefix of whole rows, and `Close` must not claim more.
- **scenario, torrentgen, bencode.** A `.torrent` must describe its payload, decode
  to what was meant, and have the info hash that was computed for it.

## 2. Modules

| module | models | abstract specification, proofs, instances |
|---|---|---|
| `TyphonRpc` | `internal/engine/typhon.go`: `call`, `readLoop`, `failPending`, `Stop`, and the engine at the other end of the socket | implements `RpcClient` (what `call` promises); `TyphonRpcProofs`; `MCTyphonRpc` |
| `Runner` | `runCompare` from `scenario.Load` to its end, and `internal/runner/runner.go` `Run` with its deferred calls | uses each driver as `DriverContract` allows; `RunnerProofs`; `MCRunner` |
| `Sampler` | the sampling goroutine in discrete time, with the requests of all six `Stats` | `SamplerProofs`; `MCSampler` |
| `Tracker` | `internal/tracker/tracker.go` and the engines that announce to it | `TrackerProofs`; `MCTracker` |
| `CsvWriter` | `internal/metrics/csv.go` on a `bufio` buffer and a disk that fails | implements `RowLog` (an append-only log of rows); `CsvWriterProofs`; `MCCsvWriter` |
| `DriverLife` | `Start` with `waitReady`, `AddTorrent` and `Stop` of all six drivers, transmission's `rpc`, and the engines on the host over several runs | `DriverLifeProofs`; `MCDriverLife` |
| `TorrentGen` | `materialiseSwarm`, `GenerateFile`, `hashPieces` | encoder, decoder and SHA-1 are parameters; `TorrentGenProofs`; `MCTorrentGen` |
| `BencodeValues`, `Bencode` | `internal/bencode/bencode.go`: values, and `Encode` with a strict decoder as its reference | checked by the assumptions `RoundTrip` and `EntriesEmbedded` of `MCTorrentGen`, which gives `Encode` to `TorrentGen` |
| `Fleet` | `buildDrivers`, names, ports, directories, seed staging, `SeedPath` and save paths of the drivers | `FleetProofs`; `MCFleet` |

`Runner` sees a driver call as something that returns in the end, with a result or
an error, but for a `Stats` of typhon that blocks in its write; `TyphonRpc` checks
when typhon's calls return, `DriverLife` how long
`Start` takes and whom it talks to, `Sampler` refines what `Stats` does, `Fleet` what
phases 1 and 2 hand to the engines, `TorrentGen` how the torrents come about, and
`CsvWriter` what becomes of the rows that `Sampler` writes.

### How state and actions correspond to the code

**TyphonRpc.**  `pending` is the key set of `d.pending`, `chan[i]` the
capacity-one channel of request `i`, `pc[c]` the place of a caller in `call`
(between two places the code holds no lock or does one blocking operation),
`readPc` that of the reader.  `toEngine` and `toClient` are the two directions of
the socket.  `LinkDown` says that a write cannot succeed any more.  A hung engine
is one that takes no step: nothing is assumed of its speed or life.

**Runner.**  `phase` and `cur` are the program counter of `Run` and its loops, one
action per step that can fail and one for its failure.  `interval` is
`sample_interval`, of which `Load` replaces only a zero; a negative one ends the
process in a panic of `time.NewTicker`.  `live` is `len(live)`,
`failed` the driver whose `Start` returned an error, `engine[d]` the process or
container.  A `Start` is two steps, the spawn and the wait for readiness, as a
failure between them is what matters.  A `Stats` of typhon may sit in `conn.Write`
(`"blocked"`) for as long as its engine lives.  `budget` is what is left of
`stopCtx`; a `docker rm` may fail with any of it left, as the code asks only for "No
such container", and with none left it must.  `stopErr` are the drivers whose `Stop`
returned an error, which the code logs.
`docker` stands for the four container drivers, whose `Start` and `Stop` are
alike; their differences are in `Sampler` and `Fleet`.

**Sampler.**  `program` is the list of requests a `Stats` makes: which columns
each fills in, and whether the code returns its error or goes on with zero.  Time
is an integer; it passes only while the goroutine waits, since all else is short
against a sampling interval.  `tick` is the one-place channel of the ticker and
`callBy` the deadline of `sCtx`.  Every request but one ends by then: typhon writes
its frame before it looks at the context, and the write may block until the engine
reads again or exits (`pc = "blocked"`).  `overdue` is the last moment at which a
write had outlived its context, `lost` the last tick that was dropped, and `hidden`
says that the `Stats` in progress has dropped an error; the code has none of the
three.  One cumulative counter of the engine stands for both directions.

**Tracker.**  `swarm[id]` is the age of `peerEntry.last`.  The handler and the
sweep hold the lock from first to last look at the map, so each is one action;
swarms share only that lock, so one `info_hash` is enough.  A request is in
`queue` from the moment it is sent to the moment its answer is read; an engine
that gives up leaves it there.  A malformed request has no effect and is left out,
as is the encoding of the peer list.  `Addr` is not modelled.

**Fleet.**  A path is a sequence of names, `disk` maps a path to the payload in the
file.  Numbers of ports are those of the flags' defaults.  `SeedPath` is where the
harness copies a payload, `LookPath` the place on the host that the engine is told
to use, through mounts where there is a container.  With `used` the work directory
is that of an earlier run, and a file that `payload_path` names is where that run
staged or downloaded it; random payloads have a new name in every run.

**CsvWriter.**  A row is `Width` cells, of which some fit into the buffer; a flush
writes any part of what is in it and keeps the error if that was not all.
`order` is the order in which rows got the mutex.  `WriteSample` is one step per
cell, as another goroutine and the death of the process may come in between.

**DriverLife.**  `TyphonStart`, `RainStart`, ... say of each driver how long its
polls and its readiness limit last, and which of them end with the deadline of the
context (`ctx`) or with SIGINT (`breaks`): `net.DialTimeout` knows no context,
`SetDeadline` knows the deadline only, `NewRequestWithContext` both.  `port` is the
run whose engine holds the address, `peer` the one the driver talks to.  `fresh`
says that `d.sid` is the id in force.  What an engine says is nondeterministic.

**TorrentGen.**  `pc` follows `materialiseSwarm` and `GenerateFile`; `Stat`, every
read of a piece and both encodings are steps of their own, between which another
program may append to the user's payload or truncate it.  `Encoder`, `Reads` and
`Sha1` are constants, so that the module can be proved about whatever they are; in
the run they are `Encode` and `Decodes` of `Bencode` and an injective
numbering.  Names of keys are the first letters that order them, and names, digests
and URL are made of bytes that could be taken for syntax.

## 3. Runs

| run | question | bounds |
|---|---|---|
| `typhon_rpc` | `ReaderNeverBlocks`, `NoLeakedEntries`, `NoOrphanWaiter`, the refinement `ImplementsPromise` of `RpcClient`, and `CallReturns`, `StopEndsEverything` | 2 callers, 2 calls, 2 frames per direction, 1 pushed event; Stop, crash and read error at any time |
| `typhon_rpc_hung` | `CallReturns` is **violated** when the socket is full | 1 caller, 2 calls, 1 frame |
| `runner_safety` | `NoOrphanSampler`, `TrackerOutlivesEngines`, `LeaksExplained`, `SamplesSurvive`, `RunEnds`, and the refinement `DriversUsedAsSpecified` | one driver of each kind of `Start`/`Stop`, stop budget 2 with stops that cost up to 1 each, any `sample_interval` |
| `runner_leak` | `EnginesTornDown` is **violated** by a failed `Start` | 2 drivers |
| `sampler_safety` | `NoTickLost`, `RowIsFresh`, `EndsInTime`, `DropsOnlyWhenHidden` | all six drivers, interval 2, duration 9, writes up to 5 late, counter up to 2 |
| `sampler_totals` | `TotalsNeverDrop` is **violated** by rtorrent | interval 2, duration 4 |
| `tracker` | `Rendezvous`, `SteadyPeersListed`, `GhostsVanish`, `EveryoneMeets` | 2 engines, one of which has 2 lives, TTL 2, sweep 2, interval 1 |
| `fleet_safety` | `NothingShared`, `OtherSeedersHold`, `LeechersEmpty` | all lists of one or two tokens with one or two instances, two lists with all kinds, and 20 of rtorrent; 2 torrents, with files of one name or the same file; new or used work directory |
| `fleet_qbit` | `SeedersHold` is **violated** by libtorrent | 2 drivers, 1 torrent |
| `csv_writer` | `FileIsPrefix`, and the refinement `ImplementsRowLog` of `RowLog` | 2 goroutines, 3 rows each, 3 cells per row, buffer of 4 |
| `driver_life` | `StartInTime`, `StrangerExplained`, `AddedOnce`, `GivesUpOnlyWhenChased` | each of the six kinds, 3 runs, 2 torrents, context of 60 s in units of 5 s, 3 renewals per call |
| `torrent_gen` | `PiecesDescribePayload`, `TorrentReadsBack`, `InfoHashIsOfTheFile`; `RoundTrip`, `EntriesEmbedded` | all payloads of up to 4 bytes out of two, 5 piece lengths, 3 iteration orders |

Why the bounds are enough.  Two callers are what it takes for one to hold a lock
the other needs, and the second call can come before, while or after the connection
is lost.  No run uses symmetry, as most check liveness or refinement as well.  A stop
budget of 2 against three stops
reaches both an exhausted and a sufficient budget; with the real numbers (30 s,
grace periods of 10 s and 5 s) the same states need four drivers.  An interval of 2
and a duration of 9 give samples that end before, at and after the next tick, and
a last sample that the end of the run cuts short.  A write that is up to 5 late loses
one tick or two, and in time for samples to follow it, or runs past the end; the same
run with interval 3, duration 13 and writes 7 late passes as well.  A TTL of 2 is longer than the
announce interval, and entries age out between two sweeps and wait for the next;
a second life is needed for requests of an engine's earlier life, and one engine
that has it meets them.  Two tokens give every pair of kinds in both orders.  A
buffer of 4 cells and rows of 3 are flushed at each place of a row.  Three runs let
an engine of the first still be there when that of the second has failed to get the
port.  Payloads of 4 bytes are shorter than, equal to, a multiple of and longer
than the piece lengths 1, 2, 3 (the default) and 5.
The bounds are named: `MaxCalls`, `SockCap`, `MaxEvents` in `TyphonRpc`,
`MaxBytes`, `MaxLate` in `Sampler`, `MaxBoots` in `Tracker`, `MaxRows`, `MaxCloses` in
`CsvWriter`, `Runs`, `MaxAdds`, `MaxRenewals` in `DriverLife`, `MaxSize` in
`TorrentGen`; `NumTorrents`, `Grace`
and `StopBudget` of `Runner` are parameters of the code in units of
the instance.

Fairness.  `TyphonRpc`: every goroutine that can run does, contexts expire, a mutex
does not starve a waiter (`sync.Mutex` guarantees it), and the SIGKILL of `Stop`
works; nothing is assumed of the engine, of new calls or of when `Stop` comes.
`Runner`: goroutines run, the duration elapses, and `select` with two ready cases
takes each of them if it is asked again and again (Go chooses at random), which is
why leaving the sampling loop is strongly fair.  A write of typhon is not fair while
its engine lives, which may never read again: `RunEnds` says that the run ends or that
such a write blocks for ever.  `Tracker`: clock, sweep and
server run, engines that run announce, and an engine that goes on announcing gets
an answer in the end.  The other specifications state no fairness, as they are
checked for safety only.

### What the violations show

1. `typhon_rpc_hung`: `conn.Write` in `call` does not know the context.  A hung
   engine with a full socket keeps its caller, and everyone behind `writeM`.  What
   that does to a run is stated in `RunEnds`, `NoTickLost`, `RowIsFresh` and
   `EndsInTime`, as their one exception.
2. `runner_leak`: a `Start` that fails after the spawn leaves the engine up, as
   the driver is not yet in `live`.  Only typhon kills its process itself, and
   only when the socket never appears.  `LeaksExplained` says what else
   can stay: a container whose `Stop` returned an error, because `docker rm` failed or
   met the end of the 30 s that all stops share.
3. `sampler_totals`: rtorrent's `Stats` returns zeros for what it could not read;
   transmission, rqbit and typhon hide some errors too.  `DropsOnlyWhenHidden` says
   that nothing else makes a total go down.
4. `fleet_qbit`: the payload for libtorrent is staged in `DataDir/swarm`, its
   container sees `DataDir/downloads`.

Further differences that the models contain, stated in the properties as their
exceptions: two tokens of one kind (`typhon,typhon`) make two engines with the same
name, directory and ports (`SameInstance`); rain's ten listen ports include those
of the drivers after it (`NothingShared`), and the 21st rtorrent asks for 17000, the
listen port of the first driver (`SmallFleetsShareNothing`); two `payload_path`
entries with one file name overwrite each other where they are staged
(`NameShared`), and a payload that two torrents share is with whoever seeds either
(`PayloadShared`); a reused work directory may hold the payload of a leecher
(`LeechersEmpty`); a negative `sample_interval`
passes `Load` and ends in a panic that leaves all engines up (`LeaksExplained`); an
engine left by a failed `Start` or `Stop` answers the polls of the next run
(`StrangerExplained`); libtorrent's refusal with status 200 passes for success
(`AddedOnce`); SIGINT waits for rtorrent's answer or the deadline (`StartInTime`); a
payload that changes while it is read gives a torrent that does not describe it
(`PiecesDescribePayload`).  With
`TextBreaksJson = TRUE` (a quote in the socket path) `failPending` builds invalid
JSON and `ImplementsPromise` fails: a call succeeds without a reply, and `AddTorrent`
with it.  No property would catch the code doing worse where these exceptions apply.
Noticed and
not the subject of a run: an error of `Run` ends in `log.Fatalf`, which skips the
deferred `out.Close`, so not even the header reaches the file, although
`metrics.New` says that `Close` must be called (`SamplesSurvive` says that no samples
are lost by it, since once sampling has begun `Run` cannot fail); `runCompare` only
logs the error of `Close`, and a second `Close` after one that failed returns nil
(`ImplementsRowLog` judges the first); `tracker.Addr` returns `http.Server.Addr`, which nothing sets, so
the port behind `:0` cannot be learned; SIGINT during start-up makes `Run` return
the cancellation as an error, although its comment promises otherwise.

## 4. Proofs

TLAPS checks the theorems below for all values of the constants, from the named
assumptions `ConstantsAssumption` of the modules: numbers are natural and sets are
what they should be; `TorrentGen` also assumes that a digest is a number
(`Sha1Assumption`).  TLC evaluates these assumptions in the runs.  Some theorems
say under which further condition they hold; it stands in their statement.  Every
invariant below was first checked by TLC, on the instance of the run.

- **`TyphonRpcProofs`**: `TypeCorrect`, `ReaderNeverBlocksAlways`,
  `NoLeakedEntriesAlways`, `NoOrphanWaiterAlways`.  None of the three properties is
  inductive.  The invariant relates every place in `call` to the map and to the
  channel of the call: an id in the map has an empty channel and belongs to one
  caller that is still inside; an id out of the map has been answered or abandoned;
  once the reader is past `failPending` no id of a waiting caller has an empty
  channel, because requests written after the loss of the link fail.
  `AnsweredOnceAlways` is an action property, stated with the proofs: nothing fills the channel of a call
  that has taken its answer.  It needs in addition (`Unanswered`) that a frame that
  the reader has taken out of the map and not yet sent is for a call without answer,
  which holds because its channel is still empty.
  `ImplementsPromiseAlways` is the refinement of `RpcClient`, for
  `TextBreaksJson = FALSE`, without which it is false (section 3).  It needs a
  second invariant (`RInv`): a request is in one place only (`Requests`), and a frame
  for a call, wherever it is on its way, is the engine's reply to it (`Replies`).
- **`RunnerProofs`**: `TypeCorrect`, `NoOrphanSamplerAlways`,
  `TrackerOutlivesEnginesAlways`, `LeaksExplainedAlways`, `SamplesSurviveAlways`,
  for any list of engines.  The invariant says how far the drivers have come in
  each phase (`Progress`), that the stop loop has stopped exactly the drivers above
  `cur`, that one that was stopped is gone or its `Stop` returned an error, that an engine is up only if it was spawned, and that rows exist only
  after a phase from which `Run` returns no error.
  `DriversUsedAsSpecifiedAlways` is the refinement of `DriverContract`, one for
  every driver of the list at once.
- **`SamplerProofs`**: `TypeCorrect`, `NoTickLostAlways`, `RowIsFreshAlways`,
  `EndsInTimeAlways`, `DropsOnlyWhenHiddenAlways`, for any interval, duration, delay of
  a write and sequence of requests that asks for both totals.  Four invariants about
  time carry the first three properties.  The next tick is at most one interval away,
  and one interval after the tick in the channel unless ticks were lost since
  (`TickerInv`); a tick that finds the channel full comes after the deadline of the
  sample, and time is past that deadline only while a write is overdue (`SampleInv`);
  before the first such write each sample starts at its tick (`InStepInv`); after
  SIGINT only rtorrent's request in flight or an overdue write makes the goroutine wait
  (`SignalInv`).  The fourth adds that the sample in the making is at least the last
  row, column by column, as far as requests have been answered and no error was dropped
  (`TotalsInv`).  `QbitAndRainNeverDrop` follows, as these two never drop one.
- **`CsvWriterProofs`**: `TypeCorrect`, `FileIsPrefixAlways` and the refinement
  `ImplementsRowLogAlways`.  That the file is a prefix of the stream is not
  inductive, as a cell is appended by a goroutine that knows only its own row.  The
  invariant says where the stream is (`Position`: file and buffer hold the rows
  before the current one and `part` cells of it, unless a write has failed) and what
  every cell of it is (`Layout`), by division and remainder with the width of a row.
- **`TrackerProofs`**: `TypeCorrect`, `RendezvousAlways`, `SteadyPeersListedAlways`,
  `GhostsVanishAlways`, for any set of engines with any number of lives each.  The
  invariant must say what requests and answers under way will do: an engine that
  waits is still the one that asked, a `stopped` announce is that of one that is
  gone (`Senders`), an answer was made in the present tick (`Served`), and of two
  engines of which one or both still have their answer coming one knows or is about
  to know the other (`Meet`).  `GhostsVanish` needs the time to the next sweep
  (`Age`).
- **`DriverLifeProofs`**: `TypeCorrect`, `StrangerExplainedAlways`,
  `AddedOnceAlways`, `GivesUpOnlyWhenChasedAlways` and `StartInTimeAlways`, for any
  number of runs, torrents and renewals.  `Owners` says that the engines of earlier
  runs are gone unless the run is in `unclean`, `Executed` what `tries` and `done` are
  at each place of a call, `Sids` that the engine has made up as many ids as the
  driver was refused.  `Clock` and `Signals` bound every wait; from them follows that
  `Start` ends in time, if its deadline is at least the 30 s (`CtxLimit >= 6`) for
  which typhon polls with a `DialTimeout` that knows no context.  The code's is 60 s
  (`runner.go:154`); with less, typhon's last dial could end after the deadline.
- **`FleetProofs`**: `TypeCorrect`, `OtherSeedersHoldAlways`, `LeechersEmptyAlways`,
  for any `--engines` list and any scenario.  `Files` says of every file that it is
  what an earlier run left, what was staged there for a seeder, or what is left of a
  copy that broke off; `Staged` that a seeder that has got its torrent has its
  payload, from which later staging cannot take it since two paths are equal only if
  data directory and file name are.  `SmallFleetsShareNothing` is
  `[](Len(drivers) <= 20 => NothingShared)`.  The bound is the largest one for which it
  is true: with 21 rtorrents it fails, and TLC shows it on such a list.  It rests on
  `Building`: the n-th driver has an offset of at most `(n - 1) * 100`.
- **`TorrentGenProofs`**: `TypeCorrect`, `PiecesDescribePayloadAlways`,
  `EncodingsAgreeAlways`, `InfoHashIsOfTheFileAlways`, for any payload, piece length
  and hash.  While the payload is undisturbed `hashPieces` has read whole pieces only
  (`WholePieces`: offset and digests agree piece by piece); `FullRead` carries this
  over one more piece, and `ShortRead` shows that the read that ends the loop leaves
  exactly `Digests`, whether it brought the short last piece or nothing.
  `EncodingsAgreeAlways` says that what was hashed and what is in the file encode the
  same map: nothing that goes into `info` changes between its two encodings, also if
  the payload does.  These two assume nothing of the encoder.  `TypeCorrect` assumes
  that it returns bytes (`EncodesToBytes`), and `InfoHashIsOfTheFileAlways` that every
  entry of a map is in its output as it would be alone, in whatever order maps are
  iterated (`EmbedsEntries`, which `EntriesEmbedded` checks of `Encode` on nested
  values).

Model-checked only, beside the runs that look for a violation:

- liveness (`CallReturns`, `StopEndsEverything`, `RunEnds`, `EveryoneMeets`), as the
  installed provers do not handle fairness and `ENABLED`;
- `TorrentReadsBack` and the promises of `Encode`: encoder and decoder are recursive
  operators, and what they compute for every value would take an induction over data.
  For the same reason `TorrentGen` and its proofs do not reach `Bencode`.

## 5. Not modelled

- JSON decoding of the scenario, flag parsing, the `list` and `gentorrent` commands:
  no state beyond one function call.
- Legacy torrents of a scenario (`torrents`), which are added like swarm torrents that
  nobody seeds.
- A harness that is killed and started again on its own leftovers, other than by the
  panic over `sample_interval`: it would leave every engine up.
- The time `AddTorrent` takes: its context gives it 30 s, and `CallFails` stands for the
  end of it.
- The XML-RPC codec of rtorrent, generated configuration files, the docker CLI.
- `StartTorrent`, which the harness never calls; `plot.py`; `src/metrics` and
  `src/bencode`, unused copies of the packages under `internal`.

## 6. Plan

Every safety property, action property and refinement that a passing run checks has a
theorem, but for `TorrentReadsBack`; `NothingShared` has its for lists of up to 20 drivers, the longest for which
it is true without a word about the kinds.  What could be added, in order of
importance:

1. The promises of `Encode` for maps of the two shapes that `GenerateFile` makes, from
   a definition of their encoding that needs no recursion.
2. A model of `Addr` and of a tracker behind `:0`, once something asks for the address.
