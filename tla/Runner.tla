------------------------------- MODULE Runner -------------------------------
(***************************************************************************)
(* One run of the benchmark: runCompare of cmd/bench/main.go, which loads  *)
(* the scenario (internal/scenario/scenario.go) and at the end closes the  *)
(* CSV file or dies in log.Fatalf, and in between runner.Run               *)
(* (internal/runner/runner.go) with its deferred clean-up, the sampling    *)
(* goroutines, and the context that SIGINT cancels.                        *)
(*                                                                         *)
(* Drivers are numbered in the order of --engines.  Of a driver the model  *)
(* keeps what Run can tell: whether its engine runs, and how its Start and *)
(* Stop treat the engine, which depends on its kind.  A driver call ends   *)
(* with an error at the latest when its context does, except that of       *)
(* typhon when its request does not fit into the socket (TyphonRpc).       *)
(***************************************************************************)
EXTENDS Integers, Sequences

CONSTANTS
    Kinds,          \* the kind of each driver, in --engines order
    NumTorrents,    \* torrents to add to every engine
    StopBudget,     \* length of stopCtx (30 s)
    Grace           \* Grace[k]: how long Stop of a kind k process waits
                    \* for the engine before it kills it

KindNames == {"typhon", "rain", "docker"}

ASSUME ConstantsAssumption ==
    /\ Kinds \in Seq(KindNames) /\ Kinds # <<>>
    /\ NumTorrents \in Nat
    /\ StopBudget \in Nat
    /\ Grace \in [{"typhon", "rain"} -> Nat]

Drivers == 1 .. Len(Kinds)

VARIABLES
    phase,      \* where the main goroutine is
    interval,   \* sample_interval, in seconds; -1 stands for any negative one
    cur,        \* the driver it works on, in the loops of Run
    adds,       \* torrents already added to driver cur
    live,       \* len(live): drivers 1..live came up
    failed,     \* the driver whose Start returned an error, 0 if none
    engine,     \* engine[d]: process or container of driver d
    stopped,    \* drivers whose Stop was called
    stopErr,    \* those whose Stop returned an error, which Run logs
    budget,     \* what is left of stopCtx
    tracker,    \* the in-process tracker
    sigint,     \* the context of main is cancelled
    deadline,   \* the duration of the scenario has elapsed
    err,        \* the error Run is returning
    sampler,    \* sampler[d]: where the sampling goroutine of d is
    tick,       \* tick[d]: a tick waits in the ticker's channel
    sampled,    \* drivers with at least one row accepted by WriteSample
    csv         \* the output file: rows are in memory until it is closed

vars == <<phase, interval, cur, adds, live, failed, engine, stopped, stopErr, budget,
          tracker, sigint, deadline, err, sampler, tick, sampled, csv>>
envVars     == <<interval, sigint, deadline>>
stopVars    == <<stopped, stopErr, budget>>
samplerVars == <<sampler, tick, sampled>>

TypeOK ==
    /\ phase \in {"load", "tracker", "materialise", "spawn", "ready", "prepare", "add",
                  "sampling", "stopping", "untrack", "returned", "exited"}
    /\ interval \in {-1, 0, 1}
    /\ cur \in 0 .. Len(Kinds) + 1
    /\ phase \in {"spawn", "ready", "prepare", "add"} => cur \in 1 .. Len(Kinds)
    /\ phase = "stopping" => cur <= live
    /\ adds \in 0 .. NumTorrents
    /\ live \in 0 .. Len(Kinds)
    /\ failed \in 0 .. Len(Kinds)
    /\ engine \in [Drivers -> {"none", "up", "gone"}]
    /\ stopped \subseteq Drivers /\ stopErr \subseteq stopped
    /\ budget \in 0 .. StopBudget
    /\ tracker \in {"off", "up", "stopped"}
    /\ sigint \in BOOLEAN /\ deadline \in BOOLEAN
    /\ err \in {"none", "cancelled", "other"}
    /\ sampler \in [Drivers -> {"none", "select", "stats", "blocked", "write", "done"}]
    /\ tick \in [Drivers -> BOOLEAN]
    /\ sampled \subseteq Drivers
    /\ csv \in {"none", "open", "closed"}

Init ==
    /\ phase = "load"
    /\ interval \in {-1, 0, 1}
    /\ cur = 0 /\ adds = 0 /\ live = 0 /\ failed = 0
    /\ engine = [d \in Drivers |-> "none"]
    /\ stopped = {} /\ stopErr = {}
    /\ budget = StopBudget
    /\ tracker = "off"
    /\ sigint = FALSE /\ deadline = FALSE
    /\ err = "none"
    /\ sampler = [d \in Drivers |-> "none"]
    /\ tick = [d \in Drivers |-> FALSE]
    /\ sampled = {}
    /\ csv = "none"

-----------------------------------------------------------------------------
(* Set-up: scenario, output file, tracker and synthetic torrents           *)

\* scenario.Load replaces only a zero sample_interval; metrics.New follows.
Load ==
    /\ phase = "load"
    /\ phase' = "tracker" /\ csv' = "open"
    /\ interval' = IF interval = 0 THEN 1 ELSE interval
    /\ UNCHANGED <<cur, adds, live, failed, engine, stopVars, tracker, sigint,
                   deadline, err, samplerVars>>

\* Among other things a zero duration: log.Fatal, and nothing has been started.
LoadFails ==
    /\ phase = "load"
    /\ phase' = "exited" /\ err' = "other"
    /\ UNCHANGED <<cur, adds, live, failed, engine, stopVars, tracker, envVars,
                   samplerVars, csv>>

\* Return an error from a phase that has brought some engines up: the deferred
\* functions stop engines live, live-1, ..., 1 and then the tracker.
Unwind(e) == phase' = "stopping" /\ cur' = live /\ err' = e

\* Every context given to a driver call descends from main's: after SIGINT the
\* call can fail with context.Canceled.
CallError(e) == e = "other" \/ (e = "cancelled" /\ sigint)

StartTracker ==
    /\ phase = "tracker"
    /\ phase' = "materialise"
    /\ tracker' \in {"off", "up"}       \* "off": the scenario wants none
    /\ UNCHANGED <<cur, adds, live, failed, engine, stopVars, envVars, err,
                   samplerVars, csv>>

StartTrackerFails ==
    /\ phase = "tracker"
    /\ phase' = "returned" /\ err' = "other"
    /\ UNCHANGED <<cur, adds, live, failed, engine, stopVars, tracker, envVars,
                   samplerVars, csv>>

Materialise ==
    /\ phase = "materialise"
    /\ phase' = "spawn" /\ cur' = 1
    /\ UNCHANGED <<adds, live, failed, engine, stopVars, tracker, envVars, err,
                   samplerVars, csv>>

\* The deferred engine clean-up is not registered yet, t.Stop is.
MaterialiseFails ==
    /\ phase = "materialise"
    /\ phase' = "untrack" /\ err' = "other"
    /\ UNCHANGED <<cur, adds, live, failed, engine, stopVars, tracker, envVars,
                   samplerVars, csv>>

-----------------------------------------------------------------------------
(* Phase 1: Start, driver after driver                                     *)

\* Mutant: Start returns before the engine is ready.
SpawnWithoutWait ==
    /\ phase = "spawn"
    /\ engine' = [engine EXCEPT ![cur] = "up"]
    /\ live' = cur
    /\ IF cur < Len(Kinds) THEN phase' = "spawn" /\ cur' = cur + 1
                           ELSE phase' = "prepare" /\ cur' = 1
    /\ UNCHANGED <<adds, failed, stopVars, tracker, envVars, err,
                   samplerVars, csv>>

\* Start up to the point where the engine process or container runs.
Spawn ==
    /\ phase = "spawn"
    /\ phase' = "ready"
    /\ engine' = [engine EXCEPT ![cur] = "up"]
    /\ UNCHANGED <<cur, adds, live, failed, stopVars, tracker, envVars, err,
                   samplerVars, csv>>

SpawnFails ==
    /\ phase = "spawn"
    /\ \E e \in {"other", "cancelled"} : CallError(e) /\ Unwind(e)
    /\ failed' = cur
    /\ UNCHANGED <<adds, live, engine, stopVars, tracker, envVars,
                   samplerVars, csv>>

\* waitReady (or connect and ping) succeeds; Run appends the driver to live.
Ready ==
    /\ phase = "ready" /\ engine[cur] = "up"
    /\ live' = cur
    /\ IF cur < Len(Kinds) THEN phase' = "spawn" /\ cur' = cur + 1
                           ELSE phase' = "prepare" /\ cur' = 1
    /\ UNCHANGED <<adds, failed, engine, stopVars, tracker, envVars, err,
                   samplerVars, csv>>

\* Start returns an error after it has spawned the engine.  Only typhon kills
\* the process, and only when the socket never came up; a failed ping, and
\* waitReady of every other driver, leave the engine as it is.
NotReady ==
    /\ phase = "ready"
    /\ \E e \in {"other", "cancelled"} : CallError(e) /\ Unwind(e)
    /\ failed' = cur
    /\ \/ UNCHANGED engine
       \/ Kinds[cur] = "typhon" /\ engine' = [engine EXCEPT ![cur] = "gone"]
    /\ UNCHANGED <<adds, live, stopVars, tracker, envVars, samplerVars, csv>>

-----------------------------------------------------------------------------
(* Phase 2: add every torrent to every engine                              *)

\* Stage the seed payload and read the torrent, then call AddTorrent.
PrepareAdd ==
    /\ phase = "prepare" /\ adds < NumTorrents
    /\ phase' = "add"
    /\ UNCHANGED <<cur, adds, live, failed, engine, stopVars, tracker, envVars,
                   err, samplerVars, csv>>

PrepareAddFails ==
    /\ phase = "prepare" /\ adds < NumTorrents
    /\ Unwind("other")
    /\ UNCHANGED <<adds, live, failed, engine, stopVars, tracker, envVars,
                   samplerVars, csv>>

AddTorrent ==
    /\ phase = "add" /\ engine[cur] = "up"
    /\ phase' = "prepare" /\ adds' = adds + 1
    /\ UNCHANGED <<cur, live, failed, engine, stopVars, tracker, envVars, err,
                   samplerVars, csv>>

AddTorrentFails ==
    /\ phase = "add"
    /\ \E e \in {"other", "cancelled"} : CallError(e) /\ Unwind(e)
    /\ UNCHANGED <<adds, live, failed, engine, stopVars, tracker, envVars,
                   samplerVars, csv>>

NextEngine ==
    /\ phase = "prepare" /\ adds = NumTorrents /\ cur < Len(Kinds)
    /\ cur' = cur + 1 /\ adds' = 0
    /\ UNCHANGED <<phase, live, failed, engine, stopVars, tracker, envVars, err,
                   samplerVars, csv>>

-----------------------------------------------------------------------------
(* Phase 3: one sampling goroutine per driver                              *)

SamplingDue == phase = "prepare" /\ adds = NumTorrents /\ cur = Len(Kinds)

\* Create runCtx and the goroutines with their tickers, then wg.Wait.
StartSampling ==
    /\ SamplingDue /\ interval > 0
    /\ phase' = "sampling"
    /\ sampler' = [d \in Drivers |-> "select"]
    /\ UNCHANGED <<cur, adds, live, failed, engine, stopVars, tracker, envVars,
                   err, tick, sampled, csv>>

\* time.NewTicker panics in the first goroutine, and takes the process down with
\* it; no deferred function of Run or runCompare is called.
Panic ==
    /\ SamplingDue /\ interval <= 0
    /\ phase' = "exited"
    /\ UNCHANGED <<cur, adds, live, failed, engine, stopVars, tracker, envVars,
                   err, samplerVars, csv>>

\* runCtx: cancelled by SIGINT, or past the duration of the scenario.
RunDone == sigint \/ deadline

Sampler(d, from, to) == sampler[d] = from /\ sampler' = [sampler EXCEPT ![d] = to]

\* The ticker drops a tick that finds the channel full.
Tick(d) ==
    /\ sampler[d] \in {"select", "stats", "blocked", "write"} /\ ~tick[d]
    /\ tick' = [tick EXCEPT ![d] = TRUE]
    /\ UNCHANGED <<phase, cur, adds, live, failed, engine, stopVars, tracker,
                   envVars, err, sampler, sampled, csv>>

\* With a tick and the end of runCtx both ready, select picks either.
SampleTick(d) ==
    /\ tick[d]
    /\ Sampler(d, "select", "stats")
    /\ tick' = [tick EXCEPT ![d] = FALSE]
    /\ UNCHANGED <<phase, cur, adds, live, failed, engine, stopVars, tracker,
                   envVars, err, sampled, csv>>

\* Mutant: a sampling loop that only ranges over the ticks.
NeverDone(d) == FALSE /\ UNCHANGED vars

SampleDone(d) ==
    /\ RunDone
    /\ Sampler(d, "select", "done")
    /\ UNCHANGED <<phase, cur, adds, live, failed, engine, stopVars, tracker,
                   envVars, err, tick, sampled, csv>>

\* Nothing but the engine ends the conn.Write of typhon's call: neither the deadline
\* of the sample nor SIGINT.  It blocks when the engine hangs and the requests of
\* earlier samples fill the socket.  (AddTorrent has no such requests before it.)
WriteBlocks(d) ==
    /\ Kinds[d] = "typhon" /\ engine[d] = "up"
    /\ Sampler(d, "stats", "blocked")
    /\ UNCHANGED <<phase, cur, adds, live, failed, engine, stopVars, tracker,
                   envVars, err, tick, sampled, csv>>

\* Some drivers hide the errors of their engine: see the README.
StatsReturns(d) ==
    /\ Sampler(d, "stats", "write") \/ Sampler(d, "blocked", "write")
    /\ UNCHANGED <<phase, cur, adds, live, failed, engine, stopVars, tracker,
                   envVars, err, tick, sampled, csv>>

StatsFails(d) ==
    /\ Sampler(d, "stats", "select") \/ Sampler(d, "blocked", "select")
    /\ UNCHANGED <<phase, cur, adds, live, failed, engine, stopVars, tracker,
                   envVars, err, tick, sampled, csv>>

WriteSample(d) ==
    /\ Sampler(d, "write", "select")
    /\ sampled' = sampled \cup {d}
    /\ UNCHANGED <<phase, cur, adds, live, failed, engine, stopVars, tracker,
                   envVars, err, tick, csv>>

\* The row is lost, and logged.
WriteSampleFails(d) ==
    /\ Sampler(d, "write", "select")
    /\ UNCHANGED <<phase, cur, adds, live, failed, engine, stopVars, tracker,
                   envVars, err, tick, sampled, csv>>

\* Mutants: the loop of the clean-up starts at len(live); one wg.Done is enough;
\* Run returns ctx.Err().
WaitReturnsPastTheEnd ==
    /\ phase = "sampling"
    /\ \A d \in Drivers : sampler[d] = "done"
    /\ phase' = "stopping" /\ cur' = live + 1
    /\ UNCHANGED <<adds, live, failed, engine, stopVars, tracker, envVars, err,
                   samplerVars, csv>>

WaitReturnsEarly ==
    /\ phase = "sampling"
    /\ \E d \in Drivers : sampler[d] = "done"
    /\ phase' = "stopping" /\ cur' = live
    /\ UNCHANGED <<adds, live, failed, engine, stopVars, tracker, envVars, err,
                   samplerVars, csv>>

WaitReturnsCtxErr ==
    /\ phase = "sampling"
    /\ \A d \in Drivers : sampler[d] = "done"
    /\ phase' = "stopping" /\ cur' = live
    /\ err' = IF sigint THEN "cancelled" ELSE "none"
    /\ UNCHANGED <<adds, live, failed, engine, stopVars, tracker, envVars,
                   samplerVars, csv>>

\* wg.Wait returns, and Run returns nil.
WaitReturns ==
    /\ phase = "sampling"
    /\ \A d \in Drivers : sampler[d] = "done"
    /\ phase' = "stopping" /\ cur' = live
    /\ UNCHANGED <<adds, live, failed, engine, stopVars, tracker, envVars, err,
                   samplerVars, csv>>

-----------------------------------------------------------------------------
(* Deferred clean-up: engines in reverse order, all on one stopCtx         *)

\* Mutant: the grace period ends without SIGKILL.
StopWithoutKill ==
    /\ phase = "stopping" /\ cur > 0 /\ Kinds[cur] # "docker"
    /\ \E cost \in 0 .. Grace[Kinds[cur]] :
          budget' = IF cost < budget THEN budget - cost ELSE 0
    /\ stopped' = stopped \cup {cur}
    /\ cur' = cur - 1
    /\ UNCHANGED <<phase, adds, live, failed, engine, stopErr, tracker, envVars, err,
                   samplerVars, csv>>

\* typhon and rain: SIGINT, wait for the exit up to the grace period or the end
\* of stopCtx, then SIGKILL.  The process is gone either way, and Stop says nil.
StopProcess ==
    /\ phase = "stopping" /\ cur > 0 /\ Kinds[cur] # "docker"
    /\ \E cost \in 0 .. Grace[Kinds[cur]] :
          /\ engine[cur] = "gone" => cost = 0
          /\ budget' = IF cost < budget THEN budget - cost ELSE 0
    /\ engine' = [engine EXCEPT ![cur] = "gone"]
    /\ stopped' = stopped \cup {cur}
    /\ cur' = cur - 1
    /\ UNCHANGED <<phase, adds, live, failed, stopErr, tracker, envVars, err, samplerVars,
                   csv>>

\* docker rm -f under exec.CommandContext(stopCtx): it needs stopCtx to last, and
\* takes as much of it as it takes.  A container that is gone is no error.
StopContainer ==
    /\ phase = "stopping" /\ cur > 0 /\ Kinds[cur] = "docker"
    /\ budget > 0 /\ budget' \in 1 .. budget
    /\ engine' = [engine EXCEPT ![cur] = "gone"]
    /\ stopped' = stopped \cup {cur}
    /\ cur' = cur - 1
    /\ UNCHANGED <<phase, adds, live, failed, stopErr, tracker, envVars, err, samplerVars,
                   csv>>

\* docker rm fails for a reason of its own, or stopCtx ends before or while it
\* runs; the daemon may have got the request.  Run logs the error and goes on.
StopContainerFails ==
    /\ phase = "stopping" /\ cur > 0 /\ Kinds[cur] = "docker"
    /\ budget' \in 0 .. budget
    /\ \/ UNCHANGED engine
       \/ budget > 0 /\ engine' = [engine EXCEPT ![cur] = "gone"]
    /\ stopped' = stopped \cup {cur} /\ stopErr' = stopErr \cup {cur}
    /\ cur' = cur - 1
    /\ UNCHANGED <<phase, adds, live, failed, tracker, envVars, err, samplerVars, csv>>

\* Mutant: the loop ends with i > 0 and forgets the first engine.
AllButFirstStopped ==
    /\ phase = "stopping" /\ cur <= 1
    /\ phase' = "untrack"
    /\ UNCHANGED <<cur, adds, live, failed, engine, stopVars, tracker, envVars,
                   err, samplerVars, csv>>

EnginesStopped ==
    /\ phase = "stopping" /\ cur = 0
    /\ phase' = "untrack"
    /\ UNCHANGED <<cur, adds, live, failed, engine, stopVars, tracker, envVars,
                   err, samplerVars, csv>>

StopTracker ==
    /\ phase = "untrack"
    /\ phase' = "returned"
    /\ tracker' = IF tracker = "up" THEN "stopped" ELSE tracker
    /\ UNCHANGED <<cur, adds, live, failed, engine, stopVars, envVars, err,
                   samplerVars, csv>>

-----------------------------------------------------------------------------
(* runCompare after Run                                                    *)

\* The deferred out.Close flushes the rows.
CloseOutput ==
    /\ phase = "returned" /\ err = "none"
    /\ phase' = "exited" /\ csv' = "closed"
    /\ UNCHANGED <<cur, adds, live, failed, engine, stopVars, tracker, envVars,
                   err, samplerVars>>

\* log.Fatalf exits without running the deferred functions.
Fatal ==
    /\ phase = "returned" /\ err # "none"
    /\ phase' = "exited"
    /\ UNCHANGED <<cur, adds, live, failed, engine, stopVars, tracker, envVars,
                   err, samplerVars, csv>>

-----------------------------------------------------------------------------
(* The environment                                                         *)

Interrupt ==
    /\ phase \notin {"load", "exited"} /\ ~sigint     \* after NotifyContext
    /\ sigint' = TRUE
    /\ UNCHANGED <<phase, interval, cur, adds, live, failed, engine, stopVars, tracker,
                   deadline, err, samplerVars, csv>>

\* At once if the duration is negative.
Deadline ==
    /\ phase = "sampling" /\ ~deadline
    /\ deadline' = TRUE
    /\ UNCHANGED <<phase, interval, cur, adds, live, failed, engine, stopVars, tracker,
                   sigint, err, samplerVars, csv>>

\* An engine dies by itself, or of the SIGINT of the terminal.
EngineExit(d) ==
    /\ phase # "exited" /\ engine[d] = "up"
    /\ engine' = [engine EXCEPT ![d] = "gone"]
    /\ UNCHANGED <<phase, cur, adds, live, failed, stopVars, tracker, envVars, err,
                   samplerVars, csv>>

Exited == phase = "exited" /\ UNCHANGED vars

-----------------------------------------------------------------------------

SetUp   == Load \/ LoadFails \/ StartTracker \/ StartTrackerFails
           \/ Materialise \/ MaterialiseFails
StartUp == Spawn \/ SpawnFails \/ Ready \/ NotReady
Adding  == PrepareAdd \/ PrepareAddFails \/ AddTorrent \/ AddTorrentFails \/ NextEngine
Sampling(d) ==
    \/ SampleTick(d) \/ SampleDone(d) \/ WriteBlocks(d) \/ StatsReturns(d) \/ StatsFails(d)
    \/ WriteSample(d) \/ WriteSampleFails(d)
Cleanup ==
    \/ StopProcess \/ StopContainer \/ StopContainerFails
    \/ EnginesStopped \/ StopTracker \/ CloseOutput \/ Fatal

Main ==
    SetUp \/ StartUp \/ Adding \/ StartSampling \/ Panic \/ WaitReturns \/ Cleanup

Next ==
    \/ Main
    \/ \E d \in Drivers : Sampling(d) \/ Tick(d) \/ EngineExit(d)
    \/ Interrupt \/ Deadline
    \/ Exited

Spec == Init /\ [][Next]_vars

\* typhon's Stats is blocked in conn.Write, and its engine does not even die.
Hung(d) == sampler[d] = "blocked" /\ engine[d] = "up"

\* The scheduler runs the goroutines, the duration elapses, and a select that
\* keeps finding runCtx done takes that branch in the end.  A Write that blocks
\* need not return as long as the engine lives; the exit of the engine breaks it.
\* Neither SIGINT nor the death of an engine is assumed.
Fairness ==
    /\ WF_vars(Main) /\ WF_vars(Deadline)
    /\ \A d \in Drivers :
          /\ WF_vars(~Hung(d) /\ Sampling(d))
          /\ SF_vars(SampleDone(d))

FairSpec == Spec /\ Fairness

-----------------------------------------------------------------------------
(* Properties                                                              *)

\* The sampling goroutines are over before anything they use goes away: no
\* Stats on a driver that Stop is taking down, no WriteSample after Close.
NoOrphanSampler ==
    phase \in {"stopping", "untrack", "returned", "exited"} =>
        \A d \in Drivers : sampler[d] \in {"none", "done"}

\* The tracker answers as long as some engine of the run may announce to it:
\* it goes down after every driver that came up has been stopped.
TrackerOutlivesEngines ==
    tracker = "stopped" => 1 .. live \subseteq stopped

\* The only end of main that is neither log.Fatal nor the end of runCompare.
Panicked == phase = "exited" /\ err = "none" /\ csv = "open"

\* What can outlive the harness: only the engine whose Start failed, a container
\* whose Stop returned an error (which is in the log), and, if the scenario asks for
\* a negative sample_interval, every engine at the moment where sampling should
\* begin.  Every other engine that was started is gone, whatever failed, crashed or
\* was interrupted in between and however much of stopCtx the Stops before it took:
\* none is left behind in silence.
LeaksExplained ==
    phase = "exited" =>
        \A d \in Drivers : engine[d] = "up" =>
            \/ d = failed
            \/ Kinds[d] = "docker" /\ d \in stopErr
            \/ Panicked /\ interval < 0

\* log.Fatalf loses the rows in memory, but there are none by then: once a
\* sample is taken Run cannot fail any more, and the file gets closed.
SamplesSurvive == phase = "exited" /\ sampled # {} => csv = "closed"

\* Run ends, engines hanging or dying and SIGINT or not, and so does main.  The one
\* thing that can keep it is wg.Wait for a goroutine that stays in typhon's
\* conn.Write, towards an engine that neither reads nor dies.
RunEnds == <>(phase = "exited") \/ <>[](\E d \in Drivers : Hung(d))

\* The use Run makes of driver d, as the interface sees it.
Life(d) ==
    CASE d = failed -> "failed"
      [] d \in stopped -> "stopped"
      [] d \notin stopped /\ d <= live -> "ready"
      [] d = cur /\ phase = "ready" -> "starting"
      [] OTHER -> "new"

Busy(d) == sampler[d] \in {"stats", "blocked"} \/ (phase = "add" /\ cur = d)

Contract == INSTANCE DriverContract WITH
    life <- [d \in Drivers |-> Life(d)], busy <- {d \in Drivers : Busy(d)}

\* Each driver is used as the interface expects, whatever happens to the
\* others: calls one at a time, between its Start and its only Stop.
DriversUsedAsSpecified == Contract!Spec

\* runner.go:30 "Engines are always torn down on the way out, even if the
\* scenario errored mid-run."
EnginesTornDown == phase = "exited" => \A d \in Drivers : engine[d] # "up"
=============================================================================
