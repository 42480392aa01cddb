---------------------------- MODULE RunnerProofs ----------------------------
(***************************************************************************)
(* Proofs about Runner, for every list of drivers, every number of torrents*)
(* and every stop budget.                                                  *)
(***************************************************************************)
EXTENDS Runner, TLAPS

\* The list of drivers is not empty and every driver has a kind.
LEMMA KindsFact ==
  /\ Len(Kinds) \in Nat /\ Len(Kinds) >= 1
  /\ \A d \in Drivers : Kinds[d] \in KindNames
BY ConstantsAssumption DEF Drivers

-----------------------------------------------------------------------------
(* The inductive invariant                                                 *)

Before == {"load", "tracker", "materialise", "spawn", "ready", "prepare", "add"}
After  == {"untrack", "returned", "exited"}

\* The loops count upwards through the drivers that came up so far.
Progress ==
    /\ phase \in {"load", "tracker", "materialise"} => live = 0 /\ stopped = {}
    /\ phase = "sampling" => interval > 0
    /\ phase \in {"spawn", "ready"} => cur = live + 1
    /\ phase \in {"prepare", "add", "sampling"} => live = Len(Kinds)
    /\ phase \in Before \cup {"sampling"} => failed = 0
    /\ phase = "add" => adds < NumTorrents

\* Goroutines exist only in the sampling phase, and rows come only from them.
SamplersInPhase ==
    /\ phase \in Before => sampled = {} /\ \A d \in Drivers : sampler[d] = "none"
    /\ phase \in {"stopping"} \cup After =>
          \A d \in Drivers : sampler[d] \in {"none", "done"}

\* An error, or a panic over the interval, ends the run before the first row.
ErrorBeforeRows ==
    /\ phase \in Before \cup {"sampling"} => err = "none"
    /\ err # "none" => sampled = {}
    /\ interval <= 0 => sampled = {}
    /\ phase = "exited" /\ err = "none" =>
          csv = "closed" \/ (csv = "open" /\ interval < 0)
    /\ phase \notin {"load", "exited"} => interval # 0
    /\ phase \in Before \ {"load"} => csv = "open"

\* The clean-up has reached the drivers above cur.
StopProgress ==
    /\ phase \in Before \cup {"sampling"} => stopped = {}
    /\ phase = "stopping" => \A d \in Drivers : d > cur /\ d <= live => d \in stopped
    /\ phase \in After =>
          Panicked \/ \A d \in Drivers : d <= live => d \in stopped
    /\ tracker = "stopped" =>
          /\ phase \in {"returned", "exited"}
          /\ \A d \in Drivers : d <= live => d \in stopped

\* Every engine that runs is accounted for.
Accounted ==
    /\ \A d \in Drivers : engine[d] = "up" =>
          d = failed \/ d <= live \/ (phase = "ready" /\ d = cur)
    /\ \A d \in stopped : engine[d] = "up" => Kinds[d] = "docker" /\ d \in stopErr

IInv ==
    /\ TypeOK /\ Progress /\ SamplersInPhase /\ ErrorBeforeRows
    /\ StopProgress /\ Accounted

-----------------------------------------------------------------------------
(* It holds initially and is kept by every step                            *)

\* The invariant holds when runner.Run is called.
LEMMA InitInv == Init => IInv
<1> SUFFICES ASSUME Init PROVE IInv
  OBVIOUS
<1>1. TypeOK
  <2>1. engine \in [Drivers -> {"none", "up", "gone"}]
    BY DEF Init
  <2>2. sampler \in [Drivers -> {"none", "select", "stats", "blocked", "write", "done"}]
    BY DEF Init
  <2>3. tick \in [Drivers -> BOOLEAN]
    BY DEF Init
  <2>4. /\ cur \in 0 .. Len(Kinds) + 1 /\ live \in 0 .. Len(Kinds)
        /\ failed \in 0 .. Len(Kinds) /\ adds \in 0 .. NumTorrents
        /\ budget \in 0 .. StopBudget
    BY KindsFact, ConstantsAssumption DEF Init
  <2> QED
    BY <2>1, <2>2, <2>3, <2>4 DEF Init, TypeOK
<1>2. Progress /\ SamplersInPhase /\ ErrorBeforeRows /\ StopProgress /\ Accounted
  BY DEF Init, Progress, SamplersInPhase, ErrorBeforeRows, StopProgress, Accounted,
         Before, After
<1> QED
  BY <1>1, <1>2 DEF IInv

\* Setting up the tracker and the torrents.
LEMMA SetUpInv == IInv /\ SetUp => IInv'
<1> SUFFICES ASSUME IInv, SetUp PROVE IInv'
  OBVIOUS
<1> USE KindsFact, ConstantsAssumption
    DEF IInv, TypeOK, Progress, SamplersInPhase, ErrorBeforeRows, StopProgress,
        Accounted, Before, After, Drivers, Panicked, envVars, stopVars, samplerVars
<1>5. CASE Load
  BY <1>5 DEF Load, Panicked
<1>6. CASE LoadFails
  BY <1>6 DEF LoadFails, Panicked
<1>1. CASE StartTracker
  BY <1>1 DEF StartTracker
<1>2. CASE StartTrackerFails
  BY <1>2 DEF StartTrackerFails
<1>3. CASE Materialise
  BY <1>3 DEF Materialise
<1>4. CASE MaterialiseFails
  BY <1>4 DEF MaterialiseFails
<1> QED
  BY <1>1, <1>2, <1>3, <1>4, <1>5, <1>6 DEF SetUp

\* Starting the engines.
LEMMA StartUpInv == IInv /\ StartUp => IInv'
<1> SUFFICES ASSUME IInv, StartUp PROVE IInv'
  OBVIOUS
<1> USE KindsFact, ConstantsAssumption
    DEF IInv, TypeOK, Progress, SamplersInPhase, ErrorBeforeRows, StopProgress,
        Accounted, Before, After, Drivers, Panicked, envVars, stopVars, samplerVars
<1>1. CASE Spawn
  BY <1>1 DEF Spawn
<1>2. CASE SpawnFails
  BY <1>2 DEF SpawnFails, Unwind, CallError
<1>3. CASE Ready
  BY <1>3 DEF Ready
<1>4. CASE NotReady
  <2>1. /\ phase = "ready" /\ phase' = "stopping" /\ cur' = live /\ failed' = cur
        /\ err' \in {"other", "cancelled"}
    BY <1>4 DEF NotReady, Unwind
  <2>2. CASE UNCHANGED engine
    BY <1>4, <2>1, <2>2 DEF NotReady
  <2>3. CASE engine' = [engine EXCEPT ![cur] = "gone"]
    BY <1>4, <2>1, <2>3 DEF NotReady
  <2> QED
    BY <1>4, <2>2, <2>3 DEF NotReady
<1> QED
  BY <1>1, <1>2, <1>3, <1>4 DEF StartUp

\* Adding the torrents.
LEMMA AddingInv == IInv /\ Adding => IInv'
<1> SUFFICES ASSUME IInv, Adding PROVE IInv'
  OBVIOUS
<1> USE KindsFact, ConstantsAssumption
    DEF IInv, TypeOK, Progress, SamplersInPhase, ErrorBeforeRows, StopProgress,
        Accounted, Before, After, Drivers, Panicked, envVars, stopVars, samplerVars
<1>1. CASE PrepareAdd
  BY <1>1 DEF PrepareAdd
<1>2. CASE PrepareAddFails
  <2>1. phase = "prepare" /\ phase' = "stopping" /\ cur' = live /\ err' = "other"
    BY <1>2 DEF PrepareAddFails, Unwind
  <2> QED
    BY <1>2, <2>1 DEF PrepareAddFails
<1>3. CASE AddTorrent
  BY <1>3 DEF AddTorrent
<1>4. CASE AddTorrentFails
  BY <1>4 DEF AddTorrentFails, Unwind, CallError
<1>5. CASE NextEngine
  BY <1>5 DEF NextEngine
<1> QED
  BY <1>1, <1>2, <1>3, <1>4, <1>5 DEF Adding

\* A sampling goroutine that goes on, or ends, disturbs nobody else; only in the
\* sampling phase is there one, so a row it adds comes with no error and with a
\* positive interval.
LEMMA SamplerMoves ==
  ASSUME IInv, NEW d \in Drivers, NEW from \in {"select", "stats", "blocked", "write"},
         NEW to \in {"select", "stats", "blocked", "write", "done"}, Sampler(d, from, to),
         sampled' \in {sampled, sampled \cup {d}}, tick' \in [Drivers -> BOOLEAN],
         UNCHANGED <<phase, cur, adds, live, failed, engine, stopped, stopErr, budget,
                     tracker, interval, sigint, deadline, err, csv>>
  PROVE  IInv'
<1> USE DEF IInv
<1>1. sampler[d] = from /\ sampler' = [sampler EXCEPT ![d] = to]
  BY DEF Sampler
<1>2. phase = "sampling"
  BY <1>1 DEF SamplersInPhase, TypeOK, Before, After
<1>3. interval > 0 /\ err = "none"
  BY <1>2 DEF Progress, ErrorBeforeRows
<1>4. TypeOK'
  <2>1. sampler' \in [Drivers -> {"none", "select", "stats", "blocked", "write", "done"}]
    BY <1>1 DEF TypeOK
  <2>2. sampled' \subseteq Drivers
    BY DEF TypeOK
  <2> QED
    BY <2>1, <2>2 DEF TypeOK
<1>5. Progress' /\ StopProgress' /\ Accounted'
  BY DEF Progress, StopProgress, Accounted, Panicked
<1>6. SamplersInPhase'
  BY <1>2 DEF SamplersInPhase, Before, After
<1>7. ErrorBeforeRows'
  BY <1>2, <1>3 DEF ErrorBeforeRows, TypeOK
<1> QED
  BY <1>4, <1>5, <1>6, <1>7

\* The sampling phase: its beginning, the goroutines, its end.
LEMMA SamplingInv ==
  /\ IInv
  /\ \/ StartSampling \/ Panic \/ WaitReturns
     \/ \E d \in Drivers : Sampling(d) \/ Tick(d)
  => IInv'
<1> SUFFICES ASSUME IInv,
                    \/ StartSampling \/ Panic \/ WaitReturns
                    \/ \E d \in Drivers : Sampling(d) \/ Tick(d)
             PROVE  IInv'
  OBVIOUS
<1>3. ASSUME NEW d \in Drivers, Sampling(d) PROVE IInv'
  <2>0. tick \in [Drivers -> BOOLEAN]
    BY DEF IInv, TypeOK
  <2>1. CASE SampleTick(d)
    <3>1. tick' \in [Drivers -> BOOLEAN]
      BY <2>0, <2>1 DEF SampleTick
    <3> QED
      BY <2>1, <3>1, SamplerMoves DEF SampleTick, envVars, stopVars
  <2>2. CASE SampleDone(d)
    BY <2>0, <2>2, SamplerMoves DEF SampleDone, envVars, stopVars
  <2>3. CASE StatsReturns(d)
    BY <2>0, <2>3, SamplerMoves DEF StatsReturns, envVars, stopVars
  <2>4. CASE StatsFails(d)
    BY <2>0, <2>4, SamplerMoves DEF StatsFails, envVars, stopVars
  <2>7. CASE WriteBlocks(d)
    BY <2>0, <2>7, SamplerMoves DEF WriteBlocks, envVars, stopVars
  <2>5. CASE WriteSample(d)
    BY <2>0, <2>5, SamplerMoves DEF WriteSample, envVars, stopVars
  <2>6. CASE WriteSampleFails(d)
    BY <2>0, <2>6, SamplerMoves DEF WriteSampleFails, envVars, stopVars
  <2> QED
    BY <1>3, <2>1, <2>2, <2>3, <2>4, <2>5, <2>6, <2>7 DEF Sampling
<1> USE KindsFact, ConstantsAssumption
    DEF IInv, TypeOK, Progress, SamplersInPhase, ErrorBeforeRows, StopProgress,
        Accounted, Before, After, Drivers, Panicked, envVars, stopVars, samplerVars
<1>1. CASE StartSampling
  BY <1>1 DEF StartSampling, SamplingDue
<1>5. CASE Panic
  BY <1>5 DEF Panic, SamplingDue, Panicked
<1>2. CASE WaitReturns
  BY <1>2 DEF WaitReturns
<1>4. ASSUME NEW d \in Drivers, Tick(d) PROVE IInv'
  BY <1>4 DEF Tick
<1> QED
  BY <1>1, <1>2, <1>3, <1>4, <1>5

\* The deferred clean-up and the end of the program.
LEMMA CleanupInv == IInv /\ Cleanup => IInv'
<1> SUFFICES ASSUME IInv, Cleanup PROVE IInv'
  OBVIOUS
<1> USE KindsFact, ConstantsAssumption
    DEF IInv, TypeOK, Progress, SamplersInPhase, ErrorBeforeRows, StopProgress,
        Accounted, Before, After, Drivers, Panicked, envVars, stopVars, samplerVars
<1>1. CASE StopProcess
  BY <1>1 DEF StopProcess
<1>2. CASE StopContainer
  BY <1>2 DEF StopContainer
<1>3. CASE StopContainerFails
  <2>1. /\ phase = "stopping" /\ cur > 0 /\ Kinds[cur] = "docker"
        /\ budget' \in 0 .. budget
        /\ stopped' = stopped \cup {cur} /\ stopErr' = stopErr \cup {cur}
        /\ cur' = cur - 1
        /\ UNCHANGED <<phase, interval, adds, live, failed, tracker, sigint, deadline, err,
                       sampler, tick, sampled, csv>>
    BY <1>3 DEF StopContainerFails
  <2>2. CASE UNCHANGED engine
    BY <2>1, <2>2
  <2>3. CASE engine' = [engine EXCEPT ![cur] = "gone"]
    BY <2>1, <2>3
  <2> QED
    BY <1>3, <2>2, <2>3 DEF StopContainerFails
<1>4. CASE EnginesStopped
  BY <1>4 DEF EnginesStopped
<1>5. CASE StopTracker
  BY <1>5 DEF StopTracker
<1>6. CASE CloseOutput
  BY <1>6 DEF CloseOutput
<1>7. CASE Fatal
  BY <1>7 DEF Fatal
<1> QED
  BY <1>1, <1>2, <1>3, <1>4, <1>5, <1>6, <1>7 DEF Cleanup

\* Every step keeps the invariant.
LEMMA InvStep == IInv /\ [Next]_vars => IInv'
<1> SUFFICES ASSUME IInv, [Next]_vars PROVE IInv'
  OBVIOUS
<1>1. CASE Interrupt
  BY <1>1 DEF Interrupt, IInv, TypeOK, Progress, SamplersInPhase, ErrorBeforeRows,
              StopProgress, Accounted, Before, After, Panicked, stopVars, samplerVars
<1>4. CASE Deadline
  BY <1>4 DEF Deadline, IInv, TypeOK, Progress, SamplersInPhase, ErrorBeforeRows,
              StopProgress, Accounted, Before, After, Panicked, stopVars, samplerVars
<1>3. ASSUME NEW d \in Drivers, EngineExit(d) PROVE IInv'
  BY <1>3 DEF EngineExit, IInv, TypeOK, Progress, SamplersInPhase, ErrorBeforeRows,
              StopProgress, Accounted, Before, After, Panicked, envVars, stopVars,
              samplerVars
<1>2. CASE UNCHANGED vars
  BY <1>2 DEF vars, IInv, TypeOK, Progress, SamplersInPhase, ErrorBeforeRows,
              StopProgress, Accounted, Panicked
<1> QED
  BY <1>1, <1>2, <1>3, <1>4, SetUpInv, StartUpInv, AddingInv, SamplingInv, CleanupInv
     DEF Next, Main, Exited

\* In every reachable state of a run the inductive invariant holds.
LEMMA Invariant == Spec => []IInv
BY InitInv, InvStep, PTL DEF Spec

-----------------------------------------------------------------------------
(* What follows                                                            *)

\* Every reachable state of a run is well typed.
THEOREM TypeCorrect == Spec => []TypeOK
<1>1. IInv => TypeOK
  BY DEF IInv
<1> QED
  BY <1>1, Invariant, PTL

\* No sampling goroutine outlives wg.Wait (runner.go Run, phase 3): Stop and
\* Close run with no Stats or WriteSample in progress, for any list of drivers.
THEOREM NoOrphanSamplerAlways == Spec => []NoOrphanSampler
<1>1. IInv => NoOrphanSampler
  BY DEF IInv, SamplersInPhase, NoOrphanSampler, After
<1> QED
  BY <1>1, Invariant, PTL

\* The tracker is stopped after every driver that came up (runner.go Run, the
\* order of the deferred functions).
THEOREM TrackerOutlivesEnginesAlways == Spec => []TrackerOutlivesEngines
<1>1. IInv => TrackerOutlivesEngines
  BY KindsFact DEF IInv, TypeOK, StopProgress, TrackerOutlivesEngines, Drivers
<1> QED
  BY <1>1, Invariant, PTL

\* Only the engine of a failed Start, a container whose Stop returned an error, or
\* the engines of a run that panics over its sample_interval can outlive the harness
\* (runner.go Run; Stop of every driver; scenario.go Load).
THEOREM LeaksExplainedAlways == Spec => []LeaksExplained
<1>1. IInv => LeaksExplained
  BY KindsFact DEF IInv, TypeOK, ErrorBeforeRows, StopProgress, Accounted, LeaksExplained,
                   Panicked, Drivers, After
<1> QED
  BY <1>1, Invariant, PTL

\* Once a row has been accepted the file gets closed (runner.go Run returns nil
\* from the sampling phase; main.go runCompare).
THEOREM SamplesSurviveAlways == Spec => []SamplesSurvive
<1>1. IInv => SamplesSurvive
  BY DEF IInv, TypeOK, ErrorBeforeRows, SamplesSurvive
<1> QED
  BY <1>1, Invariant, PTL

-----------------------------------------------------------------------------
(* Every driver is used as the interface expects                           *)

\* Only drivers that came up are stopped, in the order of the clean-up, and the
\* driver whose Start failed is the one after them.
Teardown ==
    /\ \A d \in stopped : d <= live
    /\ failed # 0 => failed = live + 1
    /\ phase = "stopping" => \A d \in stopped : d > cur

\* The order of the clean-up is kept by every step.
LEMMA TeardownStep == IInv /\ Teardown /\ [Next]_vars => Teardown'
<1> SUFFICES ASSUME IInv, Teardown, [Next]_vars PROVE Teardown'
  OBVIOUS
<1>0. /\ cur \in Int /\ live \in Nat /\ \A d \in stopped : d \in Nat
      /\ phase \in {"spawn", "ready", "tracker", "materialise", "prepare", "add", "sampling",
                    "load"} => stopped = {}
      /\ phase \in {"spawn", "ready"} => cur = live + 1
      /\ phase \in {"spawn", "ready", "prepare", "add", "sampling"} => failed = 0
      /\ phase = "stopping" => cur <= live
  BY KindsFact DEF IInv, TypeOK, Progress, StopProgress, Before, Drivers
<1> USE <1>0 DEF Teardown, stopVars
<1>1. CASE UNCHANGED <<cur, live, failed, stopped>> /\ phase' # "stopping"
  BY <1>1
<1>2. CASE UNCHANGED <<phase, cur, live, failed, stopped>>
  BY <1>2
<1>3. CASE SpawnFails \/ NotReady \/ PrepareAddFails \/ AddTorrentFails \/ WaitReturns
  BY <1>3 DEF SpawnFails, NotReady, PrepareAddFails, AddTorrentFails, WaitReturns, Unwind
<1>4. CASE Materialise \/ Ready \/ NextEngine
  BY <1>4 DEF Materialise, Ready, NextEngine
<1>5. CASE StopProcess \/ StopContainer \/ StopContainerFails
  BY <1>5 DEF StopProcess, StopContainer, StopContainerFails
<1>6. CASE \/ Load \/ LoadFails \/ StartTracker \/ StartTrackerFails \/ MaterialiseFails
           \/ Spawn \/ PrepareAdd \/ AddTorrent \/ StartSampling \/ Panic
           \/ EnginesStopped \/ StopTracker \/ CloseOutput \/ Fatal
  BY <1>1, <1>6 DEF Load, LoadFails, StartTracker, StartTrackerFails, MaterialiseFails,
        Spawn, PrepareAdd, AddTorrent, StartSampling, Panic, EnginesStopped,
        StopTracker, CloseOutput, Fatal
<1>7. ASSUME NEW d \in Drivers, Sampling(d) \/ Tick(d) \/ EngineExit(d) PROVE Teardown'
  BY <1>2, <1>7 DEF Sampling, SampleTick, SampleDone, WriteBlocks, StatsReturns, StatsFails,
        WriteSample, WriteSampleFails, Tick, EngineExit
<1>8. CASE Interrupt \/ Deadline \/ Exited \/ UNCHANGED vars
  BY <1>2, <1>8 DEF Interrupt, Deadline, Exited, vars
<1> QED
  BY <1>3, <1>4, <1>5, <1>6, <1>7, <1>8
     DEF Next, Main, SetUp, StartUp, Adding, Cleanup

\* Life, with its alternatives in an order.
LifeOf(d) ==
    IF d = failed THEN "failed"
    ELSE IF d \in stopped THEN "stopped"
    ELSE IF d <= live THEN "ready"
    ELSE IF d = cur /\ phase = "ready" THEN "starting" ELSE "new"

\* The alternatives of Life exclude one another.
LEMMA LifeCases ==
  IInv /\ Teardown => \A d \in Drivers : Life(d) = LifeOf(d)
<1> SUFFICES ASSUME IInv, Teardown, NEW d \in Drivers PROVE Life(d) = LifeOf(d)
  OBVIOUS
<1>1. d \in Nat \ {0} /\ live \in Nat /\ failed \in Nat /\ cur \in Nat
  BY KindsFact DEF IInv, TypeOK, Drivers
<1>2. /\ phase = "ready" => failed = 0 /\ stopped = {} /\ cur = live + 1
      /\ d \in stopped => d <= live
      /\ d = failed => d = live + 1
  BY <1>1 DEF IInv, TypeOK, Progress, StopProgress, Teardown, Before
<1>3. /\ d = failed => ~(d <= live)
      /\ d = failed => d \notin stopped
  BY <1>1, <1>2
<1>4. ASSUME phase = "ready" PROVE d # failed /\ (d = cur => ~(d <= live))
  BY <1>1, <1>2, <1>4
<1> QED
  BY <1>1, <1>2, <1>3, <1>4 DEF Life, LifeOf

\* The same after a step.
LEMMA LifeCasesNext ==
  (IInv /\ Teardown => \A d \in Drivers : Life(d) = LifeOf(d))'
BY LifeCases, PTL

\* The state of the contract.
LifeMap == [d \in Drivers |-> Life(d)]
BusySet == {d \in Drivers : Busy(d)}

\* The drivers with a call in progress: the one that gets a torrent, or those
\* whose goroutine is in Stats.
LEMMA BusyCases ==
  ASSUME IInv, NEW d \in Drivers, Busy(d)
  PROVE  /\ phase \in {"add", "sampling"}
         /\ d \in 1 .. Len(Kinds) /\ live = Len(Kinds) /\ failed = 0 /\ stopped = {}
BY DEF IInv, Busy, TypeOK, Progress, SamplersInPhase, StopProgress, Before, After, Drivers

\* A step that moves one driver on, while it is in no call.
LEMMA OneMoves ==
  ASSUME IInv, Teardown, IInv', Teardown', NEW c \in Drivers, NEW from, NEW to,
         LifeOf(c) = from, LifeOf(c)' = to, ~Busy(c),
         \A d \in Drivers : d # c => LifeOf(d)' = LifeOf(d),
         \A d \in Drivers : Busy(d)' <=> Busy(d)
  PROVE  Contract!Move(c, from, to)
<1>1. \A d \in Drivers : Life(d) = LifeOf(d) /\ Life(d)' = LifeOf(d)'
  BY LifeCases, LifeCasesNext
<1> QED
  BY <1>1 DEF Contract!Move

\* A step that nobody sees who only looks at the calls of the interface.
LEMMA NoneMoves ==
  ASSUME IInv, Teardown, IInv', Teardown',
         \A d \in Drivers : LifeOf(d)' = LifeOf(d),
         \A d \in Drivers : Busy(d)' <=> Busy(d)
  PROVE  UNCHANGED Contract!vars
<1>1. \A d \in Drivers : Life(d)' = Life(d)
  BY LifeCases, LifeCasesNext
<1> QED
  BY <1>1 DEF Contract!vars

\* A step that begins or ends a call of one driver.
LEMMA OneCall ==
  ASSUME IInv, Teardown, IInv', Teardown', NEW c \in Drivers,
         \A d \in Drivers : LifeOf(d)' = LifeOf(d),
         \A d \in Drivers : d # c => (Busy(d)' <=> Busy(d))
  PROVE  /\ ~Busy(c) /\ Busy(c)' /\ LifeOf(c) = "ready" => Contract!BeginCall(c)
         /\ Busy(c) /\ ~Busy(c)' => Contract!EndCall(c)
<1>1. \A d \in Drivers : Life(d) = LifeOf(d) /\ Life(d)' = Life(d)
  BY LifeCases, LifeCasesNext
<1>2. LifeMap' = LifeMap
  BY <1>1 DEF LifeMap
<1>3. ~Busy(c) /\ Busy(c)' => BusySet' = BusySet \cup {c}
  BY DEF BusySet
<1>4. Busy(c) /\ ~Busy(c)' => BusySet' = BusySet \ {c}
  BY DEF BusySet
<1> QED
  BY <1>1, <1>2, <1>3, <1>4 DEF LifeMap, BusySet, Contract!BeginCall, Contract!EndCall

\* Every step of a run is a step of the contract of one driver, or shows nothing
\* to it.
LEMMA ContractStep ==
  ASSUME IInv, Teardown, IInv', Teardown', [Next]_vars
  PROVE  [Contract!Next]_(Contract!vars)
<1>0. /\ live \in Nat /\ failed \in Nat /\ cur \in Nat /\ Len(Kinds) \in Nat
      /\ live' \in Nat /\ failed' \in Nat /\ cur' \in Nat
      /\ \A d \in Drivers : d \in Nat \ {0} /\ d <= Len(Kinds)
  <2>1. live \in Nat /\ failed \in Nat /\ cur \in Nat
    BY KindsFact DEF IInv, TypeOK
  <2>2. live' \in Nat /\ failed' \in Nat /\ cur' \in Nat
    BY KindsFact DEF IInv, TypeOK
  <2> QED
    BY <2>1, <2>2, KindsFact DEF Drivers
<1>d. \A d \in Drivers : Busy(d) => phase \in {"add", "sampling"}
  BY BusyCases
<1>a. ASSUME phase \in {"spawn", "ready"}
      PROVE  \E c \in Drivers : c = cur /\ cur = live + 1 /\ stopped = {} /\ failed = 0
  BY <1>a, KindsFact DEF IInv, TypeOK, Progress, StopProgress, Before, Drivers
<1>b. ASSUME phase \in {"prepare", "add", "sampling"}
      PROVE  /\ live = Len(Kinds) /\ stopped = {} /\ failed = 0
             /\ phase # "sampling" => \E c \in Drivers : c = cur
  BY <1>b, KindsFact DEF IInv, TypeOK, Progress, StopProgress, Before, Drivers
<1>c. ASSUME phase = "stopping", cur > 0
      PROVE  \E c \in Drivers : c = cur /\ c <= live /\ c \notin stopped /\ c # failed
  BY <1>c, KindsFact DEF IInv, TypeOK, Teardown, Drivers
<1>1. ASSUME UNCHANGED <<live, failed, stopped>>,
             phase # "ready", phase' # "ready", \A d \in Drivers : Busy(d)' <=> Busy(d)
      PROVE  UNCHANGED Contract!vars
  <2>1. \A d \in Drivers : LifeOf(d)' = LifeOf(d)
    BY <1>1 DEF LifeOf
  <2> QED
    BY <1>1, <2>1, NoneMoves
<1>2. ASSUME UNCHANGED sampler, phase # "add", phase' # "add"
      PROVE  \A d \in Drivers : Busy(d)' <=> Busy(d)
  BY <1>2 DEF Busy
<1>3. CASE \/ Load \/ LoadFails \/ StartTracker \/ StartTrackerFails \/ Materialise
           \/ MaterialiseFails \/ PrepareAddFails \/ NextEngine \/ Panic \/ WaitReturns
           \/ EnginesStopped \/ StopTracker \/ CloseOutput \/ Fatal
  <2>1. /\ UNCHANGED <<live, failed, stopped, sampler>>
        /\ phase \notin {"ready", "add"} /\ phase' \notin {"ready", "add"}
    BY <1>3 DEF Load, LoadFails, StartTracker, StartTrackerFails, Materialise,
          MaterialiseFails, PrepareAddFails, NextEngine, Panic, SamplingDue, WaitReturns,
          EnginesStopped, StopTracker, CloseOutput, Fatal, Unwind, stopVars, samplerVars
  <2> QED
    BY <1>1, <1>2, <2>1
<1>4. CASE Spawn
  <2>1. /\ phase = "spawn" /\ phase' = "ready" /\ UNCHANGED <<cur, live, failed, stopped, sampler>>
    BY <1>4 DEF Spawn, stopVars, samplerVars
  <2>a. PICK c \in Drivers : c = cur /\ c = live + 1 /\ stopped = {} /\ failed = 0
    BY <1>a, <2>1
  <2>2. /\ LifeOf(c) = "new" /\ LifeOf(c)' = "starting" /\ ~Busy(c)
        /\ \A d \in Drivers : d # c => LifeOf(d)' = LifeOf(d)
    BY <1>0, <1>d, <2>1, <2>a DEF LifeOf
  <2>3. Contract!Move(c, "new", "starting")
    BY <1>2, <2>1, <2>2, OneMoves
  <2> QED
    BY <2>2, <2>3 DEF Contract!Next, Contract!Start
<1>5. CASE SpawnFails
  <2>1. /\ phase = "spawn" /\ phase' = "stopping" /\ failed' = cur
        /\ UNCHANGED <<live, stopped, sampler>>
    BY <1>5 DEF SpawnFails, Unwind, stopVars, samplerVars
  <2>a. PICK c \in Drivers : c = cur /\ c = live + 1 /\ stopped = {} /\ failed = 0
    BY <1>a, <2>1
  <2>2. /\ LifeOf(c) = "new" /\ LifeOf(c)' = "failed" /\ ~Busy(c)
        /\ \A d \in Drivers : d # c => LifeOf(d)' = LifeOf(d)
    BY <1>0, <1>d, <2>1, <2>a DEF LifeOf
  <2>3. Contract!Move(c, "new", "failed")
    BY <1>2, <2>1, <2>2, OneMoves
  <2> QED
    BY <2>2, <2>3 DEF Contract!Next, Contract!StartFail
<1>6. CASE Ready
  <2>1. /\ phase = "ready" /\ phase' \in {"spawn", "prepare"} /\ live' = cur
        /\ UNCHANGED <<failed, stopped, sampler>>
    BY <1>6 DEF Ready, stopVars, samplerVars
  <2>a. PICK c \in Drivers : c = cur /\ c = live + 1 /\ stopped = {} /\ failed = 0
    BY <1>a, <2>1
  <2>2. /\ LifeOf(c) = "starting" /\ LifeOf(c)' = "ready" /\ ~Busy(c)
        /\ \A d \in Drivers : d # c => LifeOf(d)' = LifeOf(d)
    BY <1>0, <1>d, <2>1, <2>a DEF LifeOf
  <2>3. Contract!Move(c, "starting", "ready")
    BY <1>2, <2>1, <2>2, OneMoves
  <2> QED
    BY <2>2, <2>3 DEF Contract!Next, Contract!StartOk
<1>7. CASE NotReady
  <2>1. /\ phase = "ready" /\ phase' = "stopping" /\ failed' = cur
        /\ UNCHANGED <<live, stopped, sampler>>
    BY <1>7 DEF NotReady, Unwind, stopVars, samplerVars
  <2>a. PICK c \in Drivers : c = cur /\ c = live + 1 /\ stopped = {} /\ failed = 0
    BY <1>a, <2>1
  <2>2. /\ LifeOf(c) = "starting" /\ LifeOf(c)' = "failed" /\ ~Busy(c)
        /\ \A d \in Drivers : d # c => LifeOf(d)' = LifeOf(d)
    BY <1>0, <1>d, <2>1, <2>a DEF LifeOf
  <2>3. Contract!Move(c, "starting", "failed")
    BY <1>2, <2>1, <2>2, OneMoves
  <2> QED
    BY <2>2, <2>3 DEF Contract!Next, Contract!StartFail
<1>8. ASSUME PrepareAdd \/ AddTorrent \/ AddTorrentFails
      PROVE  [Contract!Next]_(Contract!vars)
  <2>1. /\ UNCHANGED <<live, failed, stopped, sampler>>
        /\ \/ phase = "prepare" /\ phase' = "add" /\ UNCHANGED cur
           \/ phase = "add" /\ phase' \in {"prepare", "stopping"}
    BY <1>8 DEF PrepareAdd, AddTorrent, AddTorrentFails, Unwind, stopVars, samplerVars
  <2>2. PICK c \in Drivers : c = cur
    BY <1>b, <2>1
  <2>3. /\ LifeOf(c) = "ready"
        /\ \A d \in Drivers : LifeOf(d)' = LifeOf(d)
    BY <1>0, <1>b, <2>1 DEF LifeOf
  <2>4. \A d \in Drivers : sampler[d] = "none" /\ sampler'[d] = "none"
    BY <2>1 DEF IInv, SamplersInPhase, Before
  <2>5. \A d \in Drivers : d # c => ~Busy(d) /\ ~Busy(d)'
    BY <2>1, <2>2, <2>4 DEF Busy
  <2>6. CASE phase = "prepare"
    <3>1. ~Busy(c) /\ Busy(c)'
      BY <2>1, <2>2, <2>4, <2>6 DEF Busy
    <3> QED
      BY <2>3, <2>5, <3>1, OneCall DEF Contract!Next
  <2>7. CASE phase = "add"
    <3>1. Busy(c) /\ ~Busy(c)'
      BY <2>1, <2>2, <2>4, <2>7 DEF Busy
    <3> QED
      BY <2>3, <2>5, <3>1, OneCall DEF Contract!Next
  <2> QED
    BY <2>1, <2>6, <2>7
<1>9. CASE StartSampling
  <2>1. /\ UNCHANGED <<live, failed, stopped>> /\ phase = "prepare" /\ phase' = "sampling"
        /\ sampler' = [d \in Drivers |-> "select"]
    BY <1>9 DEF StartSampling, SamplingDue, stopVars
  <2>2. \A d \in Drivers : sampler[d] \notin {"stats", "blocked"}
    BY <2>1 DEF IInv, SamplersInPhase, Before
  <2>3. \A d \in Drivers : Busy(d)' <=> Busy(d)
    BY <2>1, <2>2 DEF Busy
  <2> QED
    BY <1>1, <2>1, <2>3
<1>10. CASE StopProcess \/ StopContainer \/ StopContainerFails
  <2>1. /\ phase = "stopping" /\ cur > 0 /\ stopped' = stopped \cup {cur}
        /\ UNCHANGED <<phase, live, failed, sampler>>
    BY <1>10 DEF StopProcess, StopContainer, StopContainerFails, stopVars, samplerVars
  <2>2. PICK c \in Drivers : c = cur /\ c <= live /\ c \notin stopped /\ c # failed
    BY <1>c, <2>1
  <2>3. /\ LifeOf(c) = "ready" /\ LifeOf(c)' = "stopped" /\ ~Busy(c)
        /\ \A d \in Drivers : d # c => LifeOf(d)' = LifeOf(d)
    BY <1>0, <1>d, <2>1, <2>2 DEF LifeOf
  <2>4. Contract!Move(c, "ready", "stopped")
    BY <1>2, <2>1, <2>3, OneMoves
  <2> QED
    BY <2>4 DEF Contract!Next, Contract!Stop
<1>11. ASSUME NEW d \in Drivers, Sampling(d) PROVE [Contract!Next]_(Contract!vars)
  <2>1. UNCHANGED <<phase, cur, live, failed, stopped>>
    BY <1>11 DEF stopVars, Sampling, SampleTick, SampleDone, WriteBlocks, StatsReturns,
                 StatsFails, WriteSample, WriteSampleFails
  <2>2. sampler \in [Drivers -> {"none", "select", "stats", "blocked", "write", "done"}]
    BY DEF IInv, TypeOK
  <2>3. sampler[d] \notin {"none", "done"}
    BY <1>11 DEF Sampling, SampleTick, SampleDone, WriteBlocks, StatsReturns,
                 StatsFails, WriteSample, WriteSampleFails, Sampler
  <2>4. phase = "sampling"
    BY <2>2, <2>3 DEF IInv, TypeOK, SamplersInPhase, Before, After
  <2>5. /\ LifeOf(d) = "ready" /\ \A e \in Drivers : LifeOf(e)' = LifeOf(e)
    BY <1>0, <1>b, <2>1, <2>4 DEF LifeOf
  <2>6. \A e \in Drivers : e # d => sampler'[e] = sampler[e]
    BY <1>11, <2>2 DEF Sampling, SampleTick, SampleDone, WriteBlocks, StatsReturns,
                       StatsFails, WriteSample, WriteSampleFails, Sampler
  <2>7. \A e \in Drivers : e # d => (Busy(e)' <=> Busy(e))
    BY <2>1, <2>6 DEF Busy
  <2>8. CASE SampleTick(d)
    <3>1. ~Busy(d) /\ Busy(d)'
      BY <2>2, <2>4, <2>8 DEF SampleTick, Sampler, Busy
    <3> QED
      BY <2>5, <2>7, <3>1, OneCall DEF Contract!Next
  <2>9. CASE StatsReturns(d) \/ StatsFails(d)
    <3>1. Busy(d) /\ ~Busy(d)'
      BY <2>1, <2>2, <2>4, <2>9 DEF StatsReturns, StatsFails, Sampler, Busy
    <3> QED
      BY <2>5, <2>7, <3>1, OneCall DEF Contract!Next
  <2>10. CASE SampleDone(d) \/ WriteBlocks(d) \/ WriteSample(d) \/ WriteSampleFails(d)
    <3>1. Busy(d)' <=> Busy(d)
      BY <2>1, <2>2, <2>4, <2>10
         DEF SampleDone, WriteBlocks, WriteSample, WriteSampleFails, Sampler, Busy
    <3> QED
      BY <2>5, <2>7, <3>1, NoneMoves
  <2> QED
    BY <1>11, <2>8, <2>9, <2>10 DEF Sampling
<1>12. ASSUME UNCHANGED <<phase, cur, live, failed, stopped, sampler>>
       PROVE  UNCHANGED Contract!vars
  BY <1>12, NoneMoves DEF LifeOf, Busy
<1>13. ASSUME NEW d \in Drivers, Tick(d) \/ EngineExit(d)
       PROVE  UNCHANGED Contract!vars
  BY <1>12, <1>13 DEF Tick, EngineExit, stopVars, samplerVars
<1>14. CASE Interrupt \/ Deadline \/ Exited \/ UNCHANGED vars
  BY <1>12, <1>14 DEF Interrupt, Deadline, Exited, vars, stopVars, samplerVars
<1> QED
  BY <1>3, <1>4, <1>5, <1>6, <1>7, <1>8, <1>9, <1>10, <1>11, <1>13, <1>14
     DEF Next, Main, SetUp, StartUp, Adding, Cleanup

\* Whatever fails, dies or is interrupted, every driver gets one Start, then its
\* calls one at a time, then at most one Stop with no call in progress
\* (runner.go Run; driver.go Driver), for any list of drivers.
THEOREM DriversUsedAsSpecifiedAlways == Spec => DriversUsedAsSpecified
<1>1. Init => Teardown /\ Contract!Init
  <2> SUFFICES ASSUME Init PROVE Teardown /\ Contract!Init
    OBVIOUS
  <2>1. Teardown
    BY DEF Init, Teardown
  <2>2. \A d \in Drivers : LifeOf(d) = "new" /\ ~Busy(d)
    BY KindsFact DEF Init, LifeOf, Busy, Drivers
  <2> QED
    BY <2>1, <2>2, InitInv, LifeCases DEF Contract!Init
<1>2. IInv /\ Teardown /\ IInv' /\ [Next]_vars => Teardown' /\ [Contract!Next]_(Contract!vars)
  BY TeardownStep, ContractStep
<1> QED
  BY <1>1, <1>2, InitInv, InvStep, PTL DEF Spec, DriversUsedAsSpecified, Contract!Spec
=============================================================================
