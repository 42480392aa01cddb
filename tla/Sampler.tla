------------------------------ MODULE Sampler ------------------------------
(***************************************************************************)
(* The sampling goroutine of one driver (internal/runner/runner.go, phase  *)
(* 3) in discrete time, with the driver's Stats broken into its requests:  *)
(* the ticker and its one-place channel, the deadline each sample gets,    *)
(* the end of the run, and what each driver makes of a request that fails. *)
(*                                                                         *)
(* Time passes only while the goroutine waits: for a tick, for an engine   *)
(* that has not answered yet, or in typhon's conn.Write, which no context  *)
(* ends.  What it computes between two waits takes no time at the scale of *)
(* a sampling interval.                                                    *)
(***************************************************************************)
EXTENDS Integers, Sequences

CONSTANTS
    Interval,       \* SampleInterval
    Duration,       \* length of the scenario
    Programs,       \* what the Stats of a driver can be: sequences of requests
    MaxBytes,       \* bound on the engine's cumulative counter
    MaxLate         \* bound on the time a blocked write is followed after
                    \* the deadline of its sample

Fields == {"up", "down", "count"}   \* UploadedTotal, DownloadedTotal, TorrentsTotal
Handling == {"fail", "zero", "either"}  \* Stats returns the error, goes on with 0
Request == [fills : SUBSET Fields, onError : Handling, onRefusal : Handling]

ASSUME ConstantsAssumption ==
    /\ Interval \in Nat \ {0}
    /\ Duration \in Nat \ {0}
    /\ \A p \in Programs :
          /\ p \in Seq(Request) /\ p # <<>>
          /\ \A f \in {"up", "down"} : \E i \in 1 .. Len(p) : f \in p[i].fills
    /\ MaxBytes \in Nat
    /\ MaxLate \in Nat

-----------------------------------------------------------------------------
(* Stats of each driver                                                    *)

Req(fills, onError, onRefusal) ==
    [fills |-> fills, onError |-> onError, onRefusal |-> onRefusal]

\* The {"error": ...} body of a refusal decodes into a zero typhonSessionStats.
TyphonStats == << Req(Fields, "fail", "zero") >>

RainStats == << Req(Fields, "fail", "fail") >>

\* The HTTP status is not looked at, and an error body is JSON as well.
RqbitStats == << Req({"up", "down"}, "fail", "zero"), Req({"count"}, "fail", "zero") >>

\* qBittorrent refuses in plain text, which does not decode.
QbitStats == << Req({"up", "down"}, "fail", "fail"), Req({"count"}, "fail", "fail") >>

\* An HTTP status fails session-stats, another "result" than success is not looked
\* at.  An error of torrent-get is dropped, and with it both totals.
TransmissionStats ==
    << Req({"count"}, "fail", "either"), Req({"up", "down"}, "zero", "zero") >>

\* Two rates, two totals, the list, then two requests per torrent (here one):
\* every error is dropped.
RtorrentStats ==
    << Req({}, "zero", "zero"), Req({}, "zero", "zero"),
       Req({"up"}, "zero", "zero"), Req({"down"}, "zero", "zero"),
       Req({"count"}, "zero", "zero"),
       Req({}, "zero", "zero"), Req({}, "zero", "zero") >>

-----------------------------------------------------------------------------

VARIABLES
    program,    \* the requests of the driver's Stats, in order
    now,        \* the clock
    nextTick,   \* when the ticker fires next
    tick,       \* the time in the ticker's channel, 0 when it is empty
    lost,       \* the last tick that found the channel full, 0 if none did
    overdue,    \* the last time at which a write had outlived its context
    sigint,     \* main's context is cancelled
    sigAt,      \* since when
    pc,         \* where the goroutine is
    step,       \* the request of program it is at
    rowTs,      \* the timestamp of the sample being taken
    callBy,     \* the deadline of its context sCtx
    row,        \* the Stats being filled in
    hidden,     \* Stats has dropped an error on the way
    last,       \* the last row written
    engine,     \* the engine
    bytes       \* its cumulative counter (one for both directions)

vars == <<program, now, nextTick, tick, lost, overdue, sigint, sigAt, pc, step, rowTs,
          callBy, row, hidden, last, engine, bytes>>
clockVars  == <<now, nextTick, lost, overdue>>
signalVars == <<sigint, sigAt>>
sampleVars == <<rowTs, callBy, row, hidden>>
engineVars == <<engine, bytes>>

Stats == [Fields -> Nat]
NoStats == [f \in Fields |-> 0]

TypeOK ==
    /\ program \in Programs
    /\ now \in Nat /\ nextTick \in Nat /\ tick \in Nat
    /\ lost \in Nat /\ overdue \in Nat /\ sigint \in BOOLEAN /\ sigAt \in Nat
    /\ pc \in {"select", "send", "blocked", "wait", "write", "done"}
    /\ step \in Nat \ {0}
    /\ pc \in {"send", "blocked", "wait"} => step <= Len(program)
    /\ rowTs \in Nat /\ callBy \in Nat
    /\ row \in Stats /\ hidden \in BOOLEAN
    /\ last \in Stats
    /\ engine \in {"up", "gone"}
    /\ bytes \in 0 .. MaxBytes

Init ==
    /\ program \in Programs
    /\ now = 0 /\ nextTick = Interval /\ tick = 0 /\ lost = 0 /\ overdue = 0
    /\ sigint = FALSE /\ sigAt = 0
    /\ pc = "select" /\ step = 1
    /\ rowTs = 0 /\ callBy = 0
    /\ row = NoStats /\ hidden = FALSE
    /\ last = NoStats
    /\ engine = "up" /\ bytes = 0

\* runCtx and, below it, sCtx.
RunDone == sigint \/ now >= Duration
CtxDone == sigint \/ now >= callBy

\* rtorrent's socket gets the deadline of the context, and nothing else of it: a
\* request in flight does not notice SIGINT.
InterruptsWait == program # RtorrentStats

\* typhon's call looks at its context only when it waits for the reply, in a select
\* that may find both ready.
Typhon == program = TyphonStats

-----------------------------------------------------------------------------
(* The goroutine                                                           *)

\* Mutants: sCtx without a deadline of its own; sCtx not derived from runCtx.
NoSampleDeadline(t) == Duration
BackgroundDeadline(t) == t + Interval

\* context.WithTimeout(runCtx, SampleInterval): the earlier of both deadlines.
Deadline(t) == IF t + Interval < Duration THEN t + Interval ELSE Duration

\* Mutant: a sample taken without emptying the ticker's channel.
PeekTick ==
    /\ pc = "select" /\ tick # 0
    /\ pc' = "send" /\ step' = 1
    /\ rowTs' = tick
    /\ callBy' = Deadline(now)
    /\ row' = NoStats /\ hidden' = FALSE
    /\ UNCHANGED <<program, clockVars, signalVars, tick, last, engineVars>>

TakeTick ==
    /\ pc = "select" /\ tick # 0
    /\ pc' = "send" /\ step' = 1
    /\ rowTs' = tick /\ tick' = 0
    /\ callBy' = Deadline(now)
    /\ row' = NoStats /\ hidden' = FALSE
    /\ UNCHANGED <<program, clockVars, signalVars, last, engineVars>>

SeeDone ==
    /\ pc = "select" /\ RunDone
    /\ pc' = "done"
    /\ UNCHANGED <<program, clockVars, signalVars, tick, step, sampleVars, last,
                   engineVars>>

\* The context is checked when a request is made.
Send ==
    /\ pc = "send" /\ engine = "up"
    /\ Typhon \/ ~CtxDone
    /\ pc' = "wait"
    /\ UNCHANGED <<program, clockVars, signalVars, tick, step, sampleVars, last,
                   engineVars>>

\* Requests that a hanging typhon has not read fill the socket.
WriteBlocks ==
    /\ pc = "send" /\ engine = "up" /\ Typhon
    /\ pc' = "blocked"
    /\ UNCHANGED <<program, clockVars, signalVars, tick, step, sampleVars, last,
                   engineVars>>

\* The engine reads again, whenever that is.
WriteReturns ==
    /\ pc = "blocked" /\ engine = "up"
    /\ pc' = "wait"
    /\ UNCHANGED <<program, clockVars, signalVars, tick, step, sampleVars, last,
                   engineVars>>

\* Mutant: one request too many.
AdvancePastEnd ==
    IF step <= Len(program) THEN pc' = "send" /\ step' = step + 1
                            ELSE pc' = "write" /\ UNCHANGED step

\* The next request, or the end of Stats.
Advance ==
    IF step < Len(program) THEN pc' = "send" /\ step' = step + 1
                           ELSE pc' = "write" /\ UNCHANGED step

\* Mutant: the increase since the last row.
FillDelta(fields, n) ==
    row' = [f \in Fields |-> IF f \in fields THEN n - last[f] ELSE row[f]]

Fill(fields, n) == row' = [f \in Fields |-> IF f \in fields THEN n ELSE row[f]]

Answer ==
    /\ pc = "wait" /\ engine = "up"
    /\ Typhon \/ (now < callBy /\ (InterruptsWait => ~sigint))
    /\ Fill(program[step].fills, bytes)
    /\ Advance
    /\ UNCHANGED <<program, clockVars, signalVars, tick, rowTs, callBy, hidden, last,
                   engineVars>>

Handle(how) ==
    \/ how # "zero" /\ pc' = "select" /\ UNCHANGED <<step, hidden>>
    \/ how # "fail" /\ Advance /\ hidden' = TRUE

Refusal ==
    /\ pc = "wait" /\ engine = "up"
    /\ Typhon \/ (now < callBy /\ (InterruptsWait => ~sigint))
    /\ Handle(program[step].onRefusal)
    /\ UNCHANGED <<program, clockVars, signalVars, tick, rowTs, callBy, row, last,
                   engineVars>>

\* The context has ended, the connection is refused or breaks, or the client's
\* own timeout comes first.  A blocked write fails only if the engine exits.
RequestFails ==
    /\ pc \in {"send", "wait"} \/ (pc = "blocked" /\ engine = "gone")
    /\ Handle(program[step].onError)
    /\ UNCHANGED <<program, clockVars, signalVars, tick, rowTs, callBy, row, last,
                   engineVars>>

WriteRow ==
    /\ pc = "write"
    /\ pc' = "select"
    /\ last' = row
    /\ UNCHANGED <<program, clockVars, signalVars, tick, step, sampleVars, engineVars>>

\* The CSV writer refuses the row: it is logged and forgotten.
WriteFails ==
    /\ pc = "write"
    /\ pc' = "select"
    /\ UNCHANGED <<program, clockVars, signalVars, tick, step, sampleVars, last,
                   engineVars>>

-----------------------------------------------------------------------------
(* The environment                                                         *)

\* Nothing to do before something happens outside.
Waiting ==
    \/ pc = "select" /\ tick = 0 /\ ~RunDone
    \/ pc = "wait" /\ now < callBy /\ ~(sigint /\ InterruptsWait)
    \/ pc = "blocked" /\ engine = "up" /\ now < callBy + MaxLate

\* The clock, with the ticker: a tick that finds its channel full is dropped.
TimePasses ==
    /\ Waiting
    /\ now' = now + 1
    /\ IF now + 1 = nextTick
         THEN /\ nextTick' = nextTick + Interval
              /\ tick' = IF tick = 0 THEN nextTick ELSE tick
              /\ lost' = IF tick = 0 THEN lost ELSE nextTick
         ELSE UNCHANGED <<nextTick, tick, lost>>
    /\ overdue' = IF pc = "blocked" /\ CtxDone THEN now + 1 ELSE overdue
    /\ UNCHANGED <<program, signalVars, pc, step, sampleVars, last, engineVars>>

Interrupt ==
    /\ pc # "done" /\ ~sigint
    /\ sigint' = TRUE /\ sigAt' = now
    /\ UNCHANGED <<program, clockVars, tick, pc, step, sampleVars, last, engineVars>>

Transfer ==
    /\ engine = "up" /\ pc # "done" /\ bytes < MaxBytes
    /\ bytes' = bytes + 1
    /\ UNCHANGED <<program, clockVars, signalVars, tick, pc, step, sampleVars, last,
                   engine>>

EngineExit ==
    /\ engine = "up" /\ pc # "done"
    /\ engine' = "gone"
    /\ UNCHANGED <<program, clockVars, signalVars, tick, pc, step, sampleVars, last,
                   bytes>>

Ended == pc = "done" /\ UNCHANGED vars

Next ==
    \/ TakeTick \/ SeeDone \/ Send \/ WriteBlocks \/ WriteReturns
    \/ Answer \/ Refusal \/ RequestFails
    \/ WriteRow \/ WriteFails
    \/ TimePasses \/ Interrupt \/ Transfer \/ EngineExit
    \/ Ended

Spec == Init /\ [][Next]_vars

-----------------------------------------------------------------------------
(* Properties                                                              *)

\* Every tick of the ticker leads to a sample attempt: the deadline of a sample
\* ends before the next tick needs the channel, however slow the engine is.  Only
\* the ticks that fire while a write of typhon has outlived its context get lost.
NoTickLost == lost <= overdue

\* The counters of a row are read at most one interval after the time in its
\* first column, and never before it.  An overdue write of typhon puts the samples
\* out of step with the ticker; after it, all but the tick that had been waiting in
\* the channel meanwhile are sampled within two.
RowIsFresh ==
    pc \in {"send", "wait", "write"} =>
        /\ rowTs <= now
        /\ overdue = 0 => now <= rowTs + Interval
        /\ overdue <= rowTs => now < rowTs + 2 * Interval

\* The goroutine, and with it Run, is over when the duration has elapsed, and
\* at most one interval after SIGINT; or else as soon as an overdue write returns.
EndsInTime ==
    pc # "done" =>
        /\ now <= Duration \/ now = overdue
        /\ sigint => now <= sigAt + Interval \/ now = overdue

Drops == last'["up"] < last["up"] \/ last'["down"] < last["down"]

\* driver.go:118 "Counters are cumulative since engine start": from one row of
\* an engine to the next they do not go down.
TotalsNeverDrop == [][~Drops]_vars

\* They do so only in a row for which Stats has dropped an error: of all six
\* drivers no sequence of failures, restarts of Stats and late answers does it
\* otherwise.
DropsOnlyWhenHidden == [][Drops => hidden]_vars
=============================================================================
