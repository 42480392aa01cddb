--------------------------- MODULE SamplerProofs ---------------------------
(***************************************************************************)
(* Proofs about Sampler, for every interval, every duration, every time a  *)
(* write can be late and every sequence of requests that asks for both     *)
(* totals.                                                                 *)
(***************************************************************************)
EXTENDS Sampler, TLAPS

InSample == {"send", "blocked", "wait", "write"}

\* The length and the elements of a program.
LEMMA ProgramFact ==
  ASSUME program \in Programs
  PROVE  /\ Len(program) \in Nat /\ Len(program) >= 1
         /\ \A f \in {"up", "down"} : \E i \in 1 .. Len(program) : f \in program[i].fills
<1>1. program \in Seq(Request) /\ program # <<>>
  BY ConstantsAssumption
<1>2. Len(program) \in Nat /\ Len(program) >= 1
  BY <1>1
<1> QED
  BY <1>2, ConstantsAssumption

\* The constants that are numbers.
LEMMA NumbersFact ==
  /\ Interval \in Nat \ {0} /\ Duration \in Nat \ {0}
  /\ MaxBytes \in Nat /\ MaxLate \in Nat
BY ConstantsAssumption

\* The deadline of a sample is at most one interval away, within the run, and not
\* in the past unless the run is.
LEMMA DeadlineFact ==
  ASSUME NEW t \in Nat
  PROVE  /\ Deadline(t) \in Nat
         /\ Deadline(t) <= t + Interval /\ Deadline(t) <= Duration
         /\ t <= Duration => t <= Deadline(t)
BY NumbersFact DEF Deadline

\* A request of typhon in flight notices SIGINT.
LEMMA TyphonFact == Typhon => InterruptsWait
<1>1. Len(TyphonStats) = 1 /\ Len(RtorrentStats) = 7
  BY DEF TyphonStats, RtorrentStats
<1> QED
  BY <1>1 DEF Typhon, InterruptsWait

-----------------------------------------------------------------------------
(* Time                                                                    *)

\* The ticker: the next tick is due within an interval, and the tick in the channel
\* is the one before it unless others have been lost meanwhile.
TickerInv ==
    /\ now < nextTick /\ nextTick <= now + Interval
    /\ tick <= now
    /\ tick # 0 => nextTick = tick + Interval \/ tick < lost
    /\ lost <= overdue /\ overdue <= now

\* A sample ends by its deadline, or as soon as an overdue write returns; a tick
\* that finds the channel full comes after the deadline.
SampleInv ==
    /\ pc = "blocked" => program = TyphonStats
    /\ pc # "done" => now <= Duration \/ now = overdue
    /\ pc \in InSample =>
          /\ rowTs <= now
          /\ now <= callBy \/ now = overdue
          /\ callBy <= now + Interval /\ callBy <= Duration
          /\ tick # 0 => callBy < nextTick
          /\ overdue <= rowTs => callBy < rowTs + 2 * Interval

\* Before the first overdue write each sample is in step with the ticker.
InStepInv ==
    overdue = 0 =>
        /\ tick # 0 => tick = now
        /\ pc \in InSample =>
              /\ callBy <= rowTs + Interval /\ callBy <= nextTick
              /\ tick # 0 => callBy <= now

\* After SIGINT only a request that is already in flight, of rtorrent, makes the
\* goroutine wait, or an overdue write.
SignalInv ==
    sigint =>
        /\ sigAt <= now
        /\ pc # "done" => now <= sigAt + Interval \/ now = overdue
        /\ pc = "wait" /\ ~InterruptsWait => callBy <= sigAt + Interval

IInv == TypeOK /\ TickerInv /\ SampleInv /\ InStepInv /\ SignalInv

\* The invariant holds when the goroutine starts.
LEMMA InitInv == Init => IInv
<1> SUFFICES ASSUME Init PROVE IInv
  OBVIOUS
<1>1. NoStats \in Stats
  BY DEF NoStats, Stats
<1>2. TypeOK
  <2>1. row \in Stats /\ last \in Stats
    BY <1>1 DEF Init
  <2>2. bytes \in 0 .. MaxBytes /\ now \in Nat /\ nextTick \in Nat
    BY NumbersFact DEF Init
  <2>3. hidden \in BOOLEAN /\ sigint \in BOOLEAN
    BY DEF Init
  <2>4. /\ tick \in Nat /\ sigAt \in Nat /\ rowTs \in Nat /\ callBy \in Nat
        /\ lost \in Nat /\ overdue \in Nat /\ step \in Nat \ {0}
    BY DEF Init
  <2>5. pc = "select" /\ engine = "up" /\ program \in Programs
    BY DEF Init
  <2> QED
    BY <2>1, <2>2, <2>3, <2>4, <2>5 DEF TypeOK
<1>3. TickerInv /\ SampleInv /\ InStepInv /\ SignalInv
  BY NumbersFact DEF Init, TickerInv, SampleInv, InStepInv, SignalInv, InSample
<1> QED
  BY <1>2, <1>3 DEF IInv

\* Moving on to the next request, or to the end of Stats, is well typed.
LEMMA AdvanceFact ==
  ASSUME program \in Programs, step \in Nat \ {0}, step <= Len(program), Advance
  PROVE  /\ step' \in Nat \ {0}
         /\ \/ pc' = "send" /\ step' = step + 1 /\ step' <= Len(program)
            \/ pc' = "write" /\ step' = step /\ step = Len(program)
BY ProgramFact DEF Advance

\* What a driver does about a failed request, without the details.
LEMMA HandleFact ==
  ASSUME program \in Programs, step \in Nat \ {0}, step <= Len(program),
         hidden \in BOOLEAN, NEW how, Handle(how)
  PROVE  /\ step' \in Nat \ {0}
         /\ pc' \in {"send", "write", "select"}
         /\ pc' = "send" => step' <= Len(program)
         /\ hidden' \in BOOLEAN
         /\ pc' # "select" => hidden'
BY AdvanceFact DEF Handle

\* The steps of the goroutine keep the invariant.
LEMMA GoroutineInv ==
  IInv /\ (TakeTick \/ SeeDone \/ Send \/ WriteBlocks \/ WriteReturns \/ Answer
             \/ Refusal \/ RequestFails \/ WriteRow \/ WriteFails) => IInv'
<1> SUFFICES ASSUME IInv,
                    TakeTick \/ SeeDone \/ Send \/ WriteBlocks \/ WriteReturns \/ Answer
                      \/ Refusal \/ RequestFails \/ WriteRow \/ WriteFails
             PROVE  IInv'
  OBVIOUS
<1> USE NumbersFact
    DEF IInv, TypeOK, TickerInv, SampleInv, InStepInv, SignalInv, InSample, clockVars,
        signalVars, sampleVars, engineVars
<1>1. CASE TakeTick
  <2>1. /\ Deadline(now) \in Nat /\ Deadline(now) <= now + Interval
        /\ Deadline(now) <= Duration
        /\ now <= Deadline(now) \/ now = overdue
    BY <1>1, DeadlineFact DEF TakeTick
  <2>2. NoStats \in Stats
    BY DEF NoStats, Stats
  <2>3. /\ pc = "select" /\ pc' = "send" /\ step' = 1 /\ tick # 0
        /\ rowTs' = tick /\ tick' = 0 /\ callBy' = Deadline(now)
        /\ row' = NoStats /\ hidden' = FALSE
        /\ UNCHANGED <<program, now, nextTick, lost, overdue, sigint, sigAt, last, engine,
                       bytes>>
    BY <1>1 DEF TakeTick
  <2>4. overdue <= tick => Deadline(now) < tick + 2 * Interval
    <3>1. overdue <= tick => now < tick + Interval
      BY <2>3
    <3> QED
      BY <2>1, <3>1
  <2>5. TypeOK'
    <3>1. step' <= Len(program')
      BY <2>3, ProgramFact
    <3>2. hidden' \in BOOLEAN /\ sigint' \in BOOLEAN
      BY <2>3
    <3>3. row' \in Stats /\ last' \in Stats
      BY <2>2, <2>3
    <3>4. /\ program' \in Programs /\ engine' \in {"up", "gone"}
          /\ pc' \in {"select", "send", "blocked", "wait", "write", "done"}
      BY <2>3
    <3>5. /\ now' \in Nat /\ nextTick' \in Nat /\ tick' \in Nat /\ lost' \in Nat
          /\ overdue' \in Nat /\ sigAt' \in Nat /\ step' \in Nat \ {0}
          /\ rowTs' \in Nat /\ callBy' \in Nat /\ bytes' \in 0 .. MaxBytes
      BY <2>1, <2>3
    <3> QED
      BY <3>1, <3>2, <3>3, <3>4, <3>5
  <2>6. TickerInv'
    BY <2>3
  <2>7. SampleInv'
    BY <2>1, <2>3, <2>4
  <2>8. InStepInv'
    BY <2>1, <2>3
  <2>9. SignalInv'
    BY <2>3
  <2> QED
    BY <2>5, <2>6, <2>7, <2>8, <2>9
<1>2. CASE SeeDone
  BY <1>2 DEF SeeDone
<1>3. CASE Send
  <2>1. sigint => InterruptsWait
    BY <1>3, TyphonFact DEF Send, CtxDone
  <2>2. InterruptsWait' = InterruptsWait
    BY <1>3 DEF Send, InterruptsWait
  <2> QED
    BY <1>3, <2>1, <2>2 DEF Send
<1>4. CASE WriteBlocks
  BY <1>4 DEF WriteBlocks, Typhon
<1>5. CASE WriteReturns
  BY <1>5, TyphonFact DEF WriteReturns, Typhon, InterruptsWait
<1>6. CASE Answer
  <2>1. row' \in Stats
    BY <1>6 DEF Answer, Fill, Stats
  <2>2. /\ step' \in Nat \ {0} /\ pc' \in {"send", "write"}
        /\ pc' = "send" => step' <= Len(program)
    BY <1>6, AdvanceFact, ProgramFact DEF Answer
  <2> QED
    BY <1>6, <2>1, <2>2 DEF Answer
<1>7. CASE Refusal
  <2>1. /\ step' \in Nat \ {0} /\ pc' \in {"send", "write", "select"}
        /\ pc' = "send" => step' <= Len(program)
        /\ hidden' \in BOOLEAN
    BY <1>7, HandleFact DEF Refusal
  <2> QED
    BY <1>7, <2>1 DEF Refusal
<1>8. CASE RequestFails
  <2>1. /\ step' \in Nat \ {0} /\ pc' \in {"send", "write", "select"}
        /\ pc' = "send" => step' <= Len(program)
        /\ hidden' \in BOOLEAN
    BY <1>8, HandleFact DEF RequestFails
  <2> QED
    BY <1>8, <2>1 DEF RequestFails
<1>9. CASE WriteRow
  BY <1>9 DEF WriteRow
<1>10. CASE WriteFails
  BY <1>10 DEF WriteFails
<1> QED
  BY <1>1, <1>2, <1>3, <1>4, <1>5, <1>6, <1>7, <1>8, <1>9, <1>10

\* While time passes the goroutine waits for a tick, for an answer that may still
\* come, or for a write, and in the last case only it may have outlived its context.
LEMMA WaitFact ==
  ASSUME IInv, TimePasses
  PROVE  /\ now' = now + 1 /\ pc \in {"select", "wait", "blocked"}
         /\ UNCHANGED <<program, sigint, sigAt, pc, step, rowTs, callBy, row, hidden, last,
                        engine, bytes>>
         /\ \/ overdue' = now + 1 /\ pc = "blocked"
            \/ /\ UNCHANGED overdue
               /\ pc = "select" => tick = 0 /\ ~sigint /\ now < Duration
               /\ pc # "select" => now < callBy
               /\ pc = "wait" /\ sigint => ~InterruptsWait
               /\ pc = "blocked" => ~sigint
<1> USE NumbersFact DEF IInv, TypeOK
<1>1. CASE pc = "blocked"
  BY <1>1 DEF TimePasses, CtxDone, sampleVars, signalVars, engineVars
<1>2. CASE pc # "blocked"
  BY <1>2 DEF TimePasses, Waiting, RunDone, sampleVars, signalVars, engineVars
<1> QED
  BY <1>1, <1>2

\* The clock and the ticker keep the invariant.
LEMMA TimeInv == IInv /\ TimePasses => IInv'
<1> SUFFICES ASSUME IInv, TimePasses PROVE IInv'
  OBVIOUS
<1> USE NumbersFact, WaitFact
    DEF IInv, TypeOK, TickerInv, SampleInv, InStepInv, SignalInv, InSample
<1>1. \/ /\ now' = nextTick /\ nextTick' = nextTick + Interval
         /\ \/ tick = 0 /\ tick' = nextTick /\ UNCHANGED lost
            \/ tick # 0 /\ tick' = tick /\ lost' = nextTick
      \/ now' < nextTick /\ UNCHANGED <<nextTick, tick, lost>>
  BY DEF TimePasses
<1>2. now' # nextTick \/ tick = 0 \/ overdue' = now'
  OBVIOUS
<1>3. TypeOK'
  <2>1. /\ now' \in Nat /\ nextTick' \in Nat /\ tick' \in Nat /\ lost' \in Nat
        /\ overdue' \in Nat
    BY <1>1
  <2> QED
    BY <2>1
<1>4. TickerInv'
  <2>1. now' < nextTick' /\ nextTick' <= now' + Interval /\ tick' <= now'
    BY <1>1
  <2>2. tick' # 0 => nextTick' = tick' + Interval \/ tick' < lost'
    BY <1>1
  <2>3. lost' <= overdue' /\ overdue' <= now'
    BY <1>1, <1>2
  <2> QED
    BY <2>1, <2>2, <2>3
<1>5. SampleInv'
  <2>1. pc' # "done" => now' <= Duration \/ now' = overdue'
    OBVIOUS
  <2>2. ASSUME pc' \in InSample
        PROVE  /\ rowTs' <= now'
               /\ now' <= callBy' \/ now' = overdue'
               /\ callBy' <= now' + Interval /\ callBy' <= Duration
               /\ overdue' <= rowTs' => callBy' < rowTs' + 2 * Interval
    BY <2>2
  <2>3. ASSUME pc' \in InSample, tick' # 0
        PROVE  callBy' < nextTick'
    BY <1>1, <2>3
  <2> QED
    BY <2>1, <2>2, <2>3
<1>6. InStepInv'
  <2> SUFFICES ASSUME overdue' = 0 PROVE InStepInv'
    OBVIOUS
  <2>1. overdue = 0 /\ tick = 0
    OBVIOUS
  <2>2. tick' # 0 => tick' = now'
    BY <1>1, <2>1
  <2>3. pc' \in InSample => /\ callBy' <= rowTs' + Interval /\ callBy' <= nextTick'
                            /\ tick' # 0 => callBy' <= now'
    BY <1>1, <2>1
  <2> QED
    BY <2>2, <2>3
<1>7. SignalInv'
  <2> SUFFICES ASSUME sigint' PROVE SignalInv'
    OBVIOUS
  <2>1. sigint /\ InterruptsWait' = InterruptsWait
    BY DEF InterruptsWait
  <2>2. sigAt' <= now'
    BY <2>1
  <2>3. pc' # "done" => now' <= sigAt' + Interval \/ now' = overdue'
    BY <2>1
  <2>4. pc' = "wait" /\ ~InterruptsWait' => callBy' <= sigAt' + Interval
    BY <2>1
  <2> QED
    BY <2>2, <2>3, <2>4
<1> QED
  BY <1>3, <1>4, <1>5, <1>6, <1>7

\* The signal and the engine keep the invariant.
LEMMA WorldInv == IInv /\ (Interrupt \/ Transfer \/ EngineExit \/ UNCHANGED vars) => IInv'
<1> SUFFICES ASSUME IInv, Interrupt \/ Transfer \/ EngineExit \/ UNCHANGED vars
             PROVE  IInv'
  OBVIOUS
<1> USE NumbersFact
    DEF IInv, TypeOK, TickerInv, SampleInv, InStepInv, SignalInv, InSample, clockVars,
        signalVars, sampleVars, engineVars, InterruptsWait
<1>1. CASE Interrupt
  <2>1. TypeOK'
    BY <1>1 DEF Interrupt
  <2>2. TickerInv' /\ SampleInv' /\ InStepInv'
    BY <1>1 DEF Interrupt
  <2>3. SignalInv'
    BY <1>1 DEF Interrupt
  <2> QED
    BY <2>1, <2>2, <2>3
<1>2. CASE Transfer
  <2>1. TypeOK'
    BY <1>2 DEF Transfer
  <2>2. TickerInv' /\ SampleInv' /\ InStepInv' /\ SignalInv'
    BY <1>2 DEF Transfer
  <2> QED
    BY <2>1, <2>2
<1>3. CASE EngineExit
  <2>1. TypeOK'
    BY <1>3 DEF EngineExit
  <2>2. TickerInv' /\ SampleInv' /\ InStepInv' /\ SignalInv'
    BY <1>3 DEF EngineExit
  <2> QED
    BY <2>1, <2>2
<1>4. CASE UNCHANGED vars
  BY <1>4 DEF vars
<1> QED
  BY <1>1, <1>2, <1>3, <1>4

\* Every step keeps the invariant.
LEMMA InvStep == IInv /\ [Next]_vars => IInv'
BY GoroutineInv, TimeInv, WorldInv DEF Next, Ended

\* In every reachable state the inductive invariant holds.
LEMMA Invariant == Spec => []IInv
BY InitInv, InvStep, PTL DEF Spec

\* The variables of the sampler, the ticker and the engine keep their types and
\* bounds (runner.go Run, phase 3).
THEOREM TypeCorrect == Spec => []TypeOK
<1>1. IInv => TypeOK
  BY DEF IInv
<1> QED
  BY <1>1, Invariant, PTL

\* No tick of the ticker (runner.go Run, phase 3) is dropped but while a write of
\* typhon has outlived its context, whatever the interval, the duration and the
\* number of requests Stats makes.
THEOREM NoTickLostAlways == Spec => []NoTickLost
<1>1. IInv => NoTickLost
  BY DEF IInv, TickerInv, NoTickLost
<1> QED
  BY <1>1, Invariant, PTL

\* The counters of a row are read within one interval of its timestamp, and after an
\* overdue write of typhon within two of a tick that comes after it.
THEOREM RowIsFreshAlways == Spec => []RowIsFresh
<1>1. ASSUME IInv PROVE RowIsFresh
  BY <1>1, NumbersFact DEF IInv, TypeOK, SampleInv, InStepInv, RowIsFresh, InSample
<1> QED
  BY <1>1, Invariant, PTL

\* The goroutine outlives the duration, and SIGINT by more than one interval, only
\* for as long as an overdue write of typhon.
THEOREM EndsInTimeAlways == Spec => []EndsInTime
<1>1. IInv => EndsInTime
  BY DEF IInv, SampleInv, SignalInv, EndsInTime
<1> QED
  BY <1>1, Invariant, PTL

-----------------------------------------------------------------------------
(* Totals                                                                  *)

Totals == {"up", "down"}

\* The totals of the sample in the making are at least those of the last row,
\* from the request on that asks for them, unless an error has been dropped.
TotalsInv ==
    /\ \A f \in Totals : last[f] <= bytes
    /\ pc \in InSample => \A f \in Totals : row[f] <= bytes
    /\ pc \in {"send", "blocked", "wait"} /\ ~hidden =>
          \A f \in Totals : \A i \in 1 .. step - 1 :
              f \in program[i].fills => last[f] <= row[f]
    /\ pc = "write" /\ ~hidden => \A f \in Totals : last[f] <= row[f]

\* The totals start at zero.
LEMMA TotalsInit == Init => TotalsInv
BY DEF Init, TotalsInv, NoStats, Totals, Fields, InSample

\* A request answered fills in the current counters.
LEMMA TotalsAnswer == IInv /\ TotalsInv /\ Answer => TotalsInv'
<1> SUFFICES ASSUME IInv, TotalsInv, Answer PROVE TotalsInv'
  OBVIOUS
<1>1. /\ pc = "wait" /\ step \in Nat \ {0} /\ step <= Len(program)
      /\ bytes \in Nat /\ last \in Stats /\ row \in Stats
      /\ program \in Programs /\ UNCHANGED <<last, bytes, program, hidden>>
  BY NumbersFact DEF IInv, TypeOK, Answer, engineVars
<1>2. ASSUME NEW f \in Totals
      PROVE  row'[f] = IF f \in program[step].fills THEN bytes ELSE row[f]
  BY <1>2 DEF Answer, Fill, Totals, Fields
<1>3. ASSUME NEW f \in Totals
      PROVE  /\ last[f] \in Nat /\ row[f] \in Nat
             /\ last[f] <= bytes /\ row[f] <= bytes
  BY <1>1, <1>3 DEF TotalsInv, Stats, Totals, Fields, InSample
<1>4. ASSUME ~hidden, NEW f \in Totals, NEW i \in 1 .. step, f \in program[i].fills
      PROVE  last[f] <= row'[f]
  <2>1. CASE i = step
    BY <1>2, <1>3, <1>4, <2>1
  <2>2. CASE i \in 1 .. step - 1
    <3>1. last[f] <= row[f]
      BY <1>1, <1>4, <2>2 DEF TotalsInv
    <3> QED
      BY <1>2, <1>3, <3>1
  <2> QED
    BY <1>1, <2>1, <2>2
<1>5. CASE pc' = "send" /\ step' = step + 1
  BY <1>1, <1>2, <1>3, <1>4, <1>5 DEF TotalsInv
<1>6. CASE pc' = "write" /\ step' = step /\ step = Len(program)
  <2>1. ASSUME ~hidden, NEW f \in Totals PROVE last[f] <= row'[f]
    BY <1>1, <1>4, <1>6, <2>1, ProgramFact DEF Totals
  <2> QED
    BY <1>1, <1>2, <1>3, <1>6, <2>1 DEF TotalsInv
<1> QED
  BY <1>1, <1>5, <1>6, AdvanceFact DEF Answer

\* A request that fails ends the sample or marks it.
LEMMA TotalsHandle == IInv /\ TotalsInv /\ (Refusal \/ RequestFails) => TotalsInv'
<1> SUFFICES ASSUME IInv, TotalsInv, Refusal \/ RequestFails PROVE TotalsInv'
  OBVIOUS
<1>1. pc \in InSample /\ UNCHANGED <<last, bytes, row>>
  BY DEF Refusal, RequestFails, engineVars, InSample
<1>2. pc' = "select" \/ hidden'
  <2>1. /\ program \in Programs /\ step \in Nat \ {0} /\ step <= Len(program)
        /\ hidden \in BOOLEAN
    BY DEF Refusal, RequestFails, IInv, TypeOK
  <2> QED
    BY <2>1, HandleFact DEF Refusal, RequestFails
<1> QED
  BY <1>1, <1>2 DEF TotalsInv, InSample

\* Every step keeps the totals of the sample above those of the last row.
LEMMA TotalsStep == IInv /\ TotalsInv /\ [Next]_vars => TotalsInv'
<1> SUFFICES ASSUME IInv, TotalsInv, [Next]_vars PROVE TotalsInv'
  OBVIOUS
<1>0. bytes \in Nat /\ last \in Stats /\ row \in Stats
  BY NumbersFact DEF IInv, TypeOK
<1>1. CASE Answer
  BY <1>1, TotalsAnswer
<1>2. CASE TakeTick
  BY <1>0, <1>2 DEF TakeTick, TotalsInv, NoStats, Totals, Fields, engineVars, InSample
<1>3. CASE SeeDone \/ Send \/ WriteBlocks \/ WriteReturns
  BY <1>3 DEF SeeDone, Send, WriteBlocks, WriteReturns, TotalsInv, sampleVars, engineVars,
              InSample
<1>4. CASE Refusal \/ RequestFails
  BY <1>4, TotalsHandle
<1>5. CASE WriteRow \/ WriteFails
  BY <1>5 DEF WriteRow, WriteFails, TotalsInv, sampleVars, engineVars, InSample
<1>6. CASE Transfer
  BY <1>0, <1>6 DEF Transfer, TotalsInv, Stats, Totals, Fields, sampleVars, InSample
<1>7. CASE TimePasses \/ Interrupt \/ EngineExit \/ UNCHANGED vars
  BY <1>7 DEF TimePasses, Interrupt, EngineExit, vars, sampleVars, engineVars, TotalsInv
<1> QED
  BY <1>1, <1>2, <1>3, <1>4, <1>5, <1>6, <1>7 DEF Next, Ended

\* Only a new row changes the last one.
LEMMA OneRow == [Next]_vars => WriteRow \/ last' = last
BY DEF Next, vars, TakeTick, SeeDone, Send, WriteBlocks, WriteReturns, Answer, Refusal,
       RequestFails, WriteFails, TimePasses, Interrupt, Transfer, EngineExit, Ended

\* A total goes down from one row to the next (driver.go Stats) only in a row for
\* which Stats has dropped an error, whatever the requests of Stats are.
THEOREM DropsOnlyWhenHiddenAlways == Spec => DropsOnlyWhenHidden
<1>1. IInv /\ TotalsInv /\ [Next]_vars => [Drops => hidden]_vars
  <2> SUFFICES ASSUME IInv, TotalsInv, [Next]_vars, ~hidden PROVE ~Drops
    OBVIOUS
  <2>1. last \in Stats /\ row \in Stats
    BY DEF IInv, TypeOK
  <2>2. CASE WriteRow
    BY <2>1, <2>2 DEF WriteRow, TotalsInv, Stats, Totals, Fields, Drops
  <2>3. CASE last' = last
    BY <2>1, <2>3 DEF Drops, Stats, Fields
  <2> QED
    BY <2>2, <2>3, OneRow
<1> QED
  BY <1>1, TotalsInit, TotalsStep, Invariant, PTL DEF Spec, DropsOnlyWhenHidden

\* The two drivers whose Stats returns every error of its engine.
Honest == program \in {QbitStats, RainStats}

HonestInv == Honest => ~hidden

\* Each of their requests ends Stats when it fails or is refused.
LEMMA HonestFact ==
  ASSUME Honest, step \in Nat \ {0}, step <= Len(program)
  PROVE  program[step].onError = "fail" /\ program[step].onRefusal = "fail"
<1>1. CASE program = QbitStats
  <2>1. Len(program) = 2 /\ program[1] = Req({"up", "down"}, "fail", "fail")
                        /\ program[2] = Req({"count"}, "fail", "fail")
    BY <1>1 DEF QbitStats
  <2> QED
    BY <2>1 DEF Req
<1>2. CASE program = RainStats
  <2>1. Len(program) = 1 /\ program[1] = Req(Fields, "fail", "fail")
    BY <1>2 DEF RainStats
  <2> QED
    BY <2>1 DEF Req
<1> QED
  BY <1>1, <1>2 DEF Honest

\* They never drop an error.
LEMMA HonestStep == IInv /\ HonestInv /\ [Next]_vars => HonestInv'
<1> SUFFICES ASSUME IInv, HonestInv, [Next]_vars PROVE HonestInv'
  OBVIOUS
<1>1. CASE Refusal \/ RequestFails
  <2>1. program' = program /\ step \in Nat \ {0} /\ step <= Len(program)
    BY <1>1 DEF Refusal, RequestFails, IInv, TypeOK
  <2>2. Honest => UNCHANGED hidden
    BY <1>1, <2>1, HonestFact DEF Refusal, RequestFails, Handle
  <2> QED
    BY <2>1, <2>2 DEF HonestInv, Honest
<1>2. CASE ~(Refusal \/ RequestFails)
  <2>1. program' = program /\ (hidden' = hidden \/ hidden' = FALSE)
    BY <1>2 DEF Next, vars, TakeTick, SeeDone, Send, WriteBlocks, WriteReturns, Answer,
                WriteRow, WriteFails, TimePasses, Interrupt, Transfer, EngineExit, Ended,
                sampleVars
  <2> QED
    BY <2>1 DEF HonestInv, Honest
<1> QED
  BY <1>1, <1>2

\* qbit and rain, whose Stats (qbit.go, rain.go) returns every error, never report
\* a total that goes down.
THEOREM QbitAndRainNeverDrop == Spec => [][Honest => ~Drops]_vars
<1>1. Init => HonestInv
  BY DEF Init, HonestInv
<1>2. HonestInv /\ [Drops => hidden]_vars => [Honest => ~Drops]_vars
  BY DEF HonestInv, vars
<1> QED
  BY <1>1, <1>2, HonestStep, Invariant, DropsOnlyWhenHiddenAlways, PTL
     DEF Spec, DropsOnlyWhenHidden
=============================================================================
