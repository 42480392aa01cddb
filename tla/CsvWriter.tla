----------------------------- MODULE CsvWriter -----------------------------
(***************************************************************************)
(* metrics.Writer (internal/metrics/csv.go) under the sampling goroutines  *)
(* that share it: the mutex, csv.Writer on a bufio.Writer of bounded size  *)
(* that is flushed when the next cell does not fit, wherever in a row that *)
(* is, a disk that may take only part of a flush, the write error that     *)
(* bufio keeps, and Close.  The process may be killed at any moment.       *)
(*                                                                         *)
(* A row is Width cells; a cell stands for some of its bytes.  The disk    *)
(* may fail any flush and work again for the next, as a full one does when *)
(* somebody deletes a file.  Close comes after the last WriteSample, which *)
(* the runner sees to (NoOrphanSampler of Runner).                         *)
(***************************************************************************)
EXTENDS Naturals, Sequences, SequencesExt

CONSTANTS
    Goroutines,     \* the sampling goroutines
    MaxRows,        \* bound on the samples of each
    Width,          \* cells of a row
    BufSize,        \* cells bufio holds
    MaxCloses       \* bound on the calls of Close

Main == "main"      \* the goroutine that runs runCompare
Nobody == "nobody"
Header == <<"header", 0>>

ASSUME ConstantsAssumption ==
    /\ {Main, Nobody, "header"} \cap Goroutines = {}
    /\ MaxRows \in Nat
    /\ Width \in Nat \ {0}
    /\ BufSize \in Nat /\ BufSize >= Width      \* New's header fits
    /\ MaxCloses \in Nat \ {0}

Samples == Goroutines \X (1 .. MaxRows)
Rows == {Header} \cup Samples
Cells == [row : Rows, part : 1 .. Width]

VARIABLES
    main,       \* where the main goroutine is
    pc,         \* where each sampling goroutine is, in WriteSample or outside
    taken,      \* how many samples each has asked to be written
    mu,         \* who holds w.mu
    part,       \* cells of the current row that are in the buffer or beyond
    buf,        \* the buffer of bufio.Writer
    broken,     \* the error bufio.Writer keeps
    f,          \* w.f: "none" before New, "open", or "nil"
    closes,     \* calls of Close so far
    result,     \* what the first Close returned
    file,       \* the content of the output file
    order,      \* the rows that got the mutex, in that order
    refused,    \* the samples whose WriteSample returned an error
    alive       \* the process has not been killed

vars == <<main, pc, taken, mu, part, buf, broken, f, closes, result, file, order,
          refused, alive>>
callVars  == <<pc, taken, part, order, refused>>
closeVars == <<main, f, closes, result>>
bufVars   == <<buf, broken, file>>

TypeOK ==
    /\ main \in {"new", "run", "waiting", "flush", "check", "done", "failed"}
    /\ pc \in [Goroutines -> {"idle", "waiting", "writing", "finished"}]
    /\ taken \in [Goroutines -> 0 .. MaxRows]
    /\ mu \in Goroutines \cup {Main, Nobody}
    /\ part \in 0 .. Width
    /\ buf \in Seq(Cells) /\ Len(buf) <= BufSize
    /\ broken \in BOOLEAN
    /\ f \in {"none", "open", "nil"}
    /\ closes \in 0 .. MaxCloses
    /\ result \in {"none", "ok", "error"}
    /\ file \in Seq(Cells)
    /\ order \in Seq(Rows)
    /\ refused \subseteq Samples
    /\ alive \in BOOLEAN

Init ==
    /\ main = "new"
    /\ pc = [g \in Goroutines |-> "idle"] /\ taken = [g \in Goroutines |-> 0]
    /\ mu = Nobody /\ part = 0
    /\ buf = <<>> /\ broken = FALSE
    /\ f = "none" /\ closes = 0 /\ result = "none"
    /\ file = <<>> /\ order = <<>> /\ refused = {}
    /\ alive = TRUE

-----------------------------------------------------------------------------
(* New                                                                     *)

RowCells(r) == [i \in 1 .. Width |-> [row |-> r, part |-> i]]

\* The header goes to the buffer only.
New ==
    /\ alive /\ main = "new"
    /\ main' = "run" /\ f' = "open"
    /\ buf' = RowCells(Header) /\ order' = <<Header>>
    /\ UNCHANGED <<pc, taken, mu, part, broken, closes, result, file, refused, alive>>

\* os.Create fails, and main ends in log.Fatal.
NewFails ==
    /\ alive /\ main = "new"
    /\ main' = "failed" /\ alive' = FALSE
    /\ UNCHANGED <<callVars, mu, bufVars, f, closes, result>>

-----------------------------------------------------------------------------
(* bufio.Writer                                                            *)

\* Mutant: the error of a flush is returned and forgotten.
FlushForgetting(rest) ==
    \E n \in 0 .. Len(buf) :
        /\ file' = file \o SubSeq(buf, 1, n)
        /\ IF n = Len(buf) THEN buf' = rest ELSE buf' = SubSeq(buf, n + 1, Len(buf))
        /\ UNCHANGED broken

\* Write the buffer out and leave rest in it.  A short write keeps what is left
\* and the error, for ever.
Flush(rest) ==
    \E n \in 0 .. Len(buf) :
        /\ file' = file \o SubSeq(buf, 1, n)
        /\ IF n = Len(buf)
              THEN buf' = rest /\ UNCHANGED broken
              ELSE buf' = SubSeq(buf, n + 1, Len(buf)) /\ broken' = TRUE

-----------------------------------------------------------------------------
(* WriteSample                                                             *)

Call(g) ==
    /\ alive /\ main = "run"
    /\ pc[g] = "idle" /\ taken[g] < MaxRows
    /\ pc' = [pc EXCEPT ![g] = "waiting"]
    /\ taken' = [taken EXCEPT ![g] = @ + 1]
    /\ UNCHANGED <<mu, part, order, refused, bufVars, closeVars, alive>>

\* Mutant: WriteSample does not take the mutex.
NoLock(g) ==
    /\ alive /\ pc[g] = "waiting"
    /\ mu' = g /\ part' = 0
    /\ pc' = [pc EXCEPT ![g] = "writing"]
    /\ order' = Append(order, <<g, taken[g]>>)
    /\ UNCHANGED <<taken, refused, bufVars, closeVars, alive>>

Lock(g) ==
    /\ alive /\ mu = Nobody
    /\ pc[g] = "waiting"
    /\ mu' = g /\ part' = 0
    /\ pc' = [pc EXCEPT ![g] = "writing"]
    /\ order' = Append(order, <<g, taken[g]>>)
    /\ UNCHANGED <<taken, refused, bufVars, closeVars, alive>>

Writing(g) == alive /\ pc[g] = "writing"

\* Mutant: the buffer is written out one cell late.
PutCellLate(g) ==
    /\ Writing(g) /\ ~broken /\ part < Width
    /\ LET cell == [row |-> <<g, taken[g]>>, part |-> part + 1] IN
          IF Len(buf) <= BufSize
             THEN /\ buf' = Append(buf, cell) /\ part' = part + 1
                  /\ UNCHANGED <<broken, file>>
             ELSE /\ Flush(<<cell>>)
                  /\ part' = IF broken' THEN part ELSE part + 1
    /\ UNCHANGED <<pc, taken, order, refused, mu, closeVars, alive>>

\* One cell of the row, and what bufio does with it.
PutCell(g) ==
    /\ Writing(g) /\ ~broken /\ part < Width
    /\ LET cell == [row |-> <<g, taken[g]>>, part |-> part + 1] IN
          IF Len(buf) < BufSize
             THEN /\ buf' = Append(buf, cell) /\ part' = part + 1
                  /\ UNCHANGED <<broken, file>>
             ELSE /\ Flush(<<cell>>)
                  /\ part' = IF broken' THEN part ELSE part + 1
    /\ UNCHANGED <<pc, taken, order, refused, mu, closeVars, alive>>

Unlock(g) == pc' = [pc EXCEPT ![g] = "idle"] /\ mu' = Nobody

WriteReturns(g) ==
    /\ Writing(g) /\ part = Width
    /\ Unlock(g)
    /\ UNCHANGED <<taken, part, order, refused, bufVars, closeVars, alive>>

\* The error is that of this flush or of an earlier one; the caller logs it.
WriteFails(g) ==
    /\ Writing(g) /\ broken /\ part < Width
    /\ Unlock(g)
    /\ refused' = refused \cup {<<g, taken[g]>>}
    /\ UNCHANGED <<taken, part, order, bufVars, closeVars, alive>>

\* The goroutine of the runner ends.
Finish(g) ==
    /\ alive /\ main = "run" /\ pc[g] = "idle"
    /\ pc' = [pc EXCEPT ![g] = "finished"]
    /\ UNCHANGED <<mu, taken, part, order, refused, bufVars, closeVars, alive>>

-----------------------------------------------------------------------------
(* Close                                                                   *)

CallClose ==
    /\ alive /\ main \in {"run", "done"}
    /\ \A g \in Goroutines : pc[g] = "finished"
    /\ closes < MaxCloses
    /\ main' = "waiting" /\ closes' = closes + 1
    /\ UNCHANGED <<callVars, mu, bufVars, f, result, alive>>

LockClose ==
    /\ alive /\ main = "waiting" /\ mu = Nobody /\ f = "open"
    /\ main' = "flush" /\ mu' = Main
    /\ UNCHANGED <<callVars, bufVars, f, closes, result, alive>>

CloseAgain ==
    /\ alive /\ main = "waiting" /\ mu = Nobody /\ f = "nil"
    /\ main' = "done"
    /\ UNCHANGED <<callVars, mu, bufVars, f, closes, result, alive>>

\* Mutant: no Flush.
SkipFlush ==
    /\ alive /\ main = "flush"
    /\ main' = "check"
    /\ UNCHANGED <<callVars, mu, bufVars, f, closes, result, alive>>

\* bufio does not try again after an error.
CloseFlush ==
    /\ alive /\ main = "flush"
    /\ main' = "check"
    /\ IF broken \/ buf = <<>> THEN UNCHANGED bufVars ELSE Flush(<<>>)
    /\ UNCHANGED <<callVars, mu, f, closes, result, alive>>

\* The kept error wins over that of os.File.Close.
CloseFile ==
    /\ alive /\ main = "check"
    /\ main' = "done" /\ mu' = Nobody /\ f' = "nil"
    /\ result' \in IF broken THEN {"error"} ELSE {"ok", "error"}
    /\ UNCHANGED <<callVars, bufVars, closes, alive>>

-----------------------------------------------------------------------------

\* SIGKILL, a panic elsewhere, or log.Fatalf: no deferred call runs.
Kill ==
    /\ alive /\ main # "new"
    /\ alive' = FALSE
    /\ UNCHANGED <<callVars, closeVars, bufVars, mu>>

Ended == (~alive \/ main = "done") /\ UNCHANGED vars

WriteStep(g) == Lock(g) \/ PutCell(g) \/ WriteReturns(g) \/ WriteFails(g)
CloseStep == LockClose \/ CloseAgain \/ CloseFlush \/ CloseFile

Next ==
    \/ New \/ NewFails \/ CallClose \/ CloseStep \/ Kill \/ Ended
    \/ \E g \in Goroutines : Call(g) \/ WriteStep(g) \/ Finish(g)

Spec == Init /\ [][Next]_vars

-----------------------------------------------------------------------------
(* Properties                                                              *)

\* The bytes of the rows, one row after the other.
Stream == [i \in 1 .. Width * Len(order) |->
              [row |-> order[((i - 1) \div Width) + 1], part |-> ((i - 1) % Width) + 1]]

\* Whatever is in the file, followed by what is still in memory, is the rows in
\* the order of the mutex, cut off somewhere: no row is torn by another one, no
\* gap is left by a disk that failed and recovered, nothing is written twice.
FileIsPrefix == IsPrefix(file \o buf, Stream)

LogState ==
    CASE ~alive -> "dead"
      [] alive /\ f # "nil" -> "open"
      [] alive /\ f = "nil" -> IF result = "ok" THEN "closed" ELSE "failed"

Log == INSTANCE RowLog WITH rows <- order, kept <- Len(file), state <- LogState

\* The writer implements the append-only log: rows are only ever added at the
\* end, the file only grows, and Close tells the truth about it.
ImplementsRowLog == Log!Spec
=============================================================================
