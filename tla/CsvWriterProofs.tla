-------------------------- MODULE CsvWriterProofs --------------------------
(***************************************************************************)
(* Proofs about CsvWriter, for every number of goroutines, samples and     *)
(* cells of a row, every size of the buffer, and a disk that may fail any  *)
(* write.                                                                  *)
(***************************************************************************)
EXTENDS CsvWriter, SequenceTheorems, TLAPS

-----------------------------------------------------------------------------
(* Arithmetic and sequences                                                *)

\* Products with the width of a row.
LEMMA ProductMono ==
  ASSUME NEW w \in Nat, NEW a \in Nat, NEW b \in Nat, a <= b
  PROVE  w * a <= w * b /\ w * a \in Nat /\ w * (a + 1) = w * a + w
<1>1. PICK c \in Nat : b = a + c
  OBVIOUS
<1>2. w * b = w * a + w * c /\ w * c \in Nat /\ w * a \in Nat
  BY <1>1
<1> QED
  BY <1>2

\* The cell r of the row q, both counted from 0.
LEMMA CellDivision ==
  ASSUME NEW w \in Nat \ {0}, NEW q \in Nat, NEW r \in 0 .. w - 1
  PROVE  (w * q + r) \div w = q /\ (w * q + r) % w = r
OBVIOUS

\* The row that a cell of m rows is in.
LEMMA RowOfCell ==
  ASSUME NEW w \in Nat \ {0}, NEW m \in Nat, NEW i \in 1 .. w * m
  PROVE  /\ (i - 1) \div w \in 0 .. m - 1
         /\ (i - 1) % w \in 0 .. w - 1
OBVIOUS

\* A function on 1 .. n is a sequence.
LEMMA FunctionIsSeq ==
  ASSUME NEW S, NEW n \in Nat, NEW h \in [1 .. n -> S]
  PROVE  h \in Seq(S) /\ Len(h) = n
OBVIOUS

\* Writing out the beginning of the buffer moves no cell.
LEMMA MoveElements ==
  ASSUME NEW S, NEW s \in Seq(S), NEW t \in Seq(S), NEW n \in 0 .. Len(t)
  PROVE  /\ SubSeq(t, 1, n) \in Seq(S) /\ SubSeq(t, n + 1, Len(t)) \in Seq(S)
         /\ Len(SubSeq(t, n + 1, Len(t))) = Len(t) - n /\ Len(t) \in Nat
         /\ s \o SubSeq(t, 1, n) \in Seq(S)
         /\ (s \o SubSeq(t, 1, n)) \o SubSeq(t, n + 1, Len(t)) = s \o t
<1>1. /\ SubSeq(t, 1, n) \in Seq(S) /\ SubSeq(t, n + 1, Len(t)) \in Seq(S)
      /\ Len(SubSeq(t, n + 1, Len(t))) = Len(t) - n /\ Len(t) \in Nat
  OBVIOUS
<1>2. 1 \in 1 .. Len(t) + 1 /\ n \in 1 - 1 .. Len(t) /\ Len(t) \in n .. Len(t)
  BY <1>1
<1>3. SubSeq(t, 1, n) \o SubSeq(t, n + 1, Len(t)) = SubSeq(t, 1, Len(t))
  BY ONLY t \in Seq(S), <1>2, ConcatAdjacentSubSeq
<1>4. SubSeq(t, 1, Len(t)) = t
  BY SubSeqFull
<1>a. \A a, b \in Seq(S) : (s \o a) \o b = s \o (a \o b)
  BY ConcatAssociative
<1>5. (s \o SubSeq(t, 1, n)) \o SubSeq(t, n + 1, Len(t))
         = s \o (SubSeq(t, 1, n) \o SubSeq(t, n + 1, Len(t)))
  BY <1>1, <1>a, Zenon
<1>6. s \o SubSeq(t, 1, n) \in Seq(S)
  BY ONLY s \in Seq(S), <1>1, ConcatProperties
<1> QED
  BY <1>1, <1>3, <1>4, <1>5, <1>6

-----------------------------------------------------------------------------
(* The inductive invariant                                                 *)

Closing == {"waiting", "flush", "check", "done"}

\* Who is where, and who holds the mutex.
Control ==
    /\ \A g \in Goroutines :
          /\ pc[g] \in {"waiting", "writing"} => taken[g] >= 1
          /\ pc[g] = "writing" <=> mu = g
          /\ main = "new" => pc[g] = "idle"
          /\ main \in Closing => pc[g] = "finished"
    /\ mu = Main <=> main \in {"flush", "check"}
    /\ main \in {"new", "failed"} <=> f = "none"
    /\ f = "nil" => main \in {"waiting", "done"}
    /\ main = "failed" => ~alive
    /\ main = "new" => order = <<>> /\ buf = <<>> /\ file = <<>> /\ ~broken
    /\ main = "check" => broken \/ buf = <<>>

\* A sample is in the log once its goroutine has had the mutex, and not before.
Unlogged ==
    \A g \in Goroutines, n \in 1 .. MaxRows :
        n > taken[g] \/ (n = taken[g] /\ pc[g] = "waiting") =>
            \A i \in 1 .. Len(order) : order[i] # <<g, n>>

\* The row of the goroutine that writes is the last one.
LastRow ==
    \A g \in Goroutines : pc[g] = "writing" =>
        order # <<>> /\ order[Len(order)] = <<g, taken[g]>>

\* Cell i of the rows put one after the other.
CellAt(i) == [row |-> order[((i - 1) \div Width) + 1], part |-> ((i - 1) % Width) + 1]

\* Where the writing stands: at the end of the last row, or inside it.
Written == file \o buf
Position ==
    /\ Len(Written) <= Width * Len(order)
    /\ ~broken /\ mu \notin Goroutines => Len(Written) = Width * Len(order)
    /\ ~broken /\ mu \in Goroutines => Len(Written) = Width * (Len(order) - 1) + part

Layout == \A i \in 1 .. Len(Written) : Written[i] = CellAt(i)

IInv == TypeOK /\ Control /\ Unlogged /\ LastRow /\ Position /\ Layout

-----------------------------------------------------------------------------
(* Type correctness                                                        *)

\* The constants that are numbers.
LEMMA NumbersFact ==
  /\ Width \in Nat \ {0} /\ MaxRows \in Nat /\ MaxCloses \in Nat
  /\ BufSize \in Nat /\ BufSize >= Width
BY ConstantsAssumption

\* A cell of a sample, and the cells of a row.
LEMMA CellType ==
  /\ \A g \in Goroutines, n \in 1 .. MaxRows, i \in 1 .. Width :
        [row |-> <<g, n>>, part |-> i] \in Cells
  /\ \A r \in Rows : RowCells(r) \in Seq(Cells) /\ Len(RowCells(r)) = Width
<1>1. \A g \in Goroutines, n \in 1 .. MaxRows : <<g, n>> \in Rows
  BY DEF Rows, Samples
<1>2. ASSUME NEW r \in Rows
      PROVE  RowCells(r) \in [1 .. Width -> Cells]
  BY <1>2 DEF RowCells, Cells
<1>3. \A r \in Rows : RowCells(r) \in Seq(Cells) /\ Len(RowCells(r)) = Width
  BY <1>2, NumbersFact, FunctionIsSeq
<1> QED
  BY <1>1, <1>3 DEF Cells

\* What a flush leaves, and where it leaves what was there.
LEMMA FlushEffect ==
  ASSUME TypeOK, NEW rest \in Seq(Cells), Len(rest) <= BufSize, Flush(rest)
  PROVE  /\ file' \in Seq(Cells) /\ buf' \in Seq(Cells) /\ Len(buf') <= BufSize
         /\ broken' \in BOOLEAN
         /\ \/ broken' = broken /\ buf' = rest /\ file' = Written
            \/ broken' = TRUE /\ Written' = Written
<1>0. file \in Seq(Cells) /\ buf \in Seq(Cells) /\ Len(buf) <= BufSize /\ broken \in BOOLEAN
  BY DEF TypeOK
<1>1. PICK n \in 0 .. Len(buf) :
         /\ file' = file \o SubSeq(buf, 1, n)
         /\ IF n = Len(buf)
               THEN buf' = rest /\ UNCHANGED broken
               ELSE buf' = SubSeq(buf, n + 1, Len(buf)) /\ broken' = TRUE
  BY DEF Flush
<1>b. \A s, t \in Seq(Cells) : \A k \in 0 .. Len(t) :
        /\ SubSeq(t, 1, k) \in Seq(Cells) /\ SubSeq(t, k + 1, Len(t)) \in Seq(Cells)
        /\ Len(SubSeq(t, k + 1, Len(t))) = Len(t) - k /\ Len(t) \in Nat
        /\ s \o SubSeq(t, 1, k) \in Seq(Cells)
        /\ (s \o SubSeq(t, 1, k)) \o SubSeq(t, k + 1, Len(t)) = s \o t
  BY MoveElements, Zenon
<1>a. /\ SubSeq(buf, 1, n) \in Seq(Cells) /\ SubSeq(buf, n + 1, Len(buf)) \in Seq(Cells)
      /\ Len(SubSeq(buf, n + 1, Len(buf))) = Len(buf) - n /\ Len(buf) \in Nat
      /\ file \o SubSeq(buf, 1, n) \in Seq(Cells)
      /\ (file \o SubSeq(buf, 1, n)) \o SubSeq(buf, n + 1, Len(buf)) = file \o buf
  BY <1>0, <1>b, Zenon
<1>2. /\ SubSeq(buf, n + 1, Len(buf)) \in Seq(Cells)
      /\ Len(SubSeq(buf, n + 1, Len(buf))) = Len(buf) - n /\ Len(buf) \in Nat
      /\ file' \in Seq(Cells)
      /\ file' \o SubSeq(buf, n + 1, Len(buf)) = Written
  BY <1>1, <1>a DEF Written
<1>3. CASE n = Len(buf)
  <2>1. SubSeq(buf, 1, Len(buf)) = buf
    BY <1>0, SubSeqFull
  <2> QED
    BY <1>0, <1>1, <1>2, <1>3, <2>1 DEF Written
<1>4. CASE n # Len(buf)
  <2>1. Len(buf) - n <= BufSize
    BY <1>0, <1>2, NumbersFact
  <2> QED
    BY <1>0, <1>1, <1>2, <1>4, <2>1 DEF Written
<1> QED
  BY <1>3, <1>4

\* A cell put in the buffer, or behind a full one that was written out.
LEMMA PutEffect ==
  ASSUME TypeOK, Control, NEW g \in Goroutines, PutCell(g)
  PROVE  /\ [row |-> <<g, taken[g]>>, part |-> part + 1] \in Cells
         /\ file' \in Seq(Cells) /\ buf' \in Seq(Cells) /\ Len(buf') <= BufSize
         /\ broken' \in BOOLEAN /\ ~broken /\ part \in 0 .. Width - 1
         /\ \/ /\ broken' = FALSE /\ part' = part + 1
               /\ Written' = Append(Written, [row |-> <<g, taken[g]>>, part |-> part + 1])
            \/ broken' = TRUE /\ part' = part /\ Written' = Written
<1> DEFINE cell == [row |-> <<g, taken[g]>>, part |-> part + 1]
<1>1. /\ file \in Seq(Cells) /\ buf \in Seq(Cells) /\ Len(buf) <= BufSize
      /\ broken = FALSE /\ part \in 0 .. Width - 1 /\ Len(buf) \in Nat
  BY NumbersFact DEF TypeOK, PutCell
<1>2. cell \in Cells
  <2>1. taken[g] \in 1 .. MaxRows /\ part + 1 \in 1 .. Width
    BY <1>1, NumbersFact DEF TypeOK, Control, PutCell, Writing
  <2> QED
    BY <2>1, CellType, Zenon
<1>3. CASE Len(buf) < BufSize
  <2>1. buf' = Append(buf, cell) /\ part' = part + 1 /\ broken' = broken /\ file' = file
    BY <1>3 DEF PutCell
  <2>2. /\ Append(buf, cell) \in Seq(Cells) /\ Len(Append(buf, cell)) = Len(buf) + 1
        /\ file \o Append(buf, cell) = Append(file \o buf, cell)
    <3> HIDE DEF cell
    <3> QED
      BY <1>1, <1>2
  <2>3. Len(buf) + 1 <= BufSize
    BY <1>1, <1>3, NumbersFact
  <2> HIDE DEF cell
  <2>4. /\ buf' \in Seq(Cells) /\ Len(buf') <= BufSize
        /\ Written' = Append(Written, cell)
    BY <2>1, <2>2, <2>3 DEF Written
  <2> QED
    BY <1>1, <1>2, <2>1, <2>4 DEF cell
<1>4. CASE ~(Len(buf) < BufSize)
  <2>1. Flush(<<cell>>) /\ part' = IF broken' THEN part ELSE part + 1
    BY <1>4 DEF PutCell
  <2> HIDE DEF cell
  <2>2. <<cell>> \in Seq(Cells) /\ Len(<<cell>>) = 1 /\ 1 <= BufSize
    BY <1>2, NumbersFact
  <2>3. /\ file' \in Seq(Cells) /\ buf' \in Seq(Cells) /\ Len(buf') <= BufSize
        /\ broken' \in BOOLEAN
        /\ \/ broken' = broken /\ buf' = <<cell>> /\ file' = Written
           \/ broken' = TRUE /\ Written' = Written
    <3>1. \A rest \in Seq(Cells) : Len(rest) <= BufSize /\ Flush(rest) =>
             /\ file' \in Seq(Cells) /\ buf' \in Seq(Cells) /\ Len(buf') <= BufSize
             /\ broken' \in BOOLEAN
             /\ \/ broken' = broken /\ buf' = rest /\ file' = Written
                \/ broken' = TRUE /\ Written' = Written
      BY FlushEffect
    <3>2. Len(<<cell>>) <= BufSize
      BY <2>2
    <3> QED
      BY <2>1, <2>2, <3>1, <3>2, Zenon
  <2>4. ASSUME broken' = broken, buf' = <<cell>>, file' = Written
        PROVE  Written' = Append(Written, cell)
    <3>1. Written \in Seq(Cells)
      BY <1>1, ConcatProperties DEF Written
    <3>2. Written' = Written \o <<cell>>
      BY <2>4 DEF Written
    <3> QED
      BY <3>1, <3>2, <1>2
  <2> QED
    BY <1>1, <1>2, <2>1, <2>3, <2>4 DEF cell
<1> QED
  BY <1>3, <1>4

\* The flush of Close loses nothing either, and goes to the end or leaves an error.
LEMMA CloseFlushEffect ==
  ASSUME TypeOK, CloseFlush
  PROVE  /\ file' \in Seq(Cells) /\ buf' \in Seq(Cells) /\ Len(buf') <= BufSize
         /\ broken' \in BOOLEAN /\ Written' = Written
         /\ broken => broken'
         /\ broken' \/ buf' = <<>>
<1>1. /\ file \in Seq(Cells) /\ buf \in Seq(Cells) /\ Len(buf) <= BufSize
      /\ broken \in BOOLEAN
  BY DEF TypeOK
<1>2. CASE broken \/ buf = <<>>
  BY <1>1, <1>2 DEF CloseFlush, bufVars, Written
<1>3. CASE ~(broken \/ buf = <<>>)
  <2>1. Flush(<<>>)
    BY <1>3 DEF CloseFlush
  <2>2. <<>> \in Seq(Cells) /\ Len(<<>>) <= BufSize
    BY NumbersFact
  <2>3. \A rest \in Seq(Cells) : Len(rest) <= BufSize /\ Flush(rest) =>
           /\ file' \in Seq(Cells) /\ buf' \in Seq(Cells) /\ Len(buf') <= BufSize
           /\ broken' \in BOOLEAN
           /\ \/ broken' = broken /\ buf' = rest /\ file' = Written
              \/ broken' = TRUE /\ Written' = Written
    BY FlushEffect
  <2>4. /\ file' \in Seq(Cells) /\ buf' \in Seq(Cells) /\ Len(buf') <= BufSize
        /\ broken' \in BOOLEAN
        /\ \/ broken' = broken /\ buf' = <<>> /\ file' = Written
           \/ broken' = TRUE /\ Written' = Written
    BY <2>1, <2>2, <2>3, Zenon
  <2>5. ASSUME buf' = <<>>, file' = Written
        PROVE  Written' = Written
    <3>1. Written \in Seq(Cells)
      BY <1>1, ConcatProperties DEF Written
    <3> QED
      BY <2>5, <3>1, ConcatEmptySeq DEF Written
  <2> QED
    BY <1>3, <2>4, <2>5
<1> QED
  BY <1>2, <1>3

\* The three names of who can hold the mutex are different.
LEMMA MainFact ==
  Main \notin Goroutines /\ Nobody \notin Goroutines /\ Main # Nobody
BY ConstantsAssumption DEF Main, Nobody

\* The types of what the steps outside bufio change.
LEMMA TypeStep ==
  ASSUME TypeOK, Control, [Next]_vars
  PROVE  TypeOK'
<1> USE DEF TypeOK
<1>1. CASE New
  <2>1. Header \in Rows
    BY DEF Rows
  <2>2. RowCells(Header) \in Seq(Cells) /\ Len(RowCells(Header)) = Width
    BY <2>1, CellType, Zenon
  <2>3. buf' \in Seq(Cells) /\ Len(buf') <= BufSize
    BY <1>1, <2>2, NumbersFact DEF New
  <2>4. order' \in Seq(Rows)
    BY <1>1, <2>1 DEF New
  <2> QED
    BY <1>1, <2>3, <2>4 DEF New
<1>2. CASE NewFails
  BY <1>2 DEF NewFails, callVars, bufVars
<1>3. CASE CallClose
  BY <1>3, NumbersFact DEF CallClose, callVars, bufVars
<1>4. CASE LockClose
  BY <1>4 DEF LockClose, callVars, bufVars
<1>5. CASE CloseAgain
  BY <1>5 DEF CloseAgain, callVars, bufVars
<1>6. CASE CloseFlush
  BY <1>6, CloseFlushEffect DEF CloseFlush, callVars
<1>7. CASE CloseFile
  BY <1>7 DEF CloseFile, callVars, bufVars
<1>8. CASE Kill
  BY <1>8 DEF Kill, callVars, closeVars, bufVars
<1>9. CASE UNCHANGED vars
  BY <1>9 DEF vars
<1>10. ASSUME NEW g \in Goroutines, Call(g)
       PROVE  TypeOK'
  <2>1. taken[g] + 1 \in 0 .. MaxRows
    BY <1>10, NumbersFact DEF Call
  <2>2. taken' \in [Goroutines -> 0 .. MaxRows]
    BY <1>10, <2>1 DEF Call
  <2> QED
    BY <1>10, <2>2 DEF Call, closeVars, bufVars
<1>11. ASSUME NEW g \in Goroutines, Lock(g)
       PROVE  TypeOK'
  <2>1. taken[g] \in 1 .. MaxRows
    BY <1>11, NumbersFact DEF Lock, Control
  <2>2. <<g, taken[g]>> \in Rows
    BY <2>1 DEF Rows, Samples
  <2>3. order' \in Seq(Rows)
    BY <1>11, <2>2, AppendProperties DEF Lock
  <2> QED
    BY <1>11, <2>3, NumbersFact DEF Lock, closeVars, bufVars
<1>12. ASSUME NEW g \in Goroutines, PutCell(g)
       PROVE  TypeOK'
  <2>0. part \in 0 .. Width - 1 /\ part' \in {part, part + 1}
    <3> HIDE DEF TypeOK
    <3> QED
      BY <1>12, PutEffect
  <2>1. part' \in 0 .. Width
    BY ONLY <2>0, NumbersFact
  <2> QED
    BY <1>12, <2>1, PutEffect DEF PutCell, closeVars
<1>13. ASSUME NEW g \in Goroutines, WriteReturns(g)
       PROVE  TypeOK'
  BY <1>13 DEF WriteReturns, Unlock, closeVars, bufVars
<1>14. ASSUME NEW g \in Goroutines, WriteFails(g)
       PROVE  TypeOK'
  <2>1. taken[g] \in 1 .. MaxRows
    BY <1>14, NumbersFact DEF WriteFails, Writing, Control
  <2>2. <<g, taken[g]>> \in Samples
    BY <2>1 DEF Samples
  <2>3. refused' \subseteq Samples
    BY <1>14, <2>2 DEF WriteFails
  <2> QED
    BY <1>14, <2>3 DEF WriteFails, Unlock, closeVars, bufVars
<1>15. ASSUME NEW g \in Goroutines, Finish(g)
       PROVE  TypeOK'
  BY <1>15 DEF Finish, closeVars, bufVars
<1> QED
  BY <1>1, <1>2, <1>3, <1>4, <1>5, <1>6, <1>7, <1>8, <1>9, <1>10, <1>11, <1>12,
     <1>13, <1>14, <1>15 DEF Next, WriteStep, CloseStep, Ended

-----------------------------------------------------------------------------
(* The mutex, and who is where                                             *)

LEMMA ControlStep ==
  ASSUME TypeOK, Control, [Next]_vars
  PROVE  Control'
<1> USE MainFact DEF TypeOK, Control, Closing
<1>1. CASE New
  BY <1>1 DEF New
<1>2. CASE NewFails
  BY <1>2 DEF NewFails, callVars, bufVars
<1>3. CASE CallClose
  BY <1>3 DEF CallClose, callVars, bufVars
<1>4. CASE LockClose
  BY <1>4 DEF LockClose, callVars, bufVars
<1>5. CASE CloseAgain
  BY <1>5 DEF CloseAgain, callVars, bufVars
<1>6. CASE CloseFlush
  <2>1. /\ alive /\ main = "flush" /\ main' = "check"
        /\ UNCHANGED <<pc, taken, mu, f, order, alive>>
    BY <1>6 DEF CloseFlush, callVars
  <2>2. broken' \/ buf' = <<>>
    BY <1>6, CloseFlushEffect
  <2> QED
    BY <2>1, <2>2
<1>7. CASE CloseFile
  BY <1>7 DEF CloseFile, callVars, bufVars
<1>8. CASE Kill
  BY <1>8 DEF Kill, callVars, closeVars, bufVars
<1>9. CASE UNCHANGED vars
  BY <1>9 DEF vars
<1>10. ASSUME NEW g \in Goroutines, Call(g)
       PROVE  Control'
  BY <1>10 DEF Call, closeVars, bufVars
<1>11. ASSUME NEW g \in Goroutines, Lock(g)
       PROVE  Control'
  BY <1>11 DEF Lock, closeVars, bufVars
<1>12. ASSUME NEW g \in Goroutines, PutCell(g)
       PROVE  Control'
  <2>1. pc[g] = "writing" /\ UNCHANGED <<pc, taken, order, mu, main, f, alive>>
    BY <1>12 DEF PutCell, Writing, closeVars
  <2> QED
    BY <2>1
<1>13. ASSUME NEW g \in Goroutines, WriteReturns(g)
       PROVE  Control'
  BY <1>13 DEF WriteReturns, Writing, Unlock, closeVars, bufVars
<1>14. ASSUME NEW g \in Goroutines, WriteFails(g)
       PROVE  Control'
  BY <1>14 DEF WriteFails, Writing, Unlock, closeVars, bufVars
<1>15. ASSUME NEW g \in Goroutines, Finish(g)
       PROVE  Control'
  BY <1>15 DEF Finish, closeVars, bufVars
<1> QED
  BY <1>1, <1>2, <1>3, <1>4, <1>5, <1>6, <1>7, <1>8, <1>9, <1>10, <1>11, <1>12,
     <1>13, <1>14, <1>15 DEF Next, WriteStep, CloseStep, Ended

-----------------------------------------------------------------------------
(* The log                                                                 *)

\* What the steps do to the log and to the goroutines: the others than these
\* three only take goroutines out of WriteSample.
LEMMA LogMoves ==
  ASSUME TypeOK, Control, [Next]_vars
  PROVE  \/ New
         \/ \E g \in Goroutines : Call(g) \/ Lock(g)
         \/ /\ order' = order /\ taken' = taken
            /\ \A h \in Goroutines : pc'[h] \in {"waiting", "writing"} => pc'[h] = pc[h]
<1> DEFINE Quiet ==
      /\ order' = order /\ taken' = taken
      /\ \A h \in Goroutines : pc'[h] \in {"waiting", "writing"} => pc'[h] = pc[h]
<1>1. CASE NewFails \/ CallClose \/ CloseStep \/ Kill \/ UNCHANGED vars
  BY <1>1 DEF NewFails, CallClose, CloseStep, LockClose, CloseAgain, CloseFlush, CloseFile,
     Kill, callVars, vars
<1>2. ASSUME NEW g \in Goroutines, PutCell(g) \/ WriteReturns(g) \/ WriteFails(g) \/ Finish(g)
      PROVE  Quiet
  <2>1. order' = order /\ taken' = taken
    BY <1>2 DEF PutCell, WriteReturns, WriteFails, Finish
  <2>2. pc' = pc \/ \E v \in {"idle", "finished"} : pc' = [pc EXCEPT ![g] = v]
    BY <1>2 DEF PutCell, WriteReturns, WriteFails, Finish, Unlock
  <2>3. pc \in [Goroutines -> {"idle", "waiting", "writing", "finished"}]
    BY DEF TypeOK
  <2> QED
    BY <2>1, <2>2, <2>3
<1> QED
  BY <1>1, <1>2 DEF Next, WriteStep, CloseStep, Ended

\* The row that a goroutine adds when it gets the mutex.
LEMMA LockEffect ==
  ASSUME TypeOK, Control, NEW g \in Goroutines, Lock(g)
  PROVE  /\ taken[g] \in 1 .. MaxRows /\ <<g, taken[g]>> \in Rows
         /\ order \in Seq(Rows) /\ Len(order) \in Nat
         /\ order' = Append(order, <<g, taken[g]>>)
         /\ Len(order') = Len(order) + 1
         /\ \A i \in 1 .. Len(order) : order'[i] = order[i]
         /\ order'[Len(order) + 1] = <<g, taken[g]>>
         /\ \A i \in 1 .. Len(order') :
               order'[i] = <<g, taken[g]>> \/ (i \in 1 .. Len(order) /\ order'[i] = order[i])
         /\ pc' = [pc EXCEPT ![g] = "writing"] /\ taken' = taken /\ pc[g] = "waiting"
<1>1. /\ pc[g] = "waiting" /\ pc' = [pc EXCEPT ![g] = "writing"] /\ taken' = taken
      /\ order' = Append(order, <<g, taken[g]>>)
  BY DEF Lock
<1>2. taken[g] \in 1 .. MaxRows
  BY <1>1, NumbersFact DEF TypeOK, Control
<1>3. <<g, taken[g]>> \in Rows
  BY <1>2 DEF Rows, Samples
<1>4. order \in Seq(Rows) /\ Len(order) \in Nat
  BY DEF TypeOK
<1>5. /\ Len(order') = Len(order) + 1
      /\ \A i \in 1 .. Len(order) : order'[i] = order[i]
      /\ order'[Len(order) + 1] = <<g, taken[g]>>
  BY <1>1, <1>3, <1>4, AppendProperties
<1>6. \A i \in 1 .. Len(order') :
         order'[i] = <<g, taken[g]>> \/ (i \in 1 .. Len(order) /\ order'[i] = order[i])
  <2>1. \A i \in 1 .. Len(order') : i \in 1 .. Len(order) \/ i = Len(order) + 1
    BY <1>4, <1>5
  <2> QED
    BY <2>1, <1>5, Zenon
<1> QED
  BY <1>1, <1>2, <1>3, <1>4, <1>5, <1>6

LEMMA UnloggedStep ==
  ASSUME TypeOK, Control, Unlogged, [Next]_vars
  PROVE  Unlogged'
<1>0. /\ pc \in [Goroutines -> {"idle", "waiting", "writing", "finished"}]
      /\ taken \in [Goroutines -> 0 .. MaxRows]
  BY DEF TypeOK
<1>1. CASE New
  <2>1. order' = <<Header>>
    BY <1>1 DEF New
  <2>2. Len(order') = 1 /\ \A i \in 1 .. Len(order') : order'[i] = Header
    BY <2>1
  <2>3. \A g \in Goroutines, n \in 1 .. MaxRows : Header # <<g, n>>
    BY ConstantsAssumption DEF Header
  <2> QED
    BY <2>2, <2>3 DEF Unlogged
<1>2. ASSUME NEW g \in Goroutines, Call(g)
      PROVE  Unlogged'
  <2>1. /\ order' = order /\ taken' = [taken EXCEPT ![g] = @ + 1]
        /\ pc' = [pc EXCEPT ![g] = "waiting"]
    BY <1>2 DEF Call
  <2>2. ASSUME NEW h \in Goroutines, NEW n \in 1 .. MaxRows,
               n > taken'[h] \/ (n = taken'[h] /\ pc'[h] = "waiting")
        PROVE  n > taken[h] \/ (n = taken[h] /\ pc[h] = "waiting")
    BY <1>0, <2>1, <2>2, NumbersFact
  <2> QED
    BY <2>1, <2>2 DEF Unlogged
<1>3. ASSUME NEW g \in Goroutines, Lock(g)
      PROVE  Unlogged'
  <2>1. /\ \A i \in 1 .. Len(order') :
              order'[i] = <<g, taken[g]>> \/ (i \in 1 .. Len(order) /\ order'[i] = order[i])
        /\ taken' = taken /\ pc' = [pc EXCEPT ![g] = "writing"]
    BY <1>3, LockEffect
  <2>2. ASSUME NEW h \in Goroutines, NEW n \in 1 .. MaxRows,
               n > taken'[h] \/ (n = taken'[h] /\ pc'[h] = "waiting")
        PROVE  /\ n > taken[h] \/ (n = taken[h] /\ pc[h] = "waiting")
               /\ <<h, n>> # <<g, taken[g]>>
    BY <1>0, <2>1, <2>2, NumbersFact
  <2> QED
    BY <2>1, <2>2 DEF Unlogged
<1>4. ASSUME order' = order, taken' = taken,
             \A h \in Goroutines : pc'[h] \in {"waiting", "writing"} => pc'[h] = pc[h]
      PROVE  Unlogged'
  BY <1>4 DEF Unlogged
<1> QED
  BY <1>1, <1>2, <1>3, <1>4, LogMoves

LEMMA LastRowStep ==
  ASSUME TypeOK, Control, LastRow, [Next]_vars
  PROVE  LastRow'
<1>0. /\ pc \in [Goroutines -> {"idle", "waiting", "writing", "finished"}]
      /\ taken \in [Goroutines -> 0 .. MaxRows]
  BY DEF TypeOK
<1>1. CASE New
  BY <1>1 DEF New, Control, LastRow
<1>2. ASSUME NEW g \in Goroutines, Call(g)
      PROVE  LastRow'
  BY <1>0, <1>2 DEF Call, LastRow
<1>3. ASSUME NEW g \in Goroutines, Lock(g)
      PROVE  LastRow'
  <2>1. /\ Len(order') = Len(order) + 1 /\ Len(order) \in Nat
        /\ order' = Append(order, <<g, taken[g]>>)
        /\ order'[Len(order) + 1] = <<g, taken[g]>>
        /\ order \in Seq(Rows) /\ <<g, taken[g]>> \in Rows
        /\ taken' = taken /\ pc' = [pc EXCEPT ![g] = "writing"] /\ pc[g] = "waiting"
    BY <1>3, LockEffect
  <2>2. order' # <<>>
    BY <2>1, AppendProperties
  <2>3. \A h \in Goroutines : pc'[h] = "writing" => h = g
    BY <1>0, <1>3, <2>1, MainFact DEF Lock, Control
  <2> QED
    BY <2>1, <2>2, <2>3 DEF LastRow
<1>4. ASSUME order' = order, taken' = taken,
             \A h \in Goroutines : pc'[h] \in {"waiting", "writing"} => pc'[h] = pc[h]
      PROVE  LastRow'
  BY <1>4 DEF LastRow
<1> QED
  BY <1>1, <1>2, <1>3, <1>4, LogMoves

-----------------------------------------------------------------------------
(* What has been written                                                   *)

\* The steps that move what was written, or the place where it should be.
LEMMA WrittenMoves ==
  ASSUME TypeOK, Control, [Next]_vars
  PROVE  \/ New
         \/ \E g \in Goroutines : Lock(g) \/ PutCell(g)
         \/ /\ Written' = Written /\ order' = order /\ part' = part
            /\ broken => broken'
            /\ \/ broken'
               \/ mu' = mu
               \/ mu \notin Goroutines /\ mu' \notin Goroutines
               \/ mu \in Goroutines /\ mu' \notin Goroutines /\ part = Width
<1> DEFINE Quiet ==
      /\ Written' = Written /\ order' = order /\ part' = part
      /\ broken => broken'
      /\ \/ broken'
         \/ mu' = mu
         \/ mu \notin Goroutines /\ mu' \notin Goroutines
         \/ mu \in Goroutines /\ mu' \notin Goroutines /\ part = Width
<1>1. CASE NewFails \/ CallClose \/ CloseAgain \/ Kill \/ UNCHANGED vars
  BY <1>1 DEF NewFails, CallClose, CloseAgain, Kill, callVars, bufVars, vars, Written
<1>2. CASE LockClose \/ CloseFile
  BY <1>2, MainFact DEF LockClose, CloseFile, callVars, bufVars, Written, Control
<1>3. CASE CloseFlush
  <2>1. order' = order /\ part' = part /\ mu' = mu
    BY <1>3 DEF CloseFlush, callVars
  <2>2. Written' = Written /\ (broken => broken')
    BY <1>3, CloseFlushEffect
  <2> QED
    BY <2>1, <2>2
<1>4. ASSUME NEW g \in Goroutines, Call(g) \/ Finish(g)
      PROVE  Quiet
  BY <1>4 DEF Call, Finish, bufVars, Written
<1>5. ASSUME NEW g \in Goroutines, WriteReturns(g)
      PROVE  Quiet
  BY <1>5, MainFact DEF WriteReturns, Writing, Unlock, bufVars, Written, Control
<1>6. ASSUME NEW g \in Goroutines, WriteFails(g)
      PROVE  Quiet
  BY <1>6 DEF WriteFails, Writing, Unlock, bufVars, Written
<1> QED
  BY <1>1, <1>2, <1>3, <1>4, <1>5, <1>6 DEF Next, WriteStep, CloseStep, Ended

\* The types of the log and of what was written.
LEMMA WrittenType ==
  ASSUME TypeOK
  PROVE  /\ Written \in Seq(Cells) /\ Len(Written) \in Nat
         /\ order \in Seq(Rows) /\ Len(order) \in Nat
         /\ part \in 0 .. Width /\ broken \in BOOLEAN
<1>1. /\ file \in Seq(Cells) /\ buf \in Seq(Cells)
      /\ order \in Seq(Rows) /\ part \in 0 .. Width /\ broken \in BOOLEAN
  BY DEF TypeOK
<1>2. Written \in Seq(Cells)
  BY <1>1, ConcatProperties DEF Written
<1> QED
  BY <1>1, <1>2

\* The header is the first row, whole.
LEMMA NewEffect ==
  ASSUME TypeOK, Control, New
  PROVE  /\ Written' = RowCells(Header) /\ Len(Written') = Width
         /\ order' = <<Header>> /\ mu' \notin Goroutines
<1>1. file = <<>> /\ file' = file /\ buf' = RowCells(Header) /\ order' = <<Header>>
  BY DEF New, Control
<1>2. RowCells(Header) \in Seq(Cells) /\ Len(RowCells(Header)) = Width
  <2>1. Header \in Rows
    BY DEF Rows
  <2> QED
    BY <2>1, CellType, Zenon
<1>3. Written' = <<>> \o RowCells(Header)
  BY <1>1 DEF Written
<1>4. <<>> \o RowCells(Header) = RowCells(Header)
  BY <1>2, ConcatEmptySeq, Zenon
<1>5. mu' \notin Goroutines
  BY DEF New, Control, TypeOK
<1> QED
  BY <1>1, <1>2, <1>3, <1>4, <1>5

LEMMA PositionStep ==
  ASSUME TypeOK, Control, LastRow, Position, [Next]_vars
  PROVE  Position'
<1>0. /\ Written \in Seq(Cells) /\ Len(Written) \in Nat
      /\ order \in Seq(Rows) /\ Len(order) \in Nat
      /\ part \in 0 .. Width /\ broken \in BOOLEAN
  BY WrittenType
<1>1. \A a, b \in Nat : a <= b =>
         Width * a <= Width * b /\ Width * a \in Nat /\ Width * (a + 1) = Width * a + Width
  BY NumbersFact, ProductMono
<1>2. CASE New
  <2>1. Len(Written') = Width /\ order' = <<Header>> /\ mu' \notin Goroutines
    BY <1>2, NewEffect
  <2>2. Len(order') = 1 /\ Width * Len(order') = Width
    BY <2>1, NumbersFact
  <2> QED
    BY <2>1, <2>2, NumbersFact DEF Position
<1>3. ASSUME NEW g \in Goroutines, Lock(g)
      PROVE  Position'
  <2>1. Len(order') = Len(order) + 1
    BY <1>3, LockEffect
  <2>2. Written' = Written /\ part' = 0 /\ mu = Nobody /\ mu' = g /\ broken' = broken
    BY <1>3 DEF Lock, bufVars, Written
  <2>3. /\ Width * Len(order') = Width * Len(order) + Width
        /\ Width * Len(order) \in Nat
        /\ Len(order') - 1 = Len(order)
    BY <1>0, <1>1, <2>1
  <2>4. /\ Len(Written) <= Width * Len(order)
        /\ ~broken => Len(Written) = Width * Len(order)
    BY <2>2, MainFact DEF Position
  <2>5. /\ Len(Written') <= Width * Len(order')
        /\ ~broken' => Len(Written') = Width * (Len(order') - 1) + part'
    BY <1>0, <2>2, <2>3, <2>4, NumbersFact
  <2> QED
    BY <2>2, <2>5 DEF Position
<1>4. ASSUME NEW g \in Goroutines, PutCell(g)
      PROVE  Position'
  <2>1. mu = g /\ mu' = mu /\ order' = order /\ ~broken
    BY <1>4 DEF PutCell, Writing, Control
  <2>2. order # <<>>
    BY <1>4 DEF PutCell, Writing, LastRow
  <2>3. Len(order) - 1 \in Nat /\ (Len(order) - 1) + 1 = Len(order)
    BY <1>0, <2>2, EmptySeq
  <2>4. /\ Width * (Len(order) - 1) \in Nat
        /\ Width * Len(order) = Width * (Len(order) - 1) + Width
    <3>1. PICK k \in Nat : Len(order) = k + 1
      BY <2>3
    <3>2. Len(order) - 1 = k
      BY <3>1
    <3>3. Width * k \in Nat /\ Width * (k + 1) = Width * k + Width
      BY NumbersFact, ProductMono
    <3> QED
      BY <3>1, <3>2, <3>3
  <2>5. Len(Written) = Width * (Len(order) - 1) + part
    BY <2>1 DEF Position
  <2>6. /\ part \in 0 .. Width - 1
        /\ [row |-> <<g, taken[g]>>, part |-> part + 1] \in Cells
        /\ \/ /\ broken' = FALSE /\ part' = part + 1
              /\ Written' = Append(Written, [row |-> <<g, taken[g]>>, part |-> part + 1])
           \/ broken' = TRUE /\ part' = part /\ Written' = Written
    BY <1>4, PutEffect
  <2>7. CASE broken' = TRUE /\ part' = part /\ Written' = Written
    BY <2>1, <2>7 DEF Position
  <2>8. CASE /\ broken' = FALSE /\ part' = part + 1
             /\ Written' = Append(Written, [row |-> <<g, taken[g]>>, part |-> part + 1])
    <3>1. Len(Written') = Len(Written) + 1
      BY <1>0, <2>6, <2>8, AppendProperties
    <3>2. /\ Len(Written') <= Width * Len(order')
          /\ Len(Written') = Width * (Len(order') - 1) + part'
      BY <1>0, <2>1, <2>4, <2>5, <2>6, <2>8, <3>1, NumbersFact
    <3> QED
      BY <2>1, <3>2 DEF Position
  <2> QED
    BY <2>6, <2>7, <2>8
<1>5. ASSUME Written' = Written, order' = order, part' = part,
             broken => broken',
             \/ broken'
             \/ mu' = mu
             \/ mu \notin Goroutines /\ mu' \notin Goroutines
             \/ mu \in Goroutines /\ mu' \notin Goroutines /\ part = Width
      PROVE  Position'
  <2>1. CASE mu \in Goroutines /\ mu' \notin Goroutines /\ part = Width /\ ~broken'
    <3>1. order # <<>>
      BY <2>1 DEF Control, LastRow
    <3>a. Len(order) - 1 \in Nat /\ Len(order) = (Len(order) - 1) + 1
      BY <1>0, <3>1, EmptySeq
    <3>2. PICK k \in Nat : Len(order) = k + 1
      BY <3>a
    <3>3. Len(order) - 1 = k
      BY <3>2
    <3>4. Width * (k + 1) = Width * k + Width
      BY NumbersFact, ProductMono
    <3>5. Width * Len(order) = Width * (Len(order) - 1) + Width
      BY <3>2, <3>3, <3>4
    <3>6. Len(Written) = Width * (Len(order) - 1) + part
      BY <1>5, <2>1 DEF Position
    <3> QED
      BY <1>5, <2>1, <3>5, <3>6 DEF Position
  <2>2. CASE broken' \/ mu' = mu \/ (mu \notin Goroutines /\ mu' \notin Goroutines)
    BY <1>5, <2>2 DEF Position
  <2> QED
    BY <1>5, <2>1, <2>2
<1> QED
  BY <1>2, <1>3, <1>4, <1>5, WrittenMoves

LEMMA LayoutStep ==
  ASSUME TypeOK, Control, LastRow, Position, Layout, [Next]_vars
  PROVE  Layout'
<1>0. /\ Written \in Seq(Cells) /\ Len(Written) \in Nat
      /\ order \in Seq(Rows) /\ Len(order) \in Nat
      /\ part \in 0 .. Width /\ broken \in BOOLEAN
  BY WrittenType
<1>1. CASE New
  <2>1. Written' = RowCells(Header) /\ Len(Written') = Width /\ order' = <<Header>>
    BY <1>1, NewEffect
  <2>2. ASSUME NEW i \in 1 .. Width
        PROVE  RowCells(Header)[i] = CellAt(i)'
    <3>1. (i - 1) \div Width = 0 /\ (i - 1) % Width = i - 1 /\ (i - 1) + 1 = i
      BY NumbersFact
    <3>2. order'[1] = Header
      BY <2>1
    <3> QED
      BY <3>1, <3>2 DEF CellAt, RowCells
  <2> QED
    BY <2>1, <2>2 DEF Layout
<1>2. ASSUME NEW g \in Goroutines, Lock(g)
      PROVE  Layout'
  <2>1. \A i \in 1 .. Len(order) : order'[i] = order[i]
    BY <1>2, LockEffect
  <2>2. Written' = Written
    BY <1>2 DEF Lock, bufVars, Written
  <2>3. ASSUME NEW i \in 1 .. Len(Written)
        PROVE  CellAt(i)' = CellAt(i)
    <3>0. Width * Len(order) \in Nat /\ Len(Written) <= Width * Len(order)
      BY <1>0, NumbersFact, ProductMono DEF Position
    <3>1. i \in 1 .. Width * Len(order)
      BY <1>0, <3>0
    <3>2. (i - 1) \div Width \in 0 .. Len(order) - 1
      BY <1>0, <3>1, NumbersFact, RowOfCell
    <3>3. ((i - 1) \div Width) + 1 \in 1 .. Len(order)
      BY <1>0, <3>2
    <3> QED
      BY <2>1, <3>3 DEF CellAt
  <2> QED
    BY <2>2, <2>3 DEF Layout
<1>3. ASSUME NEW g \in Goroutines, PutCell(g)
      PROVE  Layout'
  <2> DEFINE cell == [row |-> <<g, taken[g]>>, part |-> part + 1]
  <2>1. mu = g /\ order' = order /\ ~broken
    BY <1>3 DEF PutCell, Writing, Control
  <2>2. order # <<>> /\ order[Len(order)] = <<g, taken[g]>>
    BY <1>3 DEF PutCell, Writing, LastRow
  <2>3. Len(order) - 1 \in Nat /\ (Len(order) - 1) + 1 = Len(order)
    BY <1>0, <2>2, EmptySeq
  <2>4. Len(Written) = Width * (Len(order) - 1) + part
    BY <2>1 DEF Position
  <2>5. /\ part \in 0 .. Width - 1
        /\ cell \in Cells
        /\ Written' = Append(Written, cell) \/ Written' = Written
    BY <1>3, PutEffect
  <2>6. CASE Written' = Written
    BY <2>1, <2>6 DEF Layout, CellAt
  <2>7. CASE Written' = Append(Written, cell)
    <3>0. PICK k \in Nat : k = Len(Written)
      BY <1>0
    <3>1. /\ Len(Written') = k + 1
          /\ \A i \in 1 .. k : Written'[i] = Written[i]
          /\ Written'[k + 1] = cell
      <4> HIDE DEF cell
      <4> QED
        BY <1>0, <2>5, <2>7, <3>0, AppendProperties
    <3>2. CellAt(k + 1)' = cell
      <4>1. /\ (Width * (Len(order) - 1) + part) \div Width = Len(order) - 1
            /\ (Width * (Len(order) - 1) + part) % Width = part
        BY <2>3, <2>5, NumbersFact, CellDivision
      <4>2. (k + 1) - 1 = Width * (Len(order) - 1) + part
        BY <2>4, <3>0
      <4>3. CellAt(k + 1)' = [row |-> order[(Len(order) - 1) + 1], part |-> part + 1]
        BY <2>1, <4>1, <4>2 DEF CellAt
      <4> QED
        BY <2>2, <2>3, <4>3
    <3>3. \A i \in 1 .. k + 1 : i \in 1 .. k \/ i = k + 1
      OBVIOUS
    <3>4. \A i \in 1 .. k : Written'[i] = CellAt(i)'
      BY <2>1, <3>0, <3>1 DEF Layout, CellAt
    <3>5. \A i \in 1 .. k + 1 : Written'[i] = CellAt(i)'
      BY <3>1, <3>2, <3>3, <3>4, Zenon
    <3> QED
      BY <3>1, <3>5 DEF Layout
  <2> QED
    BY <2>5, <2>6, <2>7
<1>4. ASSUME Written' = Written, order' = order
      PROVE  Layout'
  BY <1>4 DEF Layout, CellAt
<1> QED
  BY <1>1, <1>2, <1>3, <1>4, WrittenMoves

\* Each part of the invariant is kept by every step.
LEMMA Invariant == Spec => []IInv
<1>1. Init => IInv
  <2>1. Init => TypeOK
    <3> SUFFICES ASSUME Init PROVE TypeOK
      OBVIOUS
    <3>1. <<>> \in Seq(Cells) /\ Len(<<>>) <= BufSize /\ <<>> \in Seq(Rows)
      BY NumbersFact
    <3>2. /\ 0 \in 0 .. MaxRows /\ 0 \in 0 .. Width /\ 0 \in 0 .. MaxCloses
          /\ pc \in [Goroutines -> {"idle", "waiting", "writing", "finished"}]
          /\ taken \in [Goroutines -> 0 .. MaxRows]
      BY NumbersFact DEF Init
    <3> QED
      BY <3>1, <3>2 DEF Init, TypeOK
  <2>2. Init => Control
    BY MainFact DEF Init, Control, Closing
  <2>3. Init => Unlogged /\ LastRow
    BY DEF Init, Unlogged, LastRow
  <2>4. Init => Position /\ Layout
    <3> SUFFICES ASSUME Init PROVE Position /\ Layout
      OBVIOUS
    <3>1. Written = <<>> /\ order = <<>> /\ mu \notin Goroutines
      BY MainFact DEF Init, Written
    <3>2. Len(Written) = 0 /\ Len(order) = 0 /\ Width * 0 = 0
      BY <3>1, NumbersFact
    <3> QED
      BY <3>1, <3>2 DEF Position, Layout
  <2> QED
    BY <2>1, <2>2, <2>3, <2>4 DEF IInv
<1>2. IInv /\ [Next]_vars => IInv'
  <2> SUFFICES ASSUME IInv, [Next]_vars PROVE IInv'
    OBVIOUS
  <2>1. TypeOK' /\ Control'
    BY TypeStep, ControlStep DEF IInv
  <2>2. Unlogged' /\ LastRow'
    BY UnloggedStep, LastRowStep DEF IInv
  <2>3. Position' /\ Layout'
    BY PositionStep, LayoutStep DEF IInv
  <2> QED
    BY <2>1, <2>2, <2>3 DEF IInv
<1> QED
  BY <1>1, <1>2, PTL DEF Spec

-----------------------------------------------------------------------------
(* The theorems                                                            *)

\* Every variable keeps its type.
THEOREM TypeCorrect == Spec => []TypeOK
<1>1. IInv => TypeOK
  BY DEF IInv
<1> QED
  BY <1>1, Invariant, PTL

\* The cells of the rows, one row after the other.
LEMMA StreamCells ==
  ASSUME IInv
  PROVE  /\ Width * Len(order) \in Nat
         /\ Stream \in Seq(Cells) /\ Len(Stream) = Width * Len(order)
         /\ \A i \in 1 .. Width * Len(order) : Stream[i] = CellAt(i)
<1>1. order \in Seq(Rows) /\ Len(order) \in Nat /\ Width * Len(order) \in Nat
  <2>1. order \in Seq(Rows) /\ Len(order) \in Nat
    BY WrittenType DEF IInv
  <2>2. Width * Len(order) \in Nat
    BY <2>1, NumbersFact, ProductMono
  <2> QED
    BY <2>1, <2>2
<1>2. Stream = [i \in 1 .. Width * Len(order) |-> CellAt(i)]
  BY DEF Stream, CellAt
<1>3. ASSUME NEW i \in 1 .. Width * Len(order)
      PROVE  CellAt(i) \in Cells
  <2>1. (i - 1) \div Width \in 0 .. Len(order) - 1 /\ (i - 1) % Width \in 0 .. Width - 1
    BY <1>1, NumbersFact, RowOfCell
  <2>2. ((i - 1) \div Width) + 1 \in 1 .. Len(order) /\ ((i - 1) % Width) + 1 \in 1 .. Width
    BY <1>1, <2>1, NumbersFact
  <2>3. order[((i - 1) \div Width) + 1] \in Rows
    BY <1>1, <2>2, ElementOfSeq
  <2> QED
    BY <2>2, <2>3 DEF CellAt, Cells
<1>4. Stream \in [1 .. Width * Len(order) -> Cells]
  BY <1>2, <1>3, Zenon
<1>5. Stream \in Seq(Cells) /\ Len(Stream) = Width * Len(order)
  BY <1>1, <1>4, FunctionIsSeq
<1> QED
  BY <1>1, <1>2, <1>5

\* The file followed by the buffer is always a prefix of the rows in the order
\* of the mutex: no row torn by another, no gap after a failed flush, nothing
\* written twice.
THEOREM FileIsPrefixAlways == Spec => []FileIsPrefix
<1>1. ASSUME IInv
      PROVE  FileIsPrefix
  <2>1. /\ Width * Len(order) \in Nat
        /\ Stream \in Seq(Cells) /\ Len(Stream) = Width * Len(order)
        /\ \A i \in 1 .. Width * Len(order) : Stream[i] = CellAt(i)
    BY <1>1, StreamCells
  <2>2. Written \in Seq(Cells) /\ Len(Written) \in Nat /\ Len(Written) <= Len(Stream)
    BY <1>1, <2>1, WrittenType DEF IInv, Position
  <2>3. \A i \in 1 .. Len(Written) : Written[i] = Stream[i]
    BY <1>1, <2>1, <2>2 DEF IInv, Layout
  <2>4. /\ SubSeq(Written, 1, Len(Written)) = Written
        /\ Len(SubSeq(Stream, 1, Len(Written))) = Len(Written)
        /\ SubSeq(Stream, 1, Len(Written)) \in Seq(Cells)
        /\ \A i \in 1 .. Len(Written) : SubSeq(Stream, 1, Len(Written))[i] = Stream[i]
    <3> HIDE DEF Stream, Written
    <3> QED
      BY <2>1, <2>2, SubSeqFull
  <2>5. Written = SubSeq(Stream, 1, Len(Written))
    <3> HIDE DEF Stream, Written
    <3> DEFINE t == SubSeq(Stream, 1, Len(Written))
    <3>1. /\ t \in Seq(Cells) /\ Len(t) = Len(Written)
          /\ \A i \in 1 .. Len(Written) : t[i] = Written[i]
      BY <2>3, <2>4
    <3> HIDE DEF t
    <3>2. Written = t
      BY <2>2, <3>1, SeqEqual
    <3> QED
      BY <3>2 DEF t
  <2> QED
    BY <2>2, <2>4, <2>5 DEF FileIsPrefix, IsPrefix, Written
<1> QED
  BY <1>1, Invariant, PTL

-----------------------------------------------------------------------------
(* The writer implements the append-only log                               *)

\* The file only grows.
LEMMA FileGrows ==
  ASSUME TypeOK,
         file' = file \/ (\E rest \in Seq(Cells) : Flush(rest))
  PROVE  Len(file) <= Len(file')
<1>0. file \in Seq(Cells) /\ buf \in Seq(Cells) /\ Len(file) \in Nat
  BY DEF TypeOK
<1>1. CASE file' = file
  BY <1>0, <1>1
<1>2. ASSUME NEW rest \in Seq(Cells), Flush(rest)
      PROVE  Len(file) <= Len(file')
  <2>1. PICK n \in 0 .. Len(buf) : file' = file \o SubSeq(buf, 1, n)
    BY <1>2 DEF Flush
  <2>2. \A s, t \in Seq(Cells) : \A k \in 0 .. Len(t) : SubSeq(t, 1, k) \in Seq(Cells)
    OBVIOUS
  <2>3. \A s, t \in Seq(Cells) : Len(s \o t) = Len(s) + Len(t) /\ Len(t) \in Nat
    BY ConcatProperties
  <2>4. PICK u \in Seq(Cells) : u = SubSeq(buf, 1, n)
    BY <1>0, <2>2, Zenon
  <2>5. Len(file') = Len(file) + Len(u) /\ Len(u) \in Nat
    BY <1>0, <2>1, <2>3, <2>4, Zenon
  <2> QED
    BY <1>0, <2>5
<1> QED
  BY <1>1, <1>2

\* What the log is told by a flush.
LEMMA FlushIsPersist ==
  ASSUME IInv, IInv', alive, f # "nil", UNCHANGED <<order, alive, f>>,
         file' = file \/ (\E rest \in Seq(Cells) : Flush(rest))
  PROVE  Log!Persist
<1>1. /\ file' \in Seq(Cells) /\ buf' \in Seq(Cells)
      /\ Len(file) \in Nat /\ Len(file') \in Nat /\ Len(buf') \in Nat
  BY DEF IInv, TypeOK
<1>2. Len(Written') = Len(file') + Len(buf')
  BY <1>1, ConcatProperties DEF Written
<1>3. Len(Written') <= Width * Len(order) /\ Width * Len(order) \in Nat
  BY StreamCells DEF IInv, Position
<1>4. Len(file) <= Len(file')
  BY FileGrows DEF IInv
<1>5. Len(file') \in Len(file) .. Width * Len(order)
  BY <1>1, <1>2, <1>3, <1>4
<1>6. LogState = "open" /\ LogState' = "open"
  BY DEF LogState
<1> QED
  BY <1>5, <1>6 DEF Log!Persist

\* Every step of the writer is a step of the log, or none.
LEMMA LogStep ==
  ASSUME IInv, IInv', [Next]_vars
  PROVE  [Log!Next]_Log!vars
<1> DEFINE Quiet == UNCHANGED <<order, file, alive, f, result>>
<1>0. alive \in BOOLEAN /\ f \in {"none", "open", "nil"} /\ result \in {"none", "ok", "error"}
  BY DEF IInv, TypeOK
<1>1. CASE Quiet
  BY <1>1 DEF Log!vars, LogState
<1>2. CASE New
  <2>1. /\ order = <<>> /\ order' = <<Header>> /\ file' = file /\ alive /\ alive'
        /\ f = "none" /\ f' = "open"
    BY <1>2 DEF New, IInv, Control
  <2>2. LogState = "open" /\ LogState' = "open"
    BY <2>1 DEF LogState
  <2>3. order' = Append(order, Header) /\ {order[i] : i \in DOMAIN order} = {}
    BY <2>1
  <2>4. Header \in Rows
    BY DEF Rows
  <2>5. Log!Add(Header)
    BY <2>1, <2>2, <2>3 DEF Log!Add
  <2> QED
    BY <2>4, <2>5 DEF Log!Next
<1>3. CASE NewFails \/ Kill
  <2>1. alive /\ ~alive' /\ UNCHANGED <<order, file>>
    BY <1>3 DEF NewFails, Kill, callVars, bufVars
  <2>2. LogState # "dead" /\ LogState' = "dead"
    BY <2>1, <1>0 DEF LogState
  <2> QED
    BY <2>1, <2>2 DEF Log!Next, Log!Die
<1>4. CASE CallClose \/ LockClose \/ CloseAgain \/ UNCHANGED vars
  <2>1. Quiet
    BY <1>4 DEF CallClose, LockClose, CloseAgain, callVars, bufVars, vars
  <2> QED
    BY <2>1, <1>1
<1>5. CASE CloseFlush
  <2>1. alive /\ UNCHANGED <<order, alive, f>> /\ main = "flush"
    BY <1>5 DEF CloseFlush, callVars
  <2>2. f # "nil"
    BY <2>1 DEF IInv, Control
  <2>3. <<>> \in Seq(Cells)
    OBVIOUS
  <2>4. file' = file \/ Flush(<<>>)
    BY <1>5 DEF CloseFlush, bufVars
  <2>5. Log!Persist
    BY <2>1, <2>2, <2>3, <2>4, FlushIsPersist
  <2> QED
    BY <2>5 DEF Log!Next
<1>6. CASE CloseFile
  <2>1. /\ alive /\ main = "check" /\ f' = "nil"
        /\ result' \in IF broken THEN {"error"} ELSE {"ok", "error"}
        /\ UNCHANGED <<order, file, alive>>
    BY <1>6 DEF CloseFile, callVars, bufVars
  <2>2. f # "nil" /\ mu = Main /\ (broken \/ buf = <<>>)
    BY <2>1 DEF IInv, Control
  <2>3. LogState = "open" /\ LogState' = IF result' = "ok" THEN "closed" ELSE "failed"
    BY <2>1, <2>2 DEF LogState
  <2>4. CASE result' = "ok"
    <3>1. ~broken /\ buf = <<>>
      BY <2>1, <2>2, <2>4
    <3>2. Len(Written) = Width * Len(order)
      BY <2>2, <3>1, MainFact DEF IInv, Position
    <3>3. file \in Seq(Cells)
      BY DEF IInv, TypeOK
    <3>4. Written = file
      BY <3>1, <3>3, ConcatEmptySeq DEF Written
    <3>5. Log!Close
      BY <2>1, <2>3, <2>4, <3>2, <3>4 DEF Log!Close
    <3> QED
      BY <3>5 DEF Log!Next
  <2>5. CASE result' # "ok"
    BY <2>1, <2>3, <2>5 DEF Log!Next, Log!CloseFails
  <2> QED
    BY <2>4, <2>5
<1>7. ASSUME NEW g \in Goroutines, Call(g) \/ WriteReturns(g) \/ WriteFails(g) \/ Finish(g)
      PROVE  Quiet
  BY <1>7 DEF Call, WriteReturns, WriteFails, Finish, bufVars, closeVars
<1>8. ASSUME NEW g \in Goroutines, Lock(g)
      PROVE  Log!Next
  <2> DEFINE row == <<g, taken[g]>>
  <2>1. /\ alive /\ UNCHANGED <<alive, f, result, file>> /\ pc[g] = "waiting"
    BY <1>8 DEF Lock, bufVars, closeVars
  <2>2. f # "nil"
    BY <2>1 DEF IInv, Control, Closing
  <2>3. LogState = "open" /\ LogState' = "open"
    BY <2>1, <2>2 DEF LogState
  <2>4. /\ taken[g] \in 1 .. MaxRows /\ row \in Rows /\ order \in Seq(Rows)
        /\ order' = Append(order, row)
    BY <1>8, LockEffect DEF IInv
  <2>5. \A i \in 1 .. Len(order) : order[i] # row
    BY <2>1, <2>4 DEF IInv, Unlogged
  <2>6. DOMAIN order = 1 .. Len(order)
    BY <2>4
  <2>7. row \notin {order[i] : i \in DOMAIN order}
    BY <2>5, <2>6, Zenon
  <2>8. Log!Add(row)
    BY <2>1, <2>3, <2>4, <2>7 DEF Log!Add
  <2> QED
    BY <2>4, <2>8 DEF Log!Next
<1>9. ASSUME NEW g \in Goroutines, PutCell(g)
      PROVE  Log!Next
  <2>1. alive /\ UNCHANGED <<order, alive, f>> /\ pc[g] = "writing"
    BY <1>9 DEF PutCell, Writing, closeVars
  <2>2. f # "nil"
    BY <2>1 DEF IInv, Control, Closing
  <2> DEFINE cell == [row |-> <<g, taken[g]>>, part |-> part + 1]
  <2>3. cell \in Cells
    BY <1>9, PutEffect DEF IInv
  <2>4. file' = file \/ Flush(<<cell>>)
    BY <1>9 DEF PutCell
  <2> HIDE DEF cell
  <2>5. <<cell>> \in Seq(Cells)
    BY <2>3
  <2>6. file' = file \/ \E rest \in Seq(Cells) : Flush(rest)
    BY <2>4, <2>5, Zenon
  <2>7. Log!Persist
    BY <2>1, <2>2, <2>6, FlushIsPersist
  <2> QED
    BY <2>7 DEF Log!Next
<1> QED
  BY <1>1, <1>2, <1>3, <1>4, <1>5, <1>6, <1>7, <1>8, <1>9
     DEF Next, WriteStep, CloseStep, Ended

\* Close says that the rows are in the file only when they all are, whatever the
\* disk did before, and neither a sample nor a failed flush takes a cell back
\* out of it.
THEOREM ImplementsRowLogAlways == Spec => ImplementsRowLog
<1>1. Init => Log!Init
  BY DEF Init, Log!Init, LogState
<1>2. IInv /\ IInv' /\ [Next]_vars => [Log!Next]_Log!vars
  BY LogStep
<1> QED
  BY <1>1, <1>2, Invariant, PTL DEF Spec, ImplementsRowLog, Log!Spec
=============================================================================
