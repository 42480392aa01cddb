----------------------------- MODULE TyphonRpc -----------------------------
(***************************************************************************)
(* The JSON-RPC client inside TyphonDriver (internal/engine/typhon.go):    *)
(* call() run by any number of goroutines, the readLoop goroutine that     *)
(* demultiplexes replies by id, Stop, and the two directions of the Unix   *)
(* socket to the engine process.  The model starts where Start has         *)
(* connected the socket and spawned readLoop.                              *)
(*                                                                         *)
(* One action is one section of the Go code between two points where       *)
(* another goroutine can act: an atomic operation, a critical section of   *)
(* pendingM, a channel operation or a blocking system call.                *)
(***************************************************************************)
EXTENDS Naturals, Sequences

CONSTANTS
    Callers,        \* goroutines that use the driver
    MaxCalls,       \* bound on the number of calls issued
    SockCap,        \* frames the socket buffers towards the engine
    MaxEvents,      \* bound on pushed or malformed frames from the engine
    StopAnyTime,    \* TRUE: Stop may run while calls are in progress;
                    \* FALSE: only after they returned, as the runner does
    TextBreaksJson  \* the text of a non-EOF read error holds a quote or a
                    \* backslash (it quotes the socket's path)

ASSUME ConstantsAssumption ==
    /\ MaxCalls \in Nat
    /\ SockCap \in Nat \ {0}
    /\ MaxEvents \in Nat
    /\ StopAnyTime \in BOOLEAN
    /\ TextBreaksJson \in BOOLEAN

VARIABLES
    closed,     \* d.closed
    idSeq,      \* d.idSeq
    pending,    \* the keys of d.pending
    chan,       \* content of the capacity-1 channel made for each call
    pc,         \* where each caller is inside call()
    cid,        \* the id of its call, 0 when it is in none
    ctxDone,    \* its context has expired or was cancelled
    refused,    \* callers that were told "client closed"
    outcome,    \* how each call returned
    readPc,     \* where readLoop is
    readId,     \* the id of the frame readLoop is routing, 0 when none
    readErr,    \* the error that ended readLoop
    stopPc,     \* where Stop is
    connOpen,   \* d.conn has not been closed by Stop
    engine,     \* the engine process
    toEngine,   \* request frames in the socket, not yet read by the engine
    working,    \* requests the engine has read and not answered
    served,     \* requests the engine has executed and answered
    toClient,   \* frames in the socket or in bufio.Reader, not yet parsed
    events      \* number of frames without an id sent so far

callerVars == <<pc, cid, ctxDone, refused>>
muxVars    == <<pending, chan, outcome>>
readVars   == <<readPc, readId, readErr>>
engineVars == <<engine, working, served, events>>
vars == <<closed, idSeq, callerVars, muxVars, readVars, stopPc, connOpen,
          engineVars, toEngine, toClient>>

Ids == 1 .. MaxCalls
NoId == 0       \* a frame without an id: an event push or malformed JSON

CallPc == {"idle", "begun", "registered", "locked", "waiting", "writeErr", "expired"}
InMap  == {"registered", "locked", "waiting", "writeErr", "expired"}

TypeOK ==
    /\ closed \in BOOLEAN
    /\ idSeq \in 0 .. MaxCalls
    /\ pending \subseteq Ids
    /\ chan \in [Ids -> {"empty", "frame", "rpcError", "brokenJson"}]
    /\ pc \in [Callers -> CallPc]
    /\ cid \in [Callers -> 0 .. MaxCalls]
    /\ \A c \in Callers : pc[c] # "idle" => cid[c] \in Ids
    /\ ctxDone \in [Callers -> BOOLEAN]
    /\ refused \subseteq Callers
    /\ outcome \in [Ids -> {"none", "reply", "rpcError", "writeError", "ctxError"}]
    /\ readPc \in {"read", "lookup", "deliver", "failing", "failLock", "done"}
    /\ readId \in 0 .. MaxCalls
    /\ readPc \in {"lookup", "deliver"} => readId \in Ids
    /\ readErr \in {"none", "eof", "text"}
    /\ stopPc \in {"no", "marked", "signalled", "done"}
    /\ connOpen \in BOOLEAN
    /\ engine \in {"up", "gone"}
    /\ toEngine \in Seq(Ids) /\ Len(toEngine) <= SockCap
    /\ working \subseteq Ids
    /\ served \subseteq Ids
    /\ toClient \in Seq(Ids \cup {NoId})
    /\ events \in 0 .. MaxEvents

Init ==
    /\ closed = FALSE
    /\ idSeq = 0
    /\ pending = {}
    /\ chan = [i \in Ids |-> "empty"]
    /\ pc = [c \in Callers |-> "idle"]
    /\ cid = [c \in Callers |-> 0]
    /\ ctxDone = [c \in Callers |-> FALSE]
    /\ refused = {}
    /\ outcome = [i \in Ids |-> "none"]
    /\ readPc = "read" /\ readId = 0 /\ readErr = "none"
    /\ stopPc = "no"
    /\ connOpen = TRUE
    /\ engine = "up"
    /\ toEngine = <<>> /\ working = {} /\ served = {} /\ toClient = <<>>
    /\ events = 0

-----------------------------------------------------------------------------
(* call(), one caller c                                                    *)

Goto(c, from, to) == pc[c] = from /\ pc' = [pc EXCEPT ![c] = to]

\* failPending holds pendingM across its whole loop; every other critical
\* section of pendingM is a single action.
PendingFree == readPc # "failLock"

\* call() returns and its locals die with it.
Return(c, from, result) ==
    /\ Goto(c, from, "idle")
    /\ cid' = [cid EXCEPT ![c] = 0]
    /\ ctxDone' = [ctxDone EXCEPT ![c] = FALSE]
    /\ outcome' = [outcome EXCEPT ![cid[c]] = result]

\* The frame cannot be delivered: our end is closed or the peer has exited.
LinkDown == ~connOpen \/ engine = "gone"

CallRefused(c) ==
    /\ closed /\ pc[c] = "idle" /\ c \notin refused
    /\ refused' = refused \cup {c}
    /\ UNCHANGED <<closed, idSeq, pc, cid, ctxDone, muxVars, readVars, stopPc,
                   connOpen, engineVars, toEngine, toClient>>

CallBegin(c) ==
    /\ ~closed
    /\ idSeq < MaxCalls
    /\ stopPc = "no" \/ StopAnyTime
    /\ Goto(c, "idle", "begun")
    /\ idSeq' = idSeq + 1
    /\ cid' = [cid EXCEPT ![c] = idSeq + 1]
    /\ UNCHANGED <<closed, ctxDone, refused, muxVars, readVars, stopPc, connOpen,
                   engineVars, toEngine, toClient>>

CallRegister(c) ==
    /\ PendingFree
    /\ Goto(c, "begun", "registered")
    /\ pending' = pending \cup {cid[c]}
    /\ UNCHANGED <<closed, idSeq, cid, ctxDone, refused, chan, outcome, readVars,
                   stopPc, connOpen, engineVars, toEngine, toClient>>

CallLockWrite(c) ==
    /\ \A d \in Callers : pc[d] # "locked"
    /\ Goto(c, "registered", "locked")
    /\ UNCHANGED <<closed, idSeq, cid, ctxDone, refused, muxVars, readVars, stopPc,
                   connOpen, engineVars, toEngine, toClient>>

\* conn.Write blocks, holding writeM, while the socket buffer is full.
CallWrite(c) ==
    /\ ~LinkDown
    /\ Len(toEngine) < SockCap
    /\ Goto(c, "locked", "waiting")
    /\ toEngine' = Append(toEngine, cid[c])
    /\ UNCHANGED <<closed, idSeq, cid, ctxDone, refused, muxVars, readVars, stopPc,
                   connOpen, engineVars, toClient>>

CallWriteFails(c) ==
    /\ LinkDown
    /\ Goto(c, "locked", "writeErr")
    /\ UNCHANGED <<closed, idSeq, cid, ctxDone, refused, muxVars, readVars, stopPc,
                   connOpen, engineVars, toEngine, toClient>>

\* Delete the entry and return the write error or ctx.Err().
Abandon(c, from, result) ==
    /\ PendingFree
    /\ Return(c, from, result)
    /\ pending' = pending \ {cid[c]}
    /\ UNCHANGED <<closed, idSeq, refused, chan, readVars, stopPc,
                   connOpen, engineVars, toEngine, toClient>>

CallWriteReturns(c) == Abandon(c, "writeErr", "writeError")

\* The select of call(): with both branches ready Go picks either.
CallReceive(c) ==
    /\ pc[c] = "waiting" /\ chan[cid[c]] # "empty"
    /\ Return(c, "waiting", IF chan[cid[c]] = "rpcError" THEN "rpcError" ELSE "reply")
    /\ chan' = [chan EXCEPT ![cid[c]] = "empty"]
    /\ UNCHANGED <<closed, idSeq, refused, pending, readVars, stopPc,
                   connOpen, engineVars, toEngine, toClient>>

\* Mutant: a wait without the ctx.Done() branch.
NeverExpire(c) == FALSE /\ UNCHANGED vars

CallExpire(c) ==
    /\ ctxDone[c]
    /\ Goto(c, "waiting", "expired")
    /\ UNCHANGED <<closed, idSeq, cid, ctxDone, refused, muxVars, readVars, stopPc,
                   connOpen, engineVars, toEngine, toClient>>

\* Mutant: ctx.Err() returned without deleting the entry.
LeakyExpireReturns(c) ==
    /\ Return(c, "expired", "ctxError")
    /\ UNCHANGED <<closed, idSeq, refused, pending, chan, readVars, stopPc,
                   connOpen, engineVars, toEngine, toClient>>

CallExpireReturns(c) == Abandon(c, "expired", "ctxError")

\* The deadline every caller puts on its context, or a cancelled parent.
CtxDone(c) ==
    /\ pc[c] # "idle" /\ ~ctxDone[c]
    /\ ctxDone' = [ctxDone EXCEPT ![c] = TRUE]
    /\ UNCHANGED <<closed, idSeq, pc, cid, refused, muxVars, readVars, stopPc,
                   connOpen, engineVars, toEngine, toClient>>

-----------------------------------------------------------------------------
(* readLoop and failPending                                                *)

\* Mutant: a pushed event is taken for a reply.
ReadAnyFrame ==
    /\ readPc = "read" /\ toClient # <<>>
    /\ toClient' = Tail(toClient)
    /\ readId' = Head(toClient)
    /\ readPc' = "lookup"
    /\ UNCHANGED <<closed, idSeq, callerVars, muxVars, readErr, stopPc, connOpen,
                   engineVars, toEngine>>

\* A frame without an id is an event that the engine pushes.
ReadFrame ==
    /\ readPc = "read" /\ toClient # <<>>
    /\ toClient' = Tail(toClient)
    /\ readId' = Head(toClient)
    /\ readPc' = IF Head(toClient) = NoId THEN "read" ELSE "lookup"
    /\ UNCHANGED <<closed, idSeq, callerVars, muxVars, readErr, stopPc, connOpen,
                   engineVars, toEngine>>

\* An entry that is gone belongs to a call that timed out: an orphan reply.
ReadLookup ==
    /\ readPc = "lookup"
    /\ \/ readId \in pending /\ readPc' = "deliver" /\ UNCHANGED readId
       \/ readId \notin pending /\ readPc' = "read" /\ readId' = 0
    /\ pending' = pending \ {readId}
    /\ UNCHANGED <<closed, idSeq, callerVars, chan, outcome, readErr, stopPc,
                   connOpen, engineVars, toEngine, toClient>>

\* ch <- line, which would block on a full channel.
ReadDeliver ==
    /\ readPc = "deliver" /\ chan[readId] = "empty"
    /\ chan' = [chan EXCEPT ![readId] = "frame"]
    /\ readPc' = "read" /\ readId' = 0
    /\ UNCHANGED <<closed, idSeq, callerVars, pending, outcome, readErr,
                   stopPc, connOpen, engineVars, toEngine, toClient>>

\* After conn.Close frames already in bufio.Reader may still be parsed, the
\* others are lost.  A peer that exits gives EOF once the socket is drained,
\* or ECONNRESET when it left requests unread.
ReadError ==
    /\ readPc = "read"
    /\ \/ ~connOpen /\ readErr' = "text"
       \/ connOpen /\ engine = "gone" /\ toClient = <<>> /\ readErr' = "eof"
       \/ connOpen /\ engine = "gone" /\ toClient = <<>> /\ toEngine # <<>>
             /\ readErr' = "text"
    /\ closed' = TRUE
    /\ readPc' = "failing"
    /\ UNCHANGED <<idSeq, callerVars, muxVars, readId, stopPc, connOpen, engineVars,
                   toEngine, toClient>>

\* Mutant: readLoop ends without failPending.
SilentEnd ==
    /\ readPc = "failing"
    /\ readPc' = "done"
    /\ UNCHANGED <<closed, idSeq, callerVars, muxVars, readId, readErr, stopPc,
                   connOpen, engineVars, toEngine, toClient>>

FailLock ==
    /\ readPc = "failing"
    /\ readPc' = "failLock"
    /\ UNCHANGED <<closed, idSeq, callerVars, muxVars, readId, readErr, stopPc,
                   connOpen, engineVars, toEngine, toClient>>

\* Mutant: the connection error sent as an ordinary frame.
PlainErrorFrame == "frame"

\* The error text goes into the JSON literal as it is: with a quote in it the
\* caller cannot decode "__rpc_error" and takes the frame for a reply.
ErrorFrame == IF readErr = "text" /\ TextBreaksJson THEN "brokenJson" ELSE "rpcError"

\* Mutant: failPending without the delete.
KeepingFail(i) ==
    /\ readPc = "failLock" /\ i \in pending
    /\ chan[i] = "empty"
    /\ chan' = [chan EXCEPT ![i] = ErrorFrame]
    /\ UNCHANGED <<closed, idSeq, callerVars, pending, outcome, readVars, stopPc,
                   connOpen, engineVars, toEngine, toClient>>

FailOne(i) ==
    /\ readPc = "failLock" /\ i \in pending
    /\ chan[i] = "empty"
    /\ chan' = [chan EXCEPT ![i] = ErrorFrame]
    /\ pending' = pending \ {i}
    /\ UNCHANGED <<closed, idSeq, callerVars, outcome, readVars, stopPc, connOpen,
                   engineVars, toEngine, toClient>>

FailUnlock ==
    /\ readPc = "failLock" /\ pending = {}
    /\ readPc' = "done"
    /\ UNCHANGED <<closed, idSeq, callerVars, muxVars, readId, readErr, stopPc,
                   connOpen, engineVars, toEngine, toClient>>

-----------------------------------------------------------------------------
(* Stop                                                                    *)

StopMark ==
    /\ stopPc = "no"
    /\ StopAnyTime \/ \A c \in Callers : pc[c] = "idle"
    /\ stopPc' = "marked"
    /\ closed' = TRUE
    /\ UNCHANGED <<idSeq, callerVars, muxVars, readVars, connOpen, engineVars,
                   toEngine, toClient>>

\* conn.Close, then SIGINT to the process.
StopClose ==
    /\ stopPc = "marked"
    /\ stopPc' = "signalled"
    /\ connOpen' = FALSE
    /\ UNCHANGED <<closed, idSeq, callerVars, muxVars, readVars, engineVars,
                   toEngine, toClient>>

Exit == engine = "up" /\ engine' = "gone" /\ working' = {}

\* Mutant: Stop waits for the engine for ever.
NoKill == FALSE /\ UNCHANGED vars

\* Ten seconds of grace, or the end of the caller's context: SIGKILL.
StopKill ==
    /\ stopPc = "signalled"
    /\ Exit
    /\ UNCHANGED <<closed, idSeq, callerVars, muxVars, readVars, stopPc, connOpen,
                   served, events, toEngine, toClient>>

StopReap ==
    /\ stopPc = "signalled" /\ engine = "gone"
    /\ stopPc' = "done"
    /\ UNCHANGED <<closed, idSeq, callerVars, muxVars, readVars, connOpen,
                   engineVars, toEngine, toClient>>

-----------------------------------------------------------------------------
(* The engine process: external, no promise that it ever answers           *)

EngineTake ==
    /\ engine = "up" /\ toEngine # <<>>
    /\ working' = working \cup {Head(toEngine)}
    /\ toEngine' = Tail(toEngine)
    /\ UNCHANGED <<closed, idSeq, callerVars, muxVars, readVars, stopPc, connOpen,
                   engine, served, events, toClient>>

\* A frame sent after our end is closed is lost.
SendToClient(f) == toClient' = IF connOpen THEN Append(toClient, f) ELSE toClient

EngineReply(i) ==
    /\ engine = "up" /\ i \in working
    /\ working' = working \ {i}
    /\ served' = served \cup {i}
    /\ SendToClient(i)
    /\ UNCHANGED <<closed, idSeq, callerVars, muxVars, readVars, stopPc, connOpen,
                   engine, events, toEngine>>

EnginePush ==
    /\ engine = "up" /\ events < MaxEvents
    /\ events' = events + 1
    /\ SendToClient(NoId)
    /\ UNCHANGED <<closed, idSeq, callerVars, muxVars, readVars, stopPc, connOpen,
                   engine, working, served, toEngine>>

\* A crash, or the engine's reaction to SIGINT.
EngineExit ==
    /\ Exit
    /\ UNCHANGED <<closed, idSeq, callerVars, muxVars, readVars, stopPc, connOpen,
                   served, events, toEngine, toClient>>

-----------------------------------------------------------------------------

CallerStep(c) ==
    \/ CallBegin(c) \/ CallRefused(c) \/ CallRegister(c)
    \/ CallLockWrite(c) \/ CallWrite(c) \/ CallWriteFails(c) \/ CallWriteReturns(c)
    \/ CallReceive(c) \/ CallExpire(c) \/ CallExpireReturns(c) \/ CtxDone(c)

ReaderStep ==
    \/ ReadFrame \/ ReadLookup \/ ReadDeliver \/ ReadError
    \/ FailLock \/ (\E i \in Ids : FailOne(i)) \/ FailUnlock

StopStep == StopMark \/ StopClose \/ StopKill \/ StopReap

EngineStep ==
    EngineTake \/ (\E i \in Ids : EngineReply(i)) \/ EnginePush \/ EngineExit

\* Everything has returned: the only state in which nothing can happen.
AllReturned ==
    /\ stopPc = "done" /\ readPc = "done" /\ refused = Callers
    /\ \A c \in Callers : pc[c] = "idle"
    /\ UNCHANGED vars

Next ==
    \/ \E c \in Callers : CallerStep(c)
    \/ ReaderStep \/ StopStep \/ EngineStep
    \/ AllReturned

Spec == Init /\ [][Next]_vars

\* The Go scheduler runs every goroutine that can run, a deadline passes, and
\* a process that is not hung in Stop gets its SIGKILL.  Nothing is assumed of
\* the engine, of new calls or of the moment Stop is called.
Fairness ==
    /\ \A c \in Callers :
          /\ WF_vars(CallRegister(c)) /\ WF_vars(CallWrite(c))
          /\ WF_vars(CallWriteFails(c)) /\ WF_vars(CallWriteReturns(c))
          /\ WF_vars(CallReceive(c) \/ CallExpire(c)) /\ WF_vars(CallExpireReturns(c))
          /\ WF_vars(CtxDone(c))
          /\ SF_vars(CallLockWrite(c))    \* sync.Mutex does not starve a waiter
    /\ WF_vars(ReaderStep)
    /\ WF_vars(StopClose) /\ WF_vars(StopKill) /\ WF_vars(StopReap)

FairSpec == Spec /\ Fairness

-----------------------------------------------------------------------------
(* Properties                                                              *)

\* readLoop never blocks on a channel send, neither when it routes a reply nor
\* in failPending, where it would hold pendingM against every caller: an id is
\* taken out of the map before its capacity-1 channel is filled.
ReaderNeverBlocks ==
    /\ readPc = "deliver" => chan[readId] = "empty"
    /\ readPc = "failLock" => \A i \in pending : chan[i] = "empty"

\* d.pending holds no entry whose call has returned, whichever of reply, write
\* error, timeout and connection loss ended it, in any order.
NoLeakedEntries ==
    \A i \in pending : \E c \in Callers : cid[c] = i /\ pc[c] \in InMap

\* Once readLoop has ended, nobody will fill a channel any more: a caller that
\* is still waiting for its reply already has an answer in the channel.  (A
\* call that passed the closed check just before failPending ran must not get
\* its frame written.)
NoOrphanWaiter ==
    \A c \in Callers :
        readPc = "done" /\ pc[c] = "waiting" => chan[cid[c]] # "empty"

\* How this state looks to somebody who only knows the promise of call().
CallState(i) ==
    CASE outcome[i] = "reply" -> "answered"
      [] outcome[i] \in {"rpcError", "writeError"} -> "failed"
      [] outcome[i] = "ctxError" -> "expired"
      [] OTHER -> IF i <= idSeq THEN "open" ELSE "unused"

Promise == INSTANCE RpcClient WITH
    call <- [i \in Ids |-> CallState(i)], served <- served, down <- LinkDown

\* The client implements the promise of call(): each call ends once, with its
\* own reply, or because the link is down, or because its context expired.
ImplementsPromise == Promise!Spec

\* Every call returns: when the socket has room for the frames of all calls, a
\* hung or crashing engine cannot keep a caller inside call()
\* (typhon.go:349 "blocks until the response arrives or ctx expires").
CallReturns == \A c \in Callers : pc[c] # "idle" ~> pc[c] = "idle"

\* Stop returns whatever the engine does ("a hung engine cannot pin the harness
\* forever"), and it ends the readLoop goroutine.
StopEndsEverything == stopPc # "no" ~> stopPc = "done" /\ readPc = "done"
=============================================================================
