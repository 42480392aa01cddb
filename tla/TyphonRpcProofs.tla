-------------------------- MODULE TyphonRpcProofs --------------------------
(***************************************************************************)
(* Proofs about TyphonRpc, for every set of callers, every number of calls,*)
(* every socket capacity and every moment of Stop.                         *)
(***************************************************************************)
EXTENDS TyphonRpc, TLAPS

-----------------------------------------------------------------------------
(* Type correctness                                                        *)

\* Appending a message to a queue of such messages.
LEMMA AppendType ==
  ASSUME NEW S, NEW s \in Seq(S), NEW e \in S
  PROVE  Append(s, e) \in Seq(S) /\ Len(Append(s, e)) = Len(s) + 1
  OBVIOUS

\* Reading a message from a non-empty queue.
LEMMA TakeType ==
  ASSUME NEW S, NEW s \in Seq(S), s # <<>>
  PROVE  Head(s) \in S /\ Tail(s) \in Seq(S) /\ Len(Tail(s)) = Len(s) - 1
         /\ Len(s) \in Nat
  OBVIOUS

\* What call() leaves behind when it returns.
LEMMA ReturnType ==
  ASSUME TypeOK, NEW c \in Callers, NEW from, from # "idle",
         NEW result \in {"none", "reply", "rpcError", "writeError", "ctxError"},
         Return(c, from, result)
  PROVE  /\ pc' \in [Callers -> CallPc]
         /\ cid' \in [Callers -> 0 .. MaxCalls]
         /\ \A d \in Callers : pc'[d] # "idle" => cid'[d] \in Ids
         /\ ctxDone' \in [Callers -> BOOLEAN]
         /\ outcome' \in [Ids -> {"none", "reply", "rpcError", "writeError", "ctxError"}]
  <1>1. outcome' = [outcome EXCEPT ![cid[c]] = result] /\ cid[c] \in Ids
    BY DEF Return, Goto, TypeOK
  <1>2. outcome' \in [Ids -> {"none", "reply", "rpcError", "writeError", "ctxError"}]
    BY <1>1 DEF TypeOK
  <1>3. pc' \in [Callers -> CallPc] /\ cid' \in [Callers -> 0 .. MaxCalls]
        /\ ctxDone' \in [Callers -> BOOLEAN]
    BY ConstantsAssumption DEF Return, Goto, TypeOK, CallPc
  <1>4. \A d \in Callers : pc'[d] # "idle" => cid'[d] \in Ids
    BY DEF Return, Goto, TypeOK
  <1> QED
    BY <1>2, <1>3, <1>4

\* A call that gives up leaves everything else as it is.
LEMMA AbandonType ==
  ASSUME TypeOK, NEW c \in Callers, NEW from, from # "idle",
         NEW result \in {"writeError", "ctxError"}, Abandon(c, from, result)
  PROVE  TypeOK'
  <1>1. Return(c, from, result)
    BY DEF Abandon
  <1>2. /\ pc' \in [Callers -> CallPc]
        /\ cid' \in [Callers -> 0 .. MaxCalls]
        /\ \A d \in Callers : pc'[d] # "idle" => cid'[d] \in Ids
        /\ ctxDone' \in [Callers -> BOOLEAN]
        /\ outcome' \in [Ids -> {"none", "reply", "rpcError", "writeError", "ctxError"}]
    BY <1>1, ReturnType
  <1>3. /\ pending' \subseteq Ids
        /\ UNCHANGED <<closed, idSeq, refused, chan, readPc, readId, readErr, stopPc,
                       connOpen, engine, working, served, events, toEngine, toClient>>
    BY DEF Abandon, TypeOK, readVars, engineVars
  <1> QED
    BY <1>2, <1>3 DEF TypeOK

\* Every step keeps every variable in its type.
LEMMA TypeStep == TypeOK /\ [Next]_vars => TypeOK'
<1> SUFFICES ASSUME TypeOK, [Next]_vars PROVE TypeOK'
  OBVIOUS
<1> USE ConstantsAssumption DEF TypeOK, Ids, NoId, CallPc
<1>1. ASSUME NEW c \in Callers, CallerStep(c) PROVE TypeOK'
  <2>1. CASE CallBegin(c)
    BY <2>1 DEF CallBegin, Goto, muxVars, readVars, engineVars
  <2>2. CASE CallRefused(c)
    BY <2>2 DEF CallRefused, muxVars, readVars, engineVars
  <2>3. CASE CallRegister(c)
    <3>1. /\ pc' = [pc EXCEPT ![c] = "registered"] /\ pc[c] = "begun" /\ cid' = cid
          /\ pending' = pending \cup {cid[c]}
      BY <2>3 DEF CallRegister, Goto
    <3>2. pending' \subseteq Ids /\ pc' \in [Callers -> CallPc]
          /\ \A d \in Callers : pc'[d] # "idle" => cid'[d] \in Ids
      BY <3>1
    <3> QED
      BY <2>3, <3>2 DEF CallRegister, muxVars, readVars, engineVars
  <2>4. CASE CallLockWrite(c)
    BY <2>4 DEF CallLockWrite, Goto, muxVars, readVars, engineVars
  <2>5. CASE CallWrite(c)
    <3>1. toEngine' \in Seq(Ids) /\ Len(toEngine') <= SockCap
      <4>1. toEngine' = Append(toEngine, cid[c]) /\ cid[c] \in Ids
            /\ toEngine \in Seq(Ids) /\ Len(toEngine) < SockCap
        BY <2>5 DEF CallWrite, Goto
      <4>2. Append(toEngine, cid[c]) \in Seq(Ids)
            /\ Len(Append(toEngine, cid[c])) = Len(toEngine) + 1 /\ Len(toEngine) \in Nat
        BY <4>1, AppendType
      <4> QED
        BY <4>1, <4>2
    <3> QED
      BY <2>5, <3>1 DEF CallWrite, Goto, muxVars, readVars, engineVars
  <2>6. CASE CallWriteFails(c)
    BY <2>6 DEF CallWriteFails, Goto, muxVars, readVars, engineVars
  <2>7. CASE CallWriteReturns(c)
    BY <2>7, AbandonType DEF CallWriteReturns
  <2>8. CASE CallReceive(c)
    <3>1. chan' \in [Ids -> {"empty", "frame", "rpcError", "brokenJson"}]
      BY <2>8 DEF CallReceive
    <3> QED
      BY <2>8, <3>1, ReturnType DEF CallReceive, readVars, engineVars
  <2>9. CASE CallExpire(c)
    BY <2>9 DEF CallExpire, Goto, muxVars, readVars, engineVars
  <2>10. CASE CallExpireReturns(c)
    BY <2>10, AbandonType DEF CallExpireReturns
  <2>11. CASE CtxDone(c)
    BY <2>11 DEF CtxDone, muxVars, readVars, engineVars
  <2> QED
    BY <1>1, <2>1, <2>2, <2>3, <2>4, <2>5, <2>6, <2>7, <2>8, <2>9, <2>10, <2>11
       DEF CallerStep
<1>2. ASSUME ReaderStep PROVE TypeOK'
  <2>1. CASE ReadFrame
    BY <2>1 DEF ReadFrame, callerVars, muxVars, readVars, engineVars
  <2>2. CASE ReadLookup
    BY <2>2 DEF ReadLookup, callerVars, muxVars, readVars, engineVars
  <2>3. CASE ReadDeliver
    BY <2>3 DEF ReadDeliver, callerVars, muxVars, readVars, engineVars
  <2>4. CASE ReadError
    BY <2>4 DEF ReadError, callerVars, muxVars, readVars, engineVars
  <2>5. CASE FailLock
    BY <2>5 DEF FailLock, callerVars, muxVars, readVars, engineVars
  <2>6. ASSUME NEW i \in Ids, FailOne(i) PROVE TypeOK'
    BY <2>6 DEF FailOne, ErrorFrame, callerVars, muxVars, readVars, engineVars
  <2>7. CASE FailUnlock
    BY <2>7 DEF FailUnlock, callerVars, muxVars, readVars, engineVars
  <2> QED
    BY <1>2, <2>1, <2>2, <2>3, <2>4, <2>5, <2>6, <2>7 DEF ReaderStep
<1>3. ASSUME StopStep PROVE TypeOK'
  <2>1. CASE StopMark
    BY <2>1 DEF StopMark, callerVars, muxVars, readVars, engineVars
  <2>2. CASE StopClose
    BY <2>2 DEF StopClose, callerVars, muxVars, readVars, engineVars
  <2>3. CASE StopKill
    BY <2>3 DEF StopKill, Exit, callerVars, muxVars, readVars, engineVars
  <2>4. CASE StopReap
    BY <2>4 DEF StopReap, callerVars, muxVars, readVars, engineVars
  <2> QED
    BY <1>3, <2>1, <2>2, <2>3, <2>4 DEF StopStep
<1>4. CASE EngineStep
  <2>1. CASE EngineTake
    <3>1. toEngine' \in Seq(Ids) /\ Len(toEngine') <= SockCap /\ working' \subseteq Ids
      <4>1. Head(toEngine) \in Ids /\ Tail(toEngine) \in Seq(Ids)
            /\ Len(Tail(toEngine)) = Len(toEngine) - 1 /\ Len(toEngine) \in Nat
        BY <2>1, TakeType DEF EngineTake
      <4>2. Len(Tail(toEngine)) <= SockCap
        BY <4>1
      <4>3. toEngine' = Tail(toEngine) /\ working' = working \cup {Head(toEngine)}
        BY <2>1 DEF EngineTake
      <4> QED
        BY <4>1, <4>2, <4>3
    <3> QED
      BY <2>1, <3>1 DEF EngineTake, callerVars, muxVars, readVars
  <2>2. ASSUME NEW i \in Ids, EngineReply(i) PROVE TypeOK'
    <3>1. toClient' \in Seq(Ids \cup {NoId})
      BY <2>2, AppendType DEF EngineReply, SendToClient
    <3> QED
      BY <2>2, <3>1 DEF EngineReply, callerVars, muxVars, readVars, engineVars
  <2>3. CASE EnginePush
    <3>1. toClient' \in Seq(Ids \cup {NoId})
      BY <2>3, AppendType DEF EnginePush, SendToClient
    <3> QED
      BY <2>3, <3>1 DEF EnginePush, callerVars, muxVars, readVars, engineVars
  <2>4. CASE EngineExit
    BY <2>4 DEF EngineExit, Exit, callerVars, muxVars, readVars, engineVars
  <2> QED
    BY <1>4, <2>1, <2>2, <2>3, <2>4 DEF EngineStep
<1>5. ASSUME AllReturned \/ UNCHANGED vars PROVE TypeOK'
  <2>1. UNCHANGED vars
    BY <1>5 DEF AllReturned
  <2> QED
    BY <2>1 DEF vars, callerVars, muxVars, readVars, engineVars
<1> QED
  BY <1>1, <1>2, <1>3, <1>4, <1>5 DEF Next

\* The initial state is well typed.
LEMMA InitType == Init => TypeOK
<1> SUFFICES ASSUME Init PROVE TypeOK
  OBVIOUS
<1>1. toEngine \in Seq(Ids) /\ Len(toEngine) <= SockCap
      /\ toClient \in Seq(Ids \cup {NoId})
  BY ConstantsAssumption DEF Init
<1>2. chan \in [Ids -> {"empty", "frame", "rpcError", "brokenJson"}]
      /\ outcome \in [Ids -> {"none", "reply", "rpcError", "writeError", "ctxError"}]
  BY DEF Init
<1>3. pc \in [Callers -> CallPc] /\ cid \in [Callers -> 0 .. MaxCalls]
      /\ \A c \in Callers : pc[c] = "idle"
  BY ConstantsAssumption DEF Init, CallPc
<1>4. idSeq \in 0 .. MaxCalls /\ readId \in 0 .. MaxCalls /\ events \in 0 .. MaxEvents
  BY ConstantsAssumption DEF Init
<1> QED
  BY <1>1, <1>2, <1>3, <1>4 DEF Init, TypeOK

\* Every reachable state of the client is well typed.
THEOREM TypeCorrect == Spec => []TypeOK
BY InitType, TypeStep, PTL DEF Spec

-----------------------------------------------------------------------------
(* The inductive invariant                                                 *)

\* Calls in progress have ids of their own, handed out by idSeq.
OwnIds ==
    \A c \in Callers :
        /\ cid[c] <= idSeq
        /\ \A d \in Callers : pc[c] # "idle" /\ cid[d] = cid[c] => d = c

\* An id in the map has been handed out, and nobody has answered it.
MapEmpty == \A i \in pending : i <= idSeq /\ chan[i] = "empty"

\* An id in readLoop's hands is out of the map, and its channel is empty.
InHand(i) == readPc = "deliver" /\ readId = i
RouteOut ==
    readPc = "deliver" => readId \notin pending /\ chan[readId] = "empty" /\ readId <= idSeq

\* An id that is not registered yet is nowhere.
Unregistered ==
    /\ \A i \in Ids : i > idSeq => chan[i] = "empty"
    /\ \A c \in Callers : pc[c] = "begun" =>
          cid[c] \notin pending /\ chan[cid[c]] = "empty" /\ ~InHand(cid[c])

\* A registered call can still be answered: it is in the map, in readLoop's
\* hands, or its answer is in its channel.
Reachable ==
    \A c \in Callers : pc[c] \in {"registered", "locked", "waiting"} =>
        cid[c] \in pending \/ chan[cid[c]] # "empty" \/ InHand(cid[c])

\* readLoop only ends when no frame can be written any more.
EndedIsDown == readPc \in {"failing", "failLock", "done"} => closed /\ LinkDown

IInv ==
    /\ TypeOK /\ OwnIds /\ NoLeakedEntries /\ MapEmpty /\ RouteOut
    /\ Unregistered /\ Reachable /\ EndedIsDown /\ NoOrphanWaiter

\* What the return of call() changes in the state of the callers.
LEMMA ReturnEffect ==
  ASSUME TypeOK, NEW c \in Callers, NEW from, NEW result, Return(c, from, result)
  PROVE  /\ pc[c] = from /\ pc'[c] = "idle" /\ cid'[c] = 0
         /\ \A d \in Callers : d # c => pc'[d] = pc[d] /\ cid'[d] = cid[d]
  BY DEF Return, Goto, TypeOK

\* A call that gives up, after a failed write or an expired context, keeps the
\* invariant: it takes its own entry out of the map and nobody else's.
LEMMA AbandonInv ==
  ASSUME IInv, TypeOK', NEW c \in Callers, NEW from \in {"writeErr", "expired"},
         NEW result, Abandon(c, from, result)
  PROVE  IInv'
<1> USE DEF IInv, InHand, InMap, LinkDown, Abandon
<1>1. /\ pc[c] = from /\ pc'[c] = "idle" /\ cid'[c] = 0
      /\ \A d \in Callers : d # c => pc'[d] = pc[d] /\ cid'[d] = cid[d]
  BY ReturnEffect
<1>2. /\ pending' = pending \ {cid[c]} /\ cid[c] \in Ids
      /\ UNCHANGED <<chan, readPc, readId, idSeq, closed, connOpen, engine>>
  BY <1>1 DEF TypeOK, readVars, engineVars
<1>3. \A d \in Callers : d # c => cid[d] # cid[c]
  BY <1>1 DEF OwnIds
<1>4. OwnIds'
  <2>1. 0 <= idSeq /\ \A d \in Callers : pc[d] # "idle" => cid[d] # 0
    BY ConstantsAssumption DEF TypeOK, Ids
  <2> QED
    BY <1>1, <1>2, <2>1 DEF OwnIds
<1>5. NoLeakedEntries'
  BY <1>1, <1>2 DEF NoLeakedEntries
<1>6. MapEmpty' /\ RouteOut' /\ EndedIsDown'
  BY <1>2 DEF MapEmpty, RouteOut, EndedIsDown
<1>7. Unregistered' /\ Reachable' /\ NoOrphanWaiter'
  BY <1>1, <1>2, <1>3 DEF Unregistered, Reachable, NoOrphanWaiter
<1> QED
  BY <1>4, <1>5, <1>6, <1>7

\* A call that receives its answer keeps the invariant: emptying its channel
\* matters to nobody, since its id is out of the map for good.
LEMMA ReceiveInv ==
  ASSUME IInv, TypeOK', NEW c \in Callers, CallReceive(c)
  PROVE  IInv'
<1> USE DEF IInv, InHand, InMap, LinkDown
<1>1. /\ pc[c] = "waiting" /\ pc'[c] = "idle" /\ cid'[c] = 0
      /\ \A d \in Callers : d # c => pc'[d] = pc[d] /\ cid'[d] = cid[d]
  BY ReturnEffect DEF CallReceive
<1>2. /\ cid[c] \in Ids /\ chan[cid[c]] # "empty" /\ cid[c] \notin pending
      /\ chan' = [chan EXCEPT ![cid[c]] = "empty"]
      /\ UNCHANGED <<pending, readPc, readId, idSeq, closed, connOpen, engine>>
  BY <1>1 DEF CallReceive, MapEmpty, TypeOK, readVars, engineVars
<1>3. \A d \in Callers : d # c => cid[d] # cid[c]
  BY <1>1 DEF OwnIds
<1>4. \A i \in Ids : chan'[i] = IF i = cid[c] THEN "empty" ELSE chan[i]
  BY <1>2 DEF TypeOK
<1>5. OwnIds'
  <2>1. 0 <= idSeq /\ \A d \in Callers : pc[d] # "idle" => cid[d] # 0
    BY ConstantsAssumption DEF TypeOK, Ids
  <2> QED
    BY <1>1, <1>2, <2>1 DEF OwnIds
<1>6. NoLeakedEntries'
  BY <1>1, <1>2 DEF NoLeakedEntries
<1>7. MapEmpty' /\ RouteOut' /\ EndedIsDown'
  BY <1>2, <1>4 DEF MapEmpty, RouteOut, EndedIsDown, TypeOK
<1>8. ASSUME NEW d \in Callers, d # c, pc[d] # "idle"
      PROVE  cid[d] \in Ids /\ chan'[cid[d]] = chan[cid[d]] /\ InHand(cid[d])' = InHand(cid[d])
  BY <1>1, <1>2, <1>3, <1>4, <1>8 DEF TypeOK
<1>9. Unregistered'
  BY <1>1, <1>2, <1>4, <1>8 DEF Unregistered
<1>10. Reachable'
  BY <1>1, <1>2, <1>8 DEF Reachable
<1>11. NoOrphanWaiter'
  BY <1>1, <1>2, <1>8 DEF NoOrphanWaiter
<1> QED
  BY <1>5, <1>6, <1>7, <1>9, <1>10, <1>11

\* A new call gets an id that nothing in the client knows yet.
LEMMA BeginInv ==
  ASSUME IInv, TypeOK', NEW c \in Callers, CallBegin(c)
  PROVE  IInv'
<1> USE DEF IInv, InHand, InMap, LinkDown
<1>1. /\ pc[c] = "idle" /\ pc'[c] = "begun" /\ cid'[c] = idSeq + 1
      /\ \A d \in Callers : d # c => pc'[d] = pc[d] /\ cid'[d] = cid[d]
      /\ idSeq' = idSeq + 1
  BY DEF CallBegin, Goto, TypeOK
<1>2. UNCHANGED <<pending, chan, readPc, readId, closed, connOpen, engine>>
  BY DEF CallBegin, muxVars, readVars, engineVars
<1>3. idSeq \in Nat /\ idSeq + 1 \in Ids /\ \A d \in Callers : cid[d] \in Nat /\ cid[d] <= idSeq
  BY ConstantsAssumption DEF CallBegin, TypeOK, OwnIds, Ids
<1>4. \A i \in pending : i \in Nat /\ i <= idSeq
  BY DEF MapEmpty, TypeOK, Ids
<1>5. OwnIds'
  BY <1>1, <1>3 DEF OwnIds
<1>6. NoLeakedEntries'
  BY <1>1, <1>2 DEF NoLeakedEntries
<1>7. MapEmpty' /\ RouteOut' /\ EndedIsDown'
  BY <1>1, <1>2, <1>3, <1>4 DEF MapEmpty, RouteOut, EndedIsDown, TypeOK, Ids
<1>8. Unregistered'
  <2>1. \A i \in Ids : i > idSeq => chan[i] = "empty" /\ i \notin pending /\ ~InHand(i)
    BY <1>3, <1>4 DEF Unregistered, RouteOut, TypeOK, Ids
  <2>2. \A i \in Ids : i > idSeq + 1 => i > idSeq
    BY <1>3 DEF Ids
  <2> QED
    BY <1>1, <1>2, <1>3, <2>1, <2>2 DEF Unregistered
<1>9. Reachable' /\ NoOrphanWaiter'
  BY <1>1, <1>2 DEF Reachable, NoOrphanWaiter
<1> QED
  BY <1>5, <1>6, <1>7, <1>8, <1>9

\* The invariant is inductive: no step of a caller, of readLoop, of Stop or of
\* the engine breaks it.
LEMMA InvStep == IInv /\ [Next]_vars => IInv'
<1> SUFFICES ASSUME IInv, [Next]_vars PROVE IInv'
  OBVIOUS
<1> USE ConstantsAssumption DEF IInv, InHand, InMap, LinkDown
<1>0. TypeOK /\ TypeOK'
  BY TypeStep
<1>1. ASSUME NEW c \in Callers, CallerStep(c) PROVE IInv'
  <2>1. CASE CallBegin(c)
    BY <1>0, <2>1, BeginInv
  <2>2. CASE CallRefused(c)
    BY <1>0, <2>2 DEF CallRefused, muxVars, readVars, engineVars, TypeOK, OwnIds, NoLeakedEntries, MapEmpty, RouteOut, Unregistered, Reachable, EndedIsDown, NoOrphanWaiter
  <2>3. CASE CallRegister(c)
    BY <1>0, <2>3 DEF CallRegister, Goto, PendingFree, muxVars, readVars, engineVars, TypeOK, OwnIds, NoLeakedEntries, MapEmpty, RouteOut, Unregistered, Reachable, EndedIsDown, NoOrphanWaiter
  <2>4. CASE CallLockWrite(c)
    BY <1>0, <2>4 DEF CallLockWrite, Goto, muxVars, readVars, engineVars, TypeOK, OwnIds, NoLeakedEntries, MapEmpty, RouteOut, Unregistered, Reachable, EndedIsDown, NoOrphanWaiter
  <2>5. CASE CallWrite(c)
    BY <1>0, <2>5 DEF CallWrite, Goto, muxVars, readVars, engineVars, TypeOK, OwnIds, NoLeakedEntries, MapEmpty, RouteOut, Unregistered, Reachable, EndedIsDown, NoOrphanWaiter
  <2>6. CASE CallWriteFails(c)
    BY <1>0, <2>6 DEF CallWriteFails, Goto, muxVars, readVars, engineVars, TypeOK, OwnIds, NoLeakedEntries, MapEmpty, RouteOut, Unregistered, Reachable, EndedIsDown, NoOrphanWaiter
  <2>7. CASE CallWriteReturns(c)
    BY <1>0, <2>7, AbandonInv DEF CallWriteReturns
  <2>8. CASE CallReceive(c)
    BY <1>0, <2>8, ReceiveInv
  <2>9. CASE CallExpire(c)
    BY <1>0, <2>9 DEF CallExpire, Goto, muxVars, readVars, engineVars, TypeOK, OwnIds, NoLeakedEntries, MapEmpty, RouteOut, Unregistered, Reachable, EndedIsDown, NoOrphanWaiter
  <2>10. CASE CallExpireReturns(c)
    BY <1>0, <2>10, AbandonInv DEF CallExpireReturns
  <2>11. CASE CtxDone(c)
    BY <1>0, <2>11 DEF CtxDone, muxVars, readVars, engineVars, TypeOK, OwnIds, NoLeakedEntries, MapEmpty, RouteOut, Unregistered, Reachable, EndedIsDown, NoOrphanWaiter
  <2> QED
    BY <1>1, <2>1, <2>2, <2>3, <2>4, <2>5, <2>6, <2>7, <2>8, <2>9, <2>10, <2>11
       DEF CallerStep
<1>2. ASSUME ReaderStep PROVE IInv'
  <2>1. CASE ReadFrame
    BY <1>0, <2>1 DEF ReadFrame, callerVars, muxVars, readVars, engineVars, TypeOK, OwnIds, NoLeakedEntries, MapEmpty, RouteOut, Unregistered, Reachable, EndedIsDown, NoOrphanWaiter
  <2>2. CASE ReadLookup
    BY <1>0, <2>2 DEF ReadLookup, callerVars, muxVars, readVars, engineVars, TypeOK, OwnIds, NoLeakedEntries, MapEmpty, RouteOut, Unregistered, Reachable, EndedIsDown, NoOrphanWaiter
  <2>3. CASE ReadDeliver
    BY <1>0, <2>3 DEF ReadDeliver, callerVars, muxVars, readVars, engineVars, TypeOK, OwnIds, NoLeakedEntries, MapEmpty, RouteOut, Unregistered, Reachable, EndedIsDown, NoOrphanWaiter
  <2>4. CASE ReadError
    BY <1>0, <2>4 DEF ReadError, callerVars, muxVars, readVars, engineVars, TypeOK, OwnIds, NoLeakedEntries, MapEmpty, RouteOut, Unregistered, Reachable, EndedIsDown, NoOrphanWaiter
  <2>5. CASE FailLock
    BY <1>0, <2>5 DEF FailLock, callerVars, muxVars, readVars, engineVars, TypeOK, OwnIds, NoLeakedEntries, MapEmpty, RouteOut, Unregistered, Reachable, EndedIsDown, NoOrphanWaiter
  <2>6. ASSUME NEW i \in Ids, FailOne(i) PROVE IInv'
    BY <1>0, <2>6 DEF FailOne, ErrorFrame, callerVars, muxVars, readVars, engineVars, TypeOK, OwnIds, NoLeakedEntries, MapEmpty, RouteOut, Unregistered, Reachable, EndedIsDown, NoOrphanWaiter
  <2>7. CASE FailUnlock
    BY <1>0, <2>7 DEF FailUnlock, callerVars, muxVars, readVars, engineVars, TypeOK, OwnIds, NoLeakedEntries, MapEmpty, RouteOut, Unregistered, Reachable, EndedIsDown, NoOrphanWaiter
  <2> QED
    BY <1>2, <2>1, <2>2, <2>3, <2>4, <2>5, <2>6, <2>7 DEF ReaderStep
<1>3. CASE StopStep
  BY <1>0, <1>3 DEF StopStep, StopMark, StopClose, StopKill, StopReap, Exit,
       callerVars, muxVars, readVars, engineVars, OwnIds, NoLeakedEntries, MapEmpty, RouteOut, Unregistered, Reachable, EndedIsDown, NoOrphanWaiter
<1>4. CASE EngineStep
  BY <1>0, <1>4 DEF EngineStep, EngineTake, EngineReply, EnginePush, EngineExit, Exit,
       callerVars, muxVars, readVars, engineVars, OwnIds, NoLeakedEntries, MapEmpty, RouteOut, Unregistered, Reachable, EndedIsDown, NoOrphanWaiter
<1>5. CASE AllReturned \/ UNCHANGED vars
  BY <1>0, <1>5 DEF AllReturned, vars, callerVars, muxVars, readVars, engineVars, OwnIds, NoLeakedEntries, MapEmpty, RouteOut, Unregistered, Reachable, EndedIsDown, NoOrphanWaiter
<1> QED
  BY <1>1, <1>2, <1>3, <1>4, <1>5 DEF Next

\* In every reachable state the inductive invariant holds.
LEMMA Invariant == Spec => []IInv
<1>1. Init => IInv
  <2> SUFFICES ASSUME Init PROVE IInv
    OBVIOUS
  <2>1. TypeOK
    BY InitType
  <2> QED
    BY <2>1, ConstantsAssumption
       DEF Init, IInv, OwnIds, NoLeakedEntries, MapEmpty, RouteOut, Unregistered,
           Reachable, EndedIsDown, NoOrphanWaiter, InHand, Ids
<1> QED
  BY <1>1, InvStep, PTL DEF Spec

\* readLoop and failPending never block on the channel of a call, whatever the
\* number of callers and calls (typhon.go readLoop, failPending).
THEOREM ReaderNeverBlocksAlways == Spec => []ReaderNeverBlocks
<1>1. IInv => ReaderNeverBlocks
  BY DEF IInv, ReaderNeverBlocks, RouteOut, MapEmpty
<1> QED
  BY <1>1, Invariant, PTL

\* d.pending never keeps the entry of a call that has returned (typhon.go call).
THEOREM NoLeakedEntriesAlways == Spec => []NoLeakedEntries
<1>1. IInv => NoLeakedEntries
  BY DEF IInv
<1> QED
  BY <1>1, Invariant, PTL

\* After readLoop has ended no caller is left waiting for an answer that cannot
\* come (typhon.go readLoop, failPending, call).
THEOREM NoOrphanWaiterAlways == Spec => []NoOrphanWaiter
<1>1. IInv => NoOrphanWaiter
  BY DEF IInv
<1> QED
  BY <1>1, Invariant, PTL

-----------------------------------------------------------------------------
(* A call is answered once                                                 *)

\* A call is answered once: whatever readLoop and failPending find, hold or send
\* after a call has taken its answer, nothing goes into its channel again.
Answers == {"reply", "rpcError"}
AnsweredOnce ==
    [][\A i \in Ids :
          chan'[i] \notin {chan[i], "empty"} => outcome[i] \notin Answers]_vars

\* A call in progress has no outcome, and the reply that readLoop has in its hands
\* is not for one that has been answered.
Unanswered ==
    /\ \A i \in Ids : i > idSeq => outcome[i] = "none"
    /\ \A c \in Callers : pc[c] # "idle" => outcome[cid[c]] = "none"
    /\ readPc = "deliver" => outcome[readId] \notin Answers

\* A call that returns gives its own id an outcome; an answer only if readLoop does
\* not hold a frame for that id.
LEMMA ReturnUnanswered ==
  ASSUME IInv, Unanswered, NEW c \in Callers, NEW from, from # "idle", NEW result,
         Return(c, from, result), UNCHANGED <<idSeq, readPc, readId>>,
         result \in Answers => chan[cid[c]] # "empty"
  PROVE  Unanswered'
<1>1. /\ pc[c] = from /\ pc'[c] = "idle"
      /\ \A d \in Callers : d # c => pc'[d] = pc[d] /\ cid'[d] = cid[d]
  BY ReturnEffect DEF IInv
<1>2. cid[c] \in Ids /\ cid[c] <= idSeq /\ idSeq \in Nat /\ cid[c] \in Nat
  BY <1>1, ConstantsAssumption DEF IInv, TypeOK, OwnIds, Ids
<1>3. \A i \in Ids : outcome'[i] = IF i = cid[c] THEN result ELSE outcome[i]
  BY DEF Return, IInv, TypeOK
<1>4. \A d \in Callers : d # c /\ pc[d] # "idle" => cid[d] # cid[c] /\ cid[d] \in Ids
  BY <1>1 DEF IInv, OwnIds, TypeOK
<1>5. readPc = "deliver" => readId \in Ids /\ chan[readId] = "empty"
  BY DEF IInv, TypeOK, RouteOut
<1>6. \A i \in Ids : i > idSeq => outcome'[i] = "none"
  BY <1>2, <1>3 DEF Unanswered, Ids
<1>7. \A d \in Callers : pc'[d] # "idle" => outcome'[cid'[d]] = "none"
  BY <1>1, <1>3, <1>4 DEF Unanswered
<1>8. readPc' = "deliver" => outcome'[readId'] \notin Answers
  BY <1>3, <1>5 DEF Unanswered
<1> QED
  BY <1>6, <1>7, <1>8 DEF Unanswered

\* The owner of an entry in the map is inside call().
LEMMA EntryIsOpen ==
  ASSUME IInv, Unanswered, NEW i \in pending
  PROVE  i \in Ids /\ outcome[i] = "none"
<1>1. PICK c \in Callers : cid[c] = i /\ pc[c] \in InMap
  BY DEF IInv, NoLeakedEntries
<1> QED
  BY <1>1 DEF IInv, TypeOK, InMap, Unanswered

LEMMA UnansweredStep == IInv /\ Unanswered /\ [Next]_vars => Unanswered'
<1> SUFFICES ASSUME IInv, Unanswered, [Next]_vars PROVE Unanswered'
  OBVIOUS
<1> USE DEF readVars
<1>1. ASSUME NEW c \in Callers, CallerStep(c) PROVE Unanswered'
  <2>1. CASE CallBegin(c)
    <3>1. /\ pc'[c] # "idle" /\ cid'[c] = idSeq + 1 /\ idSeq' = idSeq + 1
          /\ \A d \in Callers : d # c => pc'[d] = pc[d] /\ cid'[d] = cid[d]
          /\ UNCHANGED <<outcome, readPc, readId>>
      BY <2>1 DEF CallBegin, Goto, IInv, TypeOK, muxVars
    <3>2. idSeq \in Nat /\ idSeq + 1 \in Ids
      BY <2>1, ConstantsAssumption DEF CallBegin, IInv, TypeOK, Ids
    <3>3. outcome[idSeq + 1] = "none"
      BY <3>2 DEF Unanswered
    <3>4. \A i \in Ids : i > idSeq' => i > idSeq
      BY <3>1, <3>2 DEF Ids
    <3> QED
      BY <3>1, <3>3, <3>4 DEF Unanswered
  <2>2. CASE CallReceive(c)
    <3> DEFINE result == IF chan[cid[c]] = "rpcError" THEN "rpcError" ELSE "reply"
    <3>1. /\ Return(c, "waiting", result) /\ chan[cid[c]] # "empty"
          /\ UNCHANGED <<idSeq, readPc, readId>>
      BY <2>2 DEF CallReceive
    <3> HIDE DEF result
    <3> QED
      BY <3>1, ReturnUnanswered
  <2>3. CASE CallWriteReturns(c)
    <3>1. Return(c, "writeErr", "writeError") /\ UNCHANGED <<idSeq, readPc, readId>>
      BY <2>3 DEF CallWriteReturns, Abandon
    <3> QED
      BY <3>1, ReturnUnanswered DEF Answers
  <2>4. CASE CallExpireReturns(c)
    <3>1. Return(c, "expired", "ctxError") /\ UNCHANGED <<idSeq, readPc, readId>>
      BY <2>4 DEF CallExpireReturns, Abandon
    <3> QED
      BY <3>1, ReturnUnanswered DEF Answers
  <2>5. CASE \/ CallRefused(c) \/ CallRegister(c) \/ CallLockWrite(c) \/ CallWrite(c)
             \/ CallWriteFails(c) \/ CallExpire(c) \/ CtxDone(c)
    <3>1. /\ \A d \in Callers : pc'[d] # "idle" => pc[d] # "idle"
          /\ UNCHANGED <<idSeq, cid, outcome, readPc, readId>>
      BY <2>5 DEF CallRefused, CallRegister, CallLockWrite, CallWrite, CallWriteFails,
         CallExpire, CtxDone, Goto, muxVars, IInv, TypeOK
    <3> QED
      BY <3>1 DEF Unanswered
  <2> QED
    BY <1>1, <2>1, <2>2, <2>3, <2>4, <2>5 DEF CallerStep
<1>2. CASE ReadLookup
  <2>1. UNCHANGED <<idSeq, pc, cid, outcome>>
    BY <1>2 DEF ReadLookup, callerVars
  <2>2. readPc' = "deliver" => readId' \in pending
    BY <1>2 DEF ReadLookup
  <2>3. readPc' = "deliver" => outcome[readId'] = "none"
    BY <2>2, EntryIsOpen
  <2> QED
    BY <2>1, <2>3 DEF Unanswered, Answers
<1>3. CASE \/ ReadFrame \/ ReadDeliver \/ ReadError \/ FailLock
           \/ (\E i \in Ids : FailOne(i)) \/ FailUnlock
           \/ StopStep \/ EngineStep \/ AllReturned \/ UNCHANGED vars
  <2>1. /\ UNCHANGED <<idSeq, pc, cid, outcome>>
        /\ readPc' = "deliver" => readPc = "deliver" /\ readId' = readId
    BY <1>3 DEF ReadFrame, ReadDeliver, ReadError, FailLock, FailOne, FailUnlock, StopStep,
       StopMark, StopClose, StopKill, StopReap, EngineStep, EngineTake, EngineReply,
       EnginePush, EngineExit, AllReturned, vars, callerVars, muxVars
  <2> QED
    BY <2>1 DEF Unanswered
<1> QED
  BY <1>1, <1>2, <1>3 DEF Next, ReaderStep

\* No second answer ever goes into the channel of a call, whatever the engine, Stop and
\* the contexts do: an entry leaves the map before its channel is filled
\* (typhon.go readLoop, failPending).
THEOREM AnsweredOnceAlways == Spec => AnsweredOnce
<1> DEFINE Step ==
      \A i \in Ids : chan'[i] \notin {chan[i], "empty"} => outcome[i] \notin Answers
<1>1. Init => Unanswered
  BY DEF Init, Unanswered
<1>2. IInv /\ Unanswered /\ [Next]_vars => [Step]_vars
  <2> SUFFICES ASSUME IInv, Unanswered, Next, NEW i \in Ids,
                      chan'[i] \notin {chan[i], "empty"}
               PROVE  outcome[i] \notin Answers
    OBVIOUS
  <2>1. chan \in [Ids -> {"empty", "frame", "rpcError", "brokenJson"}]
    BY DEF IInv, TypeOK
  <2>2. CASE ReadDeliver
    <3>1. readPc = "deliver" /\ i = readId
      BY <2>1, <2>2 DEF ReadDeliver
    <3> QED
      BY <3>1 DEF Unanswered
  <2>3. ASSUME NEW j \in Ids, FailOne(j) PROVE outcome[i] \notin Answers
    <3>1. i = j /\ j \in pending
      BY <2>1, <2>3 DEF FailOne
    <3> QED
      BY <3>1, EntryIsOpen DEF Answers
  <2>4. ASSUME NEW c \in Callers, CallReceive(c) PROVE FALSE
    BY <2>1, <2>4 DEF CallReceive
  <2>5. CASE /\ ~ReadDeliver /\ ~\E j \in Ids : FailOne(j)
             /\ ~\E c \in Callers : CallReceive(c)
    <3>1. chan' = chan
      BY <2>5 DEF Next, CallerStep, CallBegin, CallRefused, CallRegister, CallLockWrite,
         CallWrite, CallWriteFails, CallWriteReturns, CallExpire, CallExpireReturns,
         Abandon, CtxDone, ReaderStep, ReadFrame, ReadLookup, ReadError, FailLock,
         FailUnlock, StopStep, StopMark, StopClose, StopKill, StopReap, EngineStep,
         EngineTake, EngineReply, EnginePush, EngineExit, AllReturned, vars, muxVars
    <3> QED
      BY <3>1
  <2> QED
    BY <2>2, <2>3, <2>4, <2>5
<1> QED
  BY <1>1, <1>2, UnansweredStep, Invariant, PTL DEF Spec, AnsweredOnce

-----------------------------------------------------------------------------
(* The client implements its promise                                       *)

\* A call that is in progress has no outcome yet, and a reply is the engine's.
Outcomes ==
    /\ \A i \in Ids : outcome[i] # "none" => i <= idSeq
    /\ \A i \in Ids : outcome[i] = "reply" => i \in served
    /\ \A c \in Callers : pc[c] # "idle" => outcome[cid[c]] = "none"

InSocket(i) == \E k \in 1 .. Len(toEngine) : toEngine[k] = i

\* A request is in one place only: not sent, in the socket, with the engine, or
\* served.
Requests ==
    /\ \A j, k \in 1 .. Len(toEngine) : toEngine[j] = toEngine[k] => j = k
    /\ \A i \in Ids : InSocket(i) => i <= idSeq /\ i \notin working /\ i \notin served
    /\ \A i \in working : i <= idSeq /\ i \notin served
    /\ \A i \in served : i <= idSeq
    /\ \A c \in Callers : pc[c] \in {"begun", "registered", "locked"} =>
          ~InSocket(cid[c]) /\ cid[c] \notin working /\ cid[c] \notin served

\* A frame for a call, wherever it is on its way, is the engine's reply to it,
\* and an error means that the link is down.
Replies ==
    /\ \A k \in 1 .. Len(toClient) : toClient[k] \in served \cup {NoId}
    /\ readPc \in {"lookup", "deliver"} => readId \in served
    /\ \A i \in Ids : chan[i] = "frame" => i \in served
    /\ \A i \in Ids : chan[i] = "rpcError" => LinkDown
    /\ \A c \in Callers : pc[c] = "writeErr" => LinkDown
    /\ \A i \in Ids : chan[i] # "brokenJson"

RInv == Outcomes /\ Requests /\ Replies

\* The elements of a queue after a message has been added at its end.
LEMMA AppendElements ==
  ASSUME NEW S, NEW s \in Seq(S), NEW e \in S
  PROVE  /\ Len(s) \in Nat /\ Len(Append(s, e)) = Len(s) + 1
         /\ \A k \in 1 .. Len(s) : Append(s, e)[k] = s[k]
         /\ Append(s, e)[Len(s) + 1] = e
  OBVIOUS

\* The elements of a queue after its first message has been taken.
LEMMA TakeElements ==
  ASSUME NEW S, NEW s \in Seq(S), s # <<>>
  PROVE  /\ Len(s) \in Nat \ {0} /\ Len(Tail(s)) = Len(s) - 1
         /\ Head(s) = s[1]
         /\ \A k \in 1 .. Len(s) - 1 : Tail(s)[k] = s[k + 1]
  OBVIOUS

\* A call that returns gets the outcome that was still open, and is in no phase
\* any more; calls of other callers keep theirs.
LEMMA ReturnOutcome ==
  ASSUME IInv, RInv, NEW c \in Callers, NEW from, from # "idle", NEW result,
         Return(c, from, result)
  PROVE  /\ cid[c] \in Ids /\ cid[c] <= idSeq /\ outcome[cid[c]] = "none"
         /\ outcome' = [outcome EXCEPT ![cid[c]] = result]
         /\ pc'[c] = "idle"
         /\ \A d \in Callers : d # c => pc'[d] = pc[d] /\ cid'[d] = cid[d]
         /\ \A d \in Callers : d # c => cid[d] # cid[c]
<1>1. TypeOK /\ OwnIds /\ Outcomes
  BY DEF IInv, RInv
<1>2. pc[c] = from
  BY DEF Return, Goto
<1>3. cid[c] \in Ids /\ cid[c] <= idSeq /\ outcome[cid[c]] = "none"
  BY <1>1, <1>2 DEF TypeOK, OwnIds, Outcomes
<1>4. \A d \in Callers : d # c => cid[d] # cid[c]
  BY <1>1, <1>2 DEF OwnIds
<1>5. /\ pc'[c] = "idle"
      /\ \A d \in Callers : d # c => pc'[d] = pc[d] /\ cid'[d] = cid[d]
  BY <1>1, ReturnEffect
<1> QED
  BY <1>3, <1>4, <1>5 DEF Return

\* Outcomes are right after the return of a call if the new one is.
LEMMA ReturnKeepsOutcomes ==
  ASSUME IInv, RInv, NEW c \in Callers, NEW from, from # "idle",
         NEW result, result # "none",
         Return(c, from, result), UNCHANGED <<idSeq, served>>,
         result = "reply" => cid[c] \in served
  PROVE  Outcomes'
<1>1. /\ cid[c] \in Ids /\ cid[c] <= idSeq /\ outcome[cid[c]] = "none"
      /\ outcome' = [outcome EXCEPT ![cid[c]] = result]
      /\ pc'[c] = "idle"
      /\ \A d \in Callers : d # c => pc'[d] = pc[d] /\ cid'[d] = cid[d]
      /\ \A d \in Callers : d # c => cid[d] # cid[c]
  BY ReturnOutcome
<1>2. /\ outcome'[cid[c]] = result
      /\ \A i \in Ids : i # cid[c] => outcome'[i] = outcome[i]
      /\ \A d \in Callers : pc[d] # "idle" => cid[d] \in Ids
  BY <1>1 DEF IInv, TypeOK
<1> QED
  BY <1>1, <1>2 DEF RInv, Outcomes

\* Requests stay where they are while no request moves and no caller becomes one
\* that has its frame still to send.
LEMMA QuietRequests ==
  ASSUME IInv, RInv, UNCHANGED <<idSeq, toEngine, working, served>>,
         \A c \in Callers :
            \/ pc'[c] = pc[c] /\ cid'[c] = cid[c]
            \/ pc'[c] \notin {"begun", "registered", "locked"}
            \/ pc[c] \in {"begun", "registered", "locked"} /\ cid'[c] = cid[c]
  PROVE  Requests'
BY DEF RInv, Requests, InSocket

\* The parts of the invariant that a step of a caller keeps.
LEMMA CallerReplies ==
  ASSUME IInv, RInv, NEW c \in Callers, CallerStep(c)
  PROVE  Replies'
<1> USE DEF IInv, RInv, Replies, LinkDown
<1>1. ASSUME UNCHANGED <<chan, readVars, connOpen, engineVars, toClient>>,
             \A d \in Callers : pc'[d] = "writeErr" => pc[d] = "writeErr" \/ LinkDown
      PROVE  Replies'
  BY <1>1 DEF readVars, engineVars
<1>2. CASE CallBegin(c)
  BY <1>1, <1>2 DEF CallBegin, Goto, TypeOK, muxVars
<1>3. CASE CallRefused(c)
  BY <1>1, <1>3 DEF CallRefused, muxVars
<1>4. CASE CallRegister(c) \/ CallLockWrite(c) \/ CallWrite(c) \/ CallExpire(c)
  BY <1>1, <1>4 DEF CallRegister, CallLockWrite, CallWrite, CallExpire, Goto, TypeOK, muxVars
<1>5. CASE CallWriteFails(c)
  BY <1>1, <1>5 DEF CallWriteFails, Goto, TypeOK, muxVars
<1>6. CASE CallWriteReturns(c) \/ CallExpireReturns(c)
  BY <1>1, <1>6 DEF CallWriteReturns, CallExpireReturns, Abandon, Return, Goto, TypeOK
<1>7. CASE CallReceive(c)
  <2>1. \A i \in Ids : chan'[i] \in {"empty", chan[i]}
    BY <1>7 DEF CallReceive, TypeOK
  <2>2. \A d \in Callers : pc'[d] = "writeErr" => pc[d] = "writeErr"
    BY <1>7 DEF CallReceive, Return, Goto, TypeOK
  <2>3. UNCHANGED <<readVars, connOpen, engineVars, toClient>>
    BY <1>7 DEF CallReceive
  <2> QED
    BY <2>1, <2>2, <2>3 DEF readVars, engineVars
<1>8. CASE CtxDone(c)
  BY <1>1, <1>8 DEF CtxDone, muxVars
<1> QED
  BY <1>2, <1>3, <1>4, <1>5, <1>6, <1>7, <1>8 DEF CallerStep

\* The step of a caller keeps where the requests are.
LEMMA CallerRequests ==
  ASSUME IInv, RInv, NEW c \in Callers, CallerStep(c)
  PROVE  Requests'
<1>0. TypeOK /\ OwnIds /\ Requests
  BY DEF IInv, RInv
<1>1. CASE CallBegin(c)
  <2>1. /\ pc[c] = "idle" /\ cid'[c] = idSeq + 1 /\ idSeq' = idSeq + 1 /\ idSeq + 1 \in Ids
        /\ \A d \in Callers : d # c => pc'[d] = pc[d] /\ cid'[d] = cid[d]
        /\ UNCHANGED <<toEngine, working, served>>
    BY <1>0, <1>1, ConstantsAssumption DEF CallBegin, Goto, TypeOK, engineVars, Ids
  <2>2. ~InSocket(idSeq + 1) /\ idSeq + 1 \notin working /\ idSeq + 1 \notin served
    BY <1>0, <2>1 DEF Requests, TypeOK, Ids
  <2>3. \A i \in Ids : i <= idSeq => i <= idSeq + 1
    BY <1>0 DEF TypeOK, Ids
  <2>4. \A i \in Ids : InSocket(i)' <=> InSocket(i)
    BY <2>1 DEF InSocket
  <2>5. \A d \in Callers : pc'[d] \in {"begun", "registered", "locked"} =>
           ~InSocket(cid[d])' /\ cid'[d] \notin working /\ cid'[d] \notin served
    BY <1>0, <2>1, <2>2 DEF Requests, InSocket
  <2>6. \A i \in Ids : InSocket(i)' => i <= idSeq'
    BY <1>0, <2>1, <2>3, <2>4 DEF Requests
  <2>7. /\ \A i \in working : i <= idSeq'
        /\ \A i \in served : i <= idSeq'
    BY <1>0, <2>1, <2>3 DEF Requests, TypeOK
  <2> QED
    BY <1>0, <2>1, <2>4, <2>5, <2>6, <2>7 DEF Requests
<1>2. CASE CallWrite(c)
  <2>1. /\ pc[c] = "locked" /\ pc'[c] = "waiting" /\ UNCHANGED <<cid, idSeq, working, served>>
        /\ \A d \in Callers : d # c => pc'[d] = pc[d] /\ cid[d] # cid[c]
        /\ toEngine' = Append(toEngine, cid[c])
        /\ cid[c] \in Ids /\ cid[c] <= idSeq /\ toEngine \in Seq(Ids)
    BY <1>0, <1>2 DEF CallWrite, Goto, TypeOK, OwnIds, engineVars
  <2>2. /\ Len(toEngine) \in Nat /\ Len(toEngine') = Len(toEngine) + 1
        /\ \A k \in 1 .. Len(toEngine) : toEngine'[k] = toEngine[k]
        /\ toEngine'[Len(toEngine) + 1] = cid[c]
    BY <2>1, AppendElements
  <2>3. ~InSocket(cid[c]) /\ cid[c] \notin working /\ cid[c] \notin served
    BY <1>0, <2>1 DEF Requests
  <2>4. \A k \in 1 .. Len(toEngine') : k \in 1 .. Len(toEngine) \/ k = Len(toEngine) + 1
    BY <2>2
  <2>5. \A i \in Ids : InSocket(i)' => InSocket(i) \/ i = cid[c]
    BY <2>2, <2>4 DEF InSocket
  <2>6. \A j, k \in 1 .. Len(toEngine') : toEngine'[j] = toEngine'[k] => j = k
    BY <1>0, <2>2, <2>3, <2>4 DEF Requests, InSocket
  <2>7. \A d \in Callers : pc'[d] \in {"begun", "registered", "locked"} =>
           pc[d] \in {"begun", "registered", "locked"} /\ cid[d] # cid[c] /\ cid[d] \in Ids
    BY <1>0, <2>1 DEF TypeOK
  <2> QED
    BY <1>0, <2>1, <2>3, <2>5, <2>6, <2>7 DEF Requests
<1>3. CASE CallRefused(c) \/ CtxDone(c)
  BY <1>3, QuietRequests DEF CallRefused, CtxDone, engineVars
<1>4. CASE CallRegister(c) \/ CallLockWrite(c) \/ CallWriteFails(c) \/ CallExpire(c)
  <2>1. UNCHANGED <<idSeq, toEngine, working, served, cid>>
    BY <1>4 DEF CallRegister, CallLockWrite, CallWriteFails, CallExpire, engineVars
  <2>2. /\ \A d \in Callers : d # c => pc'[d] = pc[d]
        /\ pc[c] \in {"begun", "registered", "locked"} \/ pc'[c] = "expired"
    BY <1>0, <1>4 DEF CallRegister, CallLockWrite, CallWriteFails, CallExpire, Goto, TypeOK
  <2> QED
    BY <2>1, <2>2, QuietRequests
<1>5. ASSUME CallWriteReturns(c) \/ CallReceive(c) \/ CallExpireReturns(c) PROVE Requests'
  <2>1. UNCHANGED <<idSeq, toEngine, working, served>>
    BY <1>5 DEF CallWriteReturns, CallReceive, CallExpireReturns, Abandon, engineVars
  <2>2. \A d \in Callers : (d # c /\ pc'[d] = pc[d] /\ cid'[d] = cid[d]) \/ pc'[d] = "idle"
    BY <1>0, <1>5 DEF CallWriteReturns, CallReceive, CallExpireReturns, Abandon, Return,
                      Goto, TypeOK
  <2> QED
    BY <2>1, <2>2, QuietRequests
<1> QED
  BY <1>1, <1>2, <1>3, <1>4, <1>5 DEF CallerStep

\* The step of a caller keeps the outcomes right.
LEMMA CallerOutcomes ==
  ASSUME IInv, RInv, NEW c \in Callers, CallerStep(c)
  PROVE  Outcomes'
<1>0. TypeOK /\ OwnIds /\ Outcomes /\ Replies
  BY DEF IInv, RInv
<1>1. CASE CallBegin(c)
  <2>1. /\ cid'[c] = idSeq + 1 /\ idSeq' = idSeq + 1 /\ idSeq + 1 \in Ids /\ idSeq \in Nat
        /\ \A d \in Callers : d # c => pc'[d] = pc[d] /\ cid'[d] = cid[d]
        /\ UNCHANGED <<outcome, served>>
    BY <1>0, <1>1, ConstantsAssumption DEF CallBegin, Goto, TypeOK, engineVars, muxVars, Ids
  <2>2. outcome[idSeq + 1] = "none" /\ \A i \in Ids : i <= idSeq => i <= idSeq + 1
    BY <1>0, <2>1 DEF Outcomes, Ids
  <2> QED
    BY <1>0, <2>1, <2>2 DEF Outcomes
<1>2. CASE CallRefused(c) \/ CtxDone(c)
  BY <1>0, <1>2 DEF CallRefused, CtxDone, Outcomes, engineVars, muxVars
<1>3. CASE \/ CallRegister(c) \/ CallLockWrite(c) \/ CallWrite(c)
           \/ CallWriteFails(c) \/ CallExpire(c)
  <2>1. UNCHANGED <<idSeq, served, outcome, cid>>
    BY <1>3 DEF CallRegister, CallLockWrite, CallWrite, CallWriteFails, CallExpire,
                engineVars, muxVars
  <2>2. \A d \in Callers : pc'[d] # "idle" => pc[d] # "idle"
    BY <1>0, <1>3 DEF CallRegister, CallLockWrite, CallWrite, CallWriteFails, CallExpire,
                      Goto, TypeOK
  <2> QED
    BY <1>0, <2>1, <2>2 DEF Outcomes
<1>4. CASE CallWriteReturns(c)
  <2>1. Return(c, "writeErr", "writeError") /\ UNCHANGED <<idSeq, served>>
    BY <1>4 DEF CallWriteReturns, Abandon, engineVars
  <2> QED
    BY <2>1, ReturnKeepsOutcomes
<1>5. CASE CallExpireReturns(c)
  <2>1. Return(c, "expired", "ctxError") /\ UNCHANGED <<idSeq, served>>
    BY <1>5 DEF CallExpireReturns, Abandon, engineVars
  <2> QED
    BY <2>1, ReturnKeepsOutcomes
<1>6. CASE CallReceive(c)
  <2>1. UNCHANGED <<idSeq, served>>
    BY <1>6 DEF CallReceive, engineVars
  <2>2. cid[c] \in Ids /\ chan[cid[c]] # "empty"
    BY <1>0, <1>6 DEF CallReceive, TypeOK
  <2>3. CASE chan[cid[c]] = "rpcError"
    <3>1. Return(c, "waiting", "rpcError")
      BY <1>6, <2>3 DEF CallReceive
    <3> QED
      BY <2>1, <3>1, ReturnKeepsOutcomes
  <2>4. CASE chan[cid[c]] # "rpcError"
    <3>1. Return(c, "waiting", "reply")
      BY <1>6, <2>4 DEF CallReceive
    <3>2. cid[c] \in served
      BY <1>0, <2>2, <2>4 DEF Replies, TypeOK
    <3> QED
      BY <2>1, <3>1, <3>2, ReturnKeepsOutcomes
  <2> QED
    BY <2>3, <2>4
<1> QED
  BY <1>1, <1>2, <1>3, <1>4, <1>5, <1>6 DEF CallerStep

\* readLoop and failPending: a frame is passed on as it is, an error frame is sent
\* only after the link has gone down.
LEMMA ReaderRInv ==
  ASSUME TextBreaksJson = FALSE, IInv, RInv, ReaderStep
  PROVE  RInv'
<1>0. TypeOK /\ EndedIsDown /\ Outcomes /\ Requests /\ Replies
  BY DEF IInv, RInv
<1>1. UNCHANGED <<idSeq, pc, cid, outcome, connOpen, engine, working, served, toEngine>>
  BY DEF ReaderStep, ReadFrame, ReadLookup, ReadDeliver, ReadError, FailLock, FailOne,
         FailUnlock, callerVars, muxVars, readVars, engineVars
<1>2. Outcomes'
  BY <1>0, <1>1 DEF Outcomes
<1>3. Requests'
  BY <1>1, QuietRequests
<1>4. ASSUME NEW f \in {"frame", "rpcError"}, NEW i \in Ids, chan' = [chan EXCEPT ![i] = f],
             f = "frame" => i \in served, f = "rpcError" => LinkDown
      PROVE  \A j \in Ids : /\ chan'[j] = "frame" => j \in served
                            /\ chan'[j] = "rpcError" => LinkDown
                            /\ chan'[j] # "brokenJson"
  BY <1>0, <1>4 DEF TypeOK, Replies
<1>5. CASE ReadFrame
  <2>1. /\ UNCHANGED chan /\ toClient \in Seq(Ids \cup {NoId}) /\ toClient # <<>>
        /\ toClient' = Tail(toClient) /\ readId' = Head(toClient)
        /\ readPc' = IF Head(toClient) = NoId THEN "read" ELSE "lookup"
    BY <1>0, <1>5 DEF ReadFrame, muxVars, TypeOK
  <2>2. /\ Len(toClient) \in Nat \ {0} /\ Len(toClient') = Len(toClient) - 1
        /\ readId' = toClient[1]
        /\ \A k \in 1 .. Len(toClient) - 1 : toClient'[k] = toClient[k + 1]
    BY <2>1, TakeElements
  <2>3. \A k \in 1 .. Len(toClient') : k + 1 \in 1 .. Len(toClient) /\ 1 \in 1 .. Len(toClient)
    BY <2>2
  <2>4. \A k \in 1 .. Len(toClient') : toClient'[k] \in served \cup {NoId}
    BY <1>0, <2>2, <2>3 DEF Replies
  <2>5. readId' \in served \cup {NoId}
    BY <1>0, <2>2 DEF Replies
  <2>6. readPc' \in {"lookup", "deliver"} => readId' \in served
    BY <2>1, <2>5
  <2> QED
    BY <1>0, <1>1, <1>2, <1>3, <2>1, <2>4, <2>6 DEF Replies, RInv, LinkDown
<1>6. CASE ReadLookup
  BY <1>0, <1>1, <1>2, <1>3, <1>6 DEF ReadLookup, Replies, RInv, LinkDown
<1>7. CASE ReadDeliver
  <2>1. readId \in Ids /\ readId \in served /\ chan' = [chan EXCEPT ![readId] = "frame"]
        /\ readPc' = "read" /\ UNCHANGED toClient
    BY <1>0, <1>7 DEF ReadDeliver, TypeOK, Replies
  <2>2. \A j \in Ids : /\ chan'[j] = "frame" => j \in served
                       /\ chan'[j] = "rpcError" => LinkDown
                       /\ chan'[j] # "brokenJson"
    BY <1>4, <2>1
  <2> QED
    BY <1>0, <1>1, <1>2, <1>3, <2>1, <2>2 DEF Replies, RInv, LinkDown
<1>8. CASE ReadError \/ FailLock \/ FailUnlock
  BY <1>0, <1>1, <1>2, <1>3, <1>8
     DEF ReadError, FailLock, FailUnlock, Replies, RInv, LinkDown, muxVars
<1>9. ASSUME NEW i \in Ids, FailOne(i) PROVE RInv'
  <2>1. LinkDown /\ chan' = [chan EXCEPT ![i] = "rpcError"]
        /\ UNCHANGED <<readPc, readId, toClient>>
    BY <1>0, <1>9 DEF FailOne, ErrorFrame, EndedIsDown, readVars
  <2>2. \A j \in Ids : /\ chan'[j] = "frame" => j \in served
                       /\ chan'[j] = "rpcError" => LinkDown
                       /\ chan'[j] # "brokenJson"
    BY <1>4, <2>1
  <2> QED
    BY <1>0, <1>1, <1>2, <1>3, <2>1, <2>2 DEF Replies, RInv, LinkDown
<1> QED
  BY <1>5, <1>6, <1>7, <1>8, <1>9 DEF ReaderStep

\* A step of the engine or of Stop changes nothing that a caller looks at, and
\* sends a reply only for a request the engine has executed.
LEMMA OutsideRInv ==
  ASSUME IInv, RInv, StopStep \/ EngineStep
  PROVE  RInv'
<1>0. TypeOK /\ Outcomes /\ Requests /\ Replies
  BY DEF IInv, RInv
<1>1. UNCHANGED <<idSeq, pc, cid, outcome, chan, readPc, readId>>
  BY DEF StopStep, StopMark, StopClose, StopKill, StopReap, EngineStep, EngineTake,
         EngineReply, EnginePush, EngineExit, callerVars, muxVars, readVars
<1>2. LinkDown => LinkDown'
  BY DEF StopStep, StopMark, StopClose, StopKill, StopReap, EngineStep, EngineTake,
         EngineReply, EnginePush, EngineExit, Exit, engineVars, LinkDown
<1>3. ASSUME UNCHANGED <<served, toEngine, toClient>>, working' \subseteq working
      PROVE  RInv'
  <2>1. Outcomes' /\ Replies'
    BY <1>0, <1>1, <1>2, <1>3 DEF Outcomes, Replies
  <2>2. Requests'
    BY <1>0, <1>1, <1>3 DEF Requests, InSocket
  <2> QED
    BY <2>1, <2>2 DEF RInv
<1>4. CASE StopStep \/ EngineExit
  BY <1>3, <1>4 DEF StopStep, StopMark, StopClose, StopKill, StopReap, EngineExit, Exit,
                    engineVars
<1>5. CASE EngineTake
  <2>1. /\ UNCHANGED <<served, toClient>>
        /\ working' = working \cup {Head(toEngine)} /\ toEngine' = Tail(toEngine)
        /\ toEngine \in Seq(Ids) /\ toEngine # <<>>
    BY <1>0, <1>5 DEF EngineTake, TypeOK
  <2>2. /\ Len(toEngine) \in Nat \ {0} /\ Len(toEngine') = Len(toEngine) - 1
        /\ Head(toEngine) = toEngine[1]
        /\ \A k \in 1 .. Len(toEngine) - 1 : toEngine'[k] = toEngine[k + 1]
    BY <2>1, TakeElements
  <2>3. \A k \in 1 .. Len(toEngine') :
           k + 1 \in 1 .. Len(toEngine) /\ k + 1 # 1 /\ toEngine'[k] = toEngine[k + 1]
    BY <2>2
  <2>4. Head(toEngine) \in Ids /\ InSocket(Head(toEngine)) /\ 1 \in 1 .. Len(toEngine)
    BY <2>1, <2>2 DEF InSocket
  <2>5. \A i \in Ids : InSocket(i)' => InSocket(i) /\ i # Head(toEngine)
    BY <1>0, <2>2, <2>3, <2>4 DEF InSocket, Requests
  <2>6. \A j, k \in 1 .. Len(toEngine') : toEngine'[j] = toEngine'[k] => j = k
    BY <1>0, <2>2, <2>3 DEF Requests
  <2>7. \A c \in Callers : pc[c] \in {"begun", "registered", "locked"} =>
           cid[c] \in Ids /\ cid[c] # Head(toEngine)
    BY <1>0, <2>4 DEF Requests, TypeOK
  <2>8. Requests'
    BY <1>0, <1>1, <2>1, <2>4, <2>5, <2>6, <2>7 DEF Requests
  <2>9. Outcomes' /\ Replies'
    BY <1>0, <1>1, <1>2, <2>1 DEF Outcomes, Replies
  <2> QED
    BY <2>8, <2>9 DEF RInv
<1>6. ASSUME NEW i \in Ids, EngineReply(i) PROVE RInv'
  <2>1. /\ i \in working /\ working' = working \ {i} /\ served' = served \cup {i}
        /\ UNCHANGED toEngine /\ SendToClient(i)
    BY <1>6 DEF EngineReply
  <2>2. Requests'
    BY <1>0, <1>1, <2>1 DEF Requests, InSocket
  <2>3. \A k \in 1 .. Len(toClient') : toClient'[k] \in served' \cup {NoId}
    <3>1. CASE toClient' = toClient
      BY <1>0, <2>1, <3>1 DEF Replies
    <3>2. CASE toClient' = Append(toClient, i)
      <4>1. /\ Len(toClient) \in Nat /\ Len(toClient') = Len(toClient) + 1
            /\ \A k \in 1 .. Len(toClient) : toClient'[k] = toClient[k]
            /\ toClient'[Len(toClient) + 1] = i
        BY <1>0, <3>2, AppendElements DEF TypeOK
      <4>2. \A k \in 1 .. Len(toClient') : k \in 1 .. Len(toClient) \/ k = Len(toClient) + 1
        BY <4>1
      <4> QED
        BY <1>0, <2>1, <4>1, <4>2 DEF Replies
    <3> QED
      BY <2>1, <3>1, <3>2 DEF SendToClient
  <2>4. Outcomes' /\ Replies'
    BY <1>0, <1>1, <1>2, <2>1, <2>3 DEF Outcomes, Replies
  <2> QED
    BY <2>2, <2>4 DEF RInv
<1>7. CASE EnginePush
  <2>1. UNCHANGED <<working, served, toEngine>> /\ SendToClient(NoId)
    BY <1>7 DEF EnginePush
  <2>2. \A k \in 1 .. Len(toClient') : toClient'[k] \in served' \cup {NoId}
    <3>1. CASE toClient' = toClient
      BY <1>0, <2>1, <3>1 DEF Replies
    <3>2. CASE toClient' = Append(toClient, NoId)
      <4>1. /\ Len(toClient) \in Nat /\ Len(toClient') = Len(toClient) + 1
            /\ \A k \in 1 .. Len(toClient) : toClient'[k] = toClient[k]
            /\ toClient'[Len(toClient) + 1] = NoId
        BY <1>0, <3>2, AppendElements DEF TypeOK
      <4>2. \A k \in 1 .. Len(toClient') : k \in 1 .. Len(toClient) \/ k = Len(toClient) + 1
        BY <4>1
      <4> QED
        BY <1>0, <2>1, <4>1, <4>2 DEF Replies
    <3> QED
      BY <2>1, <3>1, <3>2 DEF SendToClient
  <2>3. Requests'
    BY <1>1, <2>1, QuietRequests
  <2>4. Outcomes' /\ Replies'
    BY <1>0, <1>1, <1>2, <2>1, <2>2 DEF Outcomes, Replies
  <2> QED
    BY <2>3, <2>4 DEF RInv
<1> QED
  BY <1>4, <1>5, <1>6, <1>7 DEF EngineStep

\* Initially, and after every step, frames, requests and outcomes are consistent.
LEMMA RefinementInvariant ==
  ASSUME TextBreaksJson = FALSE
  PROVE  Spec => [](IInv /\ RInv)
<1>1. Init => RInv
  BY ConstantsAssumption DEF Init, RInv, Outcomes, Requests, Replies, InSocket, Ids
<1>2. IInv /\ RInv /\ [Next]_vars => RInv'
  <2> SUFFICES ASSUME IInv, RInv, [Next]_vars PROVE RInv'
    OBVIOUS
  <2>1. ASSUME NEW c \in Callers, CallerStep(c) PROVE RInv'
    BY <2>1, CallerReplies, CallerRequests, CallerOutcomes DEF RInv
  <2>2. CASE AllReturned \/ UNCHANGED vars
    BY <2>2 DEF AllReturned, vars, callerVars, muxVars, readVars, engineVars, RInv, Outcomes,
                Requests, Replies, InSocket, LinkDown
  <2> QED
    BY <2>1, <2>2, ReaderRInv, OutsideRInv DEF Next
<1> QED
  BY <1>1, <1>2, Invariant, PTL DEF Spec

\* The abstract state of all calls.
CallMap == [i \in Ids |-> CallState(i)]

\* A step that changes no outcome, serves no request and leaves the link as it is
\* shows nothing to who only knows the promise.
LEMMA Stutter ==
  ASSUME UNCHANGED <<idSeq, outcome, served, connOpen, engine>>
  PROVE  UNCHANGED Promise!vars
BY DEF Promise!vars, CallState, LinkDown

\* A call that returns ends an open call of the promise.
LEMMA ReturnMoves ==
  ASSUME IInv, RInv, NEW c \in Callers, NEW from, from # "idle", NEW result,
         Return(c, from, result), UNCHANGED idSeq
  PROVE  /\ cid[c] \in Ids /\ CallMap[cid[c]] = "open"
         /\ result = "reply" => CallMap' = [CallMap EXCEPT ![cid[c]] = "answered"]
         /\ result \in {"rpcError", "writeError"} =>
               CallMap' = [CallMap EXCEPT ![cid[c]] = "failed"]
         /\ result = "ctxError" => CallMap' = [CallMap EXCEPT ![cid[c]] = "expired"]
<1>1. /\ cid[c] \in Ids /\ cid[c] <= idSeq /\ outcome[cid[c]] = "none"
      /\ outcome' = [outcome EXCEPT ![cid[c]] = result]
  BY ReturnOutcome
<1>2. /\ outcome'[cid[c]] = result
      /\ \A i \in Ids : i # cid[c] => outcome'[i] = outcome[i]
  BY <1>1 DEF IInv, TypeOK
<1> QED
  BY <1>1, <1>2 DEF CallMap, CallState

\* Each step of the client is a step of the promise, or no step of it.
LEMMA PromiseStep ==
  ASSUME TextBreaksJson = FALSE, IInv, RInv, [Next]_vars
  PROVE  [Promise!Next]_(Promise!vars)
<1>0. TypeOK /\ OwnIds /\ Outcomes /\ Requests /\ Replies
  BY DEF IInv, RInv
<1> USE DEF Promise!Next, Promise!vars
<1>1. ASSUME NEW c \in Callers, CallerStep(c) PROVE [Promise!Next]_(Promise!vars)
  <2>1. UNCHANGED <<served, connOpen, engine>>
    BY <1>1 DEF CallerStep, CallBegin, CallRefused, CallRegister, CallLockWrite, CallWrite,
                CallWriteFails, CallWriteReturns, CallReceive, CallExpire,
                CallExpireReturns, CtxDone, Abandon, engineVars
  <2>2. UNCHANGED LinkDown
    BY <2>1 DEF LinkDown
  <2>3. CASE CallBegin(c)
    <3>1. /\ idSeq \in Nat /\ idSeq + 1 \in Ids /\ idSeq' = idSeq + 1 /\ UNCHANGED outcome
      BY <1>0, <2>3, ConstantsAssumption DEF CallBegin, TypeOK, muxVars, Ids
    <3>2. outcome[idSeq + 1] = "none"
      BY <1>0, <3>1 DEF Outcomes
    <3>3. \A i \in Ids : i <= idSeq + 1 <=> i <= idSeq \/ i = idSeq + 1
      BY <3>1 DEF Ids
    <3>4. CallMap[idSeq + 1] = "unused"
      BY <3>1, <3>2 DEF CallMap, CallState
    <3>5. CallMap' = [CallMap EXCEPT ![idSeq + 1] = "open"]
      BY <3>1, <3>2, <3>3 DEF CallMap, CallState
    <3>6. Promise!Open(idSeq + 1)
      BY <2>1, <2>2, <3>4, <3>5 DEF Promise!Open, Promise!Move, CallMap
    <3> QED
      BY <3>1, <3>6
  <2>4. CASE CallReceive(c)
    <3>1. UNCHANGED idSeq /\ cid[c] \in Ids /\ chan[cid[c]] \in {"frame", "rpcError"}
      BY <1>0, <2>4 DEF CallReceive, TypeOK, Replies
    <3>2. CASE chan[cid[c]] = "rpcError"
      <4>1. Return(c, "waiting", "rpcError") /\ LinkDown
        BY <1>0, <2>4, <3>1, <3>2 DEF CallReceive, Replies
      <4>2. CallMap[cid[c]] = "open" /\ CallMap' = [CallMap EXCEPT ![cid[c]] = "failed"]
        BY <3>1, <4>1, ReturnMoves
      <4> QED
        BY <2>1, <2>2, <3>1, <4>1, <4>2 DEF Promise!Fail, Promise!Move, CallMap
    <3>3. CASE chan[cid[c]] = "frame"
      <4>1. Return(c, "waiting", "reply") /\ cid[c] \in served
        BY <1>0, <2>4, <3>1, <3>3 DEF CallReceive, Replies
      <4>2. CallMap[cid[c]] = "open" /\ CallMap' = [CallMap EXCEPT ![cid[c]] = "answered"]
        BY <3>1, <4>1, ReturnMoves
      <4> QED
        BY <2>1, <2>2, <3>1, <4>1, <4>2 DEF Promise!Answer, Promise!Move, CallMap
    <3> QED
      BY <3>1, <3>2, <3>3
  <2>5. CASE CallWriteReturns(c)
    <3>1. Return(c, "writeErr", "writeError") /\ UNCHANGED idSeq
      BY <2>5 DEF CallWriteReturns, Abandon
    <3>2. LinkDown
      BY <1>0, <3>1 DEF Return, Goto, Replies
    <3>3. cid[c] \in Ids
          /\ CallMap[cid[c]] = "open" /\ CallMap' = [CallMap EXCEPT ![cid[c]] = "failed"]
      BY <3>1, ReturnMoves
    <3> QED
      BY <2>1, <2>2, <3>2, <3>3 DEF Promise!Fail, Promise!Move, CallMap
  <2>6. CASE CallExpireReturns(c)
    <3>1. Return(c, "expired", "ctxError") /\ UNCHANGED idSeq
      BY <2>6 DEF CallExpireReturns, Abandon
    <3>2. cid[c] \in Ids
          /\ CallMap[cid[c]] = "open" /\ CallMap' = [CallMap EXCEPT ![cid[c]] = "expired"]
      BY <3>1, ReturnMoves
    <3> QED
      BY <2>1, <2>2, <3>2 DEF Promise!Expire, Promise!Move, CallMap
  <2>7. CASE \/ CallRefused(c) \/ CallRegister(c) \/ CallLockWrite(c) \/ CallWrite(c)
             \/ CallWriteFails(c) \/ CallExpire(c) \/ CtxDone(c)
    <3>1. UNCHANGED <<idSeq, outcome>>
      BY <2>7 DEF CallRefused, CallRegister, CallLockWrite, CallWrite, CallWriteFails,
                  CallExpire, CtxDone, muxVars
    <3> QED
      BY <2>1, <3>1, Stutter
  <2> QED
    BY <1>1, <2>3, <2>4, <2>5, <2>6, <2>7 DEF CallerStep
<1>2. CASE ReaderStep
  <2>1. UNCHANGED <<idSeq, outcome, served, connOpen, engine>>
    BY <1>2 DEF ReaderStep, ReadFrame, ReadLookup, ReadDeliver, ReadError, FailLock,
                FailOne, FailUnlock, muxVars, engineVars
  <2> QED
    BY <2>1, Stutter
<1>3. CASE StopStep \/ EngineTake \/ EnginePush \/ EngineExit
  <2>1. UNCHANGED <<idSeq, outcome, served>>
    BY <1>3 DEF StopStep, StopMark, StopClose, StopKill, StopReap, EngineTake, EnginePush,
                EngineExit, muxVars, engineVars
  <2>2. LinkDown => LinkDown'
    BY <1>3 DEF StopStep, StopMark, StopClose, StopKill, StopReap, EngineTake, EnginePush,
                EngineExit, Exit, engineVars, LinkDown
  <2>3. CallMap' = CallMap
    BY <2>1 DEF CallMap, CallState
  <2>4. CASE UNCHANGED LinkDown
    BY <2>1, <2>3, <2>4 DEF CallMap
  <2>5. CASE ~LinkDown /\ LinkDown'
    BY <2>1, <2>3, <2>5 DEF Promise!Disconnect, CallMap, LinkDown
  <2> QED
    BY <2>2, <2>4, <2>5 DEF LinkDown
<1>4. ASSUME NEW i \in Ids, EngineReply(i) PROVE [Promise!Next]_(Promise!vars)
  <2>1. /\ i \in working /\ served' = served \cup {i}
        /\ UNCHANGED <<idSeq, outcome, connOpen, engine>>
    BY <1>4 DEF EngineReply, muxVars
  <2>2. i <= idSeq /\ i \notin served
    BY <1>0, <2>1 DEF Requests
  <2>3. CallMap[i] \in {"open", "expired", "failed"}
    BY <1>0, <2>2 DEF CallMap, CallState, Outcomes, TypeOK
  <2>4. CallMap' = CallMap /\ UNCHANGED LinkDown
    BY <2>1 DEF CallMap, CallState, LinkDown
  <2> QED
    BY <2>1, <2>2, <2>3, <2>4 DEF Promise!Serve, CallMap
<1>5. CASE AllReturned \/ UNCHANGED vars
  BY <1>5, Stutter DEF AllReturned, vars, muxVars, engineVars
<1> QED
  BY <1>1, <1>2, <1>3, <1>4, <1>5 DEF Next, EngineStep

\* The client implements the promise of call(), for any number of callers, calls
\* and socket capacity, whenever Stop comes (typhon.go call, readLoop, failPending,
\* Stop): each call ends once, with the engine's reply to it, because the link is
\* down, or because its context expired.  It takes a read error whose text is
\* legal inside a JSON string: with a quote in it a dead link looks like a reply.
THEOREM ImplementsPromiseAlways ==
  ASSUME TextBreaksJson = FALSE
  PROVE  Spec => ImplementsPromise
<1>1. Init => Promise!Init
  <2> SUFFICES ASSUME Init PROVE Promise!Init
    OBVIOUS
  <2>1. ~LinkDown /\ served = {}
    BY DEF Init, LinkDown
  <2>2. \A i \in Ids : CallState(i) = "unused"
    BY ConstantsAssumption DEF Init, CallState, Ids
  <2> QED
    BY <2>1, <2>2 DEF Promise!Init
<1>2. IInv /\ RInv /\ [Next]_vars => [Promise!Next]_(Promise!vars)
  BY PromiseStep
<1> QED
  BY <1>1, <1>2, RefinementInvariant, PTL DEF Spec, ImplementsPromise, Promise!Spec
=============================================================================
