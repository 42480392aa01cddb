-------------------------- MODULE DriverLifeProofs --------------------------
(***************************************************************************)
(* Proofs about DriverLife, for every set of kinds, every number of runs,  *)
(* torrents and session ids, and every deadline of Start.                  *)
(***************************************************************************)
EXTENDS DriverLife, TLAPS

-----------------------------------------------------------------------------
(* The inductive invariant                                                 *)

\* The dial of typhon, which takes no context, may end after the deadline, if
\* that comes before typhon's own limit does.
InTime(t) == t <= CtxLimit \/ (kind = "typhon" /\ t <= 6 /\ t <= CtxLimit + 1)

\* The clock is that of Start, and no wait ends after the deadline.
Clock ==
    /\ pc \notin Starting => now = 0 /\ sigAt = 0
    /\ pc \in Starting => InTime(now) /\ (kind = "typhon" => began = 0)
    /\ pc \in {"loop", "spawn"} => now <= CtxLimit
    /\ pc \in InWait => InTime(until)
    /\ pc \in {"spawn", "read"} => until <= CtxLimit

\* Which waits notice a signal, and how little time is left in the other ones.
Signals ==
    /\ pc = "spawn" => breaks /\ kind # "typhon"
    /\ pc = "dial" =>
          \/ breaks
          \/ /\ kind = "typhon" /\ until <= now + 1
             /\ sigint => sigAt = now \/ now >= until
    /\ pc = "read" => breaks \/ kind = "rtorrent"
    /\ pc = "loop" /\ sigint => sigAt = now

\* Whose engines are there, and who the driver talks to.
Owners ==
    /\ \A r \in 1 .. Runs :
          /\ r > run => engine[r] = "none"
          /\ r < run /\ engine[r] \in {"boot", "up"} => r \in unclean
    /\ pc = "over" /\ engine[run] \in {"boot", "up"} => run \in unclean
    /\ pc \in {"idle", "spawn"} => engine[run] = "none"
    /\ pc \in {"read", "ready"} \cup Calling =>
          peer \in 1 .. Runs /\ (peer = run \/ peer \in unclean)

\* How often the call in progress was sent and executed.
Executed ==
    /\ pc = "send" => tries <= 1
    /\ pc \in {"sent", "conflict"} => tries >= 1
    /\ pc \in {"send", "sent", "conflict"} => done = 0 /\ ~refusal /\ last = "none"
    /\ pc = "served" =>
          /\ last = "none"
          /\ (done = 1 /\ ~refusal) \/ (done = 0 /\ refusal)

\* The ids that the engine has made up for nothing, if the driver has been told
\* n times that its own is out of date.
OldIds == renewals + (IF wasFresh THEN 0 ELSE 1)
Chased(n) == OldIds >= n /\ (~fresh => OldIds >= n + 1)

Sids ==
    /\ pc = "conflict" => kind = "transmission"
    /\ kind = "transmission" =>
          /\ pc = "sent" =>
                engine[peer] # "boot" /\ (engine[peer] = "up" => port = peer)
          /\ pc \in {"send", "conflict"} => Chased(tries)
          /\ pc = "sent" => Chased(tries - 1)

IInv ==
    /\ TypeOK /\ Clock /\ Signals /\ Owners
    /\ Executed /\ AddedOnce /\ Sids /\ GivesUpOnlyWhenChased

-----------------------------------------------------------------------------
(* The constants, and how each driver waits                                *)

LEMMA NumbersFact ==
  /\ Runs \in Nat \ {0} /\ CtxLimit \in Nat \ {0} /\ MaxAdds \in Nat /\ MaxRenewals \in Nat
  /\ Kinds \subseteq KindNames
BY ConstantsAssumption

\* The limits of the drivers that matter to the clock.
LEMMA ProfileFact ==
  ASSUME TypeOK
  PROVE  /\ P.ready \in Nat
         /\ kind = "typhon" =>
               /\ P.ready = 6 /\ P.process
               /\ P.dial.lasts = 1 /\ ~P.dial.ctx /\ ~P.dial.breaks
               /\ P.read # Same /\ P.read.lasts = 1 /\ P.read.ctx /\ P.read.breaks
         /\ kind # "typhon" =>
               /\ P.dial.lasts \in Nat /\ P.dial.ctx /\ P.dial.breaks
               /\ kind # "rtorrent" => P.read = Same
         /\ kind = "rtorrent" =>
               P.read # Same /\ P.read.lasts \in Nat /\ P.read.ctx /\ ~P.read.breaks
<1>0. kind \in KindNames
  BY NumbersFact DEF TypeOK
<1>1. P = CASE kind = "typhon" -> TyphonStart
            [] kind = "rain" -> RainStart
            [] kind = "rqbit" -> RqbitStart
            [] kind = "libtorrent" -> QbitStart
            [] kind = "transmission" -> TransmissionStart
            [] kind = "rtorrent" -> RtorrentStart
  BY <1>0 DEF P, ProfileOf
<1>2. CASE kind = "typhon"
  BY <1>1, <1>2 DEF TyphonStart, Profile, Waiting, Same
<1>3. CASE kind = "rain"
  BY <1>1, <1>3 DEF RainStart, Profile, Waiting, Same
<1>4. CASE kind = "rqbit"
  BY <1>1, <1>4 DEF RqbitStart, Profile, Waiting, Same
<1>5. CASE kind = "libtorrent"
  BY <1>1, <1>5 DEF QbitStart, Profile, Waiting, Same
<1>6. CASE kind = "transmission"
  BY <1>1, <1>6 DEF TransmissionStart, Profile, Waiting, Same
<1>7. CASE kind = "rtorrent"
  <2>1. P.read = Waiting(CtxLimit, TRUE, FALSE) /\ P.ready = 6 /\ P.dial = Waiting(1, TRUE, TRUE)
    BY <1>1, <1>7, Zenon DEF RtorrentStart, Profile
  <2> QED
    BY <1>7, <2>1, NumbersFact DEF Waiting, Same
<1> QED
  BY <1>0, <1>2, <1>3, <1>4, <1>5, <1>6, <1>7 DEF KindNames

LEMMA ClockFact ==
  ASSUME TypeOK
  PROVE  /\ now \in Nat /\ until \in Nat /\ began \in Nat /\ sigAt \in Nat
         /\ breaks \in BOOLEAN /\ sigint \in BOOLEAN /\ CtxLimit \in Nat
BY NumbersFact DEF TypeOK

\* The waits of a poll.
LEMMA PollEffect ==
  ASSUME TypeOK, Clock, Poll
  PROVE  /\ pc = "loop" /\ pc' = "dial" /\ UNCHANGED <<now, began, sigint, sigAt>>
         /\ until' \in Nat /\ now <= until' /\ until' <= CtxLimit + 1
         /\ breaks' \in BOOLEAN
         /\ \/ breaks' /\ until' <= CtxLimit
            \/ /\ kind = "typhon" /\ ~breaks'
               /\ until' = now + 1 /\ until' <= 6
<1>1. /\ pc = "loop" /\ now < began + P.ready /\ Await("dial", P.dial)
      /\ UNCHANGED <<now, began, sigint, sigAt>>
  BY DEF Poll, signalVars
<1>2. now \in Nat /\ now <= CtxLimit /\ CtxLimit \in Nat
  BY <1>1, ClockFact DEF Clock
<1>3. CASE kind = "typhon"
  <2>1. began = 0 /\ P.ready = 6 /\ P.dial.lasts = 1 /\ ~P.dial.ctx /\ ~P.dial.breaks
    BY <1>1, <1>3, ProfileFact DEF Clock, Starting
  <2>2. pc' = "dial" /\ until' = now + 1 /\ breaks' = P.dial.breaks
    BY <1>1, <2>1 DEF Await
  <2>3. breaks' = FALSE
    BY <1>3, <2>2, <1>1 DEF P, ProfileOf, KindNames, TyphonStart, Profile, Waiting
  <2>4. until' \in Nat /\ now <= until' /\ until' <= CtxLimit + 1 /\ until' <= 6
    BY <1>1, <1>2, <2>1, <2>2
  <2> QED
    BY <1>1, <1>3, <2>2, <2>3, <2>4
<1>4. CASE kind # "typhon"
  <2>1. P.dial.lasts \in Nat /\ P.dial.ctx /\ P.dial.breaks
    BY <1>4, ProfileFact
  <2>2. pc' = "dial" /\ until' = Sooner(now + P.dial.lasts, CtxLimit) /\ breaks' = P.dial.breaks
    BY <1>1, <2>1 DEF Await
  <2>3. until' \in Nat /\ now <= until' /\ until' <= CtxLimit
    BY <1>2, <2>1, <2>2 DEF Sooner
  <2>4. breaks' \in BOOLEAN
    <3>1. kind \in KindNames
      BY NumbersFact DEF TypeOK
    <3> QED
      BY <1>4, <2>2, <3>1 DEF P, ProfileOf, KindNames, RainStart, RqbitStart, QbitStart,
         TransmissionStart, RtorrentStart, Profile, Waiting
  <2> QED
    BY <1>1, <1>2, <2>1, <2>2, <2>3, <2>4
<1> QED
  BY <1>3, <1>4

\* The wait for the answer.
LEMMA DialledEffect ==
  ASSUME TypeOK, Clock, Signals, Dialled
  PROVE  /\ pc = "dial" /\ pc' = "read" /\ port # 0 /\ peer' = port
         /\ UNCHANGED <<now, began, sigint, sigAt>>
         /\ until' \in Nat /\ now <= until' /\ until' <= CtxLimit
         /\ breaks' \in BOOLEAN
         /\ breaks' \/ kind = "rtorrent"
<1>1. /\ pc = "dial" /\ port # 0 /\ peer' = port /\ ~WaitOver
      /\ UNCHANGED <<now, began, sigint, sigAt>>
      /\ IF P.read = Same THEN pc' = "read" /\ UNCHANGED <<until, breaks>>
                          ELSE Await("read", P.read)
  BY DEF Dialled, signalVars
<1>2. /\ now \in Nat /\ until \in Nat /\ CtxLimit \in Nat /\ now < until /\ InTime(until)
      /\ breaks \in BOOLEAN
  BY <1>1, ClockFact DEF Clock, WaitOver, InWait
<1>3. CASE kind = "typhon"
  <2>1. P.read # Same /\ P.read.lasts = 1 /\ P.read.ctx /\ P.read.breaks
    BY <1>3, ProfileFact
  <2>2. pc' = "read" /\ until' = Sooner(now + 1, CtxLimit) /\ breaks' = P.read.breaks
    BY <1>1, <2>1 DEF Await
  <2>3. now <= CtxLimit
    BY <1>2 DEF InTime
  <2>4. breaks' = TRUE
    BY <1>3, <2>2, <1>1 DEF P, ProfileOf, KindNames, TyphonStart, Profile, Waiting
  <2>5. until' \in Nat /\ now <= until' /\ until' <= CtxLimit
    BY <1>2, <2>2, <2>3 DEF Sooner
  <2> QED
    BY <1>1, <2>2, <2>4, <2>5
<1>4. CASE kind = "rtorrent"
  <2>1. P.read # Same /\ P.read.lasts \in Nat /\ P.read.ctx /\ ~P.read.breaks
    BY <1>4, ProfileFact
  <2>2. /\ pc' = "read" /\ until' = Sooner(now + P.read.lasts, CtxLimit)
        /\ breaks' = P.read.breaks
    BY <1>1, <2>1 DEF Await
  <2>3. now <= CtxLimit
    BY <1>2, <1>4 DEF InTime
  <2>4. breaks' = FALSE
    BY <1>4, <2>2, <1>1 DEF P, ProfileOf, KindNames, RtorrentStart, Profile, Waiting
  <2>5. until' \in Nat /\ now <= until' /\ until' <= CtxLimit
    BY <1>2, <2>1, <2>2, <2>3 DEF Sooner
  <2> QED
    BY <1>1, <1>4, <2>2, <2>4, <2>5
<1>5. CASE kind # "typhon" /\ kind # "rtorrent"
  <2>1. P.read = Same
    BY <1>5, ProfileFact
  <2>2. pc' = "read" /\ until' = until /\ breaks' = breaks
    BY <1>1, <2>1
  <2>3. breaks /\ until <= CtxLimit
    BY <1>1, <1>2, <1>5 DEF Signals, InTime
  <2> QED
    BY <1>1, <1>2, <2>2, <2>3
<1> QED
  BY <1>3, <1>4, <1>5

\* The wait for docker.
LEMMA DockerRunEffect ==
  ASSUME TypeOK, Clock, DockerRun
  PROVE  /\ pc = "idle" /\ pc' = "spawn" /\ UNCHANGED <<now, began, sigint, sigAt>>
         /\ kind # "typhon" /\ now = 0 /\ until' = CtxLimit /\ breaks' = TRUE
<1>1. /\ pc = "idle" /\ ~P.process /\ Await("spawn", Waiting(CtxLimit, TRUE, TRUE))
      /\ UNCHANGED <<now, began, sigint, sigAt>>
  BY DEF DockerRun, signalVars
<1>2. now = 0 /\ CtxLimit \in Nat
  BY <1>1, ClockFact DEF Clock, Starting
<1>3. kind # "typhon"
  BY <1>1, ProfileFact
<1>4. pc' = "spawn" /\ until' = Sooner(now + CtxLimit, CtxLimit) /\ breaks' = TRUE
  BY <1>1 DEF Await, Waiting
<1> QED
  BY <1>1, <1>2, <1>3, <1>4 DEF Sooner

-----------------------------------------------------------------------------
(* Type correctness                                                        *)

\* An engine goes, and frees the address if it has it.
LEMMA GoneEffect ==
  ASSUME TypeOK, NEW r \in 1 .. Runs, Gone(r)
  PROVE  /\ engine' \in [1 .. Runs -> {"none", "boot", "up", "gone"}]
         /\ port' \in 0 .. Runs /\ (port' # 0 => engine'[port'] = "up" /\ port' = port)
         /\ engine'[r] = "gone"
         /\ \A q \in 1 .. Runs : q # r => engine'[q] = engine[q]
<1>1. /\ engine' = [engine EXCEPT ![r] = "gone"]
      /\ port' = IF port = r THEN 0 ELSE port
  BY DEF Gone
<1>2. /\ engine \in [1 .. Runs -> {"none", "boot", "up", "gone"}]
      /\ port \in 0 .. Runs /\ (port # 0 => engine[port] = "up")
  BY DEF TypeOK
<1>3. /\ engine' \in [1 .. Runs -> {"none", "boot", "up", "gone"}]
      /\ engine'[r] = "gone"
      /\ \A q \in 1 .. Runs : q # r => engine'[q] = engine[q]
  BY <1>1, <1>2
<1>4. port' \in 0 .. Runs /\ (port' # 0 => port' = port /\ port # r /\ port \in 1 .. Runs)
  BY <1>1, <1>2, NumbersFact
<1> QED
  BY <1>2, <1>3, <1>4

LEMMA StartTypes ==
  ASSUME TypeOK, Clock, Signals, Owners, Begin \/ Polling \/ TimePasses
  PROVE  TypeOK'
<1> USE NumbersFact DEF runVars, timeVars, signalVars, worldVars, sidVars, callVars,
       Starting, InWait, Calling
<1>0. run \in 1 .. Runs /\ 0 \in 0 .. CtxLimit /\ 0 \in 0 .. CtxLimit + 2
  BY DEF TypeOK
<1>1. CASE StartRefused
  BY <1>0, <1>1 DEF TypeOK, StartRefused, FailStart, ClockOff
<1>2. CASE StartProcess
  <2>1. now = 0 /\ now' = 0 /\ began' = 0 /\ engine[run] = "none" /\ port # run
    BY <1>2 DEF StartProcess, Clock, Owners, TypeOK
  <2> QED
    BY <1>0, <1>2, <2>1 DEF TypeOK, StartProcess
<1>3. CASE DockerRun
  <2>1. pc' = "spawn" /\ now' = 0 /\ until' = CtxLimit /\ breaks' = TRUE /\ UNCHANGED <<began, sigint, sigAt>>
    BY <1>3, DockerRunEffect
  <2>2. CtxLimit \in 0 .. CtxLimit + 2 /\ 0 <= CtxLimit
    OBVIOUS
  <2> QED
    BY <1>0, <1>3, <2>1, <2>2 DEF TypeOK, DockerRun
<1>4. CASE DockerRuns
  <2>1. now \in 0 .. CtxLimit /\ engine[run] = "none" /\ port # run
    BY <1>4, ClockFact DEF DockerRuns, Clock, Owners, WaitOver, TypeOK
  <2> QED
    BY <1>0, <1>4, <2>1 DEF TypeOK, DockerRuns
<1>5. CASE DockerFails
  <2>1. engine[run] = "none" /\ port # run
    BY <1>5 DEF DockerFails, Owners, TypeOK
  <2>2. engine' = engine \/ engine' = [engine EXCEPT ![run] = "boot"]
    BY <1>5 DEF DockerFails
  <2>3. engine' \in [1 .. Runs -> {"none", "boot", "up", "gone"}] /\ (port # 0 => engine'[port] = "up")
    BY <1>0, <2>1, <2>2 DEF TypeOK
  <2> QED
    BY <1>0, <1>5, <2>3 DEF TypeOK, DockerFails, FailStart, ClockOff
<1>6. CASE Poll
  <2>1. /\ pc' = "dial" /\ UNCHANGED <<now, began, sigint, sigAt>>
        /\ until' \in 0 .. CtxLimit + 2 /\ now <= until' /\ breaks' \in BOOLEAN
    BY <1>6, PollEffect
  <2> QED
    BY <1>0, <1>6, <2>1 DEF TypeOK, Poll
<1>7. CASE Dialled
  <2>1. /\ pc' = "read" /\ peer' = port /\ UNCHANGED <<now, began, sigint, sigAt>>
        /\ until' \in 0 .. CtxLimit + 2 /\ now <= until' /\ breaks' \in BOOLEAN
    BY <1>7, DialledEffect
  <2> QED
    BY <1>0, <1>7, <2>1 DEF TypeOK, Dialled
<1>8. CASE DialFails
  BY <1>0, <1>8 DEF TypeOK, DialFails
<1>9. CASE Answered
  BY <1>0, <1>9 DEF TypeOK, Answered, ClockOff
<1>10. CASE ReadFails
  BY <1>0, <1>10 DEF TypeOK, ReadFails, FailStart, ClockOff
<1>11. CASE Pause
  <2>1. now' \in 0 .. CtxLimit + 2
    BY <1>11, ClockFact DEF Pause, CtxDone
  <2> QED
    BY <1>0, <1>11, <2>1 DEF TypeOK, Pause
<1>12. CASE NotReady
  <2>1. /\ engine' \in [1 .. Runs -> {"none", "boot", "up", "gone"}]
        /\ port' \in 0 .. Runs /\ (port' # 0 => engine'[port'] = "up")
    BY <1>0, <1>12, GoneEffect DEF NotReady, TypeOK
  <2> QED
    BY <1>0, <1>12, <2>1 DEF TypeOK, NotReady, FailStart, ClockOff
<1>13. CASE TimePasses
  <2>1. now' \in 0 .. CtxLimit + 2 /\ now' <= until
    BY <1>13, ClockFact DEF TimePasses, WaitOver, TypeOK
  <2> QED
    BY <1>0, <1>13, <2>1 DEF TypeOK, TimePasses
<1> QED
  BY <1>1, <1>2, <1>3, <1>4, <1>5, <1>6, <1>7, <1>8, <1>9, <1>10, <1>11, <1>12, <1>13
     DEF Begin, Polling

LEMMA OtherTypes ==
  ASSUME TypeOK, Executed,
         \/ AddStep \/ End \/ Interrupt \/ Renew \/ UNCHANGED vars
         \/ \E r \in 1 .. Runs : Bind(r) \/ BindFails(r) \/ EngineExit(r)
  PROVE  TypeOK'
<1> USE NumbersFact DEF runVars, timeVars, signalVars, worldVars, sidVars, callVars,
       Starting, InWait, Calling
<1>0. run \in 1 .. Runs /\ 0 \in 0 .. 2 /\ 0 \in 0 .. MaxRenewals /\ 0 \in 0 .. MaxAdds
  BY DEF TypeOK
<1>1. CASE Add
  <2>1. adds' \in 0 .. MaxAdds
    BY <1>1 DEF Add, TypeOK
  <2> QED
    BY <1>0, <1>1, <2>1 DEF TypeOK, Add
<1>2. CASE Send
  <2>1. tries' \in 0 .. 2 /\ peer' \in 0 .. Runs
    BY <1>2 DEF Send, TypeOK, Executed
  <2> QED
    BY <1>0, <1>2, <2>1 DEF TypeOK, Send
<1>3. CASE Execute
  <2>0. done \in Nat /\ refusal \in BOOLEAN
    BY DEF TypeOK
  <2>a. done' = done \/ done' = done + 1
    BY <1>3 DEF Execute
  <2>b. refusal' = refusal \/ refusal' = TRUE
    BY <1>3 DEF Execute
  <2>c. refusal' \in BOOLEAN
    BY <2>0, <2>b, Zenon
  <2>1. done' \in Nat /\ refusal' \in BOOLEAN
    BY <2>0, <2>a, <2>c
  <2> QED
    BY <1>0, <1>3, <2>1 DEF TypeOK, Execute
<1>4. CASE Conflict
  BY <1>0, <1>4 DEF TypeOK, Conflict
<1>5. CASE Retry
  BY <1>0, <1>5 DEF TypeOK, Retry
<1>6. CASE Reply
  BY <1>0, <1>6 DEF TypeOK, Reply
<1>7. CASE CallFails
  BY <1>0, <1>7 DEF TypeOK, CallFails
<1>8. CASE Stop \/ StopFails
  <2>1. /\ engine' \in [1 .. Runs -> {"none", "boot", "up", "gone"}]
        /\ port' \in 0 .. Runs /\ (port' # 0 => engine'[port'] = "up")
    BY <1>0, <1>8, GoneEffect DEF Stop, StopFails, TypeOK
  <2>2. unclean' \subseteq 1 .. Runs
    BY <1>0, <1>8 DEF Stop, StopFails, TypeOK
  <2> QED
    BY <1>0, <1>8, <2>1, <2>2 DEF TypeOK, Stop, StopFails
<1>9. CASE NextRun
  <2>1. run' \in 1 .. Runs /\ 0 \in 0 .. Runs
    BY <1>0, <1>9 DEF NextRun
  <2>2. peer' \in 0 .. Runs /\ fresh' \in BOOLEAN /\ wasFresh' \in BOOLEAN /\ sigint' \in BOOLEAN
        /\ refusal' \in BOOLEAN /\ adds' \in 0 .. MaxAdds /\ done' \in Nat
    BY <1>0, <1>9, <2>1 DEF NextRun
  <2> QED
    BY <1>0, <1>9, <2>1, <2>2 DEF TypeOK, NextRun
<1>10. CASE Interrupt
  BY <1>0, <1>10 DEF TypeOK, Interrupt
<1>11. ASSUME NewId
       PROVE  fresh' \in BOOLEAN /\ renewals' \in 0 .. MaxRenewals
  <2>1. fresh \in BOOLEAN /\ renewals \in 0 .. MaxRenewals
    BY DEF TypeOK
  <2>2. fresh' = fresh \/ fresh' = FALSE
    BY <1>11 DEF NewId
  <2>3. renewals' = renewals \/ (renewals < MaxRenewals /\ renewals' = renewals + 1)
    BY <1>11 DEF NewId
  <2>4. fresh' \in BOOLEAN
    BY <2>1, <2>2, Zenon
  <2> QED
    BY <2>1, <2>3, <2>4
<1>12. CASE Renew
  <2>1. NewId
    BY <1>12 DEF Renew
  <2> QED
    BY <1>0, <1>11, <1>12, <2>1 DEF TypeOK, Renew
<1>13. ASSUME NEW r \in 1 .. Runs, Bind(r)
       PROVE  TypeOK'
  <2>1. NewId
    BY <1>13 DEF Bind
  <2> QED
    BY <1>0, <1>11, <1>13, <2>1 DEF TypeOK, Bind
<1>14. ASSUME NEW r \in 1 .. Runs, BindFails(r)
       PROVE  TypeOK'
  BY <1>0, <1>14 DEF TypeOK, BindFails
<1>15. ASSUME NEW r \in 1 .. Runs, EngineExit(r)
       PROVE  TypeOK'
  <2>1. /\ engine' \in [1 .. Runs -> {"none", "boot", "up", "gone"}]
        /\ port' \in 0 .. Runs /\ (port' # 0 => engine'[port'] = "up")
    BY <1>15, GoneEffect DEF EngineExit
  <2> QED
    BY <1>0, <1>15, <2>1 DEF TypeOK, EngineExit
<1>16. CASE UNCHANGED vars
  BY <1>16 DEF TypeOK, vars
<1> QED
  BY <1>1, <1>2, <1>3, <1>4, <1>5, <1>6, <1>7, <1>8, <1>9, <1>10, <1>12, <1>13, <1>14,
     <1>15, <1>16 DEF AddStep, End, Over

-----------------------------------------------------------------------------
(* The clock and the signal                                                *)

LEMMA KindStays ==
  ASSUME [Next]_vars
  PROVE  kind' = kind
BY DEF Next, Begin, StartRefused, StartProcess, DockerRun, DockerRuns, DockerFails, Polling,
   Poll, Dialled, DialFails, Answered, ReadFails, Pause, NotReady, TimePasses, AddStep, Add,
   Send, Execute, Conflict, Retry, Reply, CallFails, End, Stop, StopFails, NextRun, Over,
   Interrupt, Renew, Bind, BindFails, EngineExit, runVars, vars

\* Outside Start the clock stands.
LEMMA ClockStands ==
  ASSUME pc' \notin Starting, now' = 0, sigAt' = 0
  PROVE  Clock' /\ Signals'
BY DEF Clock, Signals, Starting, InWait

LEMMA StartClock ==
  ASSUME TypeOK, Clock, Signals, Begin \/ Polling \/ TimePasses
  PROVE  Clock' /\ Signals'
<1> USE DEF Starting, InWait, InTime
<1>0. /\ now \in Nat /\ until \in Nat /\ began \in Nat /\ sigAt \in Nat
      /\ breaks \in BOOLEAN /\ sigint \in BOOLEAN /\ CtxLimit \in Nat
  BY ClockFact
<1>1. CASE StartRefused
  BY <1>1, ClockStands DEF StartRefused, FailStart, ClockOff
<1>2. CASE StartProcess
  <2>1. /\ pc = "idle" /\ pc' = "loop" /\ began' = now
        /\ UNCHANGED <<kind, now, until, breaks, sigint, sigAt>>
    BY <1>2 DEF StartProcess, runVars, signalVars
  <2> QED
    BY <1>0, <2>1 DEF Clock, Signals
<1>3. CASE DockerRun
  <2>1. /\ pc' = "spawn" /\ UNCHANGED <<kind, now, began, sigint, sigAt>>
        /\ kind # "typhon" /\ now = 0 /\ until' = CtxLimit /\ breaks' = TRUE
    BY <1>3, DockerRunEffect DEF DockerRun, runVars
  <2> QED
    BY <1>0, <2>1 DEF Clock, Signals
<1>4. CASE DockerRuns
  <2>1. /\ pc = "spawn" /\ pc' = "loop" /\ began' = now /\ ~WaitOver
        /\ UNCHANGED <<kind, now, until, breaks, sigint, sigAt>>
    BY <1>4 DEF DockerRuns, runVars, signalVars
  <2>2. ~sigint /\ now < until /\ until <= CtxLimit
    BY <2>1, <1>0 DEF Signals, Clock, WaitOver
  <2>3. kind # "typhon"
    BY <2>1 DEF Signals
  <2> QED
    BY <1>0, <2>1, <2>2, <2>3 DEF Clock, Signals
<1>5. CASE DockerFails
  BY <1>5, ClockStands DEF DockerFails, FailStart, ClockOff
<1>6. CASE Poll
  <2>1. /\ pc = "loop" /\ pc' = "dial" /\ UNCHANGED <<kind, now, began, sigint, sigAt>>
        /\ until' \in Nat /\ now <= until' /\ until' <= CtxLimit + 1
        /\ breaks' \in BOOLEAN
        /\ \/ breaks' /\ until' <= CtxLimit
           \/ /\ kind = "typhon" /\ ~breaks'
              /\ until' = now + 1 /\ until' <= 6
    BY <1>6, PollEffect DEF Poll, runVars
  <2> QED
    BY <1>0, <2>1 DEF Clock, Signals
<1>7. CASE Dialled
  <2>1. /\ pc = "dial" /\ pc' = "read" /\ UNCHANGED <<kind, now, began, sigint, sigAt>>
        /\ until' \in Nat /\ now <= until' /\ until' <= CtxLimit
        /\ breaks' \in BOOLEAN
        /\ breaks' \/ kind = "rtorrent"
    BY <1>7, DialledEffect DEF Dialled, runVars
  <2> QED
    BY <1>0, <2>1 DEF Clock, Signals
<1>8. CASE DialFails
  <2>1. /\ pc = "dial" /\ pc' = "pause"
        /\ UNCHANGED <<kind, now, began, until, breaks, sigint, sigAt>>
    BY <1>8 DEF DialFails, runVars, timeVars, signalVars
  <2> QED
    BY <1>0, <2>1 DEF Clock, Signals
<1>9. CASE Answered
  BY <1>9, ClockStands DEF Answered, ClockOff
<1>10. CASE ReadFails
  <2>1. pc = "read"
    BY <1>10 DEF ReadFails
  <2>2. CASE FailStart
    BY <2>2, ClockStands DEF FailStart, ClockOff
  <2>3. CASE pc' = "pause" /\ UNCHANGED <<timeVars, signalVars, unclean>>
    BY <1>0, <1>10, <2>1, <2>3 DEF ReadFails, Clock, Signals, runVars, timeVars, signalVars
  <2> QED
    BY <1>10, <2>2, <2>3 DEF ReadFails
<1>11. CASE Pause
  <2>1. /\ pc = "pause" /\ pc' = "loop" /\ ~sigint /\ now < CtxLimit /\ now' \in {now, now + 1}
        /\ UNCHANGED <<kind, began, until, breaks, sigint, sigAt>>
    BY <1>0, <1>11 DEF Pause, CtxDone, runVars, signalVars
  <2> QED
    BY <1>0, <2>1 DEF Clock, Signals
<1>12. CASE NotReady
  BY <1>12, ClockStands DEF NotReady, FailStart, ClockOff
<1>13. CASE TimePasses
  <2>1. /\ pc \in InWait /\ pc' = pc /\ now < until /\ ~(breaks /\ sigint) /\ now' = now + 1
        /\ UNCHANGED <<kind, began, until, breaks, sigint, sigAt>>
    BY <1>0, <1>13 DEF TimePasses, WaitOver, runVars, signalVars
  <2>2. InTime(until)
    BY <2>1 DEF Clock
  <2>3. now' \in Nat /\ now' <= until
    BY <1>0, <2>1
  <2>5. Clock'
    BY <1>0, <2>1, <2>2, <2>3 DEF Clock
  <2>6. Signals'
    BY <1>0, <2>1 DEF Signals
  <2> QED
    BY <2>5, <2>6
<1> QED
  BY <1>1, <1>2, <1>3, <1>4, <1>5, <1>6, <1>7, <1>8, <1>9, <1>10, <1>11, <1>12, <1>13
     DEF Begin, Polling

LEMMA OtherClock ==
  ASSUME TypeOK, Clock, Signals, Owners,
         \/ AddStep \/ End \/ Interrupt \/ Renew \/ UNCHANGED vars
         \/ \E r \in 1 .. Runs : Bind(r) \/ BindFails(r) \/ EngineExit(r)
  PROVE  Clock' /\ Signals'
<1>1. CASE AddStep \/ Stop \/ StopFails \/ NextRun
  <2>1. pc \notin Starting /\ pc' \notin Starting /\ now' = now /\ sigAt' = sigAt
    BY <1>1 DEF AddStep, Add, Send, Execute, Conflict, Retry, Reply, CallFails, Stop, StopFails,
       NextRun, Starting, Calling, timeVars, signalVars
  <2> QED
    BY <2>1, ClockStands DEF Clock
<1>2. CASE Interrupt
  <2>1. /\ pc' = pc /\ sigint' = TRUE /\ sigAt' = now
        /\ UNCHANGED <<kind, now, began, until, breaks>>
    BY <1>2 DEF Interrupt, runVars, timeVars
  <2> QED
    BY <2>1 DEF Clock, Signals, InTime
<1>3. CASE Renew \/ UNCHANGED vars \/ \E r \in 1 .. Runs : Bind(r) \/ BindFails(r) \/ EngineExit(r)
  <2>1. UNCHANGED <<kind, pc, now, began, until, breaks, sigint, sigAt>>
    BY <1>3 DEF Renew, Bind, BindFails, EngineExit, vars, runVars, timeVars, signalVars
  <2> QED
    BY <2>1 DEF Clock, Signals, InTime
<1> QED
  BY <1>1, <1>2, <1>3 DEF End, Over

-----------------------------------------------------------------------------
(* The engines and their owners                                            *)

\* Whoever listens was started by this run, or by one that said it failed.
LEMMA ListenerKnown ==
  ASSUME TypeOK, Owners, port # 0
  PROVE  port \in 1 .. Runs /\ (port = run \/ port \in unclean)
<1>1. port \in 1 .. Runs /\ engine[port] = "up" /\ run \in 1 .. Runs
  BY NumbersFact DEF TypeOK
<1>2. port < run \/ port = run \/ port > run
  BY <1>1, NumbersFact
<1> QED
  BY <1>1, <1>2 DEF Owners

Talking == {"read", "ready"} \cup Calling

\* What a step may do to the engines, and to the connection of the driver.
LEMMA OwnersStand ==
  ASSUME TypeOK, Owners, run' = run, unclean \subseteq unclean',
         \A q \in 1 .. Runs :
            /\ q # run /\ engine'[q] \in {"boot", "up"} => engine[q] \in {"boot", "up"}
            /\ q > run /\ engine[q] = "none" => engine'[q] = "none",
         pc' = "over" /\ engine'[run] \in {"boot", "up"} =>
            run \in unclean' \/ (pc = "over" /\ engine[run] \in {"boot", "up"}),
         pc' \in {"idle", "spawn"} => engine'[run] = "none",
         pc' \in Talking => (pc \in Talking /\ peer' = peer) \/ (port # 0 /\ peer' = port)
  PROVE  Owners'
<1>1. run \in 1 .. Runs
  BY DEF TypeOK
<1>2. ASSUME NEW q \in 1 .. Runs
      PROVE  /\ q > run' => engine'[q] = "none"
             /\ q < run' /\ engine'[q] \in {"boot", "up"} => q \in unclean'
  <2>1. /\ q > run => engine[q] = "none"
        /\ q < run /\ engine[q] \in {"boot", "up"} => q \in unclean
    BY DEF Owners
  <2>2. q < run => q # run
    BY <1>1, NumbersFact
  <2> QED
    BY <2>1, <2>2
<1>3. pc' = "over" /\ engine'[run'] \in {"boot", "up"} => run' \in unclean'
  BY DEF Owners
<1>4. pc' \in Talking => peer' \in 1 .. Runs /\ (peer' = run' \/ peer' \in unclean')
  <2>1. CASE pc \in Talking /\ peer' = peer
    BY <2>1 DEF Owners, Talking
  <2>2. CASE port # 0 /\ peer' = port
    BY <2>2, ListenerKnown
  <2> QED
    BY <2>1, <2>2
<1> QED
  BY <1>2, <1>3, <1>4 DEF Owners, Talking, Calling

LEMMA OwnersStep ==
  ASSUME TypeOK, Owners, [Next]_vars
  PROVE  Owners'
<1> USE DEF runVars, timeVars, signalVars, worldVars, sidVars, callVars, Calling, Talking
<1>0. /\ run \in 1 .. Runs /\ engine \in [1 .. Runs -> {"none", "boot", "up", "gone"}]
      /\ Runs \in Nat
  BY NumbersFact DEF TypeOK
<1>a. \A q \in 1 .. Runs : q > run => q # run
  BY <1>0
<1>1. CASE StartRefused \/ DockerRun
  BY <1>1, OwnersStand DEF StartRefused, DockerRun, Await, FailStart, Owners
<1>2. CASE StartProcess \/ DockerRuns
  <2>1. /\ run' = run /\ unclean' = unclean /\ pc' = "loop"
        /\ engine' = [engine EXCEPT ![run] = "boot"]
    BY <1>2 DEF StartProcess, DockerRuns
  <2>2. \A q \in 1 .. Runs : q # run => engine'[q] = engine[q]
    BY <1>0, <2>1
  <2> QED
    BY <1>a, <2>1, <2>2, OwnersStand
<1>3. CASE DockerFails
  <2>1. /\ run' = run /\ unclean' = unclean \cup {run} /\ pc' = "over"
        /\ engine' = engine \/ engine' = [engine EXCEPT ![run] = "boot"]
    BY <1>3 DEF DockerFails, FailStart
  <2>2. \A q \in 1 .. Runs : q # run => engine'[q] = engine[q]
    BY <1>0, <2>1
  <2> QED
    BY <1>a, <2>1, <2>2, OwnersStand
<1>4. CASE Poll \/ Dialled \/ DialFails \/ Answered \/ Pause
  BY <1>4, OwnersStand DEF Poll, Dialled, DialFails, Answered, Pause, Await, Owners
<1>5. CASE ReadFails
  BY <1>5, OwnersStand DEF ReadFails, FailStart
<1>6. CASE NotReady
  <2>1. run' = run /\ unclean' = unclean \cup {run} /\ pc' = "over"
    BY <1>6 DEF NotReady, FailStart
  <2>2. \A q \in 1 .. Runs : q # run => engine'[q] = engine[q]
    BY <1>0, <1>6, GoneEffect DEF NotReady
  <2> QED
    BY <1>a, <2>1, <2>2, OwnersStand
<1>7. CASE TimePasses \/ Interrupt \/ Renew \/ UNCHANGED vars
  BY <1>7, OwnersStand DEF TimePasses, Interrupt, Renew, vars, Owners
<1>8. CASE AddStep
  BY <1>8, OwnersStand
     DEF AddStep, Add, Send, Execute, Conflict, Retry, Reply, CallFails
<1>9. CASE Stop \/ StopFails
  <2>1. /\ run' = run /\ pc' = "over" /\ unclean \subseteq unclean'
        /\ (Stop /\ Gone(run)) \/ (StopFails /\ run \in unclean')
        /\ Gone(run) \/ UNCHANGED engine
    BY <1>9 DEF Stop, StopFails
  <2>2. /\ Gone(run) => engine'[run] = "gone"
        /\ \A q \in 1 .. Runs : q # run => engine'[q] = engine[q]
    BY <1>0, <2>1, GoneEffect
  <2> QED
    BY <1>a, <2>1, <2>2, OwnersStand
<1>10. CASE NextRun
  <2>1. /\ pc = "over" /\ run' = run + 1 /\ run < Runs /\ pc' = "idle"
        /\ UNCHANGED <<engine, unclean>>
    BY <1>10 DEF NextRun
  <2>2. ASSUME NEW q \in 1 .. Runs
        PROVE  /\ q > run' => engine[q] = "none"
               /\ q < run' /\ engine[q] \in {"boot", "up"} => q \in unclean
    <3>1. (q > run' => q > run) /\ (q < run' => q < run \/ q = run)
      BY <1>0, <2>1
    <3> QED
      BY <2>1, <3>1 DEF Owners
  <2>3. engine[run'] = "none"
    <3>1. run' \in 1 .. Runs /\ run' > run
      BY <1>0, <2>1
    <3> QED
      BY <3>1 DEF Owners
  <2> QED
    BY <2>1, <2>2, <2>3 DEF Owners
<1>11. ASSUME NEW r \in 1 .. Runs, Bind(r) \/ BindFails(r)
       PROVE  Owners'
  <2>1. /\ UNCHANGED <<run, pc, peer, unclean>> /\ engine[r] = "boot"
        /\ \E e \in {"gone", "up"} : engine' = [engine EXCEPT ![r] = e]
    BY <1>11 DEF Bind, BindFails
  <2>2. \A q \in 1 .. Runs : q # r => engine'[q] = engine[q]
    BY <1>0, <2>1
  <2>3. ~(pc \in {"idle", "spawn"} /\ run = r)
    BY <2>1 DEF Owners
  <2> QED
    BY <1>0, <2>1, <2>2, <2>3, OwnersStand DEF Owners
<1>12. ASSUME NEW r \in 1 .. Runs, EngineExit(r)
       PROVE  Owners'
  <2>1. /\ UNCHANGED <<run, pc, peer, unclean>> /\ engine[r] \in {"boot", "up"} /\ Gone(r)
    BY <1>12 DEF EngineExit
  <2>2. engine'[r] = "gone" /\ \A q \in 1 .. Runs : q # r => engine'[q] = engine[q]
    BY <2>1, GoneEffect
  <2>3. ~(pc \in {"idle", "spawn"} /\ run = r)
    BY <2>1 DEF Owners
  <2> QED
    BY <1>0, <2>1, <2>2, <2>3, OwnersStand DEF Owners
<1> QED
  BY <1>1, <1>2, <1>3, <1>4, <1>5, <1>6, <1>7, <1>8, <1>9, <1>10, <1>11, <1>12
     DEF Next, Begin, Polling, End, Over

-----------------------------------------------------------------------------
(* The call                                                                *)

LEMMA CallStep ==
  ASSUME TypeOK, Executed, AddedOnce, [Next]_vars
  PROVE  Executed' /\ AddedOnce'
<1> USE DEF runVars, timeVars, signalVars, worldVars, sidVars, callVars
<1>0. tries \in 0 .. 2 /\ done \in Nat /\ refusal \in BOOLEAN
  BY DEF TypeOK
<1>1. CASE pc \notin Calling /\ pc' \notin Calling /\ UNCHANGED <<done, last, kind>>
  BY <1>1 DEF Executed, AddedOnce, Calling
<1>2. CASE UNCHANGED <<pc, tries, done, refusal, last, kind>>
  BY <1>2 DEF Executed, AddedOnce
<1>3. CASE Add
  BY <1>3 DEF Add, Executed, AddedOnce
<1>4. CASE Send
  BY <1>0, <1>4 DEF Send, Executed, AddedOnce
<1>5. CASE Execute
  <2>1. /\ pc = "sent" /\ pc' = "served" /\ UNCHANGED <<kind, last, tries>>
        /\ (done' = done + 1 /\ refusal' = refusal) \/ (refusal' /\ done' = done)
    BY <1>5 DEF Execute
  <2>2. done = 0 /\ ~refusal /\ last = "none"
    BY <2>1 DEF Executed
  <2>3. (done' = 1 /\ ~refusal') \/ (done' = 0 /\ refusal')
    BY <2>1, <2>2
  <2> QED
    BY <2>1, <2>2, <2>3 DEF Executed, AddedOnce
<1>6. CASE Conflict
  BY <1>6 DEF Conflict, Executed, AddedOnce
<1>7. CASE Retry
  BY <1>0, <1>7 DEF Retry, Executed, AddedOnce
<1>8. CASE Reply
  BY <1>8 DEF Reply, Executed, AddedOnce
<1>9. CASE CallFails
  BY <1>9 DEF CallFails, Executed, AddedOnce
<1>10. CASE NextRun
  BY <1>10 DEF NextRun, Executed, AddedOnce
<1>11. CASE Begin \/ Polling
  BY <1>1, <1>11 DEF Begin, StartRefused, StartProcess, DockerRun, DockerRuns, DockerFails,
     Polling, Poll, Dialled, DialFails, Answered, ReadFails, Pause, NotReady, Await,
     FailStart, Calling
<1>12. CASE Stop \/ StopFails
  BY <1>1, <1>12 DEF Stop, StopFails, Calling
<1>13. CASE \/ TimePasses \/ Interrupt \/ Renew \/ UNCHANGED vars
            \/ \E r \in 1 .. Runs : Bind(r) \/ BindFails(r) \/ EngineExit(r)
  BY <1>2, <1>13 DEF TimePasses, Interrupt, Renew, Bind, BindFails, EngineExit, vars
<1> QED
  BY <1>3, <1>4, <1>5, <1>6, <1>7, <1>8, <1>9, <1>10, <1>11, <1>12, <1>13
     DEF Next, AddStep, End, Over

-----------------------------------------------------------------------------
(* The session ids                                                         *)

\* A new id during the call is one more that was made up for nothing.
LEMMA NewIdChases ==
  ASSUME TypeOK, kind = "transmission", pc \in Calling, NewId, UNCHANGED wasFresh
  PROVE  fresh' = FALSE /\ OldIds' = OldIds + 1
BY DEF TypeOK, NewId, OldIds

LEMMA NewIdElsewhere ==
  ASSUME TypeOK, NewId, UNCHANGED wasFresh, kind # "transmission" \/ pc \notin Calling
  PROVE  OldIds' = OldIds
BY DEF TypeOK, NewId, OldIds

\* The ids cannot go wrong where no request is on its way.
LEMMA SidsElsewhere ==
  ASSUME pc' \notin {"send", "sent", "conflict"}
  PROVE  Sids'
BY DEF Sids

LEMMA CallSids ==
  ASSUME TypeOK, Owners, Executed, Sids, GivesUpOnlyWhenChased, AddStep
  PROVE  Sids' /\ GivesUpOnlyWhenChased'
<1> USE DEF runVars, timeVars, signalVars, worldVars, sidVars, callVars, OldIds
<1>0. /\ tries \in 0 .. 2 /\ renewals \in Nat /\ fresh \in BOOLEAN /\ wasFresh \in BOOLEAN
      /\ port \in 0 .. Runs /\ (port # 0 => engine[port] = "up")
  BY NumbersFact DEF TypeOK
<1>1. CASE Add
  <2>1. /\ pc' = "send" /\ tries' = 0 /\ renewals' = 0 /\ wasFresh' = fresh /\ last' = "none"
        /\ UNCHANGED <<kind, fresh>>
    BY <1>1 DEF Add
  <2>2. Chased(tries)'
    BY <1>0, <2>1 DEF Chased
  <2> QED
    BY <2>1, <2>2 DEF Sids, GivesUpOnlyWhenChased
<1>2. CASE Send
  <2>1. /\ pc = "send" /\ pc' = "sent" /\ tries' = tries + 1
        /\ kind # "typhon" => port # 0 /\ peer' = port
        /\ UNCHANGED <<kind, fresh, wasFresh, renewals, last, engine, port>>
    BY <1>2 DEF Send
  <2>2. ASSUME kind = "transmission"
        PROVE  Chased(tries - 1)'
    <3>1. Chased(tries)
      BY <2>1, <2>2 DEF Sids
    <3>2. tries' - 1 = tries
      BY <1>0, <2>1
    <3> QED
      BY <1>0, <2>1, <3>1, <3>2 DEF Chased
  <2> QED
    BY <1>0, <2>1, <2>2 DEF Sids, GivesUpOnlyWhenChased
<1>3. CASE Execute
  BY <1>3, SidsElsewhere DEF Execute, GivesUpOnlyWhenChased
<1>4. CASE Conflict
  <2>1. /\ pc = "sent" /\ engine[peer] = "up" /\ ~SidAccepted
        /\ pc' = "conflict" /\ fresh' = (port = peer)
        /\ UNCHANGED <<kind, tries, renewals, wasFresh, last>>
    BY <1>4 DEF Conflict
  <2>2. kind = "transmission" /\ port = peer /\ ~fresh
    BY <2>1 DEF SidAccepted, Sids
  <2>3. OldIds >= (tries - 1) + 1
    BY <2>1, <2>2 DEF Sids, Chased
  <2>4. fresh'
    BY <2>1, <2>2, Zenon
  <2>5. OldIds' >= tries'
    BY <1>0, <2>1, <2>3
  <2>6. Chased(tries)'
    BY <2>4, <2>5 DEF Chased
  <2> QED
    BY <2>1, <2>2, <2>6 DEF Sids, GivesUpOnlyWhenChased
<1>5. CASE Retry
  <2>1. /\ pc = "conflict" /\ UNCHANGED <<kind, fresh, tries, renewals, wasFresh>>
        /\ \/ pc' = "send" /\ last' = last
           \/ tries = 2 /\ pc' = "down" /\ last' = "gaveup"
    BY <1>0, <1>5 DEF Retry
  <2>2. kind = "transmission" /\ Chased(tries)
    BY <2>1 DEF Sids
  <2>3. Sids'
    BY <2>1, <2>2 DEF Sids, Chased
  <2>4. GivesUpOnlyWhenChased'
    BY <2>1, <2>2 DEF GivesUpOnlyWhenChased, Chased
  <2> QED
    BY <2>3, <2>4
<1>6. CASE Reply \/ CallFails
  BY <1>6, SidsElsewhere DEF Reply, CallFails, GivesUpOnlyWhenChased
<1> QED
  BY <1>1, <1>2, <1>3, <1>4, <1>5, <1>6 DEF AddStep

\* The engines may come, go and make up ids while a request is on its way.
LEMMA WorldSids ==
  ASSUME TypeOK, Owners, Executed, Sids, GivesUpOnlyWhenChased,
         Renew \/ \E r \in 1 .. Runs : Bind(r) \/ BindFails(r) \/ EngineExit(r)
  PROVE  Sids' /\ GivesUpOnlyWhenChased'
<1> USE DEF runVars, timeVars, signalVars, worldVars, sidVars, callVars
<1>0. /\ tries \in 0 .. 2 /\ renewals \in Nat /\ fresh \in BOOLEAN /\ wasFresh \in BOOLEAN
      /\ port \in 0 .. Runs /\ engine \in [1 .. Runs -> {"none", "boot", "up", "gone"}]
      /\ pc = "sent" => peer \in 1 .. Runs
      /\ OldIds \in Nat /\ Runs \in Nat
  BY NumbersFact DEF TypeOK, Owners, Calling, OldIds
<1>1. UNCHANGED <<kind, pc, peer, tries, wasFresh, last>>
  BY DEF Renew, Bind, BindFails, EngineExit
<1>2. NewId \/ UNCHANGED <<fresh, renewals>>
  BY DEF Renew, Bind, BindFails, EngineExit
\* The ids themselves.
<1>3. /\ OldIds' \in Nat /\ OldIds' >= OldIds
      /\ \A n \in {tries, tries - 1} :
            kind = "transmission" /\ pc \in Calling /\ Chased(n) => Chased(n)'
  <2>1. CASE NewId /\ kind = "transmission" /\ pc \in Calling
    <3>1. fresh' = FALSE /\ OldIds' = OldIds + 1
      BY <1>1, <2>1, NewIdChases
    <3> QED
      BY <1>0, <3>1 DEF Chased
  <2>2. CASE NewId /\ (kind # "transmission" \/ pc \notin Calling)
    <3>1. OldIds' = OldIds
      BY <1>1, <2>2, NewIdElsewhere
    <3> QED
      BY <1>0, <2>2, <3>1
  <2>3. CASE UNCHANGED <<fresh, renewals>>
    <3>1. OldIds' = OldIds /\ fresh' = fresh
      BY <1>1, <2>3 DEF OldIds
    <3> QED
      BY <1>0, <3>1 DEF Chased
  <2> QED
    BY <1>2, <2>1, <2>2, <2>3
\* The engine that has the request.
<1>4. ASSUME kind = "transmission", pc = "sent"
      PROVE  engine'[peer] # "boot" /\ (engine'[peer] = "up" => port' = peer)
  <2>1. peer \in 1 .. Runs /\ engine[peer] # "boot" /\ (engine[peer] = "up" => port = peer)
    BY <1>0, <1>4 DEF Sids
  <2>2. CASE Renew
    BY <2>1, <2>2 DEF Renew
  <2>3. ASSUME NEW r \in 1 .. Runs, Bind(r)
        PROVE  engine'[peer] # "boot" /\ (engine'[peer] = "up" => port' = peer)
    <3>1. engine[r] = "boot" /\ port = 0 /\ engine' = [engine EXCEPT ![r] = "up"]
      BY <1>4, <2>3 DEF Bind
    <3>2. peer # r /\ engine'[peer] = engine[peer] /\ engine[peer] # "up"
      BY <1>0, <2>1, <3>1
    <3> QED
      BY <2>1, <3>2
  <2>4. ASSUME NEW r \in 1 .. Runs, BindFails(r)
        PROVE  engine'[peer] # "boot" /\ (engine'[peer] = "up" => port' = peer)
    <3>1. /\ engine[r] = "boot" /\ port' = port
          /\ \E e \in {"gone", "up"} : engine' = [engine EXCEPT ![r] = e]
      BY <2>4 DEF BindFails
    <3>2. peer # r /\ engine'[peer] = engine[peer]
      BY <1>0, <2>1, <3>1
    <3> QED
      BY <2>1, <3>1, <3>2
  <2>5. ASSUME NEW r \in 1 .. Runs, EngineExit(r)
        PROVE  engine'[peer] # "boot" /\ (engine'[peer] = "up" => port' = peer)
    <3>1. /\ engine' = [engine EXCEPT ![r] = "gone"]
          /\ port' = IF port = r THEN 0 ELSE port
      BY <2>5 DEF EngineExit, Gone
    <3>2. CASE peer = r
      BY <1>0, <3>1, <3>2
    <3>3. CASE peer # r
      BY <1>0, <2>1, <3>1, <3>3
    <3> QED
      BY <3>2, <3>3
  <2> QED
    BY <2>2, <2>3, <2>4, <2>5
<1>5. Sids'
  BY <1>1, <1>3, <1>4 DEF Sids, Calling
<1>6. GivesUpOnlyWhenChased'
  <2>1. last' = "gaveup" => OldIds >= 2
    BY <1>1 DEF GivesUpOnlyWhenChased, OldIds
  <2>2. last' = "gaveup" => OldIds' >= 2
    BY <1>0, <1>3, <2>1
  <2> QED
    BY <2>2 DEF GivesUpOnlyWhenChased, OldIds
<1> QED
  BY <1>5, <1>6

LEMMA SidsStep ==
  ASSUME TypeOK, Owners, Executed, Sids, GivesUpOnlyWhenChased, [Next]_vars
  PROVE  Sids' /\ GivesUpOnlyWhenChased'
<1> USE DEF runVars, timeVars, signalVars, worldVars, sidVars, callVars
<1>1. CASE AddStep
  BY <1>1, CallSids
<1>2. CASE Renew \/ \E r \in 1 .. Runs : Bind(r) \/ BindFails(r) \/ EngineExit(r)
  BY <1>2, WorldSids
<1>3. CASE Begin \/ Polling \/ Stop \/ StopFails
  <2>1. /\ pc' \notin {"send", "sent", "conflict"}
        /\ UNCHANGED <<last, renewals, wasFresh>>
    BY <1>3 DEF Begin, StartRefused, StartProcess, DockerRun, DockerRuns, DockerFails,
       Polling, Poll, Dialled, DialFails, Answered, ReadFails, Pause, NotReady, Await,
       FailStart, Stop, StopFails
  <2> QED
    BY <2>1, SidsElsewhere DEF GivesUpOnlyWhenChased
<1>4. CASE NextRun
  BY <1>4, SidsElsewhere DEF NextRun, GivesUpOnlyWhenChased
<1>5. CASE TimePasses \/ Interrupt \/ UNCHANGED vars
  <2>1. UNCHANGED <<kind, pc, peer, engine, port, fresh, tries, renewals, wasFresh, last>>
    BY <1>5 DEF TimePasses, Interrupt, vars
  <2> QED
    BY <2>1 DEF Sids, GivesUpOnlyWhenChased, Chased, OldIds
<1> QED
  BY <1>1, <1>2, <1>3, <1>4, <1>5 DEF Next, End, Over

-----------------------------------------------------------------------------
(* The theorems                                                            *)

LEMMA InitIInv == Init => IInv
<1> SUFFICES ASSUME Init
             PROVE  IInv
  OBVIOUS
<1>1. TypeOK
  <2>1. /\ 0 \in 0 .. CtxLimit /\ 0 \in 0 .. CtxLimit + 2 /\ 0 \in 0 .. Runs /\ 1 \in 1 .. Runs
        /\ 0 \in 0 .. 2 /\ 0 \in 0 .. MaxRenewals /\ 0 \in 0 .. MaxAdds /\ 0 \in Nat
    BY NumbersFact
  <2>2. engine \in [1 .. Runs -> {"none", "boot", "up", "gone"}]
    BY DEF Init
  <2> QED
    BY <2>1, <2>2 DEF Init, TypeOK, Starting, Calling, InWait
<1>2. Clock /\ Signals /\ Executed /\ AddedOnce /\ Sids /\ GivesUpOnlyWhenChased
  BY DEF Init, Clock, Signals, Executed, AddedOnce, Sids, GivesUpOnlyWhenChased, Starting,
     InWait
<1>3. Owners
  <2>1. run = 1 /\ 1 \in 1 .. Runs
    BY NumbersFact DEF Init
  <2> QED
    BY <2>1 DEF Init, Owners, Calling
<1> QED
  BY <1>1, <1>2, <1>3 DEF IInv

LEMMA Invariant == Spec => []IInv
<1>1. IInv /\ [Next]_vars => IInv'
  <2> SUFFICES ASSUME IInv, [Next]_vars
               PROVE  IInv'
    OBVIOUS
  <2>0. /\ TypeOK /\ Clock /\ Signals /\ Owners
        /\ Executed /\ AddedOnce /\ Sids /\ GivesUpOnlyWhenChased
    BY DEF IInv
  <2>1. \/ Begin \/ Polling \/ TimePasses
        \/ \/ AddStep \/ End \/ Interrupt \/ Renew \/ UNCHANGED vars
           \/ \E r \in 1 .. Runs : Bind(r) \/ BindFails(r) \/ EngineExit(r)
    BY DEF Next
  <2>2. TypeOK'
    BY <2>0, <2>1, StartTypes, OtherTypes
  <2>3. Clock' /\ Signals'
    BY <2>0, <2>1, StartClock, OtherClock
  <2>4. Owners'
    BY <2>0, OwnersStep
  <2>5. Executed' /\ AddedOnce'
    BY <2>0, CallStep
  <2>6. Sids' /\ GivesUpOnlyWhenChased'
    BY <2>0, SidsStep
  <2> QED
    BY <2>2, <2>3, <2>4, <2>5, <2>6 DEF IInv
<1> QED
  BY <1>1, InitIInv, PTL DEF Spec

\* The variables keep their types, no wait outlasts its limit, and who listens
\* at the address is up (one run after another, engine/*.go).
THEOREM TypeCorrect == Spec => []TypeOK
<1>1. IInv => TypeOK
  BY DEF IInv
<1> QED
  BY <1>1, Invariant, PTL

\* A driver of any kind, in any run, talks to the engine it has started, or to
\* that of a run whose Start or Stop had returned an error (Start and Stop of
\* engine/*.go).
THEOREM StrangerExplainedAlways == Spec => []StrangerExplained
<1>1. IInv => StrangerExplained
  BY DEF IInv, Owners, StrangerExplained
<1> QED
  BY <1>1, Invariant, PTL

\* The retry of transmission's rpc executes nothing twice, and what AddTorrent
\* reports as added was added, libtorrent's apart (engine/*.go, AddTorrent).
THEOREM AddedOnceAlways == Spec => []AddedOnce
<1>1. IInv => AddedOnce
  BY DEF IInv
<1> QED
  BY <1>1, Invariant, PTL

\* rpc gives up on session ids only if transmission-daemon made up two after the
\* one the driver had (transmission.go, rpc).
THEOREM GivesUpOnlyWhenChasedAlways == Spec => []GivesUpOnlyWhenChased
<1>1. IInv => GivesUpOnlyWhenChased
  BY DEF IInv
<1> QED
  BY <1>1, Invariant, PTL

\* Start returns by the deadline and almost at once after SIGINT (rtorrent's
\* apart), if the deadline is not before typhon's own limit of 30 s, whose dial
\* takes no context: it is 60 s (runner.go, startCtx).
THEOREM StartInTimeAlways ==
  ASSUME CtxLimit >= 6
  PROVE  Spec => StartInTime
<1> DEFINE Step ==
      pc' \in Starting =>
         /\ now' <= CtxLimit
         /\ sigint /\ now' > now =>
               now = sigAt \/ (kind = "rtorrent" /\ pc = "read")
<1>1. ASSUME IInv, IInv', Next
      PROVE  Step
  <2> SUFFICES ASSUME pc' \in Starting
               PROVE  /\ now' <= CtxLimit
                      /\ sigint /\ now' > now =>
                            now = sigAt \/ (kind = "rtorrent" /\ pc = "read")
    OBVIOUS
  <2>0. /\ now \in Nat /\ until \in Nat /\ CtxLimit \in Nat
        /\ breaks \in BOOLEAN /\ sigint \in BOOLEAN
    BY <1>1, ClockFact DEF IInv
  <2>1. now' <= CtxLimit
    <3>1. now' \in Nat /\ (now' <= CtxLimit \/ (now' <= 6))
      <4>1. now' \in Nat
        BY <1>1, NumbersFact DEF IInv, TypeOK
      <4> QED
        BY <1>1, <4>1 DEF IInv, Clock, InTime
    <3> QED
      BY <2>0, <3>1
  <2>2. CASE TimePasses
    <3>1. pc \in InWait /\ now < until /\ ~(breaks /\ sigint)
      BY <2>0, <2>2 DEF TimePasses, WaitOver
    <3>2. Signals
      BY <1>1 DEF IInv
    <3>3. sigint => now = sigAt \/ (kind = "rtorrent" /\ pc = "read")
      BY <2>0, <3>1, <3>2 DEF Signals, InWait
    <3> QED
      BY <2>1, <3>3
  <2>3. CASE Pause
    <3>1. ~sigint
      BY <2>3 DEF Pause, CtxDone
    <3> QED
      BY <2>1, <3>1
  <2>4. CASE ~TimePasses /\ ~Pause
    <3>1. now' = now \/ now' = 0
      BY <1>1, <2>4 DEF Next, Begin, StartRefused, StartProcess, DockerRun, DockerRuns,
         DockerFails, Polling, Poll, Dialled, DialFails, Answered, ReadFails, NotReady,
         FailStart, ClockOff, AddStep, Add, Send, Execute, Conflict, Retry, Reply,
         CallFails, End, Stop, StopFails, NextRun, Over, Interrupt, Renew, Bind, BindFails,
         EngineExit, vars, timeVars
    <3>2. ~(now' > now)
      BY <2>0, <3>1
    <3> QED
      BY <2>1, <3>2
  <2> QED
    BY <2>2, <2>3, <2>4
<1>2. IInv /\ IInv' /\ [Next]_vars => [Step]_vars
  BY <1>1
<1> QED
  BY <1>2, Invariant, PTL DEF Spec, StartInTime
=============================================================================
