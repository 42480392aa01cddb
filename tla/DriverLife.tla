----------------------------- MODULE DriverLife -----------------------------
(***************************************************************************)
(* One driver of any kind through several runs of the harness on one host: *)
(* Start with its readiness poll, AddTorrent, Stop                         *)
(* (internal/engine/*.go), and the engines those runs leave behind.        *)
(*                                                                         *)
(* Every run has the same flags and the same --work-dir, so its engine     *)
(* wants the address (a TCP port, or the Unix socket of typhon) that those *)
(* before it had.  Whoever listens there answers.  A run ends by itself:   *)
(* a harness that is killed calls no Stop.  Time is counted in units of    *)
(* 5 s, and only during Start; what needs no waiting takes none.           *)
(***************************************************************************)
EXTENDS Integers, FiniteSets

CONSTANTS
    Kinds,      \* kinds of driver to look at
    Runs,       \* number of runs of the harness
    CtxLimit,   \* the context of Start (60 s)
    MaxAdds,    \* torrents a run adds
    MaxRenewals \* bound on the session ids an engine makes up during one call

KindNames == {"typhon", "rain", "rqbit", "libtorrent", "transmission", "rtorrent"}

ASSUME ConstantsAssumption ==
    /\ Kinds \subseteq KindNames
    /\ Runs \in Nat \ {0}
    /\ CtxLimit \in Nat \ {0}
    /\ MaxAdds \in Nat
    /\ MaxRenewals \in Nat

-----------------------------------------------------------------------------
(* How each driver waits for its engine.  A wait has its own limit, may    *)
(* end with the context's deadline (ctx), and may notice that the context  *)
(* was cancelled (breaks).                                                 *)

Waiting(lasts, ctx, breaks) == [lasts |-> lasts, ctx |-> ctx, breaks |-> breaks]
Same == Waiting(0, FALSE, FALSE)        \* the limit covers connect and answer

\* process: the engine is a child, not a container.  ready: no poll starts later
\* than this.  final: a poll that connects decides, and its failure is that of
\* Start.
Profile(process, ready, dial, read, final) ==
    [process |-> process, ready |-> ready, dial |-> dial, read |-> read, final |-> final]

\* DialTimeout takes no context; one ping with 5 s.
TyphonStart == Profile(TRUE, 6, Waiting(1, FALSE, FALSE), Waiting(1, TRUE, TRUE), TRUE)
RainStart == Profile(TRUE, 6, Waiting(2, TRUE, TRUE), Same, FALSE)
RqbitStart == Profile(FALSE, 6, Waiting(2, TRUE, TRUE), Same, FALSE)
QbitStart == Profile(FALSE, 12, Waiting(2, TRUE, TRUE), Same, FALSE)
TransmissionStart == Profile(FALSE, 12, Waiting(2, TRUE, TRUE), Same, FALSE)
\* The connection knows the deadline of the context, and nothing of its end.
RtorrentStart ==
    Profile(FALSE, 6, Waiting(1, TRUE, TRUE), Waiting(CtxLimit, TRUE, FALSE), FALSE)

ProfileOf ==
    [k \in KindNames |->
        CASE k = "typhon" -> TyphonStart
          [] k = "rain" -> RainStart
          [] k = "rqbit" -> RqbitStart
          [] k = "libtorrent" -> QbitStart
          [] k = "transmission" -> TransmissionStart
          [] k = "rtorrent" -> RtorrentStart]

\* AddTorrent looks at the status only, and libtorrent says "Fails." with 200.
Deaf == {"libtorrent"}

-----------------------------------------------------------------------------

VARIABLES
    kind,       \* the kind of the driver
    run,        \* the run of the harness
    pc,         \* where the driver is
    now,        \* time since Start was called
    began,      \* when waitReady (or connect) began
    until,      \* when the wait in progress gives up
    breaks,     \* whether it notices a cancelled context
    sigint,     \* the context is cancelled
    sigAt,      \* since when
    engine,     \* engine[r]: the process or container of run r
    port,       \* the run whose engine listens at the address, 0 if none
    peer,       \* the run whose engine the driver is connected to, 0 if none
    unclean,    \* runs whose Start or Stop returned an error
    fresh,      \* d.sid is the session id of the engine that listens
    tries,      \* requests rpc has sent for the call
    adds,       \* calls of AddTorrent
    done,       \* how often the call in progress was executed
    refusal,    \* the engine answers the call with a refusal
    renewals,   \* session ids made up since the call began
    wasFresh,   \* fresh, when it began
    last        \* how the last call ended

vars == <<kind, run, pc, now, began, until, breaks, sigint, sigAt, engine, port, peer,
          unclean, fresh, tries, adds, done, refusal, renewals, wasFresh, last>>
timeVars   == <<now, began, until, breaks>>
signalVars == <<sigint, sigAt>>
worldVars  == <<engine, port>>
sidVars    == <<fresh, tries, renewals, wasFresh>>
callVars   == <<adds, done, refusal, last>>
runVars    == <<kind, run>>

P == ProfileOf[kind]
Starting == {"spawn", "loop", "dial", "read", "pause"}
InWait == {"spawn", "dial", "read"}
Calling == {"send", "sent", "conflict", "served"}

TypeOK ==
    /\ kind \in Kinds /\ run \in 1 .. Runs
    /\ pc \in {"idle", "ready", "down", "over"} \cup Starting \cup Calling
    /\ now \in 0 .. CtxLimit + 2 /\ began \in 0 .. CtxLimit
    /\ until \in 0 .. CtxLimit + 2 /\ breaks \in BOOLEAN
    /\ pc \in InWait => now <= until
    /\ sigint \in BOOLEAN /\ sigAt \in 0 .. CtxLimit + 2
    /\ engine \in [1 .. Runs -> {"none", "boot", "up", "gone"}]
    /\ port \in 0 .. Runs /\ peer \in 0 .. Runs
    /\ port # 0 => engine[port] = "up"
    /\ unclean \subseteq 1 .. Runs
    /\ fresh \in BOOLEAN /\ wasFresh \in BOOLEAN
    /\ tries \in 0 .. 2 /\ renewals \in 0 .. MaxRenewals
    /\ adds \in 0 .. MaxAdds /\ done \in Nat /\ refusal \in BOOLEAN
    /\ last \in {"none", "ok", "error", "gaveup"}

Init ==
    /\ kind \in Kinds /\ run = 1 /\ pc = "idle"
    /\ now = 0 /\ began = 0 /\ until = 0 /\ breaks = FALSE
    /\ sigint = FALSE /\ sigAt = 0
    /\ engine = [r \in 1 .. Runs |-> "none"] /\ port = 0 /\ peer = 0
    /\ unclean = {}
    /\ fresh = FALSE /\ wasFresh = FALSE /\ tries = 0 /\ renewals = 0
    /\ adds = 0 /\ done = 0 /\ refusal = FALSE /\ last = "none"

-----------------------------------------------------------------------------
(* Start                                                                   *)

Gone(r) ==
    /\ engine' = [engine EXCEPT ![r] = "gone"]
    /\ port' = IF port = r THEN 0 ELSE port

CtxDone == sigint \/ now >= CtxLimit

Sooner(a, b) == IF a < b THEN a ELSE b

\* Enter a wait.
Await(where, w) ==
    /\ pc' = where
    /\ until' = IF w.ctx THEN Sooner(now + w.lasts, CtxLimit) ELSE now + w.lasts
    /\ breaks' = w.breaks

WaitOver == now >= until \/ (breaks /\ sigint)

\* The clock is that of Start, and stops with it.
ClockOff == now' = 0 /\ began' = 0 /\ until' = 0 /\ breaks' = FALSE /\ sigAt' = 0

FailStart ==
    /\ pc' = "over" /\ unclean' = unclean \cup {run}
    /\ ClockOff /\ UNCHANGED sigint

\* The binary, the directories or the config file: nothing has been spawned.
StartRefused ==
    /\ pc = "idle"
    /\ FailStart
    /\ UNCHANGED <<runVars, worldVars, peer, sidVars, callVars>>

StartProcess ==
    /\ pc = "idle" /\ P.process
    /\ pc' = "loop" /\ began' = now
    /\ engine' = [engine EXCEPT ![run] = "boot"]
    /\ UNCHANGED <<runVars, now, until, breaks, signalVars, port, peer, unclean, sidVars,
                   callVars>>

\* docker run -d, under the context of Start.
DockerRun ==
    /\ pc = "idle" /\ ~P.process
    /\ Await("spawn", Waiting(CtxLimit, TRUE, TRUE))
    /\ UNCHANGED <<runVars, now, began, signalVars, worldVars, peer, unclean, sidVars,
                   callVars>>

DockerRuns ==
    /\ pc = "spawn" /\ ~WaitOver
    /\ pc' = "loop" /\ began' = now
    /\ engine' = [engine EXCEPT ![run] = "boot"]
    /\ UNCHANGED <<runVars, now, until, breaks, signalVars, port, peer, unclean, sidVars,
                   callVars>>

\* docker fails, or is killed before or after the daemon has made the container.
DockerFails ==
    /\ pc = "spawn"
    /\ FailStart
    /\ \/ UNCHANGED engine
       \/ WaitOver /\ engine' = [engine EXCEPT ![run] = "boot"]
    /\ UNCHANGED <<runVars, port, peer, sidVars, callVars>>

\* Mutant: the polls are not bound to the context of Start.
PollUnbound ==
    /\ pc = "loop" /\ now < began + P.ready
    /\ Await("dial", [P.dial EXCEPT !.ctx = FALSE, !.breaks = FALSE])
    /\ UNCHANGED <<runVars, now, began, signalVars, worldVars, peer, unclean, sidVars,
                   callVars>>

Poll ==
    /\ pc = "loop" /\ now < began + P.ready
    /\ Await("dial", P.dial)
    /\ UNCHANGED <<runVars, now, began, signalVars, worldVars, peer, unclean, sidVars,
                   callVars>>

Dialled ==
    /\ pc = "dial" /\ port # 0 /\ ~WaitOver
    /\ peer' = port
    /\ IF P.read = Same THEN pc' = "read" /\ UNCHANGED <<until, breaks>>
                        ELSE Await("read", P.read)
    /\ UNCHANGED <<runVars, now, began, signalVars, worldVars, unclean, sidVars, callVars>>

DialFails ==
    /\ pc = "dial" /\ (port = 0 \/ WaitOver)
    /\ pc' = "pause"
    /\ UNCHANGED <<runVars, timeVars, signalVars, worldVars, peer, unclean, sidVars,
                   callVars>>

\* waitReady for transmission is refreshSessionID.
Answered ==
    /\ pc = "read" /\ ~WaitOver
    /\ engine[peer] = "up"
    /\ pc' = "ready" /\ ClockOff
    /\ fresh' = (port = peer)
    /\ UNCHANGED <<runVars, sigint, worldVars, peer, unclean, tries, renewals, wasFresh,
                   callVars>>

\* No answer, or one that the poll does not accept.
ReadFails ==
    /\ pc = "read"
    /\ IF P.final
          THEN FailStart
          ELSE pc' = "pause" /\ UNCHANGED <<timeVars, signalVars, unclean>>
    /\ UNCHANGED <<runVars, worldVars, peer, sidVars, callVars>>

\* 0.1 to 0.5 s, in which a unit may or may not end.
Pause ==
    /\ pc = "pause" /\ ~CtxDone
    /\ pc' = "loop" /\ now' \in {now, now + 1}
    /\ UNCHANGED <<runVars, began, until, breaks, signalVars, worldVars, peer, unclean,
                   sidVars, callVars>>

\* The end of the context, or of the driver's own limit.  Only typhon kills what
\* it has spawned.
NotReady ==
    /\ \/ pc = "pause" /\ CtxDone
       \/ pc = "loop" /\ now >= began + P.ready
    /\ FailStart
    /\ IF kind = "typhon" THEN Gone(run) ELSE UNCHANGED worldVars
    /\ UNCHANGED <<runVars, peer, sidVars, callVars>>

\* Whoever waits has not reached the end of the wait.
TimePasses ==
    /\ pc \in InWait /\ ~WaitOver
    /\ now' = now + 1
    /\ UNCHANGED <<runVars, pc, began, until, breaks, signalVars, worldVars, peer,
                   unclean, sidVars, callVars>>

-----------------------------------------------------------------------------
(* AddTorrent: one request, which transmission may have to send again      *)

Add ==
    /\ pc = "ready" /\ adds < MaxAdds
    /\ pc' = "send" /\ adds' = adds + 1
    /\ tries' = 0 /\ renewals' = 0 /\ wasFresh' = fresh
    /\ done' = 0 /\ refusal' = FALSE /\ last' = "none"
    /\ UNCHANGED <<runVars, timeVars, signalVars, worldVars, peer, unclean, fresh>>

\* typhon keeps the connection of Start, the others make one.
Send ==
    /\ pc = "send"
    /\ IF kind = "typhon" THEN UNCHANGED peer ELSE port # 0 /\ peer' = port
    /\ pc' = "sent" /\ tries' = tries + 1
    /\ UNCHANGED <<runVars, timeVars, signalVars, worldVars, unclean, fresh, renewals,
                   wasFresh, callVars>>

SidAccepted == kind # "transmission" \/ (fresh /\ port = peer)

\* The engine adds the torrent, or says why not.
Execute ==
    /\ pc = "sent" /\ engine[peer] = "up" /\ SidAccepted
    /\ pc' = "served"
    /\ \/ done' = done + 1 /\ UNCHANGED refusal
       \/ refusal' = TRUE /\ UNCHANGED done
    /\ UNCHANGED <<runVars, timeVars, signalVars, worldVars, peer, unclean, sidVars, adds,
                   last>>

\* 409, with the id to use.
Conflict ==
    /\ pc = "sent" /\ engine[peer] = "up" /\ ~SidAccepted
    /\ pc' = "conflict" /\ fresh' = (port = peer)
    /\ UNCHANGED <<runVars, timeVars, signalVars, worldVars, peer, unclean, tries,
                   renewals, wasFresh, callVars>>

\* Mutants: three requests; the id of the 409 is not kept.
RetryTwice ==
    /\ pc = "conflict"
    /\ IF tries < 3 THEN pc' = "send" /\ UNCHANGED last
                    ELSE pc' = "down" /\ last' = "gaveup"
    /\ UNCHANGED <<runVars, timeVars, signalVars, worldVars, peer, unclean, sidVars, adds,
                   done, refusal>>

RetryOldId ==
    /\ pc = "conflict" /\ fresh' = FALSE
    /\ IF tries < 2 THEN pc' = "send" /\ UNCHANGED last
                    ELSE pc' = "down" /\ last' = "gaveup"
    /\ UNCHANGED <<runVars, timeVars, signalVars, worldVars, peer, unclean, tries,
                   renewals, wasFresh, adds, done, refusal>>

\* rpc keeps the id and sends the request again, once.
Retry ==
    /\ pc = "conflict"
    /\ IF tries < 2 THEN pc' = "send" /\ UNCHANGED last
                    ELSE pc' = "down" /\ last' = "gaveup"
    /\ UNCHANGED <<runVars, timeVars, signalVars, worldVars, peer, unclean, sidVars, adds,
                   done, refusal>>

Reply ==
    /\ pc = "served"
    /\ \/ /\ refusal => kind \in Deaf
          /\ pc' = "ready" /\ last' = "ok"
       \/ /\ refusal
          /\ pc' = "down" /\ last' = "error"
    /\ UNCHANGED <<runVars, timeVars, signalVars, worldVars, peer, unclean, sidVars, adds,
                   done, refusal>>

\* Mutant: a request that got no answer is sent again.
SendAgain ==
    /\ pc \in Calling
    /\ IF pc \in {"sent", "served"} /\ tries < 2
          THEN pc' = "send" /\ UNCHANGED last
          ELSE pc' = "down" /\ last' = "error"
    /\ UNCHANGED <<runVars, timeVars, signalVars, worldVars, peer, unclean, sidVars, adds,
                   done, refusal>>

\* No connection, no answer in time, SIGINT, or nothing to send.  An id that came
\* with a 409 is lost with it.
CallFails ==
    /\ pc \in Calling
    /\ pc' = "down" /\ last' = "error"
    /\ fresh' = (fresh /\ pc # "conflict")
    /\ UNCHANGED <<runVars, timeVars, signalVars, worldVars, peer, unclean, tries,
                   renewals, wasFresh, adds, done, refusal>>

-----------------------------------------------------------------------------
(* Stop, and the next run                                                  *)

\* SIGINT and at last SIGKILL, or docker rm -f.
Stop ==
    /\ pc \in {"ready", "down"}
    /\ pc' = "over"
    /\ Gone(run)
    /\ UNCHANGED <<runVars, timeVars, signalVars, peer, unclean, sidVars, callVars>>

\* Mutant: every error of docker rm is taken for a container that is gone.
StopFailsUnseen ==
    /\ pc \in {"ready", "down"} /\ ~P.process
    /\ pc' = "over"
    /\ Gone(run) \/ UNCHANGED worldVars
    /\ UNCHANGED <<runVars, timeVars, signalVars, peer, unclean, sidVars, callVars>>

\* docker rm did not succeed, and may have removed the container.
StopFails ==
    /\ pc \in {"ready", "down"} /\ ~P.process
    /\ pc' = "over" /\ unclean' = unclean \cup {run}
    /\ Gone(run) \/ UNCHANGED worldVars
    /\ UNCHANGED <<runVars, timeVars, signalVars, peer, sidVars, callVars>>

\* The harness exits, and is started once more.
NextRun ==
    /\ pc = "over" /\ run < Runs
    /\ run' = run + 1 /\ pc' = "idle" /\ sigint' = FALSE
    /\ peer' = 0 /\ fresh' = FALSE /\ wasFresh' = FALSE /\ tries' = 0 /\ renewals' = 0
    /\ adds' = 0 /\ done' = 0 /\ refusal' = FALSE /\ last' = "none"
    /\ UNCHANGED <<kind, timeVars, sigAt, worldVars, unclean>>

Over == pc = "over" /\ run = Runs /\ UNCHANGED vars

Interrupt ==
    /\ pc # "over" /\ ~sigint
    /\ sigint' = TRUE /\ sigAt' = now
    /\ UNCHANGED <<runVars, pc, timeVars, worldVars, peer, unclean, sidVars, callVars>>

-----------------------------------------------------------------------------
(* The engines                                                             *)

\* Another session id is in force at the address.
NewId ==
    IF kind # "transmission" THEN UNCHANGED <<fresh, renewals>>
    ELSE /\ fresh' = FALSE
         /\ IF pc \in Calling
               THEN renewals < MaxRenewals /\ renewals' = renewals + 1
               ELSE UNCHANGED renewals

\* A Unix socket can be taken over, a TCP port cannot.
Bind(r) ==
    /\ engine[r] = "boot" /\ (port = 0 \/ kind = "typhon")
    /\ engine' = [engine EXCEPT ![r] = "up"] /\ port' = r
    /\ NewId
    /\ UNCHANGED <<runVars, pc, timeVars, signalVars, peer, unclean, tries, wasFresh,
                   callVars>>

\* The address is taken: the engine exits, or goes on without its RPC.
BindFails(r) ==
    /\ engine[r] = "boot" /\ port # 0
    /\ \E e \in {"gone", "up"} : engine' = [engine EXCEPT ![r] = e]
    /\ UNCHANGED <<runVars, pc, timeVars, signalVars, port, peer, unclean, sidVars,
                   callVars>>

EngineExit(r) ==
    /\ engine[r] \in {"boot", "up"}
    /\ Gone(r)
    /\ UNCHANGED <<runVars, pc, timeVars, signalVars, peer, unclean, sidVars, callVars>>

\* transmission makes up a new id now and then.
Renew ==
    /\ kind = "transmission" /\ port # 0 /\ fresh
    /\ NewId
    /\ UNCHANGED <<runVars, pc, timeVars, signalVars, worldVars, peer, unclean, tries,
                   wasFresh, callVars>>

-----------------------------------------------------------------------------

Begin   == StartRefused \/ StartProcess \/ DockerRun \/ DockerRuns \/ DockerFails
Polling == Poll \/ Dialled \/ DialFails \/ Answered \/ ReadFails \/ Pause \/ NotReady
AddStep == Add \/ Send \/ Execute \/ Conflict \/ Retry \/ Reply \/ CallFails
End     == Stop \/ StopFails \/ NextRun \/ Over

Next ==
    \/ Begin \/ Polling \/ TimePasses \/ AddStep \/ End
    \/ Interrupt \/ Renew
    \/ \E r \in 1 .. Runs : Bind(r) \/ BindFails(r) \/ EngineExit(r)

Spec == Init /\ [][Next]_vars

-----------------------------------------------------------------------------
(* Properties                                                              *)

\* Start returns by the deadline of its context, whatever the engine does, and
\* almost at once after SIGINT; only rtorrent, which reads from a socket that
\* knows the deadline but not the signal, may make SIGINT wait until then.
StartInTime ==
    [][pc' \in Starting =>
         /\ now' <= CtxLimit
         /\ sigint /\ now' > now =>
               now = sigAt \/ (kind = "rtorrent" /\ pc = "read")]_vars

\* A driver talks to the engine it has started, unless a Start or a Stop of an
\* earlier run had returned an error: nothing else leaves an engine behind that
\* could answer in its place (waitReady does not ask who does).
StrangerExplained ==
    pc \in {"ready"} \cup Calling => peer = run \/ peer \in unclean

\* No torrent is added twice, not even by the retry of transmission, and one
\* that AddTorrent reports as added was added (libtorrent cannot tell).
AddedOnce ==
    /\ done <= 1
    /\ last = "ok" => done = 1 \/ kind \in Deaf

\* rpc gives up on session ids only if the engine made up two of them after the
\* one the driver had, at least one of which during the call itself.
GivesUpOnlyWhenChased ==
    last = "gaveup" => renewals + (IF wasFresh THEN 0 ELSE 1) >= 2
=============================================================================
