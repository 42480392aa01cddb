------------------------------ MODULE Tracker ------------------------------
(***************************************************************************)
(* The in-process tracker (internal/tracker/tracker.go) and the engines    *)
(* that announce to it: handleAnnounce, gcLoop, Start and Stop, for one    *)
(* info_hash.  Swarms share nothing but the lock, which both the handler   *)
(* and the sweep hold from their first look at the map to their last.      *)
(*                                                                         *)
(* One Tick is a re-announce period of the engines or less.  Requests are  *)
(* served within a tick, in any order: an engine may give one up and       *)
(* announce again while the first is still queued in the server.           *)
(* A malformed request is refused without any effect and is left out.      *)
(***************************************************************************)
EXTENDS Integers, FiniteSets

CONSTANTS
    Engines,
    TTL,            \* peerTTL, in ticks
    GcPeriod,       \* period of gcLoop, in ticks
    Interval,       \* announceInterval, in ticks
    MaxBoots        \* bound: how often an engine is started

ASSUME ConstantsAssumption ==
    /\ TTL \in Nat /\ GcPeriod \in Nat \ {0} /\ Interval \in Nat \ {0}
    /\ MaxBoots \in [Engines -> Nat \ {0}]

VARIABLES
    server,     \* the http.Server
    gcIn,       \* ticks until gcLoop sweeps
    swarm,      \* swarm[id]: ticks since the last announce of a listed peer
    boots,      \* boots[e]: how often e was started; its peer_id is <<e, boots[e]>>
    running,    \* engines that run
    due,        \* due[e]: ticks until e announces again
    queue,      \* announces in the server, and answers on their way back
    told,       \* told[e]: peers e heard of since it was started
    fresh       \* fresh[e]: ticks since e last got an answer

vars == <<server, gcIn, swarm, boots, running, due, queue, told, fresh>>
lifeVars   == <<boots, running>>
viewVars   == <<told, fresh>>

Ids == UNION {{e} \X (1 .. MaxBoots[e]) : e \in Engines}
Id(e) == <<e, boots[e]>>
Never == TTL + 1        \* fresh[e] of an engine that no answer vouches for

\* An announce waits for its turn; "awaited" while the engine waits for its
\* answer.  Announces that nobody waits for have the same effect each time, so
\* the queue holds one of a kind.
Request(id, event, awaited) == [id |-> id, event |-> event, awaited |-> awaited]
Answer(id, peers) == [id |-> id, peers |-> peers]
Requests == [id : Ids, event : {"", "stopped"}, awaited : BOOLEAN]
Answers  == [id : Ids, peers : SUBSET Ids]

TypeOK ==
    /\ server \in {"new", "up", "stopped"}
    /\ gcIn \in 0 .. GcPeriod
    /\ DOMAIN swarm \subseteq Ids
    /\ \A id \in DOMAIN swarm : swarm[id] \in Nat
    /\ DOMAIN boots = Engines /\ \A e \in Engines : boots[e] \in 0 .. MaxBoots[e]
    /\ running \subseteq Engines
    /\ due \in [Engines -> 0 .. Interval]
    /\ queue \subseteq Requests \cup Answers
    /\ told \in [Engines -> SUBSET Ids]
    /\ fresh \in [Engines -> 0 .. Never]

Init ==
    /\ server = "new"
    /\ gcIn = GcPeriod
    /\ swarm = [id \in {} |-> 0]
    /\ boots = [e \in Engines |-> 0]
    /\ running = {}
    /\ due = [e \in Engines |-> 0]
    /\ queue = {}
    /\ told = [e \in Engines |-> {}]
    /\ fresh = [e \in Engines |-> Never]

-----------------------------------------------------------------------------
(* The server                                                              *)

\* net.Listen, the serving goroutine, gcLoop.
Start ==
    /\ server = "new"
    /\ server' = "up"
    /\ UNCHANGED <<gcIn, swarm, lifeVars, due, queue, viewVars>>

\* Close cuts every connection; gcLoop is not told.
Stop ==
    /\ server = "up"
    /\ server' = "stopped"
    /\ queue' = {}
    /\ UNCHANGED <<gcIn, swarm, lifeVars, due, viewVars>>

Without(ids) == [id \in DOMAIN swarm \ ids |-> swarm[id]]
With(id) == [i \in DOMAIN swarm \cup {id} |-> IF i = id THEN 0 ELSE swarm[i]]

\* Mutant: the swarm is made anew for every announce.
EnterFresh(m) == [i \in {m.id} |-> 0]

\* The insertion or deletion of the announcing peer.
Enter(m) == IF m.event = "stopped" THEN Without({m.id}) ELSE With(m.id)

\* handleAnnounce: one critical section enters the peer and lists the others.
HandleAnnounce(m) ==
    /\ m \in Requests
    /\ swarm' = Enter(m)
    /\ queue' = (queue \ {m}) \cup
          (IF m.awaited THEN {Answer(m.id, DOMAIN swarm' \ {m.id})} ELSE {})
    /\ UNCHANGED <<server, gcIn, lifeVars, due, viewVars>>

\* Mutants: a TTL one tick short; entries that never get stale.
StaleEarly == {id \in DOMAIN swarm : swarm[id] >= TTL}
StaleNever == {}

\* p.last.Before(cutoff)
Stale == {id \in DOMAIN swarm : swarm[id] > TTL}

\* gcLoop sweeps on after Stop: nobody stops its ticker.
Sweep ==
    /\ gcIn = 0
    /\ gcIn' = GcPeriod
    /\ swarm' = Without(Stale)
    /\ UNCHANGED <<server, lifeVars, due, queue, viewVars>>

-----------------------------------------------------------------------------
(* The engines                                                             *)

\* A started engine chooses a new peer_id.
Boot(e) ==
    /\ server # "new" /\ e \notin running /\ boots[e] < MaxBoots[e]
    /\ running' = running \cup {e}
    /\ boots' = [boots EXCEPT ![e] = @ + 1]
    /\ UNCHANGED <<server, gcIn, swarm, due, queue, viewVars>>

Awaited(e) == {m \in queue : m.id = Id(e) /\ (m \in Requests => m.awaited)}

\* e stops waiting: its request stays in the server, the answer finds nobody.
Abandoned(e) == (queue \ Awaited(e)) \cup
    {Request(m.id, m.event, FALSE) : m \in Awaited(e) \cap Requests}

\* Nothing is sent to a tracker that does not listen any more.
Announce(e) ==
    /\ e \in running /\ due[e] = 0 /\ Awaited(e) = {}
    /\ queue' = IF server = "up" THEN queue \cup {Request(Id(e), "", TRUE)} ELSE queue
    /\ due' = [due EXCEPT ![e] = Interval]
    /\ UNCHANGED <<server, gcIn, swarm, lifeVars, viewVars>>

GetAnswer(m) ==
    /\ m \in Answers
    /\ queue' = queue \ {m}
    /\ LET e == m.id[1] IN
          /\ told' = [told EXCEPT ![e] = @ \cup m.peers]
          /\ fresh' = [fresh EXCEPT ![e] = 0]
    /\ UNCHANGED <<server, gcIn, swarm, lifeVars, due>>

\* The engine's own timeout comes before the answer: it announces again, at once
\* or after the interval.
GiveUp(e) ==
    /\ e \in running /\ Awaited(e) # {}
    /\ queue' = Abandoned(e)
    /\ \E t \in {0, Interval} : due' = [due EXCEPT ![e] = t]
    /\ UNCHANGED <<server, gcIn, swarm, lifeVars, viewVars>>

\* Nothing of what e knows outlives its process.
Forget(e) ==
    /\ running' = running \ {e}
    /\ due' = [due EXCEPT ![e] = 0]
    /\ told' = [told EXCEPT ![e] = {}]
    /\ fresh' = [fresh EXCEPT ![e] = Never]

\* The last announce of an engine that is told to stop.
Quit(e) ==
    /\ e \in running
    /\ Forget(e)
    /\ queue' = IF server = "up" THEN Abandoned(e) \cup {Request(Id(e), "stopped", FALSE)}
                                  ELSE queue
    /\ UNCHANGED <<server, gcIn, swarm, boots>>

Crash(e) ==
    /\ e \in running
    /\ Forget(e)
    /\ queue' = Abandoned(e)
    /\ UNCHANGED <<server, gcIn, swarm, boots>>

-----------------------------------------------------------------------------

\* Mutant: a clock that does not wait for the sweep.
TickPastSweep ==
    /\ server # "new" /\ queue = {}
    /\ \A e \in running : due[e] > 0
    /\ gcIn' = gcIn - 1
    /\ swarm' = [id \in DOMAIN swarm |-> swarm[id] + 1]
    /\ due' = [e \in Engines |-> IF e \in running THEN due[e] - 1 ELSE 0]
    /\ fresh' = [e \in Engines |-> IF fresh[e] = Never THEN Never ELSE fresh[e] + 1]
    /\ UNCHANGED <<server, lifeVars, queue, told>>

\* A tick passes when all that was due has happened.
Tick ==
    /\ server # "new" /\ gcIn > 0 /\ queue = {}
    /\ \A e \in running : due[e] > 0
    /\ gcIn' = gcIn - 1
    /\ swarm' = [id \in DOMAIN swarm |-> swarm[id] + 1]
    /\ due' = [e \in Engines |-> IF e \in running THEN due[e] - 1 ELSE 0]
    /\ fresh' = [e \in Engines |-> IF fresh[e] = Never THEN Never ELSE fresh[e] + 1]
    /\ UNCHANGED <<server, lifeVars, queue, told>>

Deliver(m) == HandleAnnounce(m) \/ GetAnswer(m)

Next ==
    \/ Start \/ Stop \/ Sweep \/ Tick
    \/ \E m \in queue : Deliver(m)
    \/ \E e \in Engines : Boot(e) \/ Announce(e) \/ GiveUp(e) \/ Quit(e) \/ Crash(e)

Spec == Init /\ [][Next]_vars

\* The server's goroutines and the clock run, engines announce when it is time,
\* and an engine that keeps announcing gets an answer in the end.
Fairness ==
    /\ WF_vars(Tick) /\ WF_vars(Sweep)
    /\ WF_vars(\E m \in queue : Deliver(m))
    /\ \A e \in Engines :
          /\ WF_vars(Announce(e))
          /\ SF_vars(\E m \in Awaited(e) : HandleAnnounce(m))
          /\ SF_vars(\E m \in Awaited(e) : GetAnswer(m))

FairSpec == Spec /\ Fairness

-----------------------------------------------------------------------------
(* Properties                                                              *)

Fresh(e) == e \in running /\ fresh[e] <= TTL

\* tracker.go:5 "the tracker tells them about every other engine in the swarm":
\* of two engines that run and were answered within the TTL, at least one has
\* heard of the other.
Rendezvous ==
    \A a, b \in Engines : a # b /\ Fresh(a) /\ Fresh(b) =>
        Id(a) \in told[b] \/ Id(b) \in told[a]

\* An engine that keeps announcing is never swept out, neither by its own late
\* requests nor by those of an earlier life.
SteadyPeersListed == \A e \in Engines : Fresh(e) => Id(e) \in DOMAIN swarm

\* A peer that is gone, with or without a stopped announce, and whatever came in
\* after it, is listed for TTL and one sweep at most.
GhostsVanish == \A id \in DOMAIN swarm : swarm[id] <= TTL + GcPeriod

\* Any two engines that keep running hear of each other, both ways, as long as
\* the tracker is up.
EveryoneMeets ==
    \A pair \in {s \in SUBSET Engines : Cardinality(s) = 2} :
        (pair \subseteq running /\ server = "up") ~>
            \/ \A a \in pair : \A b \in pair \ {a} : Id(a) \in told[b]
            \/ ~(pair \subseteq running) \/ server # "up"
=============================================================================
