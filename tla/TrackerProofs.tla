--------------------------- MODULE TrackerProofs ---------------------------
(***************************************************************************)
(* Proofs about Tracker, for every set of engines, every TTL and period,   *)
(* and any number of restarts.                                             *)
(***************************************************************************)
EXTENDS Tracker, TLAPS

\* The constants that are numbers.
LEMMA NumbersFact ==
  /\ TTL \in Nat /\ GcPeriod \in Nat \ {0} /\ Interval \in Nat \ {0}
  /\ \A e \in Engines : MaxBoots[e] \in Nat \ {0}
  /\ Never = TTL + 1
BY ConstantsAssumption DEF Never

-----------------------------------------------------------------------------
(* The inductive invariant                                                 *)

\* id is the peer_id of an engine that runs.
Alive(id) == id[1] \in running /\ id = Id(id[1])

Waits(m) == m \in Requests => m.awaited

\* Who has something in the server: an engine that waits is still the one that
\* asked, and a stopped announce is that of an engine that is gone.
Senders ==
    /\ server # "up" => queue = {}
    /\ \A m \in queue :
          /\ m.id[2] <= boots[m.id[1]]
          /\ Waits(m) => Alive(m.id)
          /\ m \in Requests /\ m.event = "stopped" => ~m.awaited /\ ~Alive(m.id)

\* An engine that does not run has no fresh answer.
Life ==
    \A e \in Engines :
        /\ e \in running => boots[e] >= 1
        /\ e \notin running => fresh[e] = Never

\* What an answer is based on: the tick in which it was made is not over.
Served ==
    \A m \in queue : m \in Answers => m.id \in DOMAIN swarm /\ swarm[m.id] = 0

\* A listed peer is no older than the last answer it got.
Listed ==
    \A e \in Engines : Fresh(e) => Id(e) \in DOMAIN swarm /\ swarm[Id(e)] <= fresh[e]

\* The next sweep comes in time.
Age == \A id \in DOMAIN swarm : swarm[id] + gcIn <= TTL + GcPeriod

\* Of two engines that have an answer, or have one on its way, one knows the
\* other, or is about to.
FreshPair(a, b) == Id(a) \in told[b] \/ Id(b) \in told[a]
ServedPair(m, b) ==
    \/ Id(b) \in m.peers \cup told[m.id[1]]
    \/ m.id \in told[b]
ServedTwo(m, n) ==
    \/ n.id \in m.peers \cup told[m.id[1]]
    \/ m.id \in n.peers \cup told[n.id[1]]

Meet ==
    /\ \A a, b \in Engines : a # b /\ Fresh(a) /\ Fresh(b) => FreshPair(a, b)
    /\ \A m \in queue \cap Answers, b \in Engines :
          m.id[1] # b /\ Fresh(b) => ServedPair(m, b)
    /\ \A m, n \in queue \cap Answers : m.id[1] # n.id[1] => ServedTwo(m, n)

IInv == TypeOK /\ Senders /\ Life /\ Served /\ Listed /\ Age /\ Meet

-----------------------------------------------------------------------------
(* Identities and messages                                                 *)

LEMMA IdsFact ==
  /\ \A id \in Ids : /\ id[1] \in Engines /\ id[2] \in 1 .. MaxBoots[id[1]]
                     /\ id = <<id[1], id[2]>>
  /\ \A e \in Engines : \A n \in 1 .. MaxBoots[e] : <<e, n>> \in Ids
BY DEF Ids

\* A request is no answer.
LEMMA KindsDiffer ==
  \A m : ~(m \in Requests /\ m \in Answers)
<1> SUFFICES ASSUME NEW m, m \in Requests, m \in Answers PROVE FALSE
  OBVIOUS
<1>1. DOMAIN m = {"id", "event", "awaited"}
  BY DEF Requests
<1>2. DOMAIN m = {"id", "peers"}
  BY DEF Answers
<1> QED
  BY <1>1, <1>2

\* What a message in the server looks like.
LEMMA QueueFact ==
  ASSUME TypeOK
  PROVE  \A m \in queue :
            /\ m.id \in Ids /\ m.id[1] \in Engines /\ m.id = <<m.id[1], m.id[2]>>
            /\ m \in Requests => m.awaited \in BOOLEAN /\ m.event \in {"", "stopped"}
            /\ m \notin Requests => m \in Answers
            /\ m \in Answers => m \notin Requests /\ Waits(m) /\ m.peers \subseteq Ids
<1> TAKE m \in queue
<1>1. m \in Requests \/ m \in Answers
  BY DEF TypeOK
<1>2. m \in Requests =>
         /\ m.id \in Ids /\ m.awaited \in BOOLEAN /\ m.event \in {"", "stopped"}
  BY DEF Requests
<1>3. m \in Answers => m.id \in Ids /\ m.peers \subseteq Ids /\ m \notin Requests
  BY KindsDiffer DEF Answers
<1>4. m.id \in Ids
  BY <1>1, <1>2, <1>3
<1>5. m.id[1] \in Engines /\ m.id = <<m.id[1], m.id[2]>>
  BY <1>4, IdsFact
<1> QED
  BY <1>1, <1>2, <1>3, <1>4, <1>5 DEF Waits

\* The peer_id of an engine that runs.
LEMMA IdFact ==
  ASSUME TypeOK, Life
  PROVE  \A e \in Engines :
            /\ Id(e)[1] = e /\ Id(e)[2] = boots[e]
            /\ e \in running => Id(e) \in Ids /\ Alive(Id(e))
<1> TAKE e \in Engines
<1>1. Id(e)[1] = e /\ Id(e)[2] = boots[e]
  BY DEF Id
<1>2. ASSUME e \in running
      PROVE  Id(e) \in Ids
  <2>1. boots[e] \in 1 .. MaxBoots[e]
    BY <1>2, NumbersFact DEF TypeOK, Life
  <2> QED
    BY <2>1, IdsFact DEF Id
<1> QED
  BY <1>1, <1>2 DEF Alive

\* What is left of an engine that does not wait any more.
LEMMA AbandonedFact ==
  ASSUME TypeOK, Senders, Life, NEW e \in Engines, e \in running
  PROVE  /\ \A m \in Abandoned(e) :
               \/ m \in queue /\ ~(m.id = Id(e) /\ Waits(m))
               \/ m \in Requests /\ m.id = Id(e) /\ m.event = "" /\ m.awaited = FALSE
         /\ Abandoned(e) \subseteq Requests \cup Answers
         /\ server # "up" => Abandoned(e) = {}
<1>1. ASSUME NEW m \in Abandoned(e), m \notin queue \ Awaited(e)
      PROVE  m \in Requests /\ m.id = Id(e) /\ m.event = "" /\ m.awaited = FALSE
  <2>1. PICK n \in Awaited(e) \cap Requests : m = Request(n.id, n.event, FALSE)
    BY <1>1 DEF Abandoned
  <2>2. n \in queue /\ n \in Requests /\ n.id = Id(e) /\ n.awaited /\ n.event \in {"", "stopped"}
    BY <2>1, QueueFact DEF Awaited
  <2>3. n.event = ""
    BY <2>2 DEF Senders
  <2>4. m = [id |-> Id(e), event |-> "", awaited |-> FALSE]
    BY <2>1, <2>2, <2>3 DEF Request
  <2>5. Id(e) \in Ids
    BY IdFact
  <2> QED
    BY <2>4, <2>5 DEF Requests
<1>2. ASSUME NEW m \in queue \ Awaited(e)
      PROVE  m \in queue /\ ~(m.id = Id(e) /\ Waits(m))
  BY <1>2 DEF Awaited, Waits
<1>3. queue \subseteq Requests \cup Answers
  BY DEF TypeOK
<1>4. server # "up" => Abandoned(e) = {}
  BY DEF Senders, Abandoned, Awaited
<1> QED
  BY <1>1, <1>2, <1>3, <1>4

-----------------------------------------------------------------------------
(* Type correctness                                                        *)

LEMMA TypeStep ==
  ASSUME TypeOK, Senders, Life, [Next]_vars
  PROVE  TypeOK'
<1> USE NumbersFact
<1>0. /\ swarm' = swarm => DOMAIN swarm' \subseteq Ids /\ \A id \in DOMAIN swarm' : swarm'[id] \in Nat
      /\ queue \subseteq Requests \cup Answers
  BY DEF TypeOK
<1>1. CASE Start
  BY <1>1 DEF TypeOK, Start, lifeVars, viewVars
<1>2. CASE Stop
  BY <1>2 DEF TypeOK, Stop, lifeVars, viewVars
<1>3. CASE Sweep
  <2>1. DOMAIN swarm' \subseteq Ids /\ \A id \in DOMAIN swarm' : swarm'[id] \in Nat
    BY <1>3 DEF TypeOK, Sweep, Without
  <2> QED
    BY <1>3, <2>1 DEF TypeOK, Sweep, lifeVars, viewVars
<1>4. CASE Tick
  <2>1. DOMAIN swarm' \subseteq Ids /\ \A id \in DOMAIN swarm' : swarm'[id] \in Nat
    BY <1>4 DEF TypeOK, Tick
  <2>2. due' \in [Engines -> 0 .. Interval]
    <3>1. \A e \in Engines : due[e] \in 0 .. Interval /\ (e \in running => due[e] > 0)
      BY <1>4 DEF TypeOK, Tick
    <3>2. \A e \in Engines : (IF e \in running THEN due[e] - 1 ELSE 0) \in 0 .. Interval
      BY <3>1
    <3> QED
      BY <1>4, <3>2 DEF Tick
  <2>3. fresh' \in [Engines -> 0 .. Never]
    <3>1. \A e \in Engines : fresh[e] \in 0 .. TTL + 1
      BY DEF TypeOK
    <3>2. \A e \in Engines : (IF fresh[e] = Never THEN Never ELSE fresh[e] + 1) \in 0 .. Never
      BY <3>1
    <3> QED
      BY <1>4, <3>2 DEF Tick
  <2>4. gcIn' \in 0 .. GcPeriod
    BY <1>4 DEF TypeOK, Tick
  <2> QED
    BY <1>4, <2>1, <2>2, <2>3, <2>4 DEF TypeOK, Tick, lifeVars
<1>5. ASSUME NEW m \in queue, HandleAnnounce(m)
      PROVE  TypeOK'
  <2>1. m.id \in Ids
    BY QueueFact
  <2>2. DOMAIN swarm' \subseteq Ids /\ \A id \in DOMAIN swarm' : swarm'[id] \in Nat
    <3>1. CASE m.event = "stopped"
      BY <1>5, <3>1 DEF TypeOK, HandleAnnounce, Enter, Without
    <3>2. CASE m.event # "stopped"
      BY <1>5, <3>2, <2>1 DEF TypeOK, HandleAnnounce, Enter, With
    <3> QED
      BY <3>1, <3>2
  <2>3. Answer(m.id, DOMAIN swarm' \ {m.id}) \in Answers
    BY <2>1, <2>2 DEF Answer, Answers
  <2>4. queue' \subseteq Requests \cup Answers
    BY <1>0, <1>5, <2>3 DEF HandleAnnounce
  <2> QED
    BY <1>5, <2>2, <2>4 DEF TypeOK, HandleAnnounce, lifeVars, viewVars
<1>6. ASSUME NEW m \in queue, GetAnswer(m)
      PROVE  TypeOK'
  <2>1. m \in Answers /\ m.id[1] \in Engines /\ m.peers \subseteq Ids
    BY <1>6, QueueFact DEF GetAnswer
  <2>2. told' \in [Engines -> SUBSET Ids] /\ fresh' \in [Engines -> 0 .. Never]
    BY <1>6, <2>1 DEF TypeOK, GetAnswer
  <2> QED
    BY <1>6, <2>2 DEF TypeOK, GetAnswer, lifeVars
<1>7. ASSUME NEW e \in Engines, Boot(e)
      PROVE  TypeOK'
  <2>1. DOMAIN boots' = Engines /\ \A d \in Engines : boots'[d] \in 0 .. MaxBoots[d]
    BY <1>7 DEF TypeOK, Boot
  <2>2. running' \subseteq Engines
    BY <1>7 DEF TypeOK, Boot
  <2> QED
    BY <1>7, <2>1, <2>2 DEF TypeOK, Boot, viewVars
<1>8. ASSUME NEW e \in Engines, Announce(e)
      PROVE  TypeOK'
  <2>1. Request(Id(e), "", TRUE) \in Requests
    BY <1>8, IdFact DEF Announce, Request, Requests
  <2>2. queue' \subseteq Requests \cup Answers
    <3>1. queue' \subseteq queue \cup {Request(Id(e), "", TRUE)}
      BY <1>8, Zenon DEF Announce
    <3> QED
      BY <1>0, <2>1, <3>1, Zenon
  <2>3. /\ due' = [due EXCEPT ![e] = Interval]
        /\ UNCHANGED <<server, gcIn, swarm, lifeVars, viewVars>>
    BY <1>8, Zenon DEF Announce
  <2>4. due' \in [Engines -> 0 .. Interval]
    BY <2>3 DEF TypeOK
  <2> QED
    BY <2>2, <2>3, <2>4 DEF TypeOK, lifeVars, viewVars
<1>9. ASSUME NEW e \in Engines, GiveUp(e)
      PROVE  TypeOK'
  <2>1. queue' \subseteq Requests \cup Answers
    BY <1>9, AbandonedFact DEF GiveUp
  <2>2. due' \in [Engines -> 0 .. Interval]
    BY <1>9 DEF TypeOK, GiveUp
  <2> QED
    BY <1>9, <2>1, <2>2 DEF TypeOK, GiveUp, lifeVars, viewVars
<1>10. ASSUME NEW e \in Engines, Quit(e) \/ Crash(e)
       PROVE  TypeOK'
  <2>0. e \in running
    BY <1>10 DEF Quit, Crash
  <2>1. Request(Id(e), "stopped", FALSE) \in Requests
    BY <2>0, IdFact DEF Request, Requests
  <2>a. Abandoned(e) \subseteq Requests \cup Answers
    BY <2>0, AbandonedFact
  <2>2. queue' \subseteq Requests \cup Answers
    <3>1. \/ queue' = queue \/ queue' = Abandoned(e)
          \/ queue' = Abandoned(e) \cup {Request(Id(e), "stopped", FALSE)}
      BY <1>10, Zenon DEF Quit, Crash
    <3> QED
      BY <1>0, <2>1, <2>a, <3>1, Zenon
  <2>3. Forget(e) /\ UNCHANGED <<server, gcIn, swarm, boots>>
    BY <1>10, Zenon DEF Quit, Crash
  <2>4. /\ running' \subseteq Engines /\ due' \in [Engines -> 0 .. Interval]
        /\ told' \in [Engines -> SUBSET Ids] /\ fresh' \in [Engines -> 0 .. Never]
    BY <2>3 DEF TypeOK, Forget
  <2> QED
    BY <2>2, <2>3, <2>4 DEF TypeOK
<1>11. CASE UNCHANGED vars
  BY <1>11 DEF TypeOK, vars
<1> QED
  BY <1>1, <1>2, <1>3, <1>4, <1>5, <1>6, <1>7, <1>8, <1>9, <1>10, <1>11 DEF Next, Deliver

-----------------------------------------------------------------------------
(* What the engines put into the server                                    *)

LEMMA AnnounceEffect ==
  ASSUME TypeOK, Life, NEW e \in Engines, Announce(e)
  PROVE  /\ e \in running /\ UNCHANGED <<server, gcIn, swarm, boots, running, told, fresh>>
         /\ server # "up" => queue' = queue
         /\ \A m \in queue' :
               \/ m \in queue
               \/ m \in Requests /\ m.id = Id(e) /\ m.event = "" /\ m.awaited = TRUE
<1>1. /\ e \in running /\ UNCHANGED <<server, gcIn, swarm, boots, running, told, fresh>>
      /\ server # "up" => queue' = queue
      /\ queue' \subseteq queue \cup {Request(Id(e), "", TRUE)}
  BY Zenon DEF Announce, lifeVars, viewVars
<1>2. ASSUME NEW m \in queue', m \notin queue
      PROVE  m \in Requests /\ m.id = Id(e) /\ m.event = "" /\ m.awaited = TRUE
  <2>1. m = Request(Id(e), "", TRUE)
    BY <1>1, <1>2, Zenon
  <2>2. Id(e) \in Ids
    BY <1>1, IdFact
  <2>3. m = [id |-> Id(e), event |-> "", awaited |-> TRUE]
    BY <2>1, Zenon DEF Request
  <2> QED
    BY <2>2, <2>3 DEF Requests
<1> QED
  BY <1>1, <1>2, Zenon

\* What an engine that gives up leaves in the server.
LEMMA GiveUpEffect ==
  ASSUME TypeOK, Senders, Life, NEW e \in Engines, GiveUp(e)
  PROVE  /\ e \in running /\ UNCHANGED <<server, gcIn, swarm, boots, running, told, fresh>>
         /\ server # "up" => queue' = {}
         /\ \A m \in queue' :
               \/ m \in queue /\ ~(m.id = Id(e) /\ Waits(m))
               \/ m \in Requests /\ m.id = Id(e) /\ m.event = "" /\ m.awaited = FALSE
<1>1. /\ e \in running /\ UNCHANGED <<server, gcIn, swarm, boots, running, told, fresh>>
      /\ queue' = Abandoned(e)
  BY DEF GiveUp, lifeVars, viewVars
<1> QED
  BY <1>1, AbandonedFact

\* What an engine that ends leaves in the server, with or without a last announce.
LEMMA LeaveEffect ==
  ASSUME TypeOK, Senders, Life, NEW e \in Engines, Quit(e) \/ Crash(e)
  PROVE  /\ e \in running /\ Forget(e) /\ UNCHANGED <<server, gcIn, swarm, boots>>
         /\ server # "up" => queue' = {}
         /\ \A m \in queue' :
               \/ m \in queue /\ ~(m.id = Id(e) /\ Waits(m))
               \/ m \in Requests /\ m.id = Id(e) /\ m.awaited = FALSE
<1>1. e \in running /\ Forget(e) /\ UNCHANGED <<server, gcIn, swarm, boots>>
  BY Zenon DEF Quit, Crash
<1>2. /\ \A m \in Abandoned(e) :
            \/ m \in queue /\ ~(m.id = Id(e) /\ Waits(m))
            \/ m \in Requests /\ m.id = Id(e) /\ m.event = "" /\ m.awaited = FALSE
      /\ server # "up" => Abandoned(e) = {}
  BY <1>1, AbandonedFact
<1>3. /\ server # "up" => queue' = {}
      /\ queue' \subseteq Abandoned(e) \cup {Request(Id(e), "stopped", FALSE)}
  <2>1. \/ server = "up" /\ queue' = Abandoned(e) \cup {Request(Id(e), "stopped", FALSE)}
        \/ server # "up" /\ queue' = queue
        \/ queue' = Abandoned(e)
    BY Zenon DEF Quit, Crash
  <2>2. server # "up" => queue = {}
    BY DEF Senders
  <2> QED
    BY <1>2, <2>1, <2>2, Zenon
<1>4. ASSUME NEW m \in queue', m = Request(Id(e), "stopped", FALSE)
      PROVE  m \in Requests /\ m.id = Id(e) /\ m.awaited = FALSE
  <2>1. Id(e) \in Ids
    BY <1>1, IdFact
  <2>2. m = [id |-> Id(e), event |-> "stopped", awaited |-> FALSE]
    BY <1>4, Zenon DEF Request
  <2> QED
    BY <2>1, <2>2 DEF Requests
<1> QED
  BY <1>1, <1>2, <1>3, <1>4, Zenon

\* What the handler does with a request, and what it answers.
LEMMA HandleEffect ==
  ASSUME TypeOK, Senders, NEW m \in queue, HandleAnnounce(m)
  PROVE  /\ m \in Requests /\ server = "up"
         /\ UNCHANGED <<server, gcIn, boots, running, told, fresh>>
         /\ m.event = "stopped" => /\ ~Alive(m.id) /\ m.awaited = FALSE
                                   /\ DOMAIN swarm' = DOMAIN swarm \ {m.id}
                                   /\ \A id \in DOMAIN swarm' : swarm'[id] = swarm[id]
         /\ m.event # "stopped" => /\ DOMAIN swarm' = DOMAIN swarm \cup {m.id}
                                   /\ swarm'[m.id] = 0
                                   /\ \A id \in DOMAIN swarm : id # m.id => swarm'[id] = swarm[id]
         /\ \A n \in queue' :
               \/ n \in queue
               \/ /\ n \in Answers /\ n.id = m.id /\ n.peers = DOMAIN swarm' \ {m.id}
                  /\ Alive(m.id) /\ m.event # "stopped"
<1>1. /\ m \in Requests /\ server = "up"
      /\ UNCHANGED <<server, gcIn, boots, running, told, fresh>>
      /\ m.awaited \in BOOLEAN
      /\ m.awaited => Alive(m.id) /\ m.event # "stopped"
      /\ m.event = "stopped" => ~Alive(m.id)
  BY QueueFact DEF HandleAnnounce, lifeVars, viewVars, Senders, Waits
<1>2. m.event = "stopped" =>
         /\ DOMAIN swarm' = DOMAIN swarm \ {m.id}
         /\ \A id \in DOMAIN swarm' : swarm'[id] = swarm[id]
  BY DEF HandleAnnounce, Enter, Without
<1>3. m.event # "stopped" =>
         /\ DOMAIN swarm' = DOMAIN swarm \cup {m.id}
         /\ swarm'[m.id] = 0
         /\ \A id \in DOMAIN swarm : id # m.id => swarm'[id] = swarm[id]
  BY DEF HandleAnnounce, Enter, With
<1>4. ASSUME NEW n \in queue', n \notin queue
      PROVE  /\ n \in Answers /\ n.id = m.id /\ n.peers = DOMAIN swarm' \ {m.id}
             /\ Alive(m.id) /\ m.event # "stopped"
  <2>1. m.awaited /\ n = Answer(m.id, DOMAIN swarm' \ {m.id})
    BY <1>4 DEF HandleAnnounce
  <2>2. m.id \in Ids /\ DOMAIN swarm \subseteq Ids
    BY QueueFact DEF TypeOK
  <2>3. DOMAIN swarm' \subseteq Ids
    BY <1>2, <1>3, <2>2
  <2> QED
    BY <1>1, <2>1, <2>2, <2>3 DEF Answer, Answers
<1> QED
  BY <1>1, <1>2, <1>3, <1>4

-----------------------------------------------------------------------------
(* Who has something in the server                                         *)

LEMMA SendersStep ==
  ASSUME TypeOK, Senders, Life, [Next]_vars
  PROVE  Senders'
<1>0. /\ \A m \in queue : m.id[1] \in Engines /\ m.id = <<m.id[1], m.id[2]>>
      /\ \A d \in Engines : boots[d] \in Nat
      /\ running \subseteq Engines /\ DOMAIN boots = Engines
  <2>1. \A d \in Engines : boots[d] \in 0 .. MaxBoots[d] /\ MaxBoots[d] \in Nat
    BY NumbersFact DEF TypeOK
  <2>2. \A d \in Engines : boots[d] \in Nat
    BY <2>1
  <2> QED
    BY <2>2, QueueFact DEF TypeOK
<1>1. CASE Start \/ Stop
  BY <1>1 DEF Senders, Start, Stop, Alive, Id, lifeVars
<1>2. CASE Sweep \/ Tick \/ UNCHANGED vars
  BY <1>2 DEF Senders, Sweep, Tick, Alive, Id, lifeVars, vars
<1>3. ASSUME NEW m \in queue, HandleAnnounce(m)
      PROVE  Senders'
  <2>1. /\ m \in Requests /\ server' = "up" /\ UNCHANGED <<boots, running>>
        /\ \A n \in queue' :
              \/ n \in queue
              \/ n \in Answers /\ n.id = m.id /\ Alive(m.id)
    BY <1>3, HandleEffect
  <2>2. \A id : Alive(id)' <=> Alive(id)
    BY <2>1 DEF Alive, Id
  <2>3. ASSUME NEW n \in queue'
        PROVE  /\ n.id[2] <= boots'[n.id[1]]
               /\ Waits(n) => Alive(n.id)'
               /\ n \in Requests /\ n.event = "stopped" => ~n.awaited /\ ~Alive(n.id)'
    <3>1. CASE n \in queue
      BY <2>1, <2>2, <3>1 DEF Senders
    <3>2. CASE n \in Answers /\ n.id = m.id /\ Alive(m.id)
      BY <2>1, <2>2, <3>2, KindsDiffer DEF Senders
    <3> QED
      BY <2>1, <3>1, <3>2
  <2> QED
    BY <2>1, <2>3 DEF Senders
<1>4. ASSUME NEW m \in queue, GetAnswer(m)
      PROVE  Senders'
  <2>1. queue' \subseteq queue /\ UNCHANGED <<server, boots, running>>
    BY <1>4 DEF GetAnswer, lifeVars
  <2> QED
    BY <2>1 DEF Senders, Alive, Id
<1>5. ASSUME NEW e \in Engines, Boot(e)
      PROVE  Senders'
  <2>1. /\ e \notin running /\ running' = running \cup {e}
        /\ boots'[e] = boots[e] + 1 /\ \A d \in Engines \ {e} : boots'[d] = boots[d]
        /\ UNCHANGED <<server, queue>>
    BY <1>0, <1>5 DEF Boot
  <2>2. ASSUME NEW n \in queue
        PROVE  /\ n.id[2] <= boots'[n.id[1]]
               /\ Waits(n) => Alive(n.id)'
               /\ n \in Requests /\ n.event = "stopped" => ~n.awaited /\ ~Alive(n.id)'
    <3>0. n.id[2] \in Int /\ n.id[2] <= boots[n.id[1]] /\ n.id[1] \in Engines
      <4>1. n.id \in Ids /\ n.id[1] \in Engines
        BY QueueFact
      <4>2. n.id[2] \in 1 .. MaxBoots[n.id[1]] /\ MaxBoots[n.id[1]] \in Nat
        BY <4>1, IdsFact, NumbersFact
      <4>3. n.id[2] \in Int
        BY <4>2
      <4> QED
        BY <4>1, <4>3 DEF Senders
    <3>1. CASE n.id[1] = e
      <4>1. n.id[2] < boots'[e]
        BY <1>0, <2>1, <3>0, <3>1
      <4>2. ~Alive(n.id)
        BY <2>1, <3>1 DEF Alive
      <4>3. ~Alive(n.id)'
        BY <1>0, <2>1, <3>0, <3>1, <4>1 DEF Alive, Id
      <4> QED
        BY <1>0, <2>1, <3>0, <3>1, <4>1, <4>2, <4>3 DEF Senders
    <3>2. CASE n.id[1] # e
      <4>1. boots'[n.id[1]] = boots[n.id[1]]
        BY <2>1, <3>0, <3>2
      <4>2. n.id[1] \in running' <=> n.id[1] \in running
        BY <2>1, <3>2
      <4>3. Alive(n.id)' <=> Alive(n.id)
        BY <4>1, <4>2 DEF Alive, Id
      <4> QED
        BY <4>1, <4>3 DEF Senders
    <3> QED
      BY <3>1, <3>2
  <2> QED
    BY <2>1, <2>2 DEF Senders
<1>6. ASSUME NEW e \in Engines, Announce(e)
      PROVE  Senders'
  <2>1. /\ e \in running /\ UNCHANGED <<server, boots, running>>
        /\ server # "up" => queue' = queue
        /\ \A m \in queue' :
              \/ m \in queue
              \/ m \in Requests /\ m.id = Id(e) /\ m.event = "" /\ m.awaited = TRUE
    BY <1>6, AnnounceEffect
  <2>2. \A id : Alive(id)' <=> Alive(id)
    BY <2>1 DEF Alive, Id
  <2>a. Id(e)[1] = e /\ Id(e)[2] = boots[e] /\ Alive(Id(e))
    BY <2>1, IdFact
  <2>3. Alive(Id(e)) /\ Id(e)[2] <= boots[Id(e)[1]]
    BY <1>0, <2>a
  <2>4. ASSUME NEW m \in queue'
        PROVE  /\ m.id[2] <= boots'[m.id[1]]
               /\ Waits(m) => Alive(m.id)'
               /\ m \in Requests /\ m.event = "stopped" => ~m.awaited /\ ~Alive(m.id)'
    <3>1. CASE m \in queue
      BY <2>1, <2>2, <3>1 DEF Senders
    <3>2. CASE m \in Requests /\ m.id = Id(e) /\ m.event = "" /\ m.awaited = TRUE
      BY <2>1, <2>2, <2>3, <3>2
    <3> QED
      BY <2>1, <3>1, <3>2
  <2>5. server' # "up" => queue' = {}
    BY <2>1 DEF Senders
  <2> QED
    BY <2>4, <2>5 DEF Senders
<1>7. ASSUME NEW e \in Engines, GiveUp(e)
      PROVE  Senders'
  <2>1. /\ e \in running /\ UNCHANGED <<server, boots, running>>
        /\ server # "up" => queue' = {}
        /\ \A m \in queue' :
              \/ m \in queue /\ ~(m.id = Id(e) /\ Waits(m))
              \/ m \in Requests /\ m.id = Id(e) /\ m.event = "" /\ m.awaited = FALSE
    BY <1>7, GiveUpEffect
  <2>2. \A id : Alive(id)' <=> Alive(id)
    BY <2>1 DEF Alive, Id
  <2>a. Id(e)[1] = e /\ Id(e)[2] = boots[e]
    BY <2>1, IdFact
  <2>3. Id(e)[2] <= boots[Id(e)[1]]
    BY <1>0, <2>a
  <2>4. ASSUME NEW m \in queue'
        PROVE  /\ m.id[2] <= boots'[m.id[1]]
               /\ Waits(m) => Alive(m.id)'
               /\ m \in Requests /\ m.event = "stopped" => ~m.awaited /\ ~Alive(m.id)'
    <3>1. CASE m \in queue
      BY <2>1, <2>2, <3>1 DEF Senders
    <3>2. CASE m \in Requests /\ m.id = Id(e) /\ m.event = "" /\ m.awaited = FALSE
      BY <2>1, <2>3, <3>2 DEF Waits
    <3> QED
      BY <2>1, <3>1, <3>2
  <2> QED
    BY <2>1, <2>4 DEF Senders
<1>8. ASSUME NEW e \in Engines, Quit(e) \/ Crash(e)
      PROVE  Senders'
  <2>1. /\ e \in running /\ Forget(e) /\ UNCHANGED <<server, boots>>
        /\ server # "up" => queue' = {}
        /\ \A m \in queue' :
              \/ m \in queue /\ ~(m.id = Id(e) /\ Waits(m))
              \/ m \in Requests /\ m.id = Id(e) /\ m.awaited = FALSE
    BY <1>8, LeaveEffect
  <2>2. running' = running \ {e}
    BY <2>1 DEF Forget
  <2>3. ASSUME NEW m \in queue'
        PROVE  /\ m.id[2] <= boots'[m.id[1]]
               /\ Waits(m) => Alive(m.id)'
               /\ m \in Requests /\ m.event = "stopped" => ~m.awaited /\ ~Alive(m.id)'
    <3>1. CASE m \in queue /\ ~(m.id = Id(e) /\ Waits(m))
      BY <2>1, <2>2, <3>1 DEF Senders, Alive, Id
    <3>2. CASE m \in Requests /\ m.id = Id(e) /\ m.awaited = FALSE
      <4>1. m.id[1] = e /\ m.id[2] = boots[e]
        BY <3>2, IdFact
      <4> QED
        BY <1>0, <2>1, <2>2, <3>2, <4>1 DEF Alive, Waits
    <3> QED
      BY <2>1, <3>1, <3>2
  <2> QED
    BY <2>1, <2>3 DEF Senders
<1> QED
  BY <1>1, <1>2, <1>3, <1>4, <1>5, <1>6, <1>7, <1>8 DEF Next, Deliver

-----------------------------------------------------------------------------
(* Who is listed, and how old the entries are                              *)

\* The steps that leave the engines, their answers and their peer_ids alone.
LEMMA EnginesStay ==
  ASSUME TypeOK, Senders, Life, [Next]_vars
  PROVE  \/ Tick
         \/ \E m \in queue : GetAnswer(m)
         \/ \E e \in Engines : Boot(e) \/ Quit(e) \/ Crash(e)
         \/ UNCHANGED <<boots, running, told, fresh>>
<1>1. CASE Start \/ Stop \/ Sweep \/ UNCHANGED vars
  BY <1>1 DEF Start, Stop, Sweep, lifeVars, viewVars, vars
<1>2. ASSUME NEW m \in queue, HandleAnnounce(m)
      PROVE  UNCHANGED <<boots, running, told, fresh>>
  BY <1>2 DEF HandleAnnounce, lifeVars, viewVars
<1>3. ASSUME NEW e \in Engines, Announce(e) \/ GiveUp(e)
      PROVE  UNCHANGED <<boots, running, told, fresh>>
  BY <1>3, Zenon DEF Announce, GiveUp, lifeVars, viewVars
<1> QED
  BY <1>1, <1>2, <1>3 DEF Next, Deliver

LEMMA LifeStep ==
  ASSUME TypeOK, Senders, Life, [Next]_vars
  PROVE  Life'
<1>0. /\ fresh \in [Engines -> 0 .. Never] /\ DOMAIN boots = Engines
      /\ \A d \in Engines : boots[d] \in Int
      /\ running \subseteq Engines
  BY NumbersFact DEF TypeOK
<1>1. CASE Tick
  <2>1. /\ UNCHANGED <<boots, running>>
        /\ fresh' = [e \in Engines |-> IF fresh[e] = Never THEN Never ELSE fresh[e] + 1]
    BY <1>1 DEF Tick, lifeVars
  <2> QED
    BY <2>1 DEF Life
<1>2. ASSUME NEW m \in queue, GetAnswer(m)
      PROVE  Life'
  <2>1. m \in Answers /\ UNCHANGED <<boots, running>> /\ fresh' = [fresh EXCEPT ![m.id[1]] = 0]
    BY <1>2 DEF GetAnswer, lifeVars
  <2>2. m.id[1] \in running
    BY <2>1, QueueFact DEF Senders, Alive
  <2> QED
    BY <1>0, <2>1, <2>2 DEF Life
<1>3. ASSUME NEW e \in Engines, Boot(e)
      PROVE  Life'
  <2>1. /\ running' = running \cup {e} /\ fresh' = fresh
        /\ boots' = [boots EXCEPT ![e] = @ + 1]
    BY <1>3 DEF Boot, viewVars
  <2>2. boots[e] \in 0 .. MaxBoots[e] /\ MaxBoots[e] \in Nat
    BY NumbersFact DEF TypeOK
  <2>3. boots'[e] >= 1
    BY <1>0, <2>1, <2>2
  <2> QED
    BY <1>0, <2>1, <2>3 DEF Life
<1>4. ASSUME NEW e \in Engines, Quit(e) \/ Crash(e)
      PROVE  Life'
  <2>1. Forget(e) /\ boots' = boots
    BY <1>4, LeaveEffect
  <2> QED
    BY <1>0, <2>1 DEF Life, Forget
<1>5. CASE UNCHANGED <<boots, running, told, fresh>>
  BY <1>5 DEF Life
<1> QED
  BY <1>1, <1>2, <1>3, <1>4, <1>5, EnginesStay

\* The answers that a step leaves in the server were there before, but for the
\* one that the handler makes.
LEMMA AnswersStay ==
  ASSUME TypeOK, Senders, Life, [Next]_vars
  PROVE  \/ \E m \in queue : HandleAnnounce(m)
         \/ queue' \cap Answers \subseteq queue
<1>1. CASE Start \/ Stop \/ Sweep \/ Tick \/ UNCHANGED vars
  BY <1>1 DEF Start, Stop, Sweep, Tick, vars
<1>2. ASSUME NEW m \in queue, GetAnswer(m)
      PROVE  queue' \cap Answers \subseteq queue
  BY <1>2 DEF GetAnswer
<1>3. ASSUME NEW e \in Engines, Boot(e)
      PROVE  queue' \cap Answers \subseteq queue
  BY <1>3 DEF Boot
<1>4. ASSUME NEW e \in Engines, Announce(e)
      PROVE  queue' \cap Answers \subseteq queue
  BY <1>4, AnnounceEffect, KindsDiffer
<1>5. ASSUME NEW e \in Engines, GiveUp(e)
      PROVE  queue' \cap Answers \subseteq queue
  BY <1>5, GiveUpEffect, KindsDiffer
<1>6. ASSUME NEW e \in Engines, Quit(e) \/ Crash(e)
      PROVE  queue' \cap Answers \subseteq queue
  BY <1>6, LeaveEffect, KindsDiffer
<1> QED
  BY <1>1, <1>2, <1>3, <1>4, <1>5, <1>6 DEF Next, Deliver

\* The list changes with a request, a sweep or the clock only.
LEMMA ListStays ==
  ASSUME [Next]_vars
  PROVE  \/ \E m \in queue : HandleAnnounce(m)
         \/ Sweep \/ Tick
         \/ UNCHANGED <<swarm, gcIn>>
<1>1. CASE Start \/ Stop \/ UNCHANGED vars
  BY <1>1 DEF Start, Stop, vars
<1>2. ASSUME NEW m \in queue, GetAnswer(m)
      PROVE  UNCHANGED <<swarm, gcIn>>
  BY <1>2 DEF GetAnswer
<1>3. ASSUME NEW e \in Engines, Boot(e) \/ Announce(e) \/ GiveUp(e) \/ Quit(e) \/ Crash(e)
      PROVE  UNCHANGED <<swarm, gcIn>>
  BY <1>3, Zenon DEF Boot, Announce, GiveUp, Quit, Crash
<1> QED
  BY <1>1, <1>2, <1>3 DEF Next, Deliver

LEMMA ServedStep ==
  ASSUME TypeOK, Senders, Life, Served, [Next]_vars
  PROVE  Served'
<1>1. ASSUME NEW m \in queue, HandleAnnounce(m)
      PROVE  Served'
  <2> SUFFICES ASSUME NEW n \in queue', n \in Answers
               PROVE  n.id \in DOMAIN swarm' /\ swarm'[n.id] = 0
    BY DEF Served
  <2>1. /\ m.event = "stopped" => /\ ~Alive(m.id) /\ m.awaited = FALSE
                                  /\ DOMAIN swarm' = DOMAIN swarm \ {m.id}
                                  /\ \A id \in DOMAIN swarm' : swarm'[id] = swarm[id]
        /\ m.event # "stopped" => /\ DOMAIN swarm' = DOMAIN swarm \cup {m.id}
                                  /\ swarm'[m.id] = 0
                                  /\ \A id \in DOMAIN swarm : id # m.id => swarm'[id] = swarm[id]
        /\ \/ n \in queue
           \/ /\ n \in Answers /\ n.id = m.id /\ n.peers = DOMAIN swarm' \ {m.id}
              /\ Alive(m.id) /\ m.event # "stopped"
    BY <1>1, HandleEffect
  <2>2. CASE n \in queue
    <3>1. n.id \in DOMAIN swarm /\ swarm[n.id] = 0 /\ Alive(n.id)
      BY <2>2, QueueFact DEF Served, Senders
    <3> QED
      BY <2>1, <3>1
  <2>3. CASE n.id = m.id /\ m.event # "stopped"
    BY <2>1, <2>3
  <2> QED
    BY <2>1, <2>2, <2>3
<1>2. CASE Sweep
  <2>1. /\ queue' = queue
        /\ \A id \in DOMAIN swarm : ~(swarm[id] > TTL) => id \in DOMAIN swarm' /\ swarm'[id] = swarm[id]
    BY <1>2 DEF Sweep, Without, Stale
  <2> QED
    BY <2>1, NumbersFact DEF Served
<1>3. CASE Tick
  BY <1>3 DEF Tick, Served
<1>4. CASE UNCHANGED <<swarm, gcIn>> /\ ~(\E m \in queue : HandleAnnounce(m))
  BY <1>4, AnswersStay DEF Served
<1> QED
  BY <1>1, <1>2, <1>3, <1>4, ListStays

LEMMA ListedStep ==
  ASSUME TypeOK, Senders, Life, Served, Listed, [Next]_vars
  PROVE  Listed'
<1>0. /\ fresh \in [Engines -> 0 .. TTL + 1] /\ running \subseteq Engines
      /\ \A id \in DOMAIN swarm : swarm[id] \in Nat
      /\ TTL \in Nat /\ Never = TTL + 1
  BY NumbersFact DEF TypeOK
<1> SUFFICES ASSUME NEW d \in Engines, Fresh(d)'
             PROVE  Id(d)' \in DOMAIN swarm' /\ swarm'[Id(d)'] <= fresh'[d]
  BY DEF Listed
<1>1. CASE Tick
  <2>1. /\ UNCHANGED <<boots, running>>
        /\ swarm' = [id \in DOMAIN swarm |-> swarm[id] + 1]
        /\ fresh' = [e \in Engines |-> IF fresh[e] = Never THEN Never ELSE fresh[e] + 1]
    BY <1>1 DEF Tick, lifeVars
  <2>2. d \in running /\ fresh'[d] <= TTL
    BY <2>1 DEF Fresh
  <2>3. fresh'[d] = fresh[d] + 1 /\ fresh[d] <= TTL
    BY <1>0, <2>1, <2>2
  <2>4. Id(d) \in DOMAIN swarm /\ swarm[Id(d)] <= fresh[d] /\ Id(d)' = Id(d)
    BY <2>1, <2>2, <2>3 DEF Fresh, Listed, Id
  <2>5. PICK id \in DOMAIN swarm : id = Id(d)
    BY <2>4
  <2>6. swarm'[id] = swarm[id] + 1 /\ swarm[id] <= fresh[d] /\ id \in DOMAIN swarm'
    BY <2>1, <2>4, <2>5
  <2> QED
    BY <1>0, <2>3, <2>4, <2>5, <2>6
<1>2. ASSUME NEW m \in queue, GetAnswer(m)
      PROVE  Id(d)' \in DOMAIN swarm' /\ swarm'[Id(d)'] <= fresh'[d]
  <2>1. /\ m \in Answers /\ UNCHANGED <<boots, running, swarm>>
        /\ fresh' = [fresh EXCEPT ![m.id[1]] = 0]
    BY <1>2 DEF GetAnswer, lifeVars
  <2>2. Id(d)' = Id(d)
    BY <2>1 DEF Id
  <2>3. CASE d = m.id[1]
    <3>1. m.id = Id(d) /\ m.id \in DOMAIN swarm /\ swarm[m.id] = 0 /\ fresh'[d] = 0
      BY <1>0, <2>1, <2>3, QueueFact DEF Served, Senders, Alive
    <3> QED
      BY <2>1, <2>2, <3>1
  <2>4. CASE d # m.id[1]
    BY <1>0, <2>1, <2>2, <2>4 DEF Fresh, Listed
  <2> QED
    BY <2>3, <2>4
<1>3. ASSUME NEW e \in Engines, Boot(e)
      PROVE  Id(d)' \in DOMAIN swarm' /\ swarm'[Id(d)'] <= fresh'[d]
  <2>1. /\ e \notin running /\ running' = running \cup {e} /\ UNCHANGED <<fresh, swarm>>
        /\ boots' = [boots EXCEPT ![e] = @ + 1]
    BY <1>3 DEF Boot, viewVars
  <2>2. d # e
    <3>1. fresh[e] = TTL + 1
      BY <1>0, <2>1 DEF Life
    <3> QED
      BY <1>0, <2>1, <3>1 DEF Fresh
  <2>3. Fresh(d) /\ Id(d)' = Id(d)
    BY <2>1, <2>2 DEF Fresh, Id, TypeOK
  <2> QED
    BY <2>1, <2>3 DEF Listed
<1>4. ASSUME NEW e \in Engines, Quit(e) \/ Crash(e)
      PROVE  Id(d)' \in DOMAIN swarm' /\ swarm'[Id(d)'] <= fresh'[d]
  <2>1. Forget(e) /\ UNCHANGED <<boots, swarm>>
    BY <1>4, LeaveEffect
  <2>2. d # e /\ Fresh(d) /\ Id(d)' = Id(d) /\ fresh'[d] = fresh[d]
    BY <1>0, <2>1 DEF Forget, Fresh, Id
  <2> QED
    BY <2>1, <2>2 DEF Listed
<1>5. ASSUME NEW m \in queue, HandleAnnounce(m)
      PROVE  Id(d)' \in DOMAIN swarm' /\ swarm'[Id(d)'] <= fresh'[d]
  <2>1. /\ UNCHANGED <<boots, running, fresh>>
        /\ m.event = "stopped" => /\ ~Alive(m.id) /\ m.awaited = FALSE
                                  /\ DOMAIN swarm' = DOMAIN swarm \ {m.id}
                                  /\ \A id \in DOMAIN swarm' : swarm'[id] = swarm[id]
        /\ m.event # "stopped" => /\ DOMAIN swarm' = DOMAIN swarm \cup {m.id}
                                  /\ swarm'[m.id] = 0
                                  /\ \A id \in DOMAIN swarm : id # m.id => swarm'[id] = swarm[id]
    BY <1>5, HandleEffect
  <2>2. Fresh(d) /\ Id(d)' = Id(d)
    BY <2>1 DEF Fresh, Id
  <2>3. /\ Id(d) \in DOMAIN swarm /\ swarm[Id(d)] <= fresh[d]
        /\ Alive(Id(d)) /\ fresh[d] >= 0
    BY <1>0, <2>2, IdFact DEF Listed, Fresh
  <2> QED
    BY <2>1, <2>2, <2>3
<1>6. CASE Sweep
  <2>1. /\ UNCHANGED <<boots, running, fresh>>
        /\ \A id \in DOMAIN swarm : ~(swarm[id] > TTL) => id \in DOMAIN swarm' /\ swarm'[id] = swarm[id]
    BY <1>6 DEF Sweep, Without, Stale, lifeVars, viewVars
  <2>2. Fresh(d) /\ Id(d)' = Id(d)
    BY <2>1 DEF Fresh, Id
  <2>3. Id(d) \in DOMAIN swarm /\ swarm[Id(d)] <= fresh[d] /\ fresh[d] <= TTL
    BY <2>2 DEF Listed, Fresh
  <2>4. ~(swarm[Id(d)] > TTL)
    BY <1>0, <2>3
  <2> QED
    BY <2>1, <2>2, <2>3, <2>4
<1>7. CASE UNCHANGED <<swarm, gcIn>> /\ UNCHANGED <<boots, running, told, fresh>>
  BY <1>7 DEF Listed, Fresh, Id
<1> QED
  BY <1>1, <1>2, <1>3, <1>4, <1>5, <1>6, <1>7, EnginesStay, ListStays

LEMMA AgeStep ==
  ASSUME TypeOK, Senders, Age, [Next]_vars
  PROVE  Age'
<1>0. /\ gcIn \in 0 .. GcPeriod /\ \A id \in DOMAIN swarm : swarm[id] \in Nat
      /\ TTL \in Nat /\ GcPeriod \in Nat
  BY NumbersFact DEF TypeOK
<1>1. ASSUME NEW m \in queue, HandleAnnounce(m)
      PROVE  Age'
  <2>1. /\ gcIn' = gcIn
        /\ m.event = "stopped" => /\ DOMAIN swarm' = DOMAIN swarm \ {m.id}
                                  /\ \A id \in DOMAIN swarm' : swarm'[id] = swarm[id]
        /\ m.event # "stopped" => /\ DOMAIN swarm' = DOMAIN swarm \cup {m.id}
                                  /\ swarm'[m.id] = 0
                                  /\ \A id \in DOMAIN swarm : id # m.id => swarm'[id] = swarm[id]
    BY <1>1, HandleEffect
  <2>2. \A id \in DOMAIN swarm' : swarm'[id] = 0 \/ (id \in DOMAIN swarm /\ swarm'[id] = swarm[id])
    BY <2>1
  <2> QED
    BY <1>0, <2>1, <2>2 DEF Age
<1>2. CASE Sweep
  <2>1. /\ gcIn' = GcPeriod
        /\ \A id \in DOMAIN swarm' : id \in DOMAIN swarm /\ swarm'[id] = swarm[id] /\ ~(swarm[id] > TTL)
    BY <1>2 DEF Sweep, Without, Stale
  <2> QED
    BY <1>0, <2>1 DEF Age
<1>3. CASE Tick
  <2>1. /\ gcIn' = gcIn - 1 /\ swarm' = [id \in DOMAIN swarm |-> swarm[id] + 1]
    BY <1>3 DEF Tick
  <2> QED
    BY <1>0, <2>1 DEF Age
<1>4. CASE UNCHANGED <<swarm, gcIn>>
  BY <1>4 DEF Age
<1> QED
  BY <1>1, <1>2, <1>3, <1>4, ListStays

-----------------------------------------------------------------------------
(* Who has heard of whom                                                   *)

\* An engine that was answered lately, or is about to be, is listed.
LEMMA KnownListed ==
  ASSUME TypeOK, Senders, Life, Served, Listed
  PROVE  /\ \A b \in Engines : Fresh(b) => Id(b) \in DOMAIN swarm /\ Alive(Id(b))
         /\ \A n \in queue \cap Answers :
               /\ n.id \in DOMAIN swarm /\ Alive(n.id)
               /\ n.id[1] \in Engines /\ n.id = Id(n.id[1])
BY IdFact, QueueFact DEF Listed, Fresh, Served, Senders, Alive

\* The list that the handler answers with has everybody who was answered lately.
LEMMA MeetHandle ==
  ASSUME TypeOK, Senders, Life, Served, Listed, Meet, NEW m \in queue, HandleAnnounce(m)
  PROVE  Meet'
<1>1. /\ UNCHANGED <<boots, running, told, fresh>>
      /\ m.event = "stopped" => /\ ~Alive(m.id) /\ m.awaited = FALSE
                                /\ DOMAIN swarm' = DOMAIN swarm \ {m.id}
                                /\ \A id \in DOMAIN swarm' : swarm'[id] = swarm[id]
      /\ m.event # "stopped" => /\ DOMAIN swarm' = DOMAIN swarm \cup {m.id}
                                /\ swarm'[m.id] = 0
                                /\ \A id \in DOMAIN swarm : id # m.id => swarm'[id] = swarm[id]
      /\ \A n \in queue' :
            \/ n \in queue
            \/ /\ n \in Answers /\ n.id = m.id /\ n.peers = DOMAIN swarm' \ {m.id}
               /\ Alive(m.id) /\ m.event # "stopped"
  BY HandleEffect
<1>2. \A a \in Engines : (Fresh(a)' <=> Fresh(a)) /\ Id(a)' = Id(a)
  BY <1>1 DEF Fresh, Id
\* A new answer lists everybody else who counts.
<1>3. ASSUME NEW n \in queue', n \in Answers, n \notin queue
      PROVE  /\ \A b \in Engines : n.id[1] # b /\ Fresh(b) => Id(b) \in n.peers
             /\ \A k \in queue \cap Answers : n.id[1] # k.id[1] => k.id \in n.peers
  <2>1. n.id = m.id /\ n.peers = (DOMAIN swarm \cup {m.id}) \ {m.id} /\ Alive(m.id)
    BY <1>1, <1>3
  <2>2. ASSUME NEW b \in Engines, n.id[1] # b, Fresh(b)
        PROVE  Id(b) \in n.peers
    <3>1. Id(b) \in DOMAIN swarm /\ Id(b)[1] = b
      BY <2>2, KnownListed, IdFact
    <3> QED
      BY <2>1, <2>2, <3>1
  <2>3. ASSUME NEW k \in queue \cap Answers, n.id[1] # k.id[1]
        PROVE  k.id \in n.peers
    <3>1. k.id \in DOMAIN swarm
      BY KnownListed
    <3> QED
      BY <2>1, <2>3, <3>1
  <2> QED
    BY <2>2, <2>3
<1>4. \A a, b \in Engines : a # b /\ Fresh(a)' /\ Fresh(b)' => FreshPair(a, b)'
  BY <1>1, <1>2 DEF Meet, FreshPair
<1>5. ASSUME NEW n \in queue' \cap Answers, NEW b \in Engines, n.id[1] # b, Fresh(b)'
      PROVE  ServedPair(n, b)'
  <2>1. CASE n \in queue
    BY <1>1, <1>2, <1>5, <2>1 DEF Meet, ServedPair
  <2>2. CASE n \notin queue
    BY <1>1, <1>2, <1>3, <1>5, <2>2 DEF ServedPair
  <2> QED
    BY <2>1, <2>2
<1>6. ASSUME NEW n \in queue' \cap Answers, NEW k \in queue' \cap Answers, n.id[1] # k.id[1]
      PROVE  ServedTwo(n, k)'
  <2>1. CASE n \in queue /\ k \in queue
    BY <1>1, <1>6, <2>1 DEF Meet, ServedTwo
  <2>2. CASE n \notin queue /\ k \in queue
    BY <1>3, <1>6, <2>2 DEF ServedTwo
  <2>3. CASE n \in queue /\ k \notin queue
    BY <1>3, <1>6, <2>3 DEF ServedTwo
  <2>4. CASE n \notin queue /\ k \notin queue
    BY <1>1, <1>6, <2>4
  <2> QED
    BY <2>1, <2>2, <2>3, <2>4
<1> QED
  BY <1>4, <1>5, <1>6 DEF Meet

\* An answer that arrives turns what was about to be known into what is.
LEMMA MeetAnswer ==
  ASSUME TypeOK, Senders, Life, Served, Listed, Meet, NEW m \in queue, GetAnswer(m)
  PROVE  Meet'
<1> DEFINE e == m.id[1]
<1>1. /\ m \in Answers /\ UNCHANGED <<boots, running>> /\ queue' = queue \ {m}
      /\ told' = [told EXCEPT ![e] = @ \cup m.peers]
      /\ fresh' = [fresh EXCEPT ![e] = 0]
  BY DEF GetAnswer, lifeVars
<1>2. e \in Engines /\ e \in running /\ m.id = Id(e)
  BY <1>1, KnownListed DEF Alive
<1>3. /\ told \in [Engines -> SUBSET Ids] /\ fresh \in [Engines -> 0 .. Never]
  BY DEF TypeOK
<1>4. /\ told'[e] = told[e] \cup m.peers
      /\ \A a \in Engines : a # e => told'[a] = told[a] /\ (Fresh(a)' <=> Fresh(a))
      /\ \A a \in Engines : told[a] \subseteq told'[a] /\ Id(a)' = Id(a)
  BY <1>1, <1>2, <1>3 DEF Fresh, Id
<1> HIDE DEF e
<1>5. ASSUME NEW a \in Engines, NEW b \in Engines, a # b, Fresh(a)', Fresh(b)'
      PROVE  FreshPair(a, b)'
  <2>1. CASE a # e /\ b # e
    BY <1>4, <1>5, <2>1 DEF Meet, FreshPair
  <2>2. ASSUME NEW c \in Engines, c # e, Fresh(c)
        PROVE  Id(c) \in told'[e] \/ Id(e) \in told'[c]
    <3>1. m.id[1] # c /\ m \in queue \cap Answers
      BY <1>1, <2>2 DEF e
    <3>2. ServedPair(m, c)
      BY <2>2, <3>1 DEF Meet
    <3> QED
      BY <1>2, <1>4, <2>2, <3>2 DEF ServedPair, e
  <2>3. CASE a = e
    BY <1>4, <1>5, <2>2, <2>3 DEF FreshPair
  <2>4. CASE b = e
    BY <1>4, <1>5, <2>2, <2>4 DEF FreshPair
  <2> QED
    BY <2>1, <2>3, <2>4
<1>6. ASSUME NEW n \in queue' \cap Answers, NEW b \in Engines, n.id[1] # b, Fresh(b)'
      PROVE  ServedPair(n, b)'
  <2>0. n \in queue \cap Answers /\ n.id[1] \in Engines /\ n.id = Id(n.id[1])
    BY <1>1, <1>6, KnownListed
  <2>1. CASE b # e
    <3>1. ServedPair(n, b)
      BY <1>4, <1>6, <2>0, <2>1 DEF Meet
    <3> QED
      BY <1>4, <2>0, <3>1 DEF ServedPair
  <2>2. CASE b = e
    <3>1. ServedTwo(n, m)
      BY <1>1, <1>6, <2>0, <2>2 DEF Meet, e
    <3> QED
      BY <1>2, <1>4, <2>0, <2>2, <3>1 DEF ServedPair, ServedTwo, e
  <2> QED
    BY <2>1, <2>2
<1>7. ASSUME NEW n \in queue' \cap Answers, NEW k \in queue' \cap Answers, n.id[1] # k.id[1]
      PROVE  ServedTwo(n, k)'
  <2>1. n \in queue \cap Answers /\ k \in queue \cap Answers
    BY <1>1, <1>7
  <2>2. n.id[1] \in Engines /\ k.id[1] \in Engines /\ ServedTwo(n, k)
    BY <1>7, <2>1, KnownListed DEF Meet
  <2> QED
    BY <1>4, <2>2 DEF ServedTwo
<1> QED
  BY <1>5, <1>6, <1>7 DEF Meet

LEMMA MeetStep ==
  ASSUME TypeOK, Senders, Life, Served, Listed, Meet, [Next]_vars
  PROVE  Meet'
<1>0. /\ fresh \in [Engines -> 0 .. TTL + 1] /\ told \in [Engines -> SUBSET Ids]
      /\ TTL \in Nat /\ Never = TTL + 1 /\ running \subseteq Engines
      /\ DOMAIN boots = Engines
  BY NumbersFact DEF TypeOK
\* Nobody is answered and nobody forgets.
<1>1. ASSUME queue' \cap Answers \subseteq queue,
             \A a \in Engines : Fresh(a)' => Fresh(a) /\ Id(a)' = Id(a),
             \A a \in Engines : a \in running' => told'[a] = told[a],
             \A n \in queue' \cap Answers : n.id[1] \in running' /\ n.id[1] \in Engines
      PROVE  Meet'
  <2>1. \A a, b \in Engines : a # b /\ Fresh(a)' /\ Fresh(b)' => FreshPair(a, b)'
    BY <1>1 DEF Meet, FreshPair, Fresh
  <2>2. \A n \in queue' \cap Answers, b \in Engines :
           n.id[1] # b /\ Fresh(b)' => ServedPair(n, b)'
    BY <1>1 DEF Meet, ServedPair, Fresh
  <2>3. \A n, k \in queue' \cap Answers : n.id[1] # k.id[1] => ServedTwo(n, k)'
    BY <1>1 DEF Meet, ServedTwo
  <2> QED
    BY <2>1, <2>2, <2>3 DEF Meet
<1>2. \A n \in queue' \cap Answers : n.id[1] \in running' /\ n.id[1] \in Engines
  <2>1. TypeOK' /\ Senders'
    BY TypeStep, SendersStep
  <2>2. ASSUME TypeOK', Senders'
        PROVE  \A n \in queue' \cap Answers : n.id[1] \in running' /\ n.id[1] \in Engines
    <3>1. queue' \subseteq Requests \cup Answers /\ running' \subseteq Engines
      BY <2>2 DEF TypeOK
    <3>2. \A n \in queue' \cap Answers : n \notin Requests
      BY KindsDiffer
    <3>3. \A n \in queue' \cap Answers : n.id[1] \in running'
      BY <2>2, <3>2 DEF Senders, Waits, Alive
    <3> QED
      BY <3>1, <3>3
  <2> QED
    BY <2>1, <2>2
<1>3. CASE \E m \in queue : HandleAnnounce(m)
  BY <1>3, MeetHandle
<1>4. CASE \E m \in queue : GetAnswer(m)
  BY <1>4, MeetAnswer
<1>5. CASE Tick
  <2>1. /\ UNCHANGED <<boots, running, told, queue>>
        /\ fresh' = [e \in Engines |-> IF fresh[e] = Never THEN Never ELSE fresh[e] + 1]
    BY <1>5 DEF Tick, lifeVars
  <2>2. \A a \in Engines : fresh'[a] <= TTL => fresh[a] <= TTL
    BY <1>0, <2>1
  <2>3. \A a \in Engines : Fresh(a)' => Fresh(a) /\ Id(a)' = Id(a)
    BY <2>1, <2>2 DEF Fresh, Id
  <2> QED
    BY <1>1, <1>2, <2>1, <2>3
<1>6. CASE /\ UNCHANGED <<boots, running, told, fresh>>
           /\ queue' \cap Answers \subseteq queue
  <2>1. \A a \in Engines : Fresh(a)' => Fresh(a) /\ Id(a)' = Id(a)
    BY <1>6 DEF Fresh, Id
  <2> QED
    BY <1>1, <1>2, <1>6, <2>1
<1>7. ASSUME NEW e \in Engines, Boot(e)
      PROVE  Meet'
  <2>1. /\ e \notin running /\ running' = running \cup {e}
        /\ UNCHANGED <<fresh, told, queue>> /\ boots' = [boots EXCEPT ![e] = @ + 1]
    BY <1>7 DEF Boot, viewVars
  <2>2. fresh[e] = TTL + 1 /\ ~(fresh[e] <= TTL)
    <3>1. fresh[e] = TTL + 1
      BY <1>0, <2>1 DEF Life
    <3> QED
      BY <1>0, <3>1
  <2>3. \A a \in Engines : Fresh(a)' => Fresh(a) /\ Id(a)' = Id(a)
    BY <1>0, <2>1, <2>2 DEF Fresh, Id
  <2> QED
    BY <1>1, <1>2, <2>1, <2>3
<1>8. ASSUME NEW e \in Engines, Quit(e) \/ Crash(e)
      PROVE  Meet'
  <2>1. Forget(e) /\ boots' = boots
    BY <1>8, LeaveEffect
  <2>2. /\ \A a \in Engines : Fresh(a)' => Fresh(a) /\ Id(a)' = Id(a)
        /\ \A a \in Engines : a \in running' => told'[a] = told[a]
    BY <1>0, <2>1 DEF Forget, Fresh, Id
  <2>3. queue' \cap Answers \subseteq queue
    BY <1>8, LeaveEffect, KindsDiffer
  <2> QED
    BY <1>1, <1>2, <2>2, <2>3
<1> QED
  BY <1>3, <1>4, <1>5, <1>6, <1>7, <1>8, EnginesStay, AnswersStay

-----------------------------------------------------------------------------
(* The theorems                                                            *)

\* Each part of the invariant is kept by every step.
LEMMA Invariant == Spec => []IInv
<1>1. Init => IInv
  <2> SUFFICES ASSUME Init PROVE IInv
    OBVIOUS
  <2>1. TypeOK
    <3>1. /\ 0 \in 0 .. Interval /\ Never \in 0 .. Never /\ GcPeriod \in 0 .. GcPeriod
          /\ \A e \in Engines : 0 \in 0 .. MaxBoots[e]
      BY NumbersFact
    <3>2. DOMAIN swarm = {} /\ queue = {} /\ running = {}
      BY DEF Init
    <3> QED
      BY <3>1, <3>2 DEF Init, TypeOK
  <2>2. queue = {} /\ running = {} /\ DOMAIN swarm = {}
    BY DEF Init
  <2>3. Senders /\ Served /\ Age /\ Listed /\ Meet
    BY <2>2 DEF Senders, Served, Age, Listed, Meet, Fresh
  <2>4. Life
    BY <2>2 DEF Life, Init
  <2> QED
    BY <2>1, <2>3, <2>4 DEF IInv
<1>2. IInv /\ [Next]_vars => IInv'
  <2> SUFFICES ASSUME IInv, [Next]_vars PROVE IInv'
    OBVIOUS
  <2>1. TypeOK' /\ Senders' /\ Life'
    BY TypeStep, SendersStep, LifeStep DEF IInv
  <2>2. Served' /\ Listed' /\ Age'
    BY ServedStep, ListedStep, AgeStep DEF IInv
  <2>3. Meet'
    BY MeetStep DEF IInv
  <2> QED
    BY <2>1, <2>2, <2>3 DEF IInv
<1> QED
  BY <1>1, <1>2, PTL DEF Spec

\* Every variable keeps its type.
THEOREM TypeCorrect == Spec => []TypeOK
<1>1. IInv => TypeOK
  BY DEF IInv
<1> QED
  BY <1>1, Invariant, PTL

\* Of two engines that were answered within the TTL, one has heard of the other,
\* however their requests, timeouts and restarts interleave.
THEOREM RendezvousAlways == Spec => []Rendezvous
<1>1. IInv => Rendezvous
  BY DEF IInv, Meet, FreshPair, Rendezvous
<1> QED
  BY <1>1, Invariant, PTL

\* Neither a late stopped announce nor a sweep takes an engine off the list that
\* was answered within the TTL.
THEOREM SteadyPeersListedAlways == Spec => []SteadyPeersListed
<1>1. IInv => SteadyPeersListed
  BY DEF IInv, Listed, SteadyPeersListed
<1> QED
  BY <1>1, Invariant, PTL

\* No entry gets older than the TTL and one period of the sweep.
THEOREM GhostsVanishAlways == Spec => []GhostsVanish
<1>1. ASSUME IInv
      PROVE  GhostsVanish
  <2>1. /\ gcIn \in 0 .. GcPeriod /\ \A id \in DOMAIN swarm : swarm[id] \in Nat
        /\ TTL \in Nat /\ GcPeriod \in Nat
    BY <1>1, NumbersFact DEF IInv, TypeOK
  <2> QED
    BY <1>1, <2>1 DEF IInv, Age, GhostsVanish
<1> QED
  BY <1>1, Invariant, PTL
=============================================================================
