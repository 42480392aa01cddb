----------------------------- MODULE RpcClient -----------------------------
(***************************************************************************)
(* What TyphonDriver.call (internal/engine/typhon.go) promises to the rest *)
(* of the harness, whatever goroutines, channels and locks it is made of:  *)
(* every call that was issued ends once, with the engine's own reply to    *)
(* that very call, with an error because the connection is down, or        *)
(* because its context expired.                                            *)
(***************************************************************************)
CONSTANT Ids        \* the identifiers handed out by idSeq

VARIABLES
    call,           \* call[i]: how far the call with identifier i has come
    served,         \* the calls the engine has executed and replied to
    down            \* the connection to the engine is lost

vars == <<call, served, down>>

Finished == {"answered", "failed", "expired"}

TypeOK ==
    /\ call \in [Ids -> {"unused", "open"} \cup Finished]
    /\ served \subseteq Ids
    /\ down \in BOOLEAN

Init ==
    /\ call = [i \in Ids |-> "unused"]
    /\ served = {}
    /\ down = FALSE

Move(i, from, to) == call[i] = from /\ call' = [call EXCEPT ![i] = to]

Open(i) == Move(i, "unused", "open") /\ UNCHANGED <<served, down>>

\* The engine executes an open request, or one whose caller has given up.
Serve(i) ==
    /\ call[i] \in {"open", "expired", "failed"}
    /\ i \notin served
    /\ served' = served \cup {i}
    /\ UNCHANGED <<call, down>>

Disconnect == ~down /\ down' = TRUE /\ UNCHANGED <<call, served>>

Answer(i) == i \in served /\ Move(i, "open", "answered") /\ UNCHANGED <<served, down>>

Fail(i) == down /\ Move(i, "open", "failed") /\ UNCHANGED <<served, down>>

Expire(i) == Move(i, "open", "expired") /\ UNCHANGED <<served, down>>

Next ==
    \/ Disconnect
    \/ \E i \in Ids : Open(i) \/ Serve(i) \/ Answer(i) \/ Fail(i) \/ Expire(i)

Spec == Init /\ [][Next]_vars
=============================================================================
