--------------------------- MODULE DriverContract ---------------------------
(***************************************************************************)
(* How the engine.Driver values (internal/engine/driver.go) of a run are   *)
(* used: each gets one Start, then AddTorrent and Stats calls one at a     *)
(* time, then at most one Stop while no call is in progress.  The drivers  *)
(* rely on it: Start and Stop write their fields without a lock.           *)
(***************************************************************************)
CONSTANT Drivers

VARIABLES
    life,       \* the phase of each driver
    busy        \* drivers with an AddTorrent or a Stats call in progress

vars == <<life, busy>>

Init == life = [d \in Drivers |-> "new"] /\ busy = {}

Move(d, from, to) ==
    /\ life[d] = from /\ d \notin busy
    /\ life' = [life EXCEPT ![d] = to]
    /\ UNCHANGED busy

\* "starting" once the engine process or container exists; Start may also
\* return an error before that.
Start(d)     == Move(d, "new", "starting")
StartOk(d)   == Move(d, "starting", "ready")
StartFail(d) == Move(d, "new", "failed") \/ Move(d, "starting", "failed")
Stop(d)      == Move(d, "ready", "stopped")

BeginCall(d) ==
    /\ life[d] = "ready" /\ d \notin busy
    /\ busy' = busy \cup {d} /\ UNCHANGED life

EndCall(d) == d \in busy /\ busy' = busy \ {d} /\ UNCHANGED life

Next == \E d \in Drivers :
    Start(d) \/ StartOk(d) \/ StartFail(d) \/ BeginCall(d) \/ EndCall(d) \/ Stop(d)

Spec == Init /\ [][Next]_vars
=============================================================================
