----------------------------- MODULE MCTracker -----------------------------
(* TLC instances of Tracker. *)
EXTENDS Tracker

CONSTANTS e1, e2

\* One engine is started a second time.
OneRestart == [e \in Engines |-> IF e = e1 THEN 2 ELSE 1]
=============================================================================
