---------------------------- MODULE MCDriverLife ----------------------------
(* TLC instances of DriverLife. *)
EXTENDS DriverLife
=============================================================================
