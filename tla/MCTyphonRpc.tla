---------------------------- MODULE MCTyphonRpc ----------------------------
(* TLC instances of TyphonRpc. *)
EXTENDS TyphonRpc
=============================================================================
