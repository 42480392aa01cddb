---------------------------- MODULE MCCsvWriter ----------------------------
(* TLC instances of CsvWriter. *)
EXTENDS CsvWriter

CONSTANTS g1, g2
=============================================================================
