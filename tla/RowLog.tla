------------------------------- MODULE RowLog -------------------------------
(***************************************************************************)
(* What a metrics.Writer promises (internal/metrics/csv.go): a log of rows *)
(* in one order for all goroutines, of which the file holds a growing      *)
(* prefix, counted in cells, that may end inside a row.  Nothing is        *)
(* promised about when a row gets there, but a Close that returns nil says *)
(* that all of them did.                                                   *)
(***************************************************************************)
EXTENDS Naturals, Sequences

CONSTANTS
    Rows,       \* what can be written
    Width       \* cells of a row

VARIABLES
    rows,       \* the rows in the order they were taken
    kept,       \* cells that are in the file
    state       \* "open", "closed" without or "failed" with an error, or "dead"

vars == <<rows, kept, state>>

Init == rows = <<>> /\ kept = 0 /\ state = "open"

Add(r) ==
    /\ state = "open"
    /\ r \notin {rows[i] : i \in DOMAIN rows}
    /\ rows' = Append(rows, r)
    /\ UNCHANGED <<kept, state>>

Persist ==
    /\ state = "open"
    /\ kept' \in kept .. Width * Len(rows)
    /\ UNCHANGED <<rows, state>>

Close ==
    /\ state = "open" /\ kept = Width * Len(rows)
    /\ state' = "closed" /\ UNCHANGED <<rows, kept>>

CloseFails ==
    /\ state = "open"
    /\ state' = "failed" /\ UNCHANGED <<rows, kept>>

\* The process ends without Close.
Die ==
    /\ state # "dead"
    /\ state' = "dead" /\ UNCHANGED <<rows, kept>>

Next == (\E r \in Rows : Add(r)) \/ Persist \/ Close \/ CloseFails \/ Die

Spec == Init /\ [][Next]_vars
=============================================================================
