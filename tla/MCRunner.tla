------------------------------ MODULE MCRunner ------------------------------
(* TLC instances of Runner. *)
EXTENDS Runner

\* One driver of each kind; the container is stopped last.
OneOfEach == <<"docker", "rain", "typhon">>

\* Two engines, for the runs that look for one violation.
Pair == <<"docker", "typhon">>

\* The code's 10 s and 5 s in units of 5 s (stopCtx is 6 of them), and the same
\* scaled down so that a short run can use stopCtx up.
RealGrace  == [k \in {"typhon", "rain"} |-> IF k = "typhon" THEN 2 ELSE 1]
ShortGrace == [k \in {"typhon", "rain"} |-> 1]
=============================================================================
