---------------------------- MODULE MCRateLimit -----------------------------
(* Constants of the TLC runs of RateLimit.                                   *)
EXTENDS RateLimit, TLC

WindowPaths == {"refresh", "other", "healthz"}
KeyPaths    == {"login"}
\* Requests per window and ticks of a window.
TwoOrOne    == [p \in Path |-> IF p = "refresh" THEN 2 ELSE 1]
TwoEach     == [p \in Path |-> 2]
OneTick     == [p \in Path |-> 1]
Symmetry    == Permutations(Req)
=============================================================================
