----------------------------- MODULE MCConnPool -----------------------------
(* Small instances of ConnPool for TLC: one connection fewer than requests.   *)
EXTENDS ConnPool

\* The shapes of Script: a statement before and after a transaction, a
\* transaction alone, statements alone, and the health check.
Shapes == {"register", "refresh", "forgot", "readyz"}
=============================================================================
