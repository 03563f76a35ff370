--------------------------- MODULE MCAuthService ---------------------------
(* Small instances of AuthService for TLC.  One user suffices for a property  *)
(* of one account; the requests are what has to be plentiful.                *)
EXTENDS AuthRefinement, TLC

\* The endpoints of the runs.
AllEndpoints == AllOps
SessionOps   == {"register", "login", "refresh", "logout"}
LogoutOps    == {"register", "refresh", "logout"}
PasswordOps  == {"register", "login", "forgot", "reset", "change"}

\* Requests are interchangeable, and so are users with their organisations: no
\* action tells one from another.
Symmetry == Permutations(Req) \cup Permutations(User)
=============================================================================
