--------------------------- MODULE AuthRefinement ---------------------------
(* AuthService keeps the book of SessionLedger: the mapping.                  *)
EXTENDS AuthServiceInv

\* Who a committed refresh token belongs to; a request that has not issued
\* one yet has nothing in the book.
holder == [t \in Req |-> IF tokens[t] = "none" THEN NoRow ELSE seen[t]]

parent == [t \in Req |->
    IF tokens[t] # "none" /\ Op(t) = "refresh" THEN call[t].arg ELSE None]

\* A revoker that is still being served.
asked == [r \in Req |->
    IF Op(r) \in Revokers /\ pc[r] \in Steps THEN before[r] ELSE {}]

Ledger == INSTANCE SessionLedger
    WITH Session <- Req, account <- users, session <- tokens

\* Every step of the service is one entry in the book, or none: whatever the
\* interleaving, a refresh token is handed on once and whole, or not at all;
\* sessions end only with a new token_version of their account; and the end
\* of a user's sessions reaches at least those that existed when it was asked
\* for (Register, Login, Refresh, Logout, ResetPassword and ChangePassword).
KeepsTheBook == Ledger!Spec
=============================================================================
