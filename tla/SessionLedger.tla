--------------------------- MODULE SessionLedger ---------------------------
(***************************************************************************)
(* What the credential service promises, as a book in which every entry is *)
(* one step: accounts, and sessions that are opened, handed on to exactly  *)
(* one successor, or ended together with the password or version of their  *)
(* account.  There are no transactions, locks or stale reads here; that    *)
(* AuthService implements this book says that its own have no effect on    *)
(* what a client can observe in the tables.                                *)
(***************************************************************************)
EXTENDS Integers

CONSTANTS Session, User, Org, Password, None

VARIABLES
    account,    \* of each user: owner, password, version
    session,    \* "none", "live" or "revoked"
    holder,     \* of each session: user, organisation, version and password
    parent,     \* the session it succeeds, None if it was opened by a login
    asked       \* the sessions a request to end a user's sessions has to end

vars == <<account, session, holder, parent, asked>>

Sessions(u) == {s \in Session : session[s] # "none" /\ holder[s].user = u}

\* What a session opened now for user u in organisation o may carry: a version
\* of the account, with the password in force if it is the current version.
\* An older one is a session whose access token is refused from the start.
Carries(s, u, o) == \E v \in 0..account[u].ver, p \in Password :
    /\ v = account[u].ver => p = account[u].hash
    /\ holder' = [holder EXCEPT ![s] = [user |-> u, ver |-> v, hash |-> p, org |-> o]]

Init ==
    /\ account = [u \in User |-> [id |-> None, hash |-> None, ver |-> 0]]
    /\ session = [s \in Session |-> "none"]
    /\ holder = [s \in Session |-> [user |-> None, ver |-> 0,
                                    hash |-> None, org |-> None]]
    /\ parent = [s \in Session |-> None]
    /\ asked = [s \in Session |-> {}]

OpenAccount(u) ==
    /\ account[u].id = None
    /\ \E owner \in Session, p \in Password :
          account' = [account EXCEPT ![u] = [id |-> owner, hash |-> p, ver |-> 0]]
    /\ UNCHANGED <<session, holder, parent, asked>>

OpenSession(s) ==
    /\ session[s] = "none"
    /\ session' = [session EXCEPT ![s] = "live"]
    /\ \E u \in User, o \in Org : account[u].id # None /\ Carries(s, u, o)
    /\ UNCHANGED <<account, parent, asked>>

\* The successor belongs to the same user and organisation.
HandOn(t, s) ==
    /\ session[t] = "live"
    /\ session[s] = "none"
    /\ session' = [session EXCEPT ![t] = "revoked", ![s] = "live"]
    /\ Carries(s, holder[t].user, holder[t].org)
    /\ parent' = [parent EXCEPT ![s] = t]
    /\ UNCHANGED <<account, asked>>

AskToEnd(r) ==
    /\ asked[r] = {}
    /\ \E u \in User : asked' = [asked EXCEPT ![r] = Sessions(u)]
    /\ UNCHANGED <<account, session, holder, parent>>

GiveUp(r) ==
    /\ asked' = [asked EXCEPT ![r] = {}]
    /\ UNCHANGED <<account, session, holder, parent>>

\* At least the sessions that r asked for end, and only sessions of u.
EndSessions(r, u) ==
    /\ account[u].id # None
    /\ \E p \in Password :
          account' = [account EXCEPT ![u].ver = @ + 1, ![u].hash = p]
    /\ \E ended \in SUBSET Sessions(u) :
          /\ asked[r] \subseteq ended
          /\ session' = [s \in Session |->
                            IF s \in ended THEN "revoked" ELSE session[s]]
    /\ asked' = [asked EXCEPT ![r] = {}]
    /\ UNCHANGED <<holder, parent>>

Next ==
    \/ \E u \in User : OpenAccount(u)
    \/ \E s \in Session : OpenSession(s) \/ AskToEnd(s) \/ GiveUp(s)
    \/ \E t, s \in Session : HandOn(t, s)
    \/ \E r \in Session, u \in User : EndSessions(r, u)

Spec == Init /\ [][Next]_vars
=============================================================================
