---------------------------- MODULE AuthService ----------------------------
(***************************************************************************)
(* The credential service of internal/auth over PostgreSQL and Redis:      *)
(* Register, Login, Refresh, Logout, Me, ForgotPassword, ResetPassword and *)
(* ChangePassword, each run by its own goroutine and interleaved at every  *)
(* storage access.                                                         *)
(*                                                                         *)
(* A member of Req is one HTTP request, used once.  The random secrets the *)
(* server generates while it serves request r (the refresh token, the JWT, *)
(* the password-reset token) are fresh, so each of them is named r too: a  *)
(* refresh token is the request that issued it.  A stored bcrypt hash is   *)
(* the password it verifies.  Every user has one organisation of their own *)
(* (created by Register), named after the user.                            *)
(*                                                                         *)
(* PostgreSQL runs at READ COMMITTED: a statement sees the rows committed  *)
(* when it starts, an UPDATE waits for the transaction that holds the row  *)
(* and then looks at the row again, and a transaction's own writes become  *)
(* visible when it commits.                                                *)
(***************************************************************************)
EXTENDS Integers, FiniteSets

CONSTANTS
    Req,          \* the HTTP requests of a run
    User,         \* the e-mail addresses, after normalizeEmail
    ExtraOrg,     \* organisations that an operator adds users to
    Password,     \* the passwords the clients use
    Strong,       \* those that validatePassword accepts
    Ops,          \* the endpoints that the clients call
    MayFail,      \* whether storage, mail or the process may fail
    MaxExpiries,  \* bound: how many credentials reach their expiry time
    None          \* absent value

Issuers   == {"register", "login", "refresh"}
Consumers == {"refresh", "logout"}
Revokers  == {"logout", "reset", "change"}
AllOps    == Issuers \cup Revokers \cup {"me", "forgot"}

ASSUME NoneAssumption ==
    None \notin Req \cup User \cup ExtraOrg \cup Password
ASSUME InputAssumption ==
    /\ Strong \subseteq Password
    /\ Ops \subseteq AllOps
    /\ MayFail \in BOOLEAN
    /\ MaxExpiries \in Nat

Org == User \cup ExtraOrg

VARIABLES
    users,        \* table users: row id, password_hash, token_version
    memberships,  \* table org_memberships
    tokens,       \* table refresh_tokens: "none" is no row
    resetKeys,    \* the pwreset: keys of Redis and the user each one names
    expired,      \* the credentials whose expiry time has passed
    pc,           \* what each request does next, or how it was answered
    call,         \* the input of each request that its later steps use
    seen,         \* the rows a request has read: what its JWT and token carry
    wrote,        \* refresh_tokens rows an open transaction has updated
    todo,         \* rows a RevokeAllUserRefreshTokens statement has to visit
    before        \* history: the user's tokens when a revoker arrived

db      == <<users, memberships, tokens>>
local   == <<call, seen, before>>
vars    == <<users, memberships, tokens, resetKeys, expired,
             pc, call, seen, wrote, todo, before>>

Kinds  == {"refresh", "access", "reset"}
Steps  == {"createUser", "commitUser", "listMemberships", "issue", "consume",
           "readUser", "readMembership", "commit", "updateUser", "revokeAll",
           "revoking", "checkPassword", "readMe", "setKey", "sendMail"}
\* "lost": the work was committed, but the answer is an error or never arrives.
\* "error": an error was answered, or the request died without an answer.
\* "swallowed": the handler dropped an error and answered success.
\* "noop": success was answered and there was nothing to do.
Answered == {"ok", "lost", "denied", "error", "noop", "swallowed"}
Committed == {"ok", "lost"}
Answers   == IF MayFail THEN Committed ELSE {"ok"}

Row    == [user : User \cup {None}, ver : Nat,
           hash : Password \cup {None}, org : Org \cup {None}]
NoRow  == [user |-> None, ver |-> 0, hash |-> None, org |-> None]
Call   == [op : Ops \cup {None}, arg : Req \cup User \cup {None},
           current : Password \cup {None}, next : Password \cup {None}]
NoCall == [op |-> None, arg |-> None, current |-> None, next |-> None]
NoUser == [id |-> None, hash |-> None, ver |-> 0]

TypeOK ==
    /\ users \in [User -> [id : Req \cup {None},
                           hash : Password \cup {None}, ver : Nat]]
    /\ memberships \in [User -> SUBSET Org]
    /\ tokens \in [Req -> {"none", "live", "revoked"}]
    /\ resetKeys \in [Req -> User \cup {None}]
    /\ expired \subseteq Kinds \X Req
    /\ pc \in [Req -> {"idle"} \cup Steps \cup Answered]
    /\ call \in [Req -> Call]
    /\ seen \in [Req -> Row]
    /\ wrote \in [Req -> SUBSET Req]
    /\ todo \in [Req -> SUBSET Req]
    /\ before \in [Req -> SUBSET Req]

Init ==
    /\ users = [u \in User |-> NoUser]
    /\ memberships = [u \in User |-> {}]
    /\ tokens = [r \in Req |-> "none"]
    /\ resetKeys = [r \in Req |-> None]
    /\ expired = {}
    /\ pc = [r \in Req |-> "idle"]
    /\ call = [r \in Req |-> NoCall]
    /\ seen = [r \in Req |-> NoRow]
    /\ wrote = [r \in Req |-> {}]
    /\ todo = [r \in Req |-> {}]
    /\ before = [r \in Req |-> {}]

-----------------------------------------------------------------------------
(* What requests, rows and locks are to each other.                        *)

Op(r)     == call[r].op
UserOf(r) == seen[r].user

\* The credentials a client holds: those of an answer that reached it.
Held(t)      == pc[t] = "ok" /\ Op(t) \in Issuers
LinkHeld(f)  == pc[f] = "ok" /\ Op(f) = "forgot"

\* The check of the Auth middleware, against the row it reads.
JwtValid(a) ==
    /\ <<"access", a>> \notin expired
    /\ users[UserOf(a)].ver = seen[a].ver

\* What GetUserByID or GetUserByEmail returns of user u.
ReadRow(u, org) ==
    [user |-> u, ver |-> users[u].ver, hash |-> users[u].hash, org |-> org]

\* The rows of user u that a statement started now can see.
TokensOf(u) == {t \in Req : tokens[t] # "none" /\ UserOf(t) = u}

Locked(t, r)     == \E q \in Req \ {r} : t \in wrote[q]
HoldsUser(q, u)  == pc[q] \in {"revokeAll", "revoking"} /\ UserOf(q) = u
Inserting(q, u)  == pc[q] = "commitUser" /\ call[q].arg = u

\* r is queued behind a row that q's open transaction has written.
WaitsFor(r, q) ==
    /\ q # r
    /\ \/ pc[r] = "createUser" /\ Inserting(q, call[r].arg)
       \/ /\ pc[r] = "consume"
          /\ tokens[call[r].arg] = "live"
          /\ call[r].arg \in wrote[q]
       \/ pc[r] = "updateUser" /\ HoldsUser(q, UserOf(r))
       \/ pc[r] = "revoking" /\ todo[r] \cap wrote[q] # {}
\* r is in a circle of requests that each wait for another one of them.
Deadlocked(r) ==
    /\ \E q \in Req : WaitsFor(r, q)
    /\ \E S \in SUBSET Req :
          /\ r \in S
          /\ \A p \in S : /\ \E q \in S : WaitsFor(p, q)
                          /\ \E q \in S : WaitsFor(q, p)

Goto(r, l) == pc' = [pc EXCEPT ![r] = l]

\* A request arrives, is decoded and reaches its first storage access.
Arrive(r, op, arg, current, next, l) ==
    /\ pc[r] = "idle"
    /\ op \in Ops
    /\ call' = [call EXCEPT ![r] = [op |-> op, arg |-> arg,
                                    current |-> current, next |-> next]]
    /\ Goto(r, l)

\* A request refused before it has read or written anything it needs later.
Refuse(r, op, l) ==
    /\ Arrive(r, op, None, None, None, l)
    /\ UNCHANGED <<db, resetKeys, expired, seen, wrote, todo, before>>

\* The request ends without committing: WithTx rolls back what it wrote.
Quit(r, l) ==
    /\ Goto(r, l)
    /\ seen' = [seen EXCEPT ![r] = NoRow]
    /\ wrote' = [wrote EXCEPT ![r] = {}]
    /\ todo' = [todo EXCEPT ![r] = {}]
    /\ before' = [before EXCEPT ![r] = {}]
    /\ UNCHANGED <<db, resetKeys, expired, call>>

-----------------------------------------------------------------------------
(* Register and Login.                                                     *)

\* validatePassword, then the look-up that precedes the transaction.
Register(r) == \E u \in User, p \in Password :
    IF p \in Strong /\ users[u].id = None
    THEN /\ Arrive(r, "register", u, None, p, "createUser")
         /\ UNCHANGED <<db, resetKeys, expired, seen, wrote, todo, before>>
    ELSE Refuse(r, "register", "denied")

\* Mutants (named Mut...) are plausible bugs, kept to show that a property
\* would notice them; no definition uses them.
MutCreateUser(r) ==     \* no unique index on the e-mail
    /\ pc[r] = "createUser"
    /\ Goto(r, "commitUser")
    /\ UNCHANGED <<db, resetKeys, expired, local, wrote, todo>>

\* INSERT INTO users: waits for a concurrent insert of the same e-mail and
\* then meets the unique index.
CreateUser(r) ==
    LET u == call[r].arg IN
    /\ pc[r] = "createUser"
    /\ \A q \in Req \ {r} : ~Inserting(q, u)
    /\ Goto(r, IF users[u].id = None THEN "commitUser" ELSE "denied")
    /\ UNCHANGED <<db, resetKeys, expired, local, wrote, todo>>

\* CreateOrg, CreateOrgMembership and the commit; when the commit's answer is
\* lost the account exists and the client is told that registration failed.
CommitUser(r) ==
    LET u == call[r].arg IN
    /\ pc[r] = "commitUser"
    /\ users' = [users EXCEPT ![u] = [id |-> r, hash |-> call[r].next, ver |-> 0]]
    /\ memberships' = [memberships EXCEPT ![u] = {u}]
    /\ seen' = [seen EXCEPT ![r] = [user |-> u, ver |-> 0,
                                     hash |-> call[r].next, org |-> u]]
    /\ \/ Goto(r, "issue")
       \/ MayFail /\ Goto(r, "error")
    /\ UNCHANGED <<tokens, resetKeys, expired, call, wrote, todo, before>>

\* GetUserByEmail and the comparison with the row it returned.
Login(r) == \E u \in User, p \in Password :
    IF users[u].id # None /\ users[u].hash = p
    THEN /\ Arrive(r, "login", u, None, None, "listMemberships")
         /\ seen' = [seen EXCEPT ![r] = ReadRow(u, None)]
         /\ UNCHANGED <<db, resetKeys, expired, wrote, todo, before>>
    ELSE Refuse(r, "login", "denied")

\* selectMembership: the organisations it accepts for the requested org_id.
Selectable(u, org) ==
    {o \in memberships[u] : o = org \/ (org = None /\ memberships[u] = {o})}

\* ListOrgMembershipsByUser for the org_id the client asked for, None if none.
ListMemberships(r) == \E org \in Org \cup {None} :
    /\ pc[r] = "listMemberships"
    /\ IF Selectable(UserOf(r), org) = {}
       THEN Quit(r, "denied")
       ELSE /\ \E o \in Selectable(UserOf(r), org) :
                  seen' = [seen EXCEPT ![r].org = o]
            /\ Goto(r, "issue")
            /\ UNCHANGED <<db, resetKeys, expired, call, wrote, todo, before>>

\* issueTokens: an insert outside any transaction.
Issue(r) ==
    /\ pc[r] = "issue"
    /\ tokens' = [tokens EXCEPT ![r] = "live"]
    /\ \E l \in Answers : Goto(r, l)
    /\ UNCHANGED <<users, memberships, resetKeys, expired, local, wrote, todo>>

-----------------------------------------------------------------------------
(* Refresh and Logout.                                                     *)

\* BEGIN fixes NOW(), with which ConsumeRefreshToken compares expires_at.
Refresh(r) == \E t \in Req :
    /\ Held(t)
    /\ IF <<"refresh", t>> \in expired
       THEN Refuse(r, "refresh", "denied")
       ELSE /\ Arrive(r, "refresh", t, None, None, "consume")
            /\ UNCHANGED <<db, resetKeys, expired, seen, wrote, todo, before>>

Logout(r) == \E t \in Req :
    /\ Held(t)
    /\ Arrive(r, "logout", t, None, None,
              IF <<"refresh", t>> \in expired THEN "noop" ELSE "consume")
    /\ before' = [before EXCEPT ![r] = TokensOf(UserOf(t))]
    /\ UNCHANGED <<db, resetKeys, expired, seen, wrote, todo>>

MutConsume(r) ==        \* runs on the pool, not on the transaction
    LET t == call[r].arg IN
    /\ pc[r] = "consume"
    /\ tokens[t] = "live"
    /\ tokens' = [tokens EXCEPT ![t] = "revoked"]
    /\ seen' = [seen EXCEPT ![r].user = seen[t].user, ![r].org = seen[t].org]
    /\ Goto(r, IF Op(r) = "refresh" THEN "readUser" ELSE "updateUser")
    /\ UNCHANGED <<users, memberships, resetKeys, expired, call, wrote, todo,
                   before>>

MutCheckFirst(r) ==     \* SELECT ... WHERE revoked = FALSE, UPDATE by id later
    LET t == call[r].arg IN
    /\ pc[r] = "consume"
    /\ tokens[t] = "live"
    /\ wrote' = [wrote EXCEPT ![r] = {t}]
    /\ seen' = [seen EXCEPT ![r].user = seen[t].user, ![r].org = seen[t].org]
    /\ Goto(r, IF Op(r) = "refresh" THEN "readUser" ELSE "updateUser")
    /\ UNCHANGED <<db, resetKeys, expired, call, todo, before>>

\* ConsumeRefreshToken: UPDATE ... WHERE revoked = FALSE RETURNING user and org.
Consume(r) ==
    LET t == call[r].arg IN
    /\ pc[r] = "consume"
    /\ ~Locked(t, r)
    /\ tokens[t] = "live"
    /\ wrote' = [wrote EXCEPT ![r] = {t}]
    /\ seen' = [seen EXCEPT ![r].user = seen[t].user, ![r].org = seen[t].org]
    /\ Goto(r, IF Op(r) = "refresh" THEN "readUser" ELSE "updateUser")
    /\ UNCHANGED <<db, resetKeys, expired, call, todo, before>>

\* No row matches: Refresh answers ErrInvalidToken, Logout answers nil.
ConsumeNothing(r) ==
    /\ pc[r] = "consume"
    /\ tokens[call[r].arg] = "revoked"
    /\ Quit(r, IF Op(r) = "refresh" THEN "denied" ELSE "noop")

\* GetUserByID inside the transaction.
ReadUser(r) ==
    /\ pc[r] = "readUser"
    /\ seen' = [seen EXCEPT ![r] = ReadRow(UserOf(r), seen[r].org)]
    /\ Goto(r, "readMembership")
    /\ UNCHANGED <<db, resetKeys, expired, call, wrote, todo, before>>

MutReadMembership(r) == \* refresh tokens without org_id, as before 00004
    /\ pc[r] = "readMembership"
    /\ \E o \in memberships[UserOf(r)] : seen' = [seen EXCEPT ![r].org = o]
    /\ Goto(r, "commit")
    /\ UNCHANGED <<db, resetKeys, expired, call, wrote, todo, before>>

\* GetOrgMembershipByUser and the uncommitted insert of the successor.
ReadMembership(r) ==
    /\ pc[r] = "readMembership"
    /\ IF seen[r].org \in memberships[UserOf(r)]
       THEN /\ Goto(r, "commit")
            /\ UNCHANGED <<db, resetKeys, expired, local, wrote, todo>>
       ELSE Quit(r, "denied")

\* The rows that r's transaction updated, as others see them once it commits.
Revoke(r, rows) == [t \in Req |-> IF t \in wrote[r] THEN "revoked" ELSE rows[t]]

CommitRotation(r) ==
    /\ pc[r] = "commit"
    /\ tokens' = [Revoke(r, tokens) EXCEPT ![r] = "live"]
    /\ wrote' = [wrote EXCEPT ![r] = {}]
    /\ \E l \in Answers : Goto(r, l)
    /\ UNCHANGED <<users, memberships, resetKeys, expired, local, todo>>

-----------------------------------------------------------------------------
(* What Logout, ResetPassword and ChangePassword end with.                 *)

\* UpdateUserPassword and IncrementUserTokenVersion: both update the users
\* row, so the transaction holds it from here on.
UpdateUser(r) ==
    /\ pc[r] = "updateUser"
    /\ \A q \in Req \ {r} : ~HoldsUser(q, UserOf(r))
    /\ Goto(r, "revokeAll")
    /\ UNCHANGED <<db, resetKeys, expired, local, wrote, todo>>

MutSkipLocked(r) == {t \in TokensOf(UserOf(r)) \ wrote[r] : ~Locked(t, r)}
MutNotOnReset(r) == IF Op(r) = "reset" THEN {} ELSE TokensOf(UserOf(r)) \ wrote[r]

\* The rows that the WHERE of RevokeAllUserRefreshTokens selects.
Covered(r) == TokensOf(UserOf(r)) \ wrote[r]

\* RevokeAllUserRefreshTokens takes its snapshot ...
RevokeAll(r) ==
    /\ pc[r] = "revokeAll"
    /\ todo' = [todo EXCEPT ![r] = Covered(r)]
    /\ Goto(r, "revoking")
    /\ UNCHANGED <<db, resetKeys, expired, local, wrote>>

\* ... and updates the rows one by one, waiting for those that are locked.
RevokeRow(r) == \E t \in todo[r] :
    /\ pc[r] = "revoking"
    /\ ~Locked(t, r)
    /\ wrote' = [wrote EXCEPT ![r] = @ \cup {t}]
    /\ todo' = [todo EXCEPT ![r] = @ \ {t}]
    /\ UNCHANGED <<db, resetKeys, expired, pc, local>>

MutNewVersion(r) ==     \* ResetPassword without IncrementUserTokenVersion
    IF Op(r) = "reset" THEN users[UserOf(r)].ver ELSE users[UserOf(r)].ver + 1
MutOldVersion(r) == users[UserOf(r)].ver - 1

NewVersion(r) == users[UserOf(r)].ver + 1
NewHash(r) == IF Op(r) = "logout" THEN users[UserOf(r)].hash ELSE call[r].next

CommitRevocation(r) ==
    /\ pc[r] = "revoking"
    /\ todo[r] = {}
    /\ users' = [users EXCEPT ![UserOf(r)].ver = NewVersion(r),
                              ![UserOf(r)].hash = NewHash(r)]
    /\ tokens' = Revoke(r, tokens)
    /\ wrote' = [wrote EXCEPT ![r] = {}]
    /\ \E l \in Answers : Goto(r, l)
    /\ UNCHANGED <<memberships, resetKeys, expired, local, todo>>

-----------------------------------------------------------------------------
(* Me and ChangePassword, behind the Auth middleware.                      *)

Me(r) == \E a \in Req :
    /\ Held(a)
    /\ IF JwtValid(a)
       THEN /\ Arrive(r, "me", a, None, None, "readMe")
            /\ seen' = [seen EXCEPT ![r].user = UserOf(a), ![r].org = seen[a].org]
            /\ UNCHANGED <<db, resetKeys, expired, wrote, todo, before>>
       ELSE Refuse(r, "me", "denied")

\* GetUserByID, GetOrg and GetOrgMembershipByUser.
ReadMe(r) ==
    /\ pc[r] = "readMe"
    /\ Goto(r, IF seen[r].org \in memberships[UserOf(r)] THEN "ok" ELSE "error")
    /\ UNCHANGED <<db, resetKeys, expired, local, wrote, todo>>

ChangePassword(r) == \E a \in Req, current \in Password, next \in Password :
    /\ Held(a)
    /\ IF JwtValid(a) /\ next \in Strong
       THEN /\ Arrive(r, "change", a, current, next, "checkPassword")
            /\ seen' = [seen EXCEPT ![r].user = UserOf(a)]
            /\ before' = [before EXCEPT ![r] = TokensOf(UserOf(a))]
            /\ UNCHANGED <<db, resetKeys, expired, wrote, todo>>
       ELSE Refuse(r, "change", "denied")

\* GetUserByID and the comparison, before the transaction begins.
CheckPassword(r) ==
    /\ pc[r] = "checkPassword"
    /\ IF users[UserOf(r)].hash = call[r].current
       THEN /\ Goto(r, "updateUser")
            /\ UNCHANGED <<db, resetKeys, expired, local, wrote, todo>>
       ELSE Quit(r, "denied")

-----------------------------------------------------------------------------
(* ForgotPassword and ResetPassword.                                       *)

ForgotPassword(r) == \E u \in User :
    IF users[u].id = None
    THEN Refuse(r, "forgot", "noop")
    ELSE /\ Arrive(r, "forgot", u, None, None, "setKey")
         /\ seen' = [seen EXCEPT ![r].user = u]
         /\ UNCHANGED <<db, resetKeys, expired, wrote, todo, before>>

SetKey(r) ==
    /\ pc[r] = "setKey"
    /\ resetKeys' = [resetKeys EXCEPT ![r] = UserOf(r)]
    /\ Goto(r, "sendMail")
    /\ UNCHANGED <<db, expired, local, wrote, todo>>

\* A mail that is not sent is logged, and the client still gets its 200.
SendMail(r) ==
    /\ pc[r] = "sendMail"
    /\ \E l \in Answers : Goto(r, l)
    /\ UNCHANGED <<db, resetKeys, expired, local, wrote, todo>>

MutTakeKey(f) == resetKeys      \* GET instead of GETDEL

\* GETDEL leaves Redis without the key.
TakeKey(f) == [resetKeys EXCEPT ![f] = None]

\* validatePassword comes first, then GETDEL takes the key; any error of Redis
\* reads as an invalid token, also when the key is already gone.
ResetPassword(r) == \E f \in Req, next \in Password :
    /\ LinkHeld(f)
    /\ \/ /\ next \in Strong
          /\ resetKeys[f] # None
          /\ Arrive(r, "reset", f, None, next, "updateUser")
          /\ resetKeys' = TakeKey(f)
          /\ seen' = [seen EXCEPT ![r].user = resetKeys[f]]
          /\ before' = [before EXCEPT ![r] = TokensOf(resetKeys[f])]
          /\ UNCHANGED <<db, expired, wrote, todo>>
       \/ /\ next \notin Strong \/ resetKeys[f] = None \/ MayFail
          /\ Refuse(r, "reset", "denied")
       \/ /\ MayFail /\ next \in Strong /\ resetKeys[f] # None
          /\ Arrive(r, "reset", None, None, None, "denied")
          /\ resetKeys' = TakeKey(f)
          /\ UNCHANGED <<db, expired, seen, wrote, todo, before>>

-----------------------------------------------------------------------------
(* The environment.                                                        *)

MutAbort(r) ==          \* WithTx runs an aborted transaction again
    Quit(r, IF Op(r) \in Consumers THEN "consume" ELSE "error")

\* An error of PostgreSQL or Redis: Logout and ForgotPassword answer success
\* all the same (handler.go).
Abort(r) ==
    Quit(r, IF Op(r) \in {"logout", "forgot"} THEN "swallowed" ELSE "error")

\* Such an error, or the end of the client's connection or of the process
\* (then of each of its requests), which nobody answers.
Fail(r) == MayFail /\ pc[r] \in Steps /\ (Abort(r) \/ Quit(r, "error"))

\* PostgreSQL resolves a circle of waiting transactions by aborting one.
DeadlockAbort(r) == Deadlocked(r) /\ Abort(r)

MutEvicted(kind, t) == resetKeys        \* SET without an expiry

\* ForgotPassword's SET gives the key an hour, after which Redis drops it.
Evicted(kind, t) ==
    [resetKeys EXCEPT ![t] = IF kind = "reset" THEN None ELSE @]

\* The credential t reaches its expiry time.
Expire(kind, t) ==
    /\ Cardinality(expired) < MaxExpiries
    /\ \/ kind \in {"refresh", "access"} /\ Held(t)
       \/ kind = "reset" /\ resetKeys[t] # None
    /\ <<kind, t>> \notin expired
    /\ expired' = expired \cup {<<kind, t>>}
    /\ resetKeys' = Evicted(kind, t)
    /\ UNCHANGED <<db, pc, local, wrote, todo>>

\* Nothing in src/ adds a membership after Register; the integration tests do
\* it with CreateOrg and CreateOrgMembership.
AddMembership(u, o) ==
    /\ users[u].id # None
    /\ o \notin memberships[u]
    /\ memberships' = [memberships EXCEPT ![u] = @ \cup {o}]
    /\ UNCHANGED <<users, tokens, resetKeys, expired, pc, local, wrote, todo>>

\* Every request has been answered: a run of the model may stop here.
Idle == (\A r \in Req : pc[r] \in Answered) /\ UNCHANGED vars

-----------------------------------------------------------------------------

Arrival(r) ==
    \/ Register(r) \/ Login(r) \/ Refresh(r) \/ Logout(r)
    \/ Me(r) \/ ChangePassword(r) \/ ForgotPassword(r) \/ ResetPassword(r)

ServerStep(r) ==
    \/ CreateUser(r) \/ CommitUser(r) \/ ListMemberships(r) \/ Issue(r)
    \/ Consume(r) \/ ConsumeNothing(r) \/ ReadUser(r) \/ ReadMembership(r)
    \/ CommitRotation(r) \/ UpdateUser(r) \/ RevokeAll(r) \/ RevokeRow(r)
    \/ CommitRevocation(r) \/ ReadMe(r) \/ CheckPassword(r) \/ SetKey(r)
    \/ SendMail(r)

Next ==
    \/ \E r \in Req : Arrival(r) \/ ServerStep(r) \/ Fail(r) \/ DeadlockAbort(r)
    \/ \E kind \in Kinds, t \in Req : Expire(kind, t)
    \/ \E u \in User, o \in ExtraOrg : AddMembership(u, o)
    \/ Idle

\* The Go scheduler and PostgreSQL keep serving a request that can proceed, and
\* the deadlock detector always fires; clients, clocks and faults owe nothing.
Fairness ==
    \A r \in Req : WF_vars(ServerStep(r)) /\ WF_vars(DeadlockAbort(r))

Spec     == Init /\ [][Next]_vars
FairSpec == Spec /\ Fairness

-----------------------------------------------------------------------------
(* What the service promises.                                              *)

Consumed(r)  == Op(r) \in Consumers /\ pc[r] \in Committed
RevokedBy(r) == Op(r) \in Revokers /\ pc[r] \in Committed
Issued(r)    == Op(r) \in Issuers /\ pc[r] \in Committed
Redeemed(r)  == Op(r) = "reset" /\ pc[r] \notin {"idle", "denied"}

\* A refresh token buys at most one successor, or one logout: of all the
\* requests that present it concurrently one commits, and none finds it usable
\* afterwards (ConsumeRefreshToken, service.go Refresh and Logout).
RotationIsLinear ==
    \A r \in Req : Consumed(r) =>
        /\ tokens[call[r].arg] = "revoked"
        /\ \A q \in Req : Consumed(q) /\ call[q].arg = call[r].arg => q = r

\* A session is lost only to a request that committed: a refresh, logout or
\* password change that is refused, fails half way or is the victim of a
\* deadlock leaves the tokens it had touched usable (WithTx's rollback).
RevokedOnlyByCommitted ==
    \A t \in Req : tokens[t] = "revoked" =>
        \E r \in Req : \/ Consumed(r) /\ call[r].arg = t
                       \/ RevokedBy(r) /\ UserOf(r) = UserOf(t)

\* Two registrations of one e-mail can both pass the look-up; the account
\* belongs to one of them, and the answer of the other one is a refusal
\* (CreateUser under the unique index of users).  An account and the membership
\* in its own organisation are there together or not at all, whatever step of
\* the registration fails (Register's transaction).
AccountHasOneOwner ==
    /\ \A r \in Req : Op(r) = "register" /\ pc[r] \in {"issue"} \cup Committed
                         => users[call[r].arg].id = r
    /\ \A u \in User : IF users[u].id = None THEN memberships[u] = {}
                       ELSE u \in memberships[u]

\* A JWT that still passes the middleware was made from the users row whose
\* password is in force: a password that a login proved and that has been
\* replaced since does not open a door any more.  No interleaving pairs a fresh
\* token_version with an old password_hash (UpdateUserPassword and
\* IncrementUserTokenVersion in one transaction, and Login compares and issues
\* from the same read).
AccessTokenMatchesPassword ==
    \A r \in Req : Issued(r) =>
        /\ seen[r].ver <= users[UserOf(r)].ver
        /\ seen[r].ver = users[UserOf(r)].ver
              => seen[r].hash = users[UserOf(r)].hash

\* When a logout, reset or password change has committed, every session the
\* user had when the request arrived is over: its refresh token is revoked and
\* its JWT carries an old token_version.
RevocationCoversEarlierSessions ==
    \A r \in Req : RevokedBy(r) =>
        \A t \in before[r] : /\ tokens[t] = "revoked"
                             /\ seen[t].ver < users[UserOf(r)].ver

\* A reset link lets at most one request past GETDEL, whatever becomes of that
\* request.
ResetLinkIsSingleUse ==
    \A r \in Req : Redeemed(r) =>
        /\ resetKeys[call[r].arg] = None
        /\ \A q \in Req : Redeemed(q) /\ call[q].arg = call[r].arg => q = r

\* No reset link lets a request past GETDEL once its hour is over, however late
\* the mail was read and whatever else has happened to the account since.
ResetLinkExpires ==
    [][\A r \in Req : ~Redeemed(r) /\ Redeemed(r)'
          => <<"reset", call'[r].arg>> \notin expired]_vars

\* A session stays in the organisation that was chosen at login: no chain of
\* refreshes moves it, and every token names an organisation of its user.
SessionKeepsOrg ==
    \A r \in Req : Issued(r) =>
        /\ seen[r].org \in memberships[UserOf(r)]
        /\ Op(r) = "refresh" => /\ UserOf(r) = UserOf(call[r].arg)
                                /\ seen[r].org = seen[call[r].arg].org

\* An account never changes hands: its row is not replaced, its token_version
\* never goes back (an old JWT would be valid again), and its password only
\* changes together with the version (CommitUser and CommitRevocation).
AccountsOnlyMoveForward ==
    [][\A u \in User : users[u].id # None =>
          /\ users'[u].id = users[u].id
          /\ users'[u].ver >= users[u].ver
          /\ users'[u].hash # users[u].hash => users'[u].ver > users[u].ver]_vars

\* Every request is answered: waiting for rows never becomes waiting for ever,
\* for every transaction ends and the deadlock detector breaks the circles.
EveryRequestAnswered ==
    \A r \in Req : pc[r] \in Steps ~> pc[r] \in Answered

-----------------------------------------------------------------------------
(* What comments of the repository say and the code does not do.           *)

\* handler.go, Logout: "ignore service errors (token may already be revoked)".
\* A client that is answered 204 holds a refresh token that no longer works.
LogoutAnsweredMeansRevoked ==
    \A r \in Req : Op(r) = "logout" /\ pc[r] \in {"ok", "noop", "swallowed"} =>
        \/ tokens[call[r].arg] = "revoked"
        \/ <<"refresh", call[r].arg>> \in expired

\* 00002_auth.sql: "Refresh tokens stored server-side; revoked on logout".
\* A session that existed when the logout arrived is over when the logout is
\* done, also when it was being refreshed at that moment.
LogoutEndsRefreshedSessions ==
    \A r, t \in Req :
        /\ Op(r) = "logout" /\ RevokedBy(r)
        /\ Op(t) = "refresh" /\ call[t].arg \in before[r]
        => tokens[t] # "live"
=============================================================================
