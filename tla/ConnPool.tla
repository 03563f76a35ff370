------------------------------ MODULE ConnPool ------------------------------
(***************************************************************************)
(* The PostgreSQL connections of database.New and the requests that share  *)
(* them: every statement outside a transaction takes a connection for      *)
(* itself, a transaction keeps one from BEGIN to COMMIT or ROLLBACK and    *)
(* waits for rows with it, and Readyz gives up after five seconds.         *)
(*                                                                         *)
(* A request that waits for a connection waits without a limit of its own: *)
(* http.Server's timeouts do not cancel the context, only a client that    *)
(* goes away does.                                                         *)
(***************************************************************************)
EXTENDS Integers, Sequences, FiniteSets

CONSTANTS
    Req,        \* the requests of a run, each used once
    User,       \* the accounts whose rows transactions update
    MaxConns,   \* connections of the pool
    Ops,        \* the endpoints that the clients call
    MayCancel,  \* whether clients go away before their answer
    None        \* no transaction, no account

\* What each endpoint asks the pool for, one element for each connection it
\* takes: the middleware's GetUserByID comes first for Me and ChangePassword.
Script ==
    [register |-> <<"query", "tx", "query">>,
     login    |-> <<"query", "query", "query">>,
     refresh  |-> <<"tx">>,
     logout   |-> <<"tx">>,
     me       |-> <<"query", "query", "query", "query">>,
     change   |-> <<"query", "query", "tx">>,
     forgot   |-> <<"query">>,
     reset    |-> <<"tx">>,
     readyz   |-> <<"query">>]

ASSUME PoolAssumption ==
    /\ MaxConns \in Nat \ {0}
    /\ Ops \subseteq DOMAIN Script
    /\ MayCancel \in BOOLEAN
    /\ None \notin Req \cup User

VARIABLES
    pc,         \* what each request is doing
    op, user,   \* its endpoint and account
    todo,       \* the connections it still has to ask for
    healthy,    \* Readyz's verdict
    holders,    \* the requests that hold a connection
    owner       \* the transaction that has updated a user's rows

vars == <<pc, op, user, todo, healthy, holders, owner>>

Holding  == {"query", "tx", "locked"}
Answered == {"answered", "gone"}

TypeOK ==
    /\ pc \in [Req -> {"idle", "next", "waiting"} \cup Holding \cup Answered]
    /\ op \in [Req -> Ops \cup {"none"}]
    /\ user \in [Req -> User \cup {None}]
    /\ todo \in [Req -> Seq({"query", "tx"})]
    /\ healthy \in [Req -> BOOLEAN]
    /\ holders \subseteq Req
    /\ owner \in [User -> Req \cup {None}]

Init ==
    /\ pc = [r \in Req |-> "idle"]
    /\ op = [r \in Req |-> "none"]
    /\ user = [r \in Req |-> None]
    /\ todo = [r \in Req |-> <<>>]
    /\ healthy = [r \in Req |-> TRUE]
    /\ holders = {}
    /\ owner = [u \in User |-> None]

Goto(r, from, to) ==
    /\ pc[r] \in from
    /\ pc' = [pc EXCEPT ![r] = to]

\* The connection goes back, and the rows with it.
Release(r) ==
    /\ holders' = holders \ {r}
    /\ owner' = [u \in User |-> IF owner[u] = r THEN None ELSE owner[u]]

-----------------------------------------------------------------------------

Arrive(r) == \E o \in Ops, u \in User :
    /\ Goto(r, {"idle"}, "next")
    /\ op' = [op EXCEPT ![r] = o]
    /\ user' = [user EXCEPT ![r] = u]
    /\ todo' = [todo EXCEPT ![r] = Script[o]]
    /\ UNCHANGED <<healthy, holders, owner>>

\* pool.Acquire, as every query and every Begin does it.
Ask(r) ==
    /\ todo[r] # <<>>
    /\ Goto(r, {"next"}, "waiting")
    /\ UNCHANGED <<op, user, todo, healthy, holders, owner>>

\* pgxpool hands a connection out while there is one left of MaxConns.
Acquire(r) ==
    /\ Cardinality(holders) < MaxConns
    /\ Goto(r, {"waiting"}, Head(todo[r]))
    /\ holders' = holders \cup {r}
    /\ todo' = [todo EXCEPT ![r] = Tail(@)]
    /\ UNCHANGED <<op, user, healthy, owner>>

\* The statement ends, in an answer or in an error; Ping is a statement too,
\* and what it finds is Readyz's verdict.
Query(r) ==
    /\ \/ Goto(r, {"query"}, "next") /\ UNCHANGED healthy
       \/ /\ Goto(r, {"query"}, IF op[r] = "readyz" THEN "next" ELSE "answered")
          /\ healthy' = [healthy EXCEPT ![r] = FALSE]
    /\ Release(r)
    /\ UNCHANGED <<op, user, todo>>

MutUpdateRows(r) ==     \* the callback uses s.db.Q instead of q
    /\ Goto(r, {"tx"}, "next")
    /\ todo' = [todo EXCEPT ![r] = <<"query">> \o @]
    /\ UNCHANGED <<op, user, healthy, holders, owner>>

\* The first UPDATE of a row of the user waits for the transaction that has it.
UpdateRows(r) ==
    /\ Goto(r, {"tx"}, "locked")
    /\ owner[user[r]] = None
    /\ owner' = [owner EXCEPT ![user[r]] = r]
    /\ UNCHANGED <<op, user, todo, healthy, holders>>

MutEndTx(r) ==          \* an error of fn, or a panic, without Rollback
    /\ \/ Goto(r, {"locked"}, "next") /\ Release(r)
       \/ Goto(r, {"locked"}, "answered") /\ UNCHANGED <<holders, owner>>
    /\ UNCHANGED <<op, user, todo, healthy>>

\* WithTx: Commit after success, Rollback after an error; both give the
\* connection back.
EndTx(r) ==
    /\ \/ Goto(r, {"locked"}, "next")
       \/ Goto(r, {"tx", "locked"}, "answered")
    /\ Release(r)
    /\ UNCHANGED <<op, user, todo, healthy>>

\* Readyz answers after the cache's ping, which finds it up or down.
Answer(r) ==
    /\ todo[r] = <<>>
    /\ Goto(r, {"next"}, "answered")
    /\ \/ UNCHANGED healthy
       \/ op[r] = "readyz" /\ healthy' = [healthy EXCEPT ![r] = FALSE]
    /\ UNCHANGED <<op, user, todo, holders, owner>>

MutDeadline(r) == FALSE /\ UNCHANGED vars   \* Ping(r.Context())

\* Readyz's context is done: whatever it waits for ends with an error, and the
\* ping of the cache fails at once.
Deadline(r) ==
    /\ op[r] = "readyz"
    /\ Goto(r, {"next", "waiting", "query"}, "answered")
    /\ healthy' = [healthy EXCEPT ![r] = FALSE]
    /\ Release(r)
    /\ UNCHANGED <<op, user, todo>>

\* The client goes away and its context is cancelled: a waiting request leaves
\* the queue, an open transaction is rolled back.
Cancel(r) ==
    /\ MayCancel
    /\ Goto(r, {"next", "waiting"} \cup Holding, "gone")
    /\ Release(r)
    /\ UNCHANGED <<op, user, todo, healthy>>

Idle == (\A r \in Req : pc[r] \in Answered) /\ UNCHANGED vars

-----------------------------------------------------------------------------

GoStep(r) == Ask(r) \/ Acquire(r) \/ Answer(r)      \* the server's own steps
DbStep(r) == Query(r) \/ UpdateRows(r) \/ EndTx(r)  \* steps of PostgreSQL

Next ==
    \/ \E r \in Req : \/ Arrive(r) \/ GoStep(r) \/ DbStep(r)
                      \/ Deadline(r) \/ Cancel(r)
    \/ Idle

Spec == Init /\ [][Next]_vars

\* Goroutines that can run do, and Readyz's timer fires.  Acquire hands
\* connections out in the order of the requests, so none is overtaken for ever.
FairSpec == Spec /\ \A r \in Req : WF_vars(GoStep(r)) /\ WF_vars(Deadline(r))

\* PostgreSQL answers the statements it is sent.  It may also stop doing so.
DbAnswers == \A r \in Req : WF_vars(DbStep(r))

-----------------------------------------------------------------------------

\* Connections are neither made up nor lost: at most MaxConns requests hold
\* one, those are the requests with a statement or transaction under way, and
\* a request that has been answered, failed or given up has returned its
\* connection and its rows (database.New, WithTx).
ConnectionsAreReturned ==
    /\ Cardinality(holders) <= MaxConns
    /\ holders = {r \in Req : pc[r] \in Holding}
    /\ \A u \in User : owner[u] # None => pc[owner[u]] = "locked"

\* ConnectionsAreReturned, and what makes it inductive: a request that waits
\* knows for what, and a transaction owns the rows of the account it serves and
\* no others.  An error path of WithTx that ended without Rollback would leave
\* a connection and rows with a request that is over.
PoolInv ==
    /\ TypeOK
    /\ ConnectionsAreReturned
    /\ \A r \in Req : pc[r] = "waiting" => todo[r] # <<>>
    /\ \A r \in Req : pc[r] # "idle" => user[r] \in User
    /\ \A u \in User : owner[u] # None => user[owner[u]] = u

\* The pool never locks up while PostgreSQL answers: a request that waits for
\* a connection holds none, so those that hold one can finish, and every
\* request is answered.
EveryRequestAnswered ==
    DbAnswers => \A r \in Req : pc[r] = "next" ~> pc[r] \in Answered

\* Readyz is answered whatever PostgreSQL and the other requests do, also when
\* the pool is exhausted by statements that never come back (Readyz's
\* five-second context).
ReadyzAnswers ==
    \A r \in Req : op[r] = "readyz" ~> pc[r] \in Answered
=============================================================================
