--------------------------- MODULE ConnPoolProofs ---------------------------
(* Proofs about ConnPool, for any number of requests and connections.         *)
EXTENDS ConnPool, FiniteSetTheorems, TLAPS

\* The holders are finitely many, also when the requests are not.
IInv == PoolInv /\ IsFiniteSet(holders)

\* What the two ways of changing the holders do to their number.
LEMMA GrantBound ==
    ASSUME NEW r \in Req, IInv, pc[r] \notin Holding,
           Cardinality(holders) < MaxConns, holders' = holders \cup {r}
    PROVE  IsFiniteSet(holders') /\ Cardinality(holders') <= MaxConns
<1>1. r \notin holders
  BY DEF IInv, PoolInv, ConnectionsAreReturned
<1>2. IsFiniteSet(holders') /\ Cardinality(holders') = Cardinality(holders) + 1
  BY <1>1, FS_AddElement DEF IInv
<1>3. Cardinality(holders) \in Nat
  BY FS_CardinalityType DEF IInv
<1> QED
  BY <1>2, <1>3, PoolAssumption

LEMMA ReleaseBound ==
    ASSUME NEW r \in Req, IInv, holders' = holders \ {r}
    PROVE  IsFiniteSet(holders') /\ Cardinality(holders') <= MaxConns
<1>1. IsFiniteSet(holders') /\ Cardinality(holders') <= Cardinality(holders)
  BY FS_Subset DEF IInv
<1>2. Cardinality(holders) \in Nat /\ Cardinality(holders') \in Nat
  BY <1>1, FS_CardinalityType DEF IInv
<1> QED
  BY <1>1, <1>2, PoolAssumption DEF IInv, PoolInv, ConnectionsAreReturned

\* A request that gives its connection back and goes where it holds none.
LEMMA ReleaseInv ==
    ASSUME NEW r \in Req, IInv, NEW from, NEW to,
           Goto(r, from, to), Release(r), "idle" \notin from,
           to \in {"next"} \cup Answered,
           healthy' \in [Req -> BOOLEAN], UNCHANGED <<op, user, todo>>
    PROVE  IInv'
<1> USE DEF IInv, PoolInv, ConnectionsAreReturned, Goto, Release
<1>1. TypeOK'
  BY DEF TypeOK, Holding, Answered
<1>2. IsFiniteSet(holders') /\ Cardinality(holders') <= MaxConns
  BY ReleaseBound
<1>3. holders' = {q \in Req : pc'[q] \in Holding}
  BY DEF TypeOK, Holding, Answered
<1>4. \A u \in User : owner'[u] # None =>
        pc'[owner'[u]] = "locked" /\ user'[owner'[u]] = u
  BY DEF TypeOK
<1>5. \A q \in Req : /\ pc'[q] = "waiting" => todo'[q] # <<>>
                     /\ pc'[q] # "idle" => user'[q] \in User
  BY DEF TypeOK, Answered
<1> QED
  BY <1>1, <1>2, <1>3, <1>4, <1>5

\* The invariant at the start and over a stutter.
LEMMA InitInv == Init => IInv
<1> SUFFICES ASSUME Init PROVE IInv
  OBVIOUS
<1>1. TypeOK
  BY DEF Init, TypeOK
<1>2. IsFiniteSet(holders) /\ Cardinality(holders) = 0
  BY FS_EmptySet DEF Init
<1> QED
  BY <1>1, <1>2, PoolAssumption
  DEF Init, IInv, PoolInv, ConnectionsAreReturned, Holding

LEMMA StutterInv == IInv /\ UNCHANGED vars => IInv'
  BY DEF vars, IInv, PoolInv, ConnectionsAreReturned, TypeOK

\* A request arrives, asks, and is given a connection.
LEMMA ArriveInv == ASSUME NEW r \in Req, IInv, Arrive(r) PROVE IInv'
<1> PICK o \in Ops, u \in User :
        /\ Goto(r, {"idle"}, "next")
        /\ op' = [op EXCEPT ![r] = o]
        /\ user' = [user EXCEPT ![r] = u]
        /\ todo' = [todo EXCEPT ![r] = Script[o]]
        /\ UNCHANGED <<healthy, holders, owner>>
  BY DEF Arrive
<1>1. Script[o] \in Seq({"query", "tx"})
  <2> DEFINE S == Seq({"query", "tx"})
  <2>1. /\ <<"query", "tx", "query">> \in S
        /\ <<"query", "query", "query">> \in S
        /\ <<"tx">> \in S
        /\ <<"query">> \in S
        /\ <<"query", "query", "tx">> \in S
    OBVIOUS
  <2>2. <<"query", "query", "query", "query">> \in S
    OBVIOUS
  <2>3. o \in {"register", "login", "refresh", "logout", "me",
               "change", "forgot", "reset", "readyz"}
    BY PoolAssumption DEF Script
  <2> HIDE DEF S
  <2>4. Script[o] \in S
    BY <2>1, <2>2, <2>3 DEF Script
  <2> QED
    BY <2>4 DEF S
<1> USE DEF IInv, PoolInv, ConnectionsAreReturned, Goto
<1>2. TypeOK'
  BY <1>1 DEF TypeOK
<1>3. holders' = {q \in Req : pc'[q] \in Holding}
  BY DEF TypeOK, Holding
<1> QED
  BY <1>2, <1>3 DEF TypeOK, Holding

LEMMA AskInv == ASSUME NEW r \in Req, IInv, Ask(r) PROVE IInv'
<1> USE DEF IInv, PoolInv, ConnectionsAreReturned, Goto, Ask
<1>1. TypeOK'
  BY DEF TypeOK
<1>2. holders' = {q \in Req : pc'[q] \in Holding}
  BY DEF TypeOK, Holding
<1> QED
  BY <1>1, <1>2 DEF TypeOK

LEMMA AcquireInv == ASSUME NEW r \in Req, IInv, Acquire(r) PROVE IInv'
<1>1. /\ todo[r] \in Seq({"query", "tx"}) /\ todo[r] # <<>>
      /\ pc[r] = "waiting"
  BY DEF IInv, PoolInv, TypeOK, Acquire, Goto
<1>2. Head(todo[r]) \in {"query", "tx"} /\ Tail(todo[r]) \in Seq({"query", "tx"})
  BY <1>1
<1>3. IsFiniteSet(holders') /\ Cardinality(holders') <= MaxConns
  BY <1>1, GrantBound DEF Acquire, Holding
<1> USE DEF IInv, PoolInv, ConnectionsAreReturned, Goto, Acquire
<1>4. TypeOK'
  BY <1>2 DEF TypeOK, Holding
<1>5. holders' = {q \in Req : pc'[q] \in Holding}
  BY <1>1, <1>2 DEF TypeOK, Holding
<1> QED
  BY <1>1, <1>2, <1>3, <1>4, <1>5 DEF TypeOK

\* The steps of PostgreSQL.
LEMMA QueryInv == ASSUME NEW r \in Req, IInv, Query(r) PROVE IInv'
<1>1. healthy' \in [Req -> BOOLEAN]
  BY DEF Query, IInv, PoolInv, TypeOK
<1>2. PICK to \in {"next", "answered"} : Goto(r, {"query"}, to)
  BY DEF Query
<1> QED
  BY <1>1, <1>2, ReleaseInv DEF Query, Answered

LEMMA UpdateRowsInv == ASSUME NEW r \in Req, IInv, UpdateRows(r) PROVE IInv'
<1> USE DEF IInv, PoolInv, ConnectionsAreReturned, Goto, UpdateRows
<1>1. TypeOK'
  BY DEF TypeOK, Holding
<1>2. holders' = {q \in Req : pc'[q] \in Holding}
  BY DEF TypeOK, Holding
<1>3. \A u \in User : owner'[u] # None =>
        pc'[owner'[u]] = "locked" /\ user'[owner'[u]] = u
  BY DEF TypeOK
<1> QED
  BY <1>1, <1>2, <1>3 DEF TypeOK

LEMMA EndTxInv == ASSUME NEW r \in Req, IInv, EndTx(r) PROVE IInv'
<1>1. healthy' \in [Req -> BOOLEAN]
  BY DEF EndTx, IInv, PoolInv, TypeOK
<1>2. CASE Goto(r, {"locked"}, "next")
  BY <1>1, <1>2, ReleaseInv DEF EndTx, Answered
<1>3. CASE Goto(r, {"tx", "locked"}, "answered")
  BY <1>1, <1>3, ReleaseInv DEF EndTx, Answered
<1> QED
  BY <1>2, <1>3 DEF EndTx

\* The end of a request: its answer, Readyz's deadline, a client that leaves.
LEMMA AnswerInv == ASSUME NEW r \in Req, IInv, Answer(r) PROVE IInv'
<1> USE DEF IInv, PoolInv, ConnectionsAreReturned, Goto, Answer
<1>1. TypeOK'
  BY DEF TypeOK, Answered
<1>2. holders' = {q \in Req : pc'[q] \in Holding}
  BY DEF TypeOK, Holding
<1> QED
  BY <1>1, <1>2 DEF TypeOK

LEMMA DeadlineInv == ASSUME NEW r \in Req, IInv, Deadline(r) PROVE IInv'
<1>1. healthy' \in [Req -> BOOLEAN]
  BY DEF Deadline, IInv, PoolInv, TypeOK
<1> QED
  BY <1>1, ReleaseInv DEF Deadline, Answered

LEMMA CancelInv == ASSUME NEW r \in Req, IInv, Cancel(r) PROVE IInv'
<1>1. healthy' \in [Req -> BOOLEAN]
  BY DEF Cancel, IInv, PoolInv, TypeOK
<1>2. "idle" \notin {"next", "waiting"} \cup Holding
  BY DEF Holding
<1> QED
  BY <1>1, <1>2, ReleaseInv DEF Cancel, Answered

\* Every step keeps the invariant.
LEMMA NextInv == IInv /\ [Next]_vars => IInv'
  BY StutterInv, ArriveInv, AskInv, AcquireInv, AnswerInv, QueryInv,
     UpdateRowsInv, EndTxInv, DeadlineInv, CancelInv
  DEF Next, GoStep, DbStep, Idle

LEMMA InductiveInvariant == Spec => []IInv
  BY InitInv, NextInv, PTL DEF Spec

\* The invariant of the run, for any set of requests, clients that go away
\* included, and any size of the pool: whoever is not in a statement or a
\* transaction has given its connection and its rows back.
THEOREM PoolTheorem == Spec => []PoolInv
<1>1. IInv => PoolInv
  BY DEF IInv
<1> QED
  BY <1>1, InductiveInvariant, PTL
=============================================================================
