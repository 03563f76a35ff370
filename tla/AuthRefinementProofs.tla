----------------------- MODULE AuthRefinementProofs ------------------------
(* AuthService implements SessionLedger, for every set of requests, users    *)
(* and passwords: every step of the service is an entry in the book or none. *)
EXTENDS AuthRefinement, AuthAccountsProofs

\* The empty tables are an empty book.
LEMMA LedgerInit == Init => Ledger!Init
  BY DEF Init, Ledger!Init, holder, parent, asked, NoUser, NoRow

\* What the book knows of a session that exists does not change, and of one
\* that does not exist it knows nothing.
LEMMA BookFrame ==
    ASSUME SessionInv, [Next]_vars
    PROVE  /\ holder' = [t \in Req |-> IF tokens'[t] = "none" THEN NoRow
                                       ELSE IF tokens[t] # "none" THEN holder[t]
                                       ELSE seen'[t]]
           /\ parent' = [t \in Req |-> IF tokens'[t] = "none" THEN None
                                       ELSE IF tokens[t] # "none" THEN parent[t]
                                       ELSE IF Op(t)' = "refresh" THEN call'[t].arg
                                       ELSE None]
  <1>1. TypeOK /\ LockInv
    BY DEF SessionInv, RotationInv
  <1>2. ASSUME NEW t \in Req, tokens[t] # "none"
        PROVE  seen'[t] = seen[t] /\ call'[t] = call[t]
    BY <1>1, <1>2, SessionStill DEF Still
  <1> QED
    BY <1>2 DEF holder, parent, Op

\* A step that opens no session leaves the sessions' entries alone.
LEMMA BookKept ==
    ASSUME SessionInv, [Next]_vars,
           \A t \in Req : tokens'[t] = "none" <=> tokens[t] = "none"
    PROVE  holder' = holder /\ parent' = parent
  <1>1. /\ holder = [t \in Req |-> IF tokens[t] = "none" THEN NoRow ELSE holder[t]]
        /\ parent = [t \in Req |-> IF tokens[t] = "none" THEN None ELSE parent[t]]
    BY DEF holder, parent
  <1> QED
    BY <1>1, BookFrame

\* Only the request that moves asks for the end of sessions, or stops asking.
LEMMA AskedFrame ==
    ASSUME TypeOK, NEW r \in Req, StepOf(r)
    PROVE  asked' = [asked EXCEPT ![r] = asked'[r]]
  <1>1. ASSUME NEW q \in Req, q # r PROVE asked'[q] = asked[q]
    <2>1. Still(q)
      BY <1>1, StillArrival, StillServer DEF StepOf
    <2> QED
      BY <2>1 DEF Still, asked, Op
  <1> QED
    BY <1>1 DEF asked

\* A step that writes no row and asks for nothing new is a stutter or a GiveUp.
LEMMA BookGiveUp ==
    ASSUME SessionInv, [Next]_vars, NEW r \in Req, StepOf(r),
           UNCHANGED <<users, tokens>>, asked'[r] \in {asked[r], {}}
    PROVE  [Ledger!Next]_(Ledger!vars)
  <1>1. holder' = holder /\ parent' = parent
    BY BookKept
  <1>2. asked' = [asked EXCEPT ![r] = asked'[r]]
    BY AskedFrame DEF SessionInv, RotationInv
  <1>3. CASE asked'[r] = asked[r]
    <2>1. asked' = asked
      BY <1>2, <1>3 DEF asked
    <2> QED
      BY <1>1, <2>1 DEF Ledger!vars
  <1>4. CASE asked'[r] = {}
    <2>1. Ledger!GiveUp(r)
      BY <1>1, <1>2, <1>4 DEF Ledger!GiveUp
    <2> QED
      BY <2>1 DEF Ledger!Next
  <1> QED
    BY <1>3, <1>4

-----------------------------------------------------------------------------
(* One lemma for each entry of the book.                                     *)

\* The user of a credential that a client holds exists.
LEMMA HeldUser ==
    ASSUME SessionInv, NEW a \in Req, Held(a)
    PROVE  UserOf(a) \in User
  BY DEF SessionInv, RotationInv, FlowInv, FlowOK, Held, Committed

\* A revoker that arrives asks for the end of all its user's sessions.
LEMMA ArrivalAsks ==
    ASSUME SessionInv, NEW r \in Req, Arrival(r), Op(r)' \in Revokers, pc'[r] \in Steps
    PROVE  \E u \in User : before'[r] = TokensOf(u)
  <1> USE DEF Arrive, Goto
  <1>1. TypeOK /\ RequestsInv
    BY DEF SessionInv, RotationInv
  <1>2. CASE Logout(r)
    <2>1. PICK a \in Req : Held(a) /\ before' = [before EXCEPT ![r] = TokensOf(UserOf(a))]
      BY <1>2 DEF Logout
    <2> QED
      BY <1>1, <2>1, HeldUser DEF TypeOK
  <1>3. CASE ChangePassword(r)
    <2>1. PICK a \in Req :
            /\ Held(a)
            /\ \/ before' = [before EXCEPT ![r] = TokensOf(UserOf(a))]
               \/ pc' = [pc EXCEPT ![r] = "denied"]
      BY <1>3 DEF ChangePassword, Refuse
    <2>2. pc' # [pc EXCEPT ![r] = "denied"]
      BY <1>1 DEF TypeOK, Steps
    <2> QED
      BY <1>1, <2>1, <2>2, HeldUser DEF TypeOK
  <1>4. CASE ResetPassword(r)
    <2>1. PICK f \in Req :
            \/ /\ resetKeys[f] # None
               /\ before' = [before EXCEPT ![r] = TokensOf(resetKeys[f])]
            \/ pc' = [pc EXCEPT ![r] = "denied"]
      BY <1>4 DEF ResetPassword, Refuse
    <2>2. pc' # [pc EXCEPT ![r] = "denied"]
      BY <1>1 DEF TypeOK, Steps
    <2> QED
      BY <1>1, <2>1, <2>2 DEF TypeOK
  <1>5. CASE \/ Register(r) \/ Login(r) \/ Refresh(r) \/ Me(r) \/ ForgotPassword(r)
    <2>1. Op(r)' \in {"register", "login", "refresh", "me", "forgot"}
      <3> USE <1>1 DEF Op, TypeOK, Refuse
      <3>1. CASE Register(r) \/ Login(r)
        BY <3>1 DEF Register, Login
      <3>2. CASE Refresh(r)
        BY <3>2 DEF Refresh
      <3>3. CASE Me(r)
        BY <3>3 DEF Me
      <3>4. CASE ForgotPassword(r)
        BY <3>4 DEF ForgotPassword
      <3> QED
        BY <1>5, <3>1, <3>2, <3>3, <3>4
    <2> QED
      BY <2>1 DEF Revokers
  <1> QED
    BY <1>2, <1>3, <1>4, <1>5 DEF Arrival

\* An arrival is AskToEnd, or no entry.
LEMMA BookArrival ==
    ASSUME SessionInv, [Next]_vars, NEW r \in Req, Arrival(r)
    PROVE  [Ledger!Next]_(Ledger!vars)
  <1>1. TypeOK /\ FlowInv
    BY DEF SessionInv, RotationInv
  <1>2. /\ UNCHANGED <<users, tokens>> /\ pc[r] = "idle"
    BY <1>1, ArrivalShape DEF db
  <1>3. asked[r] = {}
    BY <1>2 DEF asked, Steps
  <1>4. CASE Op(r)' \in Revokers /\ pc'[r] \in Steps
    <2>1. PICK u \in User : before'[r] = TokensOf(u)
      BY <1>4, ArrivalAsks
    <2>2. Ledger!Sessions(u) = TokensOf(u)
      BY DEF Ledger!Sessions, TokensOf, holder, UserOf
    <2>3. asked'[r] = TokensOf(u)
      BY <1>4, <2>1 DEF asked, Op
    <2>4. asked' = [asked EXCEPT ![r] = Ledger!Sessions(u)]
      BY <1>1, <2>2, <2>3, AskedFrame DEF StepOf
    <2>5. holder' = holder /\ parent' = parent
      BY <1>2, BookKept
    <2>6. Ledger!AskToEnd(r)
      BY <1>2, <1>3, <2>4, <2>5 DEF Ledger!AskToEnd
    <2> QED
      BY <2>6 DEF Ledger!Next
  <1>5. CASE ~(Op(r)' \in Revokers /\ pc'[r] \in Steps)
    <2>1. asked'[r] = {}
      BY <1>5 DEF asked, Op
    <2> QED
      BY <1>2, <2>1, BookGiveUp DEF StepOf
  <1> QED
    BY <1>4, <1>5

\* CommitUser opens an account.
LEMMA BookCommitUser ==
    ASSUME SessionInv, [Next]_vars, NEW r \in Req, CommitUser(r)
    PROVE  [Ledger!Next]_(Ledger!vars)
  <1>1. TypeOK /\ FlowInv /\ AccountInv
    BY DEF SessionInv, RotationInv
  <1> DEFINE u == call[r].arg
  <1>2. /\ u \in User /\ call[r].next \in Password
        /\ Op(r) = "register" /\ users[u].id = None
        /\ UNCHANGED <<tokens, call>>
    BY <1>1, CommitUserEffect
  <1>3. users' = [users EXCEPT ![u] = [id |-> r, hash |-> call[r].next, ver |-> 0]]
    BY DEF CommitUser
  <1>4. holder' = holder /\ parent' = parent
    BY <1>2, BookKept
  <1>5. asked' = asked
    <2>1. asked'[r] = asked[r]
      BY <1>2 DEF asked, Op, Revokers
    <2> QED
      BY <1>1, <2>1, AskedFrame DEF StepOf, ServerStep, asked
  <1>6. Ledger!OpenAccount(u)
    BY <1>2, <1>3, <1>4, <1>5 DEF Ledger!OpenAccount
  <1> QED
    BY <1>2, <1>6 DEF Ledger!Next

\* What a session that is being opened carries comes from the row that was
\* read, which CarriedOK compares with the account.
LEMMA BookCarries ==
    ASSUME SessionInv, [Next]_vars, NEW r \in Req, HasRow(r), UserOf(r) \in User,
           tokens[r] = "none", tokens'[r] = "live", seen'[r] = seen[r],
           \A t \in Req : t # r => (tokens'[t] = "none" <=> tokens[t] = "none")
    PROVE  Ledger!Carries(r, UserOf(r), seen[r].org)
  <1>1. TypeOK /\ CarriedOK(r)
    BY DEF SessionInv, RotationInv, RequestsInv, RequestOK
  <1>2. /\ seen[r].ver \in 0..users[UserOf(r)].ver
        /\ seen[r].hash \in Password
        /\ seen[r].ver = users[UserOf(r)].ver => seen[r].hash = users[UserOf(r)].hash
    BY <1>1 DEF CarriedOK, TypeOK, Row
  <1>3. seen[r] = [user |-> UserOf(r), ver |-> seen[r].ver,
                   hash |-> seen[r].hash, org |-> seen[r].org]
    BY <1>1 DEF TypeOK, Row, UserOf
  <1>4. holder' = [holder EXCEPT ![r] = seen[r]]
    BY BookFrame DEF holder
  <1>5. holder' = [holder EXCEPT ![r] = [user |-> UserOf(r), ver |-> seen[r].ver,
                                hash |-> seen[r].hash, org |-> seen[r].org]]
    BY <1>3, <1>4
  <1> QED
    BY <1>2, <1>5 DEF Ledger!Carries

\* Issue opens a session.
LEMMA BookIssue ==
    ASSUME SessionInv, [Next]_vars, NEW r \in Req, Issue(r)
    PROVE  [Ledger!Next]_(Ledger!vars)
  <1>1. /\ TypeOK /\ FlowOK(r) /\ LockOK(r) /\ UserOK(r) /\ CarriedOK(r)
        /\ pc[r] = "issue"
    BY DEF SessionInv, RotationInv, FlowInv, LockInv, RequestsInv, RequestOK, Issue
  <1>2. /\ Op(r) \in {"register", "login"} /\ UserOf(r) \in User
        /\ HasRow(r) /\ HasOrg(r)
    BY <1>1 DEF FlowOK, HasRow, HasOrg, Issuers
  <1>3. /\ tokens[r] = "none" /\ tokens' = [tokens EXCEPT ![r] = "live"]
        /\ UNCHANGED <<users, call, seen>>
    BY <1>1 DEF LockOK, Issued, Committed, Issue, local, TypeOK
  <1>4. /\ users[UserOf(r)].id # None
        /\ seen[r].org \in Org
    BY <1>1, <1>2 DEF UserOK, CarriedOK, TypeOK
  <1>5. Ledger!Carries(r, UserOf(r), seen[r].org)
    BY <1>1, <1>2, <1>3, BookCarries DEF TypeOK
  <1>6. parent' = parent
    <2>1. parent[r] = None /\ Op(r)' # "refresh"
      BY <1>2, <1>3 DEF parent, Op
    <2> QED
      BY <1>1, <1>3, <2>1, BookFrame DEF parent, TypeOK
  <1>7. asked' = asked
    <2>1. asked'[r] = asked[r]
      BY <1>2, <1>3 DEF asked, Op, Revokers
    <2> QED
      BY <1>1, <2>1, AskedFrame DEF StepOf, ServerStep, asked
  <1>8. Ledger!OpenSession(r)
    BY <1>2, <1>3, <1>4, <1>5, <1>6, <1>7 DEF Ledger!OpenSession, Org
  <1> QED
    BY <1>8 DEF Ledger!Next

\* CommitRotation hands one session on to its successor.
LEMMA BookCommitRotation ==
    ASSUME SessionInv, [Next]_vars, NEW r \in Req, CommitRotation(r)
    PROVE  [Ledger!Next]_(Ledger!vars)
  <1>1. /\ TypeOK /\ FlowOK(r) /\ LockOK(r) /\ UserOK(r) /\ CarriedOK(r) /\ CoverOK(r)
        /\ pc[r] = "commit"
    BY DEF SessionInv, RotationInv, FlowInv, LockInv, RequestsInv, RequestOK,
           CommitRotation
  <1>2. PICK t \in Req : t = call[r].arg
    BY <1>1 DEF FlowOK
  <1>3. /\ Op(r) = "refresh" /\ UserOf(r) \in User /\ HasRow(r)
        /\ Consuming(r) /\ tokens[r] = "none"
    BY <1>1 DEF FlowOK, HasRow, Consuming, Consumers, Issuers, Open, LockOK,
                Issued, Committed, TypeOK
  <1>4. /\ wrote[r] = {t} /\ tokens[t] = "live" /\ t # r
        /\ UserOf(r) = UserOf(t) /\ seen[r].org = seen[t].org
    BY <1>1, <1>2, <1>3 DEF LockOK, CoverOK, UserOK, Consumers, Open
  <1>5. /\ tokens' = [tokens EXCEPT ![t] = "revoked", ![r] = "live"]
        /\ UNCHANGED <<users, call, seen>>
    BY <1>1, <1>4 DEF CommitRotation, Revoke, local, TypeOK
  <1>6. holder[t] = seen[t]
    BY <1>4 DEF holder
  <1>7. Ledger!Carries(r, holder[t].user, holder[t].org)
    <2>1. Ledger!Carries(r, UserOf(r), seen[r].org)
      BY <1>1, <1>3, <1>4, <1>5, BookCarries DEF TypeOK
    <2> QED
      BY <1>4, <1>6, <2>1 DEF UserOf
  <1>8. parent' = [parent EXCEPT ![r] = t]
    <2>1. Op(r)' = "refresh" /\ call'[r].arg = t
      BY <1>2, <1>3, <1>5 DEF Op
    <2> QED
      BY <1>1, <1>3, <1>4, <1>5, <2>1, BookFrame DEF parent, TypeOK
  <1>9. asked' = asked
    <2>1. asked'[r] = asked[r]
      BY <1>3, <1>5 DEF asked, Op, Revokers
    <2> QED
      BY <1>1, <2>1, AskedFrame DEF StepOf, ServerStep, asked
  <1>10. Ledger!HandOn(t, r)
    BY <1>3, <1>4, <1>5, <1>7, <1>8, <1>9 DEF Ledger!HandOn
  <1> QED
    BY <1>10 DEF Ledger!Next

\* CommitRevocation ends the sessions that were asked for, all of one user.
LEMMA BookCommitRevocation ==
    ASSUME SessionInv, [Next]_vars, NEW r \in Req, CommitRevocation(r)
    PROVE  [Ledger!Next]_(Ledger!vars)
  <1> DEFINE u == UserOf(r)
  <1>1. /\ TypeOK /\ FlowOK(r) /\ LockOK(r) /\ UserOK(r) /\ CoverOK(r)
        /\ pc[r] = "revoking" /\ todo[r] = {}
    BY DEF SessionInv, RotationInv, FlowInv, LockInv, RequestsInv, RequestOK,
           CommitRevocation
  <1>2. /\ Op(r) \in Revokers /\ u \in User /\ users[u].id # None
    BY <1>1 DEF FlowOK, UserOK, Ending, Open
  <1>3. NewHash(r) \in Password
    <2>1. CASE Op(r) = "logout"
      BY <1>2, <2>1 DEF NewHash, SessionInv, AccountInv, AccountOK
    <2>2. CASE Op(r) # "logout"
      BY <1>1, <1>2, <2>2 DEF NewHash, UserOK, Ending, Open
    <2> QED
      BY <2>1, <2>2
  <1>4. /\ users' = [users EXCEPT ![u].ver = @ + 1, ![u].hash = NewHash(r)]
        /\ tokens' = Revoke(r, tokens)
        /\ UNCHANGED <<call, seen, before>>
    BY DEF CommitRevocation, NewVersion, local
  <1>5. \A t \in wrote[r] : tokens[t] # "none"
    BY <1>1 DEF LockOK
  <1>6. holder' = holder /\ parent' = parent
    <2>1. \A t \in Req : tokens'[t] = "none" <=> tokens[t] = "none"
      BY <1>4, <1>5 DEF Revoke
    <2> QED
      BY <2>1, BookKept
  <1>7. wrote[r] \subseteq Ledger!Sessions(u)
    <2>1. \A t \in wrote[r] : UserOf(t) = u
      BY <1>1, <1>2 DEF CoverOK, LockOK, UserOK, Consuming, Open
    <2> QED
      BY <1>1, <1>5, <2>1 DEF Ledger!Sessions, holder, UserOf, TypeOK
  <1>8. asked[r] \subseteq wrote[r]
    BY <1>1, <1>2 DEF asked, CoverOK, Steps
  <1>9. asked' = [asked EXCEPT ![r] = {}]
    <2>1. pc'[r] \notin Steps
      BY <1>1 DEF CommitRevocation, Goto, Answers, Committed, Steps, TypeOK
    <2>2. asked'[r] = {}
      BY <2>1 DEF asked
    <2> QED
      BY <1>1, <2>2, AskedFrame DEF StepOf, ServerStep
  <1>10. tokens' = [t \in Req |-> IF t \in wrote[r] THEN "revoked" ELSE tokens[t]]
    BY <1>4 DEF Revoke
  <1>11. Ledger!EndSessions(r, u)
    BY <1>2, <1>3, <1>4, <1>6, <1>7, <1>8, <1>9, <1>10 DEF Ledger!EndSessions
  <1> QED
    BY <1>2, <1>11 DEF Ledger!Next

\* Every other step of a request that is being served writes none of the rows
\* of the book: it is no entry, or the request stops asking.
LEMMA BookOther ==
    ASSUME SessionInv, [Next]_vars, NEW r \in Req,
           ServerStep(r) \/ Fail(r) \/ DeadlockAbort(r),
           ~CommitUser(r), ~Issue(r), ~CommitRotation(r), ~CommitRevocation(r)
    PROVE  [Ledger!Next]_(Ledger!vars)
  <1>1. TypeOK
    BY DEF SessionInv, RotationInv
  <1>2. UNCHANGED <<users, tokens, call>> /\ before'[r] \in {before[r], {}}
    <2> USE <1>1 DEF Quit, db, local, TypeOK
    <2>1. CASE Fail(r) \/ DeadlockAbort(r)
      BY <2>1 DEF Fail, DeadlockAbort, Abort
    <2>2. CASE ServerStep(r)
      BY <2>2 DEF ServerStep, CreateUser, ListMemberships, Consume,
                  ConsumeNothing, ReadUser, ReadMembership, UpdateUser, RevokeAll,
                  RevokeRow, ReadMe, CheckPassword, SetKey, SendMail
    <2> QED
      BY <2>1, <2>2
  <1>3. pc[r] \in Steps
    BY <1>1, StepShape
  <1>4. asked'[r] \in {asked[r], {}}
    BY <1>2, <1>3 DEF asked, Op
  <1> QED
    BY <1>2, <1>4, BookGiveUp DEF StepOf

-----------------------------------------------------------------------------

\* Every step of the service is an entry in the book, or none.
LEMMA LedgerStep == SessionInv /\ [Next]_vars => [Ledger!Next]_(Ledger!vars)
  <1> SUFFICES ASSUME SessionInv, [Next]_vars
               PROVE  [Ledger!Next]_(Ledger!vars)
    OBVIOUS
  <1>1. ASSUME NEW r \in Req, StepOf(r) PROVE [Ledger!Next]_(Ledger!vars)
    BY <1>1, BookArrival, BookCommitUser, BookIssue, BookCommitRotation,
       BookCommitRevocation, BookOther DEF StepOf
  <1>2. ASSUME \/ \E kind \in Kinds, t \in Req : Expire(kind, t)
               \/ \E u \in User, o \in ExtraOrg : AddMembership(u, o)
               \/ UNCHANGED vars
        PROVE  UNCHANGED Ledger!vars
    <2>1. UNCHANGED <<users, tokens>> /\ \A q \in Req : Still(q)
      BY <1>2, StillEnvironment DEF SessionInv, RotationInv
    <2>2. holder' = holder /\ parent' = parent
      BY <2>1, BookKept
    <2>3. asked' = asked
      BY <2>1 DEF asked, Still, Op
    <2> QED
      BY <2>1, <2>2, <2>3 DEF Ledger!vars
  <1> QED
    BY <1>1, <1>2 DEF Next, Idle, StepOf

\* The service implements the book of sessions: with every interleaving,
\* failure and deadlock, what a client can observe in the tables is what
\* one-step entries would have left there (Register, Login, Refresh, Logout,
\* ResetPassword and ChangePassword).
THEOREM RefinementTheorem == Spec => KeepsTheBook
  <1>1. Init => Ledger!Init
    BY LedgerInit
  <1>2. SessionInv /\ [Next]_vars => [Ledger!Next]_(Ledger!vars)
    BY LedgerStep
  <1> QED
    BY <1>1, <1>2, SessionInvariant, PTL DEF Spec, KeepsTheBook, Ledger!Spec
=============================================================================
