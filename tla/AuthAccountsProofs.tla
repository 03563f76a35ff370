------------------------ MODULE AuthAccountsProofs -------------------------
(* Theorems about the accounts and sessions of AuthService: SessionInv is an *)
(* invariant, and the properties that follow from it.                        *)
EXTENDS AuthServiceProofs

-----------------------------------------------------------------------------
(* What a step leaves alone.                                                 *)

\* Request q has not moved.
Still(q) ==
    /\ pc'[q] = pc[q] /\ call'[q] = call[q] /\ seen'[q] = seen[q]
    /\ wrote'[q] = wrote[q] /\ todo'[q] = todo[q] /\ before'[q] = before[q]

\* The steps of request r, of whatever kind.
StepOf(r) == Arrival(r) \/ ServerStep(r) \/ Fail(r) \/ DeadlockAbort(r)

\* An arrival moves nobody else; a reset link can lose its key.
LEMMA StillArrival ==
    ASSUME TypeOK, NEW r \in Req, Arrival(r)
    PROVE  /\ \A q \in Req \ {r} : Still(q)
           /\ \A q \in Req : resetKeys'[q] \in {resetKeys[q], None}
  <1> USE DEF Still, Arrive, Refuse, Goto, TypeOK, db
  <1>1. CASE Register(r)
    BY <1>1 DEF Register
  <1>2. CASE Login(r)
    BY <1>2 DEF Login
  <1>3. CASE Refresh(r)
    BY <1>3 DEF Refresh
  <1>4. CASE Logout(r)
    BY <1>4 DEF Logout
  <1>5. CASE Me(r)
    BY <1>5 DEF Me
  <1>6. CASE ChangePassword(r)
    BY <1>6 DEF ChangePassword
  <1>7. CASE ForgotPassword(r)
    BY <1>7 DEF ForgotPassword
  <1>8. CASE ResetPassword(r)
    BY <1>8 DEF ResetPassword, TakeKey
  <1> QED
    BY <1>1, <1>2, <1>3, <1>4, <1>5, <1>6, <1>7, <1>8 DEF Arrival

\* A storage access or a failure moves nobody else, and writes no other key.
LEMMA StillServer ==
    ASSUME TypeOK, NEW r \in Req, ServerStep(r) \/ Fail(r) \/ DeadlockAbort(r)
    PROVE  /\ \A q \in Req \ {r} : Still(q)
           /\ \A q \in Req \ {r} : resetKeys'[q] = resetKeys[q]
  <1> USE DEF Still, Goto, Quit, TypeOK, local, db
  <1>1. CASE \/ CreateUser(r) \/ CommitUser(r) \/ ListMemberships(r)
             \/ Issue(r) \/ Consume(r) \/ ConsumeNothing(r)
    BY <1>1 DEF CreateUser, CommitUser, ListMemberships, Issue, Consume,
                ConsumeNothing
  <1>2. CASE \/ ReadUser(r) \/ ReadMembership(r) \/ CommitRotation(r)
             \/ UpdateUser(r) \/ RevokeAll(r) \/ RevokeRow(r)
    BY <1>2 DEF ReadUser, ReadMembership, CommitRotation, UpdateUser, RevokeAll,
                RevokeRow
  <1>3. CASE \/ CommitRevocation(r) \/ ReadMe(r) \/ CheckPassword(r)
             \/ SetKey(r) \/ SendMail(r)
    BY <1>3 DEF CommitRevocation, ReadMe, CheckPassword, SetKey, SendMail
  <1>4. CASE Fail(r) \/ DeadlockAbort(r)
    BY <1>4 DEF Fail, DeadlockAbort, Abort
  <1> QED
    BY <1>1, <1>2, <1>3, <1>4 DEF ServerStep

\* Expiries and the operator's memberships move no request.
LEMMA StillEnvironment ==
    ASSUME \/ \E kind \in Kinds, t \in Req : Expire(kind, t)
           \/ \E u \in User, o \in ExtraOrg : AddMembership(u, o)
           \/ UNCHANGED vars,
           TypeOK
    PROVE  /\ \A q \in Req : Still(q) /\ resetKeys'[q] \in {resetKeys[q], None}
           /\ UNCHANGED <<users, tokens>>
  BY DEF Expire, Evicted, AddMembership, vars, db, local, Still, TypeOK

\* A request that has been answered keeps its answer, its input and its row.
LEMMA SettledStep ==
    ASSUME TypeOK, [Next]_vars, NEW t \in Req, pc[t] \in Answered
    PROVE  Still(t)
  <1>1. ASSUME NEW r \in Req, StepOf(r) PROVE Still(t)
    <2>1. pc[r] \notin Answered
      BY <1>1, ArrivalShape, StepShape DEF StepOf, Steps, Answered
    <2> QED
      BY <1>1, <2>1, StillArrival, StillServer DEF StepOf
  <1> QED
    BY <1>1, StillEnvironment DEF Next, Idle, StepOf

-----------------------------------------------------------------------------
(* What only grows.                                                          *)

\* Account u is not replaced, its version does not go back, its password
\* changes only with the version, and its memberships are only added to.
Advances(u) ==
    /\ users[u].id # None =>
          /\ users'[u].id = users[u].id
          /\ users'[u].ver >= users[u].ver
          /\ users'[u].hash # users[u].hash => users'[u].ver > users[u].ver
    /\ memberships[u] \subseteq memberships'[u]

\* Only two commits of the service write to the tables of accounts.
LEMMA AccountsFrame ==
    ASSUME NEW r \in Req, StepOf(r), ~CommitUser(r), ~CommitRevocation(r)
    PROVE  UNCHANGED <<users, memberships>>
  <1> USE DEF Refuse, Quit, db, local
  <1>1. CASE Arrival(r)
    BY <1>1 DEF Arrival, Register, Login, Refresh, Logout, Me, ChangePassword,
                ForgotPassword, ResetPassword
  <1>2. CASE ServerStep(r)
    BY <1>2 DEF ServerStep, CreateUser, ListMemberships, Issue, Consume,
                ConsumeNothing, ReadUser, ReadMembership, CommitRotation,
                UpdateUser, RevokeAll, RevokeRow, ReadMe, CheckPassword, SetKey,
                SendMail
  <1>3. CASE Fail(r) \/ DeadlockAbort(r)
    BY <1>3 DEF Fail, DeadlockAbort, Abort
  <1> QED
    BY <1>1, <1>2, <1>3 DEF StepOf

\* CommitUser fills a row that nobody has filled, by InsertOK.
LEMMA CommitUserEffect ==
    ASSUME TypeOK, FlowInv, AccountInv, NEW r \in Req, CommitUser(r)
    PROVE  /\ pc[r] = "commitUser" /\ Op(r) = "register" /\ call[r].arg \in User
           /\ call[r].next \in Password
           /\ users[call[r].arg].id = None /\ memberships[call[r].arg] = {}
           /\ users'[call[r].arg] = [id |-> r, hash |-> call[r].next, ver |-> 0]
           /\ memberships'[call[r].arg] = {call[r].arg}
           /\ seen'[r] = [user |-> call[r].arg, ver |-> 0,
                          hash |-> call[r].next, org |-> call[r].arg]
           /\ \A x \in User : x # call[r].arg
                 => users'[x] = users[x] /\ memberships'[x] = memberships[x]
           /\ pc'[r] \in {"issue", "error"}
           /\ UNCHANGED <<tokens, resetKeys, call, wrote, todo, before>>
  <1>1. /\ pc[r] = "commitUser" /\ Op(r) = "register" /\ call[r].arg \in User
        /\ call[r].next \in Password /\ users[call[r].arg].id = None
    BY DEF CommitUser, FlowInv, FlowOK, AccountInv, InsertOK
  <1>2. memberships[call[r].arg] = {}
    BY <1>1 DEF AccountInv, AccountOK
  <1> QED
    BY <1>1, <1>2 DEF CommitUser, TypeOK, Goto

\* CommitRevocation moves one account one version on and keeps its owner.
LEMMA CommitRevocationEffect ==
    ASSUME TypeOK, NEW r \in Req, CommitRevocation(r)
    PROVE  /\ \A x \in User : x # UserOf(r) => users'[x] = users[x]
           /\ UserOf(r) \in User =>
                 LET u == UserOf(r) IN
                 /\ users'[u].id = users[u].id
                 /\ users'[u].ver = users[u].ver + 1
                 /\ users'[u].hash = NewHash(r)
           /\ UNCHANGED memberships
  BY DEF CommitRevocation, TypeOK, NewVersion

\* Every step of the system moves every account forward, or leaves it alone.
LEMMA AccountsAdvance ==
    ASSUME TypeOK, FlowInv, AccountInv, [Next]_vars
    PROVE  \A u \in User : Advances(u)
  <1>1. ASSUME UNCHANGED users, NEW u \in User, memberships[u] \subseteq memberships'[u]
        PROVE  Advances(u)
    BY <1>1 DEF Advances, TypeOK
  <1>2. ASSUME NEW r \in Req, CommitUser(r), NEW u \in User PROVE Advances(u)
    <2>1. users[u].ver \in Nat /\ call[r].arg \in User /\ users[call[r].arg].id = None
          /\ memberships[call[r].arg] = {}
      BY <1>2, CommitUserEffect DEF TypeOK
    <2>2. CASE u = call[r].arg
      BY <2>1, <2>2 DEF Advances
    <2>3. CASE u # call[r].arg
      <3>1. users'[u] = users[u] /\ memberships'[u] = memberships[u]
        BY <1>2, <2>1, <2>3, CommitUserEffect
      <3> QED
        BY <2>1, <3>1 DEF Advances
    <2> QED
      BY <2>2, <2>3
  <1>3. ASSUME NEW r \in Req, CommitRevocation(r), NEW u \in User PROVE Advances(u)
    <2>1. users[u].ver \in Nat /\ memberships' = memberships
      BY <1>3, CommitRevocationEffect DEF TypeOK
    <2>2. CASE u = UserOf(r)
      BY <1>3, <2>1, <2>2, CommitRevocationEffect DEF Advances
    <2>3. CASE u # UserOf(r)
      BY <1>3, <2>1, <2>3, CommitRevocationEffect DEF Advances
    <2> QED
      BY <2>2, <2>3
  <1>4. ASSUME NEW r \in Req, StepOf(r), NEW u \in User PROVE Advances(u)
    BY <1>1, <1>2, <1>3, <1>4, AccountsFrame
  <1>5. ASSUME \/ \E kind \in Kinds, t \in Req : Expire(kind, t)
               \/ \E x \in User, o \in ExtraOrg : AddMembership(x, o)
               \/ UNCHANGED vars,
               NEW u \in User
        PROVE  Advances(u)
    <2>1. UNCHANGED users /\ memberships[u] \subseteq memberships'[u]
      BY <1>5 DEF Expire, AddMembership, vars, db, TypeOK
    <2> QED
      BY <1>1, <2>1
  <1> QED
    BY <1>4, <1>5 DEF Next, Idle, StepOf

\* Rows of refresh_tokens are not deleted, and a revoked one stays revoked.
LEMMA TokensAdvance ==
    ASSUME TypeOK, LockInv, [Next]_vars, NEW t \in Req
    PROVE  /\ tokens[t] # "none" => tokens'[t] # "none"
           /\ tokens[t] = "revoked" => tokens'[t] = "revoked"
  <1> USE DEF TypeOK, Revoke
  <1>1. ASSUME NEW r \in Req, pc[r] \in Steps PROVE tokens[r] = "none"
    BY <1>1 DEF LockInv, LockOK, Issued, Committed, Steps
  <1>2. ASSUME NEW r \in Req, StepOf(r)
        PROVE  \/ tokens' = tokens
               \/ tokens[r] = "none" /\ tokens' = [tokens EXCEPT ![r] = "live"]
               \/ tokens[r] = "none" /\ tokens' = [Revoke(r, tokens) EXCEPT ![r] = "live"]
               \/ tokens' = Revoke(r, tokens)
    <2>1. CASE Arrival(r)
      BY <2>1, ArrivalShape DEF db
    <2>2. CASE Issue(r) \/ CommitRotation(r) \/ CommitRevocation(r)
      BY <2>2, <1>1 DEF Issue, CommitRotation, CommitRevocation, Steps
    <2>3. CASE Fail(r) \/ DeadlockAbort(r)
      BY <2>3 DEF Fail, DeadlockAbort, Abort, Quit, db
    <2>4. CASE /\ ServerStep(r) /\ ~Issue(r)
               /\ ~CommitRotation(r) /\ ~CommitRevocation(r)
      BY <2>4 DEF ServerStep, CreateUser, CommitUser, ListMemberships, Consume,
                  ConsumeNothing, ReadUser, ReadMembership, UpdateUser, RevokeAll,
                  RevokeRow, ReadMe, CheckPassword, SetKey, SendMail, Quit, db
    <2> QED
      BY <1>2, <2>1, <2>2, <2>3, <2>4 DEF StepOf
  <1>3. ASSUME NEW r \in Req, StepOf(r)
        PROVE  /\ tokens[t] # "none" => tokens'[t] # "none"
               /\ tokens[t] = "revoked" => tokens'[t] = "revoked"
    BY <1>2, <1>3
  <1> QED
    BY <1>3, StillEnvironment DEF Next, Idle, StepOf

\* The user of a session that exists is settled.
LEMMA SessionStill ==
    ASSUME TypeOK, LockInv, [Next]_vars, NEW t \in Req, tokens[t] # "none"
    PROVE  Issued(t) /\ Still(t) /\ Issued(t)' /\ UserOf(t)' = UserOf(t)
  <1>1. Issued(t) /\ pc[t] \in Answered
    BY DEF LockInv, LockOK, Issued, Answered, Committed
  <1> QED
    BY <1>1, SettledStep DEF Still, Issued, Op, UserOf

\* A credential that a client holds stays in its hands.
LEMMA HeldStill ==
    ASSUME TypeOK, [Next]_vars, NEW t \in Req, Held(t) \/ LinkHeld(t)
    PROVE  /\ Held(t) => Held(t)' /\ UserOf(t)' = UserOf(t) /\ seen'[t] = seen[t]
           /\ LinkHeld(t) => LinkHeld(t)'
  BY SettledStep DEF Held, LinkHeld, Answered, Still, Op, UserOf

-----------------------------------------------------------------------------
(* The requests that do not move.                                            *)

\* Whatever another request, a clock or an operator does, what request q
\* relies on stays true.
LEMMA RequestStill ==
    ASSUME TypeOK, TypeOK', FlowInv, LockInv, AccountInv, RequestsInv, [Next]_vars,
           NEW q \in Req, Still(q), resetKeys'[q] \in {resetKeys[q], None}
    PROVE  RequestOK(q)'
  <1> USE DEF Still
  <1>0. RequestOK(q) /\ FlowOK(q) /\ LockOK(q)
    BY DEF RequestsInv, FlowInv, LockInv
  <1>1. \A u \in User : Advances(u)
    BY AccountsAdvance
  <1>2. /\ Op(q)' = Op(q) /\ UserOf(q)' = UserOf(q)
        /\ Ending(q)' = Ending(q) /\ HasRow(q)' = HasRow(q) /\ HasOrg(q)' = HasOrg(q)
        /\ Consuming(q)' = Consuming(q) /\ Redeemed(q)' = Redeemed(q)
    BY DEF Op, UserOf, Ending, HasRow, HasOrg, Consuming, Redeemed
  <1>3. UserOK(q)'
    <2>1. UserOf(q)' \in User => users'[UserOf(q)'].id # None
      BY <1>0, <1>1, <1>2 DEF RequestOK, UserOK, Advances
    <2>2. resetKeys'[q] # None => users'[resetKeys'[q]].id # None
      BY <1>0, <1>1 DEF RequestOK, UserOK, Advances, TypeOK
    <2>3. Ending(q)' => UserOf(q)' \in User
      BY <1>0, <1>2 DEF RequestOK, UserOK
    <2>4. Ending(q)' /\ Op(q)' # "logout" => call'[q].next \in Password
      BY <1>0, <1>2 DEF RequestOK, UserOK
    <2>5. ASSUME NEW a, a = call[q].arg, Consuming(q)
          PROVE  /\ a \in Req /\ Held(a)'
                 /\ UserOf(q)' = UserOf(a)'
                 /\ seen'[q].org = seen'[a].org
      <3>1. a \in Req /\ Held(a) /\ UserOf(q) = UserOf(a) /\ seen[q].org = seen[a].org
        BY <1>0, <2>5 DEF RequestOK, UserOK, Held, Op, UserOf
      <3> QED
        BY <3>1, <1>2, HeldStill
    <2>6. Consuming(q)' => /\ call'[q].arg \in Req
                           /\ pc'[call'[q].arg] = "ok"
                           /\ call'[call'[q].arg].op \in Issuers
                           /\ seen'[q].user = seen'[call'[q].arg].user
                           /\ seen'[q].org = seen'[call'[q].arg].org
      BY <2>5, <1>2 DEF Held, Op, UserOf
    <2> QED
      BY <2>1, <2>2, <2>3, <2>4, <2>6 DEF UserOK, Held, Op, UserOf
  <1>4. CarriedOK(q)'
    <2>1. ASSUME HasRow(q)
          PROVE  /\ seen'[q].hash \in Password
                 /\ seen'[q].ver <= users'[UserOf(q)'].ver
                 /\ seen'[q].ver = users'[UserOf(q)'].ver
                       => seen'[q].hash = users'[UserOf(q)'].hash
      <3> DEFINE u == UserOf(q)
      <3>1. u \in User /\ users[u].id # None
        BY <2>1, <1>0 DEF HasRow, FlowOK, RequestOK, UserOK
      <3>2. /\ users'[u].ver >= users[u].ver
            /\ users'[u].hash # users[u].hash => users'[u].ver > users[u].ver
        BY <3>1, <1>1 DEF Advances
      <3>3. users[u].ver \in Nat /\ users'[u].ver \in Nat /\ seen[q].ver \in Nat
        BY <3>1 DEF TypeOK, Row
      <3>4. /\ seen[q].hash \in Password /\ seen[q].ver <= users[u].ver
            /\ seen[q].ver = users[u].ver => seen[q].hash = users[u].hash
        BY <2>1, <1>0 DEF RequestOK, CarriedOK
      <3> HIDE DEF u
      <3>5. /\ seen[q].ver <= users'[u].ver
            /\ seen[q].ver = users'[u].ver => seen[q].hash = users'[u].hash
        BY <3>2, <3>3, <3>4
      <3> QED
        BY <3>4, <3>5, <1>2 DEF u
    <2>2. ASSUME HasOrg(q) PROVE seen'[q].org \in memberships'[UserOf(q)']
      <3>1. UserOf(q) \in User
        BY <2>2, <1>0 DEF HasOrg, FlowOK
      <3>2. seen[q].org \in memberships[UserOf(q)]
        BY <2>2, <1>0 DEF RequestOK, CarriedOK
      <3> QED
        BY <3>1, <3>2, <1>1, <1>2 DEF Advances
    <2> QED
      BY <2>1, <2>2, <1>2 DEF CarriedOK
  <1>5. CoverOK(q)'
    <2>1. ASSUME NEW t \in Req, tokens[t] # "none"
          PROVE  tokens'[t] # "none" /\ UserOf(t)' = UserOf(t)
      BY <2>1, TokensAdvance, SessionStill
    <2>2. /\ \A t \in before[q] : t \in Req /\ tokens[t] # "none"
          /\ \A t \in wrote[q] \cup todo[q] : t \in Req /\ tokens[t] # "none"
      BY <1>0 DEF RequestOK, CoverOK, LockOK, TypeOK
    <2>3. ASSUME Op(q) = "logout", pc[q] = "consume", NEW t \in before[q],
                 NEW a, a = call[q].arg
          PROVE  UserOf(t)' = UserOf(a)'
      <3>1. a \in Req /\ Held(a)
        BY <1>0, <2>3 DEF FlowOK, Held, Op
      <3>2. UserOf(a)' = UserOf(a)
        BY <3>1, HeldStill
      <3>3. UserOf(t) = UserOf(a)
        BY <1>0, <2>3 DEF RequestOK, CoverOK, UserOf
      <3> QED
        BY <2>1, <2>2, <3>2, <3>3
    <2>4. ASSUME Ending(q), NEW t \in before[q] PROVE UserOf(t)' = UserOf(q)'
      BY <1>0, <1>2, <2>1, <2>2, <2>4 DEF RequestOK, CoverOK
    <2>5. ASSUME NEW t \in wrote[q]
          PROVE  \/ Op(q)' \in Consumers /\ t = call'[q].arg
                 \/ pc'[q] = "revoking" /\ UserOf(t)' = UserOf(q)'
      BY <1>0, <1>2, <2>1, <2>2, <2>5 DEF RequestOK, CoverOK
    <2>6. ASSUME NEW t \in todo[q]
          PROVE  pc'[q] = "revoking" /\ UserOf(t)' = UserOf(q)'
      BY <1>0, <1>2, <2>1, <2>2, <2>6 DEF RequestOK, CoverOK
    <2>7. pc'[q] = "revoking" => before'[q] \subseteq wrote'[q] \cup todo'[q]
      BY <1>0 DEF RequestOK, CoverOK
    <2>8. Op(q)' = "logout" /\ pc'[q] = "consume"
             => \A t \in before'[q] : seen'[t].user = seen'[call'[q].arg].user
      BY <1>2, <2>3 DEF UserOf
    <2>9. \A t \in before'[q] : tokens'[t] # "none"
      BY <2>1, <2>2
    <2> QED
      BY <1>2, <2>4, <2>5, <2>6, <2>7, <2>8, <2>9 DEF CoverOK, UserOf
  <1>6. LinkOK(q)'
    <2>1. ASSUME NEW a, a = call[q].arg, Redeemed(q) PROVE a \in Req /\ LinkHeld(a)'
      <3>1. a \in Req /\ LinkHeld(a)
        BY <1>0, <2>1 DEF RequestOK, LinkOK, LinkHeld, Op
      <3> QED
        BY <3>1, HeldStill
    <2> QED
      BY <1>2, <2>1 DEF LinkOK, LinkHeld, Op
  <1> QED
    BY <1>3, <1>4, <1>5, <1>6 DEF RequestOK

-----------------------------------------------------------------------------
(* The request that moves: its arrival.                                      *)

\* What every arrival leaves as it was, and what it finds.
LEMMA ArrivalFrame ==
    ASSUME TypeOK, FlowInv, LockInv, RequestsInv, NEW r \in Req, Arrival(r)
    PROVE  /\ UNCHANGED <<users, memberships, tokens>>
           /\ pc[r] = "idle" /\ wrote'[r] = {} /\ todo'[r] = {}
           /\ \A t \in Req : t # r => Still(t) /\ UserOf(t)' = UserOf(t)
           /\ \A t \in Req : tokens[t] # "none" => t # r
           /\ \A t \in before[r] : t \in Req /\ tokens[t] # "none"
           /\ resetKeys'[r] # None => users[resetKeys'[r]].id # None
           /\ UserOf(r) \in User => users[UserOf(r)].id # None
  <1>1. FlowOK(r) /\ LockOK(r) /\ RequestOK(r)
    BY DEF FlowInv, LockInv, RequestsInv
  <1>2. pc[r] = "idle" /\ UNCHANGED <<users, memberships, tokens, wrote, todo>>
    BY ArrivalShape DEF db
  <1>3. wrote[r] = {} /\ todo[r] = {} /\ tokens[r] = "none"
    BY <1>1, <1>2 DEF LockOK, Open, RequestOK, CoverOK, Issued, Committed, TypeOK
  <1>4. \A t \in Req : t # r => Still(t) /\ UserOf(t)' = UserOf(t)
    BY StillArrival DEF Still, UserOf
  <1>5. resetKeys'[r] \in {resetKeys[r], None}
    BY StillArrival
  <1> QED
    BY <1>1, <1>2, <1>3, <1>4, <1>5 DEF RequestOK, CoverOK, UserOK, TypeOK

\* A request that is answered at once has nothing to answer for.
LEMMA RequestRefused ==
    ASSUME TypeOK, FlowInv, LockInv, RequestsInv, NEW r \in Req, Arrival(r),
           pc'[r] \in {"denied", "noop"}, Op(r)' = "reset" => pc'[r] = "denied",
           UNCHANGED seen,
           \A t \in before'[r] : t \in Req /\ tokens[t] # "none"
    PROVE  RequestOK(r)'
  <1>1. /\ ~Ending(r)' /\ ~HasRow(r)' /\ ~HasOrg(r)' /\ ~Consuming(r)' /\ ~Redeemed(r)'
        /\ pc'[r] # "consume" /\ pc'[r] # "revoking"
    BY DEF Ending, HasRow, HasOrg, Consuming, Redeemed, Open, Committed, Op
  <1>2. UserOK(r)'
    BY <1>1, ArrivalFrame DEF UserOK, UserOf
  <1>3. CoverOK(r)'
    BY <1>1, ArrivalFrame DEF CoverOK
  <1> QED
    BY <1>1, <1>2, <1>3 DEF RequestOK, CarriedOK, LinkOK

\* Register, Login and ForgotPassword start from an e-mail and a users row.
LEMMA RequestArrivalByEmail ==
    ASSUME TypeOK, FlowInv, LockInv, AccountInv, RequestsInv, NEW r \in Req,
           Register(r) \/ Login(r) \/ ForgotPassword(r)
    PROVE  RequestOK(r)'
  <1> USE DEF Arrive, Goto
  <1>0. Arrival(r)
    BY DEF Arrival
  <1>1. before' = before /\ \A t \in before'[r] : t \in Req /\ tokens[t] # "none"
    BY <1>0, ArrivalFrame DEF Register, Login, ForgotPassword, Refuse
  <1>r. ASSUME NEW op, Refuse(r, op, "denied") \/ Refuse(r, op, "noop"), op # "reset"
        PROVE  RequestOK(r)'
    BY <1>r, <1>0, <1>1, RequestRefused DEF Refuse, Op, TypeOK
  <1>2. ASSUME UNCHANGED seen \/ \E u \in User : users[u].id # None /\ UserOf(r)' = u
        PROVE  UserOf(r)' \in User => users'[UserOf(r)'].id # None
    BY <1>0, <1>2, ArrivalFrame DEF UserOf
  <1>3. ASSUME pc'[r] \in {"createUser", "listMemberships", "setKey"},
               Op(r)' \in {"register", "login", "forgot"},
               UNCHANGED seen \/ \E u \in User : users[u].id # None /\ UserOf(r)' = u
        PROVE  UserOK(r)' /\ CoverOK(r)' /\ LinkOK(r)' /\ ~HasOrg(r)'
    <2>1. /\ ~Ending(r)' /\ ~HasOrg(r)' /\ ~Consuming(r)' /\ ~Redeemed(r)'
          /\ pc'[r] # "consume" /\ pc'[r] # "revoking"
      BY <1>3 DEF Ending, HasOrg, Consuming, Redeemed, Open, Committed, Op, Revokers,
         Consumers
    <2>2. UserOK(r)'
      BY <1>0, <1>2, <1>3, <2>1, ArrivalFrame DEF UserOK
    <2>3. CoverOK(r)'
      BY <1>0, <1>1, <2>1, ArrivalFrame DEF CoverOK
    <2> QED
      BY <2>1, <2>2, <2>3 DEF LinkOK
  <1>4. CASE Register(r)
    <2>1. CASE Refuse(r, "register", "denied")
      BY <2>1, <1>r
    <2>2. CASE ~Refuse(r, "register", "denied")
      <3>1. pc'[r] = "createUser" /\ Op(r)' = "register" /\ UNCHANGED seen
        BY <1>4, <2>2 DEF Register, Op, TypeOK
      <3> QED
        BY <3>1, <1>3 DEF RequestOK, CarriedOK, HasRow, Committed
    <2> QED
      BY <2>1, <2>2
  <1>5. CASE Login(r)
    <2>1. CASE Refuse(r, "login", "denied")
      BY <2>1, <1>r
    <2>2. CASE ~Refuse(r, "login", "denied")
      <3>1. PICK u \in User : /\ users[u].id # None
                              /\ Arrive(r, "login", u, None, None, "listMemberships")
                              /\ seen' = [seen EXCEPT ![r] = ReadRow(u, None)]
        BY <1>5, <2>2 DEF Login
      <3>2. /\ pc'[r] = "listMemberships" /\ Op(r)' = "login" /\ UserOf(r)' = u
            /\ seen'[r].ver = users[u].ver /\ seen'[r].hash = users[u].hash
        BY <3>1 DEF Op, UserOf, TypeOK, ReadRow
      <3>3. users[u].hash \in Password /\ users[u].ver \in Nat /\ users' = users
        BY <3>1, <1>0, ArrivalFrame DEF AccountInv, AccountOK, TypeOK
      <3>4. CarriedOK(r)'
        BY <3>1, <3>2, <3>3, <1>3 DEF CarriedOK
      <3> QED
        BY <3>1, <3>2, <3>4, <1>3 DEF RequestOK
    <2> QED
      BY <2>1, <2>2
  <1>6. CASE ForgotPassword(r)
    <2>1. CASE Refuse(r, "forgot", "noop")
      BY <2>1, <1>r
    <2>2. CASE ~Refuse(r, "forgot", "noop")
      <3>1. PICK u \in User : /\ users[u].id # None
                              /\ Arrive(r, "forgot", u, None, None, "setKey")
                              /\ seen' = [seen EXCEPT ![r].user = u]
        BY <1>6, <2>2 DEF ForgotPassword
      <3>2. pc'[r] = "setKey" /\ Op(r)' = "forgot" /\ UserOf(r)' = u
        BY <3>1 DEF Op, UserOf, TypeOK, Row
      <3> QED
        BY <3>1, <3>2, <1>3 DEF RequestOK, CarriedOK, HasRow, Committed
    <2> QED
      BY <2>1, <2>2
  <1> QED
    BY <1>4, <1>5, <1>6

\* Refresh and Logout start from a refresh token that a client holds.
LEMMA RequestArrivalByToken ==
    ASSUME TypeOK, FlowInv, LockInv, RequestsInv, NEW r \in Req,
           Refresh(r) \/ Logout(r)
    PROVE  RequestOK(r)'
  <1> USE DEF Arrive, Goto
  <1>0. Arrival(r)
    BY DEF Arrival
  <1>1. PICK a \in Req :
          /\ Held(a)
          /\ UNCHANGED seen
          /\ before'[r] \in {before[r], TokensOf(UserOf(a))}
          /\ Op(r)' = "logout" => before'[r] = TokensOf(UserOf(a))
          /\ Op(r)' \in Consumers
          /\ \/ pc'[r] = "consume" /\ call'[r].arg = a
             \/ pc'[r] \in {"denied", "noop"}
    <2>1. CASE Refresh(r)
      <3>1. PICK a \in Req :
              /\ Held(a)
              /\ \/ Refuse(r, "refresh", "denied")
                 \/ /\ Arrive(r, "refresh", a, None, None, "consume")
                    /\ UNCHANGED <<db, resetKeys, expired, seen, wrote, todo, before>>
        BY <2>1 DEF Refresh
      <3>2. UNCHANGED <<seen, before>> /\ Op(r)' = "refresh"
        BY <3>1 DEF Refuse, Op, TypeOK
      <3>3. pc'[r] = "denied" \/ (pc'[r] = "consume" /\ call'[r].arg = a)
        BY <3>1 DEF Refuse, TypeOK
      <3> QED
        BY <3>1, <3>2, <3>3 DEF Consumers
    <2>2. CASE Logout(r)
      BY <2>2 DEF Logout, Op, TypeOK, Consumers
    <2> QED
      BY <2>1, <2>2
  <1>2. \A t \in before'[r] : t \in Req /\ tokens[t] # "none"
    BY <1>0, <1>1, ArrivalFrame DEF TokensOf
  <1>3. CASE pc'[r] \in {"denied", "noop"}
    BY <1>0, <1>1, <1>2, <1>3, RequestRefused DEF Consumers
  <1>4. CASE pc'[r] = "consume"
    <2>1. /\ ~Ending(r)' /\ ~HasRow(r)' /\ ~HasOrg(r)' /\ ~Consuming(r)' /\ ~Redeemed(r)'
          /\ pc'[r] # "revoking"
      BY <1>1, <1>4 DEF Ending, HasRow, HasOrg, Consuming, Redeemed, Open, Committed,
         Op, Consumers
    <2>2. UserOK(r)'
      BY <1>0, <1>1, <2>1, ArrivalFrame DEF UserOK, UserOf
    <2>3. UserOf(a)' = UserOf(a)
      BY <1>1 DEF UserOf
    <2>4. Op(r)' = "logout" => \A t \in before'[r] : UserOf(t)' = UserOf(a)'
      BY <1>0, <1>1, <1>4, <2>3, ArrivalFrame DEF TokensOf
    <2>5. CoverOK(r)'
      BY <1>0, <1>1, <1>2, <1>4, <2>1, <2>4, ArrivalFrame DEF CoverOK, UserOf
    <2> QED
      BY <2>1, <2>2, <2>5 DEF RequestOK, CarriedOK, LinkOK
  <1> QED
    BY <1>1, <1>3, <1>4

\* Me and ChangePassword start from a JWT; the user is the one it names.
LEMMA RequestArrivalByJwt ==
    ASSUME TypeOK, FlowInv, LockInv, RequestsInv, NEW r \in Req,
           Me(r) \/ ChangePassword(r)
    PROVE  RequestOK(r)'
  <1> USE DEF Arrive, Goto
  <1>0. Arrival(r)
    BY DEF Arrival
  <1>1. PICK a \in Req :
          /\ Held(a)
          /\ \/ /\ pc'[r] = "readMe" /\ Op(r)' = "me" /\ UserOf(r)' = UserOf(a)
                /\ before' = before
             \/ /\ pc'[r] = "checkPassword" /\ Op(r)' = "change"
                /\ UserOf(r)' = UserOf(a) /\ call'[r].next \in Password
                /\ before'[r] = TokensOf(UserOf(a))
             \/ pc'[r] = "denied" /\ UNCHANGED <<seen, before>>
    <2>1. CASE Me(r)
      <3>1. PICK a \in Req :
              /\ Held(a)
              /\ \/ Refuse(r, "me", "denied")
                 \/ /\ Arrive(r, "me", a, None, None, "readMe")
                    /\ seen' = [seen EXCEPT ![r].user = UserOf(a), ![r].org = seen[a].org]
                    /\ before' = before
        BY <2>1 DEF Me
      <3>2. CASE Refuse(r, "me", "denied")
        BY <3>1, <3>2 DEF Refuse, TypeOK
      <3>3. CASE Arrive(r, "me", a, None, None, "readMe") /\ ~Refuse(r, "me", "denied")
        <4>1. pc'[r] = "readMe" /\ Op(r)' = "me"
          BY <3>3 DEF Op, TypeOK
        <4>2. seen'[r].user = UserOf(a)
          BY <3>1, <3>3 DEF TypeOK, Row
        <4> QED
          BY <3>1, <3>3, <4>1, <4>2 DEF UserOf
      <3> QED
        BY <3>1, <3>2, <3>3
    <2>2. CASE ChangePassword(r)
      <3>1. PICK a \in Req, current \in Password, next \in Password :
              /\ Held(a)
              /\ \/ Refuse(r, "change", "denied")
                 \/ /\ Arrive(r, "change", a, current, next, "checkPassword")
                    /\ seen' = [seen EXCEPT ![r].user = UserOf(a)]
                    /\ before' = [before EXCEPT ![r] = TokensOf(UserOf(a))]
        BY <2>2 DEF ChangePassword
      <3>2. CASE Refuse(r, "change", "denied")
        BY <3>1, <3>2 DEF Refuse, TypeOK
      <3>3. CASE ~Refuse(r, "change", "denied")
        <4>1. pc'[r] = "checkPassword" /\ Op(r)' = "change" /\ call'[r].next = next
          BY <3>1, <3>3 DEF Op, TypeOK
        <4>2. seen'[r].user = UserOf(a) /\ before'[r] = TokensOf(UserOf(a))
          BY <3>1, <3>3 DEF TypeOK, Row
        <4> QED
          BY <3>1, <4>1, <4>2 DEF UserOf
      <3> QED
        BY <3>1, <3>2, <3>3
    <2> QED
      BY <2>1, <2>2
  <1>2. \A t \in before'[r] : t \in Req /\ tokens[t] # "none"
    BY <1>0, <1>1, ArrivalFrame DEF TokensOf
  <1>3. UserOf(a) \in User /\ users[UserOf(a)].id # None
    BY <1>1 DEF FlowInv, FlowOK, Held, RequestsInv, RequestOK, UserOK, Committed
  <1>4. CASE pc'[r] = "denied"
    BY <1>0, <1>1, <1>2, <1>4, RequestRefused
  <1>5. CASE pc'[r] # "denied"
    <2>1. /\ ~HasRow(r)' /\ ~HasOrg(r)' /\ ~Consuming(r)' /\ ~Redeemed(r)'
          /\ pc'[r] # "consume" /\ pc'[r] # "revoking"
          /\ Ending(r)' => pc'[r] = "checkPassword" /\ Op(r)' = "change"
      BY <1>1, <1>5 DEF Ending, HasRow, HasOrg, Consuming, Redeemed, Open, Committed,
         Op, Consumers, Issuers
    <2>2. UserOK(r)'
      BY <1>0, <1>1, <1>3, <1>5, <2>1, ArrivalFrame DEF UserOK
    <2>3. Ending(r)' => \A t \in before'[r] : UserOf(t)' = UserOf(r)'
      BY <1>0, <1>1, <2>1, ArrivalFrame DEF TokensOf
    <2>4. CoverOK(r)'
      BY <1>0, <1>2, <2>1, <2>3, ArrivalFrame DEF CoverOK
    <2> QED
      BY <2>1, <2>2, <2>4 DEF RequestOK, CarriedOK, LinkOK
  <1> QED
    BY <1>4, <1>5

\* ResetPassword starts from a mailed link; the user is the one its key names.
LEMMA RequestArrivalByLink ==
    ASSUME TypeOK, FlowInv, LockInv, RequestsInv, NEW r \in Req, ResetPassword(r)
    PROVE  RequestOK(r)'
  <1> USE DEF Arrive, Goto
  <1>0. Arrival(r)
    BY DEF Arrival
  <1>1. PICK f \in Req :
          /\ LinkHeld(f)
          /\ \/ /\ pc'[r] = "updateUser" /\ Op(r)' = "reset" /\ call'[r].arg = f
                /\ resetKeys[f] # None /\ UserOf(r)' = resetKeys[f]
                /\ call'[r].next \in Password
                /\ before'[r] = TokensOf(resetKeys[f])
             \/ pc'[r] = "denied" /\ UNCHANGED <<seen, before>>
    <2>1. PICK f \in Req, next \in Password :
            /\ LinkHeld(f)
            /\ \/ pc'[r] = "denied" /\ UNCHANGED <<seen, before>>
               \/ /\ resetKeys[f] # None
                  /\ Arrive(r, "reset", f, None, next, "updateUser")
                  /\ seen' = [seen EXCEPT ![r].user = resetKeys[f]]
                  /\ before' = [before EXCEPT ![r] = TokensOf(resetKeys[f])]
      BY DEF ResetPassword, Refuse, TypeOK
    <2>2. CASE ~(pc'[r] = "denied" /\ UNCHANGED <<seen, before>>)
      <3>1. /\ pc'[r] = "updateUser" /\ Op(r)' = "reset" /\ call'[r].arg = f
            /\ call'[r].next = next
        BY <2>1, <2>2 DEF Op, TypeOK
      <3>2. seen'[r].user = resetKeys[f] /\ before'[r] = TokensOf(resetKeys[f])
        BY <2>1, <2>2 DEF TypeOK, Row
      <3> QED
        BY <2>1, <2>2, <3>1, <3>2 DEF UserOf
    <2> QED
      BY <2>1, <2>2
  <1>2. \A t \in before'[r] : t \in Req /\ tokens[t] # "none"
    BY <1>0, <1>1, ArrivalFrame DEF TokensOf
  <1>3. resetKeys[f] # None => resetKeys[f] \in User /\ users[resetKeys[f]].id # None
    BY DEF TypeOK, RequestsInv, RequestOK, UserOK
  <1>4. CASE pc'[r] = "denied"
    BY <1>0, <1>1, <1>2, <1>4, RequestRefused
  <1>5. CASE pc'[r] = "updateUser"
    <2>1. /\ ~HasRow(r)' /\ ~HasOrg(r)' /\ ~Consuming(r)'
          /\ pc'[r] # "consume" /\ pc'[r] # "revoking"
      BY <1>1, <1>5 DEF HasRow, HasOrg, Consuming, Committed, Op, Consumers, Issuers
    <2>2. UserOK(r)'
      BY <1>0, <1>1, <1>3, <1>5, <2>1, ArrivalFrame DEF UserOK
    <2>3. \A t \in before'[r] : UserOf(t)' = UserOf(r)'
      BY <1>0, <1>1, <1>5, ArrivalFrame DEF TokensOf
    <2>4. CoverOK(r)'
      BY <1>0, <1>2, <2>1, <2>3, ArrivalFrame DEF CoverOK
    <2>5. f # r /\ LinkHeld(f)'
      BY <1>0, <1>1, ArrivalFrame DEF LinkHeld, Still, Op
    <2>6. LinkOK(r)'
      BY <1>1, <1>5, <2>5 DEF LinkOK, LinkHeld, Op
    <2> QED
      BY <2>1, <2>2, <2>4, <2>6 DEF RequestOK, CarriedOK
  <1> QED
    BY <1>1, <1>4, <1>5

\* Every handler's first step establishes what the request will rely on.
LEMMA RequestArrival ==
    ASSUME TypeOK, FlowInv, LockInv, AccountInv, RequestsInv, NEW r \in Req,
           Arrival(r)
    PROVE  RequestOK(r)'
  BY RequestArrivalByEmail, RequestArrivalByToken, RequestArrivalByJwt,
     RequestArrivalByLink DEF Arrival

-----------------------------------------------------------------------------
(* The request that moves: its storage accesses.                             *)

\* What every step of the server leaves as it was, and what it finds.
LEMMA ServerFrame ==
    ASSUME TypeOK, FlowInv, LockInv, AccountInv, RequestsInv, NEW r \in Req,
           ServerStep(r) \/ Fail(r) \/ DeadlockAbort(r)
    PROVE  /\ pc[r] \in Steps /\ UNCHANGED call /\ Op(r)' = Op(r)
           /\ \A t \in Req : t # r => Still(t) /\ UserOf(t)' = UserOf(t)
           /\ \A t \in Req : tokens[t] # "none" => t # r /\ tokens'[t] # "none"
           /\ \A u \in User : Advances(u)
           /\ \A t \in before[r] \cup wrote[r] \cup todo[r] :
                 t \in Req /\ tokens[t] # "none"
           /\ RequestOK(r) /\ FlowOK(r) /\ LockOK(r)
           /\ Redeemed(r)' => LinkOK(r)'
           /\ resetKeys'[r] \in {resetKeys[r], UserOf(r)}
           /\ Redeemed(r)' => Redeemed(r)
  <1>1. FlowOK(r) /\ LockOK(r) /\ RequestOK(r)
    BY DEF FlowInv, LockInv, RequestsInv
  <1>2. [Next]_vars
    BY DEF Next, ServerStep
  <1>3. pc[r] \in Steps /\ call' = call
    BY StepShape
  <1>4. \A t \in Req : t # r => Still(t) /\ UserOf(t)' = UserOf(t)
    BY StillServer DEF Still, UserOf
  <1>5. \A t \in Req : tokens[t] # "none" => t # r /\ tokens'[t] # "none"
    BY <1>1, <1>2, <1>3, TokensAdvance DEF LockOK, Issued, Committed, Steps
  <1>6. \A u \in User : Advances(u)
    BY <1>2, AccountsAdvance
  <1>7. \A t \in before[r] \cup wrote[r] \cup todo[r] : t \in Req /\ tokens[t] # "none"
    BY <1>1 DEF RequestOK, CoverOK, LockOK, TypeOK
  <1>8. Redeemed(r)' => Redeemed(r)
    BY <1>3 DEF Redeemed, Op, Steps
  <1>9. ASSUME NEW a, a = call[r].arg, Redeemed(r) PROVE a \in Req /\ LinkHeld(a)'
    <2>1. a \in Req /\ LinkHeld(a)
      BY <1>1, <1>9 DEF RequestOK, LinkOK, LinkHeld, Op
    <2> QED
      BY <2>1, <1>2, HeldStill
  <1>10. Redeemed(r)' => LinkOK(r)'
    BY <1>3, <1>8, <1>9 DEF LinkOK, LinkHeld, Op
  <1>11. resetKeys'[r] \in {resetKeys[r], UserOf(r)}
    <2>1. CASE SetKey(r)
      BY <2>1 DEF SetKey, TypeOK
    <2>2. CASE ~SetKey(r)
      BY <2>2 DEF ServerStep, Fail, DeadlockAbort, Abort, Quit, CreateUser,
         CommitUser, ListMemberships, Issue, Consume, ConsumeNothing, ReadUser,
         ReadMembership, CommitRotation, UpdateUser, RevokeAll, RevokeRow,
         CommitRevocation, ReadMe, CheckPassword, SendMail
    <2> QED
      BY <2>1, <2>2
  <1> QED
    BY <1>1, <1>3, <1>4, <1>5, <1>6, <1>7, <1>8, <1>10, <1>11 DEF Op

\* A consumer's token is another request's, which has been answered.
LEMMA ConsumerFrame ==
    ASSUME TypeOK, FlowInv, LockInv, AccountInv, RequestsInv, NEW r \in Req,
           ServerStep(r) \/ Fail(r) \/ DeadlockAbort(r),
           NEW a, a = call[r].arg, Consuming(r) \/ pc[r] = "consume"
    PROVE  /\ a \in Req /\ a # r /\ Held(a) /\ Held(a)'
           /\ UserOf(a) \in User /\ UserOf(a)' = UserOf(a) /\ seen'[a] = seen[a]
           /\ Consuming(r) => UserOf(r) = UserOf(a) /\ seen[r].org = seen[a].org
  <1>1. a \in Req /\ pc[a] = "ok" /\ call[a].op \in Issuers
    BY ServerFrame DEF RequestOK, UserOK, FlowOK, Held, Op
  <1>2. a # r
    BY <1>1, ServerFrame DEF Steps
  <1>3. Still(a) /\ FlowOK(a)
    BY <1>1, <1>2, ServerFrame DEF FlowInv
  <1>4. Consuming(r) => UserOf(r) = UserOf(a) /\ seen[r].org = seen[a].org
    BY ServerFrame DEF RequestOK, UserOK, UserOf
  <1> QED
    BY <1>1, <1>2, <1>3, <1>4 DEF Held, Still, Op, UserOf, FlowOK, Committed

\* UserOK carries over for a request that keeps its row.
LEMMA UserKept ==
    ASSUME TypeOK, FlowInv, LockInv, AccountInv, RequestsInv, NEW r \in Req,
           ServerStep(r) \/ Fail(r) \/ DeadlockAbort(r),
           seen'[r].user = seen[r].user, seen'[r].org = seen[r].org,
           Ending(r)' => Ending(r), Consuming(r)' => Consuming(r)
    PROVE  UserOK(r)'
  <1>1. RequestOK(r) /\ call' = call /\ UserOf(r)' = UserOf(r) /\ Op(r)' = Op(r)
    BY ServerFrame DEF UserOf
  <1>2. UserOf(r) \in User => users'[UserOf(r)].id # None
    BY <1>1, ServerFrame DEF RequestOK, UserOK, Advances
  <1>3. resetKeys'[r] # None => users'[resetKeys'[r]].id # None
    <2>1. resetKeys[r] # None => resetKeys[r] \in User /\ users'[resetKeys[r]].id # None
      BY <1>1, ServerFrame DEF RequestOK, UserOK, Advances, TypeOK
    <2>2. UserOf(r) \in User \cup {None}
      BY DEF TypeOK, Row, UserOf
    <2> QED
      BY <1>2, <2>1, <2>2, ServerFrame
  <1>4. Consuming(r)' =>
           /\ call'[r].arg \in Req /\ pc'[call'[r].arg] = "ok"
           /\ call'[call'[r].arg].op \in Issuers
           /\ seen'[r].user = seen'[call'[r].arg].user
           /\ seen'[r].org = seen'[call'[r].arg].org
    BY <1>1, ConsumerFrame DEF Held, Op, UserOf
  <1> QED
    BY <1>1, <1>2, <1>3, <1>4 DEF RequestOK, UserOK, Held, Op, UserOf

\* A request that gives up forgets whom it worked for.
LEMMA RequestQuit ==
    ASSUME TypeOK, FlowInv, LockInv, AccountInv, RequestsInv, NEW r \in Req,
           ServerStep(r) \/ Fail(r) \/ DeadlockAbort(r),
           NEW l \in Answered \ Committed, Quit(r, l)
    PROVE  RequestOK(r)'
  <1>1. /\ pc'[r] = l /\ seen'[r] = NoRow /\ wrote'[r] = {} /\ todo'[r] = {}
        /\ before'[r] = {} /\ UNCHANGED <<users, resetKeys>>
    BY DEF Quit, Goto, TypeOK, db
  <1>2. /\ ~Ending(r)' /\ ~HasRow(r)' /\ ~HasOrg(r)' /\ ~Consuming(r)'
        /\ pc'[r] # "consume" /\ pc'[r] # "revoking"
    BY <1>1 DEF Ending, HasRow, HasOrg, Consuming, Open, Committed, Answered, Op
  <1>3. UserOf(r)' \notin User
    BY <1>1, NoneAssumption DEF UserOf, NoRow
  <1>4. UserOK(r)'
    BY <1>1, <1>2, <1>3, ServerFrame DEF UserOK, RequestOK
  <1>5. CarriedOK(r)' /\ CoverOK(r)'
    BY <1>1, <1>2 DEF CarriedOK, CoverOK
  <1>6. LinkOK(r)'
    BY ServerFrame DEF LinkOK
  <1> QED
    BY <1>4, <1>5, <1>6 DEF RequestOK

\* The steps that neither read rows nor write any, save for a reset key.
LEMMA RequestPlain ==
    ASSUME TypeOK, FlowInv, LockInv, AccountInv, RequestsInv, NEW r \in Req,
           \/ CreateUser(r) \/ ReadMe(r) \/ SetKey(r) \/ SendMail(r)
           \/ UpdateUser(r) \/ (CheckPassword(r) /\ ~Quit(r, "denied"))
    PROVE  RequestOK(r)'
  <1>0. ServerStep(r)
    BY DEF ServerStep
  <1>1. /\ UNCHANGED <<users, memberships, tokens, call, seen, wrote, todo, before>>
        /\ \/ pc[r] = "createUser" /\ pc'[r] \in {"commitUser", "denied"}
           \/ pc[r] = "readMe" /\ pc'[r] \in {"ok", "error"}
           \/ pc[r] \in {"setKey", "sendMail"} /\ pc'[r] \in {"sendMail", "ok", "lost"}
           \/ pc[r] \in {"checkPassword", "updateUser"}
              /\ pc'[r] \in {"updateUser", "revokeAll"}
    BY DEF CreateUser, ReadMe, SetKey, SendMail, UpdateUser, CheckPassword, db, local,
       Goto, TypeOK, Answers, Committed
  <1>2. /\ Ending(r)' => Ending(r)
        /\ Consuming(r)' => Consuming(r)
        /\ ~HasRow(r)' /\ ~HasOrg(r)' /\ pc'[r] # "consume" /\ pc'[r] # "revoking"
        /\ pc[r] # "revoking"
    BY <1>0, <1>1, ServerFrame DEF FlowOK, Ending, Consuming, HasRow, HasOrg, Open,
       Committed, Op, Revokers, Consumers, Issuers
  <1>3. RequestOK(r) /\ Op(r)' = Op(r) /\ UserOf(r)' = UserOf(r)
    BY <1>0, <1>1, ServerFrame DEF UserOf
  <1>4. UserOK(r)'
    BY <1>0, <1>1, <1>2, UserKept
  <1>5. CoverOK(r)'
    BY <1>1, <1>2, <1>3 DEF RequestOK, CoverOK, UserOf, Op
  <1> QED
    BY <1>0, <1>2, <1>4, <1>5, ServerFrame DEF RequestOK, CarriedOK, LinkOK

\* CommitUser, and the choice of the organisation at a login.
LEMMA RequestOpening ==
    ASSUME TypeOK, FlowInv, LockInv, AccountInv, RequestsInv, NEW r \in Req,
           CommitUser(r) \/ (ListMemberships(r) /\ ~Quit(r, "denied"))
    PROVE  RequestOK(r)'
  <1>0. ServerStep(r)
    BY DEF ServerStep
  <1>1. CASE CommitUser(r)
    <2> DEFINE u == call[r].arg
    <2>1. /\ pc[r] = "commitUser" /\ Op(r) = "register" /\ u \in User
          /\ call[r].next \in Password
          /\ users'[u] = [id |-> r, hash |-> call[r].next, ver |-> 0]
          /\ memberships'[u] = {u}
          /\ seen'[r] = [user |-> u, ver |-> 0, hash |-> call[r].next, org |-> u]
          /\ pc'[r] \in {"issue", "error"}
          /\ UNCHANGED <<tokens, resetKeys, call, wrote, todo, before>>
      BY <1>1, CommitUserEffect
    <2>2. /\ ~Ending(r)' /\ ~Consuming(r)' /\ ~Redeemed(r)'
          /\ pc'[r] # "consume" /\ pc'[r] # "revoking" /\ pc[r] # "revoking"
      BY <2>1 DEF Ending, Consuming, Redeemed, Op, Revokers, Consumers
    <2>3. r # None
      BY NoneAssumption
    <2>4. resetKeys'[r] # None => users'[resetKeys'[r]].id # None
      BY <1>0, <2>1, ServerFrame DEF RequestOK, UserOK, Advances, TypeOK
    <2>5. UserOK(r)'
      BY <2>1, <2>2, <2>3, <2>4 DEF UserOK, UserOf
    <2>6. CarriedOK(r)'
      BY <2>1 DEF CarriedOK, UserOf
    <2>7. CoverOK(r)'
      BY <1>0, <2>1, <2>2, ServerFrame DEF RequestOK, CoverOK, Op, Consumers
    <2> QED
      BY <2>2, <2>5, <2>6, <2>7 DEF RequestOK, LinkOK
  <1>2. CASE ListMemberships(r) /\ ~Quit(r, "denied")
    <2>1. PICK o \in memberships[UserOf(r)] :
            /\ pc[r] = "listMemberships" /\ pc'[r] = "issue"
            /\ seen' = [seen EXCEPT ![r].org = o]
            /\ UNCHANGED <<users, memberships, tokens, resetKeys, call, wrote, todo, before>>
      BY <1>2 DEF ListMemberships, Selectable, Goto, TypeOK, db
    <2>2. /\ seen'[r].user = seen[r].user /\ seen'[r].ver = seen[r].ver
          /\ seen'[r].hash = seen[r].hash /\ seen'[r].org = o
      BY <2>1 DEF TypeOK, Row
    <2>3. Op(r) = "login" /\ Op(r)' = "login" /\ RequestOK(r) /\ UserOf(r)' = UserOf(r)
      BY <1>0, <2>1, <2>2, ServerFrame DEF FlowOK, UserOf
    <2>4. /\ ~Ending(r)' /\ ~Consuming(r)' /\ ~Redeemed(r)'
          /\ pc'[r] # "consume" /\ pc'[r] # "revoking" /\ pc[r] # "revoking" /\ HasRow(r)
      BY <2>1, <2>3 DEF Ending, Consuming, Redeemed, Revokers, Consumers, HasRow,
         Issuers, Op
    <2>5. UserOK(r)'
      BY <2>1, <2>3, <2>4 DEF RequestOK, UserOK
    <2>6. CarriedOK(r)'
      BY <2>1, <2>2, <2>3, <2>4 DEF RequestOK, CarriedOK
    <2>7. CoverOK(r)'
      BY <2>1, <2>3, <2>4 DEF RequestOK, CoverOK, Consumers
    <2> QED
      BY <2>4, <2>5, <2>6, <2>7 DEF RequestOK, LinkOK
  <1> QED
    BY <1>1, <1>2

\* ConsumeRefreshToken takes user and organisation from the token's row.
LEMMA RequestConsume ==
    ASSUME TypeOK, FlowInv, LockInv, AccountInv, RequestsInv, NEW r \in Req, Consume(r)
    PROVE  RequestOK(r)'
  <1>0. ServerStep(r)
    BY DEF ServerStep
  <1>1. PICK a : a = call[r].arg
    OBVIOUS
  <1>2. /\ pc[r] = "consume" /\ pc'[r] \in {"readUser", "updateUser"}
        /\ wrote'[r] = {a}
        /\ UNCHANGED <<users, memberships, tokens, resetKeys, call, todo, before>>
        /\ seen' = [seen EXCEPT ![r].user = seen[a].user, ![r].org = seen[a].org]
    BY <1>1 DEF Consume, Goto, TypeOK, db
  <1>3. /\ a \in Req /\ a # r /\ Held(a)' /\ UserOf(a)' = UserOf(a)
        /\ UserOf(a) \in User /\ seen'[a] = seen[a]
    BY <1>0, <1>1, <1>2, ConsumerFrame
  <1>4. UserOf(r)' = UserOf(a) /\ seen'[r].org = seen[a].org
    BY <1>2, <1>3 DEF UserOf, TypeOK, Row
  <1>5. users[UserOf(a)].id # None
    BY <1>3 DEF RequestsInv, RequestOK, UserOK
  <1>6. /\ Op(r) \in Consumers /\ Op(r)' = Op(r) /\ RequestOK(r) /\ call'[r].arg = a
    BY <1>0, <1>1, <1>2, ServerFrame DEF FlowOK
  <1>7. ~HasRow(r)' /\ ~HasOrg(r)' /\ ~Redeemed(r)' /\ (Ending(r)' => Op(r) = "logout")
    BY <1>2, <1>6 DEF HasRow, HasOrg, Redeemed, Ending, Committed, Op, Consumers,
       Revokers
  <1>8. UserOK(r)'
    BY <1>2, <1>3, <1>4, <1>5, <1>6, <1>7 DEF RequestOK, UserOK, Held, UserOf, Op
  <1>9. \A t \in before[r] : /\ UserOf(t)' = UserOf(t)
                             /\ Op(r) = "logout" => UserOf(t) = UserOf(a)
    <2>1. \A t \in before[r] : t \in Req /\ t # r
      BY <1>0, ServerFrame
    <2>2. \A t \in before[r] : UserOf(t)' = UserOf(t)
      BY <1>0, <2>1, ServerFrame
    <2>3. Op(r) = "logout" => \A t \in before[r] : UserOf(t) = UserOf(a)
      BY <1>1, <1>2, <1>6 DEF RequestOK, CoverOK
    <2> QED
      BY <2>2, <2>3
  <1>10. (\A t \in todo'[r] : FALSE) /\ pc'[r] # "revoking" /\ pc'[r] # "consume"
    <2>1. CoverOK(r)
      BY <1>6 DEF RequestOK
    <2>2. \A t \in todo[r] : FALSE
      BY <1>2, <2>1 DEF CoverOK
    <2> QED
      BY <1>2, <2>2
  <1>11. CoverOK(r)'
    <2>1. Ending(r)' => \A t \in before'[r] : UserOf(t)' = UserOf(r)'
      BY <1>2, <1>4, <1>7, <1>9
    <2>2. \A t \in before'[r] : tokens'[t] # "none"
      BY <1>2, <1>6 DEF RequestOK, CoverOK
    <2> QED
      BY <1>2, <1>6, <1>10, <2>1, <2>2 DEF CoverOK
  <1> QED
    BY <1>7, <1>8, <1>11 DEF RequestOK, CarriedOK, LinkOK

\* GetUserByID reads the row that the JWT will carry, GetOrgMembershipByUser
\* checks the organisation of the token.
LEMMA RequestReads ==
    ASSUME TypeOK, FlowInv, LockInv, AccountInv, RequestsInv, NEW r \in Req,
           ReadUser(r) \/ (ReadMembership(r) /\ ~Quit(r, "denied"))
    PROVE  RequestOK(r)'
  <1>0. ServerStep(r)
    BY DEF ServerStep
  <1>1. /\ UNCHANGED <<users, memberships, tokens, call, wrote, todo, before>>
        /\ \/ /\ pc[r] = "readUser" /\ pc'[r] = "readMembership"
              /\ seen'[r] = ReadRow(UserOf(r), seen[r].org)
           \/ /\ pc[r] = "readMembership" /\ pc'[r] = "commit"
              /\ seen'[r] = seen[r] /\ seen[r].org \in memberships[UserOf(r)]
    BY DEF ReadUser, ReadMembership, Goto, TypeOK, db, local
  <1>2. /\ seen'[r].user = seen[r].user /\ seen'[r].org = seen[r].org
        /\ UserOf(r)' = UserOf(r)
    BY <1>1 DEF ReadRow, UserOf
  <1>3. /\ Op(r) = "refresh" /\ Op(r)' = Op(r) /\ RequestOK(r)
        /\ UserOf(r) \in User /\ users[UserOf(r)].id # None
    BY <1>0, <1>1, ServerFrame DEF FlowOK, RequestOK, UserOK, Issuers
  <1>4. /\ ~Ending(r)' /\ ~Redeemed(r)' /\ Consuming(r)
        /\ pc'[r] # "consume" /\ pc'[r] # "revoking" /\ pc[r] # "revoking"
    BY <1>1, <1>3 DEF Ending, Redeemed, Consuming, Op, Revokers, Consumers, Open
  <1>5. UserOK(r)'
    BY <1>0, <1>2, <1>4, UserKept
  <1>6. CarriedOK(r)'
    <2>1. CASE pc[r] = "readUser"
      <3>1. users[UserOf(r)].hash \in Password /\ users[UserOf(r)].ver \in Nat
        BY <1>3 DEF AccountInv, AccountOK, TypeOK
      <3>2. seen'[r].hash = users[UserOf(r)].hash /\ seen'[r].ver = users[UserOf(r)].ver
        BY <1>1, <2>1 DEF ReadRow
      <3>3. ~HasOrg(r)'
        BY <1>1, <2>1 DEF HasOrg, Committed
      <3> QED
        BY <1>1, <1>2, <3>1, <3>2, <3>3 DEF CarriedOK
    <2>2. CASE pc[r] = "readMembership"
      <3>1. HasRow(r) /\ seen'[r] = seen[r] /\ seen[r].org \in memberships[UserOf(r)]
        BY <1>1, <1>3, <2>2 DEF HasRow, Issuers
      <3> QED
        BY <1>1, <1>2, <1>3, <3>1 DEF RequestOK, CarriedOK
    <2> QED
      BY <1>1, <2>1, <2>2
  <1>7. CoverOK(r)'
    BY <1>1, <1>3, <1>4 DEF RequestOK, CoverOK, Consumers
  <1> QED
    BY <1>4, <1>5, <1>6, <1>7 DEF RequestOK, LinkOK

\* The insert of a login, the commit of a rotation and that of a revocation.
LEMMA RequestCommit ==
    ASSUME TypeOK, FlowInv, LockInv, AccountInv, RequestsInv, NEW r \in Req,
           Issue(r) \/ CommitRotation(r) \/ CommitRevocation(r)
    PROVE  RequestOK(r)'
  <1>0. ServerStep(r)
    BY DEF ServerStep
  <1>1. /\ UNCHANGED <<memberships, call, seen, todo, before>> /\ pc'[r] \in Committed
        /\ wrote'[r] \in {{}, wrote[r]}
        /\ \/ pc[r] = "issue" /\ users' = users
           \/ pc[r] = "commit" /\ users' = users
           \/ pc[r] = "revoking" /\ todo[r] = {}
    BY DEF Issue, CommitRotation, CommitRevocation, Goto, TypeOK, local, Answers,
       Committed
  <1>2. /\ RequestOK(r) /\ Op(r)' = Op(r) /\ UserOf(r)' = UserOf(r)
        /\ pc[r] = "revoking" => Op(r) \in Revokers
        /\ pc[r] = "commit" => Op(r) = "refresh"
        /\ pc[r] = "issue" => Op(r) \in {"register", "login"}
    BY <1>0, <1>1, ServerFrame DEF FlowOK, UserOf
  <1>3. /\ Ending(r)' => Ending(r)
        /\ Consuming(r)' => Consuming(r)
        /\ HasRow(r)' => HasRow(r) /\ HasOrg(r) /\ users' = users
        /\ HasOrg(r)' => HasRow(r)'
        /\ pc'[r] # "consume" /\ pc'[r] # "revoking"
    BY <1>1, <1>2 DEF Ending, Consuming, HasRow, HasOrg, Open, Committed, Revokers,
       Consumers, Issuers, Op
  <1>4. UserOK(r)'
    BY <1>0, <1>1, <1>3, UserKept
  <1>5. CarriedOK(r)'
    BY <1>1, <1>2, <1>3 DEF RequestOK, CarriedOK
  <1>6. CoverOK(r)'
    <2>1. \A t \in before[r] : tokens'[t] # "none" /\ UserOf(t)' = UserOf(t)
      BY <1>0, ServerFrame
    <2>2. Ending(r)' => \A t \in before'[r] : UserOf(t)' = UserOf(r)'
      BY <1>1, <1>2, <1>3, <2>1 DEF RequestOK, CoverOK
    <2>3. \A t \in todo'[r] : FALSE
      BY <1>1, <1>2 DEF RequestOK, CoverOK
    <2>4. \A t \in wrote'[r] : Op(r)' \in Consumers /\ t = call'[r].arg
      <3>1. CASE pc[r] = "revoking"
        BY <3>1 DEF Issue, CommitRotation, CommitRevocation, TypeOK
      <3>2. CASE pc[r] # "revoking"
        BY <1>1, <1>2, <3>2 DEF RequestOK, CoverOK
      <3> QED
        BY <3>1, <3>2
    <2> QED
      BY <1>1, <1>2, <1>3, <2>1, <2>2, <2>3, <2>4 DEF CoverOK
  <1> QED
    BY <1>0, <1>4, <1>5, <1>6, ServerFrame DEF RequestOK, LinkOK

\* RevokeAllUserRefreshTokens: its snapshot covers what the request has to
\* revoke, and a row that it has updated is no longer to be visited.
LEMMA RequestRevoking ==
    ASSUME TypeOK, FlowInv, LockInv, AccountInv, RequestsInv, NEW r \in Req,
           RevokeAll(r) \/ RevokeRow(r)
    PROVE  RequestOK(r)'
  <1>0. ServerStep(r)
    BY DEF ServerStep
  <1>1. /\ UNCHANGED <<users, memberships, tokens, call, seen, before>>
        /\ pc[r] \in {"revokeAll", "revoking"} /\ pc'[r] = "revoking"
    BY DEF RevokeAll, RevokeRow, Goto, TypeOK, db, local
  <1>2. /\ RequestOK(r) /\ Op(r)' = Op(r) /\ UserOf(r)' = UserOf(r)
        /\ Op(r) \in Revokers /\ Ending(r)
    BY <1>0, <1>1, ServerFrame DEF FlowOK, UserOf, Ending, Open
  <1>3. /\ Consuming(r)' => Consuming(r)
        /\ ~HasRow(r)' /\ ~HasOrg(r)'
    BY <1>1, <1>2 DEF Consuming, HasRow, HasOrg, Open, Committed, Op
  <1>4. UserOK(r)'
    BY <1>0, <1>1, <1>2, <1>3, UserKept
  <1>5. /\ before[r] \subseteq wrote'[r] \cup todo'[r]
        /\ \A t \in wrote'[r] : \/ Op(r) \in Consumers /\ t = call[r].arg
                                \/ UserOf(t) = UserOf(r)
        /\ \A t \in todo'[r] : UserOf(t) = UserOf(r)
    <2>1. CASE RevokeAll(r)
      <3>1. /\ wrote'[r] = wrote[r]
            /\ todo'[r] = TokensOf(UserOf(r)) \ wrote[r] /\ pc[r] = "revokeAll"
        BY <2>1 DEF RevokeAll, TypeOK, Covered
      <3>2. before[r] \subseteq TokensOf(UserOf(r))
        BY <1>0, <1>2, ServerFrame DEF RequestOK, CoverOK, TokensOf
      <3> QED
        BY <1>2, <3>1, <3>2 DEF RequestOK, CoverOK, TokensOf
    <2>2. CASE RevokeRow(r)
      <3>1. PICK t \in todo[r] : /\ wrote'[r] = wrote[r] \cup {t}
                                 /\ todo'[r] = todo[r] \ {t} /\ pc[r] = "revoking"
        BY <2>2 DEF RevokeRow, TypeOK
      <3> QED
        BY <1>2, <3>1 DEF RequestOK, CoverOK
    <2> QED
      BY <2>1, <2>2
  <1>6. \A t \in wrote'[r] \cup todo'[r] \cup before[r] : UserOf(t)' = UserOf(t)
    BY <1>1 DEF UserOf
  <1>7. CoverOK(r)'
    BY <1>1, <1>2, <1>5, <1>6 DEF RequestOK, CoverOK
  <1> QED
    BY <1>0, <1>3, <1>4, <1>7, ServerFrame DEF RequestOK, CarriedOK, LinkOK

\* Every step of a request that is under way keeps what it relies on.
LEMMA RequestServer ==
    ASSUME TypeOK, FlowInv, LockInv, AccountInv, RequestsInv, NEW r \in Req,
           ServerStep(r) \/ Fail(r) \/ DeadlockAbort(r)
    PROVE  RequestOK(r)'
  <1>1. ASSUME NEW l \in Answered \ Committed, Quit(r, l) PROVE RequestOK(r)'
    BY <1>1, RequestQuit
  <1>2. CASE Fail(r) \/ DeadlockAbort(r) \/ ConsumeNothing(r)
    BY <1>1, <1>2 DEF Fail, DeadlockAbort, Abort, ConsumeNothing, Answered, Committed
  <1>3. CASE Quit(r, "denied")
    BY <1>1, <1>3 DEF Answered, Committed
  <1> QED
    BY <1>2, <1>3, RequestPlain, RequestOpening, RequestConsume, RequestReads,
       RequestCommit, RequestRevoking DEF ServerStep

\* RequestsInv is preserved: by the request that moves and by the others.
LEMMA RequestsStep ==
    ASSUME TypeOK, FlowInv, LockInv, AccountInv, RequestsInv, [Next]_vars
    PROVE  RequestsInv'
  <1>1. TypeOK'
    BY TypeStep
  <1>2. ASSUME NEW r \in Req, StepOf(r), NEW q \in Req PROVE RequestOK(q)'
    <2>1. CASE q = r
      BY <1>2, <2>1, RequestArrival, RequestServer DEF StepOf
    <2>2. CASE q # r
      <3>1. Still(q) /\ resetKeys'[q] \in {resetKeys[q], None}
        BY <1>2, <2>2, StillArrival, StillServer DEF StepOf
      <3> QED
        BY <1>1, <3>1, RequestStill
    <2> QED
      BY <2>1, <2>2
  <1>3. ASSUME \/ \E kind \in Kinds, t \in Req : Expire(kind, t)
               \/ \E u \in User, o \in ExtraOrg : AddMembership(u, o)
               \/ UNCHANGED vars,
               NEW q \in Req
        PROVE  RequestOK(q)'
    BY <1>1, <1>3, StillEnvironment, RequestStill
  <1> QED
    BY <1>2, <1>3 DEF RequestsInv, Next, Idle, StepOf

-----------------------------------------------------------------------------
(* Accounts.                                                                 *)

\* Which program points of Register a step can lead to, and from where.
LEMMA InsertShape ==
    ASSUME TypeOK, FlowInv, NEW r \in Req, StepOf(r)
    PROVE  /\ pc'[r] = "createUser" => call'[r].next \in Password
           /\ pc'[r] = "commitUser" => CreateUser(r)
           /\ Op(r)' = "register" /\ pc'[r] \in {"issue"} \cup Committed
                => \/ CommitUser(r)
                   \/ /\ pc[r] = "issue" /\ Op(r) = "register"
                      /\ call'[r].arg = call[r].arg
  <1> USE DEF Committed, Answers
  <1>1. CASE Register(r)
    BY <1>1 DEF Register, Refuse, Arrive, Goto, TypeOK
  <1>2. CASE Arrival(r) /\ ~Register(r)
    <2>1. pc'[r] \in {"denied", "noop", "listMemberships", "consume", "readMe",
                      "checkPassword", "setKey", "updateUser"}
      BY <1>2 DEF Arrival, Login, Refresh, Logout, Me, ChangePassword,
         ForgotPassword, ResetPassword, Refuse, Arrive, Goto, TypeOK
    <2> QED
      BY <2>1
  <1>3. CASE CreateUser(r)
    BY <1>3 DEF CreateUser, Goto, TypeOK
  <1>4. CASE CommitUser(r)
    BY <1>4 DEF CommitUser, Goto, TypeOK
  <1>5. CASE Issue(r)
    BY <1>5 DEF Issue, Goto, TypeOK, local, Op
  <1>6. CASE Fail(r) \/ DeadlockAbort(r) \/ ConsumeNothing(r)
    BY <1>6 DEF Fail, DeadlockAbort, ConsumeNothing, Abort, Quit, Goto, TypeOK
  <1>7. CASE \/ ListMemberships(r) \/ Consume(r) \/ ReadUser(r) \/ ReadMembership(r)
             \/ UpdateUser(r) \/ RevokeAll(r) \/ RevokeRow(r) \/ CheckPassword(r)
             \/ SetKey(r)
    <2>1. /\ pc'[r] \notin {"createUser", "commitUser"} \cup Committed
          /\ pc'[r] = "issue" => pc[r] = "listMemberships"
      BY <1>7 DEF ListMemberships, Consume, ReadUser, ReadMembership, UpdateUser,
         RevokeAll, RevokeRow, CheckPassword, SetKey, Quit, Goto, TypeOK
    <2>2. call' = call /\ FlowOK(r)
      BY <1>7, StepShape DEF ServerStep, FlowInv
    <2> QED
      BY <2>1, <2>2 DEF FlowOK, Op
  <1>8. CASE CommitRotation(r) \/ CommitRevocation(r) \/ ReadMe(r) \/ SendMail(r)
    <2>1. /\ pc'[r] \notin {"createUser", "commitUser", "issue"}
          /\ pc[r] \in {"commit", "revoking", "readMe", "sendMail"}
      BY <1>8 DEF CommitRotation, CommitRevocation, ReadMe, SendMail, Goto, TypeOK
    <2>2. call' = call /\ FlowOK(r)
      BY <1>8, StepShape DEF ServerStep, FlowInv
    <2> QED
      BY <2>1, <2>2 DEF FlowOK, Op, Revokers
  <1> QED
    BY <1>1, <1>2, <1>3, <1>4, <1>5, <1>6, <1>7, <1>8 DEF StepOf, ServerStep

\* An account is created whole, and every change of password sets one.
LEMMA AccountStep ==
    ASSUME TypeOK, FlowInv, AccountInv, RequestsInv, [Next]_vars, NEW u \in User
    PROVE  AccountOK(u)'
  <1>0. AccountOK(u)
    BY DEF AccountInv
  <1>1. ASSUME UNCHANGED <<users, memberships>> PROVE AccountOK(u)'
    BY <1>0, <1>1 DEF AccountOK
  <1>2. ASSUME NEW r \in Req, CommitUser(r) PROVE AccountOK(u)'
    <2>0. /\ users'[call[r].arg] = [id |-> r, hash |-> call[r].next, ver |-> 0]
          /\ memberships'[call[r].arg] = {call[r].arg}
          /\ call[r].next \in Password /\ r # None
          /\ \A x \in User : x # call[r].arg
                => users'[x] = users[x] /\ memberships'[x] = memberships[x]
      <3>1. r # None
        BY NoneAssumption
      <3> QED
        BY <1>2, <3>1, CommitUserEffect
    <2>1. CASE u = call[r].arg
      BY <2>0, <2>1 DEF AccountOK
    <2>2. CASE u # call[r].arg
      <3>1. users'[u] = users[u] /\ memberships'[u] = memberships[u]
        BY <2>0, <2>2
      <3> QED
        BY <1>0, <3>1 DEF AccountOK
    <2> QED
      BY <2>1, <2>2
  <1>3. ASSUME NEW r \in Req, CommitRevocation(r) PROVE AccountOK(u)'
    <2>1. memberships' = memberships
      BY <1>3, CommitRevocationEffect
    <2>2. CASE u = UserOf(r)
      <3>1. /\ users[u].id # None /\ users'[u].id = users[u].id
            /\ users'[u].hash = NewHash(r)
        BY <1>3, <2>2, CommitRevocationEffect DEF RequestsInv, RequestOK, UserOK
      <3>2. Ending(r)
        BY <1>3 DEF CommitRevocation, FlowInv, FlowOK, Ending, Open
      <3>3. Op(r) = "logout" => NewHash(r) = users[u].hash
        BY <2>2 DEF NewHash
      <3>4. Op(r) # "logout" => NewHash(r) = call[r].next /\ call[r].next \in Password
        BY <3>2 DEF NewHash, RequestsInv, RequestOK, UserOK
      <3> QED
        BY <1>0, <2>1, <3>1, <3>3, <3>4 DEF AccountOK
    <2>3. CASE u # UserOf(r)
      <3>1. users'[u] = users[u]
        BY <1>3, <2>3, CommitRevocationEffect
      <3> QED
        BY <1>0, <2>1, <3>1 DEF AccountOK
    <2> QED
      BY <2>2, <2>3
  <1>4. ASSUME NEW r \in Req, StepOf(r) PROVE AccountOK(u)'
    BY <1>1, <1>2, <1>3, <1>4, AccountsFrame
  <1>5. ASSUME NEW x \in User, NEW o \in ExtraOrg, AddMembership(x, o)
        PROVE  AccountOK(u)'
    BY <1>0, <1>5 DEF AddMembership, AccountOK, TypeOK
  <1>6. ASSUME \/ \E kind \in Kinds, t \in Req : Expire(kind, t)
               \/ UNCHANGED vars
        PROVE  AccountOK(u)'
    BY <1>1, <1>6 DEF Expire, vars, db
  <1> QED
    BY <1>4, <1>5, <1>6 DEF Next, Idle, StepOf

\* No step but the insert of the same e-mail fills a row somebody inserts, and
\* the insert waits for whoever is at it already.
LEMMA InsertStep ==
    ASSUME TypeOK, FlowInv, AccountInv, RequestsInv, [Next]_vars, NEW q \in Req
    PROVE  InsertOK(q)'
  <1>0. /\ InsertOK(q) /\ FlowOK(q)
        /\ \A p \in Req : InsertOK(p) /\ FlowOK(p)
    BY DEF AccountInv, FlowInv
  <1>1. ASSUME UNCHANGED users, \A p \in Req : Still(p) PROVE InsertOK(q)'
    BY <1>0, <1>1 DEF InsertOK, Still, Inserting, Op
  <1>2. ASSUME NEW r \in Req, StepOf(r) PROVE InsertOK(q)'
    <2>1. \A p \in Req : p # r => Still(p)
      BY <1>2, StillArrival, StillServer DEF StepOf
    <2>2. /\ pc'[r] = "createUser" => call'[r].next \in Password
          /\ pc'[r] = "commitUser" => CreateUser(r)
          /\ Op(r)' = "register" /\ pc'[r] \in {"issue"} \cup Committed
                => \/ CommitUser(r)
                   \/ pc[r] = "issue" /\ Op(r) = "register" /\ call'[r].arg = call[r].arg
      BY <1>2, InsertShape
    <2>3. CreateUser(r) =>
            /\ pc[r] = "createUser" /\ call' = call /\ users' = users
            /\ pc'[r] = "commitUser" => users[call[r].arg].id = None
            /\ \A p \in Req \ {r} : ~Inserting(p, call[r].arg)
      BY DEF CreateUser, db, local, Goto, TypeOK
    <2>4. ASSUME pc[q] = "commitUser", q # r
          PROVE  users'[call[q].arg].id = None
      <3>1. call[q].arg \in User /\ users[call[q].arg].id = None
        BY <1>0, <2>4 DEF InsertOK, FlowOK
      <3>2. CASE CommitUser(r)
        <4>1. call[q].arg # call[r].arg
          BY <1>0, <2>4, <3>2 DEF InsertOK, CommitUser, Inserting
        <4>2. \A x \in User : x # call[r].arg => users'[x] = users[x]
          BY <3>2, CommitUserEffect
        <4> QED
          BY <3>1, <4>1, <4>2
      <3>3. CASE CommitRevocation(r)
        BY <3>1, <3>3, CommitRevocationEffect
      <3>4. CASE ~CommitUser(r) /\ ~CommitRevocation(r)
        BY <1>2, <3>1, <3>4, AccountsFrame
      <3> QED
        BY <3>2, <3>3, <3>4
    <2>5. /\ pc'[q] \in {"createUser", "commitUser"} => call'[q].next \in Password
          /\ pc'[q] = "commitUser" => users'[call'[q].arg].id = None
      BY <1>0, <2>1, <2>2, <2>3, <2>4 DEF InsertOK, Still
    <2>6. ASSUME NEW p \in Req, pc'[q] = "commitUser", pc'[p] = "commitUser",
                 call'[p].arg = call'[q].arg
          PROVE  p = q
      BY <1>0, <2>1, <2>2, <2>3, <2>6 DEF InsertOK, Still, Inserting
    <2>7. Op(q)' = "register" /\ pc'[q] \in {"issue"} \cup Committed
             => call'[q].arg \in User
      <3>1. CommitUser(r) => call'[r].arg \in User
        BY CommitUserEffect
      <3> QED
        BY <1>0, <2>1, <2>2, <3>1 DEF InsertOK, Still, Op
    <2> QED
      BY <2>5, <2>6, <2>7 DEF InsertOK, Inserting
  <1>3. ASSUME \/ \E kind \in Kinds, t \in Req : Expire(kind, t)
               \/ \E u \in User, o \in ExtraOrg : AddMembership(u, o)
               \/ UNCHANGED vars
        PROVE  InsertOK(q)'
    BY <1>1, <1>3, StillEnvironment
  <1> QED
    BY <1>2, <1>3 DEF Next, Idle, StepOf

\* The account belongs to the request that created it, from then on.
LEMMA OwnerStep ==
    ASSUME TypeOK, FlowInv, AccountInv, [Next]_vars, \A u \in User : AccountOK(u)'
    PROVE  AccountHasOneOwner'
  <1>1. ASSUME NEW q \in Req, Op(q) = "register", pc[q] \in {"issue"} \cup Committed
        PROVE  users'[call[q].arg].id = q
    <2>1. call[q].arg \in User /\ users[call[q].arg].id = q /\ q # None
      BY <1>1, NoneAssumption DEF AccountInv, InsertOK, AccountHasOneOwner
    <2> QED
      BY <2>1, AccountsAdvance DEF Advances
  <1>2. ASSUME NEW r \in Req, StepOf(r), NEW q \in Req, Op(q)' = "register",
               pc'[q] \in {"issue"} \cup Committed
        PROVE  users'[call'[q].arg].id = q
    <2>1. CASE q = r
      <3>1. CASE CommitUser(r)
        <4>1. /\ users'[call[r].arg] = [id |-> r, hash |-> call[r].next, ver |-> 0]
              /\ call' = call
          BY <3>1, CommitUserEffect, Zenon
        <4> QED
          BY <2>1, <4>1
      <3>2. CASE pc[r] = "issue" /\ Op(r) = "register" /\ call'[r].arg = call[r].arg
        BY <1>1, <2>1, <3>2
      <3> QED
        BY <1>2, <2>1, <3>1, <3>2, InsertShape
    <2>2. CASE q # r
      <3>1. Still(q)
        BY <1>2, <2>2, StillArrival, StillServer DEF StepOf
      <3> QED
        BY <1>1, <1>2, <3>1 DEF Still, Op
    <2> QED
      BY <2>1, <2>2
  <1>3. ASSUME \A p \in Req : Still(p), NEW q \in Req, Op(q)' = "register",
               pc'[q] \in {"issue"} \cup Committed
        PROVE  users'[call'[q].arg].id = q
    BY <1>1, <1>3 DEF Still, Op
  <1>4. ASSUME NEW q \in Req, Op(q)' = "register", pc'[q] \in {"issue"} \cup Committed
        PROVE  users'[call'[q].arg].id = q
    BY <1>2, <1>3, <1>4, StillEnvironment DEF Next, Idle, StepOf
  <1>5. \A u \in User : IF users'[u].id = None THEN memberships'[u] = {}
                       ELSE u \in memberships'[u]
    BY DEF AccountOK
  <1> QED
    BY <1>4, <1>5 DEF AccountHasOneOwner

\* AccountInv is preserved.
LEMMA AccountsStep ==
    ASSUME TypeOK, FlowInv, AccountInv, RequestsInv, [Next]_vars
    PROVE  AccountInv'
  BY AccountStep, InsertStep, OwnerStep DEF AccountInv

-----------------------------------------------------------------------------
(* Sessions and reset links.                                                 *)

\* What a request has done when its answer says that its work is committed.
LEMMA CommittedShape ==
    ASSUME TypeOK, FlowInv, NEW r \in Req, StepOf(r), pc'[r] \in Committed
    PROVE  /\ Op(r)' \in Revokers => CommitRevocation(r)
           /\ Op(r)' \in Consumers => CommitRotation(r) \/ CommitRevocation(r)
  <1>1. ~Arrival(r)
    <2>1. SUFFICES ASSUME Arrival(r) PROVE FALSE
      OBVIOUS
    <2> QED
      BY <2>1, ArrivalShape DEF Committed
  <1>2. call' = call /\ FlowOK(r) /\ pc[r] \in Steps
    BY <1>1, StepShape DEF StepOf, FlowInv
  <1>3. \/ CommitRotation(r) \/ CommitRevocation(r)
        \/ pc[r] \in {"issue", "readMe", "sendMail"}
    BY <1>1 DEF StepOf, ServerStep, Fail, DeadlockAbort, Abort, Quit, Goto, TypeOK,
       Committed, CreateUser, CommitUser, ListMemberships, Issue, Consume,
       ConsumeNothing, ReadUser, ReadMembership, UpdateUser, RevokeAll, RevokeRow,
       ReadMe, CheckPassword, SetKey, SendMail
  <1>4. CommitRotation(r) => pc[r] = "commit"
    BY DEF CommitRotation
  <1> QED
    BY <1>2, <1>3, <1>4 DEF FlowOK, Op, Revokers, Consumers

\* A committed revocation leaves no session of before[r] alive: its rows are
\* all locked, and no JWT can carry the version that the commit writes.
LEMMA CoversCommit ==
    ASSUME TypeOK, FlowInv, LockInv, AccountInv, RequestsInv, NEW r \in Req,
           CommitRevocation(r), NEW t \in before[r]
    PROVE  tokens'[t] = "revoked" /\ seen[t].ver < users'[UserOf(r)].ver
  <1>0. ServerStep(r)
    BY DEF ServerStep
  <1>1. pc[r] = "revoking" /\ todo[r] = {} /\ tokens' = Revoke(r, tokens)
    BY DEF CommitRevocation
  <1>2. Ending(r) /\ RequestOK(r)
    BY <1>0, <1>1, ServerFrame DEF FlowOK, Ending, Open
  <1>3. t \in Req /\ t \in wrote[r] /\ UserOf(t) = UserOf(r) /\ UserOf(r) \in User
    BY <1>0, <1>1, <1>2, ServerFrame DEF RequestOK, CoverOK, UserOK
  <1>4. tokens[t] # "none" /\ RequestOK(t) /\ LockOK(t)
    BY <1>0, <1>3, ServerFrame DEF RequestsInv, LockInv
  <1>5. HasRow(t)
    BY <1>4 DEF LockOK, Issued, HasRow
  <1>6. seen[t].ver <= users[UserOf(r)].ver
    BY <1>3, <1>4, <1>5 DEF RequestOK, CarriedOK
  <1>7. users'[UserOf(r)].ver = users[UserOf(r)].ver + 1
    BY <1>3, CommitRevocationEffect
  <1>8. users[UserOf(r)].ver \in Nat /\ seen[t].ver \in Nat
    BY <1>3 DEF TypeOK, Row
  <1> QED
    BY <1>1, <1>3, <1>6, <1>7, <1>8 DEF Revoke

\* A session that is over stays over, and a revocation ends all of them.
LEMMA CoversStep ==
    ASSUME TypeOK, FlowInv, LockInv, AccountInv, RequestsInv,
           RevocationCoversEarlierSessions, [Next]_vars
    PROVE  RevocationCoversEarlierSessions'
  <1>0. TypeOK'
    BY TypeStep
  <1>1. ASSUME NEW q \in Req, RevokedBy(q), NEW t \in before'[q]
        PROVE  tokens'[t] = "revoked" /\ seen'[t].ver < users'[UserOf(q)'].ver
    <2>1. Still(q) /\ UserOf(q)' = UserOf(q) /\ t \in before[q] /\ t \in Req
      BY <1>1, SettledStep DEF RevokedBy, Answered, Committed, Still, UserOf, TypeOK
    <2>2. tokens[t] = "revoked" /\ seen[t].ver < users[UserOf(q)].ver
      BY <1>1, <2>1 DEF RevocationCoversEarlierSessions
    <2>3. tokens'[t] = "revoked" /\ seen'[t] = seen[t]
      BY <2>1, <2>2, TokensAdvance, SessionStill DEF Still
    <2>4. UserOf(q) \in User /\ users[UserOf(q)].id # None
      BY <1>1 DEF RevokedBy, Ending, RequestsInv, RequestOK, UserOK
    <2>5. users'[UserOf(q)].ver >= users[UserOf(q)].ver
      BY <2>4, AccountsAdvance DEF Advances
    <2>6. /\ users'[UserOf(q)].ver \in Nat /\ users[UserOf(q)].ver \in Nat
          /\ seen[t].ver \in Nat
      BY <1>0, <2>1, <2>4 DEF TypeOK, Row
    <2> QED
      BY <2>1, <2>2, <2>3, <2>5, <2>6
  <1>2. ASSUME NEW r \in Req, StepOf(r), NEW q \in Req, RevokedBy(q)',
               NEW t \in before'[q]
        PROVE  tokens'[t] = "revoked" /\ seen'[t].ver < users'[UserOf(q)'].ver
    <2>1. CASE q # r
      BY <1>1, <1>2, <2>1, StillArrival, StillServer DEF StepOf, Still, RevokedBy, Op
    <2>2. CASE q = r
      <3>1. CommitRevocation(r)
        BY <1>2, <2>2, CommittedShape DEF RevokedBy
      <3>2. before' = before /\ seen' = seen
        BY <3>1 DEF CommitRevocation, local
      <3> QED
        BY <1>2, <2>2, <3>1, <3>2, CoversCommit DEF UserOf
    <2> QED
      BY <2>1, <2>2
  <1>3. ASSUME \A p \in Req : Still(p), NEW q \in Req, RevokedBy(q)',
               NEW t \in before'[q]
        PROVE  tokens'[t] = "revoked" /\ seen'[t].ver < users'[UserOf(q)'].ver
    BY <1>1, <1>3 DEF Still, RevokedBy, Op
  <1> QED
    BY <1>2, <1>3, StillEnvironment
    DEF Next, Idle, StepOf, RevocationCoversEarlierSessions

\* A row becomes revoked only in the commit of a transaction that had it locked,
\* for its own token or for its user.
LEMMA RevokerStep ==
    ASSUME TypeOK, FlowInv, LockInv, AccountInv, RequestsInv,
           RevokedOnlyByCommitted, [Next]_vars
    PROVE  RevokedOnlyByCommitted'
  <1> DEFINE Ends(r, t) == \/ Consumed(r) /\ call[r].arg = t
                           \/ RevokedBy(r) /\ UserOf(r) = UserOf(t)
  <1>1. ASSUME NEW t \in Req, tokens[t] = "revoked"
        PROVE  \E r \in Req : Ends(r, t)'
    <2>1. PICK r \in Req : Ends(r, t)
      BY <1>1 DEF RevokedOnlyByCommitted
    <2>2. pc[r] \in Answered
      BY <2>1 DEF Consumed, RevokedBy, Answered, Committed
    <2>3. Still(r) /\ UserOf(t)' = UserOf(t)
      BY <1>1, <2>2, SettledStep, SessionStill
    <2> QED
      BY <2>1, <2>3 DEF Still, Consumed, RevokedBy, Op, UserOf
  <1>2. ASSUME NEW r \in Req, StepOf(r), NEW t \in Req,
               tokens'[t] = "revoked", tokens[t] # "revoked"
        PROVE  Ends(r, t)'
    <2>1. CommitRotation(r) \/ CommitRevocation(r)
      <3>1. CASE Arrival(r)
        BY <1>2, <3>1, ArrivalShape DEF db
      <3>2. CASE Issue(r)
        BY <1>2, <3>2 DEF Issue, TypeOK
      <3>3. CASE ~Arrival(r) /\ ~Issue(r)
        BY <1>2, <3>3 DEF StepOf, ServerStep, Fail, DeadlockAbort, Abort, Quit,
           CreateUser, CommitUser, ListMemberships, Consume, ConsumeNothing, ReadUser,
           ReadMembership, UpdateUser, RevokeAll, RevokeRow, ReadMe, CheckPassword,
           SetKey, SendMail, db
      <3> QED
        BY <3>1, <3>2, <3>3
    <2>2. /\ t \in wrote[r] /\ UNCHANGED <<call, seen>> /\ pc'[r] \in Committed
          /\ CommitRotation(r) => pc[r] = "commit"
          /\ CommitRevocation(r) => pc[r] = "revoking"
      BY <1>2, <2>1 DEF CommitRotation, CommitRevocation, Revoke, TypeOK, Goto, Answers,
         Committed, local
    <2>3. \/ Op(r) \in Consumers /\ t = call[r].arg
          \/ pc[r] = "revoking" /\ UserOf(t) = UserOf(r)
      BY <2>2 DEF RequestsInv, RequestOK, CoverOK
    <2>4. pc[r] = "revoking" => Op(r) \in Revokers
      BY DEF FlowInv, FlowOK
    <2> QED
      BY <2>2, <2>3, <2>4 DEF Consumed, RevokedBy, Op, UserOf
  <1>3. ASSUME NEW t \in Req, tokens'[t] = "revoked"
        PROVE  \E r \in Req : Ends(r, t)'
    <2>1. CASE tokens[t] = "revoked"
      BY <1>1, <2>1
    <2>2. CASE tokens[t] # "revoked"
      <3>1. PICK r \in Req : StepOf(r)
        BY <1>3, <2>2, StillEnvironment DEF Next, Idle, StepOf
      <3> QED
        BY <1>2, <1>3, <2>2, <3>1
    <2> QED
      BY <2>1, <2>2
  <1> QED
    BY <1>3 DEF RevokedOnlyByCommitted

\* A request becomes one that has redeemed a link by taking a key that was there.
LEMMA RedeemShape ==
    ASSUME TypeOK, FlowInv, NEW r \in Req, StepOf(r), Redeemed(r)'
    PROVE  \/ Redeemed(r) /\ call'[r] = call[r] /\ pc[r] \in Steps
           \/ \E f \in Req : /\ resetKeys[f] # None
                             /\ resetKeys' = [resetKeys EXCEPT ![f] = None]
                             /\ call'[r].arg = f
  <1>1. CASE ResetPassword(r)
    <2>1. pc'[r] # "denied"
      BY DEF Redeemed
    <2>2. PICK f \in Req, next \in Password :
            \/ /\ resetKeys[f] # None
               /\ Arrive(r, "reset", f, None, next, "updateUser")
               /\ resetKeys' = TakeKey(f)
            \/ pc' = [pc EXCEPT ![r] = "denied"]
      BY <1>1 DEF ResetPassword, Refuse, Arrive, Goto
    <2>3. ~(pc' = [pc EXCEPT ![r] = "denied"])
      BY <2>1 DEF TypeOK
    <2>4. call'[r].arg = f
      BY <2>2, <2>3 DEF Arrive, TypeOK
    <2> QED
      BY <2>2, <2>3, <2>4 DEF TakeKey
  <1>2. CASE Arrival(r) /\ ~ResetPassword(r)
    <2> USE DEF Arrive, Op, TypeOK
    <2>1. CASE Register(r) \/ Login(r)
      BY <2>1 DEF Register, Login, Refuse, Redeemed
    <2>2. CASE Refresh(r)
      BY <2>2 DEF Refresh, Refuse, Redeemed
    <2>3. CASE Logout(r)
      BY <2>3 DEF Logout, Redeemed
    <2>4. CASE Me(r)
      BY <2>4 DEF Me, Refuse, Redeemed
    <2>5. CASE ChangePassword(r)
      BY <2>5 DEF ChangePassword, Refuse, Redeemed
    <2>6. CASE ForgotPassword(r)
      BY <2>6 DEF ForgotPassword, Refuse, Redeemed
    <2> QED
      BY <1>2, <2>1, <2>2, <2>3, <2>4, <2>5, <2>6 DEF Arrival
  <1>3. CASE ~Arrival(r)
    BY <1>3, StepShape DEF StepOf, Redeemed, Op, Steps
  <1> QED
    BY <1>1, <1>2, <1>3

\* GETDEL hands a key to one request, and a mailed link gets no new key.
LEMMA LinkStep ==
    ASSUME TypeOK, FlowInv, RequestsInv, ResetLinkIsSingleUse, [Next]_vars
    PROVE  ResetLinkIsSingleUse'
  <1>1. ASSUME NEW q \in Req, Redeemed(q)
        PROVE  call[q].arg \in Req /\ resetKeys[call[q].arg] = None
               /\ resetKeys'[call[q].arg] = None
    <2>1. call[q].arg \in Req /\ pc[call[q].arg] = "ok" /\ resetKeys[call[q].arg] = None
      BY <1>1 DEF RequestsInv, RequestOK, LinkOK, LinkHeld, ResetLinkIsSingleUse
    <2>2. ASSUME NEW r \in Req, StepOf(r) PROVE resetKeys'[call[q].arg] = None
      <3>1. pc[r] # "ok"
        BY <2>2, ArrivalShape, StepShape DEF StepOf, Steps
      <3> QED
        BY <2>1, <2>2, <3>1, StillArrival, StillServer DEF StepOf
    <2> QED
      BY <2>1, <2>2, StillEnvironment DEF Next, Idle, StepOf
  <1>2. ASSUME NEW r \in Req, StepOf(r), NEW q \in Req, Redeemed(q)'
        PROVE  /\ resetKeys'[call'[q].arg] = None
               /\ \A p \in Req : Redeemed(p)' /\ call'[p].arg = call'[q].arg => p = q
    <2>1. \A p \in Req : p # r => Still(p) /\ Redeemed(p)' = Redeemed(p)
      BY <1>2, StillArrival, StillServer DEF StepOf, Still, Redeemed, Op
    <2>2. CASE Redeemed(r)' => Redeemed(r) /\ call'[r] = call[r]
      BY <1>1, <1>2, <2>1, <2>2 DEF Still, ResetLinkIsSingleUse
    <2>3. CASE \E f \in Req : /\ resetKeys[f] # None
                              /\ resetKeys' = [resetKeys EXCEPT ![f] = None]
                              /\ call'[r].arg = f
      <3>1. resetKeys[call'[r].arg] # None /\ resetKeys'[call'[r].arg] = None
        BY <2>3 DEF TypeOK
      <3>2. ASSUME NEW p \in Req, p # r, Redeemed(p)'
            PROVE  Redeemed(p) /\ call'[p] = call[p] /\ call'[p].arg # call'[r].arg
        BY <1>1, <2>1, <3>1, <3>2 DEF Still
      <3> QED
        BY <1>1, <1>2, <3>1, <3>2 DEF ResetLinkIsSingleUse
    <2> QED
      BY <1>2, <2>2, <2>3, RedeemShape
  <1>3. ASSUME \A p \in Req : Still(p), NEW q \in Req, Redeemed(q)'
        PROVE  /\ resetKeys'[call'[q].arg] = None
               /\ \A p \in Req : Redeemed(p)' /\ call'[p].arg = call'[q].arg => p = q
    BY <1>1, <1>3 DEF Still, Redeemed, Op, ResetLinkIsSingleUse
  <1> QED
    BY <1>2, <1>3, StillEnvironment DEF Next, Idle, StepOf, ResetLinkIsSingleUse

\* Whatever happens to the key of request q, or is recorded of its hour, keeps
\* what is known of it, as long as q does not go back.
LEMMA ExpiryKept ==
    ASSUME NEW q \in Req, ExpiryOK(q),
           resetKeys'[q] # None
              => resetKeys[q] # None \/ (pc[q] = "setKey" /\ pc'[q] = "sendMail"),
           <<"reset", q>> \in expired'
              => \/ <<"reset", q>> \in expired /\ resetKeys'[q] \in {resetKeys[q], None}
                 \/ resetKeys[q] # None /\ resetKeys'[q] = None,
           pc[q] \notin {"idle", "setKey"} => pc'[q] \notin {"idle", "setKey"}
    PROVE  ExpiryOK(q)'
  BY DEF ExpiryOK

\* Only SetKey stores a key, and only the clock puts an hour behind one that is
\* still there, when the key goes with it.
LEMMA ExpiryStep ==
    ASSUME TypeOK, FlowInv, ExpiryInv, [Next]_vars
    PROVE  ExpiryInv'
  <1>1. ASSUME NEW r \in Req, StepOf(r)
        PROVE  /\ expired' = expired
               /\ pc[r] \notin {"idle", "setKey"} => pc'[r] \notin {"idle", "setKey"}
               /\ <<"reset", r>> \in expired => resetKeys'[r] \in {resetKeys[r], None}
               /\ resetKeys'[r] # None
                     => resetKeys[r] # None \/ (pc[r] = "setKey" /\ pc'[r] = "sendMail")
    <2>1. CASE Arrival(r)
      <3>1. expired' = expired
        BY <2>1 DEF Arrival, Register, Login, Refresh, Logout, Me, ChangePassword,
                    ForgotPassword, ResetPassword, Refuse, db
      <3>2. pc[r] = "idle" /\ resetKeys'[r] \in {resetKeys[r], None}
        BY <2>1, ArrivalShape, StillArrival
      <3> QED
        BY <3>1, <3>2
    <2>2. CASE SetKey(r)
      BY <2>2 DEF SetKey, Goto, TypeOK, db, local, ExpiryInv, ExpiryOK
    <2>3. CASE (ServerStep(r) /\ ~SetKey(r)) \/ Fail(r) \/ DeadlockAbort(r)
      <3>1. UNCHANGED <<expired, resetKeys>>
        BY <2>3 DEF ServerStep, Fail, DeadlockAbort, Abort, Quit, CreateUser, CommitUser,
           ListMemberships, Issue, Consume, ConsumeNothing, ReadUser, ReadMembership,
           CommitRotation, UpdateUser, RevokeAll, RevokeRow, CommitRevocation, ReadMe,
           CheckPassword, SendMail, local, db
      <3>2. pc'[r] \notin {"idle", "setKey"}
        <4>1. pc[r] # "setKey" => pc'[r] # "setKey"
          BY <2>3, StepShape DEF ServerStep, Fail, DeadlockAbort, Abort, Quit, Goto,
             CreateUser, CommitUser, ListMemberships, Issue, Consume, ConsumeNothing,
             ReadUser, ReadMembership, CommitRotation, UpdateUser, RevokeAll, RevokeRow,
             CommitRevocation, ReadMe, CheckPassword, SendMail, Answers, Committed, local,
             db, TypeOK
        <4>2. pc[r] = "setKey" => Fail(r) \/ DeadlockAbort(r)
          BY <2>3 DEF ServerStep, CreateUser, CommitUser, ListMemberships, Issue, Consume,
             ConsumeNothing, ReadUser, ReadMembership, CommitRotation, UpdateUser,
             RevokeAll, RevokeRow, CommitRevocation, ReadMe, CheckPassword, SendMail
        <4>3. Fail(r) \/ DeadlockAbort(r) => pc'[r] \in Answered
          BY DEF Fail, DeadlockAbort, Abort, Quit, Goto, Answered, TypeOK
        <4>4. pc'[r] \in Steps \cup Answered
          BY <2>3, StepShape
        <4> QED
          BY <4>1, <4>2, <4>3, <4>4 DEF Steps, Answered
      <3> QED
        BY <3>1, <3>2
    <2> QED
      BY <1>1, <2>1, <2>2, <2>3 DEF StepOf
  <1>2. ASSUME NEW r \in Req, StepOf(r), NEW q \in Req PROVE ExpiryOK(q)'
    <2>1. ExpiryOK(q)
      BY DEF ExpiryInv
    <2>2. CASE q = r
      BY <1>1, <1>2, <2>1, <2>2, ExpiryKept
    <2>3. CASE q # r
      <3>1. pc'[q] = pc[q] /\ resetKeys'[q] \in {resetKeys[q], None}
        BY <1>2, <2>3, StillArrival, StillServer DEF StepOf, Still
      <3> QED
        BY <1>1, <1>2, <2>1, <3>1, ExpiryKept
    <2> QED
      BY <2>2, <2>3
  <1>3. ASSUME NEW kind \in Kinds, NEW t \in Req, Expire(kind, t), NEW q \in Req
        PROVE  ExpiryOK(q)'
    <2>1. pc'[q] = pc[q] /\ resetKeys'[q] \in {resetKeys[q], None}
      BY <1>3, StillEnvironment DEF Still
    <2>2. <<"reset", q>> \in expired'
            => \/ <<"reset", q>> \in expired /\ resetKeys'[q] \in {resetKeys[q], None}
               \/ resetKeys[q] # None /\ resetKeys'[q] = None
      BY <1>3, <2>1 DEF Expire, Evicted, TypeOK
    <2> QED
      BY <2>1, <2>2, ExpiryKept DEF ExpiryInv
  <1>4. ASSUME \/ \E u \in User, o \in ExtraOrg : AddMembership(u, o)
               \/ UNCHANGED vars
        PROVE  ExpiryInv'
    BY <1>4 DEF AddMembership, vars, ExpiryInv, ExpiryOK
  <1> QED
    BY <1>2, <1>3, <1>4 DEF Next, Idle, StepOf, ExpiryInv

\* A request that redeems a link finds its key, so the hour is not over.
LEMMA RedeemInTime ==
    ASSUME TypeOK, FlowInv, ExpiryInv, [Next]_vars, NEW r \in Req,
           ~Redeemed(r), Redeemed(r)'
    PROVE  <<"reset", call'[r].arg>> \notin expired
  <1>1. CASE \A p \in Req : Still(p)
    BY <1>1 DEF Still, Redeemed, Op
  <1>2. ASSUME NEW q \in Req, StepOf(q), q # r PROVE FALSE
    BY <1>2, StillArrival, StillServer DEF StepOf, Still, Redeemed, Op
  <1>3. CASE StepOf(r)
    <2>1. PICK f \in Req : resetKeys[f] # None /\ call'[r].arg = f
      BY <1>3, RedeemShape
    <2> QED
      BY <2>1 DEF ExpiryInv, ExpiryOK
  <1> QED
    BY <1>1, <1>2, <1>3, StillEnvironment DEF Next, Idle, StepOf

-----------------------------------------------------------------------------
(* The theorems.                                                             *)

\* The empty database satisfies everything that is said about sessions.
LEMMA SessionInit == Init => SessionInv
  <1> SUFFICES ASSUME Init PROVE SessionInv
    OBVIOUS
  <1>1. RotationInv
    BY TypeInit, FlowInit, RowsInit DEF RotationInv
  <1>2. AccountInv
    BY DEF Init, AccountInv, AccountOK, InsertOK, AccountHasOneOwner, NoUser, NoCall, Op,
       Committed
  <1>3. ASSUME NEW r \in Req PROVE RequestOK(r)
    <2>1. /\ ~Ending(r) /\ ~HasRow(r) /\ ~HasOrg(r) /\ ~Consuming(r) /\ ~Redeemed(r)
      BY DEF Init, Ending, HasRow, HasOrg, Consuming, Redeemed, Open, Committed
    <2>2. UserOf(r) \notin User /\ resetKeys[r] = None
      BY NoneAssumption DEF Init, UserOf, NoRow
    <2>3. /\ before[r] = {} /\ wrote[r] = {} /\ todo[r] = {} /\ pc[r] = "idle"
      BY DEF Init
    <2> QED
      BY <2>1, <2>2, <2>3 DEF RequestOK, UserOK, CarriedOK, CoverOK, LinkOK
  <1>4. /\ RevocationCoversEarlierSessions /\ RevokedOnlyByCommitted
        /\ ResetLinkIsSingleUse /\ ExpiryInv
    BY DEF Init, ExpiryInv, ExpiryOK, RevocationCoversEarlierSessions, RevokedOnlyByCommitted,
       ResetLinkIsSingleUse, RevokedBy, Redeemed, Committed
  <1> QED
    BY <1>1, <1>2, <1>3, <1>4 DEF SessionInv, RequestsInv

\* Every step preserves it.
LEMMA SessionStep == SessionInv /\ [Next]_vars => SessionInv'
  <1> SUFFICES ASSUME SessionInv, [Next]_vars PROVE SessionInv'
    OBVIOUS
  <1>1. TypeOK /\ FlowInv /\ LockInv /\ RotationIsLinear /\ AccountInv /\ RequestsInv
        /\ ExpiryInv
    BY DEF SessionInv, RotationInv
  <1>2. RotationInv'
    BY <1>1, TypeStep, FlowStep, RowsStep DEF RotationInv
  <1> QED
    BY <1>1, <1>2, AccountsStep, RequestsStep, CoversStep, RevokerStep, LinkStep,
       ExpiryStep
    DEF SessionInv

\* SessionInv is an invariant: accounts are created whole and once, requests
\* work for the user and organisation they were given, revocations lock what
\* they have to revoke.
THEOREM SessionInvariant == Spec => []SessionInv
  BY SessionInit, SessionStep, PTL DEF Spec

\* However many registrations of an e-mail pass the look-up at the same time,
\* the account is that of the one request that is answered with success; and
\* no account is without the membership in its organisation, nor the reverse.
THEOREM OwnerTheorem == Spec => []AccountHasOneOwner
  <1>1. SessionInv => AccountHasOneOwner
    BY DEF SessionInv, AccountInv
  <1> QED
    BY <1>1, SessionInvariant, PTL

\* No interleaving of logins and refreshes with password changes pairs a fresh
\* token_version with an old password_hash, or a version from the future.
THEOREM PasswordTheorem == Spec => []AccessTokenMatchesPassword
  <1>1. SessionInv => AccessTokenMatchesPassword
    BY DEF SessionInv, RequestsInv, RequestOK, CarriedOK, HasRow, Issued,
       AccessTokenMatchesPassword
  <1> QED
    BY <1>1, SessionInvariant, PTL

\* A session stays with the user and in the organisation of the login it
\* descends from, and the user is a member there.
THEOREM OrgTheorem == Spec => []SessionKeepsOrg
  <1>1. SessionInv => SessionKeepsOrg
    <2> SUFFICES ASSUME SessionInv, NEW r \in Req, Issued(r)
                 PROVE  /\ seen[r].org \in memberships[UserOf(r)]
                        /\ Op(r) = "refresh" => /\ UserOf(r) = UserOf(call[r].arg)
                                                /\ seen[r].org = seen[call[r].arg].org
      BY DEF SessionKeepsOrg
    <2>1. HasOrg(r) /\ (Op(r) = "refresh" => Consuming(r))
      BY DEF Issued, HasOrg, Consuming, Consumers
    <2> QED
      BY <2>1 DEF SessionInv, RequestsInv, RequestOK, CarriedOK, UserOK
  <1> QED
    BY <1>1, SessionInvariant, PTL

\* When a logout, reset or password change has committed, every session that
\* its user had when it arrived is over, with its refresh token and its JWT.
THEOREM RevocationTheorem == Spec => []RevocationCoversEarlierSessions
  <1>1. SessionInv => RevocationCoversEarlierSessions
    BY DEF SessionInv
  <1> QED
    BY <1>1, SessionInvariant, PTL

\* A refresh token is revoked only by a request that committed, with that
\* token or for its user; whatever rolls back leaves it usable.
THEOREM RollbackTheorem == Spec => []RevokedOnlyByCommitted
  <1>1. SessionInv => RevokedOnlyByCommitted
    BY DEF SessionInv
  <1> QED
    BY <1>1, SessionInvariant, PTL

\* A reset link lets at most one request past GETDEL.
THEOREM ResetTheorem == Spec => []ResetLinkIsSingleUse
  <1>1. SessionInv => ResetLinkIsSingleUse
    BY DEF SessionInv
  <1> QED
    BY <1>1, SessionInvariant, PTL

\* No step takes a link past GETDEL whose hour is over.
THEOREM ExpiryTheorem == Spec => ResetLinkExpires
  <1> DEFINE InTime == \A r \in Req : ~Redeemed(r) /\ Redeemed(r)'
                          => <<"reset", call'[r].arg>> \notin expired
  <1>1. SessionInv /\ [Next]_vars => [InTime]_vars
    BY RedeemInTime DEF SessionInv, RotationInv
  <1> QED
    BY <1>1, SessionInvariant, PTL DEF Spec, ResetLinkExpires

\* No step replaces an account, takes its version back, or changes its
\* password without the version.
THEOREM ForwardTheorem == Spec => AccountsOnlyMoveForward
  <1> DEFINE Forward == \A u \in User : users[u].id # None =>
          /\ users'[u].id = users[u].id
          /\ users'[u].ver >= users[u].ver
          /\ users'[u].hash # users[u].hash => users'[u].ver > users[u].ver
  <1>1. SessionInv /\ [Next]_vars => [Forward]_vars
    BY AccountsAdvance DEF SessionInv, RotationInv, Advances
  <1> QED
    BY <1>1, SessionInvariant, PTL DEF Spec, AccountsOnlyMoveForward
=============================================================================
