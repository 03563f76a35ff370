------------------------- MODULE AuthServiceProofs -------------------------
(* Theorems about AuthService, for every set of requests, users and          *)
(* passwords, with and without failures.                                     *)
EXTENDS AuthServiceInv, TLAPS

\* The values of pc.
PC == {"idle"} \cup Steps \cup Answered

\* A program counter and an input stay in their types.
LEMMA ArriveType ==
    ASSUME TypeOK, NEW r \in Req, NEW op, NEW l \in Steps \cup Answered,
           NEW arg \in Req \cup User \cup {None},
           NEW cur \in Password \cup {None}, NEW nxt \in Password \cup {None},
           Arrive(r, op, arg, cur, nxt, l)
    PROVE  pc' \in [Req -> PC] /\ call' \in [Req -> Call]
  BY DEF TypeOK, Arrive, Goto, Call, PC

\* A refused request changes nothing but its own entry.
LEMMA RefuseType ==
    ASSUME TypeOK, NEW r \in Req, NEW op, NEW l \in Answered, Refuse(r, op, l)
    PROVE  TypeOK'
  <1>1. pc' \in [Req -> PC] /\ call' \in [Req -> Call]
    BY ArriveType DEF Refuse
  <1> QED
    BY <1>1 DEF Refuse, TypeOK, PC, db

\* A request that ends without committing leaves every table well typed.
LEMMA QuitType ==
    ASSUME TypeOK, NEW r \in Req, NEW l \in PC, Quit(r, l)
    PROVE  TypeOK'
  <1>1. NoRow \in Row
    BY DEF NoRow, Row
  <1> QED
    BY <1>1 DEF Quit, TypeOK, Goto, PC, db

\* Changing one field of one request's row keeps the rows well typed.
LEMMA RowFields ==
    ASSUME NEW s \in [Req -> Row], NEW r \in Req,
           NEW u \in User \cup {None}, NEW o \in Org \cup {None}
    PROVE  /\ [s EXCEPT ![r].user = u] \in [Req -> Row]
           /\ [s EXCEPT ![r].org = o] \in [Req -> Row]
           /\ [s EXCEPT ![r].user = u, ![r].org = o] \in [Req -> Row]
  <1>1. PICK x \in Row : x = s[r]
    OBVIOUS
  <1>2. /\ [x EXCEPT !.user = u] \in Row
        /\ [x EXCEPT !.org = o] \in Row
        /\ [x EXCEPT !.user = u, !.org = o] \in Row
    BY DEF Row
  <1>3. /\ [s EXCEPT ![r].user = u] = [s EXCEPT ![r] = [x EXCEPT !.user = u]]
        /\ [s EXCEPT ![r].org = o] = [s EXCEPT ![r] = [x EXCEPT !.org = o]]
        /\ [s EXCEPT ![r].user = u, ![r].org = o]
              = [s EXCEPT ![r] = [x EXCEPT !.user = u, !.org = o]]
    BY <1>1
  <1> QED
    BY <1>2, <1>3

\* The empty database and the idle requests are well typed.
LEMMA TypeInit == Init => TypeOK
  BY DEF Init, TypeOK, NoUser, NoCall, NoRow, Call, Row

\* Every handler's first step keeps the types, refused or not.
LEMMA ArrivalType ==
    ASSUME TypeOK, NEW r \in Req, Arrival(r)
    PROVE  TypeOK'
  <1> USE DEF PC
  <1>1. CASE Register(r)
    <2>1. PICK u \in User, p \in Password :
            IF p \in Strong /\ users[u].id = None
            THEN /\ Arrive(r, "register", u, None, p, "createUser")
                 /\ UNCHANGED <<db, resetKeys, expired, seen, wrote, todo, before>>
            ELSE Refuse(r, "register", "denied")
      BY <1>1 DEF Register
    <2>2. CASE p \in Strong /\ users[u].id = None
      <3>1. pc' \in [Req -> PC] /\ call' \in [Req -> Call]
        BY <2>1, <2>2, ArriveType DEF Steps
      <3> QED
        BY <2>1, <2>2, <3>1 DEF TypeOK, db
    <2>3. CASE ~(p \in Strong /\ users[u].id = None)
      BY <2>1, <2>3, RefuseType DEF Answered
    <2> QED
      BY <2>2, <2>3
  <1>2. CASE Login(r)
    <2>1. PICK u \in User, p \in Password :
            IF users[u].id # None /\ users[u].hash = p
            THEN /\ Arrive(r, "login", u, None, None, "listMemberships")
                 /\ seen' = [seen EXCEPT ![r] = ReadRow(u, None)]
                 /\ UNCHANGED <<db, resetKeys, expired, wrote, todo, before>>
            ELSE Refuse(r, "login", "denied")
      BY <1>2 DEF Login
    <2>2. CASE users[u].id # None /\ users[u].hash = p
      <3>1. pc' \in [Req -> PC] /\ call' \in [Req -> Call]
        BY <2>1, <2>2, ArriveType DEF Steps
      <3>2. ReadRow(u, None) \in Row
        BY DEF TypeOK, ReadRow, Row
      <3> QED
        BY <2>1, <2>2, <3>1, <3>2 DEF TypeOK, db
    <2>3. CASE ~(users[u].id # None /\ users[u].hash = p)
      BY <2>1, <2>3, RefuseType DEF Answered
    <2> QED
      BY <2>2, <2>3
  <1>3. CASE Refresh(r)
    <2>1. PICK t \in Req :
            IF <<"refresh", t>> \in expired
            THEN Refuse(r, "refresh", "denied")
            ELSE /\ Arrive(r, "refresh", t, None, None, "consume")
                 /\ UNCHANGED <<db, resetKeys, expired, seen, wrote, todo, before>>
      BY <1>3 DEF Refresh
    <2>2. CASE <<"refresh", t>> \notin expired
      <3>1. pc' \in [Req -> PC] /\ call' \in [Req -> Call]
        BY <2>1, <2>2, ArriveType DEF Steps
      <3> QED
        BY <2>1, <2>2, <3>1 DEF TypeOK, db
    <2>3. CASE <<"refresh", t>> \in expired
      BY <2>1, <2>3, RefuseType DEF Answered
    <2> QED
      BY <2>2, <2>3
  <1>4. CASE Logout(r)
    <2>1. PICK t \in Req :
            /\ Arrive(r, "logout", t, None, None,
                      IF <<"refresh", t>> \in expired THEN "noop" ELSE "consume")
            /\ before' = [before EXCEPT ![r] = TokensOf(UserOf(t))]
            /\ UNCHANGED <<db, resetKeys, expired, seen, wrote, todo>>
      BY <1>4 DEF Logout
    <2>2. (IF <<"refresh", t>> \in expired THEN "noop" ELSE "consume")
             \in Steps \cup Answered
      BY DEF Steps, Answered
    <2>3. pc' \in [Req -> PC] /\ call' \in [Req -> Call]
      BY <2>1, <2>2, ArriveType
    <2>4. TokensOf(UserOf(t)) \in SUBSET Req
      BY DEF TokensOf
    <2> QED
      BY <2>1, <2>3, <2>4 DEF TypeOK, db
  <1>5. CASE Me(r)
    <2>1. PICK a \in Req :
            IF JwtValid(a)
            THEN /\ Arrive(r, "me", a, None, None, "readMe")
                 /\ seen' = [seen EXCEPT ![r].user = UserOf(a), ![r].org = seen[a].org]
                 /\ UNCHANGED <<db, resetKeys, expired, wrote, todo, before>>
            ELSE Refuse(r, "me", "denied")
      BY <1>5 DEF Me
    <2>4. UserOf(a) \in User \cup {None} /\ seen[a].org \in Org \cup {None}
      BY DEF TypeOK, Row, UserOf
    <2>2. CASE JwtValid(a)
      <3>1. pc' \in [Req -> PC] /\ call' \in [Req -> Call]
        BY <2>1, <2>2, ArriveType DEF Steps
      <3>2. seen' \in [Req -> Row]
        <4>1. [seen EXCEPT ![r].user = UserOf(a), ![r].org = seen[a].org] \in [Req -> Row]
          BY <2>4, RowFields, Zenon DEF TypeOK
        <4> QED
          BY <2>1, <2>2, <4>1
      <3> QED
        BY <2>1, <2>2, <3>1, <3>2 DEF TypeOK, db
    <2>3. CASE ~JwtValid(a)
      BY <2>1, <2>3, RefuseType DEF Answered
    <2> QED
      BY <2>2, <2>3
  <1>6. CASE ChangePassword(r)
    <2>1. PICK a \in Req, current \in Password, next \in Password :
            IF JwtValid(a) /\ next \in Strong
            THEN /\ Arrive(r, "change", a, current, next, "checkPassword")
                 /\ seen' = [seen EXCEPT ![r].user = UserOf(a)]
                 /\ before' = [before EXCEPT ![r] = TokensOf(UserOf(a))]
                 /\ UNCHANGED <<db, resetKeys, expired, wrote, todo>>
            ELSE Refuse(r, "change", "denied")
      BY <1>6 DEF ChangePassword
    <2>4. UserOf(a) \in User \cup {None}
      BY DEF TypeOK, Row, UserOf
    <2>2. CASE JwtValid(a) /\ next \in Strong
      <3>1. pc' \in [Req -> PC] /\ call' \in [Req -> Call]
        BY <2>1, <2>2, ArriveType DEF Steps
      <3>2. seen' \in [Req -> Row]
        <4>1. [seen EXCEPT ![r].user = UserOf(a)] \in [Req -> Row]
          BY <2>4, RowFields, Zenon DEF TypeOK
        <4> QED
          BY <2>1, <2>2, <4>1
      <3>3. TokensOf(UserOf(a)) \in SUBSET Req
        BY DEF TokensOf
      <3> QED
        BY <2>1, <2>2, <3>1, <3>2, <3>3 DEF TypeOK, db
    <2>3. CASE ~(JwtValid(a) /\ next \in Strong)
      BY <2>1, <2>3, RefuseType DEF Answered
    <2> QED
      BY <2>2, <2>3
  <1>7. CASE ForgotPassword(r)
    <2>1. PICK u \in User :
            IF users[u].id = None
            THEN Refuse(r, "forgot", "noop")
            ELSE /\ Arrive(r, "forgot", u, None, None, "setKey")
                 /\ seen' = [seen EXCEPT ![r].user = u]
                 /\ UNCHANGED <<db, resetKeys, expired, wrote, todo, before>>
      BY <1>7 DEF ForgotPassword
    <2>2. CASE users[u].id # None
      <3>1. pc' \in [Req -> PC] /\ call' \in [Req -> Call]
        BY <2>1, <2>2, ArriveType DEF Steps
      <3>2. seen' \in [Req -> Row]
        <4>1. [seen EXCEPT ![r].user = u] \in [Req -> Row]
          BY RowFields, Zenon DEF TypeOK
        <4> QED
          BY <2>1, <2>2, <4>1
      <3> QED
        BY <2>1, <2>2, <3>1, <3>2 DEF TypeOK, db
    <2>3. CASE users[u].id = None
      BY <2>1, <2>3, RefuseType DEF Answered
    <2> QED
      BY <2>2, <2>3
  <1>8. CASE ResetPassword(r)
    <2>1. PICK f \in Req, next \in Password :
            \/ /\ Arrive(r, "reset", f, None, next, "updateUser")
               /\ resetKeys' = TakeKey(f)
               /\ seen' = [seen EXCEPT ![r].user = resetKeys[f]]
               /\ before' = [before EXCEPT ![r] = TokensOf(resetKeys[f])]
               /\ UNCHANGED <<db, expired, wrote, todo>>
            \/ Refuse(r, "reset", "denied")
            \/ /\ Arrive(r, "reset", None, None, None, "denied")
               /\ resetKeys' = TakeKey(f)
               /\ UNCHANGED <<db, expired, seen, wrote, todo, before>>
      BY <1>8 DEF ResetPassword
    <2>2. TakeKey(f) \in [Req -> User \cup {None}]
      BY DEF TypeOK, TakeKey
    <2>3. CASE /\ Arrive(r, "reset", f, None, next, "updateUser")
               /\ resetKeys' = TakeKey(f)
               /\ seen' = [seen EXCEPT ![r].user = resetKeys[f]]
               /\ before' = [before EXCEPT ![r] = TokensOf(resetKeys[f])]
               /\ UNCHANGED <<db, expired, wrote, todo>>
      <3>1. pc' \in [Req -> PC] /\ call' \in [Req -> Call]
        BY <2>3, ArriveType DEF Steps
      <3>2. seen' \in [Req -> Row]
        <4>1. [seen EXCEPT ![r].user = resetKeys[f]] \in [Req -> Row]
          BY RowFields DEF TypeOK
        <4> QED
          BY <2>3, <4>1
      <3>3. TokensOf(resetKeys[f]) \in SUBSET Req
        BY DEF TokensOf
      <3> QED
        BY <2>2, <2>3, <3>1, <3>2, <3>3 DEF TypeOK, db
    <2>4. CASE Refuse(r, "reset", "denied")
      BY <2>4, RefuseType DEF Answered
    <2>5. CASE /\ Arrive(r, "reset", None, None, None, "denied")
               /\ resetKeys' = TakeKey(f)
               /\ UNCHANGED <<db, expired, seen, wrote, todo, before>>
      <3>1. pc' \in [Req -> PC] /\ call' \in [Req -> Call]
        BY <2>5, ArriveType DEF Answered
      <3> QED
        BY <2>2, <2>5, <3>1 DEF TypeOK, db
    <2> QED
      BY <2>1, <2>3, <2>4, <2>5
  <1> QED
    BY <1>1, <1>2, <1>3, <1>4, <1>5, <1>6, <1>7, <1>8 DEF Arrival

\* Every storage access of a request that is under way keeps the types.
LEMMA ServerStepType ==
    ASSUME TypeOK, FlowInv, NEW r \in Req, ServerStep(r)
    PROVE  TypeOK'
  <1> USE DEF PC
  <1>1. CASE CreateUser(r)
    BY <1>1 DEF CreateUser, TypeOK, Goto, db, local, Steps, Answered
  <1>2. CASE CommitUser(r)
    <2>1. call[r].arg \in User /\ call[r].next \in Password \cup {None}
      BY <1>2 DEF CommitUser, FlowInv, FlowOK, TypeOK, Call
    <2>2. [user |-> call[r].arg, ver |-> 0, hash |-> call[r].next,
           org |-> call[r].arg] \in Row
      BY <2>1 DEF Row, Org
    <2>3. users' \in [User -> [id : Req \cup {None},
                               hash : Password \cup {None}, ver : Nat]]
      BY <1>2, <2>1 DEF CommitUser, TypeOK
    <2>4. pc' \in [Req -> PC]
      BY <1>2 DEF CommitUser, TypeOK, Goto, Steps, Answered
    <2> QED
      BY <1>2, <2>1, <2>2, <2>3, <2>4 DEF CommitUser, TypeOK, Org
  <1>3. CASE ListMemberships(r)
    <2>1. PICK org \in Org \cup {None} :
            IF Selectable(UserOf(r), org) = {}
            THEN Quit(r, "denied")
            ELSE /\ \E o \in Selectable(UserOf(r), org) :
                       seen' = [seen EXCEPT ![r].org = o]
                 /\ Goto(r, "issue")
                 /\ UNCHANGED <<db, resetKeys, expired, call, wrote, todo, before>>
      BY <1>3 DEF ListMemberships
    <2>2. CASE Quit(r, "denied")
      BY <2>2, QuitType DEF Answered
    <2>3. CASE /\ \E o \in Selectable(UserOf(r), org) :
                     seen' = [seen EXCEPT ![r].org = o]
               /\ Goto(r, "issue")
               /\ UNCHANGED <<db, resetKeys, expired, call, wrote, todo, before>>
      <3>1. PICK o \in Selectable(UserOf(r), org) :
              seen' = [seen EXCEPT ![r].org = o]
        BY <2>3
      <3>2. UserOf(r) \in User
        BY <1>3 DEF ListMemberships, FlowInv, FlowOK, Issuers
      <3>3. o \in Org
        BY <3>1, <3>2 DEF Selectable, TypeOK
      <3>4. [seen EXCEPT ![r].org = o] \in [Req -> Row]
        BY <3>3, RowFields DEF TypeOK
      <3>5. pc' \in [Req -> PC]
        BY <2>3 DEF Goto, TypeOK, Steps
      <3> QED
        BY <2>3, <3>1, <3>4, <3>5 DEF TypeOK, db
    <2> QED
      BY <2>1, <2>2, <2>3
  <1>4. CASE Issue(r)
    BY <1>4 DEF Issue, TypeOK, Goto, db, local, Answered, Answers, Committed
  <1>5. CASE Consume(r)
    <2> DEFINE t == call[r].arg
    <2>1. t \in Req
      BY <1>5 DEF Consume, FlowInv, FlowOK
    <2>2. seen[t].user \in User \cup {None} /\ seen[t].org \in Org \cup {None}
      BY <2>1 DEF TypeOK, Row
    <2>3. [seen EXCEPT ![r].user = seen[t].user, ![r].org = seen[t].org]
             \in [Req -> Row]
      <3> HIDE DEF t
      <3> QED
        BY <2>1, <2>2, RowFields, Zenon DEF TypeOK
    <2>4. pc' \in [Req -> PC]
      BY <1>5 DEF Consume, Goto, TypeOK, Steps
    <2> QED
      BY <1>5, <2>1, <2>3, <2>4 DEF Consume, TypeOK, db
  <1>6. CASE ConsumeNothing(r)
    BY <1>6, QuitType DEF ConsumeNothing, Answered
  <1>7. CASE ReadUser(r)
    <2>1. UserOf(r) \in User
      BY <1>7 DEF ReadUser, FlowInv, FlowOK, Issuers
    <2>2. ReadRow(UserOf(r), seen[r].org) \in Row
      BY <2>1 DEF TypeOK, ReadRow, Row
    <2> QED
      BY <1>7, <2>2 DEF ReadUser, TypeOK, Goto, db, Steps
  <1>8. CASE ReadMembership(r)
    BY <1>8, QuitType DEF ReadMembership, TypeOK, Goto, db, local, Steps, Answered
  <1>9. CASE CommitRotation(r)
    BY <1>9 DEF CommitRotation, TypeOK, Goto, db, local, Answered, Answers,
         Committed, Revoke
  <1>10. CASE UpdateUser(r)
    BY <1>10 DEF UpdateUser, TypeOK, Goto, db, local, Steps
  <1>11. CASE RevokeAll(r)
    BY <1>11 DEF RevokeAll, TypeOK, Goto, db, local, Steps, Covered, TokensOf
  <1>12. CASE RevokeRow(r)
    BY <1>12 DEF RevokeRow, TypeOK, db, local
  <1>13. CASE CommitRevocation(r)
    <2>1. UserOf(r) \in User
            => NewVersion(r) \in Nat /\ NewHash(r) \in Password \cup {None}
      BY DEF TypeOK, Call, NewVersion, NewHash
    <2>2. users' \in [User -> [id : Req \cup {None},
                               hash : Password \cup {None}, ver : Nat]]
      BY <1>13, <2>1 DEF CommitRevocation, TypeOK
    <2>3. tokens' \in [Req -> {"none", "live", "revoked"}]
      BY <1>13 DEF CommitRevocation, TypeOK, Revoke
    <2> QED
      BY <1>13, <2>2, <2>3 DEF CommitRevocation, TypeOK, Goto, local, Answered,
         Answers, Committed
  <1>14. CASE ReadMe(r)
    BY <1>14 DEF ReadMe, TypeOK, Goto, db, local, Answered
  <1>15. CASE CheckPassword(r)
    BY <1>15, QuitType DEF CheckPassword, TypeOK, Goto, db, local, Answered, Steps
  <1>16. CASE SetKey(r)
    BY <1>16 DEF SetKey, TypeOK, Goto, db, local, Steps, UserOf, Row
  <1>17. CASE SendMail(r)
    BY <1>17 DEF SendMail, TypeOK, Goto, db, local, Answered, Answers, Committed
  <1> QED
    BY <1>1, <1>2, <1>3, <1>4, <1>5, <1>6, <1>7, <1>8, <1>9, <1>10, <1>11, <1>12,
       <1>13, <1>14, <1>15, <1>16, <1>17 DEF ServerStep

\* Every failure, and the victim of a deadlock, keeps the types.
LEMMA AbortType ==
    ASSUME TypeOK, NEW r \in Req, Fail(r) \/ DeadlockAbort(r)
    PROVE  TypeOK'
  BY QuitType DEF Fail, DeadlockAbort, Abort, PC, Answered

\* Every step of the system keeps the types.
LEMMA TypeStep ==
    ASSUME TypeOK, FlowInv, [Next]_vars
    PROVE  TypeOK'
  <1>1. ASSUME NEW r \in Req, Arrival(r) PROVE TypeOK'
    BY <1>1, ArrivalType
  <1>2. ASSUME NEW r \in Req, ServerStep(r) PROVE TypeOK'
    BY <1>2, ServerStepType
  <1>3. ASSUME NEW r \in Req, Fail(r) \/ DeadlockAbort(r) PROVE TypeOK'
    BY <1>3, AbortType
  <1>4. ASSUME NEW kind \in Kinds, NEW t \in Req, Expire(kind, t) PROVE TypeOK'
    BY <1>4 DEF Expire, Evicted, TypeOK, db, local
  <1>5. ASSUME NEW u \in User, NEW o \in ExtraOrg, AddMembership(u, o)
        PROVE  TypeOK'
    BY <1>5 DEF AddMembership, TypeOK, local, Org
  <1>6. CASE UNCHANGED vars
    BY <1>6 DEF vars, TypeOK
  <1> QED
    BY <1>1, <1>2, <1>3, <1>4, <1>5, <1>6 DEF Next, Idle

-----------------------------------------------------------------------------
(* The inductive invariant.                                                  *)

\* What an arrival can do to the control state: it moves an idle request to
\* its first storage access or to its answer, and touches no table.
LEMMA ArrivalShape ==
    ASSUME TypeOK, NEW r \in Req, Arrival(r)
    PROVE  /\ pc[r] = "idle"
           /\ UNCHANGED <<db, wrote, todo>>
           /\ \A q \in Req \ {r} : /\ pc'[q] = pc[q] /\ call'[q] = call[q]
                                   /\ seen'[q] = seen[q]
           /\ \/ pc'[r] \in {"denied", "noop"}
              \/ /\ pc'[r] = "createUser"
                 /\ Op(r)' = "register" /\ call'[r].arg \in User
              \/ /\ pc'[r] = "listMemberships"
                 /\ Op(r)' = "login" /\ UserOf(r)' \in User
              \/ /\ pc'[r] = "consume"
                 /\ Op(r)' \in Consumers /\ call'[r].arg \in Req
                 /\ Held(call'[r].arg)
              \/ pc'[r] = "readMe" /\ Op(r)' = "me"
              \/ pc'[r] = "checkPassword" /\ Op(r)' = "change"
              \/ pc'[r] = "setKey" /\ Op(r)' = "forgot"
              \/ pc'[r] = "updateUser" /\ Op(r)' = "reset"
  <1> USE DEF Arrive, Refuse, Goto, TypeOK, Op, UserOf, db
  <1>1. CASE Register(r)
    BY <1>1 DEF Register
  <1>2. CASE Login(r)
    BY <1>2 DEF Login, ReadRow
  <1>3. CASE Refresh(r)
    BY <1>3 DEF Refresh, Consumers
  <1>4. CASE Logout(r)
    BY <1>4 DEF Logout, Consumers
  <1>5. CASE Me(r)
    BY <1>5 DEF Me
  <1>6. CASE ChangePassword(r)
    BY <1>6 DEF ChangePassword
  <1>7. CASE ForgotPassword(r)
    BY <1>7 DEF ForgotPassword
  <1>8. CASE ResetPassword(r)
    BY <1>8 DEF ResetPassword
  <1> QED
    BY <1>1, <1>2, <1>3, <1>4, <1>5, <1>6, <1>7, <1>8 DEF Arrival

\* What a step of the server can do to the control state: it moves a request
\* that is under way, and keeps its input; with Quit it lets go of its rows.
LEMMA StepShape ==
    ASSUME TypeOK, NEW r \in Req, ServerStep(r) \/ Fail(r) \/ DeadlockAbort(r)
    PROVE  /\ pc[r] \in Steps
           /\ call' = call
           /\ \A q \in Req \ {r} : pc'[q] = pc[q] /\ seen'[q] = seen[q]
           /\ pc'[r] \in Steps \cup Answered
  <1> USE DEF Goto, Quit, TypeOK, local, db, Steps, Answered, Answers, Committed
  <1>1. CASE \/ CreateUser(r) \/ CommitUser(r) \/ ListMemberships(r)
             \/ Issue(r) \/ Consume(r) \/ ConsumeNothing(r)
    BY <1>1 DEF CreateUser, CommitUser, ListMemberships, Issue, Consume,
                ConsumeNothing
  <1>2. CASE \/ ReadUser(r) \/ ReadMembership(r) \/ CommitRotation(r)
             \/ UpdateUser(r) \/ RevokeAll(r) \/ RevokeRow(r)
    BY <1>2 DEF ReadUser, ReadMembership, CommitRotation, UpdateUser, RevokeAll,
                RevokeRow
  <1>3. CASE \/ CommitRevocation(r) \/ ReadMe(r) \/ CheckPassword(r)
             \/ SetKey(r) \/ SendMail(r)
    BY <1>3 DEF CommitRevocation, ReadMe, CheckPassword, SetKey, SendMail
  <1>4. CASE Fail(r) \/ DeadlockAbort(r)
    BY <1>4 DEF Fail, DeadlockAbort, Abort, Deadlocked, WaitsFor
  <1> QED
    BY <1>1, <1>2, <1>3, <1>4 DEF ServerStep

\* Nothing is known of a request that has not arrived, so FlowInv holds.
LEMMA FlowInit == Init => FlowInv
  BY DEF Init, FlowInv, FlowOK, Consumed, NoCall, NoRow, Op, Committed, Issuers

\* A handler's first step establishes what its program point promises.
LEMMA FlowArrival ==
    ASSUME TypeOK, FlowInv, NEW r \in Req, Arrival(r)
    PROVE  FlowInv'
  <1>1. ASSUME NEW t \in Req, Held(t) PROVE Held(t)'
    BY <1>1, ArrivalShape DEF Held, Op, Issuers
  <1>2. ASSUME NEW q \in Req
        PROVE  FlowOK(q)'
    <2>1. CASE q = r
      BY <2>1, <1>1, ArrivalShape DEF FlowOK, Consumed, Op, UserOf, Committed, Consumers,
         Issuers, Revokers
    <2>2. CASE q # r
      BY <2>2, <1>1, ArrivalShape DEF FlowInv, FlowOK, Consumed, Op, UserOf,
         Consumers
    <2> QED
      BY <2>1, <2>2
  <1> QED
    BY <1>2 DEF FlowInv

\* The two other kinds of step: the moving request is r, the rest is framed.
LEMMA FlowServer ==
    ASSUME TypeOK, FlowInv, NEW r \in Req,
           ServerStep(r) \/ Fail(r) \/ DeadlockAbort(r)
    PROVE  FlowInv'
  <1>1. ASSUME NEW t \in Req, Held(t) PROVE Held(t)'
    BY <1>1, StepShape DEF Held, Op, Steps
  <1>2. ASSUME NEW q \in Req, q # r PROVE FlowOK(q)'
    BY <1>1, <1>2, StepShape DEF FlowInv, FlowOK, Consumed, Op, UserOf
  <1>3. FlowOK(r)'
    <2> USE DEF FlowOK, Consumed, Op, UserOf, Goto, TypeOK, Committed, Issuers, Answers
    <2>0. FlowOK(r)
      BY DEF FlowInv
    <2>q. ASSUME NEW l \in Answered \ Committed, Quit(r, l) PROVE FlowOK(r)'
      BY <2>q, <2>0 DEF Quit, Answered
    <2>1. CASE CreateUser(r)
      BY <2>1, <2>0 DEF CreateUser, local
    <2>2. CASE CommitUser(r)
      BY <2>2, <2>0 DEF CommitUser
    <2>3. CASE ListMemberships(r)
      <3>1. CASE Quit(r, "denied")
        BY <3>1, <2>q DEF Answered
      <3>2. CASE ~Quit(r, "denied")
        <4>1. PICK o : seen' = [seen EXCEPT ![r].org = o] /\ Goto(r, "issue")
          BY <2>3, <3>2 DEF ListMemberships
        <4> QED
          <5>1. seen'[r].user = seen[r].user /\ pc'[r] = "issue" /\ call' = call
            BY <2>3, <4>1, StepShape DEF Row, ServerStep
          <5> QED
            BY <2>3, <2>0, <5>1 DEF ListMemberships
      <3> QED
        BY <3>1, <3>2
    <2>4. CASE Issue(r)
      BY <2>4, <2>0 DEF Issue, local, Consumers
    <2>5. CASE Consume(r)
      <3>1. /\ pc[r] = "consume" /\ call' = call
            /\ pc'[r] = IF Op(r) = "refresh" THEN "readUser" ELSE "updateUser"
            /\ seen'[r].user = seen[call[r].arg].user
        BY <2>5 DEF Consume, Row
      <3>2. call[r].arg \in Req /\ Held(call[r].arg) /\ Op(r) \in Consumers
        BY <2>0, <3>1
      <3>3. seen[call[r].arg].user \in User
        BY <3>2 DEF FlowInv, Held
      <3> QED
        BY <3>1, <3>2, <3>3 DEF Consumers, Revokers
    <2>6. CASE ConsumeNothing(r)
      BY <2>6, <2>q DEF ConsumeNothing, Answered
    <2>7. CASE ReadUser(r)
      BY <2>7, <2>0 DEF ReadUser, ReadRow
    <2>8. CASE ReadMembership(r)
      BY <2>8, <2>0, <2>q DEF ReadMembership, local, Answered
    <2>9. CASE CommitRotation(r)
      BY <2>9, <2>0 DEF CommitRotation, local
    <2>10. CASE UpdateUser(r)
      BY <2>10, <2>0 DEF UpdateUser, local, Revokers
    <2>11. CASE RevokeAll(r)
      BY <2>11, <2>0 DEF RevokeAll, local, Revokers
    <2>12. CASE RevokeRow(r)
      BY <2>12, <2>0 DEF RevokeRow, local
    <2>13. CASE CommitRevocation(r)
      BY <2>13, <2>0 DEF CommitRevocation, local, Revokers, Consumers
    <2>14. CASE ReadMe(r)
      BY <2>14, <2>0 DEF ReadMe, local, Consumers
    <2>15. CASE CheckPassword(r)
      BY <2>15, <2>0, <2>q DEF CheckPassword, local, Answered, Revokers
    <2>16. CASE SetKey(r)
      BY <2>16, <2>0 DEF SetKey, local
    <2>17. CASE SendMail(r)
      BY <2>17, <2>0 DEF SendMail, local, Consumers
    <2>18. CASE Fail(r) \/ DeadlockAbort(r)
      BY <2>18, <2>q DEF Fail, DeadlockAbort, Abort, Answered
    <2> QED
      BY <2>1, <2>2, <2>3, <2>4, <2>5, <2>6, <2>7, <2>8, <2>9, <2>10, <2>11,
         <2>12, <2>13, <2>14, <2>15, <2>16, <2>17, <2>18 DEF ServerStep
  <1> QED
    BY <1>2, <1>3 DEF FlowInv

\* Every step of the system keeps each program point's promise.
LEMMA FlowStep ==
    ASSUME TypeOK, FlowInv, [Next]_vars
    PROVE  FlowInv'
  <1>1. ASSUME UNCHANGED <<pc, call, seen>> PROVE FlowInv'
    BY <1>1 DEF FlowInv, FlowOK, Consumed, Held, Op, UserOf
  <1>2. ASSUME NEW kind \in Kinds, NEW t \in Req, Expire(kind, t) PROVE FlowInv'
    BY <1>1, <1>2 DEF Expire, local
  <1>3. ASSUME NEW u \in User, NEW o \in ExtraOrg, AddMembership(u, o)
        PROVE  FlowInv'
    BY <1>1, <1>3 DEF AddMembership, local
  <1>4. CASE UNCHANGED vars
    BY <1>1, <1>4 DEF vars
  <1> QED
    BY <1>2, <1>3, <1>4, FlowArrival, FlowServer DEF Next, Idle

-----------------------------------------------------------------------------
(* Locks and rotation.                                                     *)

\* Without a session there is no lock and no consumed token.
LEMMA RowsInit == Init => LockInv /\ RotationIsLinear
  BY DEF Init, LockInv, LockOK, RotationIsLinear, Consumed, Committed, Open

\* A step that touches no row of refresh_tokens and no lock, and does not
\* complete a consumer, keeps the row invariants.
LEMMA RowsFrame ==
    ASSUME TypeOK, LockInv, RotationIsLinear, NEW r \in Req,
           UNCHANGED <<tokens, wrote, todo>>,
           \A q \in Req \ {r} : pc'[q] = pc[q] /\ call'[q] = call[q],
           pc[r] \notin Committed,
           pc[r] \in Open => pc'[r] \in Open,
           pc'[r] \in Open /\ Op(r)' \in Consumers
              => pc[r] \in Open /\ call'[r] = call[r],
           pc'[r] \in Committed => Op(r)' \notin Consumers
    PROVE  LockInv' /\ RotationIsLinear'
  <1>1. tokens[r] = "none"
    BY DEF LockInv, LockOK, Issued, TypeOK
  <1>2. ASSUME NEW q \in Req PROVE LockOK(q)'
    <2>1. CASE q = r
      BY <2>1, <1>1 DEF LockInv, LockOK, Op
    <2>2. CASE q # r
      BY <2>2 DEF LockInv, LockOK, Issued, Op
    <2> QED
      BY <2>1, <2>2
  <1>3. ASSUME NEW q \in Req, Consumed(q)' PROVE q # r /\ Consumed(q)
    BY <1>3 DEF Consumed, Op
  <1> QED
    BY <1>2, <1>3 DEF LockInv, RotationIsLinear

\* Rolling back lets go of every row and changes none.
LEMMA RowsQuit ==
    ASSUME TypeOK, LockInv, RotationIsLinear, NEW r \in Req,
           NEW l \in Answered \ Committed, Quit(r, l), pc[r] \in Steps
    PROVE  LockInv' /\ RotationIsLinear'
  <1> USE DEF Quit, Goto, TypeOK, db
  <1>1. tokens[r] = "none"
    BY DEF LockInv, LockOK, Issued, Committed, Steps
  <1>2. ASSUME NEW q \in Req PROVE LockOK(q)'
    <2>1. CASE q = r
      BY <2>1, <1>1 DEF LockInv, LockOK, Op, Open, Answered
    <2>2. CASE q # r
      BY <2>2 DEF LockInv, LockOK, Issued, Op
    <2> QED
      BY <2>1, <2>2
  <1>3. ASSUME NEW q \in Req, Consumed(q)' PROVE q # r /\ Consumed(q)
    BY <1>3 DEF Consumed, Op
  <1> QED
    BY <1>2, <1>3 DEF LockInv, RotationIsLinear

\* A handler's first step touches no row of refresh_tokens.
LEMMA RowsArrival ==
    ASSUME TypeOK, LockInv, RotationIsLinear, NEW r \in Req, Arrival(r)
    PROVE  LockInv' /\ RotationIsLinear'
  <1>1. /\ pc[r] = "idle" /\ UNCHANGED <<tokens, wrote, todo>>
        /\ \A q \in Req \ {r} : pc'[q] = pc[q] /\ call'[q] = call[q]
    BY ArrivalShape DEF db
  <1>2. pc[r] \notin Committed /\ pc[r] \notin Open
    BY <1>1 DEF Committed, Open
  <1>3. pc'[r] \notin Committed
    BY ArrivalShape DEF Committed
  <1>4. pc'[r] \in Open => Op(r)' \notin Consumers
    BY ArrivalShape DEF Open, Consumers
  <1> QED
    BY <1>1, <1>2, <1>3, <1>4, RowsFrame

\* ConsumeRefreshToken locks a live row that nobody else has locked.
LEMMA RowsConsume ==
    ASSUME TypeOK, FlowInv, LockInv, RotationIsLinear, NEW r \in Req, Consume(r)
    PROVE  LockInv' /\ RotationIsLinear'
  <1> DEFINE t == call[r].arg
  <1>1. /\ pc[r] = "consume" /\ t \in Req /\ tokens[t] = "live"
        /\ \A q \in Req \ {r} : t \notin wrote[q]
        /\ wrote' = [wrote EXCEPT ![r] = {t}]
        /\ UNCHANGED <<tokens, todo, call>>
        /\ pc' = [pc EXCEPT ![r] = pc'[r]]
        /\ pc'[r] \in {"readUser", "updateUser"}
    BY DEF Consume, FlowInv, FlowOK, Locked, db, Goto, TypeOK
  <1>2. tokens[r] = "none" /\ wrote[r] = {}
    BY <1>1 DEF LockInv, LockOK, Issued, Committed, Open, TypeOK
  <1>3. ASSUME NEW q \in Req PROVE LockOK(q)'
    <2>1. CASE q = r
      <3>1. \A p \in Req : wrote'[p] \cap wrote'[r] # {} => p = r
        BY <1>1 DEF TypeOK
      <3>2. tokens'[r] = "none" /\ wrote'[r] = {t} /\ todo'[r] = todo[r]
        BY <1>1, <1>2 DEF TypeOK
      <3>3. \A x \in wrote'[r] \cup todo'[r] : tokens'[x] # "none"
        BY <1>1, <3>2 DEF LockInv, LockOK
      <3> QED
        BY <2>1, <1>1, <3>1, <3>2, <3>3 DEF LockOK, Open
    <2>2. CASE q # r
      <3>1. /\ pc'[q] = pc[q] /\ call'[q] = call[q] /\ wrote'[q] = wrote[q]
            /\ todo'[q] = todo[q] /\ tokens'[q] = tokens[q]
        BY <2>2, <1>1 DEF TypeOK
      <3>2. \A p \in Req : wrote'[p] \cap wrote'[q] # {} => p = q
        BY <2>2, <1>1, <3>1 DEF LockInv, LockOK, TypeOK
      <3>3. LockOK(q)
        BY DEF LockInv
      <3> QED
        BY <3>1, <3>2, <3>3, <1>1 DEF LockOK, Issued, Op
    <2> QED
      BY <2>1, <2>2
  <1>4. ASSUME NEW q \in Req, Consumed(q)' PROVE q # r /\ Consumed(q)
    BY <1>1, <1>4 DEF Consumed, Op, Committed, TypeOK
  <1> QED
    BY <1>1, <1>3, <1>4 DEF LockInv, RotationIsLinear

\* The row of a new session appears; nobody can have known its token before.
LEMMA RowsIssue ==
    ASSUME TypeOK, FlowInv, LockInv, RotationIsLinear, NEW r \in Req, Issue(r)
    PROVE  LockInv' /\ RotationIsLinear'
  <1>1. /\ pc[r] = "issue" /\ UNCHANGED <<wrote, todo, call>>
        /\ tokens' = [tokens EXCEPT ![r] = "live"]
        /\ pc' = [pc EXCEPT ![r] = pc'[r]] /\ pc'[r] \in Committed
        /\ Op(r) \in {"register", "login"}
    BY DEF Issue, local, Goto, TypeOK, Answers, Committed, FlowInv, FlowOK
  <1>2. tokens[r] = "none" /\ wrote[r] = {}
    BY <1>1 DEF LockInv, LockOK, Issued, Committed, Open, TypeOK
  <1>3. \A q \in Req : LockOK(q)'
    BY <1>1, <1>2 DEF LockInv, LockOK, Issued, Op, TypeOK, Issuers, Consumers
  <1>4. ASSUME NEW q \in Req, Consumed(q)' PROVE q # r /\ Consumed(q)
    BY <1>1, <1>4 DEF Consumed, Op, Consumers, TypeOK
  <1>5. ASSUME NEW x \in Req, tokens[x] = "revoked" PROVE tokens'[x] = "revoked"
    BY <1>1, <1>2, <1>5 DEF TypeOK
  <1>6. \A q \in Req : Consumed(q)' =>
           call'[q] = call[q] /\ tokens[call[q].arg] = "revoked"
    BY <1>1, <1>4 DEF RotationIsLinear
  <1>7. \A q \in Req : Consumed(q)' => tokens'[call'[q].arg] = "revoked"
    BY <1>1, <1>2, <1>6 DEF TypeOK
  <1> QED
    BY <1>1, <1>3, <1>4, <1>7 DEF LockInv, RotationIsLinear

\* Committing turns the locked rows revoked and lets go of them.  A consumer
\* completes here, and no other one can have completed with its token, which
\* was live until now.
LEMMA RowsCommit ==
    ASSUME TypeOK, FlowInv, LockInv, RotationIsLinear, NEW r \in Req,
           CommitRotation(r) \/ CommitRevocation(r)
    PROVE  LockInv' /\ RotationIsLinear'
  <1>1. /\ pc[r] \in {"commit", "revoking"} /\ UNCHANGED <<todo, call>>
        /\ wrote' = [wrote EXCEPT ![r] = {}]
        /\ pc' = [pc EXCEPT ![r] = pc'[r]] /\ pc'[r] \in Committed
    BY DEF CommitRotation, CommitRevocation, local, Goto, TypeOK, Answers,
           Committed
  <1>2. tokens[r] = "none" /\ \A q \in Req : r \notin wrote[q] \cup todo[q]
    BY <1>1 DEF LockInv, LockOK, Issued, Committed, TypeOK
  <1>3. \A x \in Req : /\ x \in wrote[r] => tokens'[x] = "revoked"
                       /\ x \notin wrote[r] \cup {r} => tokens'[x] = tokens[x]
                       /\ tokens[x] # "none" => tokens'[x] # "none"
    BY <1>2 DEF CommitRotation, CommitRevocation, Revoke, TypeOK
  <1>4. tokens'[r] # "none" => Op(r) \in Issuers
    <2>1. CASE CommitRotation(r)
      BY <2>1, <1>1 DEF CommitRotation, FlowInv, FlowOK, Issuers
    <2>2. CASE CommitRevocation(r)
      BY <2>2, <1>2 DEF CommitRevocation, Revoke, TypeOK
    <2> QED
      BY <2>1, <2>2
  <1>5. ASSUME NEW q \in Req PROVE LockOK(q)'
    <2>1. CASE q = r
      BY <2>1, <1>1, <1>2, <1>3, <1>4
      DEF LockInv, LockOK, Issued, Op, TypeOK, Open, Committed
    <2>2. CASE q # r
      <3>1. /\ pc'[q] = pc[q] /\ call'[q] = call[q] /\ wrote'[q] = wrote[q]
            /\ todo'[q] = todo[q]
        BY <2>2, <1>1 DEF TypeOK
      <3>2. LockOK(q) /\ wrote[q] \cap wrote[r] = {} /\ wrote[q] \subseteq Req
            /\ todo[q] \subseteq Req
        BY <2>2 DEF LockInv, LockOK, TypeOK
      <3>3. tokens'[q] # "none" => tokens[q] # "none"
        BY <2>2, <1>3, <3>2 DEF LockInv, LockOK, TypeOK
      <3>4. \A p \in Req : wrote'[p] \cap wrote'[q] # {} => p = q
        BY <1>1, <2>2, <3>1 DEF LockInv, LockOK, TypeOK
      <3>5. \A x \in wrote'[q] \cup todo'[q] : tokens'[x] # "none"
        BY <3>1, <3>2, <1>3 DEF LockOK
      <3>6. Op(q)' \in Consumers /\ pc'[q] \in Open
               => call'[q].arg \in wrote'[q] /\ tokens'[call'[q].arg] = "live"
        BY <3>1, <3>2, <1>2, <1>3 DEF LockOK, Op
      <3> QED
        BY <3>1, <3>2, <3>3, <3>4, <3>5, <3>6 DEF LockOK, Issued, Op
    <2> QED
      BY <2>1, <2>2
  <1>6. ASSUME NEW q \in Req, Consumed(q)', q # r
        PROVE  /\ Consumed(q) /\ call'[q] = call[q]
               /\ tokens[call[q].arg] = "revoked" /\ tokens'[call[q].arg] = "revoked"
    <2>1. Consumed(q) /\ call'[q] = call[q]
      BY <1>1, <1>6 DEF Consumed, Op, TypeOK
    <2>2. tokens[call[q].arg] = "revoked"
      BY <2>1 DEF RotationIsLinear
    <2>3. call[q].arg \in Req
      BY <2>1 DEF FlowInv, FlowOK
    <2> QED
      BY <2>1, <2>2, <2>3, <1>2, <1>3 DEF TypeOK
  <1>7. Op(r) \in Consumers => /\ tokens[call[r].arg] = "live"
                               /\ tokens'[call[r].arg] = "revoked"
    BY <1>1, <1>3 DEF LockInv, LockOK, Open, TypeOK
  <1>8. ASSUME NEW q \in Req, Consumed(q)'
        PROVE  /\ tokens'[call'[q].arg] = "revoked"
               /\ \A p \in Req : Consumed(p)' /\ call'[p].arg = call'[q].arg => p = q
    BY <1>1, <1>6, <1>7, <1>8 DEF Consumed, Op, RotationIsLinear
  <1> QED
    BY <1>5, <1>8 DEF LockInv, RotationIsLinear

\* The statement of RevokeAllUserRefreshTokens: its snapshot holds existing
\* rows only, and it locks rows that nobody else has locked.
LEMMA RowsRevoking ==
    ASSUME TypeOK, FlowInv, LockInv, RotationIsLinear, NEW r \in Req,
           RevokeAll(r) \/ RevokeRow(r)
    PROVE  LockInv' /\ RotationIsLinear'
  <1>1. /\ pc[r] \in {"revokeAll", "revoking"} /\ pc'[r] = "revoking"
        /\ UNCHANGED <<tokens, call>>
        /\ \A q \in Req \ {r} : /\ pc'[q] = pc[q] /\ wrote'[q] = wrote[q]
                                /\ todo'[q] = todo[q]
    BY DEF RevokeAll, RevokeRow, db, local, Goto, TypeOK
  <1>2. /\ wrote[r] \subseteq wrote'[r]
        /\ \A x \in wrote'[r] \cup todo'[r] : tokens[x] # "none"
        /\ \A q \in Req \ {r} : wrote'[r] \cap wrote[q] = {}
    <2>1. CASE RevokeAll(r)
      BY <2>1 DEF RevokeAll, Covered, TokensOf, LockInv, LockOK, TypeOK
    <2>2. CASE RevokeRow(r)
      <3>1. PICK t \in todo[r] : /\ \A q \in Req \ {r} : t \notin wrote[q]
                                 /\ wrote'[r] = wrote[r] \cup {t}
                                 /\ todo'[r] = todo[r] \ {t}
        BY <2>2 DEF RevokeRow, Locked, TypeOK
      <3>2. /\ \A x \in wrote[r] \cup todo[r] : tokens[x] # "none"
            /\ \A q \in Req \ {r} : wrote[r] \cap wrote[q] = {}
        BY DEF LockInv, LockOK
      <3> QED
        BY <3>1, <3>2
    <2> QED
      BY <2>1, <2>2
  <1>3. ASSUME NEW q \in Req PROVE LockOK(q)'
    <2>1. CASE q = r
      BY <2>1, <1>1, <1>2 DEF LockInv, LockOK, Open, Op, Issued, Committed, Steps
    <2>2. CASE q # r
      BY <2>2, <1>1, <1>2 DEF LockInv, LockOK, Issued, Op
    <2> QED
      BY <2>1, <2>2
  <1>4. ASSUME NEW q \in Req, Consumed(q)' PROVE Consumed(q)
    BY <1>1, <1>4 DEF Consumed, Op, Committed
  <1> QED
    BY <1>1, <1>3, <1>4 DEF LockInv, RotationIsLinear

\* Every storage access keeps the row invariants, one case per action.
LEMMA RowsServer ==
    ASSUME TypeOK, FlowInv, LockInv, RotationIsLinear, NEW r \in Req,
           ServerStep(r) \/ Fail(r) \/ DeadlockAbort(r)
    PROVE  LockInv' /\ RotationIsLinear'
  <1>0. /\ pc[r] \in Steps /\ pc[r] \notin Committed /\ call' = call
        /\ \A q \in Req \ {r} : pc'[q] = pc[q] /\ call'[q] = call[q]
    BY StepShape DEF Steps, Committed
  <1>q. ASSUME NEW l \in Answered \ Committed, Quit(r, l)
        PROVE  LockInv' /\ RotationIsLinear'
    BY <1>q, <1>0, RowsQuit
  <1>1. CASE Fail(r) \/ DeadlockAbort(r) \/ ConsumeNothing(r)
    BY <1>1, <1>q DEF Fail, DeadlockAbort, Abort, ConsumeNothing, Answered, Committed
  <1>2. CASE Consume(r)
    BY <1>2, RowsConsume
  <1>3. CASE Issue(r)
    BY <1>3, RowsIssue
  <1>4. CASE CommitRotation(r) \/ CommitRevocation(r)
    BY <1>4, RowsCommit
  <1>5. CASE RevokeAll(r) \/ RevokeRow(r)
    BY <1>5, RowsRevoking
  <1>6. CASE ReadUser(r) \/ ReadMembership(r) \/ UpdateUser(r)
    <2>1. CASE Quit(r, "denied")
      BY <2>1, <1>q DEF Answered, Committed
    <2>2. CASE ~Quit(r, "denied")
      <3>1. /\ UNCHANGED <<tokens, wrote, todo>> /\ pc[r] \in Open
            /\ pc'[r] \in Open
        BY <1>6, <2>2 DEF ReadUser, ReadMembership, UpdateUser, db, Goto, Open,
           TypeOK
      <3>2. pc'[r] \notin Committed
        BY <3>1 DEF Open, Committed
      <3> QED
        BY <1>0, <3>1, <3>2, RowsFrame
    <2> QED
      BY <2>1, <2>2
  <1>7. CASE \/ CreateUser(r) \/ CommitUser(r) \/ ListMemberships(r)
             \/ ReadMe(r) \/ SetKey(r) \/ SendMail(r) \/ CheckPassword(r)
    <2>1. CASE Quit(r, "denied")
      BY <2>1, <1>q DEF Answered, Committed
    <2>2. CASE ~Quit(r, "denied")
      <3>1. /\ UNCHANGED <<tokens, wrote, todo>>
            /\ pc[r] \in {"createUser", "commitUser", "listMemberships", "readMe",
                          "setKey", "sendMail", "checkPassword"}
            /\ pc'[r] \in {"commitUser", "denied", "issue", "error", "ok", "lost",
                           "sendMail", "updateUser"}
            /\ pc'[r] = "updateUser" => pc[r] = "checkPassword"
            /\ pc'[r] \in Committed => pc[r] \in {"readMe", "sendMail"}
        BY <1>7, <2>2 DEF CreateUser, CommitUser, ListMemberships, ReadMe, SetKey,
           SendMail, CheckPassword, db, Goto, TypeOK, Answers, Committed
      <3>2. pc[r] \notin Open /\ (pc'[r] \in Open => pc'[r] = "updateUser")
        BY <3>1 DEF Open
      <3>3. pc[r] \in {"checkPassword", "readMe", "sendMail"}
               => Op(r) \notin Consumers /\ Op(r)' \notin Consumers
        BY <1>0 DEF FlowInv, FlowOK, Op, Consumers
      <3> QED
        BY <1>0, <3>1, <3>2, <3>3, RowsFrame
    <2> QED
      BY <2>1, <2>2
  <1> QED
    BY <1>1, <1>2, <1>3, <1>4, <1>5, <1>6, <1>7 DEF ServerStep

\* Every step of the system keeps the row invariants.
LEMMA RowsStep ==
    ASSUME TypeOK, FlowInv, LockInv, RotationIsLinear, [Next]_vars
    PROVE  LockInv' /\ RotationIsLinear'
  <1>1. ASSUME UNCHANGED <<tokens, pc, call, wrote, todo>>
        PROVE  LockInv' /\ RotationIsLinear'
    BY <1>1 DEF LockInv, LockOK, RotationIsLinear, Issued, Consumed, Op
  <1>2. ASSUME NEW kind \in Kinds, NEW t \in Req, Expire(kind, t)
        PROVE  LockInv' /\ RotationIsLinear'
    BY <1>1, <1>2 DEF Expire, local, db
  <1>3. ASSUME NEW u \in User, NEW o \in ExtraOrg, AddMembership(u, o)
        PROVE  LockInv' /\ RotationIsLinear'
    BY <1>1, <1>3 DEF AddMembership, local
  <1>4. CASE UNCHANGED vars
    BY <1>1, <1>4 DEF vars
  <1> QED
    BY <1>2, <1>3, <1>4, RowsArrival, RowsServer DEF Next, Idle

-----------------------------------------------------------------------------
(* The theorems.                                                             *)

\* RotationInv is an invariant: it holds in an empty database, and every step
\* of every request, failure and expiry preserves it.
THEOREM RotationInvariant == Spec => []RotationInv
  <1>1. Init => RotationInv
    BY TypeInit, FlowInit, RowsInit DEF RotationInv
  <1>2. RotationInv /\ [Next]_vars => RotationInv'
    BY TypeStep, FlowStep, RowsStep DEF RotationInv
  <1> QED
    BY <1>1, <1>2, PTL DEF Spec

\* Every variable keeps its type, for any number of requests and users.
THEOREM TypeCorrect == Spec => []TypeOK
  <1>1. RotationInv => TypeOK
    BY DEF RotationInv
  <1> QED
    BY <1>1, RotationInvariant, PTL

\* However many requests present a refresh token at the same time, and
\* whatever fails, at most one of them commits with it, and it stays revoked.
THEOREM RotationTheorem == Spec => []RotationIsLinear
  <1>1. RotationInv => RotationIsLinear
    BY DEF RotationInv
  <1> QED
    BY <1>1, RotationInvariant, PTL
=============================================================================
