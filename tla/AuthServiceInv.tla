-------------------------- MODULE AuthServiceInv ---------------------------
(* The inductive invariants behind the theorems: RotationInv, what each      *)
(* program point knows of the request that is there and who holds the lock   *)
(* of which row (AuthServiceProofs), and SessionInv, what accounts, sessions *)
(* and the requests between them agree on (AuthAccountsProofs and            *)
(* AuthRefinementProofs).                                                    *)
EXTENDS AuthService

\* The points between ConsumeRefreshToken, or the first UPDATE of users, and
\* the end of the transaction.
Open == {"readUser", "readMembership", "commit",
         "updateUser", "revokeAll", "revoking"}

\* Which handler is at a program point, and that the input and the row it is
\* going to use are there.
FlowOK(r) ==
    /\ pc[r] = "idle" => call[r] = NoCall
    /\ pc[r] \in {"createUser", "commitUser"}
         => Op(r) = "register" /\ call[r].arg \in User
    /\ pc[r] = "listMemberships" => Op(r) = "login"
    /\ pc[r] = "issue" => Op(r) \in {"register", "login"}
    /\ pc[r] = "consume"
         => Op(r) \in Consumers /\ call[r].arg \in Req /\ Held(call[r].arg)
    /\ pc[r] \in {"readUser", "readMembership", "commit"}
         => Op(r) = "refresh" /\ call[r].arg \in Req
    /\ pc[r] \in {"updateUser", "revokeAll", "revoking"}
         => Op(r) \in Revokers /\ (Op(r) = "logout" => call[r].arg \in Req)
    /\ Consumed(r) => call[r].arg \in Req
    /\ pc[r] = "checkPassword" => Op(r) = "change"
    /\ pc[r] = "readMe" => Op(r) = "me"
    /\ pc[r] \in {"setKey", "sendMail"} => Op(r) = "forgot"
    /\ Op(r) \in Issuers /\ pc[r] \in {"listMemberships", "issue", "readUser",
                                       "readMembership", "commit"} \cup Committed
         => UserOf(r) \in User
FlowInv == \A r \in Req : FlowOK(r)

\* A row of refresh_tokens exists once its request has committed; rows are
\* locked by one open transaction at a time, a consumer has its own token
\* locked, and that token is live for everybody else until it commits.
LockOK(r) ==
    /\ tokens[r] # "none" => Issued(r)
    /\ \A t \in wrote[r] \cup todo[r] : tokens[t] # "none"
    /\ wrote[r] # {} => pc[r] \in Open
    /\ \A q \in Req : wrote[q] \cap wrote[r] # {} => q = r
    /\ Op(r) \in Consumers /\ pc[r] \in Open
         => call[r].arg \in wrote[r] /\ tokens[call[r].arg] = "live"
LockInv == \A r \in Req : LockOK(r)

\* RotationIsLinear with what makes it inductive.
RotationInv == TypeOK /\ FlowInv /\ LockInv /\ RotationIsLinear

-----------------------------------------------------------------------------
(* Accounts, and what requests know of them.                                 *)

\* An account is created whole: no membership without its users row, and no
\* users row without a password and the membership in its own organisation.
AccountOK(u) ==
    /\ users[u].id = None => memberships[u] = {}
    /\ users[u].id # None => users[u].hash \in Password /\ u \in memberships[u]

\* The unique index: whoever has inserted an e-mail and not committed yet is
\* alone with it, and the row is not there for the others.
InsertOK(r) ==
    /\ pc[r] \in {"createUser", "commitUser"} => call[r].next \in Password
    /\ pc[r] = "commitUser" => users[call[r].arg].id = None
    /\ \A q \in Req : pc[r] = "commitUser" /\ Inserting(q, call[r].arg) => q = r
    /\ Op(r) = "register" /\ pc[r] \in {"issue"} \cup Committed => call[r].arg \in User
AccountInv ==
    /\ \A u \in User : AccountOK(u)
    /\ \A r \in Req : InsertOK(r)
    /\ AccountHasOneOwner

\* The points from which on a consumer, a revoker and an issuer know for whom.
Consuming(r) == Op(r) \in Consumers /\ pc[r] \in Open \cup Committed
Ending(r)    == Op(r) \in Revokers /\ pc[r] \in Open \cup Committed \cup {"checkPassword"}
HasRow(r)    == Op(r) \in Issuers /\ pc[r] \in
    {"listMemberships", "issue", "readMembership", "commit"} \cup Committed
HasOrg(r)    == Op(r) \in Issuers /\ pc[r] \in {"issue", "commit"} \cup Committed

\* Nobody works for a user who does not exist, and a consumer works for the
\* user and organisation of the token it presented.
UserOK(r) ==
    /\ UserOf(r) \in User => users[UserOf(r)].id # None
    /\ resetKeys[r] # None => users[resetKeys[r]].id # None
    /\ Ending(r) => UserOf(r) \in User
    /\ Ending(r) /\ Op(r) # "logout" => call[r].next \in Password
    /\ Consuming(r) => /\ call[r].arg \in Req /\ Held(call[r].arg)
                       /\ UserOf(r) = UserOf(call[r].arg)
                       /\ seen[r].org = seen[call[r].arg].org

\* What the JWT and the refresh token of r carry or are going to carry.
CarriedOK(r) ==
    /\ HasRow(r) => /\ seen[r].hash \in Password
                    /\ seen[r].ver <= users[UserOf(r)].ver
                    /\ seen[r].ver = users[UserOf(r)].ver
                          => seen[r].hash = users[UserOf(r)].hash
    /\ HasOrg(r) => seen[r].org \in memberships[UserOf(r)]

\* The rows a revoker has locked or is going to lock are its user's, and from
\* the snapshot of RevokeAllUserRefreshTokens on they cover all that the user
\* had when the revoker arrived.
CoverOK(r) ==
    /\ \A t \in before[r] : tokens[t] # "none"
    /\ Op(r) = "logout" /\ pc[r] = "consume"
         => \A t \in before[r] : UserOf(t) = UserOf(call[r].arg)
    /\ Ending(r) => \A t \in before[r] : UserOf(t) = UserOf(r)
    /\ pc[r] = "revoking" => before[r] \subseteq wrote[r] \cup todo[r]
    /\ \A t \in wrote[r] : \/ Op(r) \in Consumers /\ t = call[r].arg
                           \/ pc[r] = "revoking" /\ UserOf(t) = UserOf(r)
    /\ \A t \in todo[r] : pc[r] = "revoking" /\ UserOf(t) = UserOf(r)

\* A redeemed link was one that ForgotPassword had mailed.
LinkOK(r) == Redeemed(r) => call[r].arg \in Req /\ LinkHeld(call[r].arg)

\* A key is there only after ForgotPassword has set it, and not any more when
\* its hour is over.
ExpiryOK(r) ==
    /\ resetKeys[r] # None => pc[r] \notin {"idle", "setKey"}
    /\ <<"reset", r>> \in expired
          => resetKeys[r] = None /\ pc[r] \notin {"idle", "setKey"}
ExpiryInv == \A r \in Req : ExpiryOK(r)

RequestOK(r) == UserOK(r) /\ CarriedOK(r) /\ CoverOK(r) /\ LinkOK(r)
RequestsInv == \A r \in Req : RequestOK(r)

\* What the safety properties of the accounts and sessions need together.
SessionInv ==
    /\ RotationInv
    /\ AccountInv
    /\ RequestsInv
    /\ ExpiryInv
    /\ RevocationCoversEarlierSessions
    /\ RevokedOnlyByCommitted
    /\ ResetLinkIsSingleUse
=============================================================================
