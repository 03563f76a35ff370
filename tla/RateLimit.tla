----------------------------- MODULE RateLimit ------------------------------
(***************************************************************************)
(* The fixed-window rate limiter of internal/middleware/ratelimit.go: each *)
(* request picks a policy and a key, runs one Lua script at Redis, and is  *)
(* passed on or refused by the count that comes back.                      *)
(*                                                                         *)
(* Requests run concurrently; the script is atomic at Redis, but its reply *)
(* may be lost or arrive when the window is over, and the Redis client     *)
(* then sends the script again.  Redis may restart without its counters.   *)
(***************************************************************************)
EXTENDS Integers, FiniteSets

CONSTANTS
    Req,          \* the HTTP requests of a run, each used once
    Addr,         \* IP addresses
    Proxies,      \* those in TRUSTED_PROXY_CIDRS, {} unless headers are trusted
    Email,        \* e-mail addresses, trimmed and in lower case
    Path,         \* the paths that the clients request
    Limit,        \* Limit[p]: requests per window of the policy for path p
    Window,       \* Window[p]: the length of that window, in ticks
    MaxRetries,   \* how often the Redis client sends a command again
    MaxRestarts,  \* bound: restarts of Redis
    MaxTime,      \* bound: ticks of the clock
    None          \* absent value

\* The policies with RateLimitScopeAuthEmailIP, and the paths never limited.
EmailScoped == {"login", "forgot-password", "register"}
Infra       == {"healthz", "readyz", "metrics"}
Paths       == EmailScoped \cup Infra \cup {"reset-password", "refresh", "other"}

ASSUME LimitAssumption ==
    /\ Path \subseteq Paths
    /\ Limit \in [Path -> Nat]
    /\ Window \in [Path -> Nat \ {0}]
    /\ MaxRetries \in Nat /\ MaxRestarts \in Nat /\ MaxTime \in Nat
    /\ Proxies \subseteq Addr
    /\ None \notin Addr \cup Email

Request == [path : Path, peer : Addr,
            forwarded : Addr \cup {None}, email : Email \cup {None}]

\* The forwarded address counts only when a trusted proxy delivers it.
ClientIP(q) ==
    IF q.peer \in Proxies /\ q.forwarded # None THEN q.forwarded ELSE q.peer

Key == [policy : Path, ip : Addr, email : Email \cup {None}]

MutKeyOf(q) ==          \* one counter for each account, whoever asks
    [policy |-> q.path, ip |-> CHOOSE a \in Addr : TRUE,
     email |-> IF q.path \in EmailScoped THEN q.email ELSE None]

\* An unreadable body, or one without an e-mail, falls back to the address.
KeyOf(q) == [policy |-> q.path, ip |-> ClientIP(q),
             email |-> IF q.path \in EmailScoped THEN q.email ELSE None]

VARIABLES
    now,       \* the clock of Redis
    count,     \* value of the counter of each key, 0 when it does not exist
    deadline,  \* expiry time of that counter
    restarts,  \* how often Redis has restarted
    pc,        \* what each request does next, or how it was answered
    input,     \* the request
    tries,     \* how often its script has been sent again, while under way
    reply,     \* the last execution of its script; Redis returns its rank
    serial,    \* history: how many windows each key has had
    opened,    \* history: when the latest of them began
    charged    \* history: the windows that counted each request

redis == <<now, count, deadline, restarts, serial, opened>>
vars  == <<now, count, deadline, restarts, pc, input, tries, reply,
           serial, opened, charged>>

Steps    == {"send", "reply"}
Answered == {"passed", "limited", "unavailable"}

NoRequest == [path |-> None, peer |-> None, forwarded |-> None, email |-> None]

\* One execution of the script: it found its key in its window-th window and
\* made the counter rank, at time at.
Run   == [window : Nat, rank : Nat, at : Nat]
NoRun == [window |-> 0, rank |-> 0, at |-> 0]

TypeOK ==
    /\ now \in 0 .. MaxTime
    /\ count \in [Key -> Nat]
    /\ deadline \in [Key -> Nat]
    /\ restarts \in 0 .. MaxRestarts
    /\ pc \in [Req -> {"idle"} \cup Steps \cup Answered]
    /\ input \in [Req -> Request \cup {NoRequest}]
    /\ tries \in [Req -> 0 .. MaxRetries]
    /\ reply \in [Req -> Run]
    /\ serial \in [Key -> Nat]
    /\ opened \in [Key -> Nat]
    /\ charged \in [Req -> SUBSET Nat]

Init ==
    /\ now = 0
    /\ count = [k \in Key |-> 0]
    /\ deadline = [k \in Key |-> 0]
    /\ restarts = 0
    /\ pc = [r \in Req |-> "idle"]
    /\ input = [r \in Req |-> NoRequest]
    /\ tries = [r \in Req |-> 0]
    /\ reply = [r \in Req |-> NoRun]
    /\ serial = [k \in Key |-> 0]
    /\ opened = [k \in Key |-> 0]
    /\ charged = [r \in Req |-> {}]

-----------------------------------------------------------------------------

\* Redis drops a key when the clock has passed its expiry time.
Alive(k) == count[k] > 0 /\ now <= deadline[k]

Goto(r, l) == pc' = [pc EXCEPT ![r] = l]

Answer(r, l) == Goto(r, l) /\ tries' = [tries EXCEPT ![r] = 0]

\* shouldSkipRateLimit, policyForRequest and rateLimitKey.
Arrive(r) == \E q \in Request :
    /\ pc[r] = "idle"
    /\ input' = [input EXCEPT ![r] = q]
    /\ Goto(r, IF q.path \in Infra THEN "passed" ELSE "send")
    /\ UNCHANGED <<redis, tries, reply, charged>>

MutExpiry(k, n) == now + Window[k.policy]     \* PEXPIRE on every request
MutShort(k, n)  == IF n = 1 THEN now ELSE deadline[k]   \* a thousandth of it

\* PEXPIRE runs only for the first INCR of a counter.
Expiry(k, n) == IF n = 1 THEN now + Window[k.policy] ELSE deadline[k]

\* rateLimitScript at Redis: INCR, and PEXPIRE when the counter is new.
RunScript(r) ==
    LET k == KeyOf(input[r])
        n == IF Alive(k) THEN count[k] + 1 ELSE 1
        w == IF n = 1 THEN serial[k] + 1 ELSE serial[k]
    IN
    /\ pc[r] = "send"
    /\ count' = [count EXCEPT ![k] = n]
    /\ deadline' = [deadline EXCEPT ![k] = Expiry(k, n)]
    /\ serial' = [serial EXCEPT ![k] = w]
    /\ opened' = [opened EXCEPT ![k] = IF n = 1 THEN now ELSE @]
    /\ reply' = [reply EXCEPT ![r] = [window |-> w, rank |-> n, at |-> now]]
    /\ charged' = [charged EXCEPT ![r] = @ \cup {w}]
    /\ Goto(r, "reply")
    /\ UNCHANGED <<now, restarts, input, tries>>

MutDecide(r) ==         \* compares with the count before this request
    /\ pc[r] = "reply"
    /\ Answer(r, IF reply[r].rank - 1 > Limit[input[r].path] THEN "limited" ELSE "passed")
    /\ UNCHANGED <<redis, input, reply, charged>>

\* The reply arrives.
Decide(r) ==
    /\ pc[r] = "reply"
    /\ Answer(r, IF reply[r].rank > Limit[input[r].path] THEN "limited" ELSE "passed")
    /\ UNCHANGED <<redis, input, reply, charged>>

MutRetry(r) ==          \* one attempt too many
    /\ pc[r] \in Steps
    /\ tries[r] <= MaxRetries
    /\ tries' = [tries EXCEPT ![r] = @ + 1]
    /\ reply' = [reply EXCEPT ![r] = NoRun]
    /\ Goto(r, "send")
    /\ UNCHANGED <<redis, input, charged>>

\* The command or its reply is lost: the client sends the script again,
\* which Redis may have run already.
Retry(r) ==
    /\ pc[r] \in Steps
    /\ tries[r] < MaxRetries
    /\ tries' = [tries EXCEPT ![r] = @ + 1]
    /\ reply' = [reply EXCEPT ![r] = NoRun]
    /\ Goto(r, "send")
    /\ UNCHANGED <<redis, input, charged>>

\* The last attempt fails, or the request is cancelled: 503.
GiveUp(r) ==
    /\ pc[r] \in Steps
    /\ Answer(r, "unavailable")
    /\ reply' = [reply EXCEPT ![r] = NoRun]
    /\ UNCHANGED <<redis, input, charged>>

Tick ==
    /\ now < MaxTime
    /\ now' = now + 1
    /\ UNCHANGED <<count, deadline, restarts, pc, input, tries, reply, serial,
                   opened, charged>>

\* docker-compose.yml gives Redis no volume: its keys are gone.
Restart ==
    /\ restarts < MaxRestarts
    /\ restarts' = restarts + 1
    /\ count' = [k \in Key |-> 0]
    /\ UNCHANGED <<now, deadline, pc, input, tries, reply, serial, opened,
                   charged>>

Idle == (\A r \in Req : pc[r] \in Answered) /\ UNCHANGED vars

Next ==
    \/ \E r \in Req : Arrive(r) \/ RunScript(r) \/ Decide(r) \/ Retry(r) \/ GiveUp(r)
    \/ Tick
    \/ Restart
    \/ Idle

Spec == Init /\ [][Next]_vars

-----------------------------------------------------------------------------

\* The requests that the w-th window of key k let pass.
Counted(r)     == pc[r] = "passed" /\ reply[r] # NoRun
PassedIn(k, w) ==
    {r \in Req : Counted(r) /\ KeyOf(input[r]) = k /\ reply[r].window = w}

\* However requests, retries and restarts interleave, a window of a key lets
\* at most Limit requests pass, and a request that is not exempt passes only
\* after it was counted (RateLimit's comparison with the script's atomic INCR).
WindowAdmitsAtMostLimit ==
    /\ \A k \in Key : \A w \in 1 .. serial[k] :
          Cardinality(PassedIn(k, w)) <= Limit[k.policy]
    /\ \A r \in Req : pc[r] = "passed" /\ input[r].path \notin Infra
          => Counted(r)

\* Where windows meet, a stretch as long as a window sees less than twice the
\* limit pass, and less than once more for each restart of Redis: it may hold
\* the end of one window and the whole of the next, or of another that a
\* restart began, but never the request that opened the first of them together
\* with one of the last (rateLimitScript's PEXPIRE).
BurstIsBounded ==
    \A k \in Key, t \in 0 .. MaxTime :
        LET burst == {r \in Req : /\ Counted(r)
                                  /\ KeyOf(input[r]) = k
                                  /\ reply[r].at \in t .. t + Window[k.policy]}
        IN  burst # {} => Cardinality(burst) < (2 + restarts) * Limit[k.policy]

\* A request is refused only when its own client used the window up: the
\* requests from its address that the window counted, each with all of the
\* Redis client's retries, outnumber the limit.
RefusedOnlyWhenUsedUp ==
    \A r \in Req : pc[r] = "limited" =>
        LET own == {q \in Req : /\ reply[r].window \in charged[q]
                                /\ KeyOf(input[q]) = KeyOf(input[r])
                                /\ ClientIP(input[q]) = ClientIP(input[r])}
        IN  Cardinality(own) * (MaxRetries + 1) > Limit[input[r].path]

\* Every window ends: no counter lives longer than Window after the request
\* that created it, however many requests, refused or not, follow.
WindowsEnd ==
    \A k \in Key : Alive(k) =>
        serial[k] > 0 /\ now <= opened[k] + Window[k.policy]
=============================================================================
