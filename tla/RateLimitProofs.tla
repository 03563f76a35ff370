-------------------------- MODULE RateLimitProofs ---------------------------
(* What the rate limiter guarantees for any number of requests, keys,        *)
(* retries and restarts, and for any limits.                                 *)
EXTENDS RateLimit, FiniteSetTheorems, WellFoundedInduction, TLAPS

\* The key of a request that has arrived.
KeyFor(r) == KeyOf(input[r])

\* Where a request is, and what it holds: a count that Redis gave it once it
\* waits to be decided, and none before it or without the script.
FlowOK(r) ==
    /\ pc[r] # "idle" => input[r] \in Request
    /\ pc[r] = "idle" => reply[r] = NoRun
    /\ pc[r] = "reply" => reply[r] # NoRun
    /\ pc[r] = "passed" =>
          \/ reply[r] = NoRun /\ input[r].path \in Infra
          \/ reply[r] # NoRun /\ reply[r].rank <= Limit[input[r].path]
FlowInv == \A r \in Req : FlowOK(r)

\* The count that a request holds comes from a window its key has had, and the
\* counter of the key's latest window has not fallen behind it.
RankOK(r) ==
    reply[r] # NoRun =>
        /\ reply[r].rank > 0
        /\ reply[r].window > 0
        /\ reply[r].window <= serial[KeyFor(r)]
        /\ reply[r].window = serial[KeyFor(r)] /\ count[KeyFor(r)] > 0
              => reply[r].rank <= count[KeyFor(r)]
RankInv == \A r \in Req : RankOK(r)

\* No two requests hold the same count of the same window.
RanksDiffer(r, q) ==
    /\ reply[r] # NoRun /\ reply[q] # NoRun
    /\ KeyFor(r) = KeyFor(q)
    /\ reply[r].window = reply[q].window
    /\ reply[r].rank = reply[q].rank
    => r = q
DistinctInv == \A r, q \in Req : RanksDiffer(r, q)

\* The counters of the keys and the windows they have had.
CounterInv == \A k \in Key : count[k] > 0 => serial[k] > 0

\* The inductive invariant.
CountInv == TypeOK /\ FlowInv /\ CounterInv /\ RankInv /\ DistinctInv

-----------------------------------------------------------------------------
(* The windows in time.                                                      *)

\* A counter that exists expires when its window is over, and the clock has
\* not overtaken the beginning of the latest window.
TimeOK(k) ==
    /\ opened[k] <= now
    /\ count[k] > 0 => deadline[k] = opened[k] + Window[k.policy]
TimeInv == \A k \in Key : TimeOK(k)

\* 1 if Redis has lost the latest window of k and no request has opened another.
Lost(k) == IF count[k] = 0 THEN 1 ELSE 0

\* 0 for the request that opened its window, 1 for those that came later.
Slack(r) == IF reply[r].rank = 1 THEN 0 ELSE 1

\* A count is given before the next window begins, the first one when its own
\* does.  Of all the windows since, each has outlived the one before it, or
\* replaces one that a restart took; only the first of them may begin just
\* after a later count of the window before it.  After more than
\* Slack + restarts of them, time has passed.
SpanOK(r) ==
    reply[r] # NoRun =>
        LET k == KeyFor(r) IN
        /\ reply[r].at <= now
        /\ reply[r].window < serial[k] \/ reply[r].rank = 1
              => reply[r].at <= opened[k]
        /\ \/ serial[k] - reply[r].window + Lost(k) <= Slack(r) + restarts
           \/ opened[k] > reply[r].at + Window[k.policy]
SpanInv == \A r \in Req : SpanOK(r)

\* The same between two counts.
Apart(r, q) ==
    /\ reply[r] # NoRun /\ reply[q] # NoRun
    /\ KeyFor(r) = KeyFor(q)
    /\ reply[q].window - reply[r].window > Slack(r) + restarts
    => reply[q].at > reply[r].at + Window[KeyFor(r).policy]
ApartInv == \A r, q \in Req : Apart(r, q)

\* The inductive invariant of the windows.
WindowInv == CountInv /\ TimeInv /\ SpanInv /\ ApartInv

-----------------------------------------------------------------------------
(* Who used a window up.                                                     *)

\* The attempts of request q that can have been executed: those before the one
\* it is about to send, or, once it is answered, all it may have made.
Attempts(q) ==
    IF pc[q] = "send" THEN 0 .. tries[q] - 1
    ELSE IF pc[q] = "reply" THEN 0 .. tries[q]
    ELSE 0 .. MaxRetries

\* The attempts that the w-th window of k can have counted.
Executions(k, w) ==
    {e \in Req \X (0 .. MaxRetries) :
        /\ w \in charged[e[1]]
        /\ KeyFor(e[1]) = k
        /\ e[2] \in Attempts(e[1])}

\* The requests that some window has counted.
Charged == {q \in Req : charged[q] # {}}

\* No count is higher than the attempts that made it.
UsedInv ==
    /\ IsFiniteSet(Charged)
    /\ \A q \in Req : pc[q] = "idle" => charged[q] = {}
    /\ \A k \in Key : count[k] > 0 => count[k] <= Cardinality(Executions(k, serial[k]))
    /\ \A r \in Req : /\ reply[r] # NoRun
                         => reply[r].rank <= Cardinality(Executions(KeyFor(r), reply[r].window))
                      /\ pc[r] = "limited"
                         => reply[r] # NoRun /\ reply[r].rank > Limit[input[r].path]

\* The inductive invariant of what the windows charge.
ChargeInv == CountInv /\ UsedInv

-----------------------------------------------------------------------------

\* Every request that has arrived has a key.
LEMMA KeyType ==
    ASSUME NEW q \in Request
    PROVE  KeyOf(q) \in Key
  BY DEF KeyOf, Key, Request, ClientIP

\* A step's program counter stays in its type.
LEMMA GotoType ==
    ASSUME TypeOK, NEW r \in Req, NEW l \in Steps \cup Answered, Goto(r, l)
    PROVE  pc' \in [Req -> {"idle"} \cup Steps \cup Answered]
  BY DEF TypeOK, Goto

\* The invariant holds while Redis is empty and nobody has asked.
LEMMA CountInit == Init => CountInv
  <1> SUFFICES ASSUME Init PROVE CountInv
    OBVIOUS
  <1>1. TypeOK
    BY LimitAssumption DEF Init, TypeOK, Run, NoRun
  <1>2. FlowInv /\ CounterInv /\ RankInv /\ DistinctInv
    BY DEF Init, FlowInv, FlowOK, CounterInv, RankInv, RankOK,
           DistinctInv, RanksDiffer
  <1> QED
    BY <1>1, <1>2 DEF CountInv

\* A step that leaves Redis alone, gives no request a count and takes no
\* request's input away keeps what is known of the counts.
LEMMA CountFrame ==
    ASSUME CountInv, UNCHANGED <<count, serial>>,
           \A q \in Req : \/ reply'[q] = NoRun
                          \/ reply'[q] = reply[q] /\ input'[q] = input[q]
    PROVE  CounterInv' /\ RankInv' /\ DistinctInv'
  <1>1. CounterInv'
    BY DEF CountInv, CounterInv
  <1>2. RankInv'
    BY DEF CountInv, RankInv, RankOK, KeyFor
  <1>3. DistinctInv'
    BY DEF CountInv, DistinctInv, RanksDiffer, KeyFor
  <1> QED
    BY <1>1, <1>2, <1>3

\* Arriving gives a request its input, and no count.
LEMMA CountArrive ==
    ASSUME CountInv, NEW r \in Req, Arrive(r)
    PROVE  CountInv'
  <1>1. PICK q \in Request :
           /\ pc[r] = "idle"
           /\ input' = [input EXCEPT ![r] = q]
           /\ Goto(r, IF q.path \in Infra THEN "passed" ELSE "send")
           /\ UNCHANGED <<redis, tries, reply, charged>>
    BY DEF Arrive
  <1>2. TypeOK'
    <2>1. pc' \in [Req -> {"idle"} \cup Steps \cup Answered]
      BY <1>1, GotoType DEF CountInv, Steps, Answered
    <2> QED
      BY <1>1, <2>1 DEF CountInv, TypeOK, redis
  <1>3. FlowInv'
    BY <1>1 DEF CountInv, TypeOK, FlowInv, FlowOK, Goto
  <1>4. reply[r] = NoRun
    BY <1>1 DEF CountInv, FlowInv, FlowOK
  <1>5. \A p \in Req : \/ reply'[p] = NoRun
                       \/ reply'[p] = reply[p] /\ input'[p] = input[p]
    BY <1>1, <1>4 DEF CountInv, TypeOK
  <1>6. CounterInv' /\ RankInv' /\ DistinctInv'
    BY <1>1, <1>5, CountFrame DEF redis
  <1> QED
    BY <1>2, <1>3, <1>6 DEF CountInv

\* The reply arrives, the script is sent again, or the request gives up: the
\* counters stay as they are, and a count is kept or dropped.
LEMMA CountAnswer ==
    ASSUME CountInv, NEW r \in Req, Decide(r) \/ Retry(r) \/ GiveUp(r)
    PROVE  CountInv'
  <1>1. TypeOK'
    <2>1. CASE Decide(r)
      BY <2>1, LimitAssumption
      DEF CountInv, TypeOK, Decide, Answer, Goto, Steps, Answered, redis
    <2>2. CASE Retry(r)
      BY <2>2, LimitAssumption
      DEF CountInv, TypeOK, Retry, Goto, Steps, redis, Run, NoRun
    <2>3. CASE GiveUp(r)
      BY <2>3, LimitAssumption
      DEF CountInv, TypeOK, GiveUp, Answer, Goto, Answered, redis, Run, NoRun
    <2> QED
      BY <2>1, <2>2, <2>3
  <1>2. FlowInv'
    <2>1. CASE Decide(r)
      <3>1. reply[r].rank \in Nat /\ Limit[input[r].path] \in Nat
        BY <2>1, LimitAssumption
        DEF CountInv, TypeOK, FlowInv, FlowOK, Decide, Request, Run
      <3> QED
        BY <2>1, <3>1 DEF CountInv, TypeOK, FlowInv, FlowOK, Decide, Answer, Goto
    <2>2. CASE Retry(r)
      BY <2>2 DEF CountInv, TypeOK, FlowInv, FlowOK, Retry, Goto, Steps
    <2>3. CASE GiveUp(r)
      BY <2>3 DEF CountInv, TypeOK, FlowInv, FlowOK, GiveUp, Answer, Goto, Steps
    <2> QED
      BY <2>1, <2>2, <2>3
  <1>3. UNCHANGED <<count, serial, input>>
    BY DEF Decide, Retry, GiveUp, redis
  <1>4. \A p \in Req : reply'[p] = NoRun \/ reply'[p] = reply[p]
    BY DEF CountInv, TypeOK, Decide, Retry, GiveUp
  <1>5. CounterInv' /\ RankInv' /\ DistinctInv'
    BY <1>3, <1>4, CountFrame
  <1> QED
    BY <1>1, <1>2, <1>5 DEF CountInv

\* The script: the request gets a count of a new window, or the next count of
\* the window that is open, and in both cases one that nobody else holds.
LEMMA CountRunScript ==
    ASSUME CountInv, NEW r \in Req, RunScript(r)
    PROVE  CountInv'
  <1> DEFINE k == KeyOf(input[r])
             n == IF Alive(k) THEN count[k] + 1 ELSE 1
             w == IF n = 1 THEN serial[k] + 1 ELSE serial[k]
             c == [window |-> w, rank |-> n, at |-> now]
  <1>1. /\ pc[r] = "send"
        /\ count' = [count EXCEPT ![k] = n]
        /\ deadline' = [deadline EXCEPT ![k] = Expiry(k, n)]
        /\ serial' = [serial EXCEPT ![k] = w]
        /\ opened' = [opened EXCEPT ![k] = IF n = 1 THEN now ELSE @]
        /\ reply' = [reply EXCEPT ![r] = c]
        /\ charged' = [charged EXCEPT ![r] = @ \cup {w}]
        /\ Goto(r, "reply")
        /\ UNCHANGED <<now, restarts, input, tries>>
    BY DEF RunScript
  <1>2. input[r] \in Request /\ k \in Key
    BY <1>1, KeyType DEF CountInv, FlowInv, FlowOK
  <1>3. /\ count[k] \in Nat /\ serial[k] \in Nat /\ deadline[k] \in Nat
        /\ now \in Nat /\ now \in 0 .. MaxTime
    BY <1>2, LimitAssumption DEF CountInv, TypeOK
  <1>4. /\ n \in Nat /\ n > 0 /\ w \in Nat /\ w > 0
        /\ Expiry(k, n) \in Nat
    BY <1>2, <1>3, LimitAssumption DEF Alive, Expiry, CountInv, CounterInv, Key
  <1>5. c \in Run /\ c # NoRun
    BY <1>3, <1>4 DEF Run, NoRun
  <1>6. TypeOK'
    <2>1. pc' \in [Req -> {"idle"} \cup Steps \cup Answered]
      BY <1>1, GotoType DEF CountInv, Steps
    <2>2. reply' \in [Req -> Run] /\ charged' \in [Req -> SUBSET Nat]
      BY <1>1, <1>4, <1>5 DEF CountInv, TypeOK
    <2>3. /\ count' \in [Key -> Nat] /\ deadline' \in [Key -> Nat]
          /\ serial' \in [Key -> Nat] /\ opened' \in [Key -> Nat]
      BY <1>1, <1>3, <1>4 DEF CountInv, TypeOK
    <2> QED
      BY <1>1, <2>1, <2>2, <2>3 DEF CountInv, TypeOK
  <1>7. FlowInv'
    BY <1>1, <1>2, <1>5 DEF CountInv, TypeOK, FlowInv, FlowOK, Goto
  <1>8. CounterInv'
    BY <1>1, <1>2, <1>4 DEF CountInv, TypeOK, CounterInv
  <1>9. reply'[r] = c /\ \A q \in Req \ {r} : reply'[q] = reply[q]
    BY <1>1 DEF CountInv, TypeOK
  <1>10. /\ count'[k] = n /\ serial'[k] = w
         /\ \A j \in Key \ {k} : count'[j] = count[j] /\ serial'[j] = serial[j]
    BY <1>1, <1>2 DEF CountInv, TypeOK
  <1>11. \A q \in Req : KeyFor(q)' = KeyFor(q)
    BY <1>1 DEF KeyFor, KeyOf, ClientIP
  \* What every other request holds is below the new count of its window.
  <1>12. ASSUME NEW q \in Req, reply[q] # NoRun, KeyFor(q) = k
         PROVE  /\ reply[q].window <= w
                /\ reply[q].window = w => reply[q].rank < n
    <2>1. /\ reply[q].window <= serial[k]
          /\ reply[q].window = serial[k] /\ count[k] > 0
                => reply[q].rank <= count[k]
          /\ reply[q].window \in Nat /\ reply[q].rank \in Nat
      BY <1>12 DEF CountInv, TypeOK, RankInv, RankOK, Run
    <2>2. CASE Alive(k)
      <3>1. count[k] > 0 /\ n = count[k] + 1 /\ n # 1 /\ w = serial[k]
        BY <2>2, <1>3 DEF Alive
      <3> QED
        BY <2>1, <3>1, <1>3
    <2>3. CASE ~Alive(k)
      <3>1. w = serial[k] + 1
        BY <2>3
      <3> QED
        BY <2>1, <3>1, <1>3
    <2> QED
      BY <2>2, <2>3
  <1>13. ASSUME NEW q \in Req, q # r, reply[q] # NoRun
         PROVE  KeyFor(q) \in Key
    BY <1>13, KeyType DEF CountInv, FlowInv, FlowOK, KeyFor
  <1>14. RankInv'
    <2> SUFFICES ASSUME NEW q \in Req, reply'[q] # NoRun PROVE RankOK(q)'
      BY DEF RankInv, RankOK
    <2>1. CASE q = r
      BY <2>1, <1>4, <1>9, <1>10, <1>11 DEF RankOK, KeyFor
    <2>2. CASE q # r /\ KeyFor(q) = k
      <3>1. RankOK(q)
        BY DEF CountInv, RankInv
      <3> QED
        BY <2>2, <3>1, <1>4, <1>9, <1>10, <1>11, <1>12 DEF RankOK, CountInv, TypeOK, Run
    <2>3. CASE q # r /\ KeyFor(q) # k
      <3>1. RankOK(q)
        BY DEF CountInv, RankInv
      <3> QED
        BY <2>3, <3>1, <1>9, <1>10, <1>11, <1>13 DEF RankOK
    <2> QED
      BY <2>1, <2>2, <2>3
  <1>15. DistinctInv'
    <2> SUFFICES ASSUME NEW p \in Req, NEW q \in Req, p # q,
                        reply'[p] # NoRun, reply'[q] # NoRun,
                        KeyFor(p)' = KeyFor(q)',
                        reply'[p].window = reply'[q].window,
                        reply'[p].rank = reply'[q].rank
                 PROVE  FALSE
      BY DEF DistinctInv, RanksDiffer
    <2>1. CASE p = r
      BY <2>1, <1>4, <1>9, <1>11, <1>12 DEF KeyFor, CountInv, TypeOK, Run
    <2>2. CASE q = r
      BY <2>2, <1>4, <1>9, <1>11, <1>12 DEF KeyFor, CountInv, TypeOK, Run
    <2>3. CASE p # r /\ q # r
      BY <2>3, <1>9, <1>11 DEF CountInv, DistinctInv, RanksDiffer
    <2> QED
      BY <2>1, <2>2, <2>3
  <1> QED
    BY <1>6, <1>7, <1>8, <1>14, <1>15 DEF CountInv

\* The clock and a restart of Redis: a counter can only go away.
LEMMA CountClock ==
    ASSUME CountInv, Tick \/ Restart
    PROVE  CountInv'
  <1>1. TypeOK'
    BY LimitAssumption DEF CountInv, TypeOK, Tick, Restart
  <1>2. UNCHANGED <<pc, input, reply, serial>>
    BY DEF Tick, Restart
  <1>3. \A k \in Key : count'[k] = count[k] \/ count'[k] = 0
    BY DEF Tick, Restart
  <1>4. FlowInv'
    BY <1>2 DEF CountInv, FlowInv, FlowOK
  <1>5. CounterInv'
    BY <1>2, <1>3 DEF CountInv, CounterInv
  <1>6. RankInv'
    <2> SUFFICES ASSUME NEW q \in Req, reply[q] # NoRun PROVE RankOK(q)'
      BY <1>2 DEF RankInv, RankOK
    <2>1. KeyFor(q) \in Key
      BY KeyType DEF CountInv, FlowInv, FlowOK, KeyFor
    <2>2. RankOK(q)
      BY DEF CountInv, RankInv
    <2> QED
      BY <1>2, <1>3, <2>1, <2>2 DEF RankOK, KeyFor
  <1>7. DistinctInv'
    BY <1>2 DEF CountInv, DistinctInv, RanksDiffer, KeyFor
  <1> QED
    BY <1>1, <1>4, <1>5, <1>6, <1>7 DEF CountInv

\* Every step of the rate limiter, of Redis and of the clock keeps it.
LEMMA CountStep == CountInv /\ [Next]_vars => CountInv'
  <1> SUFFICES ASSUME CountInv, [Next]_vars PROVE CountInv'
    OBVIOUS
  <1>1. ASSUME NEW r \in Req, Arrive(r) PROVE CountInv'
    BY <1>1, CountArrive
  <1>2. ASSUME NEW r \in Req, RunScript(r) PROVE CountInv'
    BY <1>2, CountRunScript
  <1>3. ASSUME NEW r \in Req, Decide(r) \/ Retry(r) \/ GiveUp(r) PROVE CountInv'
    BY <1>3, CountAnswer
  <1>4. CASE Tick \/ Restart
    BY <1>4, CountClock
  <1>5. CASE UNCHANGED vars
    BY <1>5 DEF vars, CountInv, TypeOK, FlowInv, FlowOK, CounterInv,
                RankInv, RankOK, DistinctInv, RanksDiffer, KeyFor
  <1> QED
    BY <1>1, <1>2, <1>3, <1>4, <1>5 DEF Next, Idle

\* Distinct counts from 1 to the limit are no more than the limit.
LEMMA CountBound ==
    ASSUME CountInv PROVE WindowAdmitsAtMostLimit
  <1>1. ASSUME NEW k \in Key, NEW w \in 1 .. serial[k]
        PROVE  Cardinality(PassedIn(k, w)) <= Limit[k.policy]
    <2> DEFINE P == PassedIn(k, w)
               L == Limit[k.policy]
               f == [r \in P |-> reply[r].rank]
    <2>1. L \in Nat
      BY LimitAssumption DEF Key
    <2>2. \A r \in P : /\ r \in Req /\ pc[r] = "passed" /\ reply[r] # NoRun
                       /\ KeyOf(input[r]) = k /\ reply[r].window = w
      BY DEF PassedIn, Counted
    <2>3. \A r \in P : f[r] \in 1 .. L
      <3> SUFFICES ASSUME NEW r \in P PROVE reply[r].rank \in 1 .. L
        OBVIOUS
      <3>1. input[r].path = k.policy
        BY <2>2 DEF KeyOf
      <3>2. reply[r].rank \in Nat /\ reply[r].rank > 0
        BY <2>2 DEF CountInv, TypeOK, RankInv, RankOK, Run
      <3>3. reply[r].rank <= Limit[input[r].path]
        BY <2>2 DEF CountInv, FlowInv, FlowOK
      <3> QED
        BY <2>1, <3>1, <3>2, <3>3
    <2>4. \A r, q \in P : f[r] = f[q] => r = q
      BY <2>2 DEF CountInv, DistinctInv, RanksDiffer, KeyFor
    <2>5. f \in Injection(P, 1 .. L)
      BY <2>3, <2>4 DEF Injection, IsInjective
    <2>6. Cardinality(P) <= Cardinality(1 .. L) /\ IsFiniteSet(P)
      BY <2>5, <2>1, FS_Interval, FS_Injection
    <2>7. Cardinality(1 .. L) = L
      BY <2>1, FS_Interval
    <2> QED
      BY <2>6, <2>7
  <1>2. ASSUME NEW r \in Req, pc[r] = "passed", input[r].path \notin Infra
        PROVE  Counted(r)
    BY <1>2 DEF CountInv, FlowInv, FlowOK, Counted
  <1> QED
    BY <1>1, <1>2 DEF WindowAdmitsAtMostLimit

\* A window of a key lets at most Limit requests pass, and nothing that is not
\* exempt passes uncounted, however requests, lost replies, retries, the clock
\* and restarts of Redis interleave (RateLimit in ratelimit.go).
THEOREM LimitTheorem == Spec => []WindowAdmitsAtMostLimit
  <1>1. Spec => []CountInv
    BY CountInit, CountStep, PTL DEF Spec
  <1> QED
    BY <1>1, CountBound, PTL

\* Every variable of the limiter keeps its type.
THEOREM RateTypeTheorem == Spec => []TypeOK
  <1>1. CountInv => TypeOK
    BY DEF CountInv
  <1> QED
    BY <1>1, CountInit, CountStep, PTL DEF Spec

-----------------------------------------------------------------------------
(* What a step does, seen from one key.                                      *)

\* Request r has been given the count n of the w-th window of key k: the next
\* one of the window that is open, or the first one of a new window.
Counts(r, k, n, w) ==
    /\ pc[r] = "send" /\ KeyFor(r) = k /\ n > 0
    /\ \/ /\ count[k] > 0 /\ n = count[k] + 1 /\ w = serial[k]
          /\ opened'[k] = opened[k] /\ deadline'[k] = deadline[k]
       \/ /\ count[k] = 0 \/ now > deadline[k]
          /\ n = 1 /\ w = serial[k] + 1
          /\ opened'[k] = now /\ deadline'[k] = now + Window[k.policy]
    /\ count'[k] = n /\ serial'[k] = w
    /\ reply'[r] = [window |-> w, rank |-> n, at |-> now]
    /\ charged'[r] = charged[r] \cup {w}
    /\ pc'[r] = "reply"
    /\ \A j \in Key \ {k} :
          /\ count'[j] = count[j] /\ deadline'[j] = deadline[j]
          /\ serial'[j] = serial[j] /\ opened'[j] = opened[j]
    /\ \A q \in Req \ {r} : /\ reply'[q] = reply[q] /\ pc'[q] = pc[q]
                            /\ charged'[q] = charged[q]
    /\ UNCHANGED <<now, restarts, input, tries>>

\* That is all the script does, and it touches no other key.
LEMMA RunScriptEffect ==
    ASSUME CountInv, NEW r \in Req, RunScript(r)
    PROVE  \E k \in Key, n \in Nat, w \in Nat : Counts(r, k, n, w)
  <1> DEFINE k == KeyOf(input[r])
             n == IF Alive(k) THEN count[k] + 1 ELSE 1
             w == IF n = 1 THEN serial[k] + 1 ELSE serial[k]
  <1>1. /\ pc[r] = "send"
        /\ count' = [count EXCEPT ![k] = n]
        /\ deadline' = [deadline EXCEPT ![k] = Expiry(k, n)]
        /\ serial' = [serial EXCEPT ![k] = w]
        /\ opened' = [opened EXCEPT ![k] = IF n = 1 THEN now ELSE @]
        /\ reply' = [reply EXCEPT ![r] = [window |-> w, rank |-> n, at |-> now]]
        /\ charged' = [charged EXCEPT ![r] = @ \cup {w}]
        /\ Goto(r, "reply")
        /\ UNCHANGED <<now, restarts, input, tries>>
    BY DEF RunScript
  <1>2. k \in Key /\ KeyFor(r) = k
    BY <1>1, KeyType DEF CountInv, FlowInv, FlowOK, KeyFor
  <1>3. /\ count[k] \in Nat /\ serial[k] \in Nat /\ deadline[k] \in Nat
        /\ now \in Nat
    BY <1>2, LimitAssumption DEF CountInv, TypeOK
  <1>4. n \in Nat /\ w \in Nat /\ n > 0
    BY <1>3
  <1>5. \/ /\ count[k] > 0 /\ n = count[k] + 1 /\ w = serial[k]
           /\ opened'[k] = opened[k] /\ deadline'[k] = deadline[k]
        \/ /\ count[k] = 0 \/ now > deadline[k]
           /\ n = 1 /\ w = serial[k] + 1
           /\ opened'[k] = now /\ deadline'[k] = now + Window[k.policy]
    <2>1. CASE Alive(k)
      <3>1. count[k] > 0 /\ n = count[k] + 1 /\ n # 1 /\ w = serial[k]
        BY <2>1, <1>3 DEF Alive
      <3>2. opened'[k] = opened[k] /\ deadline'[k] = deadline[k]
        BY <3>1, <1>1, <1>2 DEF CountInv, TypeOK, Expiry
      <3> QED
        BY <3>1, <3>2
    <2>2. CASE ~Alive(k)
      <3>1. n = 1 /\ w = serial[k] + 1 /\ (count[k] = 0 \/ now > deadline[k])
        BY <2>2, <1>3 DEF Alive
      <3>2. opened'[k] = now /\ deadline'[k] = now + Window[k.policy]
        BY <3>1, <1>1, <1>2 DEF CountInv, TypeOK, Expiry
      <3> QED
        BY <3>1, <3>2
    <2> QED
      BY <2>1, <2>2
  <1>6. /\ count'[k] = n /\ serial'[k] = w
        /\ reply'[r] = [window |-> w, rank |-> n, at |-> now]
        /\ charged'[r] = charged[r] \cup {w}
        /\ pc'[r] = "reply"
        /\ \A j \in Key \ {k} :
              /\ count'[j] = count[j] /\ deadline'[j] = deadline[j]
              /\ serial'[j] = serial[j] /\ opened'[j] = opened[j]
        /\ \A q \in Req \ {r} : /\ reply'[q] = reply[q] /\ pc'[q] = pc[q]
                                /\ charged'[q] = charged[q]
    BY <1>1, <1>2 DEF CountInv, TypeOK, Goto
  <1>7. Counts(r, k, n, w)
    BY <1>1, <1>2, <1>4, <1>5, <1>6 DEF Counts
  <1> QED
    BY <1>2, <1>4, <1>7

\* The keys, counts and types that the proofs below keep using.
LEMMA CountFacts ==
    ASSUME CountInv
    PROVE  /\ now \in Nat /\ restarts \in Nat
           /\ \A k \in Key : /\ count[k] \in Nat /\ serial[k] \in Nat
                             /\ opened[k] \in Nat /\ deadline[k] \in Nat
                             /\ Window[k.policy] \in Nat /\ Window[k.policy] > 0
           /\ \A r \in Req : /\ reply[r].window \in Nat /\ reply[r].rank \in Nat
                             /\ reply[r].at \in Nat
                             /\ reply[r] # NoRun => KeyFor(r) \in Key
                             /\ pc[r] # "idle" => KeyFor(r) \in Key
                             /\ pc[r] = "idle" => reply[r] = NoRun
  <1>1. /\ now \in Nat /\ restarts \in Nat
        /\ \A k \in Key : /\ count[k] \in Nat /\ serial[k] \in Nat
                          /\ opened[k] \in Nat /\ deadline[k] \in Nat
                          /\ Window[k.policy] \in Nat /\ Window[k.policy] > 0
    <2>1. \A k \in Key : Window[k.policy] \in Nat \ {0}
      BY LimitAssumption DEF Key
    <2>2. \A k \in Key : /\ count[k] \in Nat /\ serial[k] \in Nat
                         /\ opened[k] \in Nat /\ deadline[k] \in Nat
      BY DEF CountInv, TypeOK
    <2> QED
      BY <2>1, <2>2, LimitAssumption DEF CountInv, TypeOK
  <1>2. \A r \in Req : /\ reply[r].window \in Nat /\ reply[r].rank \in Nat
                       /\ reply[r].at \in Nat
    BY DEF CountInv, TypeOK, Run
  <1>3. \A r \in Req : /\ reply[r] # NoRun => KeyFor(r) \in Key
                       /\ pc[r] # "idle" => KeyFor(r) \in Key
                       /\ pc[r] = "idle" => reply[r] = NoRun
    BY KeyType DEF CountInv, FlowInv, FlowOK, KeyFor
  <1> QED
    BY <1>1, <1>2, <1>3

\* The steps that leave Redis alone: a request keeps its count or drops it,
\* and its input changes only while it has none.
LEMMA QuietStep ==
    ASSUME CountInv, NEW r \in Req,
           Arrive(r) \/ Decide(r) \/ Retry(r) \/ GiveUp(r)
    PROVE  /\ UNCHANGED redis
           /\ charged' = charged
           /\ \A q \in Req : \/ reply'[q] = NoRun
                             \/ reply'[q] = reply[q] /\ input'[q] = input[q]
           /\ \A q \in Req : pc[q] # "idle" => input'[q] = input[q] /\ pc'[q] # "idle"
  <1>1. CASE Arrive(r)
    <2>1. reply[r] = NoRun
      BY <1>1, CountFacts DEF Arrive
    <2> QED
      BY <1>1, <2>1 DEF CountInv, TypeOK, Arrive, Goto
  <1>2. CASE Decide(r)
    BY <1>2 DEF CountInv, TypeOK, Decide, Answer, Goto
  <1>3. CASE Retry(r)
    BY <1>3 DEF CountInv, TypeOK, Retry, Goto
  <1>4. CASE GiveUp(r)
    BY <1>4 DEF CountInv, TypeOK, GiveUp, Answer, Goto
  <1> QED
    BY <1>1, <1>2, <1>3, <1>4

-----------------------------------------------------------------------------
(* Windows end, and bursts are bounded.                                      *)

LEMMA WindowInit == Init => WindowInv
  <1> SUFFICES ASSUME Init PROVE WindowInv
    OBVIOUS
  <1>1. TimeInv /\ SpanInv /\ ApartInv
    BY DEF Init, TimeInv, TimeOK, SpanInv, SpanOK, ApartInv, Apart
  <1> QED
    BY <1>1, CountInit DEF WindowInv

\* Without a script the counts that are left keep their distance.
LEMMA WindowQuiet ==
    ASSUME WindowInv, NEW r \in Req,
           Arrive(r) \/ Decide(r) \/ Retry(r) \/ GiveUp(r)
    PROVE  TimeInv' /\ SpanInv' /\ ApartInv'
  <1>1. /\ UNCHANGED <<now, count, deadline, restarts, serial, opened>>
        /\ \A q \in Req : \/ reply'[q] = NoRun
                          \/ reply'[q] = reply[q] /\ KeyFor(q)' = KeyFor(q)
    BY QuietStep DEF WindowInv, redis, KeyFor
  <1>2. TimeInv'
    BY <1>1 DEF WindowInv, TimeInv, TimeOK
  <1>3. SpanInv'
    BY <1>1 DEF WindowInv, SpanInv, SpanOK, Lost, Slack
  <1>4. ApartInv'
    BY <1>1 DEF WindowInv, ApartInv, Apart, Slack
  <1> QED
    BY <1>2, <1>3, <1>4

\* A new window begins after the last one has expired, or after a restart;
\* the count that a request is given is now's.
LEMMA WindowRunScript ==
    ASSUME WindowInv, NEW r \in Req, RunScript(r)
    PROVE  TimeInv' /\ SpanInv' /\ ApartInv'
  <1>0. PICK k \in Key, n \in Nat, w \in Nat : Counts(r, k, n, w)
    BY RunScriptEffect DEF WindowInv
  <1>1. /\ KeyFor(r) = k /\ n > 0
        /\ \/ /\ count[k] > 0 /\ n = count[k] + 1 /\ w = serial[k]
              /\ opened'[k] = opened[k] /\ deadline'[k] = deadline[k]
           \/ /\ count[k] = 0 \/ now > deadline[k]
              /\ n = 1 /\ w = serial[k] + 1
              /\ opened'[k] = now /\ deadline'[k] = now + Window[k.policy]
        /\ count'[k] = n /\ serial'[k] = w
        /\ reply'[r] = [window |-> w, rank |-> n, at |-> now]
        /\ \A j \in Key \ {k} :
              /\ count'[j] = count[j] /\ deadline'[j] = deadline[j]
              /\ serial'[j] = serial[j] /\ opened'[j] = opened[j]
        /\ \A q \in Req \ {r} : reply'[q] = reply[q]
        /\ UNCHANGED <<now, restarts, input>>
    BY <1>0 DEF Counts
  <1>2. CountInv /\ TimeInv /\ SpanInv /\ ApartInv
    BY DEF WindowInv
  <1>3. /\ now \in Nat /\ restarts \in Nat
        /\ count[k] \in Nat /\ serial[k] \in Nat /\ opened[k] \in Nat
        /\ Window[k.policy] \in Nat /\ opened[k] <= now
        /\ count[k] > 0 => deadline[k] = opened[k] + Window[k.policy]
    BY <1>2, CountFacts DEF TimeInv, TimeOK
  <1>4. \A q \in Req : KeyFor(q)' = KeyFor(q)
    BY <1>1 DEF KeyFor
  <1>5. TimeInv'
    <2> SUFFICES ASSUME NEW j \in Key PROVE TimeOK(j)'
      BY DEF TimeInv
    <2>1. CASE j = k
      BY <2>1, <1>1, <1>3 DEF TimeOK
    <2>2. CASE j # k
      BY <2>2, <1>1, <1>2 DEF TimeInv, TimeOK
    <2> QED
      BY <2>1, <2>2
  <1>6. /\ opened'[k] <= now /\ Lost(k)' = 0
        /\ n = 1 => opened'[k] = now
        /\ \A q \in Req : Slack(q) \in 0 .. 1 /\ Slack(q)' \in 0 .. 1
        /\ \A q \in Req \ {r} : Slack(q)' = Slack(q)
    BY <1>1, <1>3 DEF Lost, Slack
  \* The counts that others hold of the same key.
  <1>7. ASSUME NEW q \in Req \ {r}, reply[q] # NoRun, KeyFor(q) = k
        PROVE  /\ reply[q].window \in Nat /\ reply[q].at \in Nat
               /\ reply[q].window <= w /\ reply[q].at <= now
               /\ reply[q].window < w \/ reply[q].rank = 1
                     => reply[q].at <= opened'[k]
               /\ \/ w - reply[q].window <= Slack(q) + restarts
                  \/ opened'[k] > reply[q].at + Window[k.policy]
    <2>1. /\ reply[q].window \in Nat /\ reply[q].at \in Nat
          /\ reply[q].window <= serial[k]
      BY <1>2, <1>7, CountFacts DEF CountInv, RankInv, RankOK
    <2>2. /\ reply[q].at <= now
          /\ reply[q].window < serial[k] \/ reply[q].rank = 1
                => reply[q].at <= opened[k]
          /\ \/ serial[k] - reply[q].window + Lost(k) <= Slack(q) + restarts
             \/ opened[k] > reply[q].at + Window[k.policy]
          /\ Slack(q) \in 0 .. 1 /\ (reply[q].rank # 1 => Slack(q) = 1)
      BY <1>2, <1>6, <1>7 DEF SpanInv, SpanOK, Slack
    <2>3. CASE w = serial[k] /\ opened'[k] = opened[k] /\ count[k] > 0
      BY <2>1, <2>2, <2>3, <1>3 DEF Lost
    <2>4. CASE w = serial[k] + 1 /\ opened'[k] = now /\ count[k] = 0
      BY <2>1, <2>2, <2>4, <1>3 DEF Lost
    <2>5. CASE w = serial[k] + 1 /\ opened'[k] = now /\ count[k] > 0 /\ now > deadline[k]
      <3>1. now > opened[k] + Window[k.policy]
        BY <2>5, <1>3
      <3> QED
        BY <2>1, <2>2, <2>5, <3>1, <1>3
    <2> QED
      BY <1>1, <1>3, <2>3, <2>4, <2>5
  <1>8. SpanInv'
    <2> SUFFICES ASSUME NEW q \in Req, reply'[q] # NoRun PROVE SpanOK(q)'
      BY DEF SpanInv, SpanOK
    <2>1. CASE q = r
      BY <2>1, <1>1, <1>3, <1>4, <1>6 DEF SpanOK
    <2>2. CASE q # r /\ KeyFor(q) = k
      BY <2>2, <1>1, <1>3, <1>4, <1>6, <1>7 DEF SpanOK
    <2>3. CASE q # r /\ KeyFor(q) # k
      <3>1. SpanOK(q) /\ reply[q] # NoRun /\ KeyFor(q) \in Key \ {k}
        BY <2>3, <1>1, <1>2, CountFacts DEF SpanInv
      <3> QED
        BY <2>3, <3>1, <1>1, <1>4 DEF SpanOK, Lost, Slack
    <2> QED
      BY <2>1, <2>2, <2>3
  <1>9. ApartInv'
    <2> SUFFICES ASSUME NEW p \in Req, NEW q \in Req,
                        reply'[p] # NoRun, reply'[q] # NoRun,
                        KeyFor(p)' = KeyFor(q)',
                        reply'[q].window - reply'[p].window > Slack(p)' + restarts
                 PROVE  reply'[q].at > reply'[p].at + Window[KeyFor(p).policy]
      BY <1>1, <1>4 DEF ApartInv, Apart
    <2>1. CASE p # r /\ q # r
      BY <2>1, <1>1, <1>2, <1>4, <1>6 DEF ApartInv, Apart
    <2>2. CASE p # r /\ q = r
      <3>1. reply[p] # NoRun /\ KeyFor(p) = k /\ w - reply[p].window > Slack(p) + restarts
        BY <2>2, <1>1, <1>4, <1>6
      <3>2. opened'[k] > reply[p].at + Window[k.policy] /\ reply[p].at \in Nat
        BY <2>2, <3>1, <1>3, <1>6, <1>7
      <3> QED
        BY <2>2, <3>1, <3>2, <1>1, <1>3, <1>6, <1>5 DEF TimeInv, TimeOK
    <2>3. CASE p = r
      <3>1. reply'[q].window <= w /\ reply'[q].window \in Nat
        BY <2>3, <1>1, <1>4, <1>7
      <3> QED
        BY <2>3, <3>1, <1>1, <1>3, <1>6
    <2> QED
      BY <2>1, <2>2, <2>3
  <1> QED
    BY <1>5, <1>8, <1>9

\* The clock only moves on, and a restart is counted.
LEMMA WindowClock ==
    ASSUME WindowInv, Tick \/ Restart
    PROVE  TimeInv' /\ SpanInv' /\ ApartInv'
  <1>1. CountInv /\ TimeInv /\ SpanInv /\ ApartInv
    BY DEF WindowInv
  <1>2. /\ UNCHANGED <<deadline, input, reply, serial, opened>>
        /\ now' \in Nat /\ now' >= now
        /\ \/ restarts' = restarts /\ count' = count
           \/ restarts' = restarts + 1 /\ \A k \in Key : count'[k] = 0
    BY <1>1, CountFacts DEF Tick, Restart
  <1>3. /\ \A q \in Req : KeyFor(q)' = KeyFor(q)
        /\ restarts' \in Nat /\ restarts' >= restarts
        /\ \A q \in Req : Slack(q)' = Slack(q) /\ Slack(q) \in 0 .. 1
    BY <1>1, <1>2, CountFacts DEF KeyFor, Slack
  <1>4. TimeInv'
    BY <1>1, <1>2, CountFacts DEF TimeInv, TimeOK
  <1>5. SpanInv'
    <2> SUFFICES ASSUME NEW q \in Req, reply[q] # NoRun PROVE SpanOK(q)'
      BY <1>2 DEF SpanInv, SpanOK
    <2>1. PICK k \in Key : k = KeyFor(q)
      BY <1>1, CountFacts
    <2>2. SpanOK(q) /\ KeyFor(q)' = k
      BY <2>1, <1>1, <1>3 DEF SpanInv
    <2>3. Lost(k)' <= Lost(k) + (restarts' - restarts)
      BY <1>1, <1>2, CountFacts DEF Lost
    <2>4. Lost(k) \in Nat /\ Lost(k)' \in Nat
      BY DEF Lost
    <2>5. /\ serial[k] \in Nat /\ reply[q].window \in Nat /\ reply[q].at \in Nat
          /\ now \in Nat /\ restarts \in Nat /\ opened[k] \in Nat
      BY <1>1, CountFacts
    <2>6. /\ reply[q].at <= now'
          /\ reply[q].window < serial[k] \/ reply[q].rank = 1
                => reply[q].at <= opened[k]
      BY <2>1, <2>2, <2>5, <1>2 DEF SpanOK
    <2>7. \/ serial[k] - reply[q].window + Lost(k)' <= Slack(q)' + restarts'
          \/ opened[k] > reply[q].at + Window[k.policy]
      BY <2>1, <2>2, <2>3, <2>4, <2>5, <1>3 DEF SpanOK
    <2> QED
      BY <2>2, <2>6, <2>7, <1>2 DEF SpanOK
  <1>6. ApartInv'
    BY <1>1, <1>2, <1>3, CountFacts DEF ApartInv, Apart
  <1> QED
    BY <1>4, <1>5, <1>6

LEMMA WindowStep == WindowInv /\ [Next]_vars => WindowInv'
  <1> SUFFICES ASSUME WindowInv, [Next]_vars
               PROVE  TimeInv' /\ SpanInv' /\ ApartInv'
    BY CountStep DEF WindowInv
  <1>1. ASSUME NEW r \in Req, Arrive(r) \/ Decide(r) \/ Retry(r) \/ GiveUp(r)
        PROVE  TimeInv' /\ SpanInv' /\ ApartInv'
    BY <1>1, WindowQuiet
  <1>2. ASSUME NEW r \in Req, RunScript(r) PROVE TimeInv' /\ SpanInv' /\ ApartInv'
    BY <1>2, WindowRunScript
  <1>3. CASE Tick \/ Restart
    BY <1>3, WindowClock
  <1>4. CASE UNCHANGED vars
    BY <1>4 DEF vars, WindowInv, TimeInv, TimeOK, SpanInv, SpanOK, Lost,
                Slack, ApartInv, Apart, KeyFor
  <1> QED
    BY <1>1, <1>2, <1>3, <1>4 DEF Next, Idle

\* The windows' invariant holds for any number of keys, requests and restarts.
LEMMA WindowInvariant == Spec => []WindowInv
  BY WindowInit, WindowStep, PTL DEF Spec

\* Every window ends: the counter of a key expires within Window of the request
\* that created it, however many requests, refused or not, follow (PEXPIRE only
\* for the first INCR in rateLimitScript).
THEOREM WindowsEndTheorem == Spec => []WindowsEnd
  <1>1. WindowInv => WindowsEnd
    BY DEF WindowInv, CountInv, CounterInv, TimeInv, TimeOK, WindowsEnd, Alive
  <1> QED
    BY <1>1, WindowInvariant, PTL

\* A set of natural numbers has a least element.
LEMMA LeastElement ==
    ASSUME NEW T, T \subseteq Nat, T # {}
    PROVE  \E x \in T : \A y \in T : x <= y
  <1>1. \E x \in T : \A y \in T : ~(<<y, x>> \in OpToRel(<, Nat))
    BY NatLessThanWellFounded, WFMin
  <1>2. PICK x \in T : \A y \in T : ~(<<y, x>> \in OpToRel(<, Nat))
    BY <1>1
  <1>3. ASSUME NEW y \in T PROVE x <= y
    <2>1. x \in Nat /\ y \in Nat
      OBVIOUS
    <2>2. ~(y < x)
      BY <2>1, <1>2 DEF OpToRel
    <2> QED
      BY <2>1, <2>2
  <1> QED
    BY <1>3

\* The requests that pass within the length of a window hold counts of at most
\* 2 + restarts windows, each with a count of its own up to the limit; and not
\* both the first count of the first of these windows and one of the last.
LEMMA BurstBound ==
    ASSUME WindowInv PROVE BurstIsBounded
  <1>0. CountInv /\ ApartInv
    BY DEF WindowInv
  <1> SUFFICES ASSUME NEW k \in Key, NEW t \in 0 .. MaxTime,
                      {r \in Req : /\ Counted(r)
                                   /\ KeyOf(input[r]) = k
                                   /\ reply[r].at \in t .. t + Window[k.policy]} # {}
               PROVE  Cardinality({r \in Req : /\ Counted(r)
                                               /\ KeyOf(input[r]) = k
                                               /\ reply[r].at \in t .. t + Window[k.policy]})
                      < (2 + restarts) * Limit[k.policy]
    BY DEF BurstIsBounded
  <1> DEFINE S == {r \in Req : /\ Counted(r)
                               /\ KeyOf(input[r]) = k
                               /\ reply[r].at \in t .. t + Window[k.policy]}
             L == Limit[k.policy]
             W == {reply[r].window : r \in S}
  <1>1. L \in Nat /\ restarts \in Nat /\ t \in Nat /\ Window[k.policy] \in Nat
    BY <1>0, CountFacts, LimitAssumption DEF Key
  <1>2. \A r \in S : /\ r \in Req /\ pc[r] = "passed" /\ reply[r] # NoRun
                     /\ KeyFor(r) = k /\ reply[r].at \in t .. t + Window[k.policy]
                     /\ reply[r].window \in Nat
    BY <1>0, CountFacts DEF Counted, KeyFor
  <1>3. ASSUME NEW r \in S PROVE reply[r].rank \in 1 .. L
    <2>1. input[r].path = k.policy
      BY <1>2 DEF KeyFor, KeyOf
    <2>2. reply[r].rank \in Nat /\ reply[r].rank > 0
      BY <1>0, <1>2 DEF CountInv, TypeOK, RankInv, RankOK, Run
    <2>3. reply[r].rank <= Limit[input[r].path]
      BY <1>0, <1>2, <2>2 DEF CountInv, FlowInv, FlowOK
    <2> QED
      BY <1>1, <2>1, <2>2, <2>3
  <1>4. W \subseteq Nat /\ W # {}
    BY <1>2
  <1> HIDE DEF W
  <1>5. PICK w \in W : \A v \in W : w <= v
    BY <1>4, LeastElement
  <1> USE DEF W
  <1>6. PICK p \in S : w = reply[p].window
    BY <1>5
  <1>7. w \in Nat /\ L > 0
    BY <1>1, <1>2, <1>3, <1>6
  <1> PICK m \in Nat : m = 1 + restarts
    BY <1>1
  <1>8. ASSUME NEW r \in S, NEW q \in S
        PROVE  reply[q].window - reply[r].window <= Slack(r) + restarts
    <2>1. ~(reply[q].at > reply[r].at + Window[k.policy])
      BY <1>1, <1>2
    <2> QED
      BY <1>0, <1>1, <1>2, <2>1 DEF ApartInv, Apart, Slack
  <1>9. ASSUME NEW r \in S PROVE reply[r].window - w \in 0 .. m
    <2>1. w <= reply[r].window /\ reply[r].window \in Nat
      BY <1>2, <1>5
    <2>2. reply[r].window - w <= Slack(p) + restarts /\ Slack(p) \in 0 .. 1
      BY <1>6, <1>8 DEF Slack
    <2> QED
      BY <1>1, <1>7, <2>1, <2>2
  <1> DEFINE B == (0 .. m) \X (1 .. L)
             f == [r \in S |-> <<reply[r].window - w, reply[r].rank>>]
  <1>10. \A r \in S : f[r] \in B
    BY <1>3, <1>9
  <1>11. PICK x \in B : \A r \in S : f[r] # x
    <2>1. <<0, 1>> \in B /\ <<m, 1>> \in B
      BY <1>1, <1>7
    <2>2. CASE \A r \in S : f[r] # <<0, 1>>
      BY <2>1, <2>2
    <2>3. CASE \E r \in S : f[r] = <<0, 1>>
      <3>1. PICK r \in S : reply[r].window - w = 0 /\ reply[r].rank = 1
        BY <2>3
      <3>2. reply[r].window = w /\ Slack(r) = 0
        BY <1>2, <1>7, <3>1 DEF Slack
      <3>3. ASSUME NEW q \in S PROVE reply[q].window - w # m
        <4>1. reply[q].window - w <= restarts
          BY <1>1, <1>8, <3>2
        <4> QED
          BY <1>1, <1>2, <1>7, <4>1
      <3> QED
        BY <2>1, <3>3
    <2> QED
      BY <2>2, <2>3
  <1>12. ASSUME NEW r \in S, NEW q \in S, f[r] = f[q] PROVE r = q
    <2>1. reply[r].window - w = reply[q].window - w /\ reply[r].rank = reply[q].rank
      BY <1>12
    <2>2. reply[r].window = reply[q].window
      BY <1>2, <1>7, <2>1
    <2> QED
      BY <1>0, <1>2, <2>1, <2>2 DEF CountInv, DistinctInv, RanksDiffer
  <1>13. f \in Injection(S, B \ {x})
    BY <1>10, <1>11, <1>12 DEF Injection, IsInjective
  <1>14. /\ IsFiniteSet(0 .. m) /\ IsFiniteSet(1 .. L)
         /\ Cardinality(0 .. m) = 2 + restarts
         /\ Cardinality(1 .. L) = L
    <2>1. 0 \in Int /\ 1 \in Int /\ m \in Int /\ L \in Int
      BY <1>1
    <2> HIDE DEF L
    <2>2. /\ IsFiniteSet(0 .. m)
          /\ Cardinality(0 .. m)
                = IF 0 > m THEN 0 ELSE m - 0 + 1
      BY <2>1, FS_Interval
    <2>3. /\ IsFiniteSet(1 .. L)
          /\ Cardinality(1 .. L) = IF 1 > L THEN 0 ELSE L - 1 + 1
      BY <2>1, FS_Interval
    <2>4. L \in Nat
      BY <1>1 DEF L
    <2> QED
      BY <1>1, <2>2, <2>3, <2>4
  <1>15. IsFiniteSet(B) /\ Cardinality(B) = (2 + restarts) * L
    <2> HIDE DEF L
    <2>1. /\ IsFiniteSet((0 .. m) \X (1 .. L))
          /\ Cardinality((0 .. m) \X (1 .. L)) = Cardinality(0 .. m) * Cardinality(1 .. L)
      BY <1>14, FS_Product
    <2> QED
      BY <1>14, <2>1
  <1> HIDE DEF B, f, S
  <1>16. IsFiniteSet(B \ {x}) /\ Cardinality(B \ {x}) = Cardinality(B) - 1
    BY <1>11, <1>15, FS_RemoveElement
  <1>17. Cardinality(S) <= Cardinality(B \ {x})
    BY <1>13, <1>16, FS_Injection
  <1>18. Cardinality(S) \in Nat /\ (2 + restarts) * L \in Nat
    <2>1. IsFiniteSet(S)
      BY <1>13, <1>16, FS_Injection
    <2> QED
      BY <1>1, <2>1, FS_CardinalityType
  <1> QED
    BY <1>15, <1>16, <1>17, <1>18 DEF S

\* Where windows meet, a stretch as long as a window sees less than twice the
\* limit pass, and less than once more for each restart of Redis (the fixed
\* windows of rateLimitScript).
THEOREM BurstTheorem == Spec => []BurstIsBounded
  BY WindowInvariant, BurstBound, PTL

-----------------------------------------------------------------------------
(* Nobody is refused for what others did.                                    *)

\* Finitely many requests make finitely many attempts.
LEMMA FiniteAttempts ==
    ASSUME NEW C, IsFiniteSet(C), NEW E, E \subseteq C \X (0 .. MaxRetries)
    PROVE  IsFiniteSet(E) /\ Cardinality(E) \in Nat
  <1>1. IsFiniteSet(0 .. MaxRetries)
    <2>1. 0 \in Int /\ MaxRetries \in Int
      BY LimitAssumption
    <2> QED
      BY <2>1, FS_Interval
  <1>2. IsFiniteSet(C \X (0 .. MaxRetries))
    BY <1>1, FS_Product
  <1>3. IsFiniteSet(E)
    BY <1>2, FS_Subset
  <1> QED
    BY <1>3, FS_CardinalityType

\* What a window has counted it never forgets.
LEMMA ExecutionsKept ==
    ASSUME IsFiniteSet(Charged'),
           \A q \in Req : charged[q] # {} =>
               /\ charged[q] \subseteq charged'[q]
               /\ KeyFor(q)' = KeyFor(q)
               /\ \A j \in 0 .. MaxRetries : j \in Attempts(q) => j \in Attempts(q)',
           NEW k, NEW w
    PROVE  /\ Executions(k, w) \subseteq Executions(k, w)'
           /\ Cardinality(Executions(k, w)) <= Cardinality(Executions(k, w)')
  <1>1. Executions(k, w) \subseteq Executions(k, w)'
    BY DEF Executions
  <1>2. IsFiniteSet(Executions(k, w)')
    <2>1. Executions(k, w)' \subseteq Charged' \X (0 .. MaxRetries)
      BY DEF Executions, Charged
    <2> QED
      BY <2>1, FiniteAttempts
  <1> QED
    BY <1>1, <1>2, FS_Subset

\* Attempts are only added to, and the input of a request that was counted
\* stays what it was.
LEMMA AttemptsKept ==
    ASSUME ChargeInv, [Next]_vars, NEW q \in Req, charged[q] # {}
    PROVE  /\ charged[q] \subseteq charged'[q]
           /\ KeyFor(q)' = KeyFor(q)
           /\ \A j \in 0 .. MaxRetries : j \in Attempts(q) => j \in Attempts(q)'
  <1>1. /\ TypeOK /\ CountInv /\ pc[q] # "idle"
        /\ tries[q] \in Nat /\ tries[q] <= MaxRetries /\ MaxRetries \in Nat
    BY LimitAssumption DEF ChargeInv, UsedInv, CountInv, TypeOK
  <1>2. ASSUME NEW r \in Req, Arrive(r) \/ Decide(r) \/ Retry(r) \/ GiveUp(r)
        PROVE  /\ charged'[q] = charged[q] /\ input'[q] = input[q]
               /\ \A j \in 0 .. MaxRetries : j \in Attempts(q) => j \in Attempts(q)'
    <2>1. charged'[q] = charged[q] /\ input'[q] = input[q]
      BY <1>1, <1>2, QuietStep
    <2>2. CASE q # r
      <3>1. pc'[q] = pc[q] /\ tries'[q] = tries[q]
        BY <1>1, <1>2, <2>2 DEF TypeOK, Arrive, Decide, Retry, GiveUp, Answer, Goto
      <3> QED
        BY <2>1, <3>1 DEF Attempts
    <2>3. CASE q = r /\ Retry(r)
      <3>1. pc'[q] = "send" /\ tries'[q] = tries[q] + 1 /\ pc[q] \in {"send", "reply"}
        BY <1>1, <2>3 DEF TypeOK, Retry, Goto, Steps
      <3> QED
        BY <1>1, <2>1, <3>1 DEF Attempts
    <2>4. CASE q = r /\ (Decide(r) \/ GiveUp(r))
      <3>1. pc'[q] \notin {"send", "reply"}
        BY <1>1, <2>4 DEF TypeOK, Decide, GiveUp, Answer, Goto
      <3> QED
        BY <1>1, <2>1, <3>1 DEF Attempts
    <2>5. ~(q = r /\ Arrive(r))
      BY <1>1 DEF Arrive
    <2> QED
      BY <1>2, <2>2, <2>3, <2>4, <2>5
  <1>3. ASSUME NEW r \in Req, RunScript(r)
        PROVE  /\ charged[q] \subseteq charged'[q] /\ input'[q] = input[q]
               /\ \A j \in 0 .. MaxRetries : j \in Attempts(q) => j \in Attempts(q)'
    <2>1. PICK k \in Key, n \in Nat, w \in Nat : Counts(r, k, n, w)
      BY <1>1, <1>3, RunScriptEffect
    <2>2. /\ charged[q] \subseteq charged'[q] /\ input'[q] = input[q]
          /\ tries'[q] = tries[q]
          /\ pc'[q] = pc[q] \/ (pc[q] = "send" /\ pc'[q] = "reply")
      BY <2>1 DEF Counts
    <2> QED
      BY <1>1, <2>2 DEF Attempts
  <1>4. CASE Tick \/ Restart \/ UNCHANGED vars
    BY <1>4 DEF Tick, Restart, vars, Attempts, KeyFor
  <1> QED
    BY <1>2, <1>3, <1>4 DEF Next, Idle, KeyFor

\* At most the request whose script runs is added to those that were counted.
LEMMA ChargedFinite ==
    ASSUME ChargeInv, [Next]_vars
    PROVE  IsFiniteSet(Charged')
  <1>1. CountInv /\ IsFiniteSet(Charged)
    BY DEF ChargeInv, UsedInv
  <1>2. CASE charged' = charged
    BY <1>1, <1>2 DEF Charged
  <1>3. ASSUME NEW r \in Req, RunScript(r) PROVE IsFiniteSet(Charged')
    <2>1. PICK k \in Key, n \in Nat, w \in Nat : Counts(r, k, n, w)
      BY <1>1, <1>3, RunScriptEffect
    <2>2. Charged' \subseteq Charged \cup {r}
      BY <2>1 DEF Counts, Charged
    <2>3. IsFiniteSet(Charged \cup {r})
      BY <1>1, FS_AddElement
    <2> QED
      BY <2>2, <2>3, FS_Subset
  <1>4. ASSUME NEW r \in Req, Arrive(r) \/ Decide(r) \/ Retry(r) \/ GiveUp(r)
        PROVE  charged' = charged
    BY <1>1, <1>4, QuietStep
  <1> QED
    BY <1>2, <1>3, <1>4 DEF Next, Idle, Tick, Restart, vars

LEMMA UsedInit == Init => ChargeInv
  <1> SUFFICES ASSUME Init PROVE ChargeInv
    OBVIOUS
  <1>1. Charged = {}
    BY DEF Init, Charged
  <1>2. UsedInv
    BY <1>1, FS_EmptySet DEF Init, UsedInv
  <1> QED
    BY <1>2, CountInit DEF ChargeInv

\* The attempt that the script counts is one that its window had not counted.
LEMMA UsedRunScript ==
    ASSUME ChargeInv, [Next]_vars, NEW r \in Req, RunScript(r)
    PROVE  UsedInv'
  <1>1. CountInv /\ UsedInv /\ TypeOK /\ IsFiniteSet(Charged) /\ IsFiniteSet(Charged')
    BY ChargedFinite DEF ChargeInv, CountInv, UsedInv
  <1>2. PICK k \in Key, n \in Nat, w \in Nat : Counts(r, k, n, w)
    BY <1>1, RunScriptEffect
  <1>3. ASSUME NEW j, NEW v
        PROVE  /\ Executions(j, v) \subseteq Executions(j, v)'
               /\ Cardinality(Executions(j, v)) <= Cardinality(Executions(j, v)')
               /\ IsFiniteSet(Executions(j, v)) /\ IsFiniteSet(Executions(j, v)')
               /\ Cardinality(Executions(j, v)) \in Nat
               /\ Cardinality(Executions(j, v)') \in Nat
    <2>1. /\ Executions(j, v) \subseteq Charged \X (0 .. MaxRetries)
          /\ Executions(j, v)' \subseteq Charged' \X (0 .. MaxRetries)
      BY DEF Executions, Charged
    <2>2. /\ Executions(j, v) \subseteq Executions(j, v)'
          /\ Cardinality(Executions(j, v)) <= Cardinality(Executions(j, v)')
      BY <1>1, AttemptsKept, ExecutionsKept
    <2> QED
      BY <1>1, <2>1, <2>2, FiniteAttempts
  <1>4. n <= Cardinality(Executions(k, w)')
    <2> DEFINE e == <<r, tries[r]>>
               E == Executions(k, w)
    <2>1. /\ tries[r] \in 0 .. MaxRetries /\ tries[r] \in Nat
          /\ pc[r] = "send" /\ pc'[r] = "reply" /\ tries' = tries
          /\ w \in charged'[r] /\ KeyFor(r)' = k
      BY <1>1, <1>2, LimitAssumption DEF TypeOK, Counts, KeyFor
    <2>2. e \notin E
      BY <2>1 DEF Executions, Attempts
    <2>3. e \in Executions(k, w)'
      BY <2>1 DEF Executions, Attempts
    <2>4. E \cup {e} \subseteq Executions(k, w)'
      BY <1>3, <2>3
    <2>5. Cardinality(E \cup {e}) = Cardinality(E) + 1
      BY <1>3, <2>2, FS_AddElement
    <2>6. Cardinality(E \cup {e}) <= Cardinality(Executions(k, w)')
      BY <1>3, <2>4, FS_Subset
    <2>7. n <= Cardinality(E) + 1
      <3>1. Cardinality(E) \in Nat
        BY <1>3
      <3>2. CASE count[k] > 0 /\ n = count[k] + 1 /\ w = serial[k]
        BY <3>1, <3>2, <1>1, CountFacts DEF UsedInv
      <3>3. CASE n = 1
        BY <3>1, <3>3
      <3> QED
        BY <1>2, <3>2, <3>3 DEF Counts
    <2> QED
      BY <1>3, <2>5, <2>6, <2>7
  <1>5. \A q \in Req : KeyFor(q)' = KeyFor(q)
    BY <1>2 DEF Counts, KeyFor
  <1>6. \A q \in Req : pc'[q] = "idle" => charged'[q] = {}
    BY <1>1, <1>2 DEF UsedInv, Counts
  <1>7. ASSUME NEW j \in Key, count'[j] > 0
        PROVE  count'[j] <= Cardinality(Executions(j, serial[j])')
    <2>1. CASE j = k
      <3>1. count'[k] = n /\ serial'[k] = w
        BY <1>2 DEF Counts
      <3> QED
        BY <2>1, <3>1, <1>4
    <2>2. CASE j # k
      <3>1. count'[j] = count[j] /\ serial'[j] = serial[j] /\ serial[j] \in Nat
        BY <2>2, <1>1, <1>2, CountFacts DEF Counts
      <3>2. count[j] <= Cardinality(Executions(j, serial[j]))
        BY <1>7, <1>1, <3>1 DEF UsedInv
      <3> QED
        BY <3>1, <3>2, <1>1, <1>3, CountFacts
    <2> QED
      BY <2>1, <2>2
  <1>8. ASSUME NEW q \in Req, reply'[q] # NoRun
        PROVE  reply'[q].rank <= Cardinality(Executions(KeyFor(q), reply[q].window)')
    <2>1. CASE q = r
      <3>1. reply'[r].rank = n /\ reply'[r].window = w /\ KeyFor(r)' = k
        BY <1>2, <1>5 DEF Counts
      <3> QED
        BY <2>1, <3>1, <1>4
    <2>2. CASE q # r
      <3>1. reply'[q] = reply[q] /\ KeyFor(q)' = KeyFor(q) /\ reply[q].rank \in Nat
        BY <2>2, <1>1, <1>2, <1>5, CountFacts DEF Counts
      <3>2. reply[q].rank <= Cardinality(Executions(KeyFor(q), reply[q].window))
        BY <1>8, <1>1, <3>1 DEF UsedInv
      <3> QED
        BY <3>1, <3>2, <1>3
    <2> QED
      BY <2>1, <2>2
  <1>9. ASSUME NEW q \in Req, pc'[q] = "limited"
        PROVE  reply'[q] # NoRun /\ reply'[q].rank > Limit[input'[q].path]
    BY <1>9, <1>1, <1>2 DEF UsedInv, Counts
  <1> QED
    BY <1>1, <1>6, <1>7, <1>8, <1>9 DEF UsedInv

\* Every other step counts nothing; a request is limited only by its rank.
LEMMA UsedQuiet ==
    ASSUME ChargeInv, [Next]_vars,
           \/ \E r \in Req : Arrive(r) \/ Decide(r) \/ Retry(r) \/ GiveUp(r)
           \/ Tick \/ Restart \/ UNCHANGED vars
    PROVE  UsedInv'
  <1>1. CountInv /\ UsedInv /\ TypeOK /\ IsFiniteSet(Charged) /\ IsFiniteSet(Charged')
    BY ChargedFinite DEF ChargeInv, CountInv, UsedInv
  <1>2. ASSUME NEW j, NEW v
        PROVE  /\ Cardinality(Executions(j, v)) <= Cardinality(Executions(j, v)')
               /\ Cardinality(Executions(j, v)) \in Nat
               /\ Cardinality(Executions(j, v)') \in Nat
    <2>1. /\ Executions(j, v) \subseteq Charged \X (0 .. MaxRetries)
          /\ Executions(j, v)' \subseteq Charged' \X (0 .. MaxRetries)
      BY DEF Executions, Charged
    <2>2. Cardinality(Executions(j, v)) <= Cardinality(Executions(j, v)')
      BY <1>1, AttemptsKept, ExecutionsKept
    <2> QED
      BY <1>1, <2>1, <2>2, FiniteAttempts
  <1>3. /\ serial' = serial /\ charged' = charged
        /\ \A j \in Key : count'[j] = count[j] \/ count'[j] = 0
        /\ \A q \in Req : \/ reply'[q] = NoRun
                          \/ reply'[q] = reply[q] /\ input'[q] = input[q]
        /\ \A q \in Req : pc'[q] = "idle" => pc[q] = "idle"
    <2>1. ASSUME NEW r \in Req, Arrive(r) \/ Decide(r) \/ Retry(r) \/ GiveUp(r)
          PROVE  /\ UNCHANGED redis
                 /\ charged' = charged
                 /\ \A q \in Req : \/ reply'[q] = NoRun
                                   \/ reply'[q] = reply[q] /\ input'[q] = input[q]
                 /\ \A q \in Req : pc[q] # "idle" => input'[q] = input[q] /\ pc'[q] # "idle"
      BY <1>1, <2>1, QuietStep
    <2>2. CASE Tick \/ Restart \/ UNCHANGED vars
      BY <2>2 DEF Tick, Restart, vars
    <2> QED
      BY <2>1, <2>2 DEF redis
  <1>4. ASSUME NEW j \in Key, count'[j] > 0
        PROVE  count'[j] <= Cardinality(Executions(j, serial[j])')
    <2>1. count'[j] = count[j] /\ serial'[j] = serial[j] /\ count[j] \in Nat
      BY <1>3, <1>4, <1>1, CountFacts
    <2>2. count[j] <= Cardinality(Executions(j, serial[j]))
      BY <1>4, <1>1, <2>1 DEF UsedInv
    <2> QED
      BY <2>1, <2>2, <1>2
  <1>5. ASSUME NEW q \in Req, reply'[q] # NoRun
        PROVE  reply'[q].rank <= Cardinality(Executions(KeyFor(q), reply[q].window)')
    <2>1. reply'[q] = reply[q] /\ KeyFor(q)' = KeyFor(q) /\ reply[q].rank \in Nat
      BY <1>3, <1>5, <1>1, CountFacts DEF KeyFor
    <2>2. reply[q].rank <= Cardinality(Executions(KeyFor(q), reply[q].window))
      BY <1>5, <1>1, <2>1 DEF UsedInv
    <2> QED
      BY <2>1, <2>2, <1>2
  <1>6. ASSUME NEW q \in Req, pc'[q] = "limited"
        PROVE  reply'[q] # NoRun /\ reply'[q].rank > Limit[input'[q].path]
    <2>1. ASSUME NEW r \in Req, Decide(r), q = r
          PROVE  reply[q] # NoRun /\ reply[q].rank > Limit[input[q].path]
      BY <2>1, <1>6, <1>1 DEF CountInv, FlowInv, FlowOK, TypeOK, Decide, Answer, Goto
    <2>2. ASSUME pc[q] = "limited"
          PROVE  reply[q] # NoRun /\ reply[q].rank > Limit[input[q].path]
      BY <2>2, <1>1 DEF UsedInv
    <2>3. CASE pc[q] # "limited"
      <3>1. PICK r \in Req : Decide(r) /\ q = r
        BY <2>3, <1>6, <1>1 DEF TypeOK, Arrive, Decide, Retry, GiveUp, Answer, Goto,
                                Tick, Restart, vars
      <3> QED
        BY <2>1, <3>1 DEF Decide
    <2>4. CASE pc[q] = "limited"
      <3>1. reply'[q] = reply[q] /\ input'[q] = input[q]
        BY <2>4, <1>1 DEF TypeOK, Arrive, Decide, Retry, GiveUp, Answer, Goto,
                          Tick, Restart, vars, Steps
      <3> QED
        BY <2>2, <2>4, <3>1
    <2> QED
      BY <2>3, <2>4
  <1>7. \A q \in Req : pc'[q] = "idle" => charged'[q] = {}
    BY <1>1, <1>3 DEF UsedInv
  <1> QED
    BY <1>1, <1>4, <1>5, <1>6, <1>7 DEF UsedInv

LEMMA UsedStep == ChargeInv /\ [Next]_vars => ChargeInv'
  <1> SUFFICES ASSUME ChargeInv, [Next]_vars PROVE UsedInv'
    BY CountStep DEF ChargeInv
  <1> QED
    BY UsedRunScript, UsedQuiet DEF Next, Idle

\* The attempts that a window counted are those of the requests it charged,
\* and each of them makes at most MaxRetries + 1.
LEMMA UsedBound ==
    ASSUME ChargeInv PROVE RefusedOnlyWhenUsedUp
  <1>1. CountInv /\ UsedInv /\ IsFiniteSet(Charged)
    BY DEF ChargeInv, UsedInv
  <1> SUFFICES ASSUME NEW r \in Req, pc[r] = "limited"
               PROVE  Cardinality({q \in Req : /\ reply[r].window \in charged[q]
                                               /\ KeyOf(input[q]) = KeyOf(input[r])
                                               /\ ClientIP(input[q]) = ClientIP(input[r])})
                      * (MaxRetries + 1) > Limit[input[r].path]
    BY DEF RefusedOnlyWhenUsedUp
  <1> DEFINE own == {q \in Req : /\ reply[r].window \in charged[q]
                                 /\ KeyOf(input[q]) = KeyOf(input[r])
                                 /\ ClientIP(input[q]) = ClientIP(input[r])}
             E == Executions(KeyFor(r), reply[r].window)
  <1>2. reply[r].rank > Limit[input[r].path] /\ reply[r].rank <= Cardinality(E)
    BY <1>1 DEF UsedInv
  <1>3. E \subseteq own \X (0 .. MaxRetries)
    BY DEF Executions, KeyFor, KeyOf
  <1>4. IsFiniteSet(own)
    <2>1. own \subseteq Charged
      BY DEF Charged
    <2> QED
      BY <1>1, <2>1, FS_Subset
  <1>5. IsFiniteSet(0 .. MaxRetries) /\ Cardinality(0 .. MaxRetries) = MaxRetries + 1
    <2>1. MaxRetries \in Nat /\ 0 \in Int /\ MaxRetries \in Int
      BY LimitAssumption
    <2>2. /\ IsFiniteSet(0 .. MaxRetries)
          /\ Cardinality(0 .. MaxRetries)
                = IF 0 > MaxRetries THEN 0 ELSE MaxRetries - 0 + 1
      BY <2>1, FS_Interval
    <2> QED
      BY <2>1, <2>2
  <1> HIDE DEF own, E
  <1>6. /\ IsFiniteSet(own \X (0 .. MaxRetries))
        /\ Cardinality(own \X (0 .. MaxRetries)) = Cardinality(own) * (MaxRetries + 1)
    BY <1>4, <1>5, FS_Product
  <1>7. Cardinality(E) <= Cardinality(own \X (0 .. MaxRetries))
    BY <1>3, <1>6, FS_Subset
  <1>8. /\ reply[r].rank \in Nat /\ Limit[input[r].path] \in Nat
        /\ Cardinality(E) \in Nat /\ Cardinality(own) * (MaxRetries + 1) \in Nat
    <2>1. input[r] \in Request /\ reply[r].rank \in Nat
      BY <1>1, CountFacts DEF CountInv, FlowInv, FlowOK
    <2>2. Limit[input[r].path] \in Nat
      BY <2>1, LimitAssumption DEF Request
    <2>3. Cardinality(E) \in Nat
      BY <1>3, <1>4, FiniteAttempts
    <2>4. Cardinality(own \X (0 .. MaxRetries)) \in Nat
      BY <1>6, FS_CardinalityType
    <2> QED
      BY <1>6, <2>1, <2>2, <2>3, <2>4
  <1>9. Cardinality(own) * (MaxRetries + 1) > Limit[input[r].path]
    BY <1>2, <1>6, <1>7, <1>8
  <1> QED
    BY <1>9 DEF own

\* A request is refused only when its own client used the window up: the
\* requests of its address that the window counted, with the retries of the
\* Redis client, outnumber the limit (rateLimitKey and rateLimitScript).
THEOREM UsedUpTheorem == Spec => []RefusedOnlyWhenUsedUp
  <1>1. Spec => []ChargeInv
    BY UsedInit, UsedStep, PTL DEF Spec
  <1> QED
    BY <1>1, UsedBound, PTL
=============================================================================
