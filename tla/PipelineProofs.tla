--------------------------- MODULE PipelineProofs --------------------------
(* What the router's middleware stack guarantees for every request, verdict, *)
(* configuration and panic, and for any set of organisations.                *)
EXTENDS Pipeline, TLAPS

\* The status that the client sees: net/http sends 200 if nobody sent one.
Status == IF sent = None THEN 200 ELSE sent

\* The layers that can answer instead of passing the request on.
Gates == {"Auth", "RequireOrgAccess", "RequireRole", "metricsBearerAuth"}

\* The stack is the one that the router builds for the request, and the layer
\* that runs is one of its own.
PlaceInv ==
    /\ TypeOK
    /\ stack = Layers(cfg, req)
    /\ mode \in {"down", "panic"} => at > 0
    /\ mode \in {"done", "aborted"} => at = 0

\* On the way down a layer knows what the layers around it have let through.
DownInv == mode = "down" =>
    /\ sent # None => stack[at] = "handler"
    /\ ran => stack[at] = "handler"
    /\ at > 4 => ~req.options
    /\ at > 5 => Exempt \/ asked
    /\ at > 6 => routed
    /\ Outside("Auth") => identity # None /\ identity = req.claims
    /\ Outside("RequireOrgAccess") => identity # None /\ req.org = identity.org
    /\ Outside("RequireRole") => identity # None /\ identity.role \in Allowed
    /\ Outside("metricsBearerAuth") => req.bearer
    /\ identity # None => identity = req.claims

\* The CORS headers are set before anybody else answers or panics, and go with
\* whatever is sent.
CorsInv ==
    /\ mode # "down" \/ at > 4 => cors = req.known
    /\ sent # None /\ req.known => sentCors
    /\ mode = "done" => sent # None

\* The wrapped writers have seen the status that was sent, unless a panic has
\* skipped the layers that read it; when Metrics itself panics, the status that
\* Logger has read was sent.
RecordInv ==
    /\ mode = "down" => counted = None /\ logged = None
    /\ mode = "panic" => counted = None
    /\ panicked # "no" => counted = None
    /\ panicked # "no" /\ logged # None => ~routed /\ ~req.utf8 /\ sent # None
    /\ mode = "up" /\ panicked = "no" /\ sent = None => routed
    /\ panicked = "no" => \A l \in Wrappers : recorder[l] = Status
    /\ mode = "up" /\ panicked = "no" => /\ counted = None <=> at >= 2
                                         /\ logged = None <=> at >= 3
    /\ mode = "done" /\ panicked = "no" => counted # None /\ logged # None
    /\ counted # None => counted.status = Status
    /\ logged # None => logged = Status

\* A panic is answered by Recover, the outermost layer.
PanicInv ==
    /\ mode = "down" => panicked = "no"
    /\ mode = "panic" => panicked # "no" /\ (panicked = "early" => sent = None)
    /\ mode \in {"up", "done"} /\ panicked = "early" => sent = 500
    /\ mode = "up" /\ panicked # "no" => at = 0
    /\ mode # "aborted"

\* What a handler that has run, or a limiter that has asked, leaves behind.
TraceInv ==
    /\ ran => routed
    /\ ran /\ counted # None => counted.path = "pattern"
    /\ asked => ~req.options
    /\ HandlersAreGuarded

PipelineInv ==
    PlaceInv /\ DownInv /\ CorsInv /\ RecordInv /\ PanicInv /\ TraceInv

-----------------------------------------------------------------------------
(* The stacks that the router builds.                                        *)

\* A stack whose middle part consists of gates: the global layers, the router,
\* the gates of the route and its handler.
LEMMA StackShape ==
    ASSUME NEW g \in {<<>>, <<"Auth">>, <<"RequireOrgAccess">>, <<"RequireRole">>,
                      <<"metricsBearerAuth">>,
                      <<"Auth", "RequireOrgAccess", "RequireRole">>},
           NEW s, s = Global \o <<"mux">> \o g \o <<"handler">>
    PROVE  /\ Len(s) = 7 + Len(g) /\ Len(s) \in 7 .. 10
           /\ s[1] = "Recover" /\ s[2] = "Metrics" /\ s[3] = "Logger"
           /\ s[4] = "CORS" /\ s[5] = "RateLimit" /\ s[6] = "mux"
           /\ s[Len(s)] = "handler"
           /\ \A i \in 7 .. Len(s) - 1 : s[i] = g[i - 6] /\ s[i] \in Gates
  <1> USE DEF Global, Gates
  <1>1. CASE g = <<>>
    BY <1>1
  <1>2. CASE g \in {<<"Auth">>, <<"RequireOrgAccess">>, <<"RequireRole">>,
                    <<"metricsBearerAuth">>}
    BY <1>2
  <1>3. CASE g = <<"Auth", "RequireOrgAccess", "RequireRole">>
    BY <1>3
  <1> QED
    BY <1>1, <1>2, <1>3

\* The stack of a request, and the gates that its route has.
LEMMA LayersShape ==
    ASSUME NEW c \in Config, NEW q \in Request, NEW s, s = Layers(c, q)
    PROVE  /\ Len(s) \in 6 .. 10
           /\ s[1] = "Recover" /\ s[2] = "Metrics" /\ s[3] = "Logger"
           /\ s[4] = "CORS" /\ s[5] = "RateLimit"
           /\ \/ Len(s) = 6 /\ s[6] = "notFound"
              \/ /\ Len(s) > 6 /\ s[6] = "mux" /\ s[Len(s)] = "handler"
                 /\ \A i \in 7 .. Len(s) - 1 : s[i] \in Gates
                 /\ q.route = "protected" => Len(s) = 8 /\ s[7] = "Auth"
                 /\ q.route = "org" => /\ Len(s) = 10 /\ s[7] = "Auth"
                                       /\ s[8] = "RequireOrgAccess"
                                       /\ s[9] = "RequireRole"
                 /\ q.route = "openOrg" => Len(s) = 8 /\ s[7] = "RequireOrgAccess"
                 /\ q.route = "openRole" => Len(s) = 8 /\ s[7] = "RequireRole"
                 /\ q.route = "metrics" /\ c.env = "production"
                       => c.token /\ Len(s) = 8 /\ s[7] = "metricsBearerAuth"
  <1>1. CASE q.route \in {"mounted", "unrouted"}
             \/ (q.route = "metrics" /\ Mount(c) = "absent")
    <2>1. s = Global \o <<"notFound">>
      BY <1>1 DEF Layers
    <2> QED
      BY <2>1 DEF Global
  <1>2. CASE ~(q.route \in {"mounted", "unrouted"}
               \/ (q.route = "metrics" /\ Mount(c) = "absent"))
    <2>1. PICK g : g = Inner(c, q)
      OBVIOUS
    <2>2. s = Global \o <<"mux">> \o g \o <<"handler">>
      BY <1>2, <2>1 DEF Layers
    <2>3. /\ q.route = "protected" => g = <<"Auth">>
          /\ q.route = "org" => g = <<"Auth", "RequireOrgAccess", "RequireRole">>
          /\ q.route = "openOrg" => g = <<"RequireOrgAccess">>
          /\ q.route = "openRole" => g = <<"RequireRole">>
          /\ q.route = "metrics" /\ c.env = "production"
                => c.token /\ g = <<"metricsBearerAuth">>
      BY <1>2, <2>1 DEF Inner, Mount
    <2>4. g \in {<<>>, <<"Auth">>, <<"RequireOrgAccess">>, <<"RequireRole">>,
                 <<"metricsBearerAuth">>,
                 <<"Auth", "RequireOrgAccess", "RequireRole">>}
      BY <1>2, <2>1 DEF Inner, Mount
    <2>5. /\ Len(s) = 7 + Len(g) /\ Len(s) \in 7 .. 10
          /\ s[1] = "Recover" /\ s[2] = "Metrics" /\ s[3] = "Logger"
          /\ s[4] = "CORS" /\ s[5] = "RateLimit" /\ s[6] = "mux"
          /\ s[Len(s)] = "handler"
          /\ \A i \in 7 .. Len(s) - 1 : s[i] = g[i - 6] /\ s[i] \in Gates
      BY <2>2, <2>4, StackShape
    <2>6. Len(g) = 1 => Len(s) = 8 /\ s[7] = g[1]
      BY <2>5
    <2>7. Len(g) = 3 => Len(s) = 10 /\ s[7] = g[1] /\ s[8] = g[2] /\ s[9] = g[3]
      BY <2>5
    <2>8. /\ q.route = "protected" => Len(g) = 1 /\ g[1] = "Auth"
          /\ q.route = "openOrg" => Len(g) = 1 /\ g[1] = "RequireOrgAccess"
          /\ q.route = "openRole" => Len(g) = 1 /\ g[1] = "RequireRole"
          /\ q.route = "org" => /\ Len(g) = 3 /\ g[1] = "Auth"
                                /\ g[2] = "RequireOrgAccess" /\ g[3] = "RequireRole"
          /\ q.route = "metrics" /\ c.env = "production"
                => c.token /\ Len(g) = 1 /\ g[1] = "metricsBearerAuth"
      BY <2>3
    <2> QED
      BY <2>5, <2>6, <2>7, <2>8
  <1> QED
    BY <1>1, <1>2

\* Where each layer is.
LEMMA Positions ==
    ASSUME PlaceInv
    PROVE  /\ Len(stack) \in 6 .. 10 /\ at \in 0 .. Len(stack)
           /\ \A i \in 1 .. Len(stack) :
                 /\ stack[i] = "Recover" <=> i = 1
                 /\ stack[i] = "Metrics" <=> i = 2
                 /\ stack[i] = "Logger" <=> i = 3
                 /\ stack[i] = "CORS" <=> i = 4
                 /\ stack[i] = "RateLimit" <=> i = 5
                 /\ stack[i] \in {"mux", "notFound"} <=> i = 6
                 /\ stack[i] = "notFound" => Len(stack) = 6
                 /\ stack[i] = "handler" => i = Len(stack) /\ i > 6
                 /\ stack[i] \in Gates => i > 6 /\ i < Len(stack)
                 /\ i > 6 => stack[i] \in Gates \cup {"handler"}
                 /\ i < 6 \/ stack[i] \in {"mux"} \cup Gates => i < Len(stack)
  <1>1. cfg \in Config /\ req \in Request /\ stack = Layers(cfg, req)
    BY DEF PlaceInv, TypeOK
  <1>2. /\ Len(stack) \in 6 .. 10
        /\ stack[1] = "Recover" /\ stack[2] = "Metrics" /\ stack[3] = "Logger"
        /\ stack[4] = "CORS" /\ stack[5] = "RateLimit"
        /\ \/ Len(stack) = 6 /\ stack[6] = "notFound"
           \/ /\ Len(stack) > 6 /\ stack[6] = "mux" /\ stack[Len(stack)] = "handler"
              /\ \A i \in 7 .. Len(stack) - 1 : stack[i] \in Gates
    BY <1>1, LayersShape
  <1>3. at \in 0 .. Len(stack)
    BY DEF PlaceInv, TypeOK
  <1> QED
    BY <1>2, <1>3 DEF Gates

\* What a handler that is reached knows: its route's gates are outside of it.
LEMMA GatesPassed ==
    ASSUME PlaceInv, at > 0, stack[at] = "handler"
    PROVE  /\ req.route = "protected" => Outside("Auth")
           /\ req.route = "org" => /\ Outside("Auth") /\ Outside("RequireOrgAccess")
                                   /\ Outside("RequireRole")
           /\ req.route = "openOrg" => Outside("RequireOrgAccess")
           /\ req.route = "openRole" => Outside("RequireRole")
           /\ req.route = "metrics" /\ cfg.env = "production"
                 => cfg.token /\ Outside("metricsBearerAuth")
  <1>1. cfg \in Config /\ req \in Request /\ stack = Layers(cfg, req)
    BY DEF PlaceInv, TypeOK
  <1>2. at = Len(stack) /\ at > 6 /\ at \in 7 .. 10
    BY Positions
  <1>3. /\ req.route = "protected" => Len(stack) = 8 /\ stack[7] = "Auth"
        /\ req.route = "org" => /\ Len(stack) = 10 /\ stack[7] = "Auth"
                                /\ stack[8] = "RequireOrgAccess"
                                /\ stack[9] = "RequireRole"
        /\ req.route = "openOrg" => Len(stack) = 8 /\ stack[7] = "RequireOrgAccess"
        /\ req.route = "openRole" => Len(stack) = 8 /\ stack[7] = "RequireRole"
        /\ req.route = "metrics" /\ cfg.env = "production"
              => cfg.token /\ Len(stack) = 8 /\ stack[7] = "metricsBearerAuth"
    <2>1. PICK s : s = stack
      OBVIOUS
    <2>2. \/ Len(s) = 6 /\ s[6] = "notFound"
          \/ /\ Len(s) > 6 /\ s[6] = "mux" /\ s[Len(s)] = "handler"
             /\ \A i \in 7 .. Len(s) - 1 : s[i] \in Gates
             /\ req.route = "protected" => Len(s) = 8 /\ s[7] = "Auth"
             /\ req.route = "org" => /\ Len(s) = 10 /\ s[7] = "Auth"
                                     /\ s[8] = "RequireOrgAccess"
                                     /\ s[9] = "RequireRole"
             /\ req.route = "openOrg" => Len(s) = 8 /\ s[7] = "RequireOrgAccess"
             /\ req.route = "openRole" => Len(s) = 8 /\ s[7] = "RequireRole"
             /\ req.route = "metrics" /\ cfg.env = "production"
                   => cfg.token /\ Len(s) = 8 /\ s[7] = "metricsBearerAuth"
      BY <1>1, <2>1, LayersShape
    <2> QED
      BY <1>2, <2>1, <2>2
  <1> QED
    BY <1>2, <1>3 DEF Outside

\* The writers that have been wrapped around the layer that runs.
LEMMA Wrapped ==
    ASSUME PlaceInv, at > 0
    PROVE  /\ Outside("Metrics") <=> at > 2
           /\ Outside("Logger") <=> at > 3
  BY Positions DEF Outside

\* Passing a layer puts it outside.
LEMMA PassOutside ==
    ASSUME PlaceInv, mode = "down", Pass, UNCHANGED stack
    PROVE  \A l : Outside(l)' => Outside(l) \/ stack[at] = l
  <1>1. at > 0 /\ at \in Int
    BY DEF PlaceInv, TypeOK
  <1> QED
    BY <1>1 DEF Pass, Outside

-----------------------------------------------------------------------------
(* The invariant.                                                            *)

LEMMA PipelineInit == Init => PipelineInv
  <1> SUFFICES ASSUME Init PROVE PipelineInv
    OBVIOUS
  <1>1. Len(stack) \in 6 .. 10
    BY LayersShape DEF Init
  <1>2. PlaceInv
    <2>1. TypeOK
      <3>1. /\ cfg \in Config /\ req \in Request /\ at = 1 /\ mode = "down"
            /\ identity = None /\ sent = None /\ counted = None /\ logged = None
            /\ ~routed /\ ~cors /\ ~sentCors /\ ~asked /\ ~ran
            /\ {routed, cors, sentCors, asked, ran} \subseteq BOOLEAN
            /\ recorder = [l \in Wrappers |-> 200] /\ panicked = "no"
        BY DEF Init, FreshStatus
      <3> QED
        BY <1>1, <3>1 DEF TypeOK, Codes
    <2> QED
      BY <2>1 DEF Init, PlaceInv
  <1>3. DownInv
    BY DEF Init, DownInv, Outside
  <1>4. CorsInv /\ RecordInv /\ PanicInv /\ TraceInv
    BY DEF Init, CorsInv, RecordInv, PanicInv, TraceInv, HandlersAreGuarded,
           Status, FreshStatus
  <1> QED
    BY <1>2, <1>3, <1>4 DEF PipelineInv

\* A layer that passes the request on changes nothing of the response but the
\* headers that CORS sets.
LEMMA PassKeeps ==
    ASSUME PipelineInv, mode = "down", stack[at] # "handler", at < Len(stack), Pass,
           IF at = 4 THEN cors' = req.known ELSE cors' = cors,
           UNCHANGED <<cfg, req, stack, sent, sentCors, recorder, notes, panicked, ran>>,
           identity' \in Identity \cup {None}, {routed', asked'} \subseteq BOOLEAN,
           asked' => ~req.options
    PROVE  /\ PlaceInv' /\ CorsInv' /\ RecordInv' /\ PanicInv' /\ TraceInv'
           /\ sent = None /\ ~ran
  <1>1. sent = None /\ ~ran
    BY DEF PipelineInv, DownInv, PlaceInv, TypeOK
  <1>2. at \in Int /\ at > 0 /\ at' = at + 1 /\ mode' = "down" /\ req.known \in BOOLEAN
    BY DEF PipelineInv, PlaceInv, TypeOK, Pass, Request
  <1>3. PlaceInv'
    BY <1>2, Positions DEF PipelineInv, PlaceInv, TypeOK, notes
  <1>4. CorsInv'
    BY <1>1, <1>2 DEF PipelineInv, CorsInv
  <1>5. RecordInv'
    BY <1>2 DEF PipelineInv, RecordInv, Status, notes
  <1>6. PanicInv'
    BY <1>2 DEF PipelineInv, PanicInv
  <1>7. TraceInv'
    BY <1>1 DEF TraceInv, HandlersAreGuarded
  <1> QED
    BY <1>1, <1>3, <1>4, <1>5, <1>6, <1>7

\* A layer that answers tells the writers around it, and the way is back up.
LEMMA AnswerKeeps ==
    ASSUME PipelineInv, mode = "down", at > 3, stack[at] # "handler",
           NEW c \in Codes, Send(c, cors'), cors' = req.known, Back,
           UNCHANGED <<cfg, req, stack, notes, panicked, ran, identity>>,
           {routed', asked'} \subseteq BOOLEAN, asked' => ~req.options
    PROVE  PipelineInv'
  <1>1. sent = None /\ ~ran /\ panicked = "no" /\ counted = None /\ logged = None
    BY DEF PipelineInv, DownInv, PlaceInv, TypeOK, PanicInv, RecordInv
  <1>2. at \in Int /\ at' = at - 1 /\ mode' = "up" /\ req.known \in BOOLEAN
    BY DEF PipelineInv, PlaceInv, TypeOK, Back, Request
  <1>3. /\ sent' = c /\ sentCors' = req.known /\ c # None
        /\ recorder' = [l \in Wrappers |-> c]
    <2>1. Outside("Metrics") /\ Outside("Logger")
      BY <1>2, Wrapped DEF PipelineInv
    <2> QED
      BY <1>1, <2>1, NoneAssumption DEF Send, Note, Wrappers
  <1>4. PlaceInv'
    BY <1>2, <1>3, Positions DEF PipelineInv, PlaceInv, TypeOK, notes
  <1>5. DownInv' /\ CorsInv' /\ PanicInv'
    BY <1>1, <1>2, <1>3 DEF DownInv, CorsInv, PanicInv
  <1>6. RecordInv'
    BY <1>1, <1>2, <1>3 DEF RecordInv, Status, notes
  <1>7. TraceInv'
    BY <1>1 DEF TraceInv, HandlersAreGuarded
  <1> QED
    BY <1>4, <1>5, <1>6, <1>7 DEF PipelineInv

\* The global layers.
LEMMA GlobalKeeps ==
    ASSUME PipelineInv, Forward \/ Cors \/ Limit,
           UNCHANGED <<cfg, req, stack, notes, panicked>>
    PROVE  PipelineInv'
  <1> USE DEF Enters
  <1>1. PlaceInv /\ TypeOK /\ DownInv /\ CorsInv /\ TraceInv
    BY DEF PipelineInv, PlaceInv
  <1>2. mode = "down" /\ at \in Int /\ at > 0 /\ at < 6 /\ at < Len(stack)
        /\ stack[at] # "handler"
    <2>1. mode = "down" /\ at \in 1 .. Len(stack)
      BY <1>1, Positions DEF PlaceInv, Forward, Cors, Limit
    <2>2. stack[at] \in {"Recover", "Metrics", "Logger", "CORS", "RateLimit"}
      BY DEF Forward, Cors, Limit
    <2>3. at \in 1 .. 5
      BY <1>1, <2>1, <2>2, Positions
    <2>4. at < Len(stack)
      BY <1>1, <2>1, <2>3, Positions
    <2>5. stack[at] # "handler"
      BY <2>2
    <2> QED
      BY <2>1, <2>3, <2>4, <2>5
  <1>3. req.known \in BOOLEAN /\ req.options \in BOOLEAN /\ Exempt \in BOOLEAN
    BY <1>1 DEF TypeOK, Request, Exempt
  <1>4. ASSUME Pass, identity' = identity, routed' = routed,
               IF at = 4 THEN cors' = req.known /\ ~req.options ELSE cors' = cors,
               at = 5 => Exempt \/ asked',
               asked' \in BOOLEAN, asked' => ~req.options,
               UNCHANGED <<sent, sentCors, recorder, ran>>
        PROVE  PipelineInv'
    <2>1. /\ PlaceInv' /\ CorsInv' /\ RecordInv' /\ PanicInv' /\ TraceInv'
          /\ sent = None /\ ~ran
      BY <1>1, <1>2, <1>4, PassKeeps DEF TypeOK
    <2>2. at' = at + 1
      BY <1>4 DEF Pass
    <2>3. \A l \in Gates : ~Outside(l)'
      BY <1>1, <1>2, <2>2, Positions DEF Outside
    <2>4. DownInv'
      BY <1>1, <1>2, <1>4, <2>1, <2>2, <2>3 DEF DownInv, Gates, Exempt
    <2> QED
      BY <2>1, <2>4 DEF PipelineInv
  <1>5. CASE Forward
    <2>1. at # 4 /\ at # 5
      BY <1>1, <1>2, <1>5, Positions DEF Forward
    <2> QED
      BY <1>1, <1>4, <1>5, <2>1 DEF Forward, output, TraceInv, TypeOK
  <1>6. CASE Cors
    <2>1. at = 4
      BY <1>1, <1>2, <1>6, Positions DEF Cors
    <2>2. CASE req.options /\ Send(204, req.known) /\ Back
      BY <1>1, <1>2, <1>6, <2>1, <2>2, AnswerKeeps DEF Cors, TypeOK, TraceInv, Codes
    <2>3. CASE ~req.options /\ Pass /\ UNCHANGED <<recorder, sent, sentCors>>
      BY <1>1, <1>4, <1>6, <2>1, <2>3 DEF Cors, TypeOK
    <2> QED
      BY <1>6, <2>2, <2>3 DEF Cors
  <1>7. CASE Limit
    <2>1. at = 5 /\ ~req.options /\ asked' = ~Exempt /\ cors = req.known
      BY <1>1, <1>2, <1>7, Positions DEF Limit, DownInv, CorsInv
    <2>2. CASE Pass /\ UNCHANGED output
      BY <1>3, <1>4, <1>7, <2>1, <2>2 DEF Limit, output
    <2>3. ASSUME NEW c \in {429, 503}, Answer(c) PROVE PipelineInv'
      BY <1>1, <1>2, <1>3, <1>7, <2>1, <2>3, AnswerKeeps
      DEF Limit, Answer, WriteHeader, Codes, TypeOK
    <2> QED
      BY <1>7, <2>2, <2>3 DEF Limit
  <1> QED
    BY <1>5, <1>6, <1>7

\* The router: from here on the request has a route.
LEMMA RouteKeeps ==
    ASSUME PipelineInv, Route, UNCHANGED <<cfg, req, stack, notes, panicked>>
    PROVE  PipelineInv'
  <1> USE DEF Enters
  <1>1. PlaceInv /\ TypeOK /\ DownInv /\ CorsInv /\ TraceInv
    BY DEF PipelineInv, PlaceInv
  <1>2. /\ mode = "down" /\ at = 6 /\ stack[at] # "handler"
        /\ stack[at] = "mux" => at < Len(stack)
    <2>1. mode = "down" /\ at \in 1 .. Len(stack) /\ stack[at] \in {"mux", "notFound"}
      BY <1>1, Positions DEF PlaceInv, Route
    <2> QED
      BY <1>1, <2>1, Positions
  <1>3. ~req.options /\ cors = req.known /\ (Exempt \/ asked)
    BY <1>1, <1>2 DEF DownInv, CorsInv
  <1>4. CASE /\ Enters("mux") /\ routed' = TRUE /\ Pass
             /\ UNCHANGED <<identity, output, asked, ran>>
    <2>1. /\ PlaceInv' /\ CorsInv' /\ RecordInv' /\ PanicInv' /\ TraceInv'
          /\ sent = None /\ ~ran
      BY <1>1, <1>2, <1>3, <1>4, PassKeeps DEF TypeOK, output
    <2>2. at' = 7
      BY <1>2, <1>4 DEF Pass
    <2>3. \A l \in Gates : ~Outside(l)'
      BY <1>1, <1>4, <2>2, Positions DEF Outside
    <2>4. DownInv'
      BY <1>1, <1>2, <1>3, <1>4, <2>1, <2>2, <2>3 DEF DownInv, Gates, Exempt, output
    <2> QED
      BY <2>1, <2>4 DEF PipelineInv
  <1>5. CASE /\ Enters("notFound") /\ routed' = (req.route = "mounted")
             /\ Answer(404) \/ Answer(405)
             /\ UNCHANGED <<identity, asked, ran>>
    <2>1. PICK c \in {404, 405} : Answer(c)
      BY <1>5
    <2>2. /\ {routed', asked'} \subseteq BOOLEAN /\ (asked' => ~req.options)
          /\ cors' = req.known /\ Send(c, cors') /\ Back /\ c \in Codes
      BY <1>1, <1>3, <1>5, <2>1 DEF Answer, WriteHeader, Codes, TypeOK
    <2> QED
      BY <1>2, <1>5, <2>2, AnswerKeeps
  <1> QED
    BY <1>4, <1>5 DEF Route

\* The gates of the route: each lets through only what it has checked.
LEMMA GateKeeps ==
    ASSUME PipelineInv, Auth \/ OrgAccess \/ RoleAccess \/ MetricsAuth,
           UNCHANGED <<cfg, req, stack, notes, panicked>>
    PROVE  PipelineInv'
  <1> USE DEF Enters
  <1>1. PlaceInv /\ TypeOK /\ DownInv /\ CorsInv /\ TraceInv
    BY DEF PipelineInv, PlaceInv
  <1>2. /\ mode = "down" /\ at \in Int /\ at > 6 /\ at < Len(stack)
        /\ stack[at] # "handler" /\ stack[at] \in Gates
    <2>1. mode = "down" /\ at \in 1 .. Len(stack) /\ stack[at] \in Gates
      BY <1>1, Positions DEF PlaceInv, Auth, OrgAccess, RoleAccess, MetricsAuth, Gates
    <2>2. at > 6 /\ at < Len(stack)
      BY <1>1, <2>1, Positions
    <2> QED
      BY <2>1, <2>2 DEF Gates
  <1>3. ~req.options /\ cors = req.known /\ (Exempt \/ asked) /\ routed
    BY <1>1, <1>2 DEF DownInv, CorsInv
  <1>4. ASSUME NEW c \in Codes, Answer(c), UNCHANGED <<identity, routed, asked, ran>>
        PROVE  PipelineInv'
    BY <1>1, <1>2, <1>3, <1>4, AnswerKeeps DEF Answer, WriteHeader, TypeOK
  <1>5. ASSUME Pass, UNCHANGED output, UNCHANGED <<routed, asked, ran>>,
               identity' = identity \/ identity' = req.claims,
               identity # None => identity' = identity,
               stack[at] = "Auth" => identity' # None /\ identity' = req.claims,
               stack[at] = "RequireOrgAccess"
                   => identity' # None /\ req.org = identity'.org,
               stack[at] = "RequireRole"
                   => identity' # None /\ identity'.role \in Allowed,
               stack[at] = "metricsBearerAuth" => req.bearer
        PROVE  PipelineInv'
    <2>1. identity' \in Identity \cup {None}
      BY <1>1, <1>5 DEF TypeOK, Request
    <2>2. /\ PlaceInv' /\ CorsInv' /\ RecordInv' /\ PanicInv' /\ TraceInv'
          /\ sent = None /\ ~ran
      BY <1>1, <1>2, <1>3, <1>5, <2>1, PassKeeps DEF TypeOK, output
    <2>3. at' = at + 1
      BY <1>5 DEF Pass
    <2>4. \A l : Outside(l)' => Outside(l) \/ stack[at] = l
      BY <1>1, <1>2, <1>5, PassOutside
    <2>5. DownInv'
      BY <1>1, <1>2, <1>3, <1>5, <2>2, <2>3, <2>4 DEF DownInv, Exempt, output
    <2> QED
      BY <2>2, <2>5 DEF PipelineInv
  <1>6. CASE Auth
    <2>1. identity # None => identity = req.claims
      BY <1>1, <1>2 DEF DownInv
    <2> QED
      BY <1>4, <1>5, <1>6, <2>1 DEF Auth, Codes
  <1>7. CASE OrgAccess
    BY <1>4, <1>5, <1>7 DEF OrgAccess, Codes
  <1>8. CASE RoleAccess
    BY <1>4, <1>5, <1>8 DEF RoleAccess, Codes
  <1>9. CASE MetricsAuth
    BY <1>4, <1>5, <1>9 DEF MetricsAuth, Codes
  <1> QED
    BY <1>6, <1>7, <1>8, <1>9

\* The handler runs behind all the gates of its route.
LEMMA HandlerKeeps ==
    ASSUME PipelineInv, Handle, UNCHANGED <<cfg, req, stack, notes, panicked>>
    PROVE  PipelineInv'
  <1> USE DEF Enters
  <1>1. PlaceInv /\ TypeOK /\ DownInv /\ CorsInv /\ TraceInv /\ RecordInv /\ PanicInv
    BY DEF PipelineInv, PlaceInv
  <1>2. /\ mode = "down" /\ at \in Int /\ at > 6 /\ stack[at] = "handler"
        /\ ran' = TRUE /\ UNCHANGED <<identity, routed, asked>>
        /\ cors = req.known /\ cors' = cors
        /\ panicked = "no" /\ counted = None /\ logged = None
    <2>1. mode = "down" /\ at \in 1 .. Len(stack) /\ stack[at] = "handler"
      BY <1>1, Positions DEF PlaceInv, Handle
    <2>2. at > 6 /\ at \in Int
      BY <1>1, <2>1, Positions
    <2> QED
      BY <1>1, <2>1, <2>2
      DEF Handle, CorsInv, RecordInv, PanicInv, WriteHeader, output
  <1>3. ~req.options /\ routed /\ (Exempt \/ asked)
    BY <1>1, <1>2 DEF DownInv
  <1>4. HandlersAreGuarded'
    <2>1. /\ req.route = "protected" => Outside("Auth")
          /\ req.route = "org" => /\ Outside("Auth") /\ Outside("RequireOrgAccess")
                                  /\ Outside("RequireRole")
          /\ req.route = "openOrg" => Outside("RequireOrgAccess")
          /\ req.route = "openRole" => Outside("RequireRole")
          /\ req.route = "metrics" /\ cfg.env = "production"
                => cfg.token /\ Outside("metricsBearerAuth")
      BY <1>1, <1>2, GatesPassed
    <2>2. /\ req.route \in Protected => identity # None /\ identity = req.claims
          /\ req.route = "org" => identity.org = req.org /\ identity.role \in Allowed
          /\ req.route = "metrics" /\ cfg.env = "production" => cfg.token /\ req.bearer
      BY <1>1, <1>2, <2>1 DEF DownInv, Protected
    <2> QED
      BY <1>2, <1>3, <2>2 DEF HandlersAreGuarded, Exempt
  <1>5. TraceInv'
    BY <1>1, <1>2, <1>3, <1>4 DEF TraceInv, notes
  <1>6. CASE /\ sent = None /\ \E c \in {200, 400, 500} : WriteHeader(c)
             /\ UNCHANGED <<at, mode>>
    <2>1. PICK c \in {200, 400, 500} : WriteHeader(c)
      BY <1>6
    <2>2. /\ sent' = c /\ sentCors' = req.known /\ c # None /\ c \in Codes
          /\ recorder' = [l \in Wrappers |-> c]
      <3>1. Outside("Metrics") /\ Outside("Logger")
        BY <1>1, <1>2, Wrapped
      <3> QED
        BY <1>2, <1>6, <2>1, <3>1, NoneAssumption
        DEF WriteHeader, Send, Note, Wrappers, Codes
    <2>3. PlaceInv'
      BY <1>1, <1>2, <1>6, <2>2, Positions DEF PlaceInv, TypeOK, notes, Request
    <2>4. DownInv' /\ CorsInv' /\ PanicInv'
      BY <1>1, <1>2, <1>6, <2>2 DEF DownInv, CorsInv, PanicInv, Outside, Exempt
    <2>5. RecordInv'
      BY <1>1, <1>2, <1>6, <2>2 DEF RecordInv, Status, notes
    <2> QED
      BY <2>3, <2>4, <2>5, <1>5 DEF PipelineInv
  <1>7. CASE Back /\ UNCHANGED output
    <2>1. at' = at - 1 /\ mode' = "up"
      BY <1>7 DEF Back
    <2>2. PlaceInv'
      BY <1>1, <1>2, <1>7, <2>1, Positions DEF PlaceInv, TypeOK, notes, output
    <2>3. DownInv' /\ CorsInv' /\ PanicInv'
      BY <1>1, <1>2, <1>7, <2>1 DEF DownInv, CorsInv, PanicInv, output
    <2>4. RecordInv'
      BY <1>1, <1>2, <1>3, <1>7, <2>1 DEF RecordInv, Status, notes, output
    <2> QED
      BY <2>2, <2>3, <2>4, <1>5 DEF PipelineInv
  <1> QED
    BY <1>6, <1>7 DEF Handle

\* A defect shows below the layers that set the headers and wrap the writers.
LEMMA PanicKeeps == PipelineInv /\ Panic => PipelineInv'
  <1> SUFFICES ASSUME PipelineInv, Panic PROVE PipelineInv'
    OBVIOUS
  <1>1. PlaceInv /\ TypeOK /\ DownInv /\ CorsInv /\ RecordInv /\ TraceInv
    BY DEF PipelineInv, PlaceInv
  <1>2. /\ mode = "down" /\ at \in Int /\ at > 4 /\ mode' = "panic" /\ at' = at
        /\ panicked' = IF sent = None THEN "early" ELSE "late"
    <2>1. mode = "down" /\ at \in 1 .. Len(stack)
          /\ stack[at] \in {"RateLimit", "Auth", "RequireOrgAccess", "handler"}
      BY <1>1, Positions DEF PlaceInv, Panic
    <2>2. at > 4 /\ at \in Int
      BY <1>1, <2>1, Positions DEF Gates
    <2> QED
      BY <2>1, <2>2 DEF Panic, Break
  <1>3. UNCHANGED <<cfg, req, stack, identity, routed, cors, sent, sentCors, recorder,
                    counted, logged, asked, ran>>
    BY DEF Panic, output, notes
  <1>4. PlaceInv'
    BY <1>1, <1>2, <1>3 DEF PlaceInv, TypeOK
  <1>5. DownInv' /\ CorsInv' /\ PanicInv'
    BY <1>1, <1>2, <1>3 DEF DownInv, CorsInv, PanicInv
  <1>6. RecordInv' /\ TraceInv'
    BY <1>1, <1>2, <1>3 DEF RecordInv, Status, TraceInv, HandlersAreGuarded, Exempt
  <1> QED
    BY <1>4, <1>5, <1>6 DEF PipelineInv

\* The way of a panic ends at Recover, which is outermost: nobody has wrapped
\* the writer that it answers through.
LEMMA UnwindKeeps == PipelineInv /\ Unwind => PipelineInv'
  <1> SUFFICES ASSUME PipelineInv, Unwind PROVE PipelineInv'
    OBVIOUS
  <1>1. PlaceInv /\ TypeOK /\ CorsInv /\ RecordInv /\ PanicInv /\ TraceInv
    BY DEF PipelineInv, PlaceInv
  <1>2. /\ mode = "panic" /\ at \in 1 .. Len(stack) /\ at \in Int
        /\ UNCHANGED <<cfg, req, stack, identity, routed, counted, logged, asked, ran,
                       panicked>>
        /\ cors = req.known /\ cors' = cors
        /\ panicked # "no" /\ (panicked = "early" => sent = None)
        /\ counted = None /\ (logged # None => sent # None)
        /\ req.known \in BOOLEAN
    BY <1>1, Positions
    DEF Unwind, notes, output, Answer, WriteHeader, CorsInv, PanicInv, RecordInv, TypeOK,
        Request
  <1>3. CASE stack[at] = "Recover" /\ Answer(500)
    <2>1. at = 1 /\ at' = 0 /\ mode' = "up"
      BY <1>1, <1>2, <1>3, Positions DEF Answer, Back
    <2>2. recorder' = recorder
      <3>1. \A l \in Wrappers : ~Outside(l)
        BY <1>2, <2>1 DEF Outside
      <3>2. recorder' = [l \in Wrappers |-> recorder[l]]
        BY <1>3, <3>1 DEF Answer, WriteHeader, Send, Note
      <3> QED
        BY <1>1, <3>2 DEF TypeOK
    <2>3. /\ sent' = IF sent = None THEN 500 ELSE sent
          /\ sentCors' = IF sent = None THEN cors ELSE sentCors
          /\ sent' \in Codes /\ sent' # None
      BY <1>1, <1>3, NoneAssumption DEF Answer, WriteHeader, Send, TypeOK, Codes
    <2>4. PlaceInv'
      BY <1>1, <1>2, <2>1, <2>2, <2>3, Positions DEF PlaceInv, TypeOK
    <2>5. DownInv' /\ CorsInv' /\ PanicInv'
      BY <1>1, <1>2, <2>1, <2>3 DEF DownInv, CorsInv, PanicInv
    <2>6. RecordInv' /\ TraceInv'
      BY <1>1, <1>2, <2>1, <2>3
      DEF RecordInv, Status, TraceInv, HandlersAreGuarded, Exempt
    <2> QED
      BY <2>4, <2>5, <2>6 DEF PipelineInv
  <1>4. CASE stack[at] # "Recover" /\ at' = at - 1 /\ UNCHANGED <<mode, output>>
    <2>1. at > 1
      BY <1>1, <1>2, <1>4, Positions
    <2>2. PlaceInv'
      BY <1>1, <1>2, <1>4, <2>1, Positions DEF PlaceInv, TypeOK, output
    <2>3. DownInv' /\ CorsInv' /\ PanicInv'
      BY <1>1, <1>2, <1>4 DEF DownInv, CorsInv, PanicInv, output
    <2>4. RecordInv' /\ TraceInv'
      BY <1>1, <1>2, <1>4 DEF RecordInv, Status, TraceInv, HandlersAreGuarded, Exempt, output
    <2> QED
      BY <2>2, <2>3, <2>4 DEF PipelineInv
  <1> QED
    BY <1>3, <1>4 DEF Unwind

\* On the way back Logger and then Metrics note the status that was sent, or
\* Metrics panics over a label of which chi knew no pattern.
LEMMA UpKeeps == PipelineInv /\ Up => PipelineInv'
  <1> SUFFICES ASSUME PipelineInv, Up PROVE PipelineInv'
    OBVIOUS
  <1>1. PlaceInv /\ TypeOK /\ CorsInv /\ RecordInv /\ PanicInv /\ TraceInv
    BY DEF PipelineInv, PlaceInv
  <1>2. /\ mode = "up" /\ at \in 1 .. Len(stack) /\ at \in Int
        /\ UNCHANGED <<cfg, req, stack, identity, routed, cors, sent, sentCors, recorder,
                       asked, ran>>
    BY <1>1, Positions DEF Up, Return, Log, Count, Leaves, output
  <1>3. panicked = "no"
    BY <1>1, <1>2 DEF PanicInv
  <1>4. recorder["Metrics"] = Status /\ recorder["Logger"] = Status
        /\ recorder["Metrics"] \in Codes /\ recorder["Logger"] \in Codes
    BY <1>1, <1>3 DEF RecordInv, TypeOK, Wrappers
  <1>5. Label \in {"pattern", "raw"} /\ (Label = "raw" <=> ~routed)
        /\ (ran => Label = "pattern")
    BY <1>1 DEF Label, TraceInv, TypeOK
  <1>6. Status' = Status
    BY <1>2 DEF Status
  <1>7. CASE Back /\ UNCHANGED panicked
    <2>1. at' = at - 1 /\ mode' = "up"
      BY <1>7 DEF Back
    <2>2. /\ counted' = IF at = 2 THEN [status |-> Status, path |-> Label] ELSE counted
          /\ logged' = IF at = 3 THEN Status ELSE logged
      <3>1. /\ stack[at] = "Metrics" <=> at = 2
            /\ stack[at] = "Logger" <=> at = 3
        BY <1>1, <1>2, Positions
      <3> QED
        BY <1>2, <1>3, <1>4, <1>7, <3>1
        DEF Up, Return, Log, Count, Leaves, Break, Back, notes, Wrappers
    <2>3. /\ at = 2 => /\ counted' \in Entry /\ counted' # None
                       /\ counted'.status = Status /\ counted'.path = Label
          /\ at = 3 => logged' \in Codes /\ logged' # None /\ logged' = Status
      BY <1>4, <1>5, <2>2, NoneAssumption DEF Entry
    <2>4. counted' \in Entry \cup {None} /\ logged' \in Codes \cup {None}
      BY <1>1, <2>2, <2>3 DEF TypeOK
    <2>5. PlaceInv'
      BY <1>1, <1>2, <1>7, <2>1, <2>4, Positions DEF PlaceInv, TypeOK
    <2>6. DownInv' /\ CorsInv' /\ PanicInv'
      BY <1>1, <1>2, <1>3, <1>7, <2>1 DEF DownInv, CorsInv, PanicInv
    <2>7. /\ counted' = None <=> at' >= 2
          /\ logged' = None <=> at' >= 3
      BY <1>1, <1>2, <1>3, <2>1, <2>2, <2>3 DEF RecordInv
    <2>8. /\ counted' # None => counted'.status = Status
          /\ logged' # None => logged' = Status
      BY <1>1, <2>2, <2>3 DEF RecordInv
    <2>9. RecordInv'
      <3>1. \A l \in Wrappers : recorder'[l] = Status
        BY <1>1, <1>2, <1>3 DEF RecordInv
      <3>2. sent = None => routed
        BY <1>1, <1>2, <1>3 DEF RecordInv
      <3> QED
        BY <1>2, <1>3, <1>6, <1>7, <2>1, <2>7, <2>8, <3>1, <3>2 DEF RecordInv
    <2>10. TraceInv'
      <3>1. ran /\ counted' # None => counted'.path = "pattern"
        BY <1>1, <1>5, <2>2, <2>3 DEF TraceInv
      <3> QED
        BY <1>1, <1>2, <3>1 DEF TraceInv, HandlersAreGuarded, Exempt
    <2> QED
      BY <2>5, <2>6, <2>9, <2>10 DEF PipelineInv
  <1>8. CASE Label = "raw" /\ ~req.utf8 /\ Break /\ UNCHANGED notes /\ at = 2
    <2>1. /\ mode' = "panic" /\ at' = at /\ panicked' = "late"
          /\ sent # None /\ ~routed /\ counted = None
          /\ UNCHANGED <<counted, logged>>
      BY <1>1, <1>2, <1>3, <1>5, <1>8 DEF Break, RecordInv, notes
    <2>2. PlaceInv'
      BY <1>1, <1>2, <2>1 DEF PlaceInv, TypeOK
    <2>3. DownInv' /\ CorsInv' /\ PanicInv'
      BY <1>1, <1>2, <2>1 DEF DownInv, CorsInv, PanicInv
    <2>4. RecordInv' /\ TraceInv'
      BY <1>1, <1>2, <1>6, <1>8, <2>1 DEF RecordInv, TraceInv, HandlersAreGuarded, Exempt
    <2> QED
      BY <2>2, <2>3, <2>4 DEF PipelineInv
  <1>9. \/ Back /\ UNCHANGED panicked
        \/ Label = "raw" /\ ~req.utf8 /\ Break /\ UNCHANGED notes /\ at = 2
    <2>1. stack[at] = "Metrics" => at = 2
      BY <1>1, <1>2, Positions
    <2> QED
      BY <2>1 DEF Up, Return, Log, Count, Leaves, notes
  <1> QED
    BY <1>7, <1>8, <1>9

\* net/http completes the response.
LEMMA FinishKeeps == PipelineInv /\ Finish => PipelineInv'
  <1> SUFFICES ASSUME PipelineInv, Finish PROVE PipelineInv'
    OBVIOUS
  <1>1. PlaceInv /\ TypeOK /\ CorsInv /\ RecordInv /\ PanicInv /\ TraceInv
    BY DEF PipelineInv, PlaceInv
  <1>2. /\ at = 0 /\ mode = "up" /\ mode' = "done"
        /\ sent' = Status
        /\ sentCors' = IF sent = None THEN cors ELSE sentCors
        /\ UNCHANGED <<cfg, req, stack, at, identity, routed, cors, recorder, counted,
                       logged, asked, ran, panicked>>
    BY <1>1 DEF Finish, PlaceInv, Status, notes
  <1>3. Status \in Codes /\ Status # None /\ cors = req.known /\ req.known \in BOOLEAN
    BY <1>1, <1>2, NoneAssumption DEF Status, Codes, TypeOK, CorsInv, Request
  <1>4. Status' = Status
    BY <1>2, <1>3 DEF Status
  <1>5. PlaceInv'
    BY <1>1, <1>2, <1>3 DEF PlaceInv, TypeOK
  <1>6. DownInv' /\ CorsInv'
    BY <1>1, <1>2, <1>3 DEF DownInv, CorsInv
  <1>7. PanicInv'
    <2>1. panicked = "early" => sent = 500 /\ Status = 500
      BY <1>1, <1>2, <1>3, NoneAssumption DEF PanicInv, Status, Codes
    <2> QED
      BY <1>1, <1>2, <2>1 DEF PanicInv
  <1>8. RecordInv'
    BY <1>1, <1>2, <1>4 DEF RecordInv
  <1>9. TraceInv'
    BY <1>1, <1>2 DEF TraceInv, HandlersAreGuarded, Exempt
  <1> QED
    BY <1>5, <1>6, <1>7, <1>8, <1>9 DEF PipelineInv

\* Every step keeps the invariant.
LEMMA PipelineStep == PipelineInv /\ [Next]_vars => PipelineInv'
  <1> SUFFICES ASSUME PipelineInv, [Next]_vars PROVE PipelineInv'
    OBVIOUS
  <1>1. CASE Down
    BY <1>1, GlobalKeeps, RouteKeeps, GateKeeps, HandlerKeeps DEF Down
  <1>2. CASE Panic
    BY <1>2, PanicKeeps
  <1>3. CASE Unwind
    BY <1>3, UnwindKeeps
  <1>4. CASE Up
    BY <1>4, UpKeeps
  <1>5. CASE Finish
    BY <1>5, FinishKeeps
  <1>6. CASE UNCHANGED vars
    <2>1. UNCHANGED <<cfg, req, stack, at, mode, identity, routed, cors, sent, sentCors,
                      recorder, counted, logged, asked, ran, panicked>>
      BY <1>6 DEF vars, output, notes
    <2>2. PlaceInv' /\ DownInv'
      BY <2>1 DEF PipelineInv, PlaceInv, TypeOK, DownInv, Outside, Exempt
    <2>3. CorsInv' /\ RecordInv' /\ PanicInv' /\ TraceInv'
      BY <2>1 DEF PipelineInv, CorsInv, RecordInv, Status, PanicInv, TraceInv,
                  HandlersAreGuarded, Exempt
    <2> QED
      BY <2>2, <2>3 DEF PipelineInv
  <1> QED
    BY <1>1, <1>2, <1>3, <1>4, <1>5, <1>6 DEF Next, Idle

-----------------------------------------------------------------------------
(* What follows for every request.                                           *)

\* Every state of the middleware stack satisfies the invariant.
THEOREM PipelineInvariant == Spec => []PipelineInv
  BY PipelineInit, PipelineStep, PTL DEF Spec

\* The variables of the stack keep their types: the layer that runs is one of
\* the stack that NewRouter has built.
THEOREM PipelineTypeTheorem == Spec => []TypeOK
  <1>1. PipelineInv => TypeOK
    BY DEF PipelineInv, PlaceInv
  <1> QED
    BY <1>1, PipelineInvariant, PTL

\* What Metrics counts and Logger logs is what net/http sent, whichever layer
\* answered and wherever a panic was recovered; every counted request is logged,
\* and one that is only logged had a path that is not a valid label.
THEOREM RecordTheorem == Spec => []RecordedIsSent
  <1>1. PipelineInv => RecordedIsSent
    <2> SUFFICES ASSUME PipelineInv, mode = "done"
                 PROVE  /\ counted # None => counted.status = sent /\ logged # None
                        /\ logged # None => logged = sent
                        /\ logged # None /\ counted = None => ~routed /\ ~req.utf8
      BY DEF RecordedIsSent
    <2>1. Status = sent
      BY DEF PipelineInv, CorsInv, Status
    <2>2. panicked = "no" => counted # None /\ logged # None
      BY DEF PipelineInv, RecordInv
    <2>3. panicked # "no" => counted = None /\ (logged # None => ~routed /\ ~req.utf8)
      BY DEF PipelineInv, RecordInv
    <2> QED
      BY <2>1, <2>2, <2>3 DEF PipelineInv, RecordInv
  <1> QED
    BY <1>1, PipelineInvariant, PTL

\* Whatever answers an allowed origin, CORS has set its headers before.
THEOREM OriginTheorem == Spec => []OriginsCanReadAnswers
  <1>1. PipelineInv => OriginsCanReadAnswers
    BY DEF PipelineInv, CorsInv, OriginsCanReadAnswers
  <1> QED
    BY <1>1, PipelineInvariant, PTL

\* No handler runs before the limiter and the gates of its route have let the
\* request through: Auth's claims, RequireOrgAccess, RequireRole and the
\* metrics token.
THEOREM GuardTheorem == Spec => []HandlersAreGuarded
  <1>1. PipelineInv => HandlersAreGuarded
    BY DEF PipelineInv, TraceInv
  <1> QED
    BY <1>1, PipelineInvariant, PTL

\* CORS answers a preflight before the limiter counts it.
THEOREM PreflightTheorem == Spec => []PreflightsAreFree
  <1>1. PipelineInv => PreflightsAreFree
    BY DEF PipelineInv, TraceInv, PreflightsAreFree
  <1> QED
    BY <1>1, PipelineInvariant, PTL

\* No panic reaches net/http, and one before the status was sent is a 500.
THEOREM PanicTheorem == Spec => []PanicsAreAnswered
  <1>1. PipelineInv => PanicsAreAnswered
    BY DEF PipelineInv, PanicInv, PanicsAreAnswered
  <1> QED
    BY <1>1, PipelineInvariant, PTL

\* Metrics reads chi's route pattern after the handler has returned.
THEOREM PatternTheorem == Spec => []CountedByPattern
  <1>1. PipelineInv => CountedByPattern
    BY DEF PipelineInv, TraceInv, CountedByPattern
  <1> QED
    BY <1>1, PipelineInvariant, PTL
=============================================================================
