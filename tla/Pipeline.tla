------------------------------ MODULE Pipeline ------------------------------
(***************************************************************************)
(* The way of one request through the router of internal/server/router.go: *)
(* down the middleware stack to a handler, and back up, returning or       *)
(* panicking.  Each layer sees the response through the writers that the   *)
(* layers around it have wrapped.                                          *)
(*                                                                         *)
(* Requests share nothing here but atomic counters, so one is enough.  The *)
(* verdicts of the rate limiter and of the JWT check are inputs: RateLimit *)
(* and AuthService model how they come about.                              *)
(***************************************************************************)
EXTENDS Integers, Sequences

CONSTANTS
    Org,     \* organisation ids
    None     \* absent value

Roles   == {"owner", "admin", "member"}
Allowed == {"owner", "admin"}      \* the roles that RequireRole is given

Identity == [org : Org, role : Roles]

Routes    == {"healthz", "readyz", "metrics", "public", "protected", "org",
              "openOrg", "openRole", "mounted", "unrouted"}
Protected == {"protected", "org", "openOrg", "openRole"}

Config == [env : {"development", "production", "Production"}, token : BOOLEAN]

\* The routes whose path is a literal of the source.
Literal == {"healthz", "readyz", "metrics", "public", "protected"}

\* claims: None unless the request brings an access token that Auth accepts;
\* org: the path's organisation id; known: its Origin is an allowed one;
\* bearer: its Authorization header has the metrics token; utf8: the decoded
\* path is valid UTF-8.  A mounted path is under /api/v1, but nothing serves it.
Request == {q \in [options : BOOLEAN, known : BOOLEAN, bearer : BOOLEAN,
                   utf8 : BOOLEAN, route : Routes,
                   claims : Identity \cup {None}, org : Org \cup {None}] :
               q.route \in Literal => q.utf8}

\* Orders that look as good: the cheapest refusal first, panics counted as
\* 500, panics caught next to the handler.
MutLimitFirst == <<"Recover", "Metrics", "Logger", "RateLimit", "CORS">>
MutCountPanic == <<"Metrics", "Recover", "Logger", "CORS", "RateLimit">>
MutCatchLate  == <<"Metrics", "Logger", "CORS", "RateLimit", "Recover">>

\* The global stack: "order matters".
Global == <<"Recover", "Metrics", "Logger", "CORS", "RateLimit">>

VARIABLES
    cfg,        \* ENV, and whether METRICS_BEARER_TOKEN is set
    req,        \* the request
    stack,      \* the layers on its way, the outermost first
    at,         \* the layer that runs; 0: net/http
    mode,       \* down, up (returning), panic, done, aborted
    identity,   \* the identity in the request's context
    routed,     \* chi has found its route pattern
    cors,       \* the CORS headers are in the response's header map
    sent,       \* the status that the client was sent
    sentCors,   \* whether the CORS headers went with it
    recorder,   \* statusCode of the wrapped writers
    counted,    \* what Metrics has counted
    logged,     \* what Logger has logged
    asked,      \* the limiter has asked Redis
    ran,        \* the handler has run
    panicked    \* no; early or late: before or after the status was sent

output == <<cors, sent, sentCors, recorder>>
notes  == <<counted, logged>>
vars   == <<cfg, req, stack, at, mode, identity, routed, output, notes,
            asked, ran, panicked>>

Codes    == {200, 204, 400, 401, 403, 404, 405, 429, 500, 503}
Wrappers == {"Metrics", "Logger"}
Entry    == [status : Codes, path : {"pattern", "raw"}]

ASSUME NoneAssumption == None \notin Codes /\ None \notin Entry

TypeOK ==
    /\ cfg \in Config
    /\ req \in Request
    /\ at \in 0 .. Len(stack)
    /\ mode \in {"down", "up", "panic", "done", "aborted"}
    /\ identity \in Identity \cup {None}
    /\ {routed, cors, sentCors, asked, ran} \subseteq BOOLEAN
    /\ sent \in Codes \cup {None}
    /\ recorder \in [Wrappers -> Codes]
    /\ counted \in Entry \cup {None}
    /\ logged \in Codes \cup {None}
    /\ panicked \in {"no", "early", "late"}

-----------------------------------------------------------------------------

\* How /metrics is mounted: the router does not fold the case of ENV.
Mount(c) == IF c.env # "production" THEN "open"
            ELSE IF c.token THEN "token" ELSE "absent"

\* The middleware that a route has of its own.  The router mounts none of the
\* last three yet: org is the one that README.md and exampledomain/routes.go
\* show for a new domain, openOrg and openRole were mounted without Auth.
Inner(c, q) ==
    CASE q.route = "protected" -> <<"Auth">>
      [] q.route = "org" -> <<"Auth", "RequireOrgAccess", "RequireRole">>
      [] q.route = "openOrg" -> <<"RequireOrgAccess">>
      [] q.route = "openRole" -> <<"RequireRole">>
      [] q.route = "metrics" /\ Mount(c) = "token" -> <<"metricsBearerAuth">>
      [] OTHER -> <<>>

\* NewRouter: the layers around the handler that serves q.
Layers(c, q) ==
    IF q.route \in {"mounted", "unrouted"} \/ (q.route = "metrics" /\ Mount(c) = "absent")
    THEN Global \o <<"notFound">>
    ELSE Global \o <<"mux">> \o Inner(c, q) \o <<"handler">>

MutFreshStatus == 0         \* Go's zero value

\* statusCode of a wrappedWriter when it is made.
FreshStatus == 200

Init ==
    /\ cfg \in Config
    /\ req \in Request
    /\ stack = Layers(cfg, req)
    /\ at = 1
    /\ mode = "down"
    /\ identity = None
    /\ routed = FALSE /\ asked = FALSE /\ ran = FALSE
    /\ cors = FALSE /\ sentCors = FALSE
    /\ sent = None
    /\ recorder = [l \in Wrappers |-> FreshStatus]
    /\ counted = None
    /\ logged = None
    /\ panicked = "no"

Enters(l) == mode = "down" /\ at > 0 /\ stack[at] = l

Pass == at' = at + 1 /\ UNCHANGED mode      \* next.ServeHTTP
Back == at' = at - 1 /\ mode' = "up"        \* return

Outside(l) == \E i \in 1 .. at - 1 : stack[i] = l

\* WriteHeader of each writer that the layers outside this one have wrapped.
Note(c) == [l \in Wrappers |-> IF Outside(l) THEN c ELSE recorder[l]]

\* WriteHeader in the layer that runs, with h in the header map; net/http
\* ignores every call but the first.
Send(c, h) ==
    /\ recorder' = Note(c)
    /\ sent' = IF sent = None THEN c ELSE sent
    /\ sentCors' = IF sent = None THEN h ELSE sentCors

WriteHeader(c) == Send(c, cors) /\ UNCHANGED cors

\* response.Error and response.JSON, and then return.
Answer(c) == WriteHeader(c) /\ Back

\* Layers that do nothing on the way down.
Forward ==
    /\ mode = "down" /\ stack[at] \in {"Recover", "Metrics", "Logger"}
    /\ Pass
    /\ UNCHANGED <<identity, routed, output, asked, ran>>

\* CORS: its headers, and the answer to a preflight.
Cors ==
    /\ Enters("CORS")
    /\ cors' = req.known
    /\ \/ req.options /\ Send(204, req.known) /\ Back
       \/ ~req.options /\ Pass /\ UNCHANGED <<recorder, sent, sentCors>>
    /\ UNCHANGED <<identity, routed, asked, ran>>

Exempt == req.route \in {"healthz", "readyz", "metrics"}

\* RateLimit: exempt, within the limit, over it, or Redis does not answer.
Limit ==
    /\ Enters("RateLimit")
    /\ asked' = ~Exempt
    /\ \/ Pass /\ UNCHANGED output
       \/ ~Exempt /\ (Answer(429) \/ Answer(503))
    /\ UNCHANGED <<identity, routed, ran>>

\* chi finds the handler and notes the route's pattern, or answers 404 or 405;
\* a mounted router's pattern is noted before that.
Route ==
    \/ /\ Enters("mux")
       /\ routed' = TRUE
       /\ Pass
       /\ UNCHANGED <<identity, output, asked, ran>>
    \/ /\ Enters("notFound")
       /\ routed' = (req.route = "mounted")
       /\ Answer(404) \/ Answer(405)
       /\ UNCHANGED <<identity, asked, ran>>

\* Auth puts the token's claims into the context.
Auth ==
    /\ Enters("Auth")
    /\ \/ req.claims = None /\ Answer(401) /\ UNCHANGED identity
       \/ /\ req.claims # None
          /\ identity' = req.claims
          /\ Pass
          /\ UNCHANGED output
    /\ UNCHANGED <<routed, asked, ran>>

MutOrgAccess ==          \* takes any organisation the path names
    /\ Enters("RequireOrgAccess")
    /\ \/ identity # None /\ req.org = None /\ Answer(400)
       \/ Pass /\ UNCHANGED output
    /\ UNCHANGED <<identity, routed, asked, ran>>

\* RequireOrgAccess: CanAccessOrg.
OrgAccess ==
    /\ Enters("RequireOrgAccess")
    /\ \/ identity = None /\ Answer(401)
       \/ identity # None /\ req.org = None /\ Answer(400)
       \/ identity # None /\ req.org \notin {None, identity.org} /\ Answer(403)
       \/ identity # None /\ req.org = identity.org /\ Pass /\ UNCHANGED output
    /\ UNCHANGED <<identity, routed, asked, ran>>

\* RequireRole: HasAnyRole.
RoleAccess ==
    /\ Enters("RequireRole")
    /\ \/ identity = None /\ Answer(401)
       \/ identity # None /\ identity.role \notin Allowed /\ Answer(403)
       \/ identity # None /\ identity.role \in Allowed /\ Pass /\ UNCHANGED output
    /\ UNCHANGED <<identity, routed, asked, ran>>

MetricsAuth ==
    /\ Enters("metricsBearerAuth")
    /\ \/ ~req.bearer /\ Answer(401)
       \/ req.bearer /\ Pass /\ UNCHANGED output
    /\ UNCHANGED <<identity, routed, asked, ran>>

\* The handler sends its status, at most once, and returns.
Handle ==
    /\ Enters("handler")
    /\ ran' = TRUE
    /\ \/ /\ sent = None
          /\ \E c \in {200, 400, 500} : WriteHeader(c)
          /\ UNCHANGED <<at, mode>>
       \/ Back /\ UNCHANGED output
    /\ UNCHANGED <<identity, routed, asked>>

\* The layer that runs panics.
Break ==
    /\ mode' = "panic"
    /\ panicked' = IF sent = None THEN "early" ELSE "late"
    /\ UNCHANGED at

\* A defect below next.ServeHTTP, or in the callback of RequireOrgAccess.
Panic ==
    /\ mode = "down"
    /\ stack[at] \in {"RateLimit", "Auth", "RequireOrgAccess", "handler"}
    /\ Break
    /\ UNCHANGED <<cfg, req, stack, identity, routed, output, notes, asked, ran>>

\* A panic skips the rest of each layer, but not the deferred function of
\* Recover, which answers through the writer that Recover was given.
Unwind ==
    /\ mode = "panic" /\ at > 0
    /\ \/ stack[at] = "Recover" /\ Answer(500)
       \/ stack[at] # "Recover" /\ at' = at - 1 /\ UNCHANGED <<mode, output>>
    /\ UNCHANGED <<cfg, req, stack, identity, routed, notes, asked, ran,
                   panicked>>

MutLabel == "raw"            \* the label is taken before next.ServeHTTP

\* The path label of the metrics, read after the handler has returned.
Label == IF routed THEN "pattern" ELSE "raw"

Leaves(l) == mode = "up" /\ at > 0 /\ stack[at] = l

\* The layers that do nothing after next.ServeHTTP.
Return ==
    /\ mode = "up" /\ at > 0 /\ stack[at] \notin Wrappers
    /\ Back
    /\ UNCHANGED <<notes, panicked>>

\* Logger, after next.ServeHTTP.
Log ==
    /\ Leaves("Logger")
    /\ logged' = recorder["Logger"]
    /\ Back
    /\ UNCHANGED <<counted, panicked>>

\* Metrics, after next.ServeHTTP: WithLabelValues panics over a label that is
\* not valid UTF-8, when Logger has logged already.
Count ==
    /\ Leaves("Metrics")
    /\ \/ /\ Label = "pattern" \/ req.utf8
          /\ counted' = [status |-> recorder["Metrics"], path |-> Label]
          /\ Back
          /\ UNCHANGED panicked
       \/ /\ Label = "raw" /\ ~req.utf8
          /\ Break
          /\ UNCHANGED counted
    /\ UNCHANGED logged

\* net/http: a response without a status is a 200; a panic that reaches it
\* closes the connection.
Finish ==
    /\ at = 0
    /\ \/ /\ mode = "up"
          /\ mode' = "done"
          /\ sent' = IF sent = None THEN 200 ELSE sent
          /\ sentCors' = IF sent = None THEN cors ELSE sentCors
       \/ /\ mode = "panic"
          /\ mode' = "aborted"
          /\ UNCHANGED <<sent, sentCors>>
    /\ UNCHANGED <<cfg, req, stack, at, identity, routed, cors, recorder,
                   notes, asked, ran, panicked>>

Idle == mode \in {"done", "aborted"} /\ UNCHANGED vars

Down ==
    /\ Forward \/ Cors \/ Limit \/ Route \/ Auth \/ OrgAccess \/ RoleAccess
       \/ MetricsAuth \/ Handle
    /\ UNCHANGED <<cfg, req, stack, notes, panicked>>

Up ==
    /\ Return \/ Log \/ Count
    /\ UNCHANGED <<cfg, req, stack, identity, routed, output, asked, ran>>

Next == Down \/ Panic \/ Unwind \/ Up \/ Finish \/ Idle

Spec == Init /\ [][Next]_vars

-----------------------------------------------------------------------------

\* What Metrics counts and Logger logs is the status that the client was
\* sent, and what is counted is logged: also when the request was answered
\* half-way down the stack, or when its handler panicked after it had sent a
\* status, which Recover cannot change any more.  One that is logged is missing
\* from the metrics only if chi had no pattern for it and its path cannot be a
\* label, as it is not valid UTF-8.
RecordedIsSent == mode = "done" =>
    /\ counted # None => counted.status = sent /\ logged # None
    /\ logged # None => logged = sent
    /\ logged # None /\ counted = None => ~routed /\ ~req.utf8

\* A script of an allowed origin can read every answer, refusals and recovered
\* panics included: the CORS headers are set before anything else can answer.
OriginsCanReadAnswers == mode = "done" /\ req.known => sentCors

\* A handler runs only for a request that was not a preflight, that the
\* limiter has let pass (or exempts), and whose credentials satisfy its route;
\* one that needs an identity is closed, not open, if Auth was forgotten.
HandlersAreGuarded == ran =>
    /\ ~req.options
    /\ Exempt \/ asked
    /\ req.route \in Protected => identity # None /\ identity = req.claims
    /\ req.route = "org" => identity.org = req.org /\ identity.role \in Allowed
    /\ req.route = "metrics" /\ cfg.env = "production" => cfg.token /\ req.bearer

\* A preflight does not use up the client's requests: CORS answers it first.
PreflightsAreFree == req.options => ~asked

\* A panic never takes the connection away from the client: Recover answers
\* it with 500 unless a status has been sent already.
PanicsAreAnswered ==
    /\ mode # "aborted"
    /\ (mode = "done" /\ panicked = "early") => sent = 500

\* A request that reached its handler is counted under the route's pattern,
\* so that the metrics have a series for each route and not for each path.
CountedByPattern == ran /\ counted # None => counted.path = "pattern"
=============================================================================
