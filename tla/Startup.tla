------------------------------ MODULE Startup ------------------------------
(***************************************************************************)
(* How cmd/server comes up: main reads the configuration from the process  *)
(* environment and the .env file, opens PostgreSQL and Redis, chooses the  *)
(* notification sender and validates what production requires, before it   *)
(* serves; any error ends the process with status 1.                       *)
(*                                                                         *)
(* A value of an environment variable is one of the classes that the code  *)
(* tells apart; ENV has two spellings of production, which count as one.   *)
(***************************************************************************)
EXTENDS Integers, FiniteSets

CONSTANTS
    Environments,   \* the process environments of a run
    DotEnvs,        \* the .env files of a run
    MayBeDown       \* whether PostgreSQL or Redis may not answer

Unset == "unset"    \* not in os.Environ, or not in the file
Blank == " "        \* white space only: not "", but "" after TrimSpace

\* The variables Load reads, and the classes of their values.
Secrets == {"", "placeholder", "short", "long"}
Urls    == {"", "malformed", "url"}
Texts   == {"", Blank, "text"}
Parsed  == {"", "malformed", "value"}
Class ==
    [ENV |-> {"", "development", "production", "Production"},
     DATABASE_URL |-> Urls, REDIS_URL |-> Urls, JWT_SECRET |-> Secrets,
     RESEND_API_KEY |-> Texts, EMAIL_FROM |-> Texts, EMAIL_FROM_NAME |-> Texts,
     APP_BASE_URL |-> {"", "text"},
     TRUST_PROXY_HEADERS |-> Parsed, TRUSTED_PROXY_CIDRS |-> Parsed,
     JWT_EXPIRY |-> Parsed, REFRESH_EXPIRY |-> Parsed]
Names == DOMAIN Class

\* A process environment or a .env file has no other values.
ASSUME ValuesAssumption ==
    \A e \in Environments \cup DotEnvs :
        /\ e \in [Names -> STRING]
        /\ \A v \in Names : e[v] \in Class[v] \cup {Unset}

VARIABLES
    environ,    \* the process environment, .env included once it is loaded
    dotenv,     \* the .env file
    pc,         \* what main does next
    sender,     \* "none", "noop" or "resend"
    opened      \* the resources main has opened

vars == <<environ, dotenv, pc, sender, opened>>

TypeOK ==
    /\ environ \in [Names -> STRING] /\ dotenv \in [Names -> STRING]
    /\ \A v \in Names : environ[v] \in Class[v] \cup {Unset}
    /\ pc \in {"load", "parse", "validate", "database", "redis", "sender",
               "runtime", "router", "serving", "exit1"}
    /\ sender \in {"none", "noop", "resend"}
    /\ opened \subseteq {"db", "redis"}

Init ==
    /\ environ \in Environments
    /\ dotenv \in DotEnvs
    /\ pc = "load"
    /\ sender = "none"
    /\ opened = {}

Getenv(v) == IF environ[v] = Unset THEN "" ELSE environ[v]
Fold(env) == IF env = "Production" THEN "production" ELSE env   \* EqualFold
Trim(text) == IF text = Blank THEN "" ELSE text
Env == IF Getenv("ENV") = "" THEN "development" ELSE Getenv("ENV")

\* A step of main that succeeds under ok, and ends the process otherwise.
Step(from, to, ok) ==
    /\ pc = from
    /\ pc' = IF ok THEN to ELSE "exit1"

-----------------------------------------------------------------------------
(* config.Load.                                                            *)

\* godotenv.Load: the file adds the variables that the process does not have.
LoadDotEnv ==
    /\ Step("load", "parse", TRUE)
    /\ environ' = [v \in Names |->
                      IF environ[v] = Unset THEN dotenv[v] ELSE environ[v]]
    /\ UNCHANGED <<dotenv, sender, opened>>

Parse ==
    /\ Step("parse", "validate",
            \A v \in {"TRUST_PROXY_HEADERS", "TRUSTED_PROXY_CIDRS",
                      "JWT_EXPIRY", "REFRESH_EXPIRY"} : Getenv(v) # "malformed")
    /\ UNCHANGED <<environ, dotenv, sender, opened>>

SecretOK == Getenv("JWT_SECRET") = "long"

Validate ==
    /\ Step("validate", "database",
            Getenv("DATABASE_URL") # "" /\ Getenv("REDIS_URL") # "" /\ SecretOK)
    /\ UNCHANGED <<environ, dotenv, sender, opened>>

-----------------------------------------------------------------------------
(* main.                                                                   *)

\* database.New and cache.New parse the URL and ping.
Open(from, to, resource, url) ==
    \E answers \in (IF MayBeDown THEN BOOLEAN ELSE {TRUE}) :
        LET ok == answers /\ Getenv(url) = "url" IN
        /\ Step(from, to, ok)
        /\ opened' = IF ok THEN opened \cup {resource} ELSE opened
        /\ UNCHANGED <<environ, dotenv, sender>>

OpenDatabase == Open("database", "redis", "db", "DATABASE_URL")
OpenRedis    == Open("redis", "sender", "redis", "REDIS_URL")

ResendFields == {Getenv("RESEND_API_KEY"), Getenv("EMAIL_FROM"),
                 Getenv("EMAIL_FROM_NAME")}

MutChooseSender ==      \* an incomplete configuration falls back to noop
    IF "" \in {Trim(f) : f \in ResendFields} THEN "noop" ELSE "resend"
MutNilSender ==         \* ... or leaves the variable nil
    IF ResendFields = {""} THEN "noop"
    ELSE IF "" \in ResendFields THEN "nil" ELSE "resend"

\* buildNotificationSender, with NewResendSender trimming what it is given.
ChooseSender ==
    IF ResendFields = {""} THEN "noop"
    ELSE IF "" \in ResendFields \/ "" \in {Trim(f) : f \in ResendFields}
         THEN "none" ELSE "resend"

BuildSender ==
    /\ Step("sender", "runtime", ChooseSender # "none")
    /\ sender' = ChooseSender
    /\ UNCHANGED <<environ, dotenv, opened>>

MutRuntimeOK ==         \* cfg.Env == "production", as in NewRouter
    Env = "production" =>
        Getenv("APP_BASE_URL") # "" /\ "" \notin ResendFields /\ sender # "noop"

\* validateRuntimeConfig.
RuntimeOK ==
    Fold(Env) = "production" =>
        /\ Getenv("APP_BASE_URL") # ""
        /\ "" \notin ResendFields
        /\ sender # "noop"

ValidateRuntime ==
    /\ Step("runtime", "router", RuntimeOK)
    /\ UNCHANGED <<environ, dotenv, sender, opened>>

\* NewRouter and Start: ServerLifecycle and Pipeline take over.
Serve ==
    /\ Step("router", "serving", TRUE)
    /\ UNCHANGED <<environ, dotenv, sender, opened>>

Done == pc \in {"serving", "exit1"} /\ UNCHANGED vars

Next ==
    \/ LoadDotEnv \/ Parse \/ Validate \/ OpenDatabase \/ OpenRedis
    \/ BuildSender \/ ValidateRuntime \/ Serve \/ Done

Spec == Init /\ [][Next]_vars

-----------------------------------------------------------------------------
(* What a server that accepts requests may rely on.                        *)

\* A production server, however its ENV is spelled, can send the reset mails
\* it promises and put its own address into them (buildNotificationSender and
\* validateRuntimeConfig).
ProductionSendsMail ==
    pc = "serving" /\ Fold(Env) = "production" =>
        /\ sender = "resend"
        /\ "" \notin {Trim(f) : f \in ResendFields}
        /\ Getenv("APP_BASE_URL") # ""

\* No configuration that is only half filled in comes up: a secret that signs
\* tokens has been chosen, both stores have answered, and a Resend setting is
\* used or absent, never ignored (Load, main).
ServingIsConfigured ==
    pc = "serving" =>
        /\ Getenv("JWT_SECRET") = "long"
        /\ opened = {"db", "redis"}
        /\ sender = "noop" => ResendFields = {""}

=============================================================================
