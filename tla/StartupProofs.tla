--------------------------- MODULE StartupProofs ---------------------------
(* What a server that has come up may rely on, for any process environments  *)
(* and .env files, whatever PostgreSQL and Redis answer.                     *)
EXTENDS Startup, TLAPS

\* The points of main that follow each of its checks.
AfterValidate == {"database", "redis", "sender", "runtime", "router", "serving"}
AfterDatabase == AfterValidate \ {"database"}
AfterRedis    == AfterDatabase \ {"redis"}
AfterSender   == AfterRedis \ {"sender"}
AfterRuntime  == AfterSender \ {"runtime"}

\* What main has checked stays true, for the environment does not change once
\* the .env file is loaded, and nothing is closed before main returns.
StartupInv ==
    /\ TypeOK
    /\ dotenv \in DotEnvs
    /\ pc \in AfterValidate => SecretOK
    /\ pc \in AfterDatabase => "db" \in opened
    /\ pc \in AfterRedis => "redis" \in opened
    /\ pc \in AfterSender => sender = ChooseSender /\ sender # "none"
    /\ pc \in AfterRuntime => RuntimeOK

LEMMA StartupInit == Init => StartupInv
  BY ValuesAssumption
  DEF Init, StartupInv, TypeOK, AfterValidate, AfterDatabase, AfterRedis,
      AfterSender, AfterRuntime

\* The file is merged into the environment before anything is checked.
LEMMA LoadKeeps ==
    ASSUME StartupInv, LoadDotEnv
    PROVE  StartupInv'
  <1>1. pc' = "parse" /\ UNCHANGED <<dotenv, sender, opened>>
    BY DEF LoadDotEnv, Step
  <1>2. /\ environ' \in [Names -> STRING]
        /\ \A v \in Names : environ'[v] \in Class[v] \cup {Unset}
    <2>1. /\ dotenv \in [Names -> STRING]
          /\ \A v \in Names : dotenv[v] \in Class[v] \cup {Unset}
      BY ValuesAssumption DEF StartupInv
    <2> QED
      BY <2>1 DEF StartupInv, TypeOK, LoadDotEnv
  <1>3. TypeOK'
    BY <1>1, <1>2 DEF StartupInv, TypeOK
  <1> QED
    BY <1>1, <1>3 DEF StartupInv, AfterValidate, AfterDatabase, AfterRedis,
                      AfterSender, AfterRuntime

\* The other steps of main leave the environment alone.
LEMMA StepKeeps ==
    ASSUME StartupInv, UNCHANGED <<environ, dotenv>>,
           \/ Parse \/ Validate \/ OpenDatabase \/ OpenRedis
           \/ BuildSender \/ ValidateRuntime \/ Serve \/ Done
    PROVE  StartupInv'
  <1> USE DEF Step, AfterValidate, AfterDatabase, AfterRedis, AfterSender,
              AfterRuntime
  <1>1. /\ SecretOK' = SecretOK /\ RuntimeOK' = (Fold(Env) = "production" =>
              /\ Getenv("APP_BASE_URL") # ""
              /\ "" \notin ResendFields
              /\ sender' # "noop")
        /\ ChooseSender' = ChooseSender
    BY DEF SecretOK, RuntimeOK, ChooseSender, ResendFields, Env, Getenv
  <1>2. TypeOK'
    <2> USE DEF StartupInv, TypeOK
    <2>1. CASE Parse \/ Validate \/ ValidateRuntime \/ Serve \/ Done
      BY <2>1 DEF Parse, Validate, ValidateRuntime, Serve, Done, vars
    <2>2. CASE OpenDatabase \/ OpenRedis
      BY <2>2 DEF OpenDatabase, OpenRedis, Open
    <2>3. CASE BuildSender
      BY <2>3 DEF BuildSender, ChooseSender
    <2> QED
      BY <2>1, <2>2, <2>3
  <1>3. CASE Parse \/ Validate
    BY <1>1, <1>2, <1>3 DEF StartupInv, Parse, Validate
  <1>4. CASE OpenDatabase \/ OpenRedis
    BY <1>1, <1>2, <1>4 DEF StartupInv, OpenDatabase, OpenRedis, Open
  <1>5. CASE BuildSender
    BY <1>1, <1>2, <1>5 DEF StartupInv, BuildSender
  <1>6. CASE ValidateRuntime \/ Serve \/ Done
    BY <1>1, <1>2, <1>6 DEF StartupInv, ValidateRuntime, Serve, Done, vars, RuntimeOK
  <1> QED
    BY <1>3, <1>4, <1>5, <1>6

LEMMA StartupStep == StartupInv /\ [Next]_vars => StartupInv'
  <1> SUFFICES ASSUME StartupInv, [Next]_vars PROVE StartupInv'
    OBVIOUS
  <1>1. CASE LoadDotEnv
    BY <1>1, LoadKeeps
  <1>2. CASE \/ Parse \/ Validate \/ OpenDatabase \/ OpenRedis
             \/ BuildSender \/ ValidateRuntime \/ Serve \/ Done
    <2>1. UNCHANGED <<environ, dotenv>>
      BY <1>2 DEF Parse, Validate, OpenDatabase, OpenRedis, Open, BuildSender,
                  ValidateRuntime, Serve, Done, vars
    <2> QED
      BY <1>2, <2>1, StepKeeps
  <1>3. CASE UNCHANGED vars
    BY <1>3 DEF vars, StartupInv, TypeOK, SecretOK, RuntimeOK, ChooseSender,
                ResendFields, Env, Getenv
  <1> QED
    BY <1>1, <1>2, <1>3 DEF Next

\* What main has checked stays true until it serves, whatever the environment.
THEOREM StartupInvariant == Spec => []StartupInv
  BY StartupInit, StartupStep, PTL DEF Spec

\* The environment has the values that the code tells apart, and main is at one
\* of its steps.
THEOREM StartupTypeTheorem == Spec => []TypeOK
  <1>1. StartupInv => TypeOK
    BY DEF StartupInv
  <1> QED
    BY <1>1, StartupInvariant, PTL

\* A production server, however its ENV is spelled, has a sender that can send
\* mail and an address of its own: no combination of variables and .env file
\* brings up another one (buildNotificationSender, validateRuntimeConfig).
THEOREM ProductionTheorem == Spec => []ProductionSendsMail
  <1>1. StartupInv => ProductionSendsMail
    <2> SUFFICES ASSUME StartupInv, pc = "serving", Fold(Env) = "production"
                 PROVE  /\ sender = "resend"
                        /\ "" \notin {Trim(f) : f \in ResendFields}
                        /\ Getenv("APP_BASE_URL") # ""
      BY DEF ProductionSendsMail
    <2>1. RuntimeOK /\ sender = ChooseSender /\ sender # "none"
      BY DEF StartupInv, AfterRuntime, AfterSender, AfterRedis, AfterDatabase,
             AfterValidate
    <2> QED
      BY <2>1 DEF RuntimeOK, ChooseSender
  <1> QED
    BY <1>1, StartupInvariant, PTL

\* A server that serves has a chosen secret and both stores, and uses the
\* Resend settings it was given, or was given none (Load, main).
THEOREM ConfiguredTheorem == Spec => []ServingIsConfigured
  <1>1. StartupInv => ServingIsConfigured
    <2> SUFFICES ASSUME StartupInv, pc = "serving"
                 PROVE  /\ Getenv("JWT_SECRET") = "long"
                        /\ opened = {"db", "redis"}
                        /\ sender = "noop" => ResendFields = {""}
      BY DEF ServingIsConfigured
    <2>1. /\ SecretOK /\ "db" \in opened /\ "redis" \in opened
          /\ sender = ChooseSender /\ opened \subseteq {"db", "redis"}
      BY DEF StartupInv, TypeOK, AfterSender, AfterRedis, AfterDatabase,
             AfterValidate
    <2> QED
      BY <2>1 DEF SecretOK, ChooseSender
  <1> QED
    BY <1>1, StartupInvariant, PTL
=============================================================================
