----------------------------- MODULE MCStartup -----------------------------
(* Small instances of Startup for TLC.                                       *)
EXTENDS Startup

\* A process environment that sets nothing.
Nothing == [v \in Names |-> Unset]

Usual ==
    [ENV |-> "development", DATABASE_URL |-> "url", REDIS_URL |-> "url",
     JWT_SECRET |-> "long",
     RESEND_API_KEY |-> "", EMAIL_FROM |-> "", EMAIL_FROM_NAME |-> "",
     APP_BASE_URL |-> "",
     TRUST_PROXY_HEADERS |-> "", TRUSTED_PROXY_CIDRS |-> "",
     JWT_EXPIRY |-> "", REFRESH_EXPIRY |-> ""]

\* Every combination of the variables that main weighs against each other ...
Weighed ==
    {[Usual EXCEPT !.ENV = e, !.JWT_SECRET = s, !.RESEND_API_KEY = k,
                   !.EMAIL_FROM = f, !.EMAIL_FROM_NAME = n,
                   !.APP_BASE_URL = a] :
        e \in Class["ENV"], s \in Secrets, k \in Texts, f \in Texts,
        n \in Texts, a \in {"", "text"}}
\* ... and each variable on its own with every value it may have.
OneByOne ==
    UNION {{[Usual EXCEPT ![v] = x] : x \in Class[v] \cup {Unset}} : v \in Names}
AllEnvirons == Weighed \cup OneByOne \cup {Nothing}

\* .env.example, with another JWT_SECRET.
Example ==
    [Usual EXCEPT !.EMAIL_FROM = "text", !.EMAIL_FROM_NAME = "text",
                  !.APP_BASE_URL = "text", !.TRUST_PROXY_HEADERS = "value",
                  !.JWT_EXPIRY = "value", !.REFRESH_EXPIRY = "value"]

\* No .env file, that one, and one that is complete.
Files == {Nothing, Example, [Example EXCEPT !.RESEND_API_KEY = "text"]}
=============================================================================
