-------------------------- MODULE ServerLifecycle --------------------------
(***************************************************************************)
(* The life of the process from the moment main has opened its resources:  *)
(* Server.Start with its listener goroutine, its two channels and the      *)
(* graceful shutdown, and what main does with its result.                  *)
(*                                                                         *)
(* net/http is external: a connection is new until a request's header has  *)
(* been read, active while a handler runs, and idle between requests.      *)
(* Server.Shutdown closes the listeners, waits for Serve to return, closes *)
(* idle connections at every poll and returns when none is left;           *)
(* Server.Close cuts connections but does not stop handlers.  The fifteen  *)
(* seconds of the shutdown context are one event that may come at any time *)
(* after Shutdown was called.                                              *)
(***************************************************************************)
EXTENDS Integers, FiniteSets

CONSTANTS
    Conn,           \* the connections of a run
    MaxRequests     \* bound: requests that one connection carries

ASSUME RequestsAssumption == MaxRequests \in Nat \ {0}

VARIABLES
    main,       \* where the main goroutine is
    listener,   \* where the goroutine of ListenAndServe is
    serverErr,  \* the channel's one slot
    shutdown,   \* whether a signal is in the other channel's slot
    inShutdown, \* http.Server's flag
    conn,       \* state of each connection
    served,     \* requests each connection has brought so far
    cut,        \* connections whose request was cut off
    open        \* resources main has not closed

vars == <<main, listener, serverErr, shutdown, inShutdown,
          conn, served, cut, open>>
net  == <<conn, served, cut>>

Resources == {"db", "redis"}
Exits     == {"exit0", "exit1", "killed"}
InStart   == {"select", "shutdown", "close", "drain"}
Alive     == main \notin Exits

TypeOK ==
    /\ main \in {"boot", "failed", "stopped"} \cup InStart \cup Exits
    /\ listener \in {"none", "starting", "serving", "failed", "closed",
                    "sentFailed", "sentClosed"}
    /\ serverErr \in {"empty", "error", "ErrServerClosed"}
    /\ shutdown \in BOOLEAN /\ inShutdown \in BOOLEAN
    /\ conn \in [Conn -> {"none", "new", "active", "idle", "closed", "severed"}]
    /\ served \in [Conn -> 0..MaxRequests]
    /\ cut \subseteq Conn
    /\ open \subseteq Resources

Init ==
    /\ main = "boot"
    /\ listener = "none"
    /\ serverErr = "empty"
    /\ shutdown = FALSE /\ inShutdown = FALSE
    /\ conn = [c \in Conn |-> "none"]
    /\ served = [c \in Conn |-> 0]
    /\ cut = {}
    /\ open = Resources

Running(c) == conn[c] \in {"active", "severed"}     \* a handler is at work

-----------------------------------------------------------------------------
(* The main goroutine.                                                     *)

\* signal.Notify, then the goroutine that listens.
Start ==
    /\ main = "boot"
    /\ main' = "select"
    /\ listener' = "starting"
    /\ UNCHANGED <<serverErr, shutdown, inShutdown, net, open>>

MutListenerEnds == FALSE /\ UNCHANGED vars      \* waits for the signal only

\* case err := <-serverErr
ListenerEnds ==
    /\ main = "select"
    /\ serverErr # "empty"
    /\ main' = IF serverErr = "error" THEN "failed" ELSE "stopped"
    /\ serverErr' = "empty"
    /\ UNCHANGED <<listener, shutdown, inShutdown, net, open>>

\* case sig := <-shutdown, and the call of Shutdown.
SignalEnds ==
    /\ main = "select"
    /\ shutdown
    /\ main' = "shutdown"
    /\ shutdown' = FALSE
    /\ inShutdown' = TRUE
    /\ UNCHANGED <<listener, serverErr, net, open>>

MutShutdownReturns ==   \* goes on to the deferred closes without the drain
    /\ main = "shutdown"
    /\ listener # "serving"
    /\ \A c \in Conn : conn[c] \notin {"new", "active"}
    /\ main' = "stopped"
    /\ conn' = [c \in Conn |-> IF conn[c] = "idle" THEN "closed" ELSE conn[c]]
    /\ UNCHANGED <<listener, serverErr, shutdown, inShutdown, served, cut, open>>

\* A poll of Shutdown that leaves no connection behind.
ShutdownReturns ==
    /\ main = "shutdown"
    /\ listener # "serving"
    /\ \A c \in Conn : conn[c] \notin {"new", "active"}
    /\ main' = "drain"
    /\ conn' = [c \in Conn |-> IF conn[c] = "idle" THEN "closed" ELSE conn[c]]
    /\ UNCHANGED <<listener, serverErr, shutdown, inShutdown, served, cut, open>>

MutDeadlinePasses == FALSE /\ UNCHANGED vars    \* Shutdown(context.Background())

\* The context of Shutdown is done first.
DeadlinePasses ==
    /\ main = "shutdown"
    /\ main' = "close"
    /\ UNCHANGED <<listener, serverErr, shutdown, inShutdown, net, open>>

MutAfterClose == "drain"    \* the error of Shutdown is only logged
AfterClose == "failed"

\* Close, and the error that Start returns for it.
Close ==
    /\ main = "close"
    /\ conn' = [c \in Conn |-> IF conn[c] = "active" THEN "severed"
                               ELSE IF conn[c] = "none" THEN "none" ELSE "closed"]
    /\ cut' = cut \cup {c \in Conn : conn[c] = "active"}
    /\ main' = AfterClose
    /\ UNCHANGED <<listener, serverErr, shutdown, inShutdown, served, open>>

\* err := <-serverErr
Drain ==
    /\ main = "drain"
    /\ serverErr # "empty"
    /\ main' = IF serverErr = "error" THEN "failed" ELSE "stopped"
    /\ serverErr' = "empty"
    /\ UNCHANGED <<listener, shutdown, inShutdown, net, open>>

\* log.Fatal style: the deferred closes run before the process ends.
MutExitFailed ==
    /\ main = "failed"
    /\ IF open = {} THEN main' = "exit1" /\ UNCHANGED open
                    ELSE UNCHANGED main /\ open' = {}
    /\ UNCHANGED <<listener, serverErr, shutdown, inShutdown, net>>

\* os.Exit(1): no deferred call runs, every handler ends where it is.
ExitFailed ==
    /\ main = "failed"
    /\ main' = "exit1"
    /\ cut' = cut \cup {c \in Conn : Running(c)}
    /\ UNCHANGED <<listener, serverErr, shutdown, inShutdown, conn, served, open>>

\* The deferred calls of main, last one first.
CloseResource ==
    /\ main = "stopped"
    /\ open # {}
    /\ open' = IF "redis" \in open THEN open \ {"redis"} ELSE {}
    /\ UNCHANGED <<main, listener, serverErr, shutdown, inShutdown, net>>

ExitStopped ==
    /\ main = "stopped"
    /\ open = {}
    /\ main' = "exit0"
    /\ cut' = cut \cup {c \in Conn : Running(c)}
    /\ UNCHANGED <<listener, serverErr, shutdown, inShutdown, conn, served, open>>

-----------------------------------------------------------------------------
(* The goroutine of ListenAndServe.                                        *)

\* The port is taken, which may show when Shutdown has begun (ListenAndServe
\* looks at the flag only before net.Listen), or Accept fails for good.
ListenFails ==
    /\ Alive
    /\ listener = "starting" \/ (listener = "serving" /\ ~inShutdown)
    /\ listener' = "failed"
    /\ UNCHANGED <<main, serverErr, shutdown, inShutdown, net, open>>

Listen ==
    /\ Alive
    /\ listener = "starting" /\ ~inShutdown
    /\ listener' = "serving"
    /\ UNCHANGED <<main, serverErr, shutdown, inShutdown, net, open>>

\* ListenAndServe or Serve finds the flag set and its listener closed.
ServerClosed ==
    /\ Alive
    /\ listener \in {"starting", "serving"} /\ inShutdown
    /\ listener' = "closed"
    /\ UNCHANGED <<main, serverErr, shutdown, inShutdown, net, open>>

\* serverErr <- s.httpServer.ListenAndServe()
SendResult ==
    /\ Alive
    /\ listener \in {"failed", "closed"}
    /\ serverErr = "empty"
    /\ serverErr' = IF listener = "failed" THEN "error" ELSE "ErrServerClosed"
    /\ listener' = IF listener = "failed" THEN "sentFailed" ELSE "sentClosed"
    /\ UNCHANGED <<main, shutdown, inShutdown, net, open>>

-----------------------------------------------------------------------------
(* Connections, their handlers, and signals.                               *)

SetConn(c, from, to) ==
    /\ Alive
    /\ conn[c] \in from
    /\ conn' = [conn EXCEPT ![c] = to]
    /\ UNCHANGED <<main, listener, serverErr, shutdown, inShutdown, open>>

Accept(c) ==
    /\ listener = "serving"
    /\ SetConn(c, {"none"}, "new")
    /\ UNCHANGED <<served, cut>>

ReadRequest(c) ==
    /\ served[c] < MaxRequests
    /\ SetConn(c, {"new", "idle"}, "active")
    /\ served' = [served EXCEPT ![c] = @ + 1]
    /\ UNCHANGED cut

\* Keep-alive ends with the shutdown.
AnswerRequest(c) ==
    /\ SetConn(c, {"active"}, IF inShutdown THEN "closed" ELSE "idle")
    /\ UNCHANGED <<served, cut>>

\* A handler whose connection Close has cut comes to its end.
EndSevered(c) ==
    /\ SetConn(c, {"severed"}, "closed")
    /\ UNCHANGED <<served, cut>>

\* ReadHeaderTimeout or IdleTimeout, or the client goes away.
CloseQuiet(c) ==
    /\ SetConn(c, {"new", "idle"}, "closed")
    /\ UNCHANGED <<served, cut>>

\* SIGINT or SIGTERM: before Notify it ends the process, a second one finds
\* the slot taken or nobody who reads it.
Signal ==
    /\ Alive
    /\ IF main = "boot" THEN main' = "killed" /\ UNCHANGED shutdown
                        ELSE shutdown' = TRUE /\ UNCHANGED main
    /\ UNCHANGED <<listener, serverErr, inShutdown, net, open>>

Exited == ~Alive /\ UNCHANGED vars

-----------------------------------------------------------------------------

MainStep ==
    \/ Start \/ ListenerEnds \/ SignalEnds \/ ShutdownReturns \/ DeadlinePasses
    \/ Close \/ Drain \/ ExitFailed \/ CloseResource \/ ExitStopped
ListenerStep == ListenFails \/ Listen \/ ServerClosed \/ SendResult
ConnStep(c) ==
    \/ Accept(c) \/ ReadRequest(c) \/ AnswerRequest(c)
    \/ EndSevered(c) \/ CloseQuiet(c)

Next ==
    \/ MainStep \/ ListenerStep \/ Signal \/ Exited
    \/ \E c \in Conn : ConnStep(c)

\* Goroutines that can run do, and the shutdown context expires; clients and
\* handlers owe nothing: a handler may wait for PostgreSQL or for the mail
\* provider longer than any shutdown.
Fairness == WF_vars(MainStep) /\ WF_vars(ListenerStep)

Spec     == Init /\ [][Next]_vars
FairSpec == Spec /\ Fairness

-----------------------------------------------------------------------------

\* When the process ends with status 0, every request whose handler had
\* started has run to its end and been answered: the deployment that sees a
\* clean exit has lost nothing (Start: Shutdown's error is returned).
CleanExitCutsNothing ==
    main \in {"drain", "stopped", "exit0"} =>
        /\ cut = {}
        /\ \A c \in Conn : ~Running(c)

\* No handler ever finds the database or Redis closed under it, not even one
\* that outlived the deadline and whose connection was cut (main: os.Exit
\* instead of a return after an error).
ResourcesOutliveHandlers ==
    Alive /\ (\E c \in Conn : Running(c)) => open = Resources

\* A listener that failed is never reported as a clean exit, also when the
\* signal came at the same time and won the select (Start: the drain).
ListenerErrorIsReported == main = "exit0" => listener = "sentClosed"

\* The inductive invariant behind the three: which goroutine can be where, what
\* the channel holds, and when a connection can be cut or a resource closed.
LifecycleInv ==
    /\ TypeOK
    /\ main = "boot" => listener = "none"
    /\ main \in {"boot", "select"} => ~inShutdown
    /\ main \in {"shutdown", "close", "drain", "stopped", "exit0"} => inShutdown
    /\ listener \in {"closed", "sentClosed"} => inShutdown
    /\ serverErr = "error" => listener = "sentFailed"
    /\ serverErr = "ErrServerClosed" => listener = "sentClosed"
    /\ main \in {"stopped", "exit0"} => listener = "sentClosed"
    /\ main \in {"boot", "select", "shutdown", "close"} => cut = {}
    /\ \A c \in Conn : conn[c] = "severed" => main \in {"failed", "exit1"}
    /\ main \in {"drain", "stopped", "exit0"} =>
          /\ listener # "serving"
          /\ cut = {}
          /\ \A c \in Conn : conn[c] \in {"none", "closed"}
    /\ open # Resources => main \in {"stopped", "exit0"}

\* A signal that Start has been set up for ends the process, however long the
\* handlers run; so does a listener that fails.
SignalEndsProcess == (main = "select" /\ shutdown) ~> ~Alive
FailureEndsProcess == listener = "failed" ~> ~Alive
=============================================================================
