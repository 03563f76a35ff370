----------------------- MODULE ServerLifecycleProofs -----------------------
(* Proofs about ServerLifecycle, for any number of connections and requests. *)
EXTENDS ServerLifecycle, TLAPS

\* What the process starts with, and a step that changes nothing.
LEMMA InitInv == Init => LifecycleInv
<1> SUFFICES ASSUME Init PROVE LifecycleInv
  OBVIOUS
<1>1. TypeOK
  <2>1. 0 \in 0..MaxRequests
    BY RequestsAssumption
  <2> QED
    BY <2>1 DEF Init, TypeOK, Resources
<1> QED
  BY <1>1 DEF Init, LifecycleInv

LEMMA StutterInv == LifecycleInv /\ UNCHANGED vars => LifecycleInv'
  BY DEF vars, LifecycleInv, TypeOK, InStart, Exits, Resources

\* The main goroutine: Start, shutdown and the deferred calls.
LEMMA MainInv == LifecycleInv /\ MainStep => LifecycleInv'
<1> SUFFICES ASSUME LifecycleInv, MainStep PROVE LifecycleInv'
  OBVIOUS
<1> USE DEF LifecycleInv, TypeOK, InStart, Exits, Resources, net
<1>1. CASE Start             BY <1>1 DEF Start
<1>2. CASE ListenerEnds      BY <1>2 DEF ListenerEnds
<1>3. CASE SignalEnds        BY <1>3 DEF SignalEnds
<1>4. CASE ShutdownReturns   BY <1>4 DEF ShutdownReturns
<1>5. CASE DeadlinePasses    BY <1>5 DEF DeadlinePasses
<1>6. CASE Close             BY <1>6 DEF Close, AfterClose
<1>7. CASE Drain             BY <1>7 DEF Drain
<1>8. CASE ExitFailed        BY <1>8 DEF ExitFailed
<1>9. CASE CloseResource     BY <1>9 DEF CloseResource
<1>10. CASE ExitStopped      BY <1>10 DEF ExitStopped, Running
<1> QED
  BY <1>1, <1>2, <1>3, <1>4, <1>5, <1>6, <1>7, <1>8, <1>9, <1>10 DEF MainStep

\* The goroutine of ListenAndServe.
LEMMA ListenerInv == LifecycleInv /\ ListenerStep => LifecycleInv'
<1> SUFFICES ASSUME LifecycleInv, ListenerStep PROVE LifecycleInv'
  OBVIOUS
<1> USE DEF LifecycleInv, TypeOK, InStart, Exits, Resources, net, Alive
<1>1. CASE ListenFails       BY <1>1 DEF ListenFails
<1>2. CASE Listen            BY <1>2 DEF Listen
<1>3. CASE ServerClosed      BY <1>3 DEF ServerClosed
<1>4. CASE SendResult        BY <1>4 DEF SendResult
<1> QED
  BY <1>1, <1>2, <1>3, <1>4 DEF ListenerStep

\* Connections and handlers.
LEMMA ConnInv == ASSUME NEW c \in Conn, LifecycleInv, ConnStep(c)
                 PROVE  LifecycleInv'
<1> USE DEF LifecycleInv, TypeOK, InStart, Exits, Resources, SetConn, Alive
<1>1. CASE Accept(c)         BY <1>1 DEF Accept
<1>2. CASE ReadRequest(c)    BY <1>2, RequestsAssumption DEF ReadRequest
<1>3. CASE AnswerRequest(c)  BY <1>3 DEF AnswerRequest
<1>4. CASE EndSevered(c)     BY <1>4 DEF EndSevered
<1>5. CASE CloseQuiet(c)     BY <1>5 DEF CloseQuiet
<1> QED
  BY <1>1, <1>2, <1>3, <1>4, <1>5 DEF ConnStep

\* Signals, at any time.
LEMMA SignalInv == LifecycleInv /\ Signal => LifecycleInv'
<1> SUFFICES ASSUME LifecycleInv, Signal PROVE LifecycleInv'
  OBVIOUS
<1> USE DEF LifecycleInv, TypeOK, InStart, Exits, Resources, Signal, Alive, net
<1>1. CASE main = "boot"
  BY <1>1
<1>2. CASE main # "boot"
  BY <1>2
<1> QED
  BY <1>1, <1>2

\* Every step of the process keeps the invariant.
LEMMA NextInv == LifecycleInv /\ [Next]_vars => LifecycleInv'
  BY StutterInv, MainInv, ListenerInv, ConnInv, SignalInv DEF Next, Exited

\* The invariant of the run, for every set of connections.
THEOREM LifecycleTheorem == Spec => []LifecycleInv
  BY InitInv, NextInv, PTL DEF Spec

\* A process that ends with status 0 has cut no request off and leaves no
\* handler running: Start returns Shutdown's error.
THEOREM CleanExitTheorem == Spec => []CleanExitCutsNothing
<1>1. LifecycleInv => CleanExitCutsNothing
  BY DEF LifecycleInv, CleanExitCutsNothing, Running
<1> QED
  BY <1>1, LifecycleTheorem, PTL

\* As long as a handler runs in a live process, the database pool and the Redis
\* client are open: main leaves with os.Exit after an error.
THEOREM ResourcesTheorem == Spec => []ResourcesOutliveHandlers
<1>1. LifecycleInv => ResourcesOutliveHandlers
  BY DEF LifecycleInv, ResourcesOutliveHandlers, Running, Alive, Exits
<1> QED
  BY <1>1, LifecycleTheorem, PTL

\* Status 0 means that the listener ended because it was shut down: the drain
\* finds the error of a listener that failed while the signal was handled.
THEOREM ListenerErrorTheorem == Spec => []ListenerErrorIsReported
<1>1. LifecycleInv => ListenerErrorIsReported
  BY DEF LifecycleInv, ListenerErrorIsReported
<1> QED
  BY <1>1, LifecycleTheorem, PTL
=============================================================================
