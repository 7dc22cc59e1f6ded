----------------------- MODULE ServerLifecycleProofs -----------------------
(***************************************************************************)
(* Proofs about ServerLifecycle, for any calls and requests.               *)
(***************************************************************************)
EXTENDS ServerLifecycle, TLAPS

\* The variables keep their types; the servers run once the group is made, and
\* the closer has read the context unless it was just born.
THEOREM TypeCorrect == Spec => []TypeOK
<1>1. Init => TypeOK
  BY DEF Init, TypeOK
<1>2. TypeOK /\ [Next]_vars => TypeOK'
  <2> SUFFICES ASSUME TypeOK, [Next]_vars PROVE TypeOK'
    OBVIOUS
  <2> USE DEF TypeOK, startVars, closerVars, serverVars, workVars, CancelsGroup
  <2>1. CASE Signal
    BY <2>1 DEF Signal
  <2>2. CASE StartStep
    <3>1. CASE Registers
      BY <3>1 DEF Registers
    <3>2. CASE RegisterFails
      BY <3>2 DEF RegisterFails
    <3>3. CASE StartCloser
      BY <3>3 DEF StartCloser
    <3>4. CASE MakeGroup
      BY <3>4 DEF MakeGroup
    <3>5. CASE StartReturns
      BY <3>5 DEF StartReturns
    <3> QED
      BY <2>2, <3>1, <3>2, <3>3, <3>4, <3>5 DEF StartStep
  <2>3. CASE CloserStep
    <3>1. ASSUME NEW which \in {"given", "group"}, ReadsContext(which) PROVE TypeOK'
      BY <3>1 DEF ReadsContext
    <3>2. CASE CallsShutdown
      BY <3>2 DEF CallsShutdown
    <3>3. CASE ShutdownEnds
      BY <3>3 DEF ShutdownEnds
    <3>4. CASE ShutdownTimesOut
      BY <3>4 DEF ShutdownTimesOut
    <3>5. CASE StopEnds
      BY <3>5 DEF StopEnds
    <3>6. CASE CloseConns
      BY <3>6 DEF CloseConns
    <3> QED
      BY <2>3, <3>1, <3>2, <3>3, <3>4, <3>5, <3>6 DEF CloserStep
  <2>4. CASE ServerStep
    <3>1. CASE HttpListens
      BY <3>1 DEF HttpListens
    <3>2. CASE HttpFails
      BY <3>2 DEF HttpFails
    <3>3. CASE HttpCloses
      BY <3>3 DEF HttpCloses
    <3>4. CASE GrpcListens
      BY <3>4 DEF GrpcListens
    <3>5. CASE GrpcComesLate
      BY <3>5 DEF GrpcComesLate
    <3>6. CASE GrpcFails
      BY <3>6 DEF GrpcFails
    <3>7. CASE GrpcDrains
      BY <3>7 DEF GrpcDrains
    <3> QED
      BY <2>4, <3>1, <3>2, <3>3, <3>4, <3>5, <3>6, <3>7 DEF ServerStep, ServerRuns
  <2>5. CASE WorkStep
    BY <2>5 DEF WorkStep, CallBegins, CallEnds, VisitBegins, VisitEnds
  <2>6. CASE UNCHANGED vars
    BY <2>6 DEF vars
  <2> QED
    BY <2>1, <2>2, <2>3, <2>4, <2>5, <2>6 DEF Next
<1> QED
  BY <1>1, <1>2, PTL DEF Spec
-----------------------------------------------------------------------------
\* What the closer has done says what may still run: nothing begins behind
\* Shutdown and GracefulStop, Serve waits for the latter, and Start for Serve.
Draining ==
    /\ closer \in {"shutdown", "stop", "conns", "done"} <=> httpDown
    /\ closer \in {"stop", "conns", "done"} <=> grpcDown
    /\ grpcDown => visits = {} \/ timedOut
    /\ closer \in {"conns", "done"} => calls = {}
    /\ grpc = "drained" => closer \in {"conns", "done"}
    /\ main = "ok" => grpc = "drained"

LEMMA DrainingInductive ==
  ASSUME TypeOK, Draining, [Next]_vars
  PROVE  Draining'
<1> USE DEF TypeOK, Draining, startVars, closerVars, serverVars, workVars,
        CancelsGroup, Returned
<1>1. CASE Signal
  BY <1>1 DEF Signal
<1>2. CASE StartStep
  <2>1. CASE Registers
    BY <2>1 DEF Registers
  <2>2. CASE RegisterFails
    BY <2>2 DEF RegisterFails
  <2>3. CASE StartCloser
    BY <2>3 DEF StartCloser
  <2>4. CASE MakeGroup
    BY <2>4 DEF MakeGroup
  <2>5. CASE StartReturns
    BY <2>5 DEF StartReturns
  <2> QED
    BY <1>2, <2>1, <2>2, <2>3, <2>4, <2>5 DEF StartStep
<1>3. CASE CloserStep
  <2>1. ASSUME NEW which \in {"given", "group"}, ReadsContext(which) PROVE Draining'
    BY <2>1 DEF ReadsContext
  <2>2. CASE CallsShutdown
    BY <2>2 DEF CallsShutdown
  <2>3. CASE ShutdownEnds
    BY <2>3 DEF ShutdownEnds
  <2>4. CASE ShutdownTimesOut
    BY <2>4 DEF ShutdownTimesOut
  <2>5. CASE StopEnds
    BY <2>5 DEF StopEnds
  <2>6. CASE CloseConns
    BY <2>6 DEF CloseConns
  <2> QED
    BY <1>3, <2>1, <2>2, <2>3, <2>4, <2>5, <2>6 DEF CloserStep
<1>4. CASE ServerStep
  <2>1. CASE HttpListens
    BY <2>1 DEF HttpListens
  <2>2. CASE HttpFails
    BY <2>2 DEF HttpFails
  <2>3. CASE HttpCloses
    BY <2>3 DEF HttpCloses
  <2>4. CASE GrpcListens
    BY <2>4 DEF GrpcListens
  <2>5. CASE GrpcComesLate
    BY <2>5 DEF GrpcComesLate
  <2>6. CASE GrpcFails
    BY <2>6 DEF GrpcFails
  <2>7. CASE GrpcDrains
    BY <2>7 DEF GrpcDrains
  <2> QED
    BY <1>4, <2>1, <2>2, <2>3, <2>4, <2>5, <2>6, <2>7 DEF ServerStep, ServerRuns
<1>5. CASE WorkStep
  BY <1>5 DEF WorkStep, CallBegins, CallEnds, VisitBegins, VisitEnds
<1>6. CASE UNCHANGED vars
  BY <1>6 DEF vars
<1> QED
  BY <1>1, <1>2, <1>3, <1>4, <1>5, <1>6 DEF Next

LEMMA DrainingInvariant == Spec => []Draining
<1>1. Init => Draining
  BY DEF Init, Draining
<1>2. TypeOK /\ Draining /\ [Next]_vars => Draining'
  BY DrainingInductive
<1> QED
  BY <1>1, <1>2, TypeCorrect, PTL DEF Spec

\* A Start that returns without an error has served every call to its end.
THEOREM CleanExitServedAll == Spec => []CleanExitDrains
<1>1. Draining => CleanExitDrains
  BY DEF Draining, CleanExitDrains
<1> QED
  BY <1>1, DrainingInvariant, PTL

\* No heartbeat is in its handler while central closes the clients.
THEOREM AgentsAreSafe == Spec => []AgentsNotIteratedWhileWritten
<1>1. Draining => AgentsNotIteratedWhileWritten
  BY DEF Draining, AgentsNotIteratedWhileWritten
<1> QED
  BY <1>1, DrainingInvariant, PTL
=============================================================================
