--------------------------- MODULE ServerLifecycle ---------------------------
(***************************************************************************)
(* How central and the agents start and stop: Start runs an HTTP server    *)
(* and a gRPC server in an errgroup, and a goroutine, here the closer,     *)
(* that shuts both down when the context is cancelled.                     *)
(*                                                                         *)
(* Start declares `g, ctx := errgroup.WithContext(ctx)` in the block of    *)
(* its parameter ctx, so the variable the closer captured is assigned      *)
(* while the closer may be reading it: it waits for the context Start was  *)
(* given or for the one of the group, and nothing says which.              *)
(*                                                                         *)
(* net/http, grpc and errgroup are external: ListenAndServe returns as     *)
(* soon as Shutdown is called, Serve only when GracefulStop has ended, and *)
(* Serve is an error when GracefulStop was called before; either returns   *)
(* an error when it cannot listen or accept, and what it accepted before   *)
(* goes on; the first error cancels the context of the group.              *)
(***************************************************************************)
CONSTANTS
    Call,   \* gRPC calls that may run at once: heartbeats, calls of central
    Visit   \* HTTP requests that may run at once

VARIABLES
    main,       \* the step of Start
    stopped,    \* is the context Start was given cancelled
    failed,     \* is the context of the group cancelled by an error
    ctx,        \* what the variable ctx of Start holds
    closer,     \* the step of the closer
    watched,    \* the context it waits for
    http, grpc, \* the two servers
    httpDown,   \* was Shutdown called
    grpcDown,   \* was GracefulStop called
    calls,      \* gRPC calls in their handlers
    visits,     \* HTTP requests in their handlers
    timedOut    \* history: did Shutdown give up waiting

startVars == <<main, stopped, failed, ctx>>
closerVars == <<closer, watched, httpDown, grpcDown, timedOut>>
serverVars == <<http, grpc>>
workVars == <<calls, visits>>
vars == <<startVars, closerVars, serverVars, workVars>>
-----------------------------------------------------------------------------
Returned == main \in {"ok", "error"}

TypeOK ==
    /\ main \in {"register", "start", "group", "wait", "ok", "error"}
    /\ stopped \in BOOLEAN /\ failed \in BOOLEAN
    /\ ctx \in {"given", "group"}
    /\ closer \in {"none", "born", "waits", "shutdown", "stop", "conns", "done"}
    /\ watched \in {"none", "given", "group"}
    /\ http \in {"none", "starting", "serving", "closed", "failed", "broken"}
    /\ grpc \in {"none", "starting", "serving", "drained", "failed", "broken"}
    /\ httpDown \in BOOLEAN /\ grpcDown \in BOOLEAN /\ timedOut \in BOOLEAN
    /\ calls \subseteq Call /\ visits \subseteq Visit
    /\ main \in {"register", "start"} => closer = "none"
    /\ ctx = "group" <=> http # "none"
    /\ closer \in {"none", "born"} <=> watched = "none"

\* An agent that is not registered registers first.
Init ==
    /\ main \in {"register", "start"}
    /\ stopped = FALSE /\ failed = FALSE
    /\ ctx = "given"
    /\ closer = "none" /\ watched = "none"
    /\ http = "none" /\ grpc = "none"
    /\ httpDown = FALSE /\ grpcDown = FALSE /\ timedOut = FALSE
    /\ calls = {} /\ visits = {}
-----------------------------------------------------------------------------
(* Seeded faults: steps with a plausible slip, which nothing below uses.   *)

\* GracefulStop is called first: the servers are shut down in the other order.
FaultStopsGrpcFirst ==
    /\ closer = "waits"
    /\ closer' = "stop" /\ grpcDown' = TRUE /\ httpDown' = TRUE
    /\ UNCHANGED <<startVars, watched, timedOut, serverVars, workVars>>

\* Shutdown gets a context without a deadline.
FaultWaitsForever == FALSE /\ UNCHANGED vars

\* The clients are closed without waiting for GracefulStop.
FaultClosesAtOnce ==
    /\ closer = "stop"
    /\ closer' = "conns"
    /\ UNCHANGED <<startVars, watched, httpDown, grpcDown, timedOut, serverVars,
                   workVars>>

\* The goroutines are not those of an errgroup: an error cancels nothing.
FaultErrorCancelsNothing == failed' = failed

\* The context of the group gets a variable of its own.
FaultContextOfItsOwn ==
    /\ main = "group"
    /\ main' = "wait"
    /\ http' = "starting" /\ grpc' = "starting"
    /\ UNCHANGED <<stopped, failed, ctx, closerVars, workVars>>
-----------------------------------------------------------------------------
(* Start.                                                                  *)

\* A signal, or the end of what runs beside Start, cancels its context.
Signal ==
    /\ ~Returned /\ ~stopped
    /\ stopped' = TRUE
    /\ UNCHANGED <<main, failed, ctx, closerVars, serverVars, workVars>>

Registers ==
    /\ main = "register"
    /\ main' = "start"
    /\ UNCHANGED <<stopped, failed, ctx, closerVars, serverVars, workVars>>

\* Central is not reached, or the context was cancelled.
RegisterFails ==
    /\ main = "register"
    /\ main' = "error"
    /\ UNCHANGED <<stopped, failed, ctx, closerVars, serverVars, workVars>>

StartCloser ==
    /\ main = "start"
    /\ main' = "group" /\ closer' = "born"
    /\ UNCHANGED <<stopped, failed, ctx, watched, httpDown, grpcDown, timedOut,
                   serverVars, workVars>>

\* The group takes the place of ctx and runs the two servers.
MakeGroup ==
    /\ main = "group"
    /\ main' = "wait" /\ ctx' = "group"
    /\ http' = "starting" /\ grpc' = "starting"
    /\ UNCHANGED <<stopped, failed, closerVars, workVars>>

\* g.Wait returns when both have.
StartReturns ==
    /\ main = "wait"
    /\ http \in {"closed", "failed", "broken"}
    /\ grpc \in {"drained", "failed", "broken"}
    /\ main' = IF http # "closed" \/ grpc # "drained" THEN "error" ELSE "ok"
    /\ UNCHANGED <<stopped, failed, ctx, closerVars, serverVars, workVars>>
-----------------------------------------------------------------------------
(* The closer.                                                             *)

\* It reads ctx, which is being assigned: it may see what it was or what it is.
ReadsContext(which) ==
    /\ ~Returned /\ closer = "born"
    /\ which \in {"given", ctx}
    /\ closer' = "waits" /\ watched' = which
    /\ UNCHANGED <<startVars, httpDown, grpcDown, timedOut, serverVars, workVars>>

\* The group's context is derived from the one Start was given.
Cancelled == stopped \/ (watched = "group" /\ failed)

\* The context is cancelled: the HTTP server takes no more requests.
CallsShutdown ==
    /\ closer = "waits"
    /\ ~Returned /\ Cancelled
    /\ closer' = "shutdown" /\ httpDown' = TRUE
    /\ UNCHANGED <<startVars, watched, grpcDown, timedOut, serverVars, workVars>>

\* Shutdown returns when no request is left; then GracefulStop is called.
ShutdownEnds ==
    /\ ~Returned /\ closer = "shutdown" /\ visits = {}
    /\ closer' = "stop" /\ grpcDown' = TRUE
    /\ UNCHANGED <<startVars, watched, httpDown, timedOut, serverVars, workVars>>

\* Or after five seconds.
ShutdownTimesOut ==
    /\ ~Returned /\ closer = "shutdown" /\ visits # {}
    /\ closer' = "stop" /\ grpcDown' = TRUE /\ timedOut' = TRUE
    /\ UNCHANGED <<startVars, watched, httpDown, serverVars, workVars>>

\* GracefulStop returns when no call is left.
StopEnds ==
    /\ ~Returned /\ closer = "stop" /\ calls = {}
    /\ closer' = "conns"
    /\ UNCHANGED <<startVars, watched, httpDown, grpcDown, timedOut, serverVars,
                   workVars>>

\* The clients are closed: central goes through its map of agents.
CloseConns ==
    /\ ~Returned /\ closer = "conns"
    /\ closer' = "done"
    /\ UNCHANGED <<startVars, watched, httpDown, grpcDown, timedOut, serverVars,
                   workVars>>
-----------------------------------------------------------------------------
(* The servers.                                                            *)

\* One of them returns an error, and the group is cancelled.
CancelsGroup == failed' = TRUE

HttpListens ==
    /\ main = "wait" /\ http = "starting" /\ ~httpDown
    /\ http' = "serving"
    /\ UNCHANGED <<startVars, closerVars, grpc, workVars>>

HttpFails ==
    /\ main = "wait"
    /\ ~httpDown
    /\ \/ http = "starting" /\ http' = "failed"
       \/ http = "serving" /\ http' = "broken"
    /\ CancelsGroup
    /\ UNCHANGED <<main, stopped, ctx, closerVars, grpc, workVars>>

\* ErrServerClosed, which is no error.
HttpCloses ==
    /\ main = "wait"
    /\ httpDown /\ http \in {"starting", "serving"}
    /\ http' = "closed"
    /\ UNCHANGED <<startVars, closerVars, grpc, workVars>>

GrpcListens ==
    /\ main = "wait" /\ grpc = "starting" /\ ~grpcDown
    /\ grpc' = "serving"
    /\ UNCHANGED <<startVars, closerVars, http, workVars>>

\* ErrServerStopped, which is an error.
GrpcComesLate ==
    /\ main = "wait" /\ grpc = "starting" /\ grpcDown
    /\ grpc' = "failed"
    /\ CancelsGroup
    /\ UNCHANGED <<main, stopped, ctx, closerVars, http, workVars>>

GrpcFails ==
    /\ main = "wait"
    /\ \/ grpc = "starting" /\ grpc' = "failed"
       \/ grpc = "serving" /\ ~grpcDown /\ grpc' = "broken"
    /\ CancelsGroup
    /\ UNCHANGED <<main, stopped, ctx, closerVars, http, workVars>>

GrpcDrains ==
    /\ main = "wait" /\ grpc = "serving" /\ closer \in {"conns", "done"}
    /\ grpc' = "drained"
    /\ UNCHANGED <<startVars, closerVars, http, workVars>>
-----------------------------------------------------------------------------
(* What they serve.                                                        *)

CallBegins(c) ==
    /\ ~Returned /\ grpc \in {"serving", "broken"} /\ ~grpcDown
    /\ c \notin calls
    /\ calls' = calls \cup {c}
    /\ UNCHANGED <<startVars, closerVars, serverVars, visits>>

CallEnds(c) ==
    /\ ~Returned /\ c \in calls
    /\ calls' = calls \ {c}
    /\ UNCHANGED <<startVars, closerVars, serverVars, visits>>

VisitBegins(v) ==
    /\ ~Returned /\ http \in {"serving", "broken"} /\ ~httpDown
    /\ v \notin visits
    /\ visits' = visits \cup {v}
    /\ UNCHANGED <<startVars, closerVars, serverVars, calls>>

VisitEnds(v) ==
    /\ ~Returned /\ v \in visits
    /\ visits' = visits \ {v}
    /\ UNCHANGED <<startVars, closerVars, serverVars, calls>>

StartStep ==
    Registers \/ RegisterFails \/ StartCloser \/ MakeGroup \/ StartReturns

CloserStep ==
    \/ \E which \in {"given", "group"} : ReadsContext(which)
    \/ CallsShutdown \/ ShutdownEnds \/ ShutdownTimesOut \/ StopEnds \/ CloseConns

\* What the servers come to without failing.
ServerRuns ==
    HttpListens \/ HttpCloses \/ GrpcListens \/ GrpcComesLate \/ GrpcDrains

ServerStep == ServerRuns \/ HttpFails \/ GrpcFails

WorkStep ==
    \/ \E c \in Call : CallBegins(c) \/ CallEnds(c)
    \/ \E v \in Visit : VisitBegins(v) \/ VisitEnds(v)

Next == Signal \/ StartStep \/ CloserStep \/ ServerStep \/ WorkStep

Spec == Init /\ [][Next]_vars

\* The goroutines run, and the handlers of gRPC calls end.  Nothing has to fail,
\* and HTTP requests need not end: a client may keep them.
Fairness ==
    /\ WF_vars(StartStep) /\ WF_vars(CloserStep) /\ WF_vars(ServerRuns)
    /\ \A c \in Call : WF_vars(CallEnds(c))

FairSpec == Spec /\ Fairness
-----------------------------------------------------------------------------
(* Properties.                                                             *)

\* When Start returns without an error, every call was served to its end, and
\* every HTTP request too unless Shutdown gave up on it.
CleanExitDrains == main = "ok" => calls = {} /\ (visits = {} \/ timedOut)

\* Central goes through its map of agents only when no heartbeat can write it:
\* a map that is written while it is iterated ends the process.
AgentsNotIteratedWhileWritten ==
    closer = "conns" => calls = {} /\ grpcDown

\* A signal ends Start, whatever keeps the HTTP requests.
SignalEndsStart == stopped ~> Returned

\* A server could not listen or accept.
ServerFailed == http \in {"failed", "broken"} \/ grpc \in {"failed", "broken"}

\* When the closer waits for the group, a server that fails ends Start.
WatchedFailureEndsStart == (ServerFailed /\ watched = "group") ~> Returned
=============================================================================
