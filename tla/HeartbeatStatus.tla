--------------------------- MODULE HeartbeatStatus ---------------------------
(***************************************************************************)
(* How central decides that an agent is online: the agents' heartbeat      *)
(* tickers, the timestamps SendHeartbeat writes to etcd, and the status    *)
(* handlers agentStatus and GetStatus that compare a timestamp with the    *)
(* clock of central.                                                       *)
(*                                                                         *)
(* Time passes in half seconds, so that the truncation of Unix() to whole  *)
(* seconds shows.  Deadlines are upper bounds in the guard of Tick: a      *)
(* heartbeat and its handler are over MaxDelay half seconds after it was   *)
(* sent, and a status handler judges a timestamp at most QueryDelay half   *)
(* seconds after it read it.                                               *)
(*                                                                         *)
(* An agent that gives up on a heartbeat, because the connection broke or  *)
(* its process ended, does not end the handler at central: that may go on  *)
(* and write its timestamp after a later heartbeat wrote a newer one.      *)
(***************************************************************************)
EXTENDS Integers, FiniteSets

CONSTANTS
    Id,                 \* agents that have a UUID
    HeartbeatInterval,  \* heartbeat_interval of the agents, in seconds
    AliveInterval,      \* alive_interval of central, in seconds
    Late,               \* room for handlers whose agent has given up
    MaxDelay,           \* half seconds a heartbeat and its handler last at most
    QueryDelay,         \* half seconds from an etcd read to its verdict
    NoAgent,            \* no agent
    MaxFails,           \* bound: heartbeats that fail
    MaxRestarts,        \* bound: restarts of central
    Horizon             \* bound: half seconds the model runs for

Seconds(n) == 2 * n

ASSUME StatusAssumption ==
    /\ HeartbeatInterval \in Nat \ {0}
    /\ AliveInterval \in Nat /\ QueryDelay \in Nat /\ MaxDelay \in Nat
    /\ NoAgent \notin Id /\ Late \cap Id = {}
    /\ MaxFails \in Nat /\ MaxRestarts \in Nat /\ Horizon \in Nat

VARIABLES
    now,        \* the clock, in half seconds
    alive,      \* is a process of the agent running
    tickAt,     \* when its ticker fires next
    tick,       \* is a tick waiting in the ticker's channel
    call,       \* the stage of each handler of a heartbeat
    sentAt,     \* when that heartbeat was sent
    stamp,      \* the time the handler took for it
    owner,      \* the agent that gave up on it
    beat,       \* the timestamp etcd has for the agent, 0 when none
    known,      \* the agents in central's registry
    pc,         \* the step of the status handler
    kind,       \* "one" for agentStatus, "list" for GetStatus
    todo,       \* the agents GetStatus has still to visit
    asked,      \* the agent the handler is judging
    seen,       \* the timestamp it read from etcd
    readAt,     \* when it read it
    fails, restarts,    \* counters for the bounds
    steady,     \* history: the agent's last heartbeat to end went through
    endedAt,    \* history: when the agent's process ended
    wasSteady   \* history: was the asked agent steady when etcd was read

agentVars == <<alive, tickAt, tick, endedAt>>
callVars == <<call, sentAt, stamp, owner>>
queryVars == <<pc, kind, todo, asked, seen, readAt, wasSteady>>
vars == <<now, agentVars, callVars, beat, known, queryVars, fails, restarts,
          steady>>
-----------------------------------------------------------------------------
\* time.Time.Unix
Unix(t) == t \div 2

\* A time for which a missing key (0) is older than AliveInterval.
Epoch == Seconds(AliveInterval + 1)

\* An agent has one heartbeat at a time, under its own name, until it gives up.
Handler == Id \cup Late
Of(h) == IF h \in Id THEN h ELSE owner[h]

Stage == {"none", "sent", "stamped", "written", "listed"}

TypeOK ==
    /\ now \in Nat
    /\ alive \in [Id -> BOOLEAN]
    /\ tickAt \in [Id -> Nat]
    /\ tick \in [Id -> BOOLEAN]
    /\ call \in [Handler -> Stage]
    /\ sentAt \in [Handler -> Nat]
    /\ stamp \in [Handler -> Nat]
    /\ owner \in [Late -> Id \cup {NoAgent}]
    /\ beat \in [Id -> Nat]
    /\ known \in SUBSET Id
    /\ pc \in {"idle", "list", "read"}
    /\ kind \in {"one", "list"}
    /\ todo \in SUBSET Id
    /\ asked \in Id \cup {NoAgent}
    /\ seen \in Nat
    /\ readAt \in Nat
    /\ fails \in 0 .. MaxFails
    /\ restarts \in 0 .. MaxRestarts
    /\ steady \in [Id -> BOOLEAN]
    /\ endedAt \in [Id -> Nat]
    /\ wasSteady \in BOOLEAN
    /\ pc = "read" => asked \in Id
    /\ \A h \in Late : call[h] # "none" => owner[h] \in Id

Init ==
    /\ now = Epoch
    /\ alive = [id \in Id |-> FALSE]
    /\ tickAt = [id \in Id |-> 0]
    /\ tick = [id \in Id |-> FALSE]
    /\ call = [h \in Handler |-> "none"]
    /\ sentAt = [h \in Handler |-> 0] /\ stamp = [h \in Handler |-> 0]
    /\ owner = [h \in Late |-> NoAgent]
    /\ beat = [id \in Id |-> 0]
    /\ known = {}
    /\ pc = "idle" /\ kind = "one" /\ todo = {} /\ asked = NoAgent
    /\ seen = 0 /\ readAt = 0 /\ wasSteady = FALSE
    /\ fails = 0 /\ restarts = 0
    /\ steady = [id \in Id |-> FALSE]
    /\ endedAt = [id \in Id |-> 0]
-----------------------------------------------------------------------------
(* The clock.                                                              *)

\* A tick that is due was delivered, a delivered tick was taken unless the
\* agent waits for a call, and no handler is overdue.
Tick ==
    /\ now < Epoch + Horizon
    /\ \A id \in Id :
         /\ alive[id] => now < tickAt[id]
         /\ alive[id] /\ tick[id] => call[id] # "none"
    /\ \A h \in Handler : call[h] # "none" => now < sentAt[h] + MaxDelay
    /\ pc = "read" => now < readAt + QueryDelay
    /\ now' = now + 1
    /\ UNCHANGED <<agentVars, callVars, beat, known, queryVars, fails, restarts,
                   steady>>
-----------------------------------------------------------------------------
(* Seeded faults: steps with a plausible slip, which nothing below uses.   *)

\* UnixMilli instead of Unix.
FaultStampInMillis(h) ==
    /\ call[h] = "sent"
    /\ call' = [call EXCEPT ![h] = "stamped"]
    /\ stamp' = [stamp EXCEPT ![h] = 500 * now]
    /\ UNCHANGED <<now, agentVars, sentAt, owner, beat, known, queryVars, fails,
                   restarts, steady>>

\* An agent without a timestamp counts as never seen, with the timestamp -1.
FaultNoTimestamp(id) ==
    /\ asked' = id
    /\ seen' = IF beat[id] = 0 THEN -1 ELSE beat[id]
    /\ readAt' = now
    /\ wasSteady' = steady[id]
    /\ pc' = "read"
    /\ UNCHANGED <<now, agentVars, callVars, beat, known, fails, restarts,
                   steady>>

\* The factor time.Second is missing, so AliveInterval counts nanoseconds.
FaultNoSecondFactor(timestamp) ==
    IF timestamp < Unix(now) THEN "offline" ELSE "online"
-----------------------------------------------------------------------------
(* The agents: cmd/agent/serve.go and AgentServer.Heartbeat.               *)

\* Handler h is over.
EndCall(h) ==
    /\ call' = [call EXCEPT ![h] = "none"]
    /\ sentAt' = [sentAt EXCEPT ![h] = 0]
    /\ stamp' = [stamp EXCEPT ![h] = 0]

\* The agent no longer waits; its handler is over too, or goes on as h.
Abandons(id) ==
    \/ EndCall(id) /\ UNCHANGED owner
    \/ \E h \in Late :
         /\ call[id] # "none" /\ call[h] = "none"
         /\ call' = [call EXCEPT ![h] = call[id], ![id] = "none"]
         /\ sentAt' = [sentAt EXCEPT ![h] = sentAt[id], ![id] = 0]
         /\ stamp' = [stamp EXCEPT ![h] = stamp[id], ![id] = 0]
         /\ owner' = [owner EXCEPT ![h] = id]

\* A process of the agent starts, with its UUID in the config.
StartAgent(id) ==
    /\ ~alive[id]
    /\ alive' = [alive EXCEPT ![id] = TRUE]
    /\ tickAt' = [tickAt EXCEPT ![id] = now + Seconds(HeartbeatInterval)]
    /\ endedAt' = [endedAt EXCEPT ![id] = 0]
    /\ UNCHANGED <<now, callVars, beat, known, queryVars, fails, restarts,
                   steady, tick>>

\* The process ends; central may still serve its last heartbeat.
StopAgent(id) ==
    /\ alive[id]
    /\ alive' = [alive EXCEPT ![id] = FALSE]
    /\ steady' = [steady EXCEPT ![id] = FALSE]
    /\ endedAt' = [endedAt EXCEPT ![id] = now]
    /\ tick' = [tick EXCEPT ![id] = FALSE]
    /\ tickAt' = [tickAt EXCEPT ![id] = 0]
    /\ Abandons(id)
    /\ UNCHANGED <<now, beat, known, queryVars, fails, restarts>>

\* A tick is put in the ticker's channel, or dropped when one is there.
TickerFires(id) ==
    /\ alive[id]
    /\ now = tickAt[id]
    /\ tick' = [tick EXCEPT ![id] = TRUE]
    /\ tickAt' = [tickAt EXCEPT ![id] = now + Seconds(HeartbeatInterval)]
    /\ UNCHANGED <<now, alive, endedAt, callVars, beat, known, queryVars, fails,
                   restarts, steady>>

\* The loop takes the tick and calls central, and waits for the answer.
SendHeartbeat(id) ==
    /\ alive[id] /\ tick[id] /\ call[id] = "none"
    /\ tick' = [tick EXCEPT ![id] = FALSE]
    /\ call' = [call EXCEPT ![id] = "sent"]
    /\ sentAt' = [sentAt EXCEPT ![id] = now]
    /\ UNCHANGED <<now, alive, tickAt, endedAt, stamp, owner, beat, known,
                   queryVars, fails, restarts, steady>>
-----------------------------------------------------------------------------
(* CentralServer.SendHeartbeat                                             *)

\* The handler looks at its clock, before it writes.
TakeTime(h) ==
    /\ call[h] = "sent"
    /\ call' = [call EXCEPT ![h] = "stamped"]
    /\ stamp' = [stamp EXCEPT ![h] = Unix(now)]
    /\ UNCHANGED <<now, agentVars, sentAt, owner, beat, known, queryVars, fails,
                   restarts, steady>>

\* The timestamp overwrites the one in etcd, newer or not.
Put(h) ==
    /\ call[h] = "stamped"
    /\ call' = [call EXCEPT ![h] = "written"]
    /\ beat' = [beat EXCEPT ![Of(h)] = stamp[h]]
    /\ steady' = IF h \in Id THEN [steady EXCEPT ![h] = TRUE] ELSE steady
    /\ UNCHANGED <<now, agentVars, sentAt, stamp, owner, known, queryVars, fails,
                   restarts>>

\* The agent has an entry in the registry.
Enlist(h) ==
    /\ call[h] = "written"
    /\ call' = [call EXCEPT ![h] = "listed"]
    /\ known' = known \cup {Of(h)}
    /\ UNCHANGED <<now, agentVars, sentAt, stamp, owner, beat, queryVars, fails,
                   restarts, steady>>

Answer(id) ==
    /\ call[id] = "listed"
    /\ EndCall(id)
    /\ UNCHANGED <<now, agentVars, owner, beat, known, queryVars, fails,
                   restarts, steady>>

\* A handler whose agent has given up returns, or fails: etcd refuses the
\* write, or central notices that nobody waits.
LateEnds(h) ==
    /\ call[h] # "none"
    /\ EndCall(h)
    /\ owner' = [owner EXCEPT ![h] = NoAgent]
    /\ UNCHANGED <<now, agentVars, beat, known, queryVars, fails, restarts,
                   steady>>

\* Central cannot be reached, etcd refuses the write, or the answer is lost.
CallFails(id) ==
    /\ call[id] # "none"
    /\ fails < MaxFails
    /\ fails' = fails + 1
    /\ Abandons(id)
    /\ steady' = [steady EXCEPT ![id] = FALSE]
    /\ UNCHANGED <<now, agentVars, beat, known, queryVars, restarts>>

\* The status handler returns.
HandlerEnds ==
    /\ pc' = "idle" /\ kind' = "one" /\ asked' = NoAgent
    /\ seen' = 0 /\ readAt' = 0 /\ wasSteady' = FALSE

\* Central stops and starts again: its calls fail, its registry is empty.
RestartCentral ==
    /\ restarts < MaxRestarts
    /\ restarts' = restarts + 1
    /\ steady' = [id \in Id |-> IF call[id] = "none" THEN steady[id] ELSE FALSE]
    /\ call' = [h \in Handler |-> "none"]
    /\ sentAt' = [h \in Handler |-> 0] /\ stamp' = [h \in Handler |-> 0]
    /\ owner' = [h \in Late |-> NoAgent]
    /\ known' = {}
    /\ HandlerEnds
    /\ todo' = {}
    /\ UNCHANGED <<now, agentVars, beat, fails>>
-----------------------------------------------------------------------------
(* The status handlers, which only read: one at a time is all that matters. *)

\* The verdict on a timestamp.
StatusOf(timestamp) ==
    IF timestamp < Unix(now) - AliveInterval THEN "offline" ELSE "online"

\* Get of the agent's key.
ReadEtcd(id) ==
    /\ asked' = id
    /\ seen' = beat[id]
    /\ readAt' = now
    /\ wasSteady' = steady[id]
    /\ pc' = "read"
    /\ UNCHANGED <<now, agentVars, callVars, beat, known, fails, restarts,
                   steady>>

\* agentStatus reads etcd before it looks the agent up.
AskOne(id) ==
    /\ pc = "idle"
    /\ ReadEtcd(id)
    /\ UNCHANGED <<kind, todo>>

\* GetStatus ranges over the registry.
AskAll ==
    /\ pc = "idle"
    /\ pc' = "list" /\ kind' = "list"
    /\ todo' = known
    /\ UNCHANGED <<now, agentVars, callVars, beat, known, asked, seen, readAt,
                   wasSteady, fails, restarts, steady>>

VisitNext(id) ==
    /\ pc = "list" /\ id \in todo
    /\ todo' = todo \ {id}
    /\ ReadEtcd(id)
    /\ UNCHANGED kind

\* The Get fails: the agent is left out of the list.
SkipNext(id) ==
    /\ pc = "list" /\ id \in todo
    /\ todo' = todo \ {id}
    /\ UNCHANGED <<now, agentVars, callVars, beat, known, pc, kind, asked, seen,
                   readAt, wasSteady, fails, restarts, steady>>

\* agentStatus judges the timestamp and answers.  When the registry has no
\* entry for the agent it dereferences nil: net/http recovers from the panic
\* and the client gets no answer.
JudgeOne ==
    /\ pc = "read" /\ kind = "one"
    /\ HandlerEnds
    /\ UNCHANGED <<now, agentVars, callVars, beat, known, todo, fails,
                   restarts, steady>>

\* GetStatus judges the timestamp, enters the verdict in the list under the
\* agent's name (agents of one name share an entry), and goes on.
JudgeNext ==
    /\ pc = "read" /\ kind = "list"
    /\ pc' = "list" /\ asked' = NoAgent
    /\ seen' = 0 /\ readAt' = 0 /\ wasSteady' = FALSE
    /\ UNCHANGED <<now, agentVars, callVars, beat, known, kind, todo, fails,
                   restarts, steady>>

\* GetStatus has visited every agent and sends the list.
SendList ==
    /\ pc = "list" /\ todo = {}
    /\ HandlerEnds
    /\ UNCHANGED <<now, agentVars, callVars, beat, known, todo, fails, restarts,
                   steady>>

Next ==
    \/ Tick
    \/ \E id \in Id :
         \/ StartAgent(id) \/ StopAgent(id) \/ TickerFires(id)
         \/ SendHeartbeat(id)
         \/ Answer(id) \/ CallFails(id)
         \/ AskOne(id) \/ VisitNext(id) \/ SkipNext(id)
    \/ \E h \in Handler : TakeTime(h) \/ Put(h) \/ Enlist(h)
    \/ \E h \in Late : LateEnds(h)
    \/ RestartCentral
    \/ AskAll \/ JudgeOne \/ JudgeNext \/ SendList

Spec == Init /\ [][Next]_vars
-----------------------------------------------------------------------------
(* Properties.                                                             *)

\* From one heartbeat to the next: the ticker's interval, or the call before it,
\* during which ticks are dropped.
Gap == IF MaxDelay <= Seconds(HeartbeatInterval) THEN Seconds(HeartbeatInterval)
                                                 ELSE MaxDelay

\* The intervals are far enough apart: between two heartbeats fit one that takes
\* MaxDelay, an older one that overwrites its timestamp MaxDelay after it was
\* sent, and a verdict that takes QueryDelay.
IntervalsFit == Gap + 2 * MaxDelay + QueryDelay <= Seconds(AliveInterval)

\* A status handler is about to judge, and would say this.
Judges(status) == pc = "read" /\ StatusOf(seen) = status

\* An agent whose last heartbeat went through is never judged offline, however
\* slow its heartbeats are and whatever its dropped ticks, the handlers it gave
\* up on, the restarts of central and the status handlers do.
SteadyAgentIsOnline == wasSteady => ~Judges("offline")

\* An agent whose process ended is not judged online any more once its last
\* heartbeat, AliveInterval and the truncation to seconds are over.
DeadAgentGoesOffline ==
    Judges("online") /\ ~alive[asked] =>
        now < endedAt[asked] + MaxDelay + Seconds(AliveInterval + 1)
=============================================================================
