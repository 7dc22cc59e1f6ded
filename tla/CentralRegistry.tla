-------------------------- MODULE CentralRegistry --------------------------
(***************************************************************************)
(* Central's registry of agents: the map CentralServer.agents, the gRPC    *)
(* clients its entries hold, and the two RPC handlers that change it,      *)
(* RegisterAgent and SendHeartbeat.                                        *)
(*                                                                         *)
(* gRPC serves every request on a goroutine of its own and the map has no  *)
(* lock, so a handler is a process (an element of Handler) that takes one  *)
(* step per access to the shared state.  An agent is identified with the   *)
(* UUID it was issued; its side of the protocol is its current config      *)
(* (cfg), whether the UUID reached it (owner) and the heartbeat it is      *)
(* waiting on (awaiting).                                                  *)
(***************************************************************************)
EXTENDS Naturals, FiniteSets

CONSTANTS
    Id,             \* the UUIDs uuid.NewV7 can return
    Addr, Port,     \* values of the agents' "addr" and "grpc_port" settings
    BadAddr,        \* the addresses whose target grpc.NewClient cannot parse
    Name,           \* agent names
    Placeholder,    \* the name "TO_BE_SET" a registration stores
    Conn,           \* gRPC clients
    Handler,        \* goroutines serving an RPC
    NoPort, NoConn, NoHandler, NoRequest,   \* "absent"
    MaxEdits,       \* bound: how often agents' config files are edited
    MaxGiveUps,     \* bound: how often an agent abandons a running heartbeat
    MaxCrashes      \* bound: how often central stops and is started again

ASSUME RegistryAssumption ==
    /\ BadAddr \subseteq Addr
    /\ NoPort \notin Port
    /\ NoConn \notin Conn
    /\ NoHandler \notin Handler
    /\ Placeholder \notin Name
    /\ MaxEdits \in Nat /\ MaxGiveUps \in Nat /\ MaxCrashes \in Nat

VARIABLES
    known,      \* the keys of the map agents
    name, endpoint, conn,   \* the fields of the map's AgentMetadata values
    open,       \* the gRPC clients that exist and were not closed
    target,     \* the endpoint each gRPC client was created for
    etcd,       \* the UUIDs with a heartbeat on record in etcd
    pc,         \* the next step of each handler
    req,        \* the request each handler serves
    owner,      \* what became of each UUID
    cfg,        \* the config of the agent a UUID was issued to
    awaiting,   \* the handler an agent's running SendHeartbeat call is served by
    edits, giveUps, crashes,    \* counters for the bounds
    overlapped, \* history: agents two of whose heartbeats ran at once
    stranded    \* history: agents whose client was closed for one that could
                \* not be dialled, and none was dialled since

entryVars == <<known, name, endpoint, conn>>

clientVars == <<open, target, stranded>>
agentVars == <<owner, cfg, edits, giveUps, crashes, overlapped>>
vars == <<entryVars, clientVars, etcd, pc, req, awaiting, agentVars>>
-----------------------------------------------------------------------------
Config == [name : Name, addr : Addr, port : Port]

Endpoint == [addr : Addr, port : Port \cup {NoPort}]

ASSUME AbsentAssumption == NoConn \notin Endpoint \cup {NoPort}

\* What a heartbeat advertises: the address with the gRPC port.
GRPCEndpoint(c) == [addr |-> c.addr, port |-> c.port]

\* What a registration carries: the bare address.
RegisterEndpoint(c) == [addr |-> c.addr, port |-> NoPort]

Request == [id : Id, name : Name \cup {Placeholder}, ep : Endpoint]

RegisterPC == {"register", "registered"}
HeartbeatPC == {"put", "lookup", "insert", "update", "close", "redial",
                "nilcheck", "store", "reply"}

TypeOK ==
    /\ known \in SUBSET Id
    /\ name \in [Id -> Name \cup {Placeholder}]
    /\ endpoint \in [Id -> Endpoint \cup {NoPort}]
    /\ conn \in [Id -> Conn \cup {NoConn}]
    /\ open \in SUBSET Conn
    /\ target \in [Conn -> Endpoint \cup {NoPort}]
    /\ etcd \in SUBSET Id
    /\ pc \in [Handler -> {"idle"} \cup RegisterPC \cup HeartbeatPC]
    /\ req \in [Handler -> Request \cup {NoRequest}]
    /\ \A h \in Handler :
         pc[h] # "idle" => req[h] \in Request /\ cfg[req[h].id] \in Config
    /\ owner \in [Id -> {"free", "issued", "held", "lost"}]
    /\ cfg \in [Id -> Config \cup {NoRequest}]
    /\ \A id \in Id : owner[id] # "free" => cfg[id] \in Config
    /\ awaiting \in [Id -> Handler \cup {NoHandler}]
    /\ edits \in 0 .. MaxEdits
    /\ giveUps \in 0 .. MaxGiveUps
    /\ crashes \in 0 .. MaxCrashes
    /\ overlapped \in SUBSET Id /\ stranded \in SUBSET Id

Init ==
    /\ known = {}
    /\ name = [id \in Id |-> Placeholder]
    /\ endpoint = [id \in Id |-> NoPort]
    /\ conn = [id \in Id |-> NoConn]
    /\ open = {}
    /\ target = [c \in Conn |-> NoPort]
    /\ etcd = {}
    /\ pc = [h \in Handler |-> "idle"]
    /\ req = [h \in Handler |-> NoRequest]
    /\ owner = [id \in Id |-> "free"]
    /\ cfg = [id \in Id |-> NoRequest]
    /\ awaiting = [id \in Id |-> NoHandler]
    /\ edits = 0 /\ giveUps = 0 /\ crashes = 0
    /\ overlapped = {} /\ stranded = {}
-----------------------------------------------------------------------------
(* What the handlers' steps are made of.                                   *)

Goto(h, step) == pc' = [pc EXCEPT ![h] = step]

\* The handler returns; the agent that waits for it gets the answer.
Return(h) ==
    /\ pc' = [pc EXCEPT ![h] = "idle"]
    /\ req' = [req EXCEPT ![h] = NoRequest]
    /\ awaiting' = [id \in Id |-> IF awaiting[id] = h THEN NoHandler
                                                      ELSE awaiting[id]]

\* A client is named by an element of Conn nothing refers to any more.
Fresh(c) == c \notin open /\ \A id \in Id : conn[id] # c

\* A heartbeat handler of this agent is running.
Busy(id) == \E h \in Handler : pc[h] \in HeartbeatPC /\ req[h].id = id

\* A new AgentMetadata is put in the map.
NewEntry(h, c) ==
    /\ known' = known \cup {req[h].id}
    /\ name' = [name EXCEPT ![req[h].id] = req[h].name]
    /\ endpoint' = [endpoint EXCEPT ![req[h].id] = req[h].ep]
    /\ conn' = [conn EXCEPT ![req[h].id] = c]

\* grpc.NewClient succeeds for the endpoint of the heartbeat.
NewClient(h, c) ==
    /\ req[h].ep.addr \notin BadAddr
    /\ Fresh(c)
    /\ open' = open \cup {c}
    /\ target' = [target EXCEPT ![c] = req[h].ep]
    /\ stranded' = stranded \ {req[h].id}
-----------------------------------------------------------------------------
(* Seeded faults.  Nothing below uses these: each is one handler step with *)
(* a plausible slip in it, and a property that the step with the slip does *)
(* not violate would say nothing about the code.                           *)

\* The name and the endpoint, both strings in the code, are swapped.
FaultRegisterSwapsFields(h) ==
    /\ pc[h] = "register"
    /\ known' = known \cup {req[h].id}
    /\ name' = [name EXCEPT ![req[h].id] = req[h].ep]
    /\ endpoint' = [endpoint EXCEPT ![req[h].id] = req[h].name]
    /\ conn' = [conn EXCEPT ![req[h].id] = NoConn]
    /\ Goto(h, "registered")
    /\ UNCHANGED <<clientVars, etcd, req, awaiting, agentVars>>

\* The error of the etcd write is logged and the handler goes on.
FaultPutErrorIgnored(h) ==
    /\ pc[h] = "put"
    /\ Goto(h, "lookup")
    /\ UNCHANGED <<entryVars, clientVars, etcd, req, awaiting, agentVars>>

\* The endpoint is not compared, only recorded.
FaultEndpointNotCompared(h) ==
    /\ pc[h] = "update"
    /\ name' = [name EXCEPT ![req[h].id] = req[h].name]
    /\ Goto(h, "nilcheck")
    /\ UNCHANGED <<known, endpoint, conn, clientVars, etcd, req, awaiting,
                   agentVars>>

\* The name a heartbeat carries is not taken over.
FaultNameNotUpdated(h) ==
    /\ pc[h] = "update"
    /\ Goto(h, IF endpoint[req[h].id] # req[h].ep
               THEN "close" ELSE "nilcheck")
    /\ UNCHANGED <<entryVars, clientVars, etcd, req, awaiting, agentVars>>

\* The old client is not closed.
FaultOldClientKept(h) ==
    /\ pc[h] = "close"
    /\ Goto(h, "redial")
    /\ UNCHANGED <<entryVars, clientVars, etcd, req, awaiting, agentVars>>

\* The new client stays in a shadowing local variable.
FaultNewClientNotStored(h) ==
    /\ pc[h] = "redial"
    /\ \E c \in Conn : NewClient(h, c)
    /\ Goto(h, "nilcheck")
    /\ UNCHANGED <<entryVars, etcd, req, awaiting, agentVars>>
-----------------------------------------------------------------------------
(* RegisterAgent                                                           *)

\* A registration arrives from an agent with config c and gets a new UUID.
RegisterArrives(h) ==
    /\ pc[h] = "idle"
    /\ \E id \in Id, c \in Config :
         /\ owner[id] = "free"
         /\ owner' = [owner EXCEPT ![id] = "issued"]
         /\ cfg' = [cfg EXCEPT ![id] = c]
         /\ req' = [req EXCEPT ![h] = [id |-> id, name |-> Placeholder,
                                       ep |-> RegisterEndpoint(c)]]
    /\ Goto(h, "register")
    /\ UNCHANGED <<entryVars, clientVars, etcd, awaiting,
                   edits, giveUps, crashes, overlapped>>

RegisterInsert(h) ==
    /\ pc[h] = "register"
    /\ NewEntry(h, NoConn)
    /\ Goto(h, "registered")
    /\ UNCHANGED <<clientVars, etcd, req, awaiting, agentVars>>

\* The reply reaches the agent, which keeps the UUID, or it is lost.
RegisterReply(h) ==
    /\ pc[h] = "registered"
    /\ \E outcome \in {"held", "lost"} :
         owner' = [owner EXCEPT ![req[h].id] = outcome]
    /\ Return(h)
    /\ UNCHANGED <<entryVars, clientVars, etcd, cfg, edits, giveUps,
                   crashes, overlapped>>
-----------------------------------------------------------------------------
(* SendHeartbeat                                                           *)

\* The ticker of the agent fires: the agent sends one snapshot of its config.
\* It never starts a heartbeat while it waits for the previous one.
HeartbeatArrives(id, h) ==
    /\ owner[id] = "held"
    /\ awaiting[id] = NoHandler
    /\ pc[h] = "idle"
    /\ req' = [req EXCEPT ![h] = [id |-> id, name |-> cfg[id].name,
                                  ep |-> GRPCEndpoint(cfg[id])]]
    /\ awaiting' = [awaiting EXCEPT ![id] = h]
    /\ overlapped' = IF Busy(id) THEN overlapped \cup {id} ELSE overlapped
    /\ Goto(h, "put")
    /\ UNCHANGED <<entryVars, clientVars, etcd, owner, cfg, edits, giveUps,
                   crashes>>

PutOk(h) ==
    /\ pc[h] = "put"
    /\ etcd' = etcd \cup {req[h].id}
    /\ Goto(h, "lookup")
    /\ UNCHANGED <<entryVars, clientVars, req, awaiting, agentVars>>

PutFails(h) ==
    /\ pc[h] = "put"
    /\ Return(h)
    /\ UNCHANGED <<entryVars, clientVars, etcd, agentVars>>

Lookup(h) ==
    /\ pc[h] = "lookup"
    /\ Goto(h, IF req[h].id \in known THEN "update" ELSE "insert")
    /\ UNCHANGED <<entryVars, clientVars, etcd, req, awaiting, agentVars>>

\* No entry was found: dial the agent and store a new one.
Insert(h) ==
    /\ pc[h] = "insert"
    /\ \E c \in Conn : NewClient(h, c) /\ NewEntry(h, c)
    /\ Goto(h, "reply")
    /\ UNCHANGED <<etcd, req, awaiting, agentVars>>

\* An entry was found: its name is overwritten, its endpoint compared.
Update(h) ==
    /\ pc[h] = "update"
    /\ name' = [name EXCEPT ![req[h].id] = req[h].name]
    /\ Goto(h, IF endpoint[req[h].id] # req[h].ep
               THEN "close" ELSE "nilcheck")
    /\ UNCHANGED <<known, endpoint, conn, clientVars, etcd, req, awaiting,
                   agentVars>>

\* The endpoint changed: close the old client, if there is one.
Close(h) ==
    /\ pc[h] = "close"
    /\ open' = open \ {conn[req[h].id]}
    /\ Goto(h, "redial")
    /\ UNCHANGED <<entryVars, target, stranded, etcd, req, awaiting, agentVars>>

Redial(h) ==
    /\ pc[h] = "redial"
    /\ \E c \in Conn :
         /\ NewClient(h, c)
         /\ conn' = [conn EXCEPT ![req[h].id] = c]
    /\ Goto(h, "nilcheck")
    /\ UNCHANGED <<known, name, endpoint, etcd, req, awaiting, agentVars>>

\* The entry's client is dialled here when it still has none.
NilCheck(h) ==
    /\ pc[h] = "nilcheck"
    /\ IF conn[req[h].id] = NoConn
       THEN \E c \in Conn :
              /\ NewClient(h, c)
              /\ conn' = [conn EXCEPT ![req[h].id] = c]
       ELSE UNCHANGED <<conn, clientVars>>
    /\ Goto(h, "store")
    /\ UNCHANGED <<known, name, endpoint, etcd, req, awaiting, agentVars>>

\* grpc.NewClient rejects the endpoint at any of the three places that dial.
DialFails(h) ==
    /\ pc[h] \in {"insert", "redial", "nilcheck"}
    /\ pc[h] = "nilcheck" => conn[req[h].id] = NoConn
    /\ req[h].ep.addr \in BadAddr
    /\ Return(h)
    /\ stranded' = IF pc[h] = "redial" THEN stranded \cup {req[h].id} ELSE stranded
    /\ UNCHANGED <<entryVars, open, target, etcd, agentVars>>

Store(h) ==
    /\ pc[h] = "store"
    /\ endpoint' = [endpoint EXCEPT ![req[h].id] = req[h].ep]
    /\ Goto(h, "reply")
    /\ UNCHANGED <<known, name, conn, clientVars, etcd, req, awaiting,
                   agentVars>>

Reply(h) ==
    /\ pc[h] = "reply"
    /\ Return(h)
    /\ UNCHANGED <<entryVars, clientVars, etcd, agentVars>>
-----------------------------------------------------------------------------
(* The agents and the process around the handlers.                         *)

\* The agent's config file is edited while it runs and viper reloads it.
EditConfig(id) ==
    /\ owner[id] = "held"
    /\ edits < MaxEdits
    /\ \E c \in Config \ {cfg[id]} : cfg' = [cfg EXCEPT ![id] = c]
    /\ edits' = edits + 1
    /\ UNCHANGED <<entryVars, clientVars, etcd, pc, req, owner, awaiting,
                   giveUps, crashes, overlapped>>

\* The agent's process restarts, or its connection breaks, while central
\* still runs the handler: the agent is free to send the next heartbeat.
GiveUp(id) ==
    /\ awaiting[id] # NoHandler
    /\ giveUps < MaxGiveUps
    /\ awaiting' = [awaiting EXCEPT ![id] = NoHandler]
    /\ giveUps' = giveUps + 1
    /\ UNCHANGED <<entryVars, clientVars, etcd, pc, req, owner, cfg,
                   edits, crashes, overlapped>>

\* Central stops and is started again: the registry, the clients and the
\* handlers are gone, etcd and the agents are not.  An operator may stop it,
\* or the Go runtime when it notices one goroutine adding a key to the map
\* while another one uses it ("concurrent map writes").
Restart ==
    /\ crashes < MaxCrashes
    /\ crashes' = crashes + 1
    /\ known' = {}
    /\ name' = [id \in Id |-> Placeholder]
    /\ endpoint' = [id \in Id |-> NoPort]
    /\ conn' = [id \in Id |-> NoConn]
    /\ open' = {}
    /\ overlapped' = {} /\ stranded' = {}
    /\ pc' = [h \in Handler |-> "idle"]
    /\ req' = [h \in Handler |-> NoRequest]
    /\ awaiting' = [id \in Id |-> NoHandler]
    /\ owner' = [id \in Id |-> IF owner[id] = "issued" THEN "lost"
                                                       ELSE owner[id]]
    /\ UNCHANGED <<target, etcd, cfg, edits, giveUps>>

HandlerStep(h) ==
    \/ RegisterInsert(h) \/ RegisterReply(h)
    \/ Lookup(h) \/ Insert(h) \/ Update(h) \/ Close(h) \/ Redial(h)
    \/ NilCheck(h) \/ DialFails(h) \/ Store(h) \/ Reply(h)

Next ==
    \/ \E h \in Handler :
         \/ RegisterArrives(h)
         \/ \E id \in Id : HeartbeatArrives(id, h)
         \/ PutOk(h)
         \/ PutFails(h)
         \/ HandlerStep(h)
    \/ \E id \in Id : EditConfig(id) \/ GiveUp(id)
    \/ Restart

Spec == Init /\ [][Next]_vars

\* The Go scheduler runs every handler on; the ticker keeps firing in an agent
\* that has its UUID; etcd does not refuse every write for ever.
Fairness ==
    /\ \A h \in Handler : WF_vars(HandlerStep(h)) /\ SF_vars(PutOk(h))
    /\ \A id \in Id : WF_vars(\E h \in Handler : HeartbeatArrives(id, h))

FairSpec == Spec /\ Fairness
-----------------------------------------------------------------------------
(* Properties.                                                             *)

\* Central can call the agent at ep, and shows it under this name.
Serves(id, n, ep) ==
    /\ id \in known
    /\ name[id] = n
    /\ endpoint[id] = ep
    /\ conn[id] \in open
    /\ target[conn[id]] = ep

\* SendHeartbeat closes the old client of an agent that moved before it dials
\* the new one.  However many handlers of one agent overlap, an entry whose
\* client is closed is about to be given a new one, unless that could not be
\* dialled: callers of the agent API meet a closed client for a moment only.
ClosedClientIsBeingReplaced ==
    \A id \in Id \ stranded :
        conn[id] \notin open \cup {NoConn} =>
            \E h \in Handler : pc[h] = "redial" /\ req[h].id = id

\* Unless heartbeats of one agent overlapped since central was started, every
\* client that was not closed is the client of an entry, so it is found and
\* closed when the agent moves or central shuts down.
NoOrphanedClient ==
    overlapped = {} => \A c \in open : \E id \in Id : conn[id] = c

\* Between heartbeats of an agent none of which overlapped, the client of its
\* entry goes to the endpoint the entry records: the comparison "has the
\* endpoint changed" that decides whether to redial compares with what was
\* really dialled.
RecordedEndpointIsDialled ==
    \A id \in Id \ overlapped :
        ~Busy(id) /\ conn[id] # NoConn => target[conn[id]] = endpoint[id]

\* An agent whose heartbeat is answered with success can be called at the
\* endpoint that heartbeat carried, and is listed under its name, unless its
\* heartbeats overlapped or a new client could not be dialled for it.
AcceptedHeartbeatIsCallable ==
    \A h \in Handler :
        pc[h] = "reply" /\ req[h].id \notin overlapped \cup stranded =>
            Serves(req[h].id, req[h].name, req[h].ep)

\* An agent central holds a client for has a heartbeat on record in etcd:
\* SendHeartbeat writes etcd before it touches the registry, and etcd survives
\* the restarts that empty the registry.
ClientHasHeartbeat ==
    \A id \in Id : conn[id] # NoConn => id \in etcd

\* However central was restarted and the configs edited, once that is over
\* every agent that has its UUID stays callable where its config says, if that
\* can be dialled and unless its heartbeats overlapped or its client was closed
\* for one that could not be dialled.
EventuallyCallable ==
    \A id \in Id :
        LET Settled == /\ owner[id] = "held" /\ cfg[id].addr \notin BadAddr
                       /\ id \notin overlapped \cup stranded
        IN  <>[](Settled => Serves(id, cfg[id].name, GRPCEndpoint(cfg[id])))
-----------------------------------------------------------------------------
(* What the registry is for.                                               *)

\* Where a call to the agent goes: to where its client was dialled, nowhere
\* (NoPort) when that is closed, and NoConn when there is none.
Reach(id) == IF conn[id] \in open THEN target[conn[id]]
             ELSE IF conn[id] = NoConn THEN NoConn ELSE NoPort

Directory == INSTANCE AgentDirectory WITH
    Agent <- Id,
    Place <- [addr : Addr \ BadAddr, port : Port],
    Unnamed <- Placeholder,
    Undialled <- NoConn,
    Nowhere <- NoPort,
    listed <- known,
    shown <- name,
    reach <- [id \in Id |-> Reach(id)]

\* The registry is a directory of agents: no step of a handler moves another
\* agent than its own, takes an agent's calls to a new place before they
\* failed at the old one, sends calls to the bare address of a registration,
\* or replaces an entry that is there.
ImplementsDirectory == Directory!Spec
=============================================================================
