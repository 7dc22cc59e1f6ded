------------------------ MODULE AgentDirectoryProofs ------------------------
(***************************************************************************)
(* CentralRegistry implements AgentDirectory, for every number of agents,  *)
(* clients and handlers, while no heartbeats of one agent overlap.         *)
(***************************************************************************)
EXTENDS CentralRegistryProofs

\* No heartbeats of one agent overlapped since central was started.
NoOverlap == overlapped = {}

Place == [addr : Addr \ BadAddr, port : Port]

\* What a heartbeat carries: a name and a place.
Carries(h) ==
    pc[h] \in HeartbeatPC =>
        req[h].name \in Name /\ req[h].ep \in [addr : Addr, port : Port]

\* An agent that is not listed has nothing in the registry, and one that is
\* being registered is not listed.
Unlisted ==
    /\ \A id \in Id : id \notin known => name[id] = Placeholder
    /\ \A id \in Id : owner[id] = "free" => id \notin known
    /\ \A h \in Handler : pc[h] = "register" => req[h].id \notin known

\* What a registration carries: no name.
Nameless(h) == pc[h] = "register" => req[h].name = Placeholder

DirectoryInv == Unlisted /\ \A h \in Handler : Carries(h) /\ Nameless(h)

\* DirectoryInv is kept by every step of the registry.
LEMMA DirectoryInductive ==
    ASSUME TypeOK, SerialInv, DirectoryInv, [Next]_vars
    PROVE  DirectoryInv'
<1> USE RegistryAssumption
<1> USE DEF TypeOK, DirectoryInv, Unlisted, Carries, Nameless, RegisterPC,
            HeartbeatPC, entryVars, clientVars, agentVars, Goto, Return, NewEntry
<1>0. \A h \in Handler : pc[h] # "idle" => req[h].id \in Id
  BY DEF Request
<1>1. ASSUME NEW h \in Handler, RegisterArrives(h) PROVE DirectoryInv'
  BY <1>1 DEF RegisterArrives
<1>2. ASSUME NEW h \in Handler, NEW id \in Id, HeartbeatArrives(id, h)
      PROVE  DirectoryInv'
  <2>1. cfg[id] \in Config
    BY <1>2 DEF HeartbeatArrives
  <2> QED
    BY <1>2, <2>1 DEF HeartbeatArrives, GRPCEndpoint, Config
<1>3. ASSUME NEW h \in Handler, PutOk(h) \/ PutFails(h) PROVE DirectoryInv'
  BY <1>3 DEF PutOk, PutFails
<1>4. ASSUME NEW h \in Handler, HandlerStep(h) PROVE DirectoryInv'
  <2>1. CASE RegisterInsert(h)
    BY <1>0, <2>1 DEF RegisterInsert, SerialInv, OneRegistration, OneHeartbeat
  <2>2. CASE RegisterReply(h)
    BY <1>0, <2>2 DEF RegisterReply, SerialInv, OneRegistration, OneHeartbeat
  <2>3. CASE Lookup(h)
    BY <1>0, <2>3 DEF Lookup
  <2>4. CASE Insert(h)
    BY <1>0, <2>4 DEF Insert, SerialInv, OneRegistration, OneHeartbeat
  <2>5. CASE Update(h)
    BY <1>0, <2>5 DEF Update, SerialInv, Found
  <2>6. CASE Close(h)
    BY <1>0, <2>6 DEF Close
  <2>7. CASE Redial(h)
    BY <1>0, <2>7 DEF Redial
  <2>8. CASE NilCheck(h)
    BY <1>0, <2>8 DEF NilCheck
  <2>9. CASE DialFails(h)
    BY <1>0, <2>9 DEF DialFails
  <2>10. CASE Store(h)
    BY <1>0, <2>10 DEF Store
  <2>11. CASE Reply(h)
    BY <1>0, <2>11 DEF Reply
  <2> QED
    BY <1>4, <2>1, <2>2, <2>3, <2>4, <2>5, <2>6, <2>7, <2>8, <2>9, <2>10, <2>11
       DEF HandlerStep
<1>5. ASSUME NEW id \in Id, EditConfig(id) \/ GiveUp(id) PROVE DirectoryInv'
  BY <1>5 DEF EditConfig, GiveUp
<1>6. CASE Restart
  BY <1>6 DEF Restart
<1>7. CASE UNCHANGED vars
  BY <1>7 DEF vars
<1> QED
  BY <1>1, <1>2, <1>3, <1>4, <1>5, <1>6, <1>7 DEF Next

-----------------------------------------------------------------------------
(* The steps.  R is where calls to each agent go.                          *)

R == [id \in Id |-> Reach(id)]

\* A step of the directory, or a stutter.
DirectoryStep == [Directory!Next]_<<known, name, R>>

\* Nothing that calls depend on changes.
LEMMA ReachKept ==
    ASSUME UNCHANGED <<conn, open, target>>
    PROVE  UNCHANGED R
  BY DEF R, Reach

\* The calls to one agent go somewhere else.
LEMMA ReachChanged ==
    ASSUME NEW i \in Id, NEW p, Reach(i)' = p,
           \A j \in Id : j # i => Reach(j)' = Reach(j)
    PROVE  R' = [R EXCEPT ![i] = p]
  BY DEF R

\* A client is dialled for one agent: calls to the others go where they went.
LEMMA ReachDialled ==
    ASSUME TypeOK, NEW h \in Handler, NEW c \in Conn, NEW i \in Id,
           NewClient(h, c), conn' = [conn EXCEPT ![i] = c]
    PROVE  R' = [R EXCEPT ![i] = req[h].ep]
<1>1. Reach(i)' = req[h].ep
  BY DEF Reach, NewClient, TypeOK
<1>2. ASSUME NEW j \in Id, j # i PROVE Reach(j)' = Reach(j)
  BY <1>2 DEF Reach, NewClient, Fresh, TypeOK
<1> QED
  BY <1>1, <1>2, ReachChanged

\* Every step of the registry is a step of the directory, or changes nothing
\* that the directory has.
LEMMA StepSimulation ==
    ASSUME NoOverlap, TypeOK, TypeOK', Unshared, SerialInv, DirectoryInv,
           [Next]_vars
    PROVE  DirectoryStep
<1> USE RegistryAssumption
<1>0. \A h \in Handler : pc[h] # "idle" => req[h].id \in Id
  BY DEF TypeOK, Request
<1>1. CASE UNCHANGED <<known, name, conn, open, target>>
  BY <1>1, ReachKept DEF DirectoryStep
<1>2. ASSUME NEW h \in Handler, RegisterInsert(h) PROVE DirectoryStep
  <2> DEFINE a == req[h].id
  <2>1. a \in Id /\ a \notin known /\ conn[a] = NoConn
    BY <1>0, <1>2 DEF RegisterInsert, DirectoryInv, Unlisted, SerialInv
  <2>2. req[h].name = Placeholder
    BY <1>2 DEF RegisterInsert, DirectoryInv, Nameless
  <2>3. conn' = conn /\ name' = name
    BY <1>2, <2>1, <2>2
       DEF RegisterInsert, NewEntry, DirectoryInv, Unlisted, TypeOK
  <2>4. known' = known \cup {a} /\ UNCHANGED R
    BY <1>2, <2>3, ReachKept DEF RegisterInsert, NewEntry, clientVars
  <2> QED
    BY <2>1, <2>3, <2>4 DEF DirectoryStep, Directory!Next, Directory!Enlist, R
<1>3. ASSUME NEW h \in Handler, Insert(h) PROVE DirectoryStep
  <2> DEFINE a == req[h].id
  <2>1. a \in Id /\ a \notin known /\ Carries(h)
    BY <1>0, <1>3 DEF Insert, DirectoryInv, NoOverlap, SerialInv, EntryAtStep
  <2>2. PICK c \in Conn : NewClient(h, c) /\ NewEntry(h, c)
    BY <1>3 DEF Insert
  <2>3. R' = [R EXCEPT ![a] = req[h].ep]
    BY <2>1, <2>2, ReachDialled DEF NewEntry
  <2>4. /\ req[h].name \in Name /\ req[h].ep \in Place
        /\ known' = known \cup {a} /\ name' = [name EXCEPT ![a] = req[h].name]
    BY <1>3, <2>1, <2>2
       DEF Insert, Carries, HeartbeatPC, NewEntry, NewClient, Place
  <2>5. Directory!Return(a)
    BY <2>1, <2>3, <2>4 DEF Directory!Return, R, Place
  <2> QED
    BY <2>1, <2>5 DEF DirectoryStep, Directory!Next
<1>4. ASSUME NEW h \in Handler, Update(h) PROVE DirectoryStep
  <2> DEFINE a == req[h].id
  <2>1. a \in Id /\ a \in known /\ req[h].name \in Name
    BY <1>0, <1>4
       DEF Update, DirectoryInv, Carries, HeartbeatPC, SerialInv, Found
  <2>2. Directory!Rename(a)
    BY <1>4, <2>1, ReachKept DEF Update, clientVars, Directory!Rename, R
  <2> QED
    BY <2>1, <2>2 DEF DirectoryStep, Directory!Next
<1>5. ASSUME NEW h \in Handler, NEW a \in Id, a = req[h].id, Close(h)
      PROVE  DirectoryStep
  <2>1. UNCHANGED <<known, name, conn, target>>
    BY <1>5 DEF Close, entryVars
  <2>0. CASE conn[a] = NoConn
    <3>1. open' = open
      BY <1>5, <2>0 DEF Close, TypeOK
    <3> QED
      BY <1>1, <2>1, <3>1
  <2> SUFFICES ASSUME conn[a] # NoConn PROVE DirectoryStep
    BY <2>0
  <2>2. Reach(a)' = NoPort /\ R[a] # NoConn
    BY <1>5, AbsentAssumption DEF Close, Reach, entryVars, R, TypeOK
  <2>3. ASSUME NEW j \in Id, j # a PROVE Reach(j)' = Reach(j)
    BY <1>5, <2>1, <2>3 DEF Close, Reach, Unshared, entryVars, TypeOK
  <2>4. R' = [R EXCEPT ![a] = NoPort]
    BY <2>1, <2>2, <2>3, ReachChanged
  <2>5. Directory!Leave(a)
    BY <2>1, <2>2, <2>4 DEF Directory!Leave, R
  <2> QED
    BY <2>1, <2>5 DEF DirectoryStep, Directory!Next
<1>6. ASSUME NEW h \in Handler, NEW c \in Conn,
             pc[h] \in {"redial", "nilcheck"}, NewClient(h, c), conn' = [conn EXCEPT ![req[h].id] = c],
             conn[req[h].id] \notin open, UNCHANGED <<known, name>>
      PROVE  DirectoryStep
  <2> DEFINE a == req[h].id
  <2>1. a \in Id /\ a \in known /\ name[a] \in Name /\ req[h].ep \in Place
    BY <1>0, <1>6
       DEF DirectoryInv, Carries, HeartbeatPC, NoOverlap, SerialInv, Found,
           EntryAtStep, Place, NewClient
  <2>2. R[a] \in {NoConn, NoPort}
    BY <1>6, <2>1 DEF R, Reach
  <2>3. R' = [R EXCEPT ![a] = req[h].ep]
    BY <1>6, <2>1, ReachDialled
  <2>4. Directory!Arrive(a)
    BY <1>6, <2>1, <2>2, <2>3 DEF Directory!Arrive, R, Place
  <2> QED
    BY <2>1, <2>4 DEF DirectoryStep, Directory!Next
<1>7. ASSUME NEW h \in Handler, Redial(h) PROVE DirectoryStep
  BY <1>6, <1>7 DEF Redial, NoOverlap, SerialInv, EntryAtStep
<1>8. ASSUME NEW h \in Handler, NilCheck(h) PROVE DirectoryStep
  <2>1. CASE conn[req[h].id] = NoConn
    BY <1>6, <1>8, <2>1 DEF NilCheck, TypeOK
  <2>2. CASE conn[req[h].id] # NoConn
    BY <1>1, <1>8, <2>2 DEF NilCheck, clientVars
  <2> QED
    BY <2>1, <2>2
<1>9. CASE Restart
  <2>1. R' = [id \in Id |-> NoConn]
    BY <1>9 DEF Restart, R, Reach
  <2> QED
    BY <1>9, <2>1
       DEF Restart, DirectoryStep, Directory!Next, Directory!Reset, R
<1>10. ASSUME NEW h \in Handler, Close(h) PROVE DirectoryStep
  BY <1>0, <1>5, <1>10 DEF Close
<1> QED
  BY <1>1, <1>2, <1>3, <1>4, <1>10, <1>7, <1>8, <1>9
     DEF Next, HandlerStep, vars, entryVars, clientVars, RegisterArrives,
         HeartbeatArrives, PutOk, PutFails, RegisterReply, Lookup,
         DialFails, Store, Reply, EditConfig, GiveUp

\* As long as no heartbeats of one agent overlap, the registry is a directory of
\* agents: RegisterAgent only lists them, SendHeartbeat names them and takes
\* calls to them from one place to the next by way of nowhere, each for the
\* agent it serves and no other.
THEOREM RegistryIsDirectory == Spec /\ []NoOverlap => ImplementsDirectory
<1>1. Init => DirectoryInv
  BY DEF Init, DirectoryInv, Unlisted, Carries, Nameless, HeartbeatPC
<1>2. TypeOK /\ SerialInv /\ DirectoryInv /\ [Next]_vars => DirectoryInv'
  BY DirectoryInductive
<1>3. Init => Directory!Init
  BY RegistryAssumption DEF Init, Directory!Init, Reach
<1>4. /\ NoOverlap /\ TypeOK /\ TypeOK' /\ Unshared /\ SerialInv /\ DirectoryInv
      /\ [Next]_vars
      => [Directory!Next]_<<known, name, [id \in Id |-> Reach(id)]>>
  BY StepSimulation DEF DirectoryStep, R
<1> QED
  BY <1>1, <1>2, <1>3, <1>4, TypeCorrect, UnsharedInvariant, SerialInvariant,
     PTL DEF Spec, ImplementsDirectory, Directory!Spec
=============================================================================
