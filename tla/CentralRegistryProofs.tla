----------------------- MODULE CentralRegistryProofs -----------------------
(***************************************************************************)
(* Proofs about CentralRegistry, for every number of agents, clients and   *)
(* handlers, every set of addresses and every value of the bounds.         *)
(***************************************************************************)
EXTENDS CentralRegistry, TLAPS

\* The types of the variables are right in every state: every handler that
\* runs has a request, every issued UUID a config, every counter its bound.
THEOREM TypeCorrect == Spec => []TypeOK
<1>1. Init => TypeOK
  BY RegistryAssumption DEF Init, TypeOK
<1>2. TypeOK /\ [Next]_vars => TypeOK'
  <2> SUFFICES ASSUME TypeOK, [Next]_vars PROVE TypeOK'
    OBVIOUS
  <2> USE RegistryAssumption DEF TypeOK, agentVars, clientVars, entryVars, NewEntry,
          NewClient, Goto, Return
  <2>1. ASSUME NEW h \in Handler, RegisterArrives(h) PROVE TypeOK'
    BY <2>1 DEF RegisterArrives, RegisterEndpoint, Config, Endpoint, Request, RegisterPC, HeartbeatPC
  <2>2. ASSUME NEW h \in Handler, NEW id \in Id, HeartbeatArrives(id, h)
        PROVE TypeOK'
    BY <2>2 DEF HeartbeatArrives, GRPCEndpoint, Config, Endpoint, Request, RegisterPC, HeartbeatPC
  <2>3. ASSUME NEW h \in Handler, PutOk(h) PROVE TypeOK'
    BY <2>3 DEF PutOk, Request, RegisterPC, HeartbeatPC
  <2>4. ASSUME NEW h \in Handler, PutFails(h) PROVE TypeOK'
    BY <2>4 DEF PutFails
  <2>5. ASSUME NEW h \in Handler, HandlerStep(h) PROVE TypeOK'
    <3>1. CASE RegisterInsert(h)
      BY <3>1 DEF RegisterInsert, Request, RegisterPC, HeartbeatPC
    <3>2. CASE RegisterReply(h)
      BY <3>2 DEF RegisterReply, Request, RegisterPC, HeartbeatPC
    <3>3. CASE Lookup(h)
      BY <3>3 DEF Lookup, RegisterPC, HeartbeatPC
    <3>4. CASE Insert(h)
      BY <3>4 DEF Insert, Request, RegisterPC, HeartbeatPC
    <3>5. CASE Update(h)
      BY <3>5 DEF Update, Request, RegisterPC, HeartbeatPC
    <3>6. CASE Close(h)
      BY <3>6 DEF Close, RegisterPC, HeartbeatPC
    <3>7. CASE Redial(h)
      BY <3>7 DEF Redial, Request, RegisterPC, HeartbeatPC
    <3>8. CASE NilCheck(h)
      BY <3>8 DEF NilCheck, Request, RegisterPC, HeartbeatPC
    <3>9. CASE DialFails(h)
      BY <3>9 DEF DialFails, Request
    <3>10. CASE Store(h)
      BY <3>10 DEF Store, Request, RegisterPC, HeartbeatPC
    <3>11. CASE Reply(h)
      BY <3>11 DEF Reply
    <3> QED
      BY <2>5, <3>1, <3>2, <3>3, <3>4, <3>5, <3>6, <3>7, <3>8, <3>9, <3>10,
         <3>11 DEF HandlerStep
  <2>6. ASSUME NEW id \in Id, EditConfig(id) PROVE TypeOK'
    BY <2>6 DEF EditConfig
  <2>7. ASSUME NEW id \in Id, GiveUp(id) PROVE TypeOK'
    BY <2>7 DEF GiveUp
  <2>8. CASE Restart
    BY <2>8 DEF Restart
  <2>9. CASE UNCHANGED vars
    BY <2>9 DEF vars
  <2> QED
    BY <2>1, <2>2, <2>3, <2>4, <2>5, <2>6, <2>7, <2>8, <2>9 DEF Next
<1> QED
  BY <1>1, <1>2, PTL DEF Spec
-----------------------------------------------------------------------------
\* Two entries never hold the same gRPC client, so closing the client of one
\* agent does not touch the others.
Unshared ==
    \A i, j \in Id : i # j /\ conn[i] = conn[j] => conn[i] = NoConn

LEMMA UnsharedInvariant == Spec => []Unshared
<1>1. Init => Unshared
  BY DEF Init, Unshared
<1>2. TypeOK /\ Unshared /\ [Next]_vars => Unshared'
  <2> SUFFICES ASSUME TypeOK, Unshared, [Next]_vars PROVE Unshared'
    OBVIOUS
  <2>0. \A h \in Handler : pc[h] # "idle" => req[h].id \in Id
    BY DEF TypeOK, Request
  <2>1. CASE conn' = conn
    BY <2>1 DEF Unshared
  <2>2. ASSUME NEW h \in Handler, NEW c \in Conn \cup {NoConn},
               req[h].id \in Id, c = NoConn \/ Fresh(c),
               conn' = [conn EXCEPT ![req[h].id] = c]
        PROVE  Unshared'
    BY <2>2 DEF Unshared, Fresh, TypeOK
  <2>3. ASSUME NEW h \in Handler,
               RegisterInsert(h) \/ Insert(h) \/ Redial(h) \/ NilCheck(h)
        PROVE  Unshared'
    BY <2>0, <2>1, <2>2, <2>3
       DEF RegisterInsert, Insert, Redial, NilCheck, NewEntry, NewClient
  <2>4. CASE Restart
    BY <2>4 DEF Restart, Unshared
  <2> QED
    BY <2>1, <2>3, <2>4
       DEF Next, HandlerStep, vars, entryVars, clientVars, RegisterArrives,
           HeartbeatArrives, PutOk, PutFails, RegisterReply, Lookup, Update,
           Close, DialFails, Store, Reply, EditConfig, GiveUp
<1> QED
  BY <1>1, <1>2, TypeCorrect, PTL DEF Spec

\* An entry holds a closed client only while a handler of its agent is between
\* closing the old client and dialling the new one, or after that dial failed,
\* however many heartbeats of one agent overlap.
THEOREM ClosedClientReplaced == Spec => []ClosedClientIsBeingReplaced
<1>1. Init => ClosedClientIsBeingReplaced
  BY DEF Init, ClosedClientIsBeingReplaced
<1>2. ASSUME TypeOK, Unshared, ClosedClientIsBeingReplaced, [Next]_vars
      PROVE  ClosedClientIsBeingReplaced'
  <2> USE <1>2, RegistryAssumption
      DEF Unshared, ClosedClientIsBeingReplaced, entryVars, clientVars, agentVars
  <2>1. ASSUME NEW h \in Handler, RegisterArrives(h)
        PROVE  ClosedClientIsBeingReplaced'
    BY <2>1 DEF RegisterArrives, Goto, TypeOK
  <2>2. ASSUME NEW h \in Handler, NEW id \in Id, HeartbeatArrives(id, h)
        PROVE  ClosedClientIsBeingReplaced'
    BY <2>2 DEF HeartbeatArrives, Goto, TypeOK
  <2>3. ASSUME NEW h \in Handler, PutOk(h)
        PROVE  ClosedClientIsBeingReplaced'
    BY <2>3 DEF PutOk, Goto, TypeOK
  <2>4. ASSUME NEW h \in Handler, PutFails(h)
        PROVE  ClosedClientIsBeingReplaced'
    BY <2>4 DEF PutFails, Return, TypeOK
  <2>5. ASSUME NEW h \in Handler, HandlerStep(h)
        PROVE  ClosedClientIsBeingReplaced'
    <3>0. pc[h] # "idle" => req[h] \in Request /\ req[h].id \in Id
      BY DEF TypeOK, Request
    <3>1. CASE RegisterInsert(h)
      BY <3>0, <3>1 DEF RegisterInsert, NewEntry, Goto, TypeOK
    <3>2. CASE RegisterReply(h)
      BY <3>2 DEF RegisterReply, Return, TypeOK
    <3>3. CASE Lookup(h)
      BY <3>3 DEF Lookup, Goto, TypeOK
    <3>4. CASE Insert(h)
      BY <3>0, <3>4 DEF Insert, NewClient, Fresh, NewEntry, Goto, TypeOK
    <3>5. CASE Update(h)
      BY <3>5 DEF Update, Goto, TypeOK
    <3>6. CASE Close(h)
      BY <3>0, <3>6 DEF Close, Goto, TypeOK
    <3>7. CASE Redial(h)
      BY <3>0, <3>7 DEF Redial, NewClient, Fresh, Goto, TypeOK
    <3>8. CASE NilCheck(h)
      BY <3>0, <3>8 DEF NilCheck, NewClient, Fresh, Goto, TypeOK
    <3>9. CASE DialFails(h)
      BY <3>0, <3>9 DEF DialFails, Return, TypeOK
    <3>10. CASE Store(h)
      BY <3>10 DEF Store, Goto, TypeOK
    <3>11. CASE Reply(h)
      BY <3>11 DEF Reply, Return, TypeOK
    <3> QED
      BY <2>5, <3>1, <3>2, <3>3, <3>4, <3>5, <3>6, <3>7, <3>8, <3>9, <3>10,
         <3>11 DEF HandlerStep
  <2>6. ASSUME NEW id \in Id, EditConfig(id) \/ GiveUp(id)
        PROVE  ClosedClientIsBeingReplaced'
    BY <2>6 DEF EditConfig, GiveUp
  <2>7. CASE Restart
    BY <2>7 DEF Restart
  <2>8. CASE UNCHANGED vars
    BY <2>8 DEF vars
  <2> QED
    BY <2>1, <2>2, <2>3, <2>4, <2>5, <2>6, <2>7, <2>8 DEF Next
<1> QED
  BY <1>1, <1>2, TypeCorrect, UnsharedInvariant, PTL DEF Spec
-----------------------------------------------------------------------------
(* An agent none of whose heartbeats overlapped has at most one handler at *)
(* work on its entry, and the entry is in the state the handler's next     *)
(* step expects, whatever the heartbeats of other agents do.               *)

\* Two heartbeats at work on one entry have overlapped.
OneHeartbeat ==
    /\ \A h \in Handler : pc[h] \in HeartbeatPC => owner[req[h].id] = "held"
    /\ \A g, h \in Handler :
         /\ pc[g] \in HeartbeatPC /\ pc[h] \in HeartbeatPC
         /\ g # h /\ req[g].id = req[h].id
         => req[h].id \in overlapped

\* A registration works on an entry no heartbeat and no other registration
\* works on, and no client was dialled for.
OneRegistration ==
    /\ \A h \in Handler : pc[h] \in RegisterPC => owner[req[h].id] = "issued"
    /\ \A g, h \in Handler :
         pc[g] \in RegisterPC /\ pc[h] \in RegisterPC /\ g # h =>
             req[g].id # req[h].id
    /\ \A id \in Id : owner[id] \in {"free", "issued"} => conn[id] = NoConn

\* A handler that found or made the entry still finds it.
Found(h) ==
    pc[h] \in {"update", "close", "redial", "nilcheck", "store", "reply"} =>
        req[h].id \in known

\* What a heartbeat handler has found or done when it is at a step.
EntryAtStep(h) ==
    /\ pc[h] = "insert" => conn[req[h].id] = NoConn /\ req[h].id \notin known
    /\ pc[h] \in {"close", "redial", "nilcheck", "store", "reply"} =>
         name[req[h].id] = req[h].name
    /\ pc[h] = "redial" => conn[req[h].id] \notin open
    /\ pc[h] \in {"nilcheck", "store"} /\ conn[req[h].id] # NoConn =>
         target[conn[req[h].id]] = req[h].ep
    /\ pc[h] \in {"store", "reply"} => conn[req[h].id] # NoConn
    /\ pc[h] = "reply" => endpoint[req[h].id] = req[h].ep

\* Outside those steps, the entry records what its client dials.
Dialled(id) ==
    (\A h \in Handler : pc[h] \in {"nilcheck", "store"} => req[h].id # id) =>
        (conn[id] # NoConn => target[conn[id]] = endpoint[id])

\* Every open client is the client of an entry.
Owned == overlapped = {} => \A c \in open : \E id \in Id : conn[id] = c

SerialInv ==
    /\ OneHeartbeat
    /\ OneRegistration
    /\ \A h \in Handler : Found(h)
    /\ \A h \in Handler : req[h].id \notin overlapped => EntryAtStep(h)
    /\ \A id \in Id \ overlapped : Dialled(id)
    /\ \A id \in Id : conn[id] # NoConn => id \in known
    /\ Owned

\* Two handlers that run serve requests of one agent only if it has overlapped.
LEMMA OneHandlerPerAgent ==
    ASSUME TypeOK, OneHeartbeat, OneRegistration,
           NEW g \in Handler, NEW h \in Handler, g # h,
           pc[g] # "idle", pc[h] # "idle"
    PROVE  req[g].id # req[h].id \/ req[h].id \in overlapped
  BY DEF TypeOK, OneHeartbeat, OneRegistration

\* SerialInv is kept by every step.
LEMMA SerialInductive ==
    ASSUME TypeOK, TypeOK', SerialInv, [Next]_vars
    PROVE  SerialInv'
<1> USE RegistryAssumption DEF entryVars, clientVars, agentVars
<1> DEFINE Exclusive(h) ==
      \A g \in Handler : g # h /\ pc[g] # "idle" /\ pc[h] # "idle" =>
                             req[g].id # req[h].id \/ req[h].id \in overlapped
<1>1. \A h \in Handler : Exclusive(h)
  BY OneHandlerPerAgent DEF SerialInv
<1>2. \A h \in Handler : pc[h] # "idle" => req[h] \in Request /\ req[h].id \in Id
  BY DEF TypeOK, Request
<1>3. ASSUME NEW h \in Handler, RegisterArrives(h) PROVE SerialInv'
  BY <1>1, <1>2, <1>3
     DEF SerialInv, OneHeartbeat, OneRegistration, Found, EntryAtStep, Dialled,
         Owned, TypeOK, RegisterPC, HeartbeatPC, RegisterArrives,
         Goto, RegisterEndpoint
<1>4. ASSUME NEW h \in Handler, NEW id \in Id, HeartbeatArrives(id, h) PROVE SerialInv'
  BY <1>1, <1>2, <1>4
     DEF SerialInv, OneHeartbeat, OneRegistration, Found, EntryAtStep, Dialled,
         Owned, TypeOK, RegisterPC, HeartbeatPC,
         HeartbeatArrives, Busy, Goto, GRPCEndpoint
<1>5. ASSUME NEW h \in Handler, PutOk(h) PROVE SerialInv'
  BY <1>1, <1>2, <1>5
     DEF SerialInv, OneHeartbeat, OneRegistration, Found, EntryAtStep, Dialled,
         Owned, TypeOK, RegisterPC, HeartbeatPC, PutOk, Goto
<1>6. ASSUME NEW h \in Handler, PutFails(h) PROVE SerialInv'
  BY <1>1, <1>2, <1>6
     DEF SerialInv, OneHeartbeat, OneRegistration, Found, EntryAtStep, Dialled,
         Owned, TypeOK, RegisterPC, HeartbeatPC, PutFails, Return
<1>7. ASSUME NEW h \in Handler, RegisterInsert(h) PROVE SerialInv'
  <2>1. OneHeartbeat' /\ OneRegistration'
    BY <1>1, <1>2, <1>7
       DEF OneHeartbeat, OneRegistration, SerialInv, TypeOK, RegisterPC,
           HeartbeatPC, RegisterInsert, NewEntry, Goto
  <2>2. \A g \in Handler :
          Found(g)' /\ (req'[g].id \notin overlapped' => EntryAtStep(g)')
    BY <1>1, <1>2, <1>7
       DEF Found, EntryAtStep, OneHeartbeat, OneRegistration, Dialled, SerialInv,
           TypeOK, RegisterPC, HeartbeatPC, RegisterInsert, NewEntry, Goto
  <2>3. \A i \in Id \ overlapped' : Dialled(i)'
    BY <1>1, <1>2, <1>7
       DEF Dialled, Found, EntryAtStep, SerialInv, TypeOK, RegisterPC, HeartbeatPC,
           RegisterInsert, NewEntry, Goto
  <2>4. \A i \in Id : conn'[i] # NoConn => i \in known'
    BY <1>1, <1>2, <1>7
       DEF Found, EntryAtStep, SerialInv, TypeOK, RegisterPC, HeartbeatPC,
           RegisterInsert, NewEntry, Goto
  <2>5. Owned'
    BY <1>1, <1>2, <1>7
       DEF Owned, Found, EntryAtStep, OneRegistration, SerialInv,
           TypeOK, RegisterPC, HeartbeatPC, RegisterInsert, NewEntry, Goto
  <2> QED
    BY <2>1, <2>2, <2>3, <2>4, <2>5 DEF SerialInv
<1>8. ASSUME NEW h \in Handler, RegisterReply(h) PROVE SerialInv'
  BY <1>1, <1>2, <1>8
     DEF SerialInv, OneHeartbeat, OneRegistration, Found, EntryAtStep, Dialled,
         Owned, TypeOK, RegisterPC, HeartbeatPC, RegisterReply,
         Return
<1>9. ASSUME NEW h \in Handler, Lookup(h) PROVE SerialInv'
  BY <1>1, <1>2, <1>9
     DEF SerialInv, OneHeartbeat, OneRegistration, Found, EntryAtStep, Dialled,
         Owned, TypeOK, RegisterPC, HeartbeatPC, Lookup, Goto
<1>10. ASSUME NEW h \in Handler, Insert(h) PROVE SerialInv'
  <2>1. OneHeartbeat' /\ OneRegistration'
    BY <1>1, <1>2, <1>10
       DEF OneHeartbeat, OneRegistration, SerialInv, TypeOK, RegisterPC,
           HeartbeatPC, Insert, NewClient, Fresh, NewEntry, Goto
  <2>2. \A g \in Handler :
          Found(g)' /\ (req'[g].id \notin overlapped' => EntryAtStep(g)')
    BY <1>1, <1>2, <1>10
       DEF Found, EntryAtStep, OneHeartbeat, OneRegistration, Dialled, SerialInv,
           TypeOK, RegisterPC, HeartbeatPC, Insert, NewClient, Fresh,
           NewEntry, Goto
  <2>3. \A i \in Id \ overlapped' : Dialled(i)'
    BY <1>1, <1>2, <1>10
       DEF Dialled, Found, EntryAtStep, SerialInv, TypeOK, RegisterPC, HeartbeatPC,
           Insert, NewClient, Fresh, NewEntry, Goto
  <2>4. \A i \in Id : conn'[i] # NoConn => i \in known'
    BY <1>1, <1>2, <1>10
       DEF Found, EntryAtStep, SerialInv, TypeOK, RegisterPC, HeartbeatPC, Insert,
           NewClient, Fresh, NewEntry, Goto
  <2>5. Owned'
    BY <1>1, <1>2, <1>10
       DEF Owned, Found, EntryAtStep, OneRegistration, SerialInv,
           TypeOK, RegisterPC, HeartbeatPC, Insert, NewClient, Fresh,
           NewEntry, Goto
  <2> QED
    BY <2>1, <2>2, <2>3, <2>4, <2>5 DEF SerialInv
<1>11. ASSUME NEW h \in Handler, Update(h) PROVE SerialInv'
  <2>1. OneHeartbeat' /\ OneRegistration'
    BY <1>1, <1>2, <1>11
       DEF OneHeartbeat, OneRegistration, SerialInv, TypeOK, RegisterPC,
           HeartbeatPC, Update, Goto
  <2>2. \A g \in Handler :
          Found(g)' /\ (req'[g].id \notin overlapped' => EntryAtStep(g)')
    BY <1>1, <1>2, <1>11
       DEF Found, EntryAtStep, OneHeartbeat, OneRegistration, Dialled, SerialInv,
           TypeOK, RegisterPC, HeartbeatPC, Update, Goto
  <2>3. \A i \in Id \ overlapped' : Dialled(i)'
    BY <1>1, <1>2, <1>11
       DEF Dialled, Found, EntryAtStep, SerialInv, TypeOK, RegisterPC, HeartbeatPC,
           Update, Goto
  <2>4. \A i \in Id : conn'[i] # NoConn => i \in known'
    BY <1>1, <1>2, <1>11
       DEF Found, EntryAtStep, SerialInv, TypeOK, RegisterPC, HeartbeatPC, Update,
           Goto
  <2>5. Owned'
    BY <1>1, <1>2, <1>11
       DEF Owned, Found, EntryAtStep, OneRegistration, SerialInv,
           TypeOK, RegisterPC, HeartbeatPC, Update, Goto
  <2> QED
    BY <2>1, <2>2, <2>3, <2>4, <2>5 DEF SerialInv
<1>12. ASSUME NEW h \in Handler, Close(h) PROVE SerialInv'
  <2>1. OneHeartbeat' /\ OneRegistration'
    BY <1>1, <1>2, <1>12
       DEF OneHeartbeat, OneRegistration, SerialInv, TypeOK, RegisterPC,
           HeartbeatPC, Close, Goto
  <2>2. \A g \in Handler :
          Found(g)' /\ (req'[g].id \notin overlapped' => EntryAtStep(g)')
    BY <1>1, <1>2, <1>12
       DEF Found, EntryAtStep, OneHeartbeat, OneRegistration, Dialled, SerialInv,
           TypeOK, RegisterPC, HeartbeatPC, Close, Goto
  <2>3. \A i \in Id \ overlapped' : Dialled(i)'
    BY <1>1, <1>2, <1>12
       DEF Dialled, Found, EntryAtStep, SerialInv, TypeOK, RegisterPC, HeartbeatPC,
           Close, Goto
  <2>4. \A i \in Id : conn'[i] # NoConn => i \in known'
    BY <1>1, <1>2, <1>12
       DEF Found, EntryAtStep, SerialInv, TypeOK, RegisterPC, HeartbeatPC, Close,
           Goto
  <2>5. Owned'
    BY <1>1, <1>2, <1>12
       DEF Owned, Found, EntryAtStep, OneRegistration, SerialInv,
           TypeOK, RegisterPC, HeartbeatPC, Close, Goto
  <2> QED
    BY <2>1, <2>2, <2>3, <2>4, <2>5 DEF SerialInv
<1>13. ASSUME NEW h \in Handler, Redial(h) PROVE SerialInv'
  <2>1. OneHeartbeat' /\ OneRegistration'
    BY <1>1, <1>2, <1>13
       DEF OneHeartbeat, OneRegistration, SerialInv, TypeOK, RegisterPC,
           HeartbeatPC, Redial, NewClient, Fresh, Goto
  <2>2. \A g \in Handler :
          Found(g)' /\ (req'[g].id \notin overlapped' => EntryAtStep(g)')
    BY <1>1, <1>2, <1>13
       DEF Found, EntryAtStep, OneHeartbeat, OneRegistration, Dialled, SerialInv,
           TypeOK, RegisterPC, HeartbeatPC, Redial, NewClient, Fresh, Goto
  <2>3. \A i \in Id \ overlapped' : Dialled(i)'
    BY <1>1, <1>2, <1>13
       DEF Dialled, Found, EntryAtStep, SerialInv, TypeOK, RegisterPC, HeartbeatPC,
           Redial, NewClient, Fresh, Goto
  <2>4. \A i \in Id : conn'[i] # NoConn => i \in known'
    BY <1>1, <1>2, <1>13
       DEF Found, EntryAtStep, SerialInv, TypeOK, RegisterPC, HeartbeatPC, Redial,
           NewClient, Fresh, Goto
  <2>5. Owned'
    BY <1>1, <1>2, <1>13
       DEF Owned, Found, EntryAtStep, OneRegistration, SerialInv,
           TypeOK, RegisterPC, HeartbeatPC, Redial, NewClient, Fresh, Goto
  <2> QED
    BY <2>1, <2>2, <2>3, <2>4, <2>5 DEF SerialInv
<1>14. ASSUME NEW h \in Handler, NilCheck(h) PROVE SerialInv'
  <2>1. OneHeartbeat' /\ OneRegistration'
    BY <1>1, <1>2, <1>14
       DEF OneHeartbeat, OneRegistration, SerialInv, TypeOK, RegisterPC,
           HeartbeatPC, NilCheck, NewClient, Fresh, Goto
  <2>2. \A g \in Handler :
          Found(g)' /\ (req'[g].id \notin overlapped' => EntryAtStep(g)')
    BY <1>1, <1>2, <1>14
       DEF Found, EntryAtStep, OneHeartbeat, OneRegistration, Dialled, SerialInv,
           TypeOK, RegisterPC, HeartbeatPC, NilCheck, NewClient, Fresh, Goto
  <2>3. \A i \in Id \ overlapped' : Dialled(i)'
    BY <1>1, <1>2, <1>14
       DEF Dialled, Found, EntryAtStep, SerialInv, TypeOK, RegisterPC, HeartbeatPC,
           NilCheck, NewClient, Fresh, Goto
  <2>4. \A i \in Id : conn'[i] # NoConn => i \in known'
    BY <1>1, <1>2, <1>14
       DEF Found, EntryAtStep, SerialInv, TypeOK, RegisterPC, HeartbeatPC,
           NilCheck, NewClient, Fresh, Goto
  <2>5. Owned'
    BY <1>1, <1>2, <1>14
       DEF Owned, Found, EntryAtStep, OneRegistration, SerialInv,
           TypeOK, RegisterPC, HeartbeatPC, NilCheck, NewClient, Fresh, Goto
  <2> QED
    BY <2>1, <2>2, <2>3, <2>4, <2>5 DEF SerialInv
<1>15. ASSUME NEW h \in Handler, DialFails(h) PROVE SerialInv'
  BY <1>1, <1>2, <1>15
     DEF SerialInv, OneHeartbeat, OneRegistration, Found, EntryAtStep, Dialled,
         Owned, TypeOK, RegisterPC, HeartbeatPC, DialFails,
         Return
<1>16. ASSUME NEW h \in Handler, Store(h) PROVE SerialInv'
  <2>1. OneHeartbeat' /\ OneRegistration'
    BY <1>1, <1>2, <1>16
       DEF OneHeartbeat, OneRegistration, SerialInv, TypeOK, RegisterPC,
           HeartbeatPC, Store, Goto
  <2>2. \A g \in Handler :
          Found(g)' /\ (req'[g].id \notin overlapped' => EntryAtStep(g)')
    BY <1>1, <1>2, <1>16
       DEF Found, EntryAtStep, OneHeartbeat, OneRegistration, Dialled, SerialInv,
           TypeOK, RegisterPC, HeartbeatPC, Store, Goto
  <2>3. \A i \in Id \ overlapped' : Dialled(i)'
    BY <1>1, <1>2, <1>16
       DEF Dialled, Found, EntryAtStep, SerialInv, TypeOK, RegisterPC, HeartbeatPC,
           Store, Goto
  <2>4. \A i \in Id : conn'[i] # NoConn => i \in known'
    BY <1>1, <1>2, <1>16
       DEF Found, EntryAtStep, SerialInv, TypeOK, RegisterPC, HeartbeatPC, Store,
           Goto
  <2>5. Owned'
    BY <1>1, <1>2, <1>16
       DEF Owned, Found, EntryAtStep, OneRegistration, SerialInv,
           TypeOK, RegisterPC, HeartbeatPC, Store, Goto
  <2> QED
    BY <2>1, <2>2, <2>3, <2>4, <2>5 DEF SerialInv
<1>17. ASSUME NEW h \in Handler, Reply(h) PROVE SerialInv'
  BY <1>1, <1>2, <1>17
     DEF SerialInv, OneHeartbeat, OneRegistration, Found, EntryAtStep, Dialled,
         Owned, TypeOK, RegisterPC, HeartbeatPC, Reply, Return
<1>18. ASSUME NEW id \in Id, EditConfig(id) PROVE SerialInv'
  BY <1>18 DEF EditConfig, SerialInv, OneHeartbeat, OneRegistration, Found, EntryAtStep,
     Dialled, Owned
<1>19. ASSUME NEW id \in Id, GiveUp(id) PROVE SerialInv'
  BY <1>19 DEF GiveUp, SerialInv, OneHeartbeat, OneRegistration, Found,
     EntryAtStep, Dialled, Owned
<1>20. CASE Restart
  BY <1>20 DEF Restart, SerialInv, OneHeartbeat, OneRegistration, Found, EntryAtStep,
     Dialled, Owned, RegisterPC, HeartbeatPC
<1>21. CASE UNCHANGED vars
  BY <1>21 DEF vars, SerialInv, OneHeartbeat, OneRegistration, Found, EntryAtStep,
     Dialled, Owned
<1> QED
  BY <1>3, <1>4, <1>5, <1>6, <1>7, <1>8, <1>9, <1>10, <1>11, <1>12, <1>13, <1>14, <1>15, <1>16, <1>17, <1>18, <1>19, <1>20, <1>21
     DEF Next, HandlerStep

LEMMA SerialInvariant == Spec => []SerialInv
<1>1. Init => SerialInv
  BY DEF Init, SerialInv, OneHeartbeat, OneRegistration, Found, EntryAtStep,
         Dialled, Owned, RegisterPC, HeartbeatPC
<1>2. TypeOK /\ TypeOK' /\ SerialInv /\ [Next]_vars => SerialInv'
  BY SerialInductive
<1> QED
  BY <1>1, <1>2, TypeCorrect, PTL DEF Spec

\* As long as no heartbeats of one agent overlapped since central was started,
\* no gRPC client leaks: each one that was not closed is the client of an
\* entry, so the next move of its agent, or the shutdown of central, closes it.
THEOREM NoClientLeaks == Spec => []NoOrphanedClient
<1>1. SerialInv => NoOrphanedClient
  BY DEF SerialInv, Owned, NoOrphanedClient
<1> QED
  BY <1>1, SerialInvariant, PTL

\* For an agent whose heartbeats did not overlap, whatever other agents do, the
\* endpoint its entry records is the one its client was created for, whenever
\* no heartbeat of the agent runs: the comparison in the next heartbeat decides
\* on what was really dialled.
THEOREM EndpointIsDialled == Spec => []RecordedEndpointIsDialled
<1>1. SerialInv => RecordedEndpointIsDialled
  BY DEF SerialInv, Dialled, RecordedEndpointIsDialled, Busy, HeartbeatPC
<1> QED
  BY <1>1, SerialInvariant, PTL

\* A heartbeat that is answered with success leaves central with an open client
\* for the endpoint it carried, unless heartbeats of this agent overlapped or
\* its client was closed for one that could not be dialled.
THEOREM AcceptedIsCallable == Spec => []AcceptedHeartbeatIsCallable
<1>1. ASSUME TypeOK, SerialInv, ClosedClientIsBeingReplaced
      PROVE  AcceptedHeartbeatIsCallable
  <2> SUFFICES ASSUME NEW h \in Handler, pc[h] = "reply",
                      req[h].id \notin overlapped \cup stranded
               PROVE  Serves(req[h].id, req[h].name, req[h].ep)
    BY DEF AcceptedHeartbeatIsCallable
  <2>1. req[h].id \in Id /\ Found(h) /\ EntryAtStep(h)
    BY <1>1 DEF TypeOK, Request, SerialInv
  <2>2. \A g \in Handler : pc[g] # "idle" /\ g # h => req[g].id # req[h].id
    BY <1>1, <2>1, OneHandlerPerAgent DEF SerialInv
  <2>3. conn[req[h].id] \in open
    BY <1>1, <2>1, <2>2 DEF ClosedClientIsBeingReplaced, EntryAtStep
  <2>4. target[conn[req[h].id]] = endpoint[req[h].id]
    BY <1>1, <2>1, <2>2 DEF SerialInv, Dialled, EntryAtStep
  <2> QED
    BY <2>1, <2>3, <2>4 DEF Serves, Found, EntryAtStep
<1> QED
  BY <1>1, TypeCorrect, SerialInvariant, ClosedClientReplaced, PTL
-----------------------------------------------------------------------------
\* An agent central holds a client for has a heartbeat in etcd, whatever
\* overlaps and however often central restarts: it is written first, and a
\* failed write ends the handler.
THEOREM ClientsHaveHeartbeats == Spec => []ClientHasHeartbeat
<1> DEFINE PutFirst == \A h \in Handler :
             pc[h] \in HeartbeatPC \ {"put"} => req[h].id \in etcd
           Inv == PutFirst /\ ClientHasHeartbeat
<1>1. Init => Inv
  BY DEF Init, ClientHasHeartbeat, HeartbeatPC
<1>2. TypeOK /\ Inv /\ [Next]_vars => Inv'
  <2> SUFFICES ASSUME TypeOK, Inv, [Next]_vars PROVE Inv'
    OBVIOUS
  <2> USE RegistryAssumption DEF ClientHasHeartbeat, HeartbeatPC, TypeOK,
          entryVars, clientVars, agentVars, Goto, Return
  <2>1. ASSUME NEW h \in Handler,
               \/ RegisterArrives(h) \/ PutOk(h) \/ PutFails(h)
               \/ \E id \in Id : HeartbeatArrives(id, h)
        PROVE  Inv'
    BY <2>1 DEF RegisterArrives, PutOk, PutFails, HeartbeatArrives
  <2>2. ASSUME NEW h \in Handler, HandlerStep(h) PROVE Inv'
    <3>1. CASE RegisterInsert(h) \/ RegisterReply(h)
      BY <3>1 DEF RegisterInsert, RegisterReply, NewEntry
    <3>2. CASE Insert(h) \/ Redial(h) \/ NilCheck(h)
      BY <3>2 DEF Insert, Redial, NilCheck, NewEntry, NewClient
    <3>3. CASE \/ Lookup(h) \/ Update(h) \/ Close(h) \/ DialFails(h)
               \/ Store(h) \/ Reply(h)
      BY <3>3 DEF Lookup, Update, Close, DialFails, Store, Reply
    <3> QED
      BY <2>2, <3>1, <3>2, <3>3 DEF HandlerStep
  <2>3. ASSUME NEW id \in Id, EditConfig(id) \/ GiveUp(id) PROVE Inv'
    BY <2>3 DEF EditConfig, GiveUp
  <2>4. CASE Restart
    BY <2>4 DEF Restart
  <2>5. CASE UNCHANGED vars
    BY <2>5 DEF vars
  <2> QED
    BY <2>1, <2>2, <2>3, <2>4, <2>5 DEF Next
<1> QED
  BY <1>1, <1>2, TypeCorrect, PTL DEF Spec
=============================================================================
