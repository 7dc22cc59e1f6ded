------------------------ MODULE HeartbeatStatusProofs ------------------------
(***************************************************************************)
(* Proofs about HeartbeatStatus, for every set of agents and all values of *)
(* the intervals, the delays and the bounds.                               *)
(***************************************************************************)
EXTENDS HeartbeatStatus, TLAPS

\* What is used of time.Time.Unix: it is monotone, and whole seconds can be
\* taken off before or after it.
LEMMA UnixMonotone ==
    \A a, b \in Int : a <= b => Unix(a) <= Unix(b)
  BY DEF Unix

LEMMA UnixShift ==
    \A a, k \in Int : Unix(a - Seconds(k)) = Unix(a) - k
  BY DEF Unix, Seconds

LEMMA UnixNat == \A a \in Nat : Unix(a) \in Nat
  BY DEF Unix

LEMMA UnixInt == \A a \in Int : Unix(a) \in Int
  BY DEF Unix

\* What is used of the longest time between two heartbeats.
LEMMA GapBounds == /\ Gap \in Nat /\ MaxDelay <= Gap
                   /\ Seconds(HeartbeatInterval) <= Gap
  BY StatusAssumption DEF Gap, Seconds

\* The types of the variables are right in every state.
THEOREM TypeCorrect == Spec => []TypeOK
<1>1. Init => TypeOK
  <2>1. Epoch \in Nat
    BY StatusAssumption DEF Epoch, Seconds
  <2>2. Init => /\ alive \in [Id -> BOOLEAN] /\ tick \in [Id -> BOOLEAN]
                /\ steady \in [Id -> BOOLEAN] /\ wasSteady \in BOOLEAN
    BY Zenon DEF Init
  <2> QED
    BY <2>1, <2>2, StatusAssumption DEF Init, TypeOK, Stage, Handler
<1>2. TypeOK /\ [Next]_vars => TypeOK'
  <2> SUFFICES ASSUME TypeOK, [Next]_vars PROVE TypeOK'
    OBVIOUS
  <2> USE StatusAssumption, UnixNat
      DEF TypeOK, Stage, Seconds, Handler, agentVars, callVars, queryVars
  <2>0. ASSUME NEW id \in Id, Abandons(id)
        PROVE  /\ call' \in [Handler -> Stage] /\ sentAt' \in [Handler -> Nat]
               /\ stamp' \in [Handler -> Nat]
               /\ owner' \in [Late -> Id \cup {NoAgent}]
               /\ \A h \in Late : call'[h] # "none" => owner'[h] \in Id
    BY <2>0 DEF Abandons, EndCall
  <2>1. ASSUME NEW id \in Id, StartAgent(id) PROVE TypeOK'
    BY <2>1 DEF StartAgent
  <2>2. ASSUME NEW id \in Id, StopAgent(id) PROVE TypeOK'
    BY <2>0, <2>2 DEF StopAgent
  <2>3. ASSUME NEW id \in Id, TickerFires(id) PROVE TypeOK'
    BY <2>3 DEF TickerFires
  <2>4. ASSUME NEW id \in Id, SendHeartbeat(id) PROVE TypeOK'
    BY <2>4 DEF SendHeartbeat
  <2>5. ASSUME NEW h \in Handler, TakeTime(h) PROVE TypeOK'
    BY <2>5 DEF TakeTime
  <2>6. ASSUME NEW h \in Handler, Put(h) PROVE TypeOK'
    <3>1. Of(h) \in Id
      BY <2>6 DEF Put, Of
    <3>2. beat' \in [Id -> Nat] /\ call' \in [Handler -> Stage]
      BY <2>6, <3>1 DEF Put
    <3>3. steady' \in [Id -> BOOLEAN]
      BY <2>6, Zenon DEF Put
    <3>4. \A i \in Late : call'[i] # "none" => owner'[i] \in Id
      BY <2>6 DEF Put
    <3> QED
      BY <2>6, <3>2, <3>3, <3>4 DEF Put
  <2>7. ASSUME NEW id \in Id, Answer(id) PROVE TypeOK'
    BY <2>7 DEF Answer, EndCall
  <2>8. ASSUME NEW id \in Id, CallFails(id) PROVE TypeOK'
    BY <2>0, <2>8 DEF CallFails
  <2>9. ASSUME NEW id \in Id, AskOne(id) PROVE TypeOK'
    BY <2>9 DEF AskOne, ReadEtcd
  <2>10. ASSUME NEW id \in Id, VisitNext(id) PROVE TypeOK'
    BY <2>10 DEF VisitNext, ReadEtcd
  <2>11. ASSUME NEW id \in Id, SkipNext(id) PROVE TypeOK'
    BY <2>11 DEF SkipNext
  <2>12. CASE Tick
    BY <2>12 DEF Tick
  <2>13. CASE RestartCentral
    <3>1. steady' \in [Id -> BOOLEAN] /\ wasSteady' \in BOOLEAN
      BY Zenon, <2>13 DEF RestartCentral, HandlerEnds
    <3>2. restarts' \in 0 .. MaxRestarts
      BY <2>13 DEF RestartCentral
    <3>3. /\ call' \in [Handler -> Stage] /\ sentAt' \in [Handler -> Nat]
          /\ stamp' \in [Handler -> Nat]
          /\ owner' \in [Late -> Id \cup {NoAgent}]
          /\ \A h \in Late : call'[h] = "none"
      BY <2>13 DEF RestartCentral
    <3> QED
      BY Zenon, <2>13, <3>1, <3>2, <3>3 DEF RestartCentral, HandlerEnds
  <2>14. CASE AskAll
    BY <2>14 DEF AskAll
  <2>15. CASE JudgeOne
    BY <2>15 DEF JudgeOne, HandlerEnds
  <2>16. CASE JudgeNext
    BY <2>16 DEF JudgeNext
  <2>17. CASE SendList
    BY <2>17 DEF SendList, HandlerEnds
  <2>18. CASE UNCHANGED vars
    BY <2>18 DEF vars
  <2>19. ASSUME NEW h \in Handler, Enlist(h) PROVE TypeOK'
    <3>1. Of(h) \in Id
      BY <2>19 DEF Enlist, Of
    <3> QED
      BY <2>19, <3>1 DEF Enlist
  <2>20. ASSUME NEW h \in Late, LateEnds(h) PROVE TypeOK'
    BY <2>20 DEF LateEnds, EndCall
  <2> QED
    BY <2>1, <2>2, <2>3, <2>4, <2>5, <2>6, <2>7, <2>8, <2>9, <2>10, <2>11,
       <2>12, <2>13, <2>14, <2>15, <2>16, <2>17, <2>18, <2>19, <2>20
       DEF Next
<1> QED
  BY <1>1, <1>2, PTL DEF Spec
-----------------------------------------------------------------------------
(* The heartbeats, and what they leave in etcd.                            *)

\* A handler is not overdue; its timestamp is from after its heartbeat was sent
\* and not from the future; one that was given up on was sent before the process
\* of its agent ended.
HandlerInv(h) ==
    call[h] # "none" =>
        /\ sentAt[h] <= now /\ now <= sentAt[h] + MaxDelay
        /\ call[h] # "sent" => Unix(sentAt[h]) <= stamp[h] /\ stamp[h] <= Unix(now)
        /\ h \in Late /\ ~alive[owner[h]] => sentAt[h] <= endedAt[owner[h]]

\* The ticker of an agent is not overdue, and fires HeartbeatInterval after the
\* last tick at most, which the heartbeat that is being served has taken when no
\* other tick is waiting.  An agent that is not running has neither.
OnSchedule(id) ==
    /\ alive[id] =>
         /\ now <= tickAt[id] /\ tickAt[id] <= now + Seconds(HeartbeatInterval)
         /\ call[id] # "none" /\ ~tick[id] =>
              tickAt[id] <= sentAt[id] + Seconds(HeartbeatInterval)
    /\ ~alive[id] => call[id] = "none" /\ ~tick[id] /\ ~steady[id]

\* No timestamp is from the future, or from after its agent's end.
NotLater(id) ==
    /\ beat[id] <= Unix(now)
    /\ ~alive[id] => beat[id] <= Unix(endedAt[id] + MaxDelay)

\* The timestamp of a steady agent is from its last heartbeat but one at worst,
\* or from one that was sent MaxDelay before that.
NotEarlier(id) ==
    steady[id] =>
         /\ call[id] \in {"sent", "stamped"} =>
              Unix(sentAt[id] - Gap - MaxDelay) <= beat[id]
         /\ call[id] \in {"written", "listed"} =>
              Unix(sentAt[id] - MaxDelay) <= beat[id]
         /\ call[id] = "none" /\ ~tick[id] =>
              Unix(tickAt[id] - Seconds(HeartbeatInterval) - MaxDelay) <= beat[id]
         /\ call[id] = "none" /\ tick[id] =>
              Unix(now - Gap - MaxDelay) <= beat[id]

\* The status handler is not overdue, and holds a timestamp that was right when
\* it was read.
QueryInv ==
    /\ pc = "read" =>
         /\ readAt <= now /\ now <= readAt + QueryDelay
         /\ seen <= Unix(readAt)
         /\ ~alive[asked] => seen <= Unix(endedAt[asked] + MaxDelay)
         /\ wasSteady => Unix(readAt - Gap - 2 * MaxDelay) <= seen
    /\ wasSteady => pc = "read"

AgentInv ==
    /\ \A h \in Handler : HandlerInv(h)
    /\ \A id \in Id : OnSchedule(id) /\ NotLater(id) /\ NotEarlier(id)

\* The steps by what they touch: the clock, one agent and its heartbeat, one
\* handler, all of them, or only the status handler.
LEMMA StepKinds ==
    ASSUME [Next]_vars
    PROVE  \/ Tick
           \/ \E id \in Id :
                \/ StartAgent(id) \/ StopAgent(id) \/ TickerFires(id)
                \/ SendHeartbeat(id) \/ Answer(id) \/ CallFails(id)
           \/ \E h \in Handler : TakeTime(h) \/ Put(h) \/ Enlist(h)
           \/ \E h \in Late : LateEnds(h)
           \/ RestartCentral
           \/ UNCHANGED <<now, agentVars, callVars, beat, steady>>
  BY DEF Next, vars, AskOne, VisitNext, SkipNext, AskAll, JudgeOne, JudgeNext,
         SendList, ReadEtcd

\* Every handler stays as it should.
LEMMA HandlersKept ==
    ASSUME TypeOK, TypeOK', AgentInv, [Next]_vars
    PROVE  \A h \in Handler : HandlerInv(h)'
<1> SUFFICES ASSUME NEW h \in Handler PROVE HandlerInv(h)'
  OBVIOUS
<1> USE StatusAssumption, UnixMonotone, UnixNat
    DEF TypeOK, Handler, agentVars, callVars
<1>0. HandlerInv(h) /\ \A i \in Handler : HandlerInv(i)
  BY DEF AgentInv
<1>1. CASE Tick
  BY <1>0, <1>1 DEF Tick, HandlerInv
<1>2. ASSUME NEW id \in Id, Abandons(id), UNCHANGED now,
             \A i \in Id : alive'[i] = alive[i] \/ i = id,
             \A i \in Id : i # id => endedAt'[i] = endedAt[i],
             ~alive'[id] => endedAt'[id] = now, alive[id]
      PROVE  HandlerInv(h)'
  <2>1. CASE EndCall(id) /\ UNCHANGED owner
    BY <1>0, <1>2, <2>1 DEF EndCall, HandlerInv
  <2>2. ASSUME NEW l \in Late,
               call[id] # "none", call[l] = "none",
               call' = [call EXCEPT ![l] = call[id], ![id] = "none"],
               sentAt' = [sentAt EXCEPT ![l] = sentAt[id], ![id] = 0],
               stamp' = [stamp EXCEPT ![l] = stamp[id], ![id] = 0],
               owner' = [owner EXCEPT ![l] = id]
        PROVE  HandlerInv(h)'
    <3>0. HandlerInv(id)
      BY <1>0
    <3>1. CASE h = l
      BY <1>2, <2>2, <3>0, <3>1 DEF HandlerInv
    <3>2. CASE h = id
      BY <2>2, <3>2 DEF HandlerInv
    <3>3. CASE h # l /\ h # id
      <4>1. /\ call'[h] = call[h] /\ sentAt'[h] = sentAt[h] /\ stamp'[h] = stamp[h]
            /\ h \in Late => owner'[h] = owner[h]
        BY <2>2, <3>3
      <4> QED
        BY <1>0, <1>2, <4>1 DEF HandlerInv
    <3> QED
      BY <3>1, <3>2, <3>3
  <2> QED
    BY <1>2, <2>1, <2>2 DEF Abandons
<1>3. ASSUME NEW id \in Id, StartAgent(id) PROVE HandlerInv(h)'
  BY <1>0, <1>3 DEF StartAgent, HandlerInv
<1>4. ASSUME NEW id \in Id, StopAgent(id) PROVE HandlerInv(h)'
  BY <1>2, <1>4 DEF StopAgent
<1>5. ASSUME NEW id \in Id, CallFails(id) PROVE HandlerInv(h)'
  <2>1. alive[id]
    BY <1>5 DEF CallFails, AgentInv, OnSchedule
  <2> QED
    BY <1>2, <1>5, <2>1 DEF CallFails
<1>6. ASSUME NEW id \in Id, TickerFires(id) \/ SendHeartbeat(id) \/ Answer(id)
      PROVE  HandlerInv(h)'
  BY <1>0, <1>6 DEF TickerFires, SendHeartbeat, Answer, EndCall, HandlerInv
<1>7. ASSUME NEW i \in Handler, TakeTime(i) \/ Enlist(i)
      PROVE  HandlerInv(h)'
  BY <1>0, <1>7 DEF TakeTime, Enlist, HandlerInv
<1>8. ASSUME NEW i \in Handler, Put(i) PROVE HandlerInv(h)'
  <2>1. /\ UNCHANGED <<now, alive, endedAt, sentAt, stamp, owner>>
        /\ call' = [call EXCEPT ![i] = "written"] /\ call[i] = "stamped"
    BY <1>8 DEF Put
  <2> QED
    BY <1>0, <2>1 DEF HandlerInv
<1>9. ASSUME NEW i \in Late, LateEnds(i) PROVE HandlerInv(h)'
  BY <1>0, <1>9 DEF LateEnds, EndCall, HandlerInv
<1>10. CASE RestartCentral
  BY <1>10 DEF RestartCentral, HandlerInv
<1>11. CASE UNCHANGED <<now, agentVars, callVars, beat, steady>>
  BY <1>0, <1>11 DEF HandlerInv
<1> QED
  BY StepKinds, <1>1, <1>3, <1>4, <1>5, <1>6, <1>7, <1>8, <1>9, <1>10, <1>11

\* What a step of an agent's own does to its heartbeat.
LEMMA AbandonEnds ==
    ASSUME TypeOK, NEW id \in Id, Abandons(id)
    PROVE  /\ call'[id] = "none"
           /\ \A i \in Id : i # id => call'[i] = call[i] /\ sentAt'[i] = sentAt[i]
<1>1. id \in Handler /\ \A i \in Id : i \in Handler /\ i \notin Late
  BY StatusAssumption DEF Handler
<1> QED
  BY <1>1 DEF TypeOK, Abandons, EndCall
LEMMA ScheduleKept ==
    ASSUME TypeOK, TypeOK', AgentInv, [Next]_vars
    PROVE  \A i \in Id : OnSchedule(i)'
<1> SUFFICES ASSUME NEW i \in Id PROVE OnSchedule(i)'
  OBVIOUS
<1> USE StatusAssumption
    DEF TypeOK, Handler, Seconds, OnSchedule, agentVars, callVars
<1>0. /\ OnSchedule(i) /\ \A j \in Id : OnSchedule(j)
      /\ i \in Handler /\ i \notin Late
  BY DEF AgentInv
<1>1. CASE Tick
  BY <1>0, <1>1 DEF Tick
<1>2. ASSUME NEW id \in Id, StartAgent(id) PROVE OnSchedule(i)'
  BY <1>0, <1>2 DEF StartAgent
<1>3. ASSUME NEW id \in Id, StopAgent(id) PROVE OnSchedule(i)'
  BY <1>0, <1>3, AbandonEnds DEF StopAgent
<1>4. ASSUME NEW id \in Id, TickerFires(id) PROVE OnSchedule(i)'
  BY <1>0, <1>4 DEF TickerFires
<1>5. ASSUME NEW id \in Id, SendHeartbeat(id) PROVE OnSchedule(i)'
  BY <1>0, <1>5 DEF SendHeartbeat
<1>6. ASSUME NEW id \in Id, Answer(id) PROVE OnSchedule(i)'
  BY <1>0, <1>6 DEF Answer, EndCall
<1>7. ASSUME NEW id \in Id, CallFails(id) PROVE OnSchedule(i)'
  <2>1. UNCHANGED <<now, alive, tickAt, tick>> /\ steady'[i] \in {steady[i], FALSE}
    BY <1>7 DEF CallFails
  <2> QED
    BY <1>0, <1>7, <2>1, AbandonEnds DEF CallFails
<1>8. ASSUME NEW h \in Handler, TakeTime(h) \/ Enlist(h) PROVE OnSchedule(i)'
  BY <1>0, <1>8 DEF TakeTime, Enlist
<1>9. ASSUME NEW h \in Handler, Put(h) PROVE OnSchedule(i)'
  <2>1. /\ UNCHANGED <<now, alive, tickAt, tick, sentAt>>
        /\ call[h] = "stamped" /\ call' = [call EXCEPT ![h] = "written"]
        /\ i # h => steady'[i] = steady[i]
    BY <1>9 DEF Put
  <2> QED
    BY <1>0, <2>1
<1>10. ASSUME NEW h \in Late, LateEnds(h) PROVE OnSchedule(i)'
  BY <1>0, <1>10 DEF LateEnds, EndCall
<1>11. CASE RestartCentral
  <2>1. ~steady[i] => ~steady'[i]
    BY <1>11 DEF RestartCentral
  <2> QED
    BY <1>0, <1>11, <2>1 DEF RestartCentral
<1>12. CASE UNCHANGED <<now, agentVars, callVars, beat, steady>>
  BY <1>0, <1>12
<1> QED
  BY StepKinds, <1>1, <1>2, <1>3, <1>4, <1>5, <1>6, <1>7, <1>8, <1>9, <1>10,
     <1>11, <1>12

\* Only Put writes a timestamp: its own, and for the agent it serves.
LEMMA NotLaterKept ==
    ASSUME TypeOK, TypeOK', AgentInv, [Next]_vars
    PROVE  \A i \in Id : NotLater(i)'
<1> SUFFICES ASSUME NEW i \in Id PROVE NotLater(i)'
  OBVIOUS
<1> USE StatusAssumption, UnixMonotone, UnixNat DEF TypeOK, NotLater, agentVars
<1>0. NotLater(i)
  BY DEF AgentInv
<1>1. CASE Tick
  BY <1>0, <1>1 DEF Tick
<1>2. ASSUME NEW id \in Id, StartAgent(id) PROVE NotLater(i)'
  BY <1>0, <1>2 DEF StartAgent
<1>3. ASSUME NEW id \in Id, StopAgent(id) PROVE NotLater(i)'
  BY <1>0, <1>3 DEF StopAgent
<1>4. ASSUME NEW h \in Handler, Put(h) PROVE NotLater(i)'
  <2>0. /\ HandlerInv(h) /\ call[h] = "stamped" /\ Of(h) \in Id
        /\ beat' = [beat EXCEPT ![Of(h)] = stamp[h]]
        /\ UNCHANGED <<now, alive, endedAt>>
    BY <1>4 DEF Put, AgentInv, Of, Handler
  <2>1. stamp[h] <= Unix(now)
    BY <2>0 DEF HandlerInv
  <2>2. ~alive[Of(h)] => sentAt[h] <= endedAt[Of(h)]
    BY <2>0 DEF HandlerInv, Of, Handler, AgentInv, OnSchedule
  <2>3. ~alive[Of(h)] => stamp[h] <= Unix(endedAt[Of(h)] + MaxDelay)
    <3>1. HandlerInv(h) /\ sentAt[h] \in Nat /\ now \in Nat /\ stamp[h] \in Nat
          /\ endedAt[Of(h)] \in Nat /\ MaxDelay \in Nat
      BY <2>0
    <3>2. ~alive[Of(h)] => now <= endedAt[Of(h)] + MaxDelay
      BY <2>0, <2>2, <3>1 DEF HandlerInv
    <3>3. ~alive[Of(h)] => Unix(now) <= Unix(endedAt[Of(h)] + MaxDelay)
      BY <3>1, <3>2
    <3> QED
      BY <2>1, <3>1, <3>3
  <2> QED
    BY <1>0, <2>0, <2>1, <2>3
<1>5. CASE UNCHANGED <<now, alive, endedAt, beat>>
  BY <1>0, <1>5
<1> QED
  BY StepKinds, <1>1, <1>2, <1>3, <1>4, <1>5
     DEF TickerFires, SendHeartbeat, Answer, CallFails, TakeTime, Enlist,
         LateEnds, RestartCentral

\* A timestamp is written at most MaxDelay after its heartbeat was sent, so what
\* overwrites a steady agent's timestamp is not much older.
LEMMA PutIsRecent ==
    ASSUME TypeOK, AgentInv, NEW h \in Handler, Put(h)
    PROVE  /\ Unix(now - MaxDelay) <= stamp[h]
           /\ Unix(sentAt[h] - MaxDelay) <= stamp[h]
<1>1. /\ Unix(sentAt[h]) <= stamp[h] /\ now <= sentAt[h] + MaxDelay
      /\ sentAt[h] \in Nat /\ now \in Nat /\ stamp[h] \in Nat
  BY DEF TypeOK, AgentInv, HandlerInv, Put
<1> QED
  BY <1>1, StatusAssumption, UnixMonotone, UnixInt

LEMMA NotEarlierKept ==
    ASSUME TypeOK, TypeOK', AgentInv, [Next]_vars
    PROVE  \A i \in Id : NotEarlier(i)'
<1> SUFFICES ASSUME NEW i \in Id PROVE NotEarlier(i)'
  OBVIOUS
<1> USE StatusAssumption, UnixMonotone, UnixInt, GapBounds
    DEF TypeOK, Stage, Handler, Seconds, OnSchedule, NotEarlier, agentVars,
        callVars
<1>0. /\ NotEarlier(i) /\ OnSchedule(i) /\ HandlerInv(i)
      /\ i \in Handler /\ i \notin Late
  BY DEF AgentInv
<1>1. CASE Tick
  BY <1>0, <1>1 DEF Tick
<1>2. ASSUME NEW id \in Id, StartAgent(id) PROVE NotEarlier(i)'
  BY <1>0, <1>2 DEF StartAgent
<1>3. ASSUME NEW id \in Id, StopAgent(id) PROVE NotEarlier(i)'
  BY <1>0, <1>3, AbandonEnds DEF StopAgent
<1>4. ASSUME NEW id \in Id, TickerFires(id) PROVE NotEarlier(i)'
  BY <1>0, <1>4 DEF TickerFires
<1>5. ASSUME NEW id \in Id, SendHeartbeat(id) PROVE NotEarlier(i)'
  BY <1>0, <1>5 DEF SendHeartbeat
<1>6. ASSUME NEW id \in Id, Answer(id) PROVE NotEarlier(i)'
  BY <1>0, <1>6 DEF Answer, EndCall, HandlerInv
<1>7. ASSUME NEW id \in Id, CallFails(id) PROVE NotEarlier(i)'
  <2>1. /\ UNCHANGED <<now, tickAt, tick, beat>>
        /\ i # id => steady'[i] = steady[i]
        /\ i = id => ~steady'[i]
    BY <1>7 DEF CallFails
  <2> QED
    BY <1>0, <1>7, <2>1, AbandonEnds DEF CallFails
<1>8. ASSUME NEW h \in Handler, TakeTime(h) \/ Enlist(h) PROVE NotEarlier(i)'
  BY <1>0, <1>8 DEF TakeTime, Enlist
<1>9. ASSUME NEW h \in Handler, Put(h) PROVE NotEarlier(i)'
  <2>0. /\ Of(h) \in Id /\ call[h] = "stamped"
        /\ beat' = [beat EXCEPT ![Of(h)] = stamp[h]]
        /\ call' = [call EXCEPT ![h] = "written"]
        /\ UNCHANGED <<now, alive, tickAt, tick, sentAt>>
        /\ h # i => steady'[i] = steady[i]
    BY <1>9 DEF Put, Of
  <2>1. Unix(now - MaxDelay) <= stamp[h] /\ Unix(sentAt[h] - MaxDelay) <= stamp[h]
    BY <1>9, PutIsRecent
  <2>2. CASE h = i
    BY <1>0, <2>0, <2>1, <2>2 DEF Of
  <2>3. CASE h # i /\ Of(h) # i
    BY <1>0, <2>0, <2>3
  <2>4. CASE h # i /\ Of(h) = i
    <3>1. beat'[i] = stamp[h] /\ call'[i] = call[i] /\ steady'[i] = steady[i]
      BY <2>0, <2>4
    <3>2. \A a \in Int : a <= now - MaxDelay => Unix(a) <= stamp[h]
      BY <2>1
    <3>3. call[i] # "none" => sentAt[i] <= now
      BY <1>0 DEF HandlerInv
    <3>4. steady[i] /\ call[i] = "none" => tickAt[i] <= now + Seconds(HeartbeatInterval)
      BY <1>0
    <3>5. /\ call[i] # "none" =>
               Unix(sentAt[i] - Gap - MaxDelay) <= stamp[h]
               /\ Unix(sentAt[i] - MaxDelay) <= stamp[h]
          /\ steady[i] /\ call[i] = "none" =>
               Unix(tickAt[i] - Seconds(HeartbeatInterval) - MaxDelay) <= stamp[h]
          /\ Unix(now - Gap - MaxDelay) <= stamp[h]
      BY <3>2, <3>3, <3>4
    <3> QED
      BY <2>0, <3>1, <3>5
  <2> QED
    BY <2>2, <2>3, <2>4
<1>10. ASSUME NEW h \in Late, LateEnds(h) PROVE NotEarlier(i)'
  BY <1>0, <1>10 DEF LateEnds, EndCall
<1>11. CASE RestartCentral
  <2>1. steady'[i] => steady[i] /\ call[i] = "none"
    BY <1>11 DEF RestartCentral
  <2> QED
    BY <1>0, <1>11, <2>1 DEF RestartCentral
<1>12. CASE UNCHANGED <<now, agentVars, callVars, beat, steady>>
  BY <1>0, <1>12
<1> QED
  BY StepKinds, <1>1, <1>2, <1>3, <1>4, <1>5, <1>6, <1>7, <1>8, <1>9, <1>10,
     <1>11, <1>12

LEMMA QueryKept ==
    ASSUME TypeOK, TypeOK', AgentInv, QueryInv, [Next]_vars
    PROVE  QueryInv'
<1> USE StatusAssumption, UnixMonotone, UnixInt, GapBounds
    DEF TypeOK, Stage, Handler, Seconds
<1>1. \A id \in Id : steady[id] => Unix(now - Gap - 2 * MaxDelay) <= beat[id]
  <2> SUFFICES ASSUME NEW id \in Id, steady[id]
               PROVE Unix(now - Gap - 2 * MaxDelay) <= beat[id]
    OBVIOUS
  <2> DEFINE past == now - Gap - 2 * MaxDelay
  <2>1. OnSchedule(id) /\ NotEarlier(id) /\ HandlerInv(id)
    BY DEF AgentInv
  <2>2. CASE call[id] \in {"sent", "stamped"}
    <3>1. past <= sentAt[id] - Gap - MaxDelay
      BY <2>1, <2>2 DEF HandlerInv
    <3> QED
      BY <2>1, <2>2, <3>1 DEF NotEarlier
  <2>3. CASE call[id] \in {"written", "listed"}
    <3>1. past <= sentAt[id] - MaxDelay
      BY <2>1, <2>3 DEF HandlerInv
    <3> QED
      BY <2>1, <2>3, <3>1 DEF NotEarlier
  <2>4. CASE call[id] = "none" /\ ~tick[id]
    <3>1. past <= tickAt[id] - Seconds(HeartbeatInterval) - MaxDelay
      BY <2>1, <2>4 DEF OnSchedule
    <3> QED
      BY <2>1, <2>4, <3>1 DEF NotEarlier
  <2>5. CASE call[id] = "none" /\ tick[id]
    <3>1. past <= now - Gap - MaxDelay
      OBVIOUS
    <3> QED
      BY <2>1, <2>5, <3>1 DEF NotEarlier
  <2> QED
    BY <2>2, <2>3, <2>4, <2>5
<1>2. CASE Tick
  BY <1>2 DEF Tick, QueryInv, agentVars, queryVars
<1>3. ASSUME NEW id \in Id, StopAgent(id) PROVE QueryInv'
  <2>1. pc = "read" => Unix(readAt) <= Unix(now + MaxDelay)
    BY DEF QueryInv
  <2> QED
    BY <1>3, <2>1 DEF StopAgent, QueryInv, queryVars
<1>4. CASE \E id \in Id : StartAgent(id)
  BY <1>4 DEF StartAgent, QueryInv, queryVars
<1>5. ASSUME \/ \E id \in Id : \/ TickerFires(id) \/ SendHeartbeat(id)
                               \/ Answer(id) \/ CallFails(id)
             \/ \E h \in Handler : TakeTime(h) \/ Put(h) \/ Enlist(h)
             \/ \E h \in Late : LateEnds(h)
      PROVE  QueryInv'
  <2>1. UNCHANGED <<now, alive, endedAt, queryVars>>
    BY <1>5 DEF TickerFires, SendHeartbeat, Answer, CallFails, TakeTime, Put,
                Enlist, LateEnds, agentVars
  <2> QED
    BY <2>1 DEF QueryInv, queryVars
<1>6. ASSUME NEW id \in Id, AskOne(id) \/ VisitNext(id) PROVE QueryInv'
  <2>1. /\ asked' = id /\ seen' = beat[id] /\ readAt' = now /\ pc' = "read"
        /\ UNCHANGED <<now, alive, endedAt>>
    BY <1>6 DEF AskOne, VisitNext, ReadEtcd, agentVars
  <2>2. wasSteady' = steady[id]
    BY Zenon, <1>6 DEF AskOne, VisitNext, ReadEtcd
  <2>3. NotLater(id)
    BY DEF AgentInv
  <2> QED
    BY <1>1, <2>1, <2>2, <2>3 DEF QueryInv, NotLater
<1>7. CASE \/ RestartCentral \/ AskAll \/ JudgeOne \/ JudgeNext \/ SendList
           \/ \E id \in Id : SkipNext(id)
  BY <1>7 DEF RestartCentral, AskAll, JudgeOne, JudgeNext, SendList, SkipNext,
              HandlerEnds, QueryInv, agentVars
<1>8. CASE UNCHANGED vars
  BY <1>8 DEF vars, QueryInv, agentVars, queryVars
<1> QED
  BY <1>2, <1>3, <1>4, <1>5, <1>6, <1>7, <1>8 DEF Next

LEMMA Invariance == Spec => [](TypeOK /\ AgentInv /\ QueryInv)
<1>1. Init => AgentInv /\ QueryInv
  <2> USE StatusAssumption, UnixNat
      DEF Init, AgentInv, HandlerInv, OnSchedule, NotLater, NotEarlier, QueryInv
  <2>1. Epoch \in Nat
    BY DEF Epoch, Seconds
  <2>2. Init => \A h \in Handler : HandlerInv(h)
    OBVIOUS
  <2>3. Init => \A id \in Id : OnSchedule(id) /\ NotLater(id) /\ NotEarlier(id)
    BY <2>1 DEF Handler
  <2>4. Init => QueryInv
    BY <2>1
  <2> QED
    BY <2>2, <2>3, <2>4
<1>2. TypeOK /\ TypeOK' /\ AgentInv /\ QueryInv /\ [Next]_vars
        => AgentInv' /\ QueryInv'
  <2> SUFFICES ASSUME TypeOK, TypeOK', AgentInv, QueryInv, [Next]_vars
               PROVE  AgentInv' /\ QueryInv'
    OBVIOUS
  <2>1. \A h \in Handler : HandlerInv(h)'
    BY HandlersKept
  <2>2. \A id \in Id : OnSchedule(id)' /\ NotLater(id)' /\ NotEarlier(id)'
    BY ScheduleKept, NotLaterKept, NotEarlierKept
  <2> QED
    BY <2>1, <2>2, QueryKept DEF AgentInv
<1> QED
  BY <1>1, <1>2, TypeCorrect, PTL DEF Spec
-----------------------------------------------------------------------------
\* An agent whose process ended is judged offline once its last heartbeat, the
\* interval and the truncation are over, whatever the intervals and delays are.
THEOREM DeadGoesOffline == Spec => []DeadAgentGoesOffline
<1>1. ASSUME TypeOK, QueryInv, Judges("online"), ~alive[asked]
      PROVE  now < endedAt[asked] + MaxDelay + Seconds(AliveInterval + 1)
  <2>1. Unix(now) - AliveInterval <= Unix(endedAt[asked] + MaxDelay)
    BY <1>1, UnixInt, StatusAssumption
       DEF TypeOK, QueryInv, Judges, StatusOf
  <2> QED
    BY <1>1, <2>1, StatusAssumption DEF TypeOK, Judges, Unix, Seconds
<1>2. TypeOK /\ QueryInv => DeadAgentGoesOffline
  BY <1>1 DEF DeadAgentGoesOffline
<1> QED
  BY <1>2, Invariance, PTL

\* When IntervalsFit, an agent whose last heartbeat went through is never judged
\* offline, for any number of agents, handlers given up on, failures and
\* restarts.
THEOREM SteadyStaysOnline == IntervalsFit => (Spec => []SteadyAgentIsOnline)
<1> SUFFICES ASSUME IntervalsFit PROVE Spec => []SteadyAgentIsOnline
  OBVIOUS
<1>1. ASSUME TypeOK, QueryInv, wasSteady, pc = "read"
      PROVE  StatusOf(seen) = "online"
  <2>1. now - Seconds(AliveInterval)
          <= readAt - Gap - 2 * MaxDelay
    BY <1>1, StatusAssumption, GapBounds DEF TypeOK, QueryInv, IntervalsFit, Seconds
  <2>2. Unix(now - Seconds(AliveInterval)) <= seen
    BY <1>1, <2>1, UnixMonotone, UnixInt, GapBounds, StatusAssumption
       DEF TypeOK, QueryInv, Seconds
  <2>3. Unix(now) - AliveInterval <= seen
    BY <1>1, <2>2, UnixShift, StatusAssumption DEF TypeOK
  <2> QED
    BY <1>1, <2>3, UnixInt, StatusAssumption DEF TypeOK, StatusOf
<1>2. TypeOK /\ QueryInv => SteadyAgentIsOnline
  BY <1>1 DEF SteadyAgentIsOnline, Judges
<1> QED
  BY <1>2, Invariance, PTL
=============================================================================
