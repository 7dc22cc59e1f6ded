-------------------------- MODULE ConfigFileProofs --------------------------
(***************************************************************************)
(* Proofs about ConfigFile, for any number of processes, settings, starts, *)
(* edits, crashes and failures, of both programs.                          *)
(***************************************************************************)
EXTENDS ConfigFile, TLAPS

\* The values viper has are a config that can be written, and read again.
LEMMA ValuesType ==
  ASSUME TypeOK, NEW p \in Proc, NEW c \in Content
  PROVE  /\ Values(p, c) \in Content
         /\ Values(p, c).setting = c.setting
         /\ Values(p, c).uuid = IF override[p] # 0 THEN override[p]
                                                  ELSE c.uuid
         /\ override[p] = 0 => Values(p, c) = c
<1>1. override[p] \in Nat
  BY DEF TypeOK
<1> QED
  BY <1>1 DEF Values, Content

\* The types of the variables are right in every state: what a process works
\* with, and what it writes, parses.
THEOREM TypeCorrect == Spec => []TypeOK
<1>1. Init => TypeOK
  <2> SUFFICES ASSUME Init PROVE TypeOK
    OBVIOUS
  <2>1. file \in Content \cup {Missing, Garbled}
    BY DEF Init, Content
  <2>2. /\ watching \in [Proc -> BOOLEAN] /\ dirty \in [Proc -> BOOLEAN]
        /\ gone \in [Proc -> BOOLEAN] /\ early \in [Proc -> BOOLEAN]
    BY Zenon DEF Init
  <2>3. /\ pc \in [Proc -> Steps] /\ override \in [Proc -> Nat]
        /\ config \in [Proc -> Content] /\ local \in [Proc -> Content]
        /\ loaded \in [Proc -> Content] /\ fresh \in [Proc -> Content]
        /\ wpc \in [Proc -> {"idle", "assign", "build", "store"}]
    BY DEF Init, Steps, Setup, Content, Blank
  <2>4. /\ issued \in Nat /\ mishaps \in Nat
        /\ starts \in 0 .. MaxStarts[program] /\ edits \in 0 .. MaxEdits
        /\ crashes \in 0 .. MaxCrashes /\ fails \in 0 .. MaxFails
    BY ConfigAssumption DEF Init
  <2>5. program \in Program /\ wanted \in Setting \cup {Default}
    BY DEF Init
  <2> QED
    BY <2>1, <2>2, <2>3, <2>4, <2>5, Zenon DEF TypeOK
<1>2. TypeOK /\ [Next]_vars => TypeOK'
  <2> SUFFICES ASSUME TypeOK, [Next]_vars PROVE TypeOK'
    OBVIOUS
  <2> USE ConfigAssumption DEF TypeOK, procVars, watchVars, counters, Goes,
          Steps, Setup, Writing, Starting, Content, Blank, Exit, Notify, Written,
          Rebuilding, Recorded, CutShort
  <2>1. ASSUME NEW p \in Proc, ProcStep(p) PROVE TypeOK'
    <3>1. CASE Start(p)
      BY <3>1 DEF Start
    <3>2. CASE Watch(p)
      BY <3>2 DEF Watch
    <3>3. CASE Read(p)
      BY <3>3 DEF Read
    <3>4. CASE ReadNothing(p)
      BY <3>4 DEF ReadNothing
    <3>5. CASE Fatal(p)
      BY <3>5 DEF Fatal
    <3>6. CASE Load(p)
      BY <3>6, ValuesType DEF Load
    <3>7. CASE Store(p)
      BY <3>7 DEF Store
    <3>8. CASE CommandEnds(p)
      BY <3>8 DEF CommandEnds
    <3>9. CASE Truncate(p)
      BY <3>9 DEF Truncate
    <3>10. CASE Marshal(p)
      BY <3>10, ValuesType DEF Marshal
    <3>11. CASE Write(p)
      <4>1. pc' \in [Proc -> Steps] /\ file' \in Content \cup {Missing, Garbled}
        BY <3>11 DEF Write
      <4>2. mishaps' \in Nat
        BY <3>11 DEF Write
      <4>3. /\ dirty' \in [Proc -> BOOLEAN]
            /\ UNCHANGED <<watching, wpc, fresh, gone>>
        BY <3>11 DEF Write
      <4> QED
        BY <3>11, <4>1, <4>2, <4>3 DEF Write
    <3>12. CASE WriteFails(p)
      <4>1. /\ fails' \in 0 .. MaxFails /\ mishaps' \in Nat
            /\ UNCHANGED <<program, file, issued, starts, edits, crashes,
                            wanted>>
        BY <3>12 DEF WriteFails
      <4>2. CASE override[p] = 0
        <5>1. Exit(p)
          BY <3>12, <4>2 DEF WriteFails
        <5> QED
          BY <4>1, <5>1
      <4>3. CASE override[p] # 0
        <5>1. /\ pc' = [pc EXCEPT ![p] = "serve"]
              /\ local' = [local EXCEPT ![p] = Blank]
              /\ UNCHANGED <<config, override, loaded, early, watching, wpc,
                              fresh, dirty, gone>>
          BY <3>12, <4>3 DEF WriteFails
        <5> QED
          BY <4>1, <5>1
      <4> QED
        BY <4>2, <4>3
    <3>13. CASE Ensure(p)
      BY <3>13 DEF Ensure
    <3>14. CASE Register(p)
      BY <3>14 DEF Register
    <3>15. CASE RegisterFails(p)
      BY <3>15 DEF RegisterFails
    <3>16. CASE Crash(p)
      BY <3>16 DEF Crash
    <3>17. CASE Assign(p)
      BY <3>17 DEF Assign
    <3>18. CASE Create(p)
      BY <3>18 DEF Create
    <3>19. CASE Decide(p)
      BY <3>19 DEF Decide
    <3> QED
      BY <2>1, <3>1, <3>2, <3>3, <3>4, <3>5, <3>6, <3>7, <3>8, <3>9, <3>10,
         <3>11, <3>12, <3>13, <3>14, <3>15, <3>16, <3>17, <3>18, <3>19
         DEF ProcStep
  <2>2. ASSUME NEW p \in Proc,
               Reload(p) \/ Reassign(p) \/ Rebuild(p) \/ Restore(p)
        PROVE  TypeOK'
    <3>1. CASE Reload(p)
      <4>1. dirty' \in [Proc -> BOOLEAN]
        BY <3>1 DEF Reload
      <4>2. wpc' \in [Proc -> {"idle", "assign", "build", "store"}]
        <5>1. PICK to \in {"assign", "build", "idle"} :
                wpc' = [wpc EXCEPT ![p] = to]
          BY <3>1 DEF Reload
        <5> QED
          BY <5>1
      <4>3. CASE file \in Content
        <5>1. fresh' = [fresh EXCEPT ![p] = file]
          BY <3>1, <4>3 DEF Reload
        <5>2. fresh' \in [Proc -> Content]
          BY <4>3, <5>1
        <5> QED
          BY <3>1, <4>1, <4>2, <5>2 DEF Reload
      <4>4. CASE file \notin Content
        <5>1. UNCHANGED fresh
          BY <3>1, <4>4 DEF Reload
        <5> QED
          BY <3>1, <4>1, <4>2, <5>1 DEF Reload
      <4> QED
        BY <4>3, <4>4
    <3>2. CASE Reassign(p)
      <4>1. early' \in [Proc -> BOOLEAN]
        BY <3>2 DEF Reassign
      <4>2. /\ config' \in [Proc -> Content] /\ fresh' \in [Proc -> Content]
            /\ wpc' \in [Proc -> {"idle", "assign", "build", "store"}]
        BY <3>2 DEF Reassign
      <4> QED
        BY <3>2, <4>1, <4>2 DEF Reassign
    <3>3. CASE Rebuild(p)
      BY <3>3, ValuesType DEF Rebuild
    <3>4. CASE Restore(p)
      <4>1. early' \in [Proc -> BOOLEAN]
        BY <3>4 DEF Restore
      <4>2. loaded' \in [Proc -> Content] /\ fresh' \in [Proc -> Content]
        BY <3>4 DEF Restore
      <4> QED
        BY <3>4, <4>1, <4>2 DEF Restore
    <3> QED
      BY <2>2, <3>1, <3>2, <3>3, <3>4
  <2>3. ASSUME NEW p \in Proc, WatchEnds(p) PROVE TypeOK'
    BY <2>3 DEF WatchEnds
  <2>4. ASSUME NEW s \in Setting \cup {Default}, Edit(s) PROVE TypeOK'
    BY <2>4 DEF Edit
  <2>5. CASE Remove
    BY <2>5 DEF Remove
  <2>6. CASE UNCHANGED vars
    BY <2>6 DEF vars
  <2> QED
    BY <2>1, <2>2, <2>3, <2>4, <2>5, <2>6 DEF Next, WatcherStep
<1> QED
  BY <1>1, <1>2, PTL DEF Spec
-----------------------------------------------------------------------------
(* LoadedIsCurrent.  Whoever writes the file leaves its watchers an event, *)
(* so that one that has none has read what is there now; and the config    *)
(* that is loaded has the setting that was read.                           *)

\* The watcher of p has handled every event of this file, or is about to, and did
\* not come before the end of the setup.
Caught(p) ==
    watching[p] /\ ~dirty[p] /\ ~gone[p] /\ ~early[p] /\ file \in Content

\* Viper has got the file, or the setup or the watcher is about to give it that.
ReadIsCurrent(p) ==
    Caught(p) =>
        /\ pc[p] = "assign" => local[p] = file \/ wpc[p] = "assign"
        /\ wpc[p] = "assign" => fresh[p] = file
        /\ wpc[p] \in {"build", "store"} => config[p] = file
        /\ wpc[p] # "assign" /\ pc[p] \notin {"down", "watch", "read", "assign"}
             => config[p] = file

\* The setup is over: config.Store is done.
Running(p) ==
    \/ pc[p] \in Starting \cup {"register", "serve"}
    \/ pc[p] \in Writing /\ override[p] # 0

\* The config that is loaded, or on its way to be, has the setting of the file,
\* unless the watcher is about to store a newer one.
LoadedIsRead(p) ==
    Caught(p) /\ p = Server =>
        /\ wpc[p] = "store" => fresh[p].setting = file.setting
        /\ wpc[p] = "idle" /\ pc[p] = "store" => local[p].setting = file.setting
        /\ wpc[p] = "idle" /\ Running(p) => loaded[p].setting = file.setting

\* A watcher that does not run handles nothing, and viper.Set is the last thing
\* before the file is written and served.
InOrder(p) ==
    /\ pc[p] \in {"down", "watch"} => ~watching[p]
    /\ ~watching[p] => wpc[p] = "idle"
    /\ override[p] # 0 => pc[p] \in Writing \cup {"serve"}

Current(p) == ReadIsCurrent(p) /\ LoadedIsRead(p) /\ InOrder(p)

CurrentInv == \A p \in Proc : Current(p)

LEMMA CurrentStep ==
  ASSUME TypeOK, CurrentInv, [Next]_vars, NEW q \in Proc
  PROVE  Current(q)'
<1>0. Current(q)
  BY DEF CurrentInv
<1> USE <1>0 DEF TypeOK, Current, Caught, ReadIsCurrent, LoadedIsRead, InOrder,
        Running, procVars, watchVars, counters, Goes, Steps, Setup, Writing, Starting,
        Exit, Notify, Written, Rebuilding
<1>1. ASSUME NEW p \in Proc, ProcStep(p)
      PROVE  Current(q)'
  <2>1. CASE Start(p)
    BY <2>1 DEF Start
  <2>2. CASE Watch(p)
    <3>1. /\ pc[p] = "watch" /\ pc' = [pc EXCEPT ![p] = "read"]
          /\ UNCHANGED <<file, config, override, local, loaded, early, wpc, fresh,
                          dirty, gone>>
      BY <2>2 DEF Watch
    <3>2. CASE p = q
      <4>1. wpc[q] = "idle" /\ override[q] = 0
        BY <3>1, <3>2
      <4>2. pc'[q] = "read" /\ wpc'[q] = "idle" /\ override'[q] = 0
        BY <3>1, <3>2, <4>1
      <4> QED
        BY <4>2
    <3>3. CASE p # q
      <4>1. watching'[q] = watching[q]
        BY Zenon, <2>2, <3>3 DEF Watch
      <4> QED
        BY <3>1, <3>3, <4>1
    <3> QED
      BY <3>2, <3>3
  <2>3. CASE Read(p)
    BY <2>3 DEF Read
  <2>4. CASE Assign(p)
    <3>1. /\ pc[p] = "assign" /\ override[p] = 0
          /\ pc' = [pc EXCEPT ![p] = IF program = "central" THEN "truncate"
                                                           ELSE "load"]
          /\ config' = [config EXCEPT ![p] = local[p]]
          /\ local' = [local EXCEPT ![p] = Blank]
          /\ UNCHANGED <<file, override, loaded, early, watching, wpc, fresh,
                          dirty, gone>>
      BY <2>4, <1>0 DEF Assign, CurrentInv
    <3>2. CASE p = q
      <4>1. ReadIsCurrent(q)'
        BY <3>1, <3>2
      <4>2. LoadedIsRead(q)' /\ InOrder(q)'
        BY <3>1, <3>2
      <4> QED
        BY <4>1, <4>2
    <3>3. CASE p # q
      BY <3>1, <3>3
    <3> QED
      BY <3>2, <3>3
  <2>5. CASE ReadNothing(p)
    BY <2>5 DEF ReadNothing
  <2>6. CASE Fatal(p)
    BY <2>6 DEF Fatal
  <2>7. CASE Load(p)
    BY <2>7, ValuesType DEF Load
  <2>8. CASE Store(p)
    BY <2>8 DEF Store
  <2>9. CASE CommandEnds(p)
    BY <2>9 DEF CommandEnds
  <2>10. CASE Truncate(p)
    BY <2>10 DEF Truncate
  <2>11. CASE Marshal(p)
    BY <2>11, ValuesType DEF Marshal
  <2>12. CASE Write(p)
    BY <2>12 DEF Write
  <2>13. CASE WriteFails(p)
    BY <2>13 DEF WriteFails
  <2>14. CASE Ensure(p)
    BY <2>14 DEF Ensure
  <2>15. CASE Create(p)
    BY <2>15 DEF Create
  <2>16. CASE Decide(p)
    BY <2>16 DEF Decide
  <2>17. CASE Register(p)
    BY <2>17 DEF Register
  <2>18. CASE RegisterFails(p)
    BY <2>18 DEF RegisterFails
  <2>19. CASE Crash(p)
    BY <2>19 DEF Crash
  <2> QED
    BY <1>1, <2>1, <2>2, <2>3, <2>4, <2>5, <2>6, <2>7, <2>8, <2>9, <2>10,
       <2>11, <2>12, <2>13, <2>14, <2>15, <2>16, <2>17, <2>18, <2>19
       DEF ProcStep
<1>2. ASSUME NEW p \in Proc, Reload(p)
      PROVE  Current(q)'
  BY <1>2 DEF Reload
<1>3. ASSUME NEW p \in Proc, WatchEnds(p)
      PROVE  Current(q)'
  BY <1>3 DEF WatchEnds
<1>4. ASSUME NEW s \in Setting \cup {Default}, Edit(s)
      PROVE  Current(q)'
  BY <1>4 DEF Edit
<1>5. CASE Remove
  BY <1>5 DEF Remove
<1>6. CASE UNCHANGED vars
  BY <1>6 DEF vars
<1>7. ASSUME NEW p \in Proc, Reassign(p)
      PROVE  Current(q)'
  BY <1>7 DEF Reassign
<1>8. ASSUME NEW p \in Proc, Rebuild(p)
      PROVE  Current(q)'
  BY <1>8, ValuesType DEF Rebuild
<1>9. ASSUME NEW p \in Proc, Restore(p)
      PROVE  Current(q)'
  BY <1>9 DEF Restore
<1> QED
  BY <1>1, <1>2, <1>3, <1>4, <1>5, <1>6, <1>7, <1>8, <1>9 DEF Next, WatcherStep

\* A server whose watcher has handled every event works with the setting in
\* the file, of both programs (OnConfigChange, AgentServerConfigSetup and
\* CentralServerConfigSetup).
THEOREM LoadedCurrent == Spec => []LoadedIsCurrent
<1>1. Init => CurrentInv
  BY DEF Init, CurrentInv, Current, Caught, ReadIsCurrent, LoadedIsRead,
         InOrder
<1>2. TypeOK /\ CurrentInv /\ [Next]_vars => CurrentInv'
  BY CurrentStep DEF CurrentInv
<1>3. TypeOK /\ CurrentInv => LoadedIsCurrent
  BY ConfigAssumption
     DEF CurrentInv, Current, Caught, LoadedIsRead, Running, Quiet,
         LoadedIsCurrent
<1> QED
  BY <1>1, <1>2, <1>3, TypeCorrect, PTL DEF Spec
-----------------------------------------------------------------------------
(* RegistersOnce and ServesWithUuid, of an agent.  Central's UUIDs are paid *)
(* for one by one: a UUID is in the file, or the server is on its way to   *)
(* write it there, or a mishap took it away.  While one is not paid for,   *)
(* the file has one; so what the server and its watcher then read has one. *)

\* The server writes the UUID.
Recording == pc[Server] \in Writing /\ override[Server] # 0

Account == issued <= mishaps + (IF Recorded \/ Recording THEN 1 ELSE 0)

\* Only the server registers and has a UUID to write.  Who creates a file has
\* found none, and so has read nothing, and writes none.
ProcInv(p) ==
    /\ pc[p] \in Starting \cup {"register", "serve"} => p = Server
    /\ override[p] # 0 => p = Server /\ pc[p] \in Writing \cup {"serve"}
    /\ pc[p] \in {"down", "watch"} => ~watching[p]
    /\ ~watching[p] => wpc[p] = "idle"
    /\ pc[p] \in {"down", "watch", "read"} /\ ~watching[p] => config[p].uuid = 0
    /\ pc[p] \in Writing /\ override[p] = 0 =>
           /\ ~watching[p] /\ config[p].uuid = 0
           /\ pc[p] = "write" => local[p].uuid = 0
    /\ issued = 0 =>
           /\ config[p].uuid = 0 /\ local[p].uuid = 0 /\ loaded[p].uuid = 0
           /\ override[p] = 0 /\ fresh[p].uuid = 0

\* What the watcher of the server brings to viper, or to loaded, has a UUID.
BringsUuid ==
    /\ wpc[Server] \in {"assign", "store"} => fresh[Server].uuid # 0
    /\ wpc[Server] = "build" => config[Server].uuid # 0 \/ override[Server] # 0

\* The server knows of a UUID that is not paid for.
KnowsUuid ==
    /\ BringsUuid
    /\ pc[Server] \in {"assign", "store"} => local[Server].uuid # 0
    /\ pc[Server] \in {"load", "store"} \cup Starting => config[Server].uuid # 0
    /\ pc[Server] \in Starting => loaded[Server].uuid # 0
    /\ pc[Server] \notin Writing \cup {"register"}

ServerInv ==
    /\ issued > mishaps /\ pc[Server] # "serve" /\ ~Recording => KnowsUuid
    /\ Recorded => issued # 0
    /\ Recording /\ pc[Server] = "write" => local[Server].uuid # 0
    /\ pc[Server] = "serve" => issued # 0
    /\ mishaps = 0 /\ pc[Server] = "serve" /\ watching[Server]
         /\ ~dirty[Server] /\ ~gone[Server] =>
           /\ BringsUuid
           /\ wpc[Server] = "idle" => loaded[Server].uuid # 0

UuidInv ==
    program = "agent" => Account /\ ServerInv /\ \A p \in Proc : ProcInv(p)

LEMMA UuidStep ==
  ASSUME TypeOK, program = "agent", Account, ServerInv, \A q \in Proc : ProcInv(q),
         [Next]_vars
  PROVE  Account' /\ ServerInv' /\ \A q \in Proc : ProcInv(q)'
<1> USE ConfigAssumption, FileAssumption
<1> USE DEF TypeOK, Account, ServerInv, ProcInv, BringsUuid, KnowsUuid, Recorded,
        Recording, procVars, watchVars, counters, Goes, Steps, Setup, Writing,
        Starting, Exit, Notify, Written, Rebuilding, CutShort, Blank
<1>1. ASSUME NEW p \in Proc, ProcStep(p)
      PROVE  Account' /\ ServerInv' /\ \A q \in Proc : ProcInv(q)'
  <2>1. CASE Start(p)
    <3>1. Account'
      BY <2>1 DEF Start
    <3>2. ServerInv'
      BY <2>1 DEF Start
    <3>3. ASSUME NEW q \in Proc PROVE ProcInv(q)'
      BY <2>1 DEF Start
    <3> QED
      BY <3>1, <3>2, <3>3
  <2>2. CASE Watch(p)
    <3>1. Account'
      BY <2>2 DEF Watch
    <3>2. ServerInv'
      BY <2>2 DEF Watch
    <3>3. ASSUME NEW q \in Proc PROVE ProcInv(q)'
      BY <2>2 DEF Watch
    <3> QED
      BY <3>1, <3>2, <3>3
  <2>3. CASE Read(p)
    <3>1. Account'
      BY <2>3 DEF Read
    <3>2. ServerInv'
      BY <2>3 DEF Read
    <3>3. ASSUME NEW q \in Proc PROVE ProcInv(q)'
      BY <2>3 DEF Read
    <3> QED
      BY <3>1, <3>2, <3>3
  <2>4. CASE Assign(p)
    <3>1. Account'
      BY <2>4 DEF Assign
    <3>2. ServerInv'
      BY <2>4 DEF Assign
    <3>3. ASSUME NEW q \in Proc PROVE ProcInv(q)'
      BY <2>4 DEF Assign
    <3> QED
      BY <3>1, <3>2, <3>3
  <2>5. CASE ReadNothing(p)
    <3>1. Account'
      BY <2>5 DEF ReadNothing
    <3>2. ServerInv'
      BY <2>5 DEF ReadNothing
    <3>3. ASSUME NEW q \in Proc PROVE ProcInv(q)'
      BY <2>5 DEF ReadNothing
    <3> QED
      BY <3>1, <3>2, <3>3
  <2>6. CASE Fatal(p)
    <3>1. Account'
      BY <2>6 DEF Fatal
    <3>2. ServerInv'
      BY <2>6 DEF Fatal
    <3>3. ASSUME NEW q \in Proc PROVE ProcInv(q)'
      BY <2>6 DEF Fatal
    <3> QED
      BY <3>1, <3>2, <3>3
  <2>7. CASE Load(p)
    <3>1. Account'
      BY <2>7, ValuesType DEF Load
    <3>2. ServerInv'
      BY <2>7, ValuesType DEF Load
    <3>3. ASSUME NEW q \in Proc PROVE ProcInv(q)'
      BY <2>7, ValuesType DEF Load
    <3> QED
      BY <3>1, <3>2, <3>3
  <2>8. CASE Store(p)
    <3>1. Account'
      BY <2>8 DEF Store
    <3>2. ServerInv'
      BY <2>8 DEF Store
    <3>3. ASSUME NEW q \in Proc PROVE ProcInv(q)'
      BY <2>8 DEF Store
    <3> QED
      BY <3>1, <3>2, <3>3
  <2>9. CASE CommandEnds(p)
    <3>1. Account'
      BY <2>9 DEF CommandEnds
    <3>2. ServerInv'
      BY <2>9 DEF CommandEnds
    <3>3. ASSUME NEW q \in Proc PROVE ProcInv(q)'
      BY <2>9 DEF CommandEnds
    <3> QED
      BY <3>1, <3>2, <3>3
  <2>10. CASE Truncate(p)
    <3>1. Account'
      BY <2>10 DEF Truncate
    <3>2. ServerInv'
      BY <2>10 DEF Truncate
    <3>3. ASSUME NEW q \in Proc PROVE ProcInv(q)'
      BY <2>10 DEF Truncate
    <3> QED
      BY <3>1, <3>2, <3>3
  <2>11. CASE Marshal(p)
    <3>1. Account'
      BY <2>11, ValuesType DEF Marshal
    <3>2. ServerInv'
      BY <2>11, ValuesType DEF Marshal
    <3>3. ASSUME NEW q \in Proc PROVE ProcInv(q)'
      BY <2>11, ValuesType DEF Marshal
    <3> QED
      BY <3>1, <3>2, <3>3
  <2>12. CASE Write(p)
    <3>1. Account'
      <4>1. CASE file \in {Blank, local[p]}
        <5>1. local[p] \in Content /\ Blank # Missing /\ Blank # Garbled
          BY DEF Content
        <5>2. file' = local[p] /\ mishaps' = mishaps /\ issued' = issued
          BY <2>12, <4>1, <5>1 DEF Write
        <5>3. override[p] # 0 => Recorded'
          BY <2>12, <5>1, <5>2 DEF Write
        <5>4. override[p] = 0 => (Recorded => Recorded') /\ Recording' = Recording
          BY <2>12, <4>1, <5>1, <5>2 DEF Write
        <5> QED
          BY <5>2, <5>3, <5>4
      <4>2. CASE file \notin {Blank, local[p]}
        <5>1. mishaps' = mishaps + 1 /\ issued' = issued
          BY <2>12, <4>2 DEF Write
        <5> QED
          BY <5>1
      <4> QED
        BY <4>1, <4>2
    <3>2. ServerInv'
      <4>1. /\ pc[p] = "write" /\ pc' = [pc EXCEPT ![p] = Written(p)]
            /\ local' = [local EXCEPT ![p] = Blank]
            /\ UNCHANGED <<config, override, loaded, issued, wpc, fresh>>
            /\ mishaps' \in {mishaps, mishaps + 1}
        BY <2>12 DEF Write
      <4>0. file' \in {Missing, local[p], Garbled}
        BY <2>12 DEF Write
      <4>2. CASE p = Server /\ override[p] = 0
        <5>1. local[p].uuid = 0 /\ local[p] \in Content
          BY <4>1, <4>2
        <5>2. ~Recorded'
          BY <4>0, <5>1
        <5>3. pc'[p] = "load" /\ issued <= mishaps
          BY <4>1, <4>2
        <5> QED
          BY <4>1, <4>2, <5>2, <5>3
      <4>3. CASE p = Server /\ override[p] # 0
        <5>1. pc'[p] = "serve" /\ issued # 0
          BY <4>1, <4>3
        <5>2. mishaps' = 0 => file # Missing
          <6>1. Missing \notin {Blank, local[p]}
            BY DEF Content
          <6> QED
            BY <2>12, <6>1 DEF Write
        <5>3. mishaps' = 0 => ~watching'[p] \/ dirty'[p] \/ gone'[p]
          BY <2>12, <4>3, <5>2 DEF Write
        <5> QED
          BY <4>1, <4>3, <5>1, <5>3
      <4>4. CASE p # Server
        <5>1. Recorded' => Recorded
          <6>1. override[p] = 0 /\ local[p].uuid = 0 /\ local[p] \in Content
            BY <4>1, <4>4
          <6> QED
            BY <4>0, <6>1
        <5>2. UNCHANGED <<watching, gone>> /\ (~dirty'[Server] => ~dirty[Server])
          BY <2>12 DEF Write
        <5> QED
          BY <4>1, <4>4, <5>1, <5>2
      <4> QED
        BY <4>2, <4>3, <4>4
    <3>3. ASSUME NEW q \in Proc PROVE ProcInv(q)'
      BY <2>12 DEF Write
    <3> QED
      BY <3>1, <3>2, <3>3
  <2>13. CASE WriteFails(p)
    <3>1. Account'
      BY <2>13 DEF WriteFails
    <3>2. ServerInv'
      BY <2>13 DEF WriteFails
    <3>3. ASSUME NEW q \in Proc PROVE ProcInv(q)'
      BY <2>13 DEF WriteFails
    <3> QED
      BY <3>1, <3>2, <3>3
  <2>14. CASE Ensure(p)
    <3>1. Account'
      BY <2>14 DEF Ensure
    <3>2. ServerInv'
      BY <2>14 DEF Ensure
    <3>3. ASSUME NEW q \in Proc PROVE ProcInv(q)'
      BY <2>14 DEF Ensure
    <3> QED
      BY <3>1, <3>2, <3>3
  <2>15. CASE Create(p)
    <3>1. Account'
      BY <2>15 DEF Create
    <3>2. ServerInv'
      BY <2>15 DEF Create
    <3>3. ASSUME NEW q \in Proc PROVE ProcInv(q)'
      BY <2>15 DEF Create
    <3> QED
      BY <3>1, <3>2, <3>3
  <2>16. CASE Decide(p)
    <3>1. Account'
      BY <2>16 DEF Decide
    <3>2. ServerInv'
      BY <2>16 DEF Decide
    <3>3. ASSUME NEW q \in Proc PROVE ProcInv(q)'
      BY <2>16 DEF Decide
    <3> QED
      BY <3>1, <3>2, <3>3
  <2>17. CASE Register(p)
    <3>1. Account'
      BY <2>17 DEF Register
    <3>2. ServerInv'
      BY <2>17 DEF Register
    <3>3. ASSUME NEW q \in Proc PROVE ProcInv(q)'
      BY <2>17 DEF Register
    <3> QED
      BY <3>1, <3>2, <3>3
  <2>18. CASE RegisterFails(p)
    <3>1. Account'
      BY <2>18 DEF RegisterFails
    <3>2. ServerInv'
      BY <2>18 DEF RegisterFails
    <3>3. ASSUME NEW q \in Proc PROVE ProcInv(q)'
      BY <2>18 DEF RegisterFails
    <3> QED
      BY <3>1, <3>2, <3>3
  <2>19. CASE Crash(p)
    <3>1. Account'
      BY <2>19 DEF Crash
    <3>2. ServerInv'
      BY <2>19 DEF Crash
    <3>3. ASSUME NEW q \in Proc PROVE ProcInv(q)'
      BY <2>19 DEF Crash
    <3> QED
      BY <3>1, <3>2, <3>3
  <2> QED
    BY <1>1, <2>1, <2>2, <2>3, <2>4, <2>5, <2>6, <2>7, <2>8, <2>9, <2>10,
       <2>11, <2>12, <2>13, <2>14, <2>15, <2>16, <2>17, <2>18, <2>19
       DEF ProcStep
<1>2. ASSUME NEW p \in Proc, Reload(p)
      PROVE  Account' /\ ServerInv' /\ \A q \in Proc : ProcInv(q)'
  <2>1. Account'
    BY <1>2 DEF Reload
  <2>2. ServerInv'
    BY <1>2 DEF Reload
  <2>3. ASSUME NEW q \in Proc PROVE ProcInv(q)'
    BY <1>2 DEF Reload
  <2> QED
    BY <2>1, <2>2, <2>3
<1>3. ASSUME NEW p \in Proc, WatchEnds(p)
      PROVE  Account' /\ ServerInv' /\ \A q \in Proc : ProcInv(q)'
  <2>1. Account'
    BY <1>3 DEF WatchEnds
  <2>2. ServerInv'
    BY <1>3 DEF WatchEnds
  <2>3. ASSUME NEW q \in Proc PROVE ProcInv(q)'
    BY <1>3 DEF WatchEnds
  <2> QED
    BY <2>1, <2>2, <2>3
<1>4. ASSUME NEW s \in Setting \cup {Default}, Edit(s)
      PROVE  Account' /\ ServerInv' /\ \A q \in Proc : ProcInv(q)'
  <2>1. Account'
    BY <1>4 DEF Edit, Content
  <2>2. ServerInv'
    BY <1>4 DEF Edit, Content
  <2>3. ASSUME NEW q \in Proc PROVE ProcInv(q)'
    BY <1>4 DEF Edit, Content
  <2> QED
    BY <2>1, <2>2, <2>3
<1>5. CASE Remove
  <2>1. Account'
    BY <1>5 DEF Remove
  <2>2. ServerInv'
    BY <1>5 DEF Remove
  <2>3. ASSUME NEW q \in Proc PROVE ProcInv(q)'
    BY <1>5 DEF Remove
  <2> QED
    BY <2>1, <2>2, <2>3
<1>6. CASE UNCHANGED vars
  <2>1. Account'
    BY <1>6 DEF vars
  <2>2. ServerInv'
    BY <1>6 DEF vars
  <2>3. ASSUME NEW q \in Proc PROVE ProcInv(q)'
    BY <1>6 DEF vars
  <2> QED
    BY <2>1, <2>2, <2>3
<1>7. ASSUME NEW p \in Proc, Reassign(p)
      PROVE  Account' /\ ServerInv' /\ \A q \in Proc : ProcInv(q)'
  <2>1. Account'
    BY <1>7 DEF Reassign
  <2>2. ServerInv'
    BY <1>7 DEF Reassign
  <2>3. ASSUME NEW q \in Proc PROVE ProcInv(q)'
    BY <1>7 DEF Reassign
  <2> QED
    BY <2>1, <2>2, <2>3
<1>8. ASSUME NEW p \in Proc, Rebuild(p)
      PROVE  Account' /\ ServerInv' /\ \A q \in Proc : ProcInv(q)'
  <2>1. Account'
    BY <1>8, ValuesType DEF Rebuild
  <2>2. ServerInv'
    BY <1>8, ValuesType DEF Rebuild
  <2>3. ASSUME NEW q \in Proc PROVE ProcInv(q)'
    BY <1>8, ValuesType DEF Rebuild
  <2> QED
    BY <2>1, <2>2, <2>3
<1>9. ASSUME NEW p \in Proc, Restore(p)
      PROVE  Account' /\ ServerInv' /\ \A q \in Proc : ProcInv(q)'
  <2>1. Account'
    BY <1>9 DEF Restore
  <2>2. ServerInv'
    BY <1>9 DEF Restore
  <2>3. ASSUME NEW q \in Proc PROVE ProcInv(q)'
    BY <1>9 DEF Restore
  <2> QED
    BY <2>1, <2>2, <2>3
<1> QED
  BY <1>1, <1>2, <1>3, <1>4, <1>5, <1>6, <1>7, <1>8, <1>9 DEF Next, WatcherStep

LEMMA UuidInvariant == Spec => []UuidInv
<1>1. Init => UuidInv
  BY ConfigAssumption, FileAssumption
     DEF Init, UuidInv, Account, ServerInv, ProcInv, KnowsUuid, BringsUuid,
         Recorded, Recording, Content, Blank, Writing, Starting
<1>2. TypeOK /\ UuidInv /\ [Next]_vars => UuidInv'
  <2> SUFFICES ASSUME TypeOK, UuidInv, [Next]_vars, program' = "agent"
               PROVE  Account' /\ ServerInv' /\ \A p \in Proc : ProcInv(p)'
    BY DEF UuidInv
  <2>1. program = "agent"
    BY DEF Next, ProcStep, WatcherStep, vars, Start, Watch, Read, ReadNothing,
       Fatal, Load, Store, CommandEnds, Truncate, Marshal, Write, WriteFails,
       Assign, Ensure, Create, Decide, Register, RegisterFails, Reload, Reassign,
       Rebuild, Restore, WatchEnds, Edit, Remove, Crash
  <2> QED
    BY <2>1, UuidStep DEF UuidInv
<1> QED
  BY <1>1, <1>2, TypeCorrect, PTL DEF Spec

\* An agent registers once in its life, however often it is restarted, killed
\* and its file edited (AgentServer.Start, WriteBackAndReload): each further
\* UUID takes a mishap of its own.
THEOREM OneRegistration == Spec => []RegistersOnce
<1>1. TypeOK /\ UuidInv => RegistersOnce
  BY DEF TypeOK, UuidInv, Account, RegistersOnce
<1> QED
  BY <1>1, TypeCorrect, UuidInvariant, PTL

\* An agent whose watcher is quiet knows its UUID (WriteBackAndReload,
\* OnConfigChange): Heartbeat does not refuse to send for want of one.
THEOREM ServesIdentified == Spec => []ServesWithUuid
<1>1. UuidInv => ServesWithUuid
  BY DEF UuidInv, ServerInv, Quiet, ServesWithUuid
<1> QED
  BY <1>1, UuidInvariant, PTL
=============================================================================
