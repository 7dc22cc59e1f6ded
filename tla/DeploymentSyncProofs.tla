------------------------ MODULE DeploymentSyncProofs ------------------------
(***************************************************************************)
(* Proofs about DeploymentSync, for every number of agents, pages, files,  *)
(* contents and commits.                                                   *)
(***************************************************************************)
EXTENDS DeploymentSync, TLAPS

\* The variables keep their types: every page that is not idle is about an
\* agent, and no agent runs something that is not a deployment.
THEOREM TypeCorrect == SyncSpec => []TypeOK
<1> USE HistoryAssumption, SyncAssumption
<1>1. SyncInit => TypeOK
  BY DEF SyncInit, Init, TypeOK, Tree, Commit, Steps
<1>2. TypeOK /\ [SyncNext]_vars => TypeOK'
  <2> SUFFICES ASSUME TypeOK, [SyncNext]_vars PROVE TypeOK'
    OBVIOUS
  <2> USE DEF TypeOK, Commit, Steps, historyVars, agentVars, pageVars, Goes
  <2>1. CASE HistoryStep /\ UNCHANGED <<agentVars, pageVars>>
    <3>1. ASSUME NEW files \in Tree, CommitChanges(files) PROVE TypeOK'
      BY <2>1, <3>1 DEF CommitChanges, Follows
    <3>2. ASSUME NEW files \in Tree, PushedElsewhere(files) PROVE TypeOK'
      BY <2>1, <3>2 DEF PushedElsewhere, Follows
    <3>3. CASE PushChanges
      BY <2>1, <3>3 DEF PushChanges
    <3> QED
      BY <2>1, <3>1, <3>2, <3>3 DEF HistoryStep
  <2>2. ASSUME NEW a \in Agent, Pull(a) \/ StartAgent(a) PROVE TypeOK'
    <3>1. CASE Pull(a)
      BY <3>1 DEF Pull
    <3>2. CASE StartAgent(a)
      <4>1. up' \in [Agent -> BOOLEAN]
        BY <3>2, Zenon DEF StartAgent
      <4> QED
        BY <3>2, <4>1 DEF StartAgent
    <3> QED
      BY <2>2, <3>1, <3>2
  <2>3. ASSUME NEW p \in Page, PageStep(p) PROVE TypeOK'
    <3>1. ASSUME NEW a \in Agent, Open(p, a) PROVE TypeOK'
      BY <3>1 DEF Open
    <3>2. CASE ReadAgentHash(p)
      BY <3>2 DEF ReadAgentHash
    <3>3. CASE Compare(p)
      <4>1. sync' \in [Page -> BOOLEAN]
        BY <3>3, Zenon DEF Compare
      <4> QED
        BY <3>3, <4>1 DEF Compare
    <3>4. CASE ListFiles(p)
      BY <3>4 DEF ListFiles
    <3>5. CASE Leave(p)
      BY <3>5 DEF Leave, Forgets
    <3>6. ASSUME NEW button \in {"apply", "remove"}, NEW files \in SUBSET File,
                 Press(p, button, files)
          PROVE  TypeOK'
      BY <3>6 DEF Press
    <3>7. CASE CallFails(p)
      <4>1. PICK end \in {"success", "failure"} : Goes(p, "sent", end)
        BY <3>7 DEF CallFails, Failure
      <4>2. todo' \in [Page -> SUBSET File]
        BY <3>7 DEF CallFails
      <4> QED
        BY <3>7, <4>1, <4>2 DEF CallFails
    <3>8. CASE CallSucceeds(p)
      BY <3>8 DEF CallSucceeds
    <3>9. ASSUME NEW f \in File, ApplyFile(p, f) PROVE TypeOK'
      <4>1. cluster' \in [Agent -> [File -> Named \cup {NotApplied}]]
        BY <3>9 DEF ApplyFile, AtWork
      <4> QED
        BY <3>9, <4>1 DEF ApplyFile, AtWork
    <3>10. ASSUME NEW f \in File, SkipFile(p, f) \/ KeepFile(p, f) PROVE TypeOK'
      <4>1. /\ UNCHANGED <<historyVars, agentVars, at, about, agentHash, sync,
                         listed, doing, headThen>>
            /\ todo' = [todo EXCEPT ![p] = @ \ {f}]
        BY <3>10 DEF SkipFile, KeepFile, AtWork
      <4> QED
        BY <4>1
    <3>11. ASSUME NEW f \in File, CrashOn(p, f) PROVE TypeOK'
      <4>1. /\ at' \in [Page -> Steps]
            /\ \A q \in Page : at'[q] # "idle" => at[q] # "idle"
        BY <3>11 DEF CrashOn, Failure
      <4>2. todo' \in [Page -> SUBSET File]
        BY <3>11 DEF CrashOn
      <4>3. up' \in [Agent -> BOOLEAN]
        BY <3>11 DEF CrashOn
      <4> QED
        BY <3>11, <4>1, <4>2, <4>3 DEF CrashOn
    <3>12. ASSUME NEW f \in File, RemoveFile(p, f) PROVE TypeOK'
      <4>1. cluster' \in [Agent -> [File -> Named \cup {NotApplied}]]
        BY <3>12 DEF RemoveFile, AtWork
      <4> QED
        BY <3>12, <4>1 DEF RemoveFile, AtWork
    <3> QED
      BY <2>3, <3>1, <3>2, <3>3, <3>4, <3>5, <3>6, <3>7, <3>8, <3>9, <3>10,
         <3>11, <3>12 DEF PageStep
  <2>4. CASE UNCHANGED vars
    BY <2>4 DEF vars
  <2> QED
    BY <2>1, <2>2, <2>3, <2>4 DEF SyncNext
<1> QED
  BY <1>1, <1>2, PTL DEF SyncSpec
-----------------------------------------------------------------------------
(* What was published stays published: the history of the remote only      *)
(* grows, and a commit keeps its files.                                    *)

LinearHistory ==
    \A c \in 0 .. last : /\ past[c] \subseteq 0 .. last /\ c \in past[c]
                         /\ \A d \in past[c] : past[d] \subseteq past[c]

\* An agent's clone is at a commit the remote had, and the cluster runs what
\* such a commit has.
Published ==
    /\ LinearHistory
    /\ \A a \in Agent : clone[a] \in past[remote]
    /\ AppliedWasPublished

LEMMA HistoryGrows ==
  ASSUME TypeOK, LinearHistory, HistoryStep
  PROVE  /\ LinearHistory'
         /\ past[remote] \subseteq past'[remote']
         /\ \A c \in 0 .. last : tree'[c] = tree[c] /\ past'[c] = past[c]
<1> USE HistoryAssumption DEF TypeOK, LinearHistory, Commit
<1>1. ASSUME NEW files \in Tree, NEW c \in 0 .. last, Follows(files, c)
      PROVE  /\ LinearHistory'
             /\ \A d \in 0 .. last : tree'[d] = tree[d] /\ past'[d] = past[d]
             /\ past'[last + 1] = past[c] \cup {last + 1}
  <2>1. /\ \A d \in 0 .. last : tree'[d] = tree[d] /\ past'[d] = past[d]
        /\ past'[last + 1] = past[c] \cup {last + 1}
        /\ last' = last + 1
    BY <1>1 DEF Follows
  <2>2. ASSUME NEW d \in 0 .. last'
        PROVE  /\ past'[d] \subseteq 0 .. last' /\ d \in past'[d]
               /\ \A e \in past'[d] : past'[e] \subseteq past'[d]
    <3>1. CASE d \in 0 .. last
      BY <2>1, <3>1
    <3>2. CASE d = last + 1
      <4>1. past[c] \subseteq 0 .. last
        OBVIOUS
      <4>2. past'[d] = past[c] \cup {d}
        BY <2>1, <3>2
      <4>3. \A e \in past[c] : past'[e] \subseteq past[c]
        BY <2>1, <4>1
      <4>4. past'[d] \subseteq 0 .. last' /\ d \in past'[d]
        <5>1. last' = last + 1 /\ d = last + 1 /\ last \in Nat
          BY <2>1, <3>2
        <5>2. 0 .. last \subseteq 0 .. last' /\ d \in 0 .. last'
          BY <5>1
        <5> QED
          BY <4>1, <4>2, <5>2
      <4>5. ASSUME NEW e \in past'[d] PROVE past'[e] \subseteq past'[d]
        <5>1. CASE e = d
          BY <5>1
        <5>2. CASE e \in past[c]
          BY <4>2, <4>3, <5>2
        <5> QED
          BY <4>2, <4>5, <5>1, <5>2
      <4> QED
        BY <4>4, <4>5
    <3> QED
      BY <2>1, <3>1, <3>2
  <2> QED
    BY <2>1, <2>2
<1>2. ASSUME NEW files \in Tree, CommitChanges(files)
      PROVE  /\ LinearHistory'
             /\ past[remote] \subseteq past'[remote']
             /\ \A c \in 0 .. last : tree'[c] = tree[c] /\ past'[c] = past[c]
  BY <1>1, <1>2 DEF CommitChanges
<1>3. ASSUME NEW files \in Tree, PushedElsewhere(files)
      PROVE  /\ LinearHistory'
             /\ past[remote] \subseteq past'[remote']
             /\ \A c \in 0 .. last : tree'[c] = tree[c] /\ past'[c] = past[c]
  <2>1. Follows(files, remote) /\ remote \in 0 .. last /\ remote' = last + 1
    BY <1>3 DEF PushedElsewhere
  <2>2. /\ LinearHistory'
        /\ \A c \in 0 .. last : tree'[c] = tree[c] /\ past'[c] = past[c]
        /\ past'[last + 1] = past[remote] \cup {last + 1}
    BY <1>1, <2>1
  <2> QED
    BY <2>1, <2>2
<1>4. CASE PushChanges
  BY <1>4 DEF PushChanges
<1> QED
  BY <1>2, <1>3, <1>4 DEF HistoryStep

LEMMA PublishedInductive ==
  ASSUME TypeOK, Published, [SyncNext]_vars
  PROVE  Published'
<1> USE HistoryAssumption, SyncAssumption
    DEF TypeOK, Published, AppliedWasPublished, Commit, historyVars, agentVars,
        pageVars, Goes
<1>1. CASE HistoryStep /\ UNCHANGED <<agentVars, pageVars>>
  <2>1. /\ LinearHistory'
        /\ past[remote] \subseteq past'[remote']
        /\ \A c \in 0 .. last : tree'[c] = tree[c]
    BY <1>1, HistoryGrows
  <2>2. past[remote] \subseteq 0 .. last
    BY DEF LinearHistory
  <2>3. \A a \in Agent : clone'[a] \in past'[remote']
    BY <1>1, <2>1
  <2>4. ASSUME NEW a \in Agent, NEW f \in File, cluster'[a][f] # NotApplied
        PROVE  \E c \in past'[remote'] : tree'[c][f] = cluster'[a][f]
    <3>1. cluster' = cluster
      BY <1>1
    <3>2. PICK c \in past[remote] : tree[c][f] = cluster[a][f]
      BY <2>4, <3>1
    <3>3. c \in past'[remote'] /\ tree'[c] = tree[c]
      BY <2>1, <2>2, <3>2
    <3> QED
      BY <3>1, <3>2, <3>3
  <2> QED
    BY <2>1, <2>3, <2>4
<1>2. ASSUME UNCHANGED historyVars, UNCHANGED clone, UNCHANGED cluster
      PROVE  Published'
  BY <1>2 DEF LinearHistory
<1>3. ASSUME NEW a \in Agent, Pull(a) PROVE Published'
  BY <1>3 DEF Pull, LinearHistory
<1>4. ASSUME NEW p \in Page, NEW f \in File, ApplyFile(p, f) PROVE Published'
  <2>1. /\ about[p] \in Agent
        /\ cluster' = [cluster EXCEPT ![about[p]][f] = Blob(p, f)]
        /\ UNCHANGED <<historyVars, clone>>
    BY <1>4 DEF ApplyFile, AtWork, Working
  <2>2. clone[about[p]] \in past[remote]
    BY <2>1
  <2>3. ASSUME NEW b \in Agent, NEW g \in File, cluster'[b][g] # NotApplied
        PROVE  \E c \in past[remote] : tree[c][g] = cluster'[b][g]
    <3>1. CASE b = about[p] /\ g = f
      BY <2>1, <2>2, <3>1 DEF Blob
    <3>2. CASE ~(b = about[p] /\ g = f)
      <4>1. cluster'[b][g] = cluster[b][g]
        BY <2>1, <3>2
      <4> QED
        BY <2>3, <4>1
    <3> QED
      BY <3>1, <3>2
  <2>4. AppliedWasPublished'
    <3> SUFFICES ASSUME NEW b \in Agent, NEW g \in File,
                        cluster'[b][g] # NotApplied
                 PROVE  \E c \in past'[remote'] : tree'[c][g] = cluster'[b][g]
      OBVIOUS
    <3>1. PICK c \in past[remote] : tree[c][g] = cluster'[b][g]
      BY <2>3
    <3>2. past' = past /\ remote' = remote /\ tree' = tree
      BY <2>1
    <3> QED
      BY <3>1, <3>2
  <2> QED
    BY <2>1, <2>4 DEF LinearHistory
<1>5. ASSUME NEW p \in Page, NEW f \in File, RemoveFile(p, f) PROVE Published'
  <2>1. /\ about[p] \in Agent
        /\ cluster' = [cluster EXCEPT ![about[p]][f] = NotApplied]
        /\ UNCHANGED <<historyVars, clone>>
    BY <1>5 DEF RemoveFile, AtWork, Working
  <2>2. \A b \in Agent, g \in File :
          cluster'[b][g] \in {cluster[b][g], NotApplied}
    BY <2>1
  <2>3. AppliedWasPublished'
    <3> SUFFICES ASSUME NEW b \in Agent, NEW g \in File,
                        cluster'[b][g] # NotApplied
                 PROVE  \E c \in past'[remote'] : tree'[c][g] = cluster'[b][g]
      OBVIOUS
    <3>1. cluster'[b][g] = cluster[b][g]
      BY <2>2
    <3>2. PICK c \in past[remote] : tree[c][g] = cluster[b][g]
      BY <3>1
    <3>3. past' = past /\ remote' = remote /\ tree' = tree
      BY <2>1
    <3> QED
      BY <3>1, <3>2, <3>3
  <2> QED
    BY <2>1, <2>3 DEF LinearHistory
<1>6. ASSUME NEW p \in Page, PageStep(p) PROVE Published'
  <2>1. ASSUME ~ \E f \in File : ApplyFile(p, f) \/ RemoveFile(p, f)
        PROVE  UNCHANGED historyVars /\ UNCHANGED clone /\ UNCHANGED cluster
    BY <1>6, <2>1 DEF PageStep, Open, ReadAgentHash, Compare, ListFiles, Leave,
       Press, CallFails, CallSucceeds, SkipFile, KeepFile, CrashOn, AtWork
  <2> QED
    BY <1>2, <1>4, <1>5, <2>1
<1>7. ASSUME NEW a \in Agent, StartAgent(a) PROVE Published'
  BY <1>2, <1>7 DEF StartAgent
<1>8. CASE UNCHANGED vars
  BY <1>2, <1>8 DEF vars
<1> QED
  BY <1>1, <1>3, <1>6, <1>7, <1>8 DEF SyncNext

\* Nothing runs in a cluster that the remote did not have for that file at
\* some time, whatever was committed at central and not pushed.
THEOREM OnlyPublishedIsApplied == SyncSpec => []AppliedWasPublished
<1>1. SyncInit => Published
  BY HistoryAssumption DEF SyncInit, Init, Published, LinearHistory,
     AppliedWasPublished, Commit
<1>2. TypeOK /\ Published /\ [SyncNext]_vars => Published'
  BY PublishedInductive
<1>3. Published => AppliedWasPublished
  BY DEF Published
<1> QED
  BY <1>1, <1>2, <1>3, TypeCorrect, PTL DEF SyncSpec
-----------------------------------------------------------------------------
(* The comparison of the hashes.  When central looks at HEAD it is where   *)
(* it was when the agent answered, or at a commit made since, which the    *)
(* agent cannot have had.                                                  *)

Compared ==
    \A p \in Page :
        /\ agentHash[p] <= last
        /\ at[p] \in {"idle", "hash", "head"} => ~sync[p]
        /\ at[p] = "head" => head = headThen[p] \/ head > agentHash[p]
        /\ sync[p] => headThen[p] = agentHash[p]

LEMMA ComparedInductive ==
  ASSUME TypeOK, Compared, [SyncNext]_vars
  PROVE  Compared'
<1> USE HistoryAssumption, SyncAssumption
    DEF TypeOK, Compared, Commit, historyVars, agentVars, pageVars, Goes
<1>1. CASE HistoryStep /\ UNCHANGED <<agentVars, pageVars>>
  <2>1. last' \in {last, last + 1} /\ head' \in {head, last + 1}
    BY <1>1 DEF HistoryStep, CommitChanges, PushedElsewhere, PushChanges, Follows
  <2> QED
    BY <1>1, <2>1
<1>2. ASSUME UNCHANGED <<last, head, pageVars>> PROVE Compared'
  BY <1>2
<1>3. ASSUME NEW p \in Page, PageStep(p) PROVE Compared'
  <2>1. ASSUME NEW a \in Agent, Open(p, a) PROVE Compared'
    BY <2>1 DEF Open
  <2>2. CASE ReadAgentHash(p)
    BY <2>2 DEF ReadAgentHash
  <2>3. CASE Compare(p)
    <3>1. /\ at[p] = "head" /\ at' = [at EXCEPT ![p] = "files"]
          /\ UNCHANGED <<last, head, agentHash, headThen>>
      BY <2>3 DEF Compare
    <3>2. \A q \in Page : sync'[q] <=> IF q = p THEN agentHash[p] = head
                                                ELSE sync[q]
      BY <2>3, Zenon DEF Compare
    <3> QED
      BY <3>1, <3>2
  <2>4. CASE Leave(p)
    BY <2>4 DEF Leave, Forgets
  <2>5. ASSUME NEW f \in File, CrashOn(p, f) PROVE Compared'
    <3>1. \A q \in Page : at'[q] \in {"idle", "hash", "head"} => at'[q] = at[q]
      BY <2>5 DEF CrashOn, Failure
    <3> QED
      BY <2>5, <3>1 DEF CrashOn
  <2>6. CASE ~(\/ \E a \in Agent : Open(p, a)
               \/ ReadAgentHash(p) \/ Compare(p) \/ Leave(p)
               \/ \E f \in File : CrashOn(p, f))
    <3>1. UNCHANGED <<last, head, sync, agentHash, headThen>>
      BY <1>3, <2>6 DEF PageStep, ListFiles, Press, CallFails, CallSucceeds,
         ApplyFile, SkipFile, RemoveFile, KeepFile, AtWork
    <3>2. \A q \in Page : at'[q] \in {"idle", "hash", "head"} => at'[q] = at[q]
      BY <1>3, <2>6 DEF PageStep, ListFiles, Press, CallFails, CallSucceeds,
         ApplyFile, SkipFile, RemoveFile, KeepFile, AtWork, Failure
    <3> QED
      BY <3>1, <3>2
  <2> QED
    BY <2>1, <2>2, <2>3, <2>4, <2>5, <2>6
<1>4. ASSUME NEW a \in Agent, Pull(a) \/ StartAgent(a) PROVE Compared'
  BY <1>2, <1>4 DEF Pull, StartAgent
<1>5. CASE UNCHANGED vars
  BY <1>2, <1>5 DEF vars
<1> QED
  BY <1>1, <1>3, <1>4, <1>5 DEF SyncNext

\* "Sync" on an agent page is never wrong: central was at the agent's commit
\* when the agent was asked, although it looks at its own HEAD only later.
THEOREM SyncIsNotWrong == SyncSpec => []SyncWasTrue
<1>1. SyncInit => Compared
  BY HistoryAssumption DEF SyncInit, Init, Compared, Commit
<1>2. TypeOK /\ Compared /\ [SyncNext]_vars => Compared'
  BY ComparedInductive
<1>3. Compared => SyncWasTrue
  BY DEF Compared, SyncWasTrue
<1> QED
  BY <1>1, <1>2, <1>3, TypeCorrect, PTL DEF SyncSpec
-----------------------------------------------------------------------------
(* What the agent answered a page is in the history of its clone from then *)
(* on, as the clone only moves forward.                                    *)

NotOlder ==
    \A p \in Page :
        /\ todo[p] # {} => at[p] \notin {"idle", "hash"}
        /\ at[p] \notin {"idle", "hash"} => agentHash[p] \in past[clone[about[p]]]

LEMMA NotOlderInductive ==
  ASSUME TypeOK, Published, NotOlder, [SyncNext]_vars
  PROVE  NotOlder'
<1> USE HistoryAssumption, SyncAssumption
    DEF TypeOK, NotOlder, Commit, historyVars, agentVars, pageVars, Goes, Working
<1>1. CASE HistoryStep /\ UNCHANGED <<agentVars, pageVars>>
  <2>1. \A c \in 0 .. last : past'[c] = past[c]
    BY <1>1, HistoryGrows DEF Published
  <2>2. \A p \in Page : at[p] # "idle" => clone[about[p]] \in 0 .. last
    OBVIOUS
  <2> QED
    BY <1>1, <2>1, <2>2
<1>2. ASSUME UNCHANGED past, UNCHANGED clone, UNCHANGED pageVars PROVE NotOlder'
  BY <1>2
<1>3. ASSUME NEW a \in Agent, Pull(a) PROVE NotOlder'
  <2>1. past[clone[a]] \subseteq past[remote]
    BY DEF Published, LinearHistory
  <2>2. clone' = [clone EXCEPT ![a] = remote] /\ UNCHANGED <<past, pageVars>>
    BY <1>3 DEF Pull
  <2> QED
    BY <2>1, <2>2
<1>4. ASSUME NEW a \in Agent, StartAgent(a) PROVE NotOlder'
  BY <1>2, <1>4 DEF StartAgent
<1>5. ASSUME NEW p \in Page, PageStep(p) PROVE NotOlder'
  <2>1. ASSUME NEW a \in Agent, Open(p, a) PROVE NotOlder'
    BY <2>1 DEF Open
  <2>2. CASE ReadAgentHash(p)
    <3>1. clone[about[p]] \in past[clone[about[p]]]
      BY <2>2 DEF ReadAgentHash, Published, LinearHistory
    <3> QED
      BY <2>2, <3>1 DEF ReadAgentHash
  <2>3. CASE Compare(p)
    BY <2>3 DEF Compare
  <2>4. CASE ListFiles(p)
    BY <2>4 DEF ListFiles
  <2>5. CASE Leave(p)
    BY <2>5 DEF Leave, Forgets
  <2>6. ASSUME NEW button \in {"apply", "remove"}, NEW files \in SUBSET File,
               Press(p, button, files)
        PROVE  NotOlder'
    BY <2>6 DEF Press
  <2>7. CASE CallFails(p) \/ CallSucceeds(p)
    <3>1. PICK end \in {"success", "failure"} : Goes(p, "sent", end)
      BY <2>7 DEF CallFails, CallSucceeds, Failure
    <3>2. \A q \in Page : todo'[q] \subseteq todo[q]
      BY <2>7 DEF CallFails, CallSucceeds
    <3>3. UNCHANGED <<historyVars, agentVars, about, agentHash>>
      BY <2>7 DEF CallFails, CallSucceeds
    <3> QED
      BY <3>1, <3>2, <3>3
  <2>8. ASSUME NEW f \in File, CrashOn(p, f) PROVE NotOlder'
    <3>1. \A q \in Page : /\ at'[q] \in {"idle", "hash"} <=> at[q] \in {"idle", "hash"}
                           /\ todo'[q] \subseteq todo[q]
      BY <2>8 DEF CrashOn, Failure
    <3> QED
      BY <2>8, <3>1 DEF CrashOn
  <2>9. ASSUME NEW f \in File,
               ApplyFile(p, f) \/ SkipFile(p, f) \/ RemoveFile(p, f)
                 \/ KeepFile(p, f)
        PROVE  NotOlder'
    BY <2>9 DEF ApplyFile, SkipFile, RemoveFile, KeepFile, AtWork
  <2> QED
    BY <1>5, <2>1, <2>2, <2>3, <2>4, <2>5, <2>6, <2>7, <2>8, <2>9 DEF PageStep
<1>6. CASE UNCHANGED vars
  BY <1>2, <1>6 DEF vars
<1> QED
  BY <1>1, <1>3, <1>4, <1>5, <1>6 DEF SyncNext

\* What an agent applies for a page is at least as new as what it answered when
\* the page compared the hashes, for any number of pages, pulls and pushes.
THEOREM AppliedNotOlder == SyncSpec => []AppliedIsNotOlder
<1>1. SyncInit => Published /\ NotOlder
  BY HistoryAssumption DEF SyncInit, Init, Published, LinearHistory,
     AppliedWasPublished, Commit, NotOlder
<1>2. TypeOK /\ Published /\ [SyncNext]_vars => Published'
  BY PublishedInductive
<1>3. TypeOK /\ Published /\ NotOlder /\ [SyncNext]_vars => NotOlder'
  BY NotOlderInductive
<1>4. NotOlder => AppliedIsNotOlder
  BY DEF NotOlder, AppliedIsNotOlder
<1> QED
  BY <1>1, <1>2, <1>3, <1>4, TypeCorrect, PTL DEF SyncSpec
-----------------------------------------------------------------------------
(* What ends an agent.                                                     *)

LEMMA NamelessInductive ==
  ASSUME TypeOK, Published, OnlyNamelessEnds, [SyncNext]_vars
  PROVE  OnlyNamelessEnds'
<1> USE HistoryAssumption, SyncAssumption
    DEF TypeOK, OnlyNamelessEnds, Commit, historyVars, agentVars, pageVars
<1>1. CASE HistoryStep /\ UNCHANGED <<agentVars, pageVars>>
  <2>1. /\ past[remote] \subseteq past'[remote']
        /\ \A c \in 0 .. last : tree'[c] = tree[c]
    BY <1>1, HistoryGrows DEF Published
  <2>2. past[remote] \subseteq 0 .. last
    BY DEF Published, LinearHistory
  <2> QED
    BY <1>1, <2>1, <2>2
<1>2. ASSUME UNCHANGED historyVars, UNCHANGED up PROVE OnlyNamelessEnds'
  BY <1>2
<1>3. ASSUME NEW a \in Agent, Pull(a) PROVE OnlyNamelessEnds'
  BY <1>2, <1>3 DEF Pull
<1>4. ASSUME NEW a \in Agent, StartAgent(a) PROVE OnlyNamelessEnds'
  BY <1>4 DEF StartAgent
<1>5. ASSUME NEW p \in Page, NEW f \in File, CrashOn(p, f)
      PROVE  OnlyNamelessEnds'
  <2>1. about[p] \in Agent /\ UNCHANGED historyVars
    BY <1>5 DEF CrashOn, Working
  <2>2. /\ clone[about[p]] \in past[remote]
        /\ tree[clone[about[p]]][f] \in Nameless \cup {Empty}
    BY <1>5, <2>1 DEF CrashOn, Blob, Published
  <2> QED
    BY <2>1, <2>2
<1>6. ASSUME NEW p \in Page, PageStep(p) PROVE OnlyNamelessEnds'
  <2>1. ASSUME ~ \E f \in File : CrashOn(p, f)
        PROVE  UNCHANGED historyVars /\ UNCHANGED up
    BY <1>6, <2>1 DEF PageStep, Open, ReadAgentHash, Compare, ListFiles, Leave,
       Press, CallFails, CallSucceeds, ApplyFile, RemoveFile, SkipFile, KeepFile,
       AtWork
  <2> QED
    BY <1>2, <1>5, <2>1
<1>7. CASE UNCHANGED vars
  BY <1>2, <1>7 DEF vars
<1> QED
  BY <1>1, <1>3, <1>4, <1>6, <1>7 DEF SyncNext

\* An agent whose process has ended was asked for a file without a name that
\* had been published, whatever else was missing, refused or cut short.
THEOREM NamelessEnds == SyncSpec => []OnlyNamelessEnds
<1>1. SyncInit => Published /\ OnlyNamelessEnds
  BY HistoryAssumption DEF SyncInit, Init, Published, LinearHistory,
     AppliedWasPublished, Commit, OnlyNamelessEnds
<1>2. TypeOK /\ Published /\ [SyncNext]_vars => Published'
  BY PublishedInductive
<1>3. TypeOK /\ Published /\ OnlyNamelessEnds /\ [SyncNext]_vars
        => OnlyNamelessEnds'
  BY NamelessInductive
<1> QED
  BY <1>1, <1>2, <1>3, TypeCorrect, PTL DEF SyncSpec
=============================================================================
