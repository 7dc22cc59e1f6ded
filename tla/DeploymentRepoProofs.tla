------------------------ MODULE DeploymentRepoProofs ------------------------
(***************************************************************************)
(* Proofs about DeploymentRepo, for every set of files and contents and    *)
(* every value of the bounds and any number of handlers.  Where handlers   *)
(* that overlap would spoil a property, its theorem says which steps must  *)
(* not overlap, and lets all others.                                       *)
(***************************************************************************)
EXTENDS DeploymentRepo, TLAPS

\* One handler at most is between reading HEAD in Commit and setting it there.
OneCommitter ==
    \A r, s \in Req : pc[r] = "commit" /\ pc[s] = "commit" => r = s

\* One handler at most works on the files, before it has staged them.
TreeSteps == {"next", "copy", "add", "index", "stage"}
OneAtTheTree ==
    \A r, s \in Req : pc[r] \in TreeSteps /\ pc[s] \in TreeSteps => r = s

\* No two requests overlap.
OneRequest ==
    \A r, s \in Req : pc[r] # "idle" /\ pc[s] # "idle" => r = s

\* The variables keep their types: what HEAD, the remote and the handlers
\* refer to are commits that were made, a handler works on files it was asked
\* about.
THEOREM TypeCorrect == Spec => []TypeOK
<1>1. Init => TypeOK
  <2> SUFFICES ASSUME Init PROVE TypeOK
    OBVIOUS
  <2>1. NoFiles \in Tree /\ 0 \in Commit
    BY RepoAssumption DEF Tree, Commit, NoFiles
  <2>2. givenUp \in BOOLEAN
    BY DEF Init
  <2> QED
    BY RepoAssumption, <2>1, <2>2 DEF Init, TypeOK, Commit, Steps
<1>2. TypeOK /\ [Next]_vars => TypeOK'
  <2> SUFFICES ASSUME TypeOK, [Next]_vars PROVE TypeOK'
    OBVIOUS
  <2> USE RepoAssumption DEF TypeOK, Commit, Steps, FileSteps, repoVars,
          commitVars, remoteVars, handlerVars, boundVars, Goes
  <2>1. ASSUME NEW r \in Req, Upload(r) \/ Delete(r) PROVE TypeOK'
    <3>1. PICK how \in {"upload", "delete"}, files \in SUBSET File,
               content \in Content \cup {Absent} :
                 Request(r, how, files, content)
      BY <2>1 DEF Upload, Delete
    <3> QED
      BY <3>1 DEF Request
  <2>2. ASSUME NEW r \in Req, HandlerStep(r) PROVE TypeOK'
    <3>1. CASE Return(r)
      BY <3>1 DEF Return, NoFiles, Tree
    <3>2. ASSUME NEW f \in File, Create(r, f) PROVE TypeOK'
      BY <3>2 DEF Create, TakeFile, Tree, Blob
    <3>3. ASSUME NEW f \in File, Remove(r, f) PROVE TypeOK'
      BY <3>3 DEF Remove, TakeFile, Tree
    <3>4. ASSUME NEW f \in File, NotFound(r, f) PROVE TypeOK'
      BY <3>4 DEF NotFound, TakeFile
    <3>5. CASE Copy(r)
      BY <3>5 DEF Copy, Tree, Blob
    <3>6. CASE CopyFails(r)
      BY <3>6 DEF CopyFails
    <3>7. CASE AddReads(r)
      BY <3>7 DEF AddReads
    <3>8. CASE AddWrites(r)
      BY <3>8 DEF AddWrites, Tree, NoFiles
    <3>9. CASE Stage(r)
      <4>1. index' \in Tree
        BY <3>9 DEF Stage, Staged, Tree
      <4> QED
        BY <3>9, <4>1 DEF Stage, Commits
    <3>10. CASE MakeCommit(r)
      <4>1. givenUp' \in BOOLEAN
        BY <3>10 DEF MakeCommit
      <4>2. /\ last' \in Commit /\ last' = last + 1
            /\ tree' \in [Commit -> Tree] /\ past' \in [Commit -> SUBSET Commit]
            /\ head' \in 0 .. last'
        BY <3>10 DEF MakeCommit, NewCommit
      <4>3. /\ \A q \in Req : pc'[q] \in {"copy", "add", "index"} => pc'[q] = pc[q]
            /\ pc' \in [Req -> Steps]
        BY <3>10 DEF MakeCommit
      <4> QED
        BY <3>10, <4>1, <4>2, <4>3 DEF MakeCommit
    <3>11. CASE GitFails(r)
      BY <3>11 DEF GitFails
    <3>12. CASE Push(r)
      <4>1. pc' \in [Req -> Steps]
        BY <3>12 DEF Push
      <4>2. \A q \in Req : pc'[q] \in {"copy", "add", "index"} => pc'[q] = pc[q]
        BY <3>12 DEF Push
      <4>3. givenUp' \in BOOLEAN
        BY <3>12 DEF Push
      <4> QED
        BY <3>12, <4>1, <4>2, <4>3 DEF Push
    <3>13. CASE PushAnswerLost(r)
      <4>1. givenUp' \in BOOLEAN /\ pc' \in [Req -> Steps]
        BY <3>13 DEF PushAnswerLost
      <4>2. \A q \in Req : pc'[q] \in {"copy", "add", "index"} => pc'[q] = pc[q]
        BY <3>13 DEF PushAnswerLost
      <4> QED
        BY <3>13, <4>1, <4>2 DEF PushAnswerLost
    <3>14. CASE AddUnknown(r)
      BY <3>14 DEF AddUnknown
    <3>15. CASE EmptyCommit(r)
      BY <3>15 DEF EmptyCommit
    <3>16. CASE PushRefused(r)
      BY <3>16 DEF PushRefused
    <3>17. CASE PushFails(r)
      <4>1. givenUp' \in BOOLEAN
        BY <3>17, Zenon DEF PushFails, Pushable
      <4>2. pc' \in [Req -> Steps]
        BY <3>17 DEF PushFails
      <4>3. \A q \in Req : pc'[q] \in {"copy", "add", "index"} => pc'[q] = pc[q]
        BY <3>17 DEF PushFails
      <4> QED
        BY <3>17, <4>1, <4>2, <4>3 DEF PushFails
    <3>18. CASE DeleteEnds(r)
      BY <3>18 DEF DeleteEnds
    <3>19. CASE OpenFails(r)
      BY <3>19 DEF OpenFails
    <3> QED
      BY <2>2, <3>1, <3>2, <3>3, <3>4, <3>5, <3>6, <3>7, <3>8, <3>9,
         <3>10, <3>11, <3>12, <3>13, <3>14, <3>15, <3>16, <3>17, <3>18, <3>19
      DEF HandlerStep
  <2>3. CASE Restart
    <3>1. givenUp' \in BOOLEAN
      BY <2>3, Zenon DEF Restart, Pushable
    <3>2. /\ snap' \in [Req -> Tree] /\ body' \in [Req -> Content \cup {Absent}]
          /\ cur' \in [Req -> File \cup {NoFile}] /\ cut' \in SUBSET File
      BY <2>3 DEF Restart, NoFiles, Tree
    <3> QED
      BY <2>3, <3>1, <3>2 DEF Restart
  <2>4. ASSUME NEW f \in File, NEW content \in Content, ForeignPush(f, content)
        PROVE  TypeOK'
    <3>1. givenUp' \in BOOLEAN
      BY <2>4 DEF ForeignPush
    <3>2. /\ tree' \in [Commit -> Tree] /\ past' \in [Commit -> SUBSET Commit]
          /\ last' \in Commit /\ last' = last + 1 /\ remote' \in 0 .. last'
      BY <2>4 DEF ForeignPush, NewCommit, Tree, Blob
    <3> QED
      BY <2>4, <3>1, <3>2 DEF ForeignPush
  <2>5. CASE UNCHANGED vars
    BY <2>5 DEF vars
  <2> QED
    BY <2>1, <2>2, <2>3, <2>4, <2>5 DEF Next
<1> QED
  BY <1>1, <1>2, PTL DEF Spec
-----------------------------------------------------------------------------
(* What holds however requests overlap.  A commit takes a new number, and  *)
(* its history has itself and what was there before.                       *)

Reflexive == \A c \in 0 .. last : c \in past[c] /\ past[c] \subseteq 0 .. last

LEMMA NewCommitKeeps ==
  ASSUME TypeOK, Reflexive, NEW files \in Tree, NEW p \in 0 .. last, NewCommit(files, p)
  PROVE  /\ Reflexive'
         /\ \A c \in 0 .. last : tree'[c] = tree[c] /\ past'[c] = past[c]
         /\ past'[last + 1] = past[p] \cup {last + 1}
BY RepoAssumption DEF TypeOK, Reflexive, NewCommit, Commit

LEMMA ReflexiveStep ==
  ASSUME TypeOK, Reflexive, [Next]_vars
  PROVE  Reflexive'
<1> USE DEF repoVars, commitVars, remoteVars, handlerVars, boundVars
<1>1. ASSUME UNCHANGED commitVars PROVE Reflexive'
  BY <1>1 DEF Reflexive
<1>2. ASSUME NEW r \in Req, MakeCommit(r) PROVE Reflexive'
  <2>1. index \in Tree /\ parent[r] \in 0 .. last
    BY RepoAssumption DEF TypeOK, Commit
  <2>2. NewCommit(index, parent[r])
    BY <1>2 DEF MakeCommit
  <2>3. PICK g \in Tree, p \in 0 .. last : NewCommit(g, p)
    BY <2>1, <2>2
  <2> QED
    BY <2>3, NewCommitKeeps
<1>3. ASSUME NEW f \in File, NEW content \in Content, ForeignPush(f, content)
      PROVE  Reflexive'
  <2>1. NewCommit([tree[remote] EXCEPT ![f] = content], remote)
    BY <1>3 DEF ForeignPush
  <2>2. remote \in 0 .. last /\ tree[remote] \in Tree
    BY RepoAssumption DEF TypeOK, Commit
  <2>3. [tree[remote] EXCEPT ![f] = content] \in Tree
    BY <2>2 DEF Tree, Blob
  <2>4. PICK g \in Tree, p \in 0 .. last : NewCommit(g, p)
    BY <2>1, <2>2, <2>3
  <2> QED
    BY <2>4, NewCommitKeeps
<1>4. ASSUME NEW r \in Req, HandlerStep(r), ~MakeCommit(r)
      PROVE  UNCHANGED commitVars
  BY <1>4 DEF HandlerStep, Return, Create, Remove, NotFound, Copy, CopyFails,
     OpenFails, AddReads, AddWrites, AddUnknown, Stage, EmptyCommit, GitFails,
     Push, PushAnswerLost, PushRefused, PushFails, DeleteEnds
<1>5. ASSUME NEW r \in Req, Upload(r) \/ Delete(r) PROVE UNCHANGED commitVars
  BY <1>5 DEF Upload, Delete, Request
<1>6. Restart \/ UNCHANGED vars => UNCHANGED commitVars
  BY DEF Restart, vars
<1> QED
  BY <1>1, <1>2, <1>3, <1>4, <1>5, <1>6 DEF Next

\* However requests overlap and whoever else pushes, a HEAD that the remote would
\* take is being pushed, unless a push of it failed, or central stopped
\* in the middle of one (UploadDeploymentFile, DeleteDeploymentFile, PushChanges).
THEOREM UnpublishedPending == Spec => []UnpublishedIsPending
<1>1. Init => Reflexive /\ UnpublishedIsPending
  BY RepoAssumption DEF Init, Reflexive, Commit, UnpublishedIsPending, Pushable
<1>2. ASSUME TypeOK, Reflexive, UnpublishedIsPending, [Next]_vars
      PROVE  UnpublishedIsPending'
  <2> USE <1>2 DEF repoVars, commitVars, remoteVars, handlerVars, boundVars, Pushable
  <2>1. ASSUME NEW r \in Req, MakeCommit(r) PROVE UnpublishedIsPending'
    BY <2>1 DEF MakeCommit, Goes, UnpublishedIsPending, TypeOK
  <2>2. ASSUME NEW r \in Req, Push(r) \/ PushAnswerLost(r)
        PROVE  UnpublishedIsPending'
    BY <2>2 DEF Push, PushAnswerLost, Pushable, UnpublishedIsPending
  <2>3. ASSUME NEW r \in Req, PushRefused(r) PROVE UnpublishedIsPending'
    BY <2>3 DEF PushRefused, UnpublishedIsPending
  <2>4. ASSUME NEW r \in Req, PushFails(r) PROVE UnpublishedIsPending'
    BY <2>4 DEF PushFails, UnpublishedIsPending, TypeOK
  <2>5. ASSUME NEW f \in File, NEW content \in Content, ForeignPush(f, content)
        PROVE  UnpublishedIsPending'
    <3>1. /\ remote' = last + 1 /\ head' = head /\ head \in 0 .. last
          /\ last \in Nat
      BY <2>5, RepoAssumption DEF ForeignPush, TypeOK, Commit
    <3>2. past'[head] = past[head]
      BY <2>5, <3>1 DEF ForeignPush, NewCommit, TypeOK, Commit
    <3> QED
      BY <3>1, <3>2 DEF Reflexive, UnpublishedIsPending
  <2>6. CASE Restart
    BY <2>6 DEF Restart, UnpublishedIsPending, TypeOK
  <2>7. ASSUME UNCHANGED <<commitVars, remote, givenUp>>,
               NEW q \in Req, pc[q] # "push" \/ pc'[q] = "push",
               \A r \in Req \ {q} : pc'[r] = pc[r]
        PROVE  UnpublishedIsPending'
    BY <2>7 DEF UnpublishedIsPending
  <2>8. ASSUME NEW r \in Req, HandlerStep(r), ~MakeCommit(r), ~Push(r),
               ~PushAnswerLost(r), ~PushRefused(r), ~PushFails(r)
        PROVE  UnpublishedIsPending'
    BY <2>7, <2>8 DEF HandlerStep, Return, Create, Remove, NotFound, Copy, CopyFails,
       OpenFails, AddReads, AddWrites, AddUnknown, Stage, Commits, EmptyCommit,
       GitFails, DeleteEnds, Goes, TypeOK
  <2>9. ASSUME NEW r \in Req, Upload(r) \/ Delete(r) PROVE UnpublishedIsPending'
    BY <2>7, <2>9 DEF Upload, Delete, Request, Goes, TypeOK
  <2>10. CASE UNCHANGED vars
    BY <2>10 DEF vars, UnpublishedIsPending
  <2> QED
    BY <1>2, <2>1, <2>2, <2>3, <2>4, <2>5, <2>6, <2>8, <2>9, <2>10
       DEF Next
<1>3. TypeOK /\ Reflexive /\ [Next]_vars => Reflexive'
  BY ReflexiveStep
<1>4. TypeOK /\ Reflexive /\ UnpublishedIsPending /\ [Next]_vars
        => UnpublishedIsPending'
  BY <1>2
<1> QED
  BY <1>1, <1>3, <1>4, TypeCorrect, PTL DEF Spec
-----------------------------------------------------------------------------
(* The history.  A commit is made on top of the HEAD that CommitChanges    *)
(* read, which is still HEAD when no other handler is there meanwhile; so  *)
(* HEAD and the remote only move to commits that follow what was pushed.   *)

LinearHistory ==
    /\ \A c \in 0 .. last : past[c] \subseteq 0 .. last /\ c \in past[c]
    /\ \A r \in Req : pc[r] = "commit" => parent[r] = head
    /\ PushedIsNotLost

LEMMA HistoryInductive ==
  ASSUME OneCommitter, TypeOK, LinearHistory, [Next]_vars
  PROVE  LinearHistory'
<1> USE RepoAssumption DEF TypeOK, LinearHistory, PushedIsNotLost, Commit, Goes,
        repoVars, commitVars, remoteVars, handlerVars, boundVars
<1>1. ASSUME NEW r \in Req, Upload(r) \/ Delete(r) PROVE LinearHistory'
  <2>1. /\ UNCHANGED <<commitVars, remoteVars, parent>>
        /\ pc' = [pc EXCEPT ![r] = "next"]
    BY <1>1 DEF Upload, Delete, Request
  <2> QED
    BY <2>1
<1>2. ASSUME NEW r \in Req, HandlerStep(r) PROVE LinearHistory'
  <2>1. CASE Stage(r)
    BY <2>1 DEF Stage
  <2>2. CASE MakeCommit(r)
    <3>0. parent[r] = head
      BY <2>2 DEF MakeCommit
    <3>1. /\ last' = last + 1 /\ head' = last + 1
          /\ past' = [past EXCEPT ![last + 1] = past[head] \cup {last + 1}]
          /\ last < MaxCommits
          /\ pc' = [pc EXCEPT ![r] = "push"]
          /\ parent' = [parent EXCEPT ![r] = 0]
          /\ UNCHANGED <<remote, pushed>>
      BY <2>2, <3>0 DEF MakeCommit, NewCommit
    <3>2. \A c \in 0 .. last' : past'[c] \subseteq 0 .. last' /\ c \in past'[c]
      BY <3>1
    <3>3. \A q \in Req : pc'[q] # "commit"
      BY <2>2, <3>1 DEF MakeCommit, OneCommitter
    <3> QED
      BY <3>1, <3>2, <3>3
  <2>3. CASE Push(r) \/ PushAnswerLost(r)
    <3>1. /\ UNCHANGED <<commitVars, parent>>
          /\ remote' = head /\ pushed' = head
          /\ \A q \in Req : pc'[q] = "commit" => pc[q] = "commit"
      BY <2>3 DEF Push, PushAnswerLost
    <3> QED
      BY <3>1
  <2>4. CASE ~(\/ Stage(r) \/ MakeCommit(r) \/ Push(r) \/ PushAnswerLost(r))
    <3>1. UNCHANGED <<commitVars, remote, pushed>>
      BY <1>2, <2>4 DEF HandlerStep, Return, Create, Remove, NotFound, Copy,
         CopyFails, OpenFails, AddReads, AddWrites, AddUnknown, EmptyCommit, GitFails,
         PushRefused, PushFails, DeleteEnds
    <3>2. pc'[r] # "commit" /\ \A q \in Req \ {r} : pc'[q] = pc[q] /\ parent'[q] = parent[q]
      BY <1>2, <2>4 DEF HandlerStep, Return, Create, Remove, NotFound, Copy,
         CopyFails, OpenFails, AddReads, AddWrites, AddUnknown, EmptyCommit, GitFails,
         PushRefused, PushFails, DeleteEnds
    <3> QED
      BY <3>1, <3>2
  <2> QED
    BY <2>1, <2>2, <2>3, <2>4
<1>3. CASE Restart
  BY <1>3 DEF Restart
<1>4. ASSUME NEW f \in File, NEW content \in Content, ForeignPush(f, content)
      PROVE  LinearHistory'
  <2>1. /\ last' = last + 1 /\ remote' = last + 1
        /\ past' = [past EXCEPT ![last + 1] = past[remote] \cup {last + 1}]
        /\ last + 1 \in Commit
        /\ UNCHANGED <<head, pushed, pc, parent>>
    BY <1>4 DEF ForeignPush, NewCommit
  <2> QED
    BY <2>1
<1>5. CASE UNCHANGED vars
  BY <1>5 DEF vars
<1> QED
  BY <1>1, <1>2, <1>3, <1>4, <1>5 DEF Next

\* When no two commits are being made at once, what central pushed stays in the
\* history of its HEAD and of the remote, whatever else overlaps or fails,
\* whenever central restarts and whoever else pushes.
THEOREM PushedIsKept == Spec /\ []OneCommitter => []PushedIsNotLost
<1>1. Init => LinearHistory
  BY RepoAssumption DEF Init, LinearHistory, PushedIsNotLost, Commit
<1>2. OneCommitter /\ TypeOK /\ LinearHistory /\ [Next]_vars => LinearHistory'
  BY HistoryInductive
<1>3. LinearHistory => PushedIsNotLost
  BY DEF LinearHistory
<1> QED
  BY <1>1, <1>2, <1>3, TypeCorrect, PTL DEF Spec
-----------------------------------------------------------------------------
(* Truncated files.  The only way from os.Create to the index leads        *)
(* through io.Copy: an empty file is one that a handler is about to fill,  *)
(* or one whose writing was cut short.                                     *)

Complete ==
    /\ CommittedIsComplete
    /\ \A f \in File : index[f] = Empty => f \in cut
    /\ \A r \in Req, f \in File : snap[r][f] = Empty => f \in cut
    /\ \A f \in File : disk[f] = Empty =>
         \/ f \in cut
         \/ \E r \in Req : pc[r] = "copy" /\ cur[r] = f
    /\ \A r \in Req : body[r] # Empty

LEMMA CompleteInductive ==
  ASSUME OneAtTheTree, TypeOK, Complete, [Next]_vars
  PROVE  Complete'
<1> USE RepoAssumption DEF TypeOK, Complete, CommittedIsComplete, Commit, Goes,
        repoVars, commitVars, remoteVars, handlerVars, boundVars
<1>1. ASSUME NEW r \in Req, Upload(r) \/ Delete(r) PROVE Complete'
  <2>1. PICK content \in Content \cup {Absent} :
          /\ UNCHANGED <<repoVars, commitVars, remoteVars, cur, snap, cut>>
          /\ pc[r] = "idle"
          /\ pc' = [pc EXCEPT ![r] = "next"]
          /\ body' = [body EXCEPT ![r] = content]
    BY <1>1 DEF Upload, Delete, Request
  <2> QED
    BY <2>1
<1>2. ASSUME NEW r \in Req, HandlerStep(r) PROVE Complete'
  <2>0. pc[r] \in TreeSteps => \A q \in Req \ {r} : pc[q] # "copy"
    BY DEF OneAtTheTree, TreeSteps
  <2> USE DEF TreeSteps
  <2>1. CASE Return(r)
    BY <2>0, <2>1 DEF Return, NoFiles
  <2>2. ASSUME NEW f \in File, Create(r, f) PROVE Complete'
    BY <2>0, <2>2 DEF Create, TakeFile, Tree
  <2>3. ASSUME NEW f \in File, Remove(r, f) PROVE Complete'
    BY <2>0, <2>3 DEF Remove, TakeFile, Tree
  <2>4. ASSUME NEW f \in File, NotFound(r, f) PROVE Complete'
    BY <2>0, <2>4 DEF NotFound, TakeFile
  <2>5. CASE Copy(r)
    BY <2>0, <2>5 DEF Copy, Tree
  <2>6. CASE CopyFails(r)
    BY <2>0, <2>6 DEF CopyFails
  <2>7. CASE AddReads(r)
    BY <2>0, <2>7 DEF AddReads
  <2>8. CASE AddWrites(r)
    <3>1. \A f \in File : disk[f] = Empty => f \in cut
      <4>1. pc[r] = "index"
        BY <2>8 DEF AddWrites
      <4> QED
        BY <2>0, <4>1
    <3>2. \A f \in File : index'[f] = Empty => f \in cut
      <4>1. \A f \in File : index'[f] \in {snap[r][f], disk[f]}
        BY <2>8 DEF AddWrites, Tree
      <4> QED
        BY <3>1, <4>1
    <3>3. \A q \in Req, f \in File : snap'[q][f] = Empty => f \in cut
      BY <2>8 DEF AddWrites, NoFiles
    <3>4. UNCHANGED <<disk, last, tree, body, cut>>
      BY <2>8 DEF AddWrites
    <3> QED
      BY <3>1, <3>2, <3>3, <3>4
  <2>9. CASE Stage(r)
    <3>1. \A f \in File : disk[f] = Empty => f \in cut
      BY <2>0, <2>9 DEF Stage, Commits
    <3>2. \A f \in File : index'[f] = Empty => f \in cut
      BY <2>9, <3>1 DEF Stage, Staged
    <3> QED
      BY <2>9, <3>1, <3>2 DEF Stage
  <2>10. CASE MakeCommit(r)
    <3>1. UNCHANGED <<disk, index, cur, snap, body, cut>>
      BY <2>10 DEF MakeCommit
    <3>2. \A q \in Req : pc[q] = "copy" => pc'[q] = "copy"
      BY <2>10 DEF MakeCommit
    <3>3. CommittedIsComplete'
      BY <2>10 DEF MakeCommit, NewCommit
    <3> QED
      BY <3>1, <3>2, <3>3
  <2>11. CASE ~(\/ Return(r) \/ Copy(r) \/ CopyFails(r) \/ AddReads(r)
                \/ AddWrites(r) \/ Stage(r) \/ MakeCommit(r)
                \/ \E f \in File : Create(r, f) \/ Remove(r, f) \/ NotFound(r, f))
    <3>1. /\ UNCHANGED <<repoVars, commitVars, body, cur, snap, cut>>
          /\ pc[r] # "copy" /\ \A q \in Req \ {r} : pc'[q] = pc[q]
      BY <1>2, <2>11 DEF HandlerStep, OpenFails, AddUnknown, EmptyCommit, GitFails, Push,
         PushRefused, PushFails, PushAnswerLost, DeleteEnds, Commits
    <3>2. \A q \in Req : pc[q] = "copy" => pc'[q] = "copy" /\ cur'[q] = cur[q]
      BY <3>1
    <3>3. \A f \in File : disk'[f] = Empty =>
             f \in cut' \/ \E q \in Req : pc'[q] = "copy" /\ cur'[q] = f
      BY <3>1, <3>2
    <3> QED
      BY <3>1, <3>3
  <2> QED
    BY <2>1, <2>2, <2>3, <2>4, <2>5, <2>6, <2>7, <2>8, <2>9, <2>10, <2>11
<1>3. CASE Restart
  BY <1>3 DEF Restart, NoFiles
<1>4. ASSUME NEW f \in File, NEW content \in Content, ForeignPush(f, content)
      PROVE  Complete'
  BY <1>4 DEF ForeignPush, NewCommit, Tree
<1>5. CASE UNCHANGED vars
  BY <1>5 DEF vars
<1> QED
  BY <1>1, <1>2, <1>3, <1>4, <1>5 DEF Next

\* When one handler at a time works on the files, a commit has a truncated file
\* only if a write of it failed or central restarted in the middle of one; other
\* handlers may commit and push meanwhile.
THEOREM CommitsAreComplete == Spec /\ []OneAtTheTree => []CommittedIsComplete
<1>1. Init => Complete
  BY RepoAssumption DEF Init, Complete, CommittedIsComplete, Commit, NoFiles
<1>2. OneAtTheTree /\ TypeOK /\ Complete /\ [Next]_vars => Complete'
  BY CompleteInductive
<1>3. Complete => CommittedIsComplete
  BY DEF Complete
<1> QED
  BY <1>1, <1>2, <1>3, TypeCorrect, PTL DEF Spec
-----------------------------------------------------------------------------
(* What a request has done so far.                                         *)

Working(r) == pc[r] \in {"copy", "add", "index"}

\* The files the request has dealt with.
Handled(r) == (asked[r] \ todo[r]) \ (IF Working(r) THEN {cur[r]} ELSE {})

\* The commit at HEAD has them as the request wants them.
Committed(r) == \A f \in Handled(r) : tree[head][f] = body[r]

Progress(r) ==
    /\ pc[r] # "idle" => asked[r] # {}
    /\ pc[r] # "idle" /\ op[r] = "delete" => body[r] = Absent
    /\ Working(r) => cur[r] \notin todo[r]
    /\ pc[r] \in FileSteps \cup {"next"} =>
         \A f \in Handled(r) : disk[f] = body[r] /\ index[f] = body[r]
    /\ pc[r] \in {"add", "index"} => disk[cur[r]] = body[r]
    /\ pc[r] = "index" => snap[r] = index
    /\ pc[r] \in {"commit", "push"} /\ op[r] = "upload" => todo[r] = {}
    /\ pc[r] = "push" => Committed(r)
    /\ pc[r] = "next" /\ op[r] = "delete" /\ Handled(r) # {} =>
         head \in past[remote] /\ Committed(r)
    /\ pc[r] = "ok" => todo[r] = {} /\ head \in past[remote] /\ Committed(r)
    /\ pc[r] = "copy" => op[r] = "upload"
    /\ pc[r] = "stage" => op[r] = "delete"

LEMMA ProgressInductive ==
  ASSUME OneRequest, OneRequest', TypeOK, LinearHistory,
         \A r \in Req : Progress(r), [Next]_vars
  PROVE  \A r \in Req : Progress(r)'
<1> SUFFICES ASSUME NEW r \in Req PROVE Progress(r)'
  OBVIOUS
<1> USE RepoAssumption DEF Goes, repoVars, commitVars, remoteVars, handlerVars,
        boundVars
<1>0. ASSUME NEW q \in Req \ {r}, Upload(q) \/ Delete(q) \/ HandlerStep(q)
      PROVE  Progress(r)'
  <2>1. pc'[r] = pc[r]
    BY <1>0 DEF TypeOK, Upload, Delete, Request, HandlerStep, Return, Create,
       Remove, NotFound, Copy, CopyFails, OpenFails, AddReads, AddWrites,
       AddUnknown, Stage, MakeCommit, EmptyCommit, GitFails, Push, PushRefused,
       PushFails, PushAnswerLost, DeleteEnds
  <2>2. pc[q] # "idle" \/ pc'[q] # "idle"
    BY <1>0 DEF TypeOK, Upload, Delete, Request, HandlerStep, Return, Create,
       Remove, NotFound, Copy, CopyFails, OpenFails, AddReads, AddWrites,
       AddUnknown, Stage, Commits, MakeCommit, EmptyCommit, GitFails, Push,
       PushRefused, PushFails, PushAnswerLost, DeleteEnds
  <2>3. pc'[r] = "idle"
    BY <2>1, <2>2 DEF OneRequest
  <2> QED
    BY <2>3 DEF Progress, Working, FileSteps
<1>1. CASE Upload(r) \/ Delete(r)
  <2>1. PICK how \in {"upload", "delete"}, files \in SUBSET File,
             content \in Content \cup {Absent} :
               /\ Request(r, how, files, content)
               /\ how = "delete" => content = Absent
    BY <1>1 DEF Upload, Delete, TypeOK
  <2>2. /\ pc'[r] = "next" /\ op'[r] = how /\ body'[r] = content
        /\ asked'[r] = files /\ todo'[r] = files /\ files # {}
    BY <2>1 DEF Request, TypeOK
  <2>3. Handled(r)' = {}
    BY <2>2 DEF Handled, Working
  <2> QED
    BY <2>1, <2>2, <2>3 DEF Progress, Committed, Working, FileSteps
<1>2. ASSUME HandlerStep(r) PROVE Progress(r)'
  <2> USE DEF TypeOK, Progress
  <2>1. CASE Return(r)
    BY <2>1 DEF Return, Working, FileSteps
  <2>2. ASSUME NEW f \in File, Create(r, f) PROVE Progress(r)'
    <3>1. Handled(r)' = Handled(r)
      BY <2>2 DEF Create, TakeFile, Handled, Working
    <3>2. \A g \in Handled(r) : g # f
      BY <2>2 DEF Create, TakeFile, Handled, Working
    <3> QED
      BY <2>2, <3>1, <3>2
      DEF Create, TakeFile, Working, Committed, FileSteps, Tree, Handled
  <2>3. ASSUME NEW f \in File, Remove(r, f) PROVE Progress(r)'
    <3>1. Handled(r)' = Handled(r)
      BY <2>3 DEF Remove, TakeFile, Handled, Working
    <3>2. \A g \in Handled(r) : g # f
      BY <2>3 DEF Remove, TakeFile, Handled, Working
    <3> QED
      BY <2>3, <3>1, <3>2
      DEF Remove, TakeFile, Working, Committed, FileSteps, Tree, Handled
  <2>4. CASE Copy(r)
    <3>1. Handled(r)' = Handled(r)
      BY <2>4 DEF Copy, Handled, Working
    <3>2. cur[r] \in File /\ \A g \in Handled(r) : g # cur[r]
      BY <2>4 DEF Copy, Handled, Working
    <3> QED
      BY <2>4, <3>1, <3>2 DEF Copy, Working, Committed, FileSteps, Tree
  <2>5. CASE AddReads(r)
    <3>1. Handled(r)' = Handled(r)
      BY <2>5 DEF AddReads, Handled, Working
    <3> QED
      BY <2>5, <3>1 DEF AddReads, Working, Committed, FileSteps
  <2>6. CASE AddWrites(r)
    <3>1. /\ Handled(r)' = Handled(r) \cup {cur[r]}
          /\ cur[r] \in File
      BY <2>6 DEF AddWrites, Handled, Working
    <3>2. /\ index' = [index EXCEPT ![cur[r]] = body[r]]
          /\ disk[cur[r]] = body[r]
          /\ pc'[r] = IF op[r] = "upload" THEN "next" ELSE "stage"
          /\ UNCHANGED <<disk, op, asked, body, todo>>
          /\ pc[r] = "index"
      BY <2>6 DEF AddWrites
    <3>3. \A f \in Handled(r)' : disk'[f] = body'[r] /\ index'[f] = body'[r]
      <4> SUFFICES ASSUME NEW f \in Handled(r)'
                   PROVE  disk'[f] = body'[r] /\ index'[f] = body'[r]
        OBVIOUS
      <4>1. f \in File
        BY <3>2 DEF Handled
      <4>2. CASE f = cur[r]
        BY <3>2, <4>1, <4>2 DEF Tree
      <4>3. CASE f # cur[r]
        BY <3>1, <3>2, <4>1, <4>3 DEF Tree, FileSteps
      <4> QED
        BY <4>2, <4>3
    <3>4. pc'[r] = "next" => op'[r] # "delete"
      BY <3>2
    <3> QED
      BY <3>2, <3>3, <3>4 DEF Working, FileSteps
  <2>7. CASE Stage(r)
    <3>1. Handled(r)' = Handled(r) /\ Handled(r) \subseteq File
      BY <2>7 DEF Stage, Commits, Handled, Working
    <3>2. \A f \in Handled(r) : disk[f] = body[r] /\ index[f] = body[r]
      BY <2>7 DEF Stage, Commits, FileSteps
    <3>3. \A f \in Handled(r) : index'[f] = body[r]
      BY <2>7, <3>1, <3>2 DEF Stage, Staged
    <3> QED
      BY <2>7, <3>1, <3>2, <3>3 DEF Stage, Commits, Working, FileSteps
  <2>8. CASE MakeCommit(r)
    <3>1. Handled(r)' = Handled(r)
      BY <2>8 DEF MakeCommit, Handled, Working
    <3>2. tree'[head'] = index
      BY <2>8 DEF MakeCommit, NewCommit, Commit
    <3> QED
      BY <2>8, <3>1, <3>2 DEF MakeCommit, Working, Committed, FileSteps
  <2>9. CASE Push(r)
    <3>1. Handled(r)' = Handled(r)
      BY <2>9 DEF Push, Handled, Working
    <3>2. head' \in past'[remote']
      BY <2>9 DEF Push, LinearHistory
    <3>3. /\ pc[r] = "push"
          /\ pc'[r] = IF op[r] = "upload" THEN "ok" ELSE "next"
          /\ UNCHANGED <<repoVars, commitVars, op, asked, body, todo, cur>>
      BY <2>9 DEF Push
    <3> QED
      BY <3>1, <3>2, <3>3 DEF Working, Committed, FileSteps
  <2>10. CASE DeleteEnds(r)
    <3>1. Handled(r)' = Handled(r) /\ Handled(r) # {}
      BY <2>10 DEF DeleteEnds, Handled, Working
    <3> QED
      BY <2>10, <3>1 DEF DeleteEnds, Working, Committed, FileSteps
  <2>11. CASE ~(\/ Return(r) \/ Copy(r) \/ AddReads(r) \/ AddWrites(r)
                \/ Stage(r) \/ MakeCommit(r) \/ Push(r) \/ DeleteEnds(r)
                \/ \E f \in File : Create(r, f) \/ Remove(r, f))
    <3>1. pc'[r] = "error" /\ UNCHANGED <<op, asked, body>> /\ pc[r] # "idle"
      BY <1>2, <2>11 DEF HandlerStep, NotFound, CopyFails, OpenFails, AddUnknown,
         EmptyCommit, GitFails, PushRefused, PushFails, PushAnswerLost, Commits
    <3> QED
      BY <3>1 DEF Working, FileSteps
  <2> QED
    BY <1>2, <2>1, <2>2, <2>3, <2>4, <2>5, <2>6, <2>7, <2>8, <2>9, <2>10, <2>11
<1>3. CASE Restart
  BY <1>3 DEF Restart, Progress, Working, FileSteps
<1>4. ASSUME NEW f \in File, NEW content \in Content, ForeignPush(f, content)
      PROVE  Progress(r)'
  <2>1. /\ past'[remote'] = past[remote] \cup {last + 1}
        /\ tree'[head] = tree[head]
        /\ UNCHANGED <<repoVars, head, handlerVars>>
    BY <1>4 DEF ForeignPush, NewCommit, TypeOK, Commit
  <2> QED
    BY <2>1 DEF Progress, Handled, Working, Committed
<1>5. CASE UNCHANGED vars
  BY <1>5 DEF vars, Progress, Handled, Working, Committed
<1> QED
  BY <1>0, <1>1, <1>2, <1>3, <1>4, <1>5 DEF Next

\* When no requests overlap, a request answered with success has its files in
\* the commit at HEAD as it asked for, and that commit is at the remote.
THEOREM AnsweredArePublished == Spec /\ []OneRequest => []AnsweredIsPublished
<1> DEFINE Inv == LinearHistory /\ \A r \in Req : Progress(r)
<1>1. Init => Inv
  BY RepoAssumption DEF Init, LinearHistory, PushedIsNotLost, Commit, Progress,
     Working, FileSteps
<1>2. TypeOK /\ OneRequest /\ OneRequest' /\ Inv /\ [Next]_vars => Inv'
  <2>1. OneRequest => OneCommitter
    BY DEF OneRequest, OneCommitter
  <2> QED
    BY <2>1, HistoryInductive, ProgressInductive
<1>3. Inv => AnsweredIsPublished
  BY DEF Progress, AnsweredIsPublished, Committed, Handled, Working
<1> QED
  BY <1>1, <1>2, <1>3, TypeCorrect, PTL DEF Spec
-----------------------------------------------------------------------------
\* When no two commits are being made at once, the repository implements
\* DeploymentHistory: every step of a handler commits on top of HEAD, pushes
\* HEAD forward, or is not seen.
THEOREM RepoImplementsHistory == Spec /\ []OneCommitter => KeepsHistory
<1>1. Init => History!Init
  BY DEF Init, History!Init, NoFiles, Commit, History!Commit
<1>2. Init => LinearHistory
  BY RepoAssumption DEF Init, LinearHistory, PushedIsNotLost, Commit
<1>3. OneCommitter /\ TypeOK /\ LinearHistory /\ [Next]_vars => LinearHistory'
  BY HistoryInductive
<1>4. TypeOK /\ LinearHistory /\ [Next]_vars =>
        [History!HistoryStep]_(History!historyVars)
  <2> SUFFICES ASSUME TypeOK, LinearHistory, [Next]_vars
               PROVE  [History!HistoryStep]_(History!historyVars)
    OBVIOUS
  <2> USE DEF repoVars, commitVars, remoteVars, History!historyVars
  <2>0. \A t \in Tree : t \in History!Tree
    BY DEF Tree, Blob, History!Tree
  <2>1. ASSUME NEW r \in Req, MakeCommit(r)
        PROVE  \E files \in History!Tree : History!CommitChanges(files)
    <3>1. parent[r] = head
      BY <2>1 DEF MakeCommit, Goes, LinearHistory
    <3>2. History!CommitChanges(index)
      BY <2>1, <3>1 DEF MakeCommit, NewCommit, History!CommitChanges,
         History!Follows
    <3> QED
      BY <2>0, <3>2 DEF TypeOK
  <2>2. ASSUME NEW r \in Req, Push(r) \/ PushAnswerLost(r)
        PROVE  History!PushChanges
    BY <2>2 DEF Push, PushAnswerLost, Pushable, History!PushChanges
  <2>3. ASSUME NEW f \in File, NEW content \in Content, ForeignPush(f, content)
        PROVE  \E files \in History!Tree : History!PushedElsewhere(files)
    <3> DEFINE files == [tree[remote] EXCEPT ![f] = content]
    <3>1. files \in Tree
      BY RepoAssumption DEF TypeOK, Commit, Tree, Blob
    <3>2. History!PushedElsewhere(files)
      BY <2>3 DEF ForeignPush, NewCommit, History!PushedElsewhere,
         History!Follows
    <3> QED
      BY <2>0, <3>1, <3>2
  <2>4. ASSUME NEW r \in Req, HandlerStep(r),
               ~MakeCommit(r), ~Push(r), ~PushAnswerLost(r)
        PROVE  UNCHANGED History!historyVars
    BY <2>4 DEF HandlerStep, Return, Create, Remove, NotFound, Copy, CopyFails,
       OpenFails, AddReads, AddWrites, AddUnknown, Stage, EmptyCommit, GitFails,
       PushRefused, PushFails, DeleteEnds
  <2>5. ASSUME NEW r \in Req, Upload(r) \/ Delete(r)
        PROVE  UNCHANGED History!historyVars
    BY <2>5 DEF Upload, Delete, Request
  <2>6. Restart \/ UNCHANGED vars => UNCHANGED History!historyVars
    BY DEF Restart, vars
  <2> QED
    BY <2>1, <2>2, <2>3, <2>4, <2>5, <2>6 DEF Next, History!HistoryStep
<1> QED
  BY <1>1, <1>2, <1>3, <1>4, TypeCorrect, PTL
  DEF Spec, KeepsHistory, History!Spec
=============================================================================
