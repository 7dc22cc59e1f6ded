--------------------------- MODULE DeploymentRepo ---------------------------
(***************************************************************************)
(* The deployment files of central: the working tree under DeploymentsDir, *)
(* its git index and history, the remote it is pushed to, and the HTTP     *)
(* handlers UploadDeploymentFile and DeleteDeploymentFile that change them *)
(* step by step without a lock.                                            *)
(*                                                                         *)
(* A commit is a number; tree has the files of each commit and past its    *)
(* history, itself included.  go-git is external and modelled from how     *)
(* git.go uses it: Worktree.Add reads the index, then the file, and writes *)
(* the whole index back; Worktree.Commit takes its parent from HEAD, adds  *)
(* what is modified or deleted among the tracked files, refuses a commit   *)
(* that changes nothing, and sets HEAD without looking at it again;        *)
(* Remote.Push refuses what is not a fast-forward and reports a push of    *)
(* nothing as an error.                                                    *)
(***************************************************************************)
EXTENDS Integers

CONSTANTS
    Req,            \* handlers that may run at once, one request each
    File,           \* names of deployment files
    FilesOf,        \* the files the requests of a handler may name
    Content,        \* complete contents of a file
    Empty,          \* what os.Create leaves of a file
    Absent,         \* no such file, or no contents
    NoFile,         \* the handler is not working on a file
    MaxCommits,     \* bound: commits
    MaxFileFails,   \* bound: operations on files that fail
    MaxGitFails,    \* bound: git operations on the repository that fail
    MaxPushFails,   \* bound: pushes that fail or whose answer is lost
    MaxRestarts,    \* bound: restarts of central
    MaxForeign      \* bound: pushes to the remote by others

ASSUME RepoAssumption ==
    /\ FilesOf \in [Req -> SUBSET File]
    /\ Empty \notin Content /\ Absent \notin Content /\ Absent # Empty
    /\ NoFile \notin File
    /\ MaxCommits \in Nat /\ MaxFileFails \in Nat /\ MaxGitFails \in Nat
    /\ MaxPushFails \in Nat /\ MaxRestarts \in Nat /\ MaxForeign \in Nat

VARIABLES
    disk,       \* the working tree
    index,      \* the git index
    last,       \* the last commit made anywhere
    tree,       \* the files of each commit
    past,       \* the history of each commit
    head,       \* HEAD of central's repository
    remote,     \* the branch at the remote
    pc,         \* the step of each handler
    op,         \* "upload" or "delete"
    asked,      \* the files its request names
    body,       \* what it makes of them: the uploaded contents, or Absent
    todo,       \* the files it has still to look at
    cur,        \* the file it is working on
    snap,       \* the index AddFile read
    parent,     \* the HEAD CommitChanges read
    fileFails, gitFails, pushFails, restarts, foreign, \* counters for the bounds
    pushed,     \* history: what central last pushed
    givenUp,    \* history: the push of this HEAD failed or was cut short
    cut         \* history: the files a failed write or a restart truncated

repoVars == <<disk, index>>
commitVars == <<last, tree, past, head>>
handlerVars == <<pc, op, asked, body, todo, cur, snap, parent>>
boundVars == <<fileFails, gitFails, pushFails, restarts, foreign>>
remoteVars == <<remote, pushed, givenUp>>
vars == <<repoVars, commitVars, remoteVars, handlerVars, boundVars, cut>>
-----------------------------------------------------------------------------
Blob == Content \cup {Empty}
Tree == [File -> Blob \cup {Absent}]
Commit == 0 .. MaxCommits
NoFiles == [f \in File |-> Absent]

FileSteps == {"copy", "add", "index", "stage", "commit", "push"}
Steps == FileSteps \cup {"idle", "next", "ok", "error"}

TypeOK ==
    /\ disk \in Tree
    /\ index \in Tree
    /\ last \in Commit
    /\ tree \in [Commit -> Tree]
    /\ past \in [Commit -> SUBSET Commit]
    /\ head \in 0 .. last /\ remote \in 0 .. last /\ pushed \in 0 .. last
    /\ pc \in [Req -> Steps]
    /\ op \in [Req -> {"upload", "delete"}]
    /\ asked \in [Req -> SUBSET File]
    /\ body \in [Req -> Content \cup {Absent}]
    /\ todo \in [Req -> SUBSET File]
    /\ cur \in [Req -> File \cup {NoFile}]
    /\ snap \in [Req -> Tree]
    /\ parent \in [Req -> Commit]
    /\ \A r \in Req : todo[r] \subseteq asked[r] /\ parent[r] <= last
    /\ \A r \in Req : pc[r] \in {"copy", "add", "index"} => cur[r] \in asked[r]
    /\ cut \in SUBSET File
    /\ givenUp \in BOOLEAN
    /\ fileFails \in 0 .. MaxFileFails
    /\ gitFails \in 0 .. MaxGitFails
    /\ pushFails \in 0 .. MaxPushFails
    /\ restarts \in 0 .. MaxRestarts
    /\ foreign \in 0 .. MaxForeign

\* A repository with an initial commit that was pushed, and no request yet.
Init ==
    /\ disk = NoFiles /\ index = NoFiles
    /\ last = 0 /\ head = 0 /\ remote = 0 /\ pushed = 0
    /\ tree = [c \in Commit |-> NoFiles]
    /\ past = [c \in Commit |-> {c}]
    /\ pc = [r \in Req |-> "idle"]
    /\ op = [r \in Req |-> "upload"]
    /\ asked = [r \in Req |-> {}] /\ todo = asked
    /\ body = [r \in Req |-> Absent]
    /\ cur = [r \in Req |-> NoFile]
    /\ snap = [r \in Req |-> NoFiles]
    /\ parent = [r \in Req |-> 0]
    /\ fileFails = 0 /\ gitFails = 0 /\ pushFails = 0
    /\ restarts = 0 /\ foreign = 0
    /\ givenUp = FALSE /\ cut = {}
-----------------------------------------------------------------------------
\* Handler r was at step from and goes on to step to.
Goes(r, from, to) ==
    /\ pc[r] = from
    /\ pc' = [pc EXCEPT ![r] = to]

\* HEAD is ahead of the remote: a push moves the remote.
Pushable == head # remote /\ remote \in past[head]
-----------------------------------------------------------------------------
(* Seeded faults: steps with a plausible slip, which nothing below uses.   *)

\* The file is created and added, and its contents are never copied.
FaultNothingCopied(r) ==
    /\ Goes(r, "copy", "add")
    /\ UNCHANGED <<repoVars, commitVars, remoteVars, op, asked, body, todo, cur,
                   snap, parent, boundVars, cut>>

\* The request takes over the files of the one before.
FaultFilesNotReset(r, how, files, content) ==
    /\ Goes(r, "idle", "next")
    /\ files # {}
    /\ op' = [op EXCEPT ![r] = how]
    /\ todo' = [todo EXCEPT ![r] = files]
    /\ body' = [body EXCEPT ![r] = content]
    /\ UNCHANGED <<repoVars, commitVars, remoteVars, asked, cur, snap, parent,
                   boundVars, cut>>

\* The commit replaces its parent instead of following it.
FaultAmends(files, p) ==
    /\ last < MaxCommits
    /\ last' = last + 1
    /\ tree' = [tree EXCEPT ![last + 1] = files]
    /\ past' = [past EXCEPT ![last + 1] = (past[p] \ {p}) \cup {last + 1}]

\* The error of PushChanges is not looked at.
FaultPushErrorIgnored(r) ==
    /\ pushFails < MaxPushFails
    /\ pushFails' = pushFails + 1
    /\ Goes(r, "push", IF op[r] = "upload" THEN "ok" ELSE "next")
    /\ UNCHANGED <<repoVars, commitVars, remoteVars, op, asked, body, todo, cur,
                   snap, parent, fileFails, gitFails, restarts, foreign, cut>>

\* PushChanges is left out.
FaultNothingPushed(r) ==
    /\ Goes(r, "push", IF op[r] = "upload" THEN "ok" ELSE "next")
    /\ UNCHANGED <<repoVars, commitVars, remoteVars, op, asked, body, todo, cur,
                   snap, parent, boundVars, cut>>

\* The push is forced.
FaultForcePush(r) ==
    /\ Goes(r, "push", IF op[r] = "upload" THEN "ok" ELSE "next")
    /\ head # remote
    /\ remote' = head /\ pushed' = head
    /\ UNCHANGED <<givenUp, repoVars, commitVars, op, asked, body, todo, cur, snap,
                   parent, boundVars, cut>>
-----------------------------------------------------------------------------
(* The handlers, file by file.                                             *)

\* A commit is made with these files on top of commit p.
NewCommit(files, p) ==
    /\ last < MaxCommits
    /\ last' = last + 1
    /\ tree' = [tree EXCEPT ![last + 1] = files]
    /\ past' = [past EXCEPT ![last + 1] = past[p] \cup {last + 1}]

\* A request arrives: the multipart form or the query was parsed, and it
\* names a file at least.
Request(r, how, files, content) ==
    /\ Goes(r, "idle", "next")
    /\ files # {}
    /\ op' = [op EXCEPT ![r] = how]
    /\ asked' = [asked EXCEPT ![r] = files]
    /\ todo' = [todo EXCEPT ![r] = files]
    /\ body' = [body EXCEPT ![r] = content]
    /\ UNCHANGED <<repoVars, commitVars, remoteVars, cur, snap, parent,
                   boundVars, cut>>

\* The request was answered and the variables of the handler are gone.
Return(r) ==
    /\ pc[r] \in {"ok", "error"}
    /\ pc' = [pc EXCEPT ![r] = "idle"]
    /\ op' = [op EXCEPT ![r] = "upload"]
    /\ asked' = [asked EXCEPT ![r] = {}]
    /\ body' = [body EXCEPT ![r] = Absent]
    /\ todo' = [todo EXCEPT ![r] = {}]
    /\ cur' = [cur EXCEPT ![r] = NoFile]
    /\ snap' = [snap EXCEPT ![r] = NoFiles]
    /\ parent' = [parent EXCEPT ![r] = 0]
    /\ UNCHANGED <<repoVars, commitVars, remoteVars, boundVars, cut>>

\* The handler turns to the next file.
TakeFile(r, f) ==
    /\ f \in todo[r]
    /\ todo' = [todo EXCEPT ![r] = @ \ {f}]
    /\ cur' = [cur EXCEPT ![r] = f]

\* Upload: os.Create truncates the file.
Create(r, f) ==
    /\ op[r] = "upload"
    /\ Goes(r, "next", "copy")
    /\ TakeFile(r, f)
    /\ disk' = [disk EXCEPT ![f] = Empty]
    /\ UNCHANGED <<index, commitVars, remoteVars, op, asked, body, snap, parent,
                   boundVars, cut>>

\* Upload: io.Copy writes the contents.
Copy(r) ==
    /\ Goes(r, "copy", "add")
    /\ disk' = [disk EXCEPT ![cur[r]] = body[r]]
    /\ UNCHANGED <<index, commitVars, remoteVars, op, asked, body, todo, cur,
                   snap, parent, boundVars, cut>>

\* Upload: io.Copy fails and the file stays as it is.
CopyFails(r) ==
    /\ fileFails < MaxFileFails
    /\ fileFails' = fileFails + 1
    /\ Goes(r, "copy", "error")
    /\ cut' = cut \cup {cur[r]}
    /\ UNCHANGED <<repoVars, commitVars, remoteVars, op, asked, body, todo, cur,
                   snap, parent, gitFails, pushFails, restarts, foreign>>

\* Delete: the file is there and os.Remove takes it away.
Remove(r, f) ==
    /\ op[r] = "delete" /\ disk[f] # Absent
    /\ Goes(r, "next", "add")
    /\ TakeFile(r, f)
    /\ disk' = [disk EXCEPT ![f] = Absent]
    /\ UNCHANGED <<index, commitVars, remoteVars, op, asked, body, snap, parent,
                   boundVars, cut>>

\* Delete: there is no such file; the files before it stay deleted.
NotFound(r, f) ==
    /\ op[r] = "delete" /\ disk[f] = Absent
    /\ Goes(r, "next", "error")
    /\ TakeFile(r, f)
    /\ UNCHANGED <<repoVars, commitVars, remoteVars, op, asked, body, snap,
                   parent, boundVars, cut>>

\* A file cannot be opened, created or removed, and stays as it is.
OpenFails(r) ==
    /\ fileFails < MaxFileFails
    /\ fileFails' = fileFails + 1
    /\ todo[r] # {}
    /\ Goes(r, "next", "error")
    /\ UNCHANGED <<repoVars, commitVars, remoteVars, op, asked, body, todo, cur,
                   snap, parent, gitFails, pushFails, restarts, foreign, cut>>

\* AddFile: Worktree.Add reads the index.
AddReads(r) ==
    /\ Goes(r, "add", "index")
    /\ snap' = [snap EXCEPT ![r] = index]
    /\ UNCHANGED <<repoVars, commitVars, remoteVars, op, asked, body, todo, cur,
                   parent, boundVars, cut>>

\* It reads the file and writes the index; a file that is neither there nor
\* in the index is an error.  AddFile returns, and its variables are gone.
AddWrites(r) ==
    /\ Goes(r, "index", IF op[r] = "upload" THEN "next" ELSE "stage")
    /\ disk[cur[r]] # Absent \/ snap[r][cur[r]] # Absent
    /\ index' = [snap[r] EXCEPT ![cur[r]] = disk[cur[r]]]
    /\ snap' = [snap EXCEPT ![r] = NoFiles]
    /\ cur' = [cur EXCEPT ![r] = NoFile]
    /\ UNCHANGED <<disk, commitVars, remoteVars, op, asked, body, todo, parent,
                   boundVars, cut>>

AddUnknown(r) ==
    /\ Goes(r, "index", "error")
    /\ disk[cur[r]] = Absent /\ snap[r][cur[r]] = Absent
    /\ UNCHANGED <<repoVars, commitVars, remoteVars, op, asked, body, todo, cur,
                   snap, parent, boundVars, cut>>
-----------------------------------------------------------------------------
(* CommitChanges and PushChanges: once per upload, once per deleted file.  *)

\* The index with what changed on disk among the tracked files.
Staged == [f \in File |-> IF index[f] = Absent THEN Absent ELSE disk[f]]

\* The handler is about to commit: a deleted file, or all uploaded ones.
Commits(r) ==
    \/ pc[r] = "stage"
    \/ pc[r] = "next" /\ op[r] = "upload" /\ todo[r] = {}

\* Commit reads HEAD and stages.
Stage(r) ==
    /\ Commits(r)
    /\ pc' = [pc EXCEPT ![r] = "commit"]
    /\ parent' = [parent EXCEPT ![r] = head]
    /\ index' = Staged
    /\ UNCHANGED <<disk, commitVars, remoteVars, op, asked, body, todo, cur,
                   snap, boundVars, cut>>

\* Commit builds a tree from the index, sets HEAD and returns.
MakeCommit(r) ==
    /\ Goes(r, "commit", "push")
    /\ index # tree[parent[r]]
    /\ NewCommit(index, parent[r])
    /\ head' = last + 1 /\ givenUp' = FALSE
    /\ parent' = [parent EXCEPT ![r] = 0]
    /\ UNCHANGED <<repoVars, remote, pushed, op, asked, body, todo, cur, snap,
                   boundVars, cut>>

\* The tree is the one of the parent: ErrEmptyCommit.
EmptyCommit(r) ==
    /\ Goes(r, "commit", "error")
    /\ index = tree[parent[r]]
    /\ UNCHANGED <<repoVars, commitVars, remoteVars, op, asked, body, todo, cur,
                   snap, parent, boundVars, cut>>

\* An operation on the repository fails, and so does the handler.
GitFails(r) ==
    /\ gitFails < MaxGitFails
    /\ gitFails' = gitFails + 1
    /\ pc[r] \in {"add", "index", "commit"} \/ Commits(r)
    /\ pc' = [pc EXCEPT ![r] = "error"]
    /\ UNCHANGED <<repoVars, commitVars, remoteVars, op, asked, body, todo, cur,
                   snap, parent, fileFails, pushFails, restarts, foreign, cut>>

\* The push moves the remote to HEAD.
Push(r) ==
    /\ Goes(r, "push", IF op[r] = "upload" THEN "ok" ELSE "next")
    /\ Pushable
    /\ remote' = head /\ pushed' = head /\ givenUp' = FALSE
    /\ UNCHANGED <<repoVars, commitVars, op, asked, body, todo, cur, snap,
                   parent, boundVars, cut>>

\* There is nothing to push, or the remote refuses.
PushRefused(r) ==
    /\ ~Pushable
    /\ Goes(r, "push", "error")
    /\ UNCHANGED <<repoVars, commitVars, remoteVars, op, asked, body, todo, cur,
                   snap, parent, boundVars, cut>>

\* There is no ssh agent, or the remote is not reached.
PushFails(r) ==
    /\ pushFails < MaxPushFails
    /\ pushFails' = pushFails + 1
    /\ Goes(r, "push", "error")
    /\ givenUp' = Pushable
    /\ UNCHANGED <<repoVars, commitVars, remote, pushed, op, asked, body, todo,
                   cur, snap, parent, fileFails, gitFails, restarts, foreign, cut>>

\* The remote moves and its answer is lost.
PushAnswerLost(r) ==
    /\ pushFails < MaxPushFails
    /\ pushFails' = pushFails + 1
    /\ Goes(r, "push", "error")
    /\ Pushable
    /\ remote' = head /\ pushed' = head /\ givenUp' = FALSE
    /\ UNCHANGED <<repoVars, commitVars, op, asked, body, todo, cur, snap,
                   parent, fileFails, gitFails, restarts, foreign, cut>>

\* Every file of the request was deleted, committed and pushed.
DeleteEnds(r) ==
    /\ op[r] = "delete" /\ todo[r] = {}
    /\ Goes(r, "next", "ok")
    /\ UNCHANGED <<repoVars, commitVars, remoteVars, op, asked, body, todo, cur,
                   snap, parent, boundVars, cut>>
-----------------------------------------------------------------------------
(* Central and the world.                                                  *)

\* Central stops in the middle of its handlers and starts again.
Restart ==
    /\ restarts < MaxRestarts
    /\ restarts' = restarts + 1
    /\ pc' = [r \in Req |-> "idle"]
    /\ op' = [r \in Req |-> "upload"]
    /\ asked' = [r \in Req |-> {}] /\ todo' = asked'
    /\ body' = [r \in Req |-> Absent]
    /\ cur' = [r \in Req |-> NoFile]
    /\ snap' = [r \in Req |-> NoFiles]
    /\ parent' = [r \in Req |-> 0]
    /\ cut' = cut \cup {cur[r] : r \in {q \in Req : pc[q] = "copy"}}
    /\ givenUp' = (givenUp \/ (Pushable /\ \E r \in Req : pc[r] = "push"))
    /\ UNCHANGED <<repoVars, commitVars, remote, pushed, fileFails, gitFails,
                   pushFails, foreign>>

\* Somebody else pushes a commit that sets a file.
ForeignPush(f, content) ==
    /\ foreign < MaxForeign
    /\ foreign' = foreign + 1
    /\ NewCommit([tree[remote] EXCEPT ![f] = content], remote)
    /\ remote' = last + 1 /\ givenUp' = FALSE
    /\ UNCHANGED <<repoVars, head, pushed, handlerVars, fileFails, gitFails,
                   pushFails, restarts, cut>>

HandlerStep(r) ==
    \/ Return(r)
    \/ \E f \in File : Create(r, f) \/ Remove(r, f) \/ NotFound(r, f)
    \/ Copy(r) \/ CopyFails(r) \/ OpenFails(r)
    \/ AddReads(r) \/ AddWrites(r) \/ AddUnknown(r)
    \/ Stage(r) \/ MakeCommit(r) \/ EmptyCommit(r) \/ GitFails(r)
    \/ Push(r) \/ PushRefused(r) \/ PushFails(r) \/ PushAnswerLost(r)
    \/ DeleteEnds(r)

Upload(r) ==
    \E files \in SUBSET FilesOf[r], content \in Content :
        Request(r, "upload", files, content)

Delete(r) ==
    \E files \in SUBSET FilesOf[r] : Request(r, "delete", files, Absent)

Next ==
    \/ \E r \in Req : Upload(r) \/ Delete(r) \/ HandlerStep(r)
    \/ Restart
    \/ \E f \in File, content \in Content : ForeignPush(f, content)

Spec == Init /\ [][Next]_vars

\* net/http runs every handler to its end, and users keep uploading.
Fairness ==
    \A r \in Req : WF_vars(HandlerStep(r)) /\ WF_vars(Upload(r))

FairSpec == Spec /\ Fairness
-----------------------------------------------------------------------------
(* Properties.                                                             *)

\* "File uploaded successfully" and "File deleted successfully": the files are
\* committed as the request asked for, and the commit is at the remote.
AnsweredIsPublished ==
    \A r \in Req : pc[r] = "ok" =>
        /\ head \in past[remote]
        /\ \A f \in asked[r] : tree[head][f] = body[r]

\* What central pushed is in the history of its HEAD and of the remote: no
\* later request drops it, whatever fails and whoever else pushes.
PushedIsNotLost == pushed \in past[head] /\ pushed \in past[remote]

\* Handlers that overlap push each other's commits, and others push in between.
\* Still, a HEAD that the remote would take is on its way there: some handler is
\* about to push it, unless a push of it failed, or central stopped in the middle
\* of one.  None is left behind that nobody pushes.
UnpublishedIsPending ==
    Pushable /\ ~givenUp => \E r \in Req : pc[r] = "push"

\* A commit has a truncated file only if a write of it failed or central
\* restarted in the middle of one.
CommittedIsComplete ==
    \A c \in 0 .. last : \A f \in File : tree[c][f] = Empty => f \in cut

\* The handlers keep the promise of DeploymentHistory: HEAD only moves to a
\* commit on top of it, and the remote only forward.
History == INSTANCE DeploymentHistory
KeepsHistory == History!Spec

\* Central's HEAD keeps reaching the remote.
EventuallyPublished == []<>(head \in past[remote])

\* And it does, however handlers overlap, unless the remote has what HEAD does not
\* follow, or a push of this HEAD was given up: a failed push is not retried.
HeadIsPushed ==
    []<>(Pushable => givenUp)
=============================================================================
