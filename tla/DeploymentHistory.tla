------------------------- MODULE DeploymentHistory -------------------------
(***************************************************************************)
(* What central promises about the deployment files, without the handlers, *)
(* the working tree and the index: commits are made one on top of the      *)
(* other and never change, and the remote only moves forward.  This is     *)
(* what the agents rely on, who know commits by their hash alone.          *)
(***************************************************************************)
EXTENDS Integers

CONSTANTS
    File,           \* names of deployment files
    Content,        \* complete contents of a file
    Empty,          \* what os.Create leaves of a file
    Absent,         \* no such file
    MaxCommits      \* bound: commits

ASSUME HistoryAssumption ==
    /\ Empty \notin Content /\ Absent \notin Content /\ Absent # Empty
    /\ MaxCommits \in Nat

VARIABLES
    last,       \* the last commit made anywhere
    tree,       \* the files of each commit
    past,       \* the history of each commit, itself included
    head,       \* HEAD of central's repository
    remote      \* the branch at the remote

historyVars == <<last, tree, past, head, remote>>
-----------------------------------------------------------------------------
Tree == [File -> Content \cup {Empty, Absent}]
Commit == 0 .. MaxCommits

Init ==
    /\ last = 0 /\ head = 0 /\ remote = 0
    /\ tree = [c \in Commit |-> [f \in File |-> Absent]]
    /\ past = [c \in Commit |-> {c}]

\* A commit is made with these files on top of commit p.
Follows(files, p) ==
    /\ last < MaxCommits
    /\ last' = last + 1
    /\ tree' = [tree EXCEPT ![last + 1] = files]
    /\ past' = [past EXCEPT ![last + 1] = past[p] \cup {last + 1}]

\* CommitChanges: HEAD moves to a commit on top of it with other files.
CommitChanges(files) ==
    /\ files # tree[head]
    /\ Follows(files, head)
    /\ head' = last + 1
    /\ UNCHANGED remote

\* PushChanges: the remote moves forward to HEAD.
PushChanges ==
    /\ remote \in past[head] /\ remote # head
    /\ remote' = head
    /\ UNCHANGED <<last, tree, past, head>>

\* Somebody else pushes.
PushedElsewhere(files) ==
    /\ Follows(files, remote)
    /\ remote' = last + 1
    /\ UNCHANGED head

HistoryStep ==
    \/ \E files \in Tree : CommitChanges(files) \/ PushedElsewhere(files)
    \/ PushChanges

Spec == Init /\ [][HistoryStep]_historyVars
=============================================================================
