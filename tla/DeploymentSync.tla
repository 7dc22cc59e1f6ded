--------------------------- MODULE DeploymentSync ---------------------------
(***************************************************************************)
(* Central's deployment files at the agents: each agent has a clone of the *)
(* repository that a CI pipeline brings up to date, the agent page of      *)
(* central compares its hash with HEAD and lists the files of HEAD, and    *)
(* its buttons make the agent apply files of its clone to its cluster, or  *)
(* remove what was applied.                                                *)
(*                                                                         *)
(* The repository of central is the one DeploymentHistory promises.  File  *)
(* stands for the files ShouldIgnoreFile lets through; each declares a     *)
(* deployment of its own, so that a file also names what it deploys.       *)
(***************************************************************************)
EXTENDS DeploymentHistory

CONSTANTS
    Agent,      \* the agents
    Page,       \* requests for the agent page and its buttons, one at a time each
    Named,      \* contents that are a deployment with a name
    Nameless,   \* contents that are YAML without a name in their metadata
    NoAgent,    \* the page is not about an agent
    NotApplied  \* nothing was applied

ASSUME SyncAssumption ==
    /\ Named \subseteq Content /\ Nameless \subseteq Content
    /\ Named \cap Nameless = {}
    /\ NoAgent \notin Agent
    /\ NotApplied \notin Content

VARIABLES
    clone,      \* HEAD of the agents' clones
    up,         \* is the agent's process running
    cluster,    \* what each agent's cluster runs for each file
    at,         \* the step of each page
    about,      \* the agent it is about
    agentHash,  \* the hash that agent answered
    sync,       \* does the page say "Sync"
    listed,     \* the files it lists
    doing,      \* the button that was pressed: "apply" or "remove"
    todo,       \* the files the agent has still to look at
    headThen    \* history: HEAD when the agent answered its hash

agentVars == <<clone, up, cluster>>
pageVars == <<at, about, agentHash, sync, listed, doing, todo,
                   headThen>>
vars == <<historyVars, agentVars, pageVars>>
-----------------------------------------------------------------------------
Steps == {"idle", "hash", "head", "files", "shown", "sent", "success", "failure"}

TypeOK ==
    /\ last \in Commit
    /\ tree \in [Commit -> Tree]
    /\ past \in [Commit -> SUBSET Commit]
    /\ head \in 0 .. last /\ remote \in 0 .. last
    /\ clone \in [Agent -> Commit]
    /\ up \in [Agent -> BOOLEAN]
    /\ cluster \in [Agent -> [File -> Named \cup {NotApplied}]]
    /\ at \in [Page -> Steps]
    /\ about \in [Page -> Agent \cup {NoAgent}]
    /\ agentHash \in [Page -> Commit]
    /\ sync \in [Page -> BOOLEAN]
    /\ listed \in [Page -> SUBSET File]
    /\ doing \in [Page -> {"apply", "remove"}]
    /\ todo \in [Page -> SUBSET File]
    /\ headThen \in [Page -> Commit]
    /\ \A a \in Agent : clone[a] <= last
    /\ \A p \in Page : at[p] # "idle" => about[p] \in Agent

SyncInit ==
    /\ Init
    /\ clone = [a \in Agent |-> 0]
    /\ up = [a \in Agent |-> TRUE]
    /\ cluster = [a \in Agent |-> [f \in File |-> NotApplied]]
    /\ at = [p \in Page |-> "idle"]
    /\ about = [p \in Page |-> NoAgent]
    /\ agentHash = [p \in Page |-> 0] /\ headThen = [p \in Page |-> 0]
    /\ sync = [p \in Page |-> FALSE]
    /\ listed = [p \in Page |-> {}]
    /\ doing = [p \in Page |-> "apply"]
    /\ todo = [p \in Page |-> {}]
-----------------------------------------------------------------------------
\* Page p was at step from and goes on to step to.
Goes(p, from, to) ==
    /\ at[p] = from
    /\ at' = [at EXCEPT ![p] = to]

\* What the agent of page p has of a file.
Blob(p, f) == tree[clone[about[p]]][f]

\* The agent is at file f for page p: the page waits for the answer, or the call
\* has failed and the agent has not noticed.
Working(p, f) ==
    /\ at[p] \in {"sent", "success", "failure"}
    /\ up[about[p]]
    /\ f \in todo[p]
-----------------------------------------------------------------------------
(* Seeded faults: steps with a plausible slip, which nothing below uses.   *)

\* The page compares the agent's hash with what the remote has.
FaultComparesRemote(p) ==
    /\ Goes(p, "head", "files")
    /\ sync' = [sync EXCEPT ![p] = (agentHash[p] = remote)]
    /\ UNCHANGED <<historyVars, agentVars, about, agentHash, listed, doing,
                   todo, headThen>>

\* The agent applies what is in the repository of central.
FaultAppliesHead(p, f) ==
    /\ Working(p, f) /\ doing[p] = "apply"
    /\ tree[head][f] \in Named
    /\ cluster' = [cluster EXCEPT ![about[p]][f] = tree[head][f]]
    /\ todo' = [todo EXCEPT ![p] = @ \ {f}]
    /\ UNCHANGED <<historyVars, clone, up, at, about, agentHash, sync, listed,
                   doing, headThen>>

\* The agent applies a file without looking at its name.
FaultNameNotChecked(p, f) ==
    /\ Working(p, f) /\ doing[p] = "apply"
    /\ Blob(p, f) \in Content
    /\ cluster' = [cluster EXCEPT ![about[p]][f] = Blob(p, f)]
    /\ todo' = [todo EXCEPT ![p] = @ \ {f}]
    /\ UNCHANGED <<historyVars, clone, up, at, about, agentHash, sync, listed,
                   doing, headThen>>

\* The agent answers with the hash of the remote.
FaultHashOfRemote(p) ==
    /\ Goes(p, "hash", "head")
    /\ up[about[p]]
    /\ agentHash' = [agentHash EXCEPT ![p] = remote]
    /\ headThen' = [headThen EXCEPT ![p] = head]
    /\ UNCHANGED <<historyVars, agentVars, about, sync, listed, doing, todo>>

\* The agent goes on with a file it could not read.
FaultReadErrorIgnored(p, f) ==
    /\ Working(p, f) /\ doing[p] = "apply"
    /\ Blob(p, f) \notin Named
    /\ up' = [up EXCEPT ![about[p]] = FALSE]
    /\ todo' = [todo EXCEPT ![p] = {}]
    /\ UNCHANGED <<historyVars, clone, cluster, at, about, agentHash, sync,
                   listed, doing, headThen>>
-----------------------------------------------------------------------------
(* The world.                                                              *)

\* The CI pipeline updates the agent's clone.
Pull(a) ==
    /\ clone[a] # remote
    /\ clone' = [clone EXCEPT ![a] = remote]
    /\ UNCHANGED <<historyVars, up, cluster, pageVars>>

\* Somebody starts the agent again.
StartAgent(a) ==
    /\ ~up[a]
    /\ up' = [up EXCEPT ![a] = TRUE]
    /\ UNCHANGED <<historyVars, clone, cluster, pageVars>>
-----------------------------------------------------------------------------
(* The agent page: /agent/{agent_id}.                                      *)

\* A request for the page, or for one of its buttons, begins anew.
Forgets(p) ==
    /\ about' = [about EXCEPT ![p] = NoAgent]
    /\ agentHash' = [agentHash EXCEPT ![p] = 0]
    /\ headThen' = [headThen EXCEPT ![p] = 0]
    /\ sync' = [sync EXCEPT ![p] = FALSE]
    /\ listed' = [listed EXCEPT ![p] = {}]
    /\ doing' = [doing EXCEPT ![p] = "apply"]
    /\ todo' = [todo EXCEPT ![p] = {}]

\* The page is requested; the agent's status and deployments are fetched.
Open(p, a) ==
    /\ Goes(p, "idle", "hash")
    /\ about' = [about EXCEPT ![p] = a]
    /\ UNCHANGED <<historyVars, agentVars, agentHash, sync, listed, doing, todo,
                   headThen>>

\* GetDeploymentsHash at the agent.
ReadAgentHash(p) ==
    /\ Goes(p, "hash", "head")
    /\ up[about[p]]
    /\ agentHash' = [agentHash EXCEPT ![p] = clone[about[p]]]
    /\ headThen' = [headThen EXCEPT ![p] = head]
    /\ UNCHANGED <<historyVars, agentVars, about, sync, listed, doing, todo>>

\* DeploymentsHash at central, and the comparison.
Compare(p) ==
    /\ Goes(p, "head", "files")
    /\ sync' = [sync EXCEPT ![p] = (agentHash[p] = head)]
    /\ UNCHANGED <<historyVars, agentVars, about, agentHash, listed, doing,
                   todo, headThen>>

\* The list of files is a request of its own, which looks at HEAD again.
ListFiles(p) ==
    /\ Goes(p, "files", "shown")
    /\ listed' = [listed EXCEPT ![p] = {f \in File : tree[head][f] # Absent}]
    /\ UNCHANGED <<historyVars, agentVars, about, agentHash, sync, doing, todo,
                   headThen>>

\* A fetch fails and the page shows an error, or the user leaves.
Leave(p) ==
    /\ at[p] \in {"hash", "head", "files", "shown", "success", "failure"}
    /\ at' = [at EXCEPT ![p] = "idle"]
    /\ Forgets(p)
    /\ UNCHANGED <<historyVars, agentVars>>

\* The user presses Apply for listed files, or Delete for what is deployed.
Press(p, button, files) ==
    /\ Goes(p, "shown", "sent")
    /\ files # {}
    /\ button = "apply" => files \subseteq listed[p]
    /\ doing' = [doing EXCEPT ![p] = button]
    /\ todo' = [todo EXCEPT ![p] = files]
    /\ UNCHANGED <<historyVars, agentVars, about, agentHash, sync, listed,
                   headThen>>

\* What the page makes of a status code that is not OK: the handler of the Delete
\* button does not look at it.
Failure(p) == IF doing[p] = "remove" THEN "success" ELSE "failure"

\* The call to the agent fails, which the page learns by a status code: its
\* process is not running, central closed the client, or the connection broke.
\* Or the request of the page to central's own API fails, which both buttons
\* show.  An agent that has begun goes on until it notices, which it has when the
\* page is left.
CallFails(p) ==
    /\ \E end \in {Failure(p), "failure"} : Goes(p, "sent", end)
    /\ \/ todo' = [todo EXCEPT ![p] = {}]
       \/ up[about[p]] /\ UNCHANGED todo
    /\ UNCHANGED <<historyVars, agentVars, about, agentHash, sync, listed,
                   doing, headThen>>

\* The agent has looked at every file and answers, always with success.
CallSucceeds(p) ==
    /\ Goes(p, "sent", "success")
    /\ up[about[p]] /\ todo[p] = {}
    /\ UNCHANGED <<historyVars, agentVars, about, agentHash, sync, listed,
                   doing, todo, headThen>>
-----------------------------------------------------------------------------
(* The agent: ApplyDeployments and RemoveDeployments, file by file.        *)

AtWork(p, button, f) ==
    /\ Working(p, f) /\ doing[p] = button
    /\ todo' = [todo EXCEPT ![p] = @ \ {f}]
    /\ UNCHANGED <<historyVars, clone, up, at, about, agentHash, sync, listed,
                   doing, headThen>>

\* The file is a deployment, and the cluster takes it.
ApplyFile(p, f) ==
    /\ AtWork(p, "apply", f)
    /\ Blob(p, f) \in Named
    /\ cluster' = [cluster EXCEPT ![about[p]][f] = Blob(p, f)]

\* There is no such file, it is not YAML, or the cluster refuses it: this is
\* logged, and the agent goes on with the next one.
SkipFile(p, f) ==
    /\ AtWork(p, "apply", f)
    /\ Blob(p, f) # Empty /\ Blob(p, f) \notin Nameless
    /\ UNCHANGED cluster

\* The file has no name: *dep.Name dereferences nil, nothing recovers from
\* that, and the process of the agent ends with every call it serves.
CrashOn(p, f) ==
    LET a == about[p]
        served == {q \in Page : about[q] = a}
    IN  /\ Working(p, f) /\ doing[p] = "apply"
        /\ Blob(p, f) = Empty \/ Blob(p, f) \in Nameless
        /\ up' = [up EXCEPT ![a] = FALSE]
        /\ at' = [q \in Page |-> IF q \in served /\ at[q] = "sent"
                                  THEN Failure(q) ELSE at[q]]
        /\ todo' = [q \in Page |-> IF q \in served THEN {} ELSE todo[q]]
        /\ UNCHANGED <<historyVars, clone, cluster, about, agentHash, sync,
                       listed, doing, headThen>>

RemoveFile(p, f) ==
    /\ AtWork(p, "remove", f)
    /\ cluster' = [cluster EXCEPT ![about[p]][f] = NotApplied]

\* The cluster does not delete it: this is logged.
KeepFile(p, f) ==
    /\ AtWork(p, "remove", f)
    /\ UNCHANGED cluster

PageStep(p) ==
    \/ \E a \in Agent : Open(p, a)
    \/ ReadAgentHash(p) \/ Compare(p) \/ ListFiles(p) \/ Leave(p)
    \/ \E button \in {"apply", "remove"}, files \in SUBSET File :
         Press(p, button, files)
    \/ CallFails(p) \/ CallSucceeds(p)
    \/ \E f \in File : \/ ApplyFile(p, f) \/ SkipFile(p, f) \/ CrashOn(p, f)
                       \/ RemoveFile(p, f) \/ KeepFile(p, f)

SyncNext ==
    \/ HistoryStep /\ UNCHANGED <<agentVars, pageVars>>
    \/ \E a \in Agent : Pull(a) \/ StartAgent(a)
    \/ \E p \in Page : PageStep(p)

SyncSpec == SyncInit /\ [][SyncNext]_vars
-----------------------------------------------------------------------------
(* Properties.                                                             *)

\* A page that says "Sync" is right: HEAD was at the agent's commit when the
\* agent was asked, although central looks at HEAD only later.
SyncWasTrue == \A p \in Page : sync[p] => headThen[p] = agentHash[p]

\* What runs in a cluster is the contents the file has or had at the remote.
AppliedWasPublished ==
    \A a \in Agent, f \in File : cluster[a][f] # NotApplied =>
        \E c \in past[remote] : tree[c][f] = cluster[a][f]

\* What the agent applies for a page is no older than the commit it answered
\* for that page, which for a page that says "Sync" was HEAD: the clone may move
\* between the comparison and the button, but only forward.
AppliedIsNotOlder ==
    \A p \in Page : todo[p] # {} => agentHash[p] \in past[clone[about[p]]]

\* The process of an agent only ends when an empty file, or one without a name,
\* was published: files that are missing, are no YAML or are refused do not end
\* it, nor do those that never left central.
OnlyNamelessEnds ==
    \A a \in Agent : ~up[a] =>
        \E c \in past[remote], f \in File : tree[c][f] \in Nameless \cup {Empty}
=============================================================================
