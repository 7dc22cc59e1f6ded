# go-k8s-cord: specifications

TLA+ modules, TLC configurations and TLAPS proofs for go-k8s-cord, a central
control server and the agents it coordinates, one per Kubernetes cluster.
Central knows the agents by the heartbeats they send, keeps the deployment files
in a git repository it pushes, and has the agents apply files of their clones of
that repository. Paths below are relative to the repository's root.

## 1. The system

| Part | State | Operations | Where it is modelled |
|---|---|---|---|
| Agent registry of central (`agent_register.go`, `agent_heartbeat.go`, `model/agent.go`) | the map `agents`: name, endpoint and gRPC client per UUID; no lock | `RegisterAgent`, `SendHeartbeat` | `CentralRegistry`; what it promises: `AgentDirectory` |
| Registration and heartbeat sender of the agent (`register.go`, `heartbeat.go`, `cmd/agent/serve.go`) | UUID, ticker, the running call | `Register`, `Heartbeat` | `CentralRegistry`, timing in `HeartbeatStatus` |
| Agent status (`status_api.go`, `agentStatus`) | timestamps in etcd, the clock | `agentStatus`, `GetStatus` | `HeartbeatStatus` |
| Lists of agents and pods (`status_api.go`, `status_page.go`, `listAgents`, the page `/agent`) | the list one request collects | `GetStatus`, `ListPods`, `listAgents` and its cards | `AgentLists` |
| Deployment repository of central (`deployments_api.go`, `deployments_page.go`, `deployment/git.go`) | working tree, git index, HEAD, remote; no lock | `UploadDeploymentFile`, `DeleteDeploymentFile` | `DeploymentRepo`; what it promises: `DeploymentHistory` |
| Agent page and calls to agents (`agent_page.go`, `agent_api.go`) | what one page fetched, step after step | show, compare hashes, list files, Apply, Delete | `DeploymentSync` |
| Deployments at the agent (`agent/server/deployments.go`, `agent/cluster/deployments.go`, `agent/deployment/git.go`) | the clone, the cluster, the process | `GetDeploymentsHash`, `ApplyDeployments`, `RemoveDeployments` | `DeploymentSync` |
| Server lifecycle (`central.go`, `agent.go`, `cmd/*/serve.go`) | two servers, an errgroup, the closing goroutine | `Start`, signals, shutdown | `ServerLifecycle` |
| Configuration files (`agent_config.go`, `central_config.go`) | the file, viper's values, the loaded config | set up, watch, reload, write back, the registration's UUID | `ConfigFile` |
| Root page and templates, health checks, client set, TLS material, command line | none of their own | read and pass on | not modelled |

How they interact: an agent registers once and gets a UUID, then sends a
heartbeat on every tick of its ticker. The heartbeat writes etcd, then the
registry, and dials the agent when its endpoint is new. The status handlers read
etcd. The pages of central are HTTP handlers that call central's own HTTP API,
which calls the agents through the clients of the registry. Uploads and
deletions change central's repository and push it; a CI pipeline brings the
agents' clones up to date; the agent page compares the two hashes. Every HTTP
request and every gRPC call runs on a goroutine of its own, and no state is
locked.

What is hard here: handlers of one agent, or of two uploads, that interleave
(the map, the entries, the git index, HEAD); steps of one handler of which a
later one fails (dial after close, push after commit, copy after create); a
retry of what was half done; restarts of central, which forget the registry and
leave the working tree as it was; a config file that is read while it is written;
lists made from a map that changes meanwhile; truncated timestamps compared at
another time than they were taken, and overwritten by older ones; pages that
read one thing after another; a context variable that is assigned while a
goroutine reads it. `PROJECT.json` lists each
of these hazards at its line.

What makes each part correct:

- registry: a closed client is not left in an entry, no client is lost unclosed,
  the recorded endpoint is the dialled one, a successful heartbeat leaves the
  agent callable, and restarts and edits are recovered from;
- status: an agent that heartbeats is not shown offline, one that stopped is
  shown offline in time;
- lists: a line was true at some time during the request, no agent is left out
  but for a stated reason, only an agent without a client fails the list of pods;
- config: an agent registers once, a watched server works with what is in the
  file, and comes to do so after every edit;
- repository: success means committed and pushed, what was pushed is not lost,
  a commit is complete, HEAD reaches the remote, commits follow one another;
- agent page and agents: "Sync" is right, only published contents run, none
  older than what the page compared, and only a file without a name ends an agent;
- lifecycle: a clean exit drops nothing, the map of agents is not iterated while
  it is written, a signal and a failing server end the program.

## 2. The modules

A module has its state as VARIABLES, one action per step, its properties, and
*seeded faults*: variants of an action with a plausible slip, which no
definition uses. `PROJECT.json` names for each property the fault that breaks
it, which shows that the property depends on the code. The `MC*` modules give
what a configuration cannot say (symmetry, functions over the constants); where
there is nothing of the kind, a configuration is of the module itself.

**CentralRegistry.** A handler is a process that takes one step per access to
shared state: `HeartbeatArrives`, `PutOk`/`PutFails` (etcd), `Lookup`,
`Insert`/`Update`, `Close`, `Redial`/`DialFails`, `Store`, `Reply`, and
`RegisterArrives`, `RegisterInsert`, `RegisterReply`. A UUID stands for the agent
it was issued to. `EditConfig` is an edit of an agent's config file, `GiveUp` a
heartbeat the agent abandons while central serves it, `Restart` a restart of
central and also the end of the process Go enforces when it detects a concurrent
map write. The writes of single fields are atomic. A fresh client is any
element of `Conn` that is not in use. History variables, both forgotten at a
restart: `overlapped` (agents of which a heartbeat came while another was served,
which happens when an agent abandons one) and `stranded` (agents whose client was
closed for one that could not be dialled, until one is).

**AgentDirectory** is what the registry promises its readers: which agents are
listed (`Enlist`, `Return`), under which name (`Rename`), and where a call to
each goes (`Leave`, `Arrive`), all of it forgotten by `Reset`. `CentralRegistry`
implements it (`ImplementsDirectory`) as long as heartbeats of one agent do not
overlap, whatever heartbeats of different agents do. The mapping `Reach` reads
off an entry what a call does: there is no client (`Undialled`), a closed one
(`Nowhere`), or one for the recorded endpoint.

**HeartbeatStatus.** Time in half seconds, so that the truncation of `Unix()`
shows. `TickerFires` drops a tick while one is waiting, as `time.Ticker` does;
`SendHeartbeat`, `TakeTime`, `Put`, `Enlist`, `Answer` and `CallFails` are the
call; a call that lasts longer than the interval makes ticks wait and drop. An
agent may give up on a heartbeat (`CallFails`, `StopAgent`), and the handler at
central is then over as well or goes on as one of `Late` (`Abandons`,
`LateEnds`), and may write its timestamp over a newer one. `AskOne`/`JudgeOne`
are `agentStatus`, `AskAll`, `VisitNext`, `SkipNext`, `JudgeNext` and `SendList`
are `GetStatus`. Deadlines are upper bounds in the guard of `Tick`: a heartbeat
and its handler are over `MaxDelay` after it was sent, given up on or not. The
code sets no such deadline; `MaxDelay` is what a deployment has to keep for the
verdicts to be right. Each agent is judged on its own; the list `GetStatus` makes
of the verdicts, a map from names, is in `AgentLists`. When `agentStatus` finds
no entry it dereferences nil; net/http recovers, so this ends the request and
changes nothing.

**AgentLists** composes `AgentDirectory` with the requests that range over the
whole map: `VisitForStatus`, `Get`/`GetSkips`, `TakeName`, `Judge` and `Enter` are
`GetStatus`, which reads etcd, then the name, then the clock, then writes the line;
`VisitForPods`, `VisitPanics` and `CallEnds` are `ListPods`, `VisitForCards`,
`NextCard` and `FillCard` are `listAgents` and the page `/agent`, which fetches
the status of each card by a request of its own. `Comes` is Go's `range`: an
agent that is inserted during the loop is visited or not. `DirectoryStep`,
`Beats` and `Ages` go on meanwhile; `Ages` also makes old what was read and not
yet compared. `GivesUp` is whoever asked going away, which cancels the calls of
the handler. `Restart` ends the request. Requests only read, so one at a time
stands for any number. As the directory is what the
registry promises without overlap, so are these properties. `bore`, `was`
and `dialled` remember what was true since the request came. When a heartbeat is
recent is `HeartbeatStatus`'s matter; here it is any moment.

**DeploymentRepo.** The two handlers, file by file. `Create` truncates,
`Copy` writes; `AddReads` and `AddWrites` are go-git's `Worktree.Add`, which
reads the whole index and writes it back; `Stage` and `MakeCommit` are
`Worktree.Commit` with `All`, which takes its parent from HEAD first and sets
HEAD last; `Push` moves the remote when that is a fast-forward. Each fails on
its own (`CopyFails`, `OpenFails`, `NotFound`, `AddUnknown`, `EmptyCommit`,
`GitFails`, `PushRefused`, `PushFails`, `PushAnswerLost`). `Restart` stops
central anywhere, `ForeignPush` is somebody else's push. `givenUp` remembers that
a push of this HEAD failed or was cut short. The pages `/deployments/upload`
and `/deployments/delete` send one request each to these handlers and add no
step. Left out: empty names in a deletion and two files of
one name in an upload; the staging inside `Commit` is one step.

**DeploymentHistory** is what the repository promises without any of that:
commits follow HEAD, the remote only moves forward, others may push. It is the
abstract specification `DeploymentRepo` implements (`KeepsHistory`), and the
repository that `DeploymentSync` builds on.

**DeploymentSync** extends `DeploymentHistory` with the agents and the pages.
A page goes through `Open`, `ReadAgentHash`, `Compare`, `ListFiles`, `Press`
and `CallFails`/`CallSucceeds`; the agent works file by file through
`ApplyFile`, `SkipFile`, `CrashOn`, `RemoveFile`, `KeepFile`. `Pull` is the CI
pipeline, one atomic step (external). A file stands for what it deploys:
its deployment's name is not modelled, so two files of one deployment are
left out. Between reading a file and the answer of the cluster the agent takes
no other step. When a call fails at central, an agent that has begun may go on
until the page is left, by when it has noticed. Apply shows the call's failure;
Delete shows one only when its own request to central fails.

**ServerLifecycle** is `Start` of central and of the agents, which have the
same shape; an agent may begin at "register". `ReadsContext` sees the context
Start was given or, once it is assigned, either of the two: a data race. The
closing goroutine calls `Shutdown` with its five seconds, then `GracefulStop`,
then closes the clients. net/http, grpc and errgroup are external and stated at
the head of the module.

**ConfigFile** is the file of either program with the processes that use it, the
server and the commands. `Watch`, `Read`, `Assign`, `Load` and `Store` are the
setup, which a command runs twice; `Truncate`, `Marshal` and `Write` are
`WriteBackAndReload`, because viper opens the file before it gathers the
settings. viper's watcher reads the file (`Reload`), assigns what it read
(`Reassign`), builds the new config (`Rebuild`, of a server only) and stores it
(`Restore`), each between any two steps of the others; `WatchEnds` is its end.
`Ensure` looks for the file, `Create` creates it, and empties what somebody else
created meanwhile; `Decide` asks whether the agent is registered, `Register` gets
a UUID from central. `Edit` and `Remove` are the operator, `Crash` kills a
process. An edit saves any UUID central issued or none, because an editor may
have had the file open since before the registration. One setting stands for all,
so that a config built field by field while viper's values change is built in
one step: each property is about one field. History variables: `mishaps` (how
often a registration or a write was cut short, or undone: the actions say so with
`CutShort`), `early` (the setup assigned or stored what it had read after the
watcher assigned or stored something newer), `wanted` (what the operator set).
`MCConfigFile` gives the number of starts by program.

## 3. The runs

Passing runs finish within five minutes with two workers. Deadlock is not
checked: UUIDs, clients, commits, the clock and the counters are bounded, and
`Start` ends.

| Run | Shows |
|---|---|
| `registry_serial` | two agents, two names, three addresses one of which cannot be dialled, failed writes, a restart, heartbeats of one agent never overlapping: no client leaks, accepted means callable, the recorded endpoint is the dialled one, a client implies a heartbeat in etcd, and the handlers implement `AgentDirectory` |
| `registry_callable` | one agent, two handlers, three clients, an address that cannot be dialled, an edit, an abandoned heartbeat, two restarts, fairness: in the end the agent stays callable, and even handlers that overlap leave a closed client only where one of them is about to replace it or could not dial |
| `status_timing` | one agent and one handler it gave up on, interval 1 s, alive interval 5 s, calls of up to 1.5 s, verdicts of half a second, 9 s, a failure, a restart: both directions of the verdict |
| `repo_serial` | one request at a time, two files, two contents, three commits, one failed file operation, one failed push, one restart, one foreign push: success means pushed, nothing pushed is lost, only cut writes are incomplete, and the handlers implement `DeploymentHistory` |
| `repo_published` | two requests that overlap, fairness, one failed git step, one push that fails or loses its answer, one restart, one foreign push: a HEAD the remote would take is on its way there, and gets there, unless its push was given up |
| `repo_retry` (violation) | a failed push is not made up for by uploading again |
| `repo_overlap` (violation) | two uploads at once: one is lost and reported as uploaded |
| `sync_pages` | two agents, two pages, a file, two commits: "Sync" is right, only published contents run and none older than the page compared, only a file without a name ends an agent, also when calls fail that the agent goes on with |
| `lifecycle_stop` | signals and failures anywhere, two calls and two requests: clean exits, safe iteration, and both liveness properties |
| `config_watch` | a server and a command of either program, three starts of the agent or two of central, one edit with any UUID or one removal, one crash, one failure, fairness of the watcher: one registration, and one more per mishap at most, the loaded config is the file's, and comes to be so after an edit |
| `config_reset` (violation) | one start of an agent: its settings are replaced by the defaults |
| `lists_all` | two agents, two names, two changes during a request, and any number between requests: answers are true and complete, only agents without a client make the list of pods panic, a request stays open only in a call that never ends and that nobody gave up on |

Why the bounds suffice. Two handlers are what the races need: each is between
two accesses of one handler and a whole run of another; a third agent or file
touches other keys only. Three clients let one be open, one be closed and one be
new. Three commits are a commit of central, one of somebody else's and one on
top; two are enough where only the order of central's HEAD and the remote
matters. Two changes during a request let one agent take or give up a name, or its
client, before and after the loop comes to it; they may also be of two agents.
Three starts of a process are the first one, the one that follows a mishap and
the one that shows what was kept; both processes of central write the file, and
two starts are what makes them do it at once. One failure of a kind shows what it
leaves behind; a second one meets the same state. Calls of three half seconds
outlast the interval, and odd delays put every truncation on both sides. An
`AliveInterval` of five seconds is the least that `IntervalsFit` allows for them;
with four, TLC finds a steady agent judged offline. The theorems below do not
depend on the bounds.

Symmetry is used in safety runs only. Violation runs check one property, which
quotes a message or comment of the code; they are kept small so that the
behaviour TLC prints is short.

Fairness. `CentralRegistry`: the scheduler runs a handler on, the ticker keeps
firing, and etcd does not refuse every write for ever (strong fairness of
`PutOk`). `DeploymentRepo`: net/http runs a handler to its end and users keep
uploading; nothing is assumed of pushes, which may fail. `ServerLifecycle`: the
goroutines run and gRPC handlers end, which are unary; neither failures nor the
end of an HTTP request are assumed. `ConfigFile`: viper's goroutine handles the
events it gets; no other step is assumed, and neither is that the watcher starts.
`AgentLists`: net/http runs the handler (`LoopStep`), and a call whose context
was cancelled ends (`Cancelled`). That etcd or an agent answers is not assumed,
as the calls have no deadline, and neither is that anybody gives up: so
`RequestsEnd` allows for a request that hangs in one call.
`HeartbeatStatus` and `DeploymentSync` have safety properties only.

## 4. The proofs

TLAPS checks these for every value of the constants.

- **CentralRegistryProofs.** Theorems of `Spec`, without a condition on the
  constants: any overlap, any addresses, dialled or not. Type correctness;
  `ClosedClientReplaced`: the strengthening says at which step a handler holds
  which client. `NoClientLeaks`, `EndpointIsDialled` and `AcceptedIsCallable`
  except what their properties except, by agent: heartbeats of other agents
  may overlap as they like. They rest on `SerialInv`: a handler per agent that
  is not `overlapped` (`OneHeartbeat`, `OneRegistration`), and no client in two
  entries (`Unshared`). `ClientsHaveHeartbeats`: a handler past "put" has
  written etcd.
- **AgentDirectoryProofs.** `RegistryIsDirectory`: in behaviours in which no
  heartbeats of one agent overlap (`[]NoOverlap`), every step of the handlers
  maps to a step of the directory or a stutter, for addresses that can be
  dialled and others. It rests on `SerialInv`.
- **AgentListsProofs.** Type correctness; `AnswersAreTrue` from `TrueInv`: what is
  on its way into the answer was true when it was read, and the history has it;
  `AnswersAreComplete` from `CompleteInv`: an agent the loop has come to is being
  looked at, has its line, failed, or shared its name;
  `NewcomersPanic` from `KeepsClient`: an agent that had a client is never
  without one until central restarts.
- **ConfigFileProofs.** Type correctness; `LoadedCurrent` from `CurrentInv`: where
  file, viper's values and loaded config differ, an event is waiting, the watcher
  is in the middle of one (`Caught`), or a step of the process repairs it;
  `OneRegistration` and `ServesIdentified` from `UuidInv`. As long as not every
  UUID is paid for by a mishap (`issued > mishaps`), there is one in the file or
  with the server that is about to write it, and whoever reads the file then,
  server or watcher, reads one (`BringsUuid`, `KnowsUuid`). So an agent that
  asks for a UUID asks for its first, or a mishap has cost it the one it had.
- **HeartbeatStatusProofs.** Type correctness; `DeadGoesOffline` for all
  intervals and delays; `SteadyStaysOnline` when `IntervalsFit`. The invariant
  bounds when each handler was sent and stamped, given up on or not (`HandlerInv`),
  and per agent when the next tick is due (`OnSchedule`) and how old and how new
  its timestamp in etcd can be (`NotEarlier`, `NotLater`), and what the status
  handler read (`QueryInv`). Between two heartbeats lies the interval or the call
  before (`Gap`). `MaxDelay` counts twice in `IntervalsFit`: once for the
  heartbeat that is under way, once for the age of a late handler's timestamp.
- **DeploymentRepoProofs.** Without a condition, however requests overlap: type
  correctness; `UnpublishedPending`: as a commit is in its own history
  (`Reflexive`), whoever made HEAD is at its push, and whoever else pushes
  meanwhile pushes HEAD; else a push of it was given up. The others
  hold in behaviours that satisfy a condition, which says what a lock would have
  to cover. `OneCommitter`: no two handlers are inside go-git's `Commit`, between
  reading HEAD and setting it. It gives `PushedIsKept` and
  `RepoImplementsHistory`: the parent a handler read is still HEAD
  (`LinearHistory`). `OneAtTheTree`: one handler at a time works on the files, up
  to staging, and others commit and push. It gives `CommitsAreComplete`: an
  empty file on disk, in the index or in a snapshot is cut or being written
  (`Complete`). `OneRequest`: requests do not overlap at all. It gives
  `AnsweredArePublished`: what was done for the files so far is on disk and in
  the index (`Progress`). `repo_overlap` is a counterexample without it. Each
  condition holds of every behaviour with one handler. A handler that writes to a
  file another one removed or truncated meanwhile is modelled as writing to the
  file of that name; the last two conditions exclude the case.
- **DeploymentSyncProofs.** Type correctness; `OnlyPublishedIsApplied`: clones
  are in the remote's history, which only grows (`Published`);
  `SyncIsNotWrong`: between the agent's answer and the comparison, HEAD is where
  it was or at a commit newer than any the agent can have answered (`Compared`);
  `AppliedNotOlder`: what the agent answered stays in the history of its clone
  (`NotOlder`); `NamelessEnds`.
- **ServerLifecycleProofs.** Type correctness; `CleanExitServedAll` and
  `AgentsAreSafe` from `Draining`: what the closer has done says what may run.

Assumptions on the constants are named in the modules and evaluated by TLC:
`RegistryAssumption`, `StatusAssumption`, `RepoAssumption`, `HistoryAssumption`,
`SyncAssumption`, `ConfigAssumption`, `FileAssumption`, `ListsAssumption`, and
`AbsentAssumption` (the value for "no client" is not an endpoint). None bounds a
delay or an interval.

Only model-checked: the liveness properties `EventuallyCallable`, `HeadIsPushed`,
`EventuallyLoaded`, `RequestsEnd`, `SignalEndsStart`, `WatchedFailureEndsStart`
(liveness under fairness is out of the prover's reach). `EventuallyPublished` and
`SettingIsKept` do not hold: their runs are violation runs.

## 5. Findings

Each of these is a violation run; `PROJECT.json` quotes the line the code
contradicts.

1. After a failed push, uploading again never pushes (`deployments_api.go:115`).
2. Overlapping uploads lose a file and report success (`git.go:43`).
3. While a program writes its config file back, its own watcher may read the
   emptied file, and the defaults replace what the operator set
   (`agent_config.go:45`, `central_config.go:114`).

Met while modelling, and no property of a run:

- An agent that rotates to an endpoint that cannot be dialled and back keeps
  its closed client: `SendHeartbeat` returns after `Close` without clearing the
  field or the recorded endpoint, and the next heartbeat finds it equal
  (`agent_heartbeat.go:59`). So `AcceptedHeartbeatIsCallable` and
  `EventuallyCallable` except agents that are `stranded`.
- `Start` may survive a failed server: its closing goroutine may wait for the
  context `Start` was given and not the group's (`central.go:148`,
  `agent.go:207`). So `WatchedFailureEndsStart` is for the group's.
- Two handlers of one agent may leave its entry recording one endpoint and
  dialling another (`agent_heartbeat.go:80`). So `RecordedEndpointIsDialled`
  excepts agents whose heartbeats overlapped.
- Agents of one name share an entry of the status list (`status_api.go:51`), and
  an unchanged config names every agent alike (`agent_config.go:97`).
  `AnswerIsComplete` excepts them.
- The list of pods panics, for all agents, while one is listed that registered
  and has had no heartbeat accepted (`status_api.go:69`); an agent that never got
  the answer to its registration leaves such an entry until central restarts.
- The setup of the config may assign or store what it read after the watcher
  assigned or stored something newer (`agent_config.go:117`, `:138`), and a
  watcher that did not start, or ended with the file, is not started again: edits
  are then not seen.
- An agent skips a file it cannot read, parse or apply, and answers success
  (`cluster/deployments.go:56`).
- A file without a name ends the agent's process (`CrashOn`,
  `cluster/deployments.go:64`); `OnlyNamelessEnds` says that nothing else does.
- The Delete button reports success whatever the status central answers with;
  only a request that gets no answer is shown as an error (`agent_page.go:385`).
- The list requests have no deadline: an agent or an etcd that never answers
  keeps a request open until whoever asked gives up (`status_api.go:32`, `:70`).
- A heartbeat handler that is slower than its agent's patience may overwrite a
  newer timestamp with its own (`agent_heartbeat.go:32`).

## 6. Not modelled, and the plan

Not modelled: parts without state of their own (the root page and the templates,
health checks, what `ListDeployments` and `ListPods` read in a cluster, the
command line beyond its setup of the config), certificates and the client set,
which are loaded once, the generated protocol code, the branch in
`SendHeartbeat` for a client that is nil after a successful dial, and the
repository that failed to open (`central.go:108`), where every request about
deployments panics and net/http recovers. A string or client that is read while
a heartbeat writes it is taken to be the old or the new one.

Done, in this order: `CentralRegistry`; `HeartbeatStatus`; `DeploymentRepo` with
`DeploymentHistory`; `DeploymentSync`; `ServerLifecycle`; `ConfigFile`;
`AgentDirectory` with its refinement; `AgentLists`. What is left:

1. `CentralRegistry` and `ConfigFile` composed: the endpoint an agent advertises
   while its config is being reloaded.
2. `AgentLists` on `CentralRegistry` itself, where heartbeats overlap.
3. Proofs: the bounds of `HeartbeatStatus` are attained; `DeploymentSync` for
   clones that are updated file by file.
