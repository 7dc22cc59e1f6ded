------------------------------ MODULE ConfigFile ------------------------------
(***************************************************************************)
(* The config files, agent_config.yaml and central_config.yaml: the        *)
(* operator edits them, every process of the program reads one when it     *)
(* starts and writes it back, and viper's watcher reads it again whenever  *)
(* it changes.                                                             *)
(*                                                                         *)
(* The two programs do the same but for three things: central writes its   *)
(* file back at every start, the agent writes its own when central has     *)
(* registered it, and the agent does not start with the placeholder for    *)
(* its address.  So the program is a parameter, chosen by Init.            *)
(*                                                                         *)
(* One setting stands for all that the operator can set.  An empty file    *)
(* reads like one that has the defaults: viper fills in what is missing.   *)
(***************************************************************************)
EXTENDS Naturals

CONSTANTS
    Program,    \* the programs looked at, of "agent" and "central"
    Proc,       \* processes of the program: its server and its commands
    Server,     \* the one that runs "serve"
    Setting,    \* what the operator may write
    Default,    \* the default; for an agent, the address placeholder
    Missing,    \* there is no file
    Garbled,    \* the file does not parse
    MaxStarts,  \* bound: how often processes of each program are started
    MaxEdits,   \* bound: how often the operator edits or removes the file
    MaxCrashes, \* bound: how often a process is killed
    MaxFails    \* bound: writes and registrations that fail

ASSUME ConfigAssumption ==
    /\ Program \subseteq {"agent", "central"}
    /\ Server \in Proc
    /\ Default \notin Setting
    /\ MaxStarts \in [Program -> Nat] /\ MaxEdits \in Nat
    /\ MaxCrashes \in Nat /\ MaxFails \in Nat

VARIABLES
    program,    \* whose file this is
    file,       \* the contents of the file
    pc,         \* the step of each process
    config,     \* what viper read from the file last
    override,   \* the UUID of viper.Set, 0 when there is none
    local,      \* a snapshot on its way to config, to the file or to loaded
    loaded,     \* the config the process works with
    watching,   \* does viper's watcher run
    wpc,        \* the step of the watcher, when it handles an event
    fresh,      \* its snapshot on its way to config or to loaded
    dirty,      \* has the watcher an event of a write to handle
    gone,       \* and after that one of a removal
    issued,     \* the UUIDs central has issued to this agent
    starts, edits, crashes, fails,  \* counters for the bounds
    early,      \* history: the watcher was overtaken by the end of the setup
    mishaps,    \* history: how often a registration or a write was cut short
    wanted      \* history: what the operator set last

procVars == <<pc, config, override, local, loaded, early>>
watchVars == <<watching, wpc, fresh, dirty, gone>>
counters == <<starts, edits, crashes, fails>>
vars == <<program, file, procVars, watchVars, issued, counters, mishaps, wanted>>
-----------------------------------------------------------------------------
Content == [setting : Setting \cup {Default}, uuid : Nat]

ASSUME FileAssumption ==
    Missing \notin Content /\ Garbled \notin Content /\ Missing # Garbled

Blank == [setting |-> Default, uuid |-> 0]

Setup == {"watch", "read", "assign", "load", "store"}
Writing == {"truncate", "marshal", "write"}
Starting == {"ensure", "create", "decide"}
Steps == {"down", "register", "serve"} \cup Setup \cup Writing \cup Starting

TypeOK ==
    /\ program \in Program
    /\ file \in Content \cup {Missing, Garbled}
    /\ pc \in [Proc -> Steps]
    /\ config \in [Proc -> Content]
    /\ override \in [Proc -> Nat]
    /\ local \in [Proc -> Content]
    /\ loaded \in [Proc -> Content]
    /\ watching \in [Proc -> BOOLEAN]
    /\ wpc \in [Proc -> {"idle", "assign", "build", "store"}]
    /\ fresh \in [Proc -> Content]
    /\ dirty \in [Proc -> BOOLEAN]
    /\ gone \in [Proc -> BOOLEAN]
    /\ issued \in Nat
    /\ starts \in 0 .. MaxStarts[program] /\ edits \in 0 .. MaxEdits
    /\ crashes \in 0 .. MaxCrashes /\ fails \in 0 .. MaxFails
    /\ early \in [Proc -> BOOLEAN]
    /\ mishaps \in Nat
    /\ wanted \in Setting \cup {Default}

\* The operator has written a file, or there is none yet.
Init ==
    /\ program \in Program
    /\ wanted \in Setting \cup {Default}
    /\ file = IF wanted = Default THEN Missing
                                  ELSE [setting |-> wanted, uuid |-> 0]
    /\ pc = [p \in Proc |-> "down"]
    /\ config = [p \in Proc |-> Blank]
    /\ override = [p \in Proc |-> 0]
    /\ local = [p \in Proc |-> Blank]
    /\ loaded = [p \in Proc |-> Blank]
    /\ watching = [p \in Proc |-> FALSE]
    /\ wpc = [p \in Proc |-> "idle"]
    /\ fresh = [p \in Proc |-> Blank]
    /\ dirty = [p \in Proc |-> FALSE]
    /\ gone = [p \in Proc |-> FALSE]
    /\ issued = 0
    /\ starts = 0 /\ edits = 0 /\ crashes = 0 /\ fails = 0
    /\ early = [p \in Proc |-> FALSE]
    /\ mishaps = 0
-----------------------------------------------------------------------------
(* What the steps are made of.                                             *)

Goes(p, from, to) ==
    /\ pc[p] = from
    /\ pc' = [pc EXCEPT ![p] = to]

\* The values viper has when it read c: what was set goes before the file.
Values(p, c) == [c EXCEPT !.uuid = IF override[p] # 0 THEN override[p] ELSE @]

\* The file is written to: every running watcher gets an event.
Notify ==
    /\ dirty' = [p \in Proc |-> dirty[p] \/ (watching[p] /\ ~gone[p])]
    /\ UNCHANGED <<watching, wpc, fresh, gone>>

\* The process of p ends.
Exit(p) ==
    /\ pc' = [pc EXCEPT ![p] = "down"]
    /\ config' = [config EXCEPT ![p] = Blank]
    /\ override' = [override EXCEPT ![p] = 0]
    /\ local' = [local EXCEPT ![p] = Blank]
    /\ loaded' = [loaded EXCEPT ![p] = Blank]
    /\ watching' = [watching EXCEPT ![p] = FALSE]
    /\ wpc' = [wpc EXCEPT ![p] = "idle"]
    /\ fresh' = [fresh EXCEPT ![p] = Blank]
    /\ dirty' = [dirty EXCEPT ![p] = FALSE]
    /\ gone' = [gone EXCEPT ![p] = FALSE]
    /\ early' = [early EXCEPT ![p] = FALSE]

\* The file has a UUID.
Recorded == file \in Content /\ file.uuid # 0

\* A step that, if what it says of itself is so, cuts a registration or a write
\* short, or undoes it.
CutShort(it) == mishaps' = mishaps + IF it THEN 1 ELSE 0

\* Where a process goes when it has written the file: on with its setup, or,
\* when it wrote its UUID, on to serve.
Written(p) == IF override[p] = 0 THEN "load" ELSE "serve"
-----------------------------------------------------------------------------
(* Seeded faults: steps with a plausible slip, which nothing below uses.   *)

\* Whatever ReadInConfig left behind is used, error or not.
FaultReadErrorIgnored(p) ==
    /\ Goes(p, "read", "assign")
    /\ local' = [local EXCEPT ![p] = file]
    /\ UNCHANGED <<program, file, config, override, loaded, early, watchVars,
                   issued, counters, mishaps, wanted>>

\* What viper read from the file is written back, without what was set.
FaultUuidNotWritten(p) ==
    /\ Goes(p, "marshal", "write")
    /\ local' = [local EXCEPT ![p] = config[p]]
    /\ UNCHANGED <<program, file, config, override, loaded, early, watchVars,
                   issued, counters, mishaps, wanted>>

\* The new config is built before the file is read.
FaultReloadsTooSoon(p) ==
    /\ watching[p] /\ dirty[p] /\ wpc[p] = "idle"
    /\ dirty' = [dirty EXCEPT ![p] = FALSE]
    /\ wpc' = [wpc EXCEPT ![p] = "store"]
    /\ fresh' = [fresh EXCEPT ![p] = Values(p, config[p])]
    /\ config' = [config EXCEPT ![p] = IF file \in Content THEN file ELSE @]
    /\ UNCHANGED <<program, file, pc, override, local, loaded, early, watching,
                   gone, issued, counters, mishaps, wanted>>

\* The new config is not stored.
FaultReloadNotStored(p) ==
    /\ wpc[p] = "store"
    /\ wpc' = [wpc EXCEPT ![p] = "idle"]
    /\ fresh' = [fresh EXCEPT ![p] = Blank]
    /\ UNCHANGED <<program, file, procVars, watching, dirty, gone, issued,
                   counters, mishaps, wanted>>

\* The test of "registered" is the wrong way round.
FaultRegisteredNegated(p) ==
    /\ Goes(p, "decide", IF program = "agent" /\ loaded[p].uuid # 0
                         THEN "register" ELSE "serve")
    /\ UNCHANGED <<program, file, config, override, local, loaded, early,
                   watchVars, issued, counters, mishaps, wanted>>
-----------------------------------------------------------------------------
(* AgentServerConfigSetup and CentralServerConfigSetup, which every process *)
(* of the program runs before anything else.                               *)

Start(p) ==
    /\ starts < MaxStarts[program]
    /\ starts' = starts + 1
    /\ Goes(p, "down", "watch")
    /\ UNCHANGED <<program, file, config, override, local, loaded, early,
                   watchVars, issued, edits, crashes, fails, mishaps, wanted>>

\* WatchConfig: the watcher gives up at once when there is no file.
Watch(p) ==
    /\ Goes(p, "watch", "read")
    /\ watching' = [watching EXCEPT ![p] = (file # Missing)]
    /\ UNCHANGED <<program, file, config, override, local, loaded, early,
                   wpc, fresh, dirty, gone, issued, counters, mishaps, wanted>>

\* ReadInConfig reads the file.
Read(p) ==
    /\ file \in Content
    /\ Goes(p, "read", "assign")
    /\ local' = [local EXCEPT ![p] = file]
    /\ UNCHANGED <<program, file, config, override, loaded, early, watchVars,
                   issued, counters, mishaps, wanted>>

\* And then gives viper what it read.  Central writes that back.
Assign(p) ==
    /\ Goes(p, "assign", IF program = "central" THEN "truncate" ELSE "load")
    /\ config' = [config EXCEPT ![p] = local[p]]
    /\ local' = [local EXCEPT ![p] = Blank]
    /\ UNCHANGED <<program, file, override, loaded, early, watchVars,
                   issued, counters, mishaps, wanted>>

\* There is no file, and WatchConfig found none: a new one is written, with the
\* defaults.  (Central then writes it once more; this stands for both.)
ReadNothing(p) ==
    /\ file = Missing /\ ~watching[p]
    /\ Goes(p, "read", "truncate")
    /\ UNCHANGED <<program, file, config, override, local, loaded, early,
                   watchVars, issued, counters, mishaps, wanted>>

\* The file does not parse, or was removed from under viper, or the agent's
\* address is not set.
Fatal(p) ==
    /\ \/ pc[p] = "read" /\ (file = Garbled \/ (file = Missing /\ watching[p]))
       \/ pc[p] = "load" /\ program = "agent" /\ config[p].setting = Default
    /\ Exit(p)
    /\ UNCHANGED <<program, file, issued, counters, mishaps, wanted>>

\* NewAgentConfig, NewCentralConfig
Load(p) ==
    /\ program = "agent" => config[p].setting # Default
    /\ Goes(p, "load", "store")
    /\ local' = [local EXCEPT ![p] = Values(p, config[p])]
    /\ UNCHANGED <<program, file, config, override, loaded, early, watchVars,
                   issued, counters, mishaps, wanted>>

\* config.Store; the server goes on.
Store(p) ==
    /\ p = Server
    /\ Goes(p, "store", "ensure")
    /\ loaded' = [loaded EXCEPT ![p] = local[p]]
    /\ local' = [local EXCEPT ![p] = Blank]
    /\ UNCHANGED <<program, file, config, override, early, watchVars,
                   issued, counters, mishaps, wanted>>

\* A command has its config, does its work and ends.  (The agent's commands run
\* the setup twice, which one command started after another stands for.)
CommandEnds(p) ==
    /\ p # Server /\ pc[p] = "store"
    /\ Exit(p)
    /\ UNCHANGED <<program, file, issued, counters, mishaps, wanted>>
-----------------------------------------------------------------------------
(* viper.WriteConfig and WriteConfigAs: the file is opened, which empties  *)
(* it, then the settings are gathered, then they are written.              *)

\* Without a UUID to write, an agent creates a file because it found none: what
\* another process or the operator wrote since then is lost.
Truncate(p) ==
    /\ Goes(p, "truncate", "marshal")
    /\ file' = Blank
    /\ Notify
    /\ CutShort(override[p] = 0 /\ Recorded)
    /\ UNCHANGED <<program, config, override, local, loaded, early, issued,
                   counters, wanted>>

Marshal(p) ==
    /\ Goes(p, "marshal", "write")
    /\ local' = [local EXCEPT ![p] = Values(p, config[p])]
    /\ UNCHANGED <<program, file, config, override, loaded, early, watchVars,
                   issued, counters, mishaps, wanted>>

\* The settings go to the start of the file.  When somebody wrote since it was
\* emptied, that is lost, or the rest of it stays behind them; when the file was
\* removed, they go nowhere.
Write(p) ==
    /\ Goes(p, "write", Written(p))
    /\ \/ file # Missing /\ file' = local[p] /\ Notify
       \/ file \notin {Missing, Blank, local[p]} /\ file' = Garbled /\ Notify
       \/ file = Missing /\ UNCHANGED <<file, watchVars>>
    /\ CutShort(file \notin {Blank, local[p]})
    /\ local' = [local EXCEPT ![p] = Blank]
    /\ UNCHANGED <<program, config, override, loaded, early, issued,
                   counters, wanted>>

\* The file cannot be opened, created or written.  Before Start this ends the
\* process; Start does not look at the error of WriteBackAndReload.
WriteFails(p) ==
    /\ pc[p] \in {"truncate", "write", "create"}
    /\ fails < MaxFails
    /\ fails' = fails + 1
    /\ CutShort(override[p] # 0)
    /\ IF override[p] = 0
       THEN Exit(p)
       ELSE /\ pc' = [pc EXCEPT ![p] = Written(p)]
            /\ local' = [local EXCEPT ![p] = Blank]
            /\ UNCHANGED <<config, override, loaded, early, watchVars>>
    /\ UNCHANGED <<program, file, issued, starts, edits, crashes, wanted>>
-----------------------------------------------------------------------------
(* NewCentralServer, NewAgentServer and AgentServer.Start.                 *)

\* os.Stat
Ensure(p) ==
    /\ Goes(p, "ensure", IF file = Missing THEN "create" ELSE "decide")
    /\ UNCHANGED <<program, file, config, override, local, loaded, early,
                   watchVars, issued, counters, mishaps, wanted>>

\* os.Create empties a file that somebody else has created meanwhile.
Create(p) ==
    /\ Goes(p, "create", "decide")
    /\ file' = Blank
    /\ Notify
    /\ CutShort(Recorded)
    /\ UNCHANGED <<program, config, override, local, loaded, early, issued,
                   counters, wanted>>

\* Is the agent registered, according to the config that is loaded now?
Decide(p) ==
    /\ Goes(p, "decide", IF program = "agent" /\ loaded[p].uuid = 0
                         THEN "register" ELSE "serve")
    /\ UNCHANGED <<program, file, config, override, local, loaded, early,
                   watchVars, issued, counters, mishaps, wanted>>

\* Central has registered the agent: viper.Set, and off to write it.
Register(p) ==
    /\ Goes(p, "register", "truncate")
    /\ issued' = issued + 1
    /\ override' = [override EXCEPT ![p] = issued + 1]
    /\ UNCHANGED <<program, file, config, local, loaded, early, watchVars,
                   counters, mishaps, wanted>>

\* Central does not answer; it may have registered the agent all the same.
RegisterFails(p) ==
    /\ pc[p] = "register"
    /\ fails < MaxFails
    /\ fails' = fails + 1
    /\ issued' \in {issued, issued + 1}
    /\ CutShort(issued' # issued)
    /\ Exit(p)
    /\ UNCHANGED <<program, file, starts, edits, crashes, wanted>>
-----------------------------------------------------------------------------
(* The watcher.                                                            *)

\* What follows in the watcher's goroutine: OnConfigChange, which makes nothing
\* of use to a command.
Rebuilding(p) == IF p = Server THEN "build" ELSE "idle"

\* An event: ReadInConfig reads the file again.  When it is not there or does
\* not parse, OnConfigChange is called all the same.
Reload(p) ==
    /\ watching[p] /\ dirty[p] /\ wpc[p] = "idle"
    /\ dirty' = [dirty EXCEPT ![p] = FALSE]
    /\ \/ /\ file \in Content
          /\ wpc' = [wpc EXCEPT ![p] = "assign"]
          /\ fresh' = [fresh EXCEPT ![p] = file]
       \/ /\ file \notin Content
          /\ wpc' = [wpc EXCEPT ![p] = Rebuilding(p)]
          /\ UNCHANGED fresh
    /\ UNCHANGED <<program, file, procVars, watching, gone, issued, counters,
                   mishaps, wanted>>

\* And gives viper what it read.
Reassign(p) ==
    /\ wpc[p] = "assign"
    /\ wpc' = [wpc EXCEPT ![p] = Rebuilding(p)]
    /\ config' = [config EXCEPT ![p] = fresh[p]]
    /\ fresh' = [fresh EXCEPT ![p] = Blank]
    /\ early' = [early EXCEPT ![p] = @ \/ pc[p] = "assign"]
    /\ UNCHANGED <<program, file, pc, override, local, loaded, watching,
                   dirty, gone, issued, counters, mishaps, wanted>>

\* OnConfigChange builds a new config from the values of viper,
Rebuild(p) ==
    /\ wpc[p] = "build"
    /\ wpc' = [wpc EXCEPT ![p] = "store"]
    /\ fresh' = [fresh EXCEPT ![p] = Values(p, config[p])]
    /\ UNCHANGED <<program, file, procVars, watching, dirty, gone, issued,
                   counters, mishaps, wanted>>

\* and stores it.
Restore(p) ==
    /\ wpc[p] = "store"
    /\ wpc' = [wpc EXCEPT ![p] = "idle"]
    /\ fresh' = [fresh EXCEPT ![p] = Blank]
    /\ loaded' = [loaded EXCEPT ![p] = fresh[p]]
    /\ early' = [early EXCEPT ![p] = @ \/ pc[p] = "store"]
    /\ UNCHANGED <<program, file, pc, config, override, local, watching, dirty,
                   gone, issued, counters, mishaps, wanted>>

\* The file was removed: the watcher ends, and does not come back.  (Nothing
\* tells a watcher that ends during ReadInConfig from one that ends after it.)
WatchEnds(p) ==
    /\ watching[p] /\ wpc[p] = "idle" /\ gone[p] /\ ~dirty[p]
    /\ pc[p] # "read"
    /\ watching' = [watching EXCEPT ![p] = FALSE]
    /\ gone' = [gone EXCEPT ![p] = FALSE]
    /\ UNCHANGED <<program, file, procVars, wpc, fresh, dirty, issued, counters,
                   mishaps, wanted>>
-----------------------------------------------------------------------------
(* The operator, and what ends a process.                                  *)

\* The operator saves other settings, or takes them out, and a UUID: the one that
\* is in the file now or was when he opened it, one of the list of agents, or none.
Edit(s) ==
    \E uuid \in 0 .. issued :
        /\ edits < MaxEdits
        /\ edits' = edits + 1
        /\ wanted' = s
        /\ file' = [setting |-> s, uuid |-> uuid]
        /\ Notify
        /\ CutShort(Recorded /\ uuid = 0)
        /\ UNCHANGED <<program, procVars, issued, starts, crashes, fails>>

Remove ==
    /\ edits < MaxEdits
    /\ edits' = edits + 1
    /\ file # Missing
    /\ file' = Missing
    /\ gone' = [p \in Proc |-> gone[p] \/ watching[p]]
    /\ CutShort(Recorded)
    /\ UNCHANGED <<program, procVars, watching, wpc, fresh, dirty, issued,
                   starts, crashes, fails, wanted>>

\* A process is killed, or is ended by the Go runtime when it notices that
\* the watcher and the server use viper's maps at once.
Crash(p) ==
    /\ pc[p] # "down"
    /\ crashes < MaxCrashes
    /\ crashes' = crashes + 1
    /\ CutShort(pc[p] \in Writing /\ override[p] # 0)
    /\ Exit(p)
    /\ UNCHANGED <<program, file, issued, starts, edits, fails, wanted>>

ProcStep(p) ==
    \/ Start(p) \/ Watch(p) \/ Read(p) \/ Assign(p) \/ ReadNothing(p)
    \/ Fatal(p)
    \/ Load(p) \/ Store(p) \/ CommandEnds(p)
    \/ Truncate(p) \/ Marshal(p) \/ Write(p) \/ WriteFails(p)
    \/ Ensure(p) \/ Create(p) \/ Decide(p) \/ Register(p) \/ RegisterFails(p)
    \/ Crash(p)

WatcherStep(p) ==
    Reload(p) \/ Reassign(p) \/ Rebuild(p) \/ Restore(p) \/ WatchEnds(p)

Next ==
    \/ \E p \in Proc : ProcStep(p) \/ WatcherStep(p)
    \/ \E s \in Setting \cup {Default} : Edit(s)
    \/ Remove

Spec == Init /\ [][Next]_vars

\* viper's goroutine handles the events it gets.
FairSpec == Spec /\ \A p \in Proc : WF_vars(WatcherStep(p))
-----------------------------------------------------------------------------
(* Properties.                                                             *)

\* The watcher of p runs and has nothing left to handle.
Quiet(p) == watching[p] /\ wpc[p] = "idle" /\ ~dirty[p] /\ ~gone[p]

\* An agent registers once in its life, however often it is restarted, killed
\* and its file edited: each further registration, which leaves a UUID in
\* central's registry for good, takes a mishap of its own.
RegistersOnce == program = "agent" => issued <= 1 + mishaps

\* A server whose watcher has handled every event works with the setting in
\* the file, whatever empty, garbled or half-edited file it saw on the way;
\* only the end of its own setup can have put an older config in place.
LoadedIsCurrent ==
    pc[Server] = "serve" /\ Quiet(Server) /\ ~early[Server] /\ file \in Content
        => loaded[Server].setting = file.setting

\* An agent that has just registered knows its UUID from the watcher alone: once
\* that is quiet, Heartbeat does not refuse to send for want of one.
ServesWithUuid ==
    program = "agent" /\ pc[Server] = "serve" /\ Quiet(Server) /\ mishaps = 0 =>
        loaded[Server].uuid # 0

\* "you can also change the agent name during runtime": once the edits are
\* over, a server that is watched works with what is in the file.
EventuallyLoaded ==
    <>[](pc[Server] = "serve" /\ watching[Server] /\ ~early[Server]
         /\ file \in Content => loaded[Server].setting = file.setting)

\* "Agent address is not set in the config file": the program says so of a
\* file in which the operator has not set it, for it keeps what was set.
SettingIsKept ==
    (\A p \in Proc : pc[p] \notin Writing) /\ file \in Content =>
        file.setting = wanted
=============================================================================
