----------------------------- MODULE AgentLists -----------------------------
(***************************************************************************)
(* The requests that go through all agents: the list of statuses           *)
(* (/api/v1/status, which /status/list and "central status" show), the     *)
(* list of pods (/api/v1/status/pods), and the page with a card for each   *)
(* agent (/agent).  They range over the map of agents while heartbeats     *)
(* change it, and wait for etcd or for an agent in between, without a      *)
(* deadline.                                                               *)
(*                                                                         *)
(* The map is the directory AgentDirectory promises.  Requests only read   *)
(* it, so one of them stands for all.  When a heartbeat counts as recent   *)
(* is what HeartbeatStatus is about; here it may become so, or cease to be *)
(* so, at any time.                                                        *)
(***************************************************************************)
EXTENDS AgentDirectory, Naturals

CONSTANTS
    NoAgent,    \* no agent is being looked at
    MaxChanges  \* bound: what changes while one request is served

ASSUME ListsAssumption ==
    /\ MaxChanges \in Nat
    /\ NoAgent \notin Agent
    /\ Unnamed \notin Name
    /\ Undialled \notin Place /\ Undialled # Nowhere

VARIABLES
    fresh,      \* the agents whose heartbeat in etcd is recent
    kind,       \* what is asked for: "status", "pods" or "cards"
    step,       \* the step of the request
    visited,    \* the agents the range loop has come to
    at,         \* the agent that is being looked at
    name, said, \* what is known of it: its name, and its status or its pods
    answer,     \* the answer so far
    left,       \* did who asked give up, which cancels the request's context
    old,        \* history: the agents listed when the request came
    failed,     \* history: the agents etcd gave an error for
    bore,       \* history: who bore which name since the request came
    was,        \* history: what was true of whom since then
    changes,    \* counter for the bound
    dialled     \* history: the agents central had a client for

directoryVars == <<listed, shown, reach>>
requestVars == <<kind, step, visited, at, name, said, answer, left, old, failed>>
historyVars == <<bore, was, changes, dialled>>
vars == <<directoryVars, fresh, requestVars, historyVars>>
-----------------------------------------------------------------------------
Shown == Name \cup {Unnamed}
Verdict == {"online", "offline"}
Says == Verdict \cup {"pods", "error", "nothing"}

Steps == {"idle", "range", "get", "got", "judge", "enter", "call", "cards",
          "answered", "panicked"}

\* A line of the answer.  (The list of statuses has the name, not the agent.)
Entry == [agent : Agent, name : Shown, says : Says]

TypeOK ==
    /\ listed \in SUBSET Agent
    /\ shown \in [Agent -> Shown]
    /\ reach \in [Agent -> Place \cup {Undialled, Nowhere}]
    /\ fresh \in SUBSET Agent
    /\ kind \in {"status", "pods", "cards"}
    /\ step \in Steps
    /\ visited \in SUBSET Agent
    /\ at \in Agent \cup {NoAgent}
    /\ step \in {"get", "got", "judge", "enter", "call"} => at \in Agent
    /\ name \in Shown
    /\ said \in Says
    /\ answer \in SUBSET Entry /\ left \in BOOLEAN
    /\ old \in SUBSET Agent /\ failed \in SUBSET Agent
    /\ bore \in SUBSET (Agent \X Shown)
    /\ was \in SUBSET (Agent \X Says)
    /\ dialled \in SUBSET Agent
    /\ changes \in 0 .. MaxChanges

ListsInit ==
    /\ Init
    /\ fresh = {}
    /\ kind = "status" /\ step = "idle" /\ visited = {}
    /\ at = NoAgent /\ name = Unnamed /\ said = "nothing" /\ answer = {}
    /\ left = FALSE /\ old = {} /\ failed = {} /\ bore = {} /\ was = {}
    /\ changes = 0 /\ dialled = {}
-----------------------------------------------------------------------------
(* What the steps are made of.                                             *)

Goes(from, to) == step = from /\ step' = to

\* The request is over.
Clears ==
    /\ kind' = "status" /\ step' = "idle" /\ visited' = {}
    /\ at' = NoAgent /\ name' = Unnamed /\ said' = "nothing" /\ answer' = {}
    /\ left' = FALSE /\ old' = {} /\ failed' = {} /\ bore' = {} /\ was' = {}
    /\ changes' = 0

\* A line for the agent that is being looked at.
Line(n, s) == [agent |-> at, name |-> n, says |-> s]

\* The agent is done with; the range loop goes on to the next one.
Continues(from) ==
    /\ Goes(from, "range")
    /\ at' = NoAgent /\ name' = Unnamed /\ said' = "nothing"

Callable == {a \in Agent : reach[a] \in Place}
Recent(a) == IF a \in fresh THEN "online" ELSE "offline"

\* The names of this moment, and what could be said in an answer of kind k.
Borne == {<<a, shown[a]>> : a \in listed}
Facts(k) == IF k = "pods" THEN {<<a, "pods">> : a \in Callable}
                          ELSE {<<a, Recent(a)>> : a \in Agent}

Running == step \notin {"idle", "answered", "panicked"}

\* The history of the request goes on.  (The end of a request is one moment.)
Recorded ==
    /\ step \notin {"answered", "panicked"}
    /\ IF Running THEN changes < MaxChanges /\ changes' = changes + 1
                  ELSE UNCHANGED changes
    /\ bore' = IF Running THEN bore \cup Borne' ELSE bore
    /\ was' = IF Running THEN was \cup Facts(kind)' ELSE was

unheard == <<directoryVars, fresh, kind, left, old, historyVars>>
-----------------------------------------------------------------------------
(* Seeded faults: steps with a plausible slip, which nothing below uses.   *)

\* The latest timestamp is not set back to zero for the next agent.
FaultTimestampKept ==
    /\ Goes("get", IF kind = "status" THEN "got" ELSE "judge")
    /\ said' = IF \E e \in answer : e.says = "online" THEN "online"
                                                      ELSE Recent(at)
    /\ UNCHANGED <<visited, at, name, answer, failed, unheard>>

\* An error of an agent ends the list: a return where continue should be.
FaultListStopsAtError ==
    /\ Goes("call", IF said = "error" THEN "answered" ELSE "range")
    /\ \E s \in {said, "error"} : answer' = answer \cup {Line(name, s)}
    /\ at' = NoAgent /\ name' = Unnamed /\ said' = "nothing"
    /\ UNCHANGED <<visited, failed, unheard>>

\* "id" and "name", both strings in the code, are swapped.
FaultIdForName(a) ==
    /\ kind = "cards" /\ step = "range"
    /\ a \in listed \ visited
    /\ visited' = visited \cup {a}
    /\ answer' = answer \cup {[agent |-> shown[a], name |-> a, says |-> "nothing"]}
    /\ UNCHANGED <<step, at, name, said, failed, unheard>>

\* An agent etcd has failed for is asked for again.
FaultRetries ==
    /\ kind = "status"
    /\ Goes("get", "range")
    /\ visited' = visited \ {at}
    /\ at' = NoAgent /\ name' = Unnamed /\ said' = "nothing"
    /\ failed' = failed \cup {at}
    /\ UNCHANGED <<answer, unheard>>
-----------------------------------------------------------------------------
(* GetStatus, ListPods and listAgents.                                     *)

Ask(k) ==
    /\ Goes("idle", "range")
    /\ kind' = k
    /\ old' = listed
    /\ bore' = Borne /\ was' = Facts(k)
    /\ UNCHANGED <<directoryVars, fresh, visited, at, name, said, answer,
                   left, failed, changes, dialled>>

\* range comes to the next agent.  One that was listed during the loop may be
\* visited or not.
Comes(k, a) ==
    /\ kind = k /\ step = "range"
    /\ a \in listed \ visited
    /\ visited' = visited \cup {a}

\* GetStatus asks etcd.
VisitForStatus(a) ==
    /\ Comes("status", a)
    /\ step' = "get" /\ at' = a
    /\ UNCHANGED <<name, said, answer, failed, unheard>>

\* ListPods takes the name and the client, and calls the agent.
VisitForPods(a) ==
    /\ Comes("pods", a)
    /\ reach[a] # Undialled
    /\ step' = "call" /\ at' = a /\ name' = shown[a]
    /\ said' = IF reach[a] \in Place THEN "pods" ELSE "error"
    /\ UNCHANGED <<answer, failed, unheard>>

\* An agent that only registered has no client: the call panics, and net/http
\* ends the request without an answer.
VisitPanics(a) ==
    /\ Comes("pods", a)
    /\ reach[a] = Undialled
    /\ step' = "panicked" /\ at' = a
    /\ UNCHANGED <<name, said, answer, failed, unheard>>

\* listAgents takes the name.
VisitForCards(a) ==
    /\ Comes("cards", a)
    /\ answer' = answer \cup {[agent |-> a, name |-> shown[a], says |-> "nothing"]}
    /\ UNCHANGED <<step, at, name, said, failed, unheard>>

\* The agent answers, or does not.  (One without pods gets an empty line.)
CallEnds ==
    /\ Continues("call")
    /\ \E s \in {said, "error"} : answer' = answer \cup {Line(name, s)}
    /\ UNCHANGED <<visited, failed, unheard>>

\* The loop has come to every agent that was there.
RangeEnds ==
    /\ old \subseteq visited
    /\ Goes("range", IF kind = "cards" THEN "cards" ELSE "answered")
    /\ UNCHANGED <<visited, at, name, said, answer, failed, unheard>>
-----------------------------------------------------------------------------
(* The cards, and the statuses of both lists.                              *)

\* The page asks for the status of the agent of the next card.
NextCard ==
    /\ Goes("cards", "get")
    /\ \E e \in answer : e.says = "nothing" /\ at' = e.agent /\ name' = e.name
    /\ UNCHANGED <<visited, said, answer, failed, unheard>>

\* etcd has a timestamp of the agent, which is recent or not, and may get too old
\* before it is looked at.
Get ==
    /\ Goes("get", IF kind = "status" THEN "got" ELSE "judge")
    /\ said' = Recent(at)
    /\ UNCHANGED <<visited, at, name, answer, failed, unheard>>

\* GetStatus has the answer, and takes the name the agent has now.
TakeName ==
    /\ Goes("got", "judge")
    /\ name' = shown[at]
    /\ UNCHANGED <<visited, at, said, answer, failed, unheard>>

\* The timestamp is compared with the clock.
Judge ==
    /\ Goes("judge", "enter")
    /\ UNCHANGED <<visited, at, name, said, answer, failed, unheard>>

\* etcd gives an error: the list goes on without the agent.
GetSkips ==
    /\ kind = "status"
    /\ Continues("get")
    /\ failed' = failed \cup {at}
    /\ UNCHANGED <<visited, answer, unheard>>

\* The status goes into the list under the name, in place of what is there.
Enter ==
    /\ kind = "status"
    /\ Continues("enter")
    /\ answer' = {e \in answer : e.name # name} \cup {Line(name, said)}
    /\ UNCHANGED <<visited, failed, unheard>>

\* The card gets its status, or "Error..." when that request failed.
FillCard ==
    /\ kind = "cards"
    /\ step \in {"get", "enter"} /\ step' = "cards"
    /\ answer' = (answer \ {Line(name, "nothing")})
                     \cup {Line(name, IF step = "enter" THEN said ELSE "error")}
    /\ at' = NoAgent /\ name' = Unnamed /\ said' = "nothing"
    /\ UNCHANGED <<visited, failed, unheard>>

CardsEnd ==
    /\ \A e \in answer : e.says # "nothing"
    /\ Goes("cards", "answered")
    /\ UNCHANGED <<visited, at, name, said, answer, failed, unheard>>

Sent ==
    /\ step \in {"answered", "panicked"}
    /\ Clears
    /\ UNCHANGED <<directoryVars, fresh, dialled>>
-----------------------------------------------------------------------------
(* Meanwhile.                                                              *)

\* A heartbeat reaches etcd.
Beats(a) ==
    /\ a \notin fresh
    /\ fresh' = fresh \cup {a}
    /\ UNCHANGED <<directoryVars, requestVars, dialled>>
    /\ Recorded

\* The last heartbeat gets too old, and with it what was read and not compared.
Ages(a) ==
    /\ a \in fresh
    /\ fresh' = fresh \ {a}
    /\ said' = IF step \in {"got", "judge"} /\ at = a THEN "offline" ELSE said
    /\ UNCHANGED <<directoryVars, kind, step, visited, at, name, answer, left, old,
                   failed, dialled>>
    /\ Recorded

\* Who asked for a list gives up.  (The page of cards and /status/list ask
\* central themselves, with http.Get, and never do.)
GivesUp ==
    /\ Running /\ kind # "cards" /\ ~left
    /\ left' = TRUE
    /\ UNCHANGED <<step, visited, at, name, said, answer, failed, directoryVars,
                   fresh, kind, old, historyVars>>

DirectoryStep(a) ==
    /\ Enlist(a) \/ Return(a) \/ Rename(a) \/ Leave(a) \/ Arrive(a)
    /\ UNCHANGED <<fresh, requestVars>>
    /\ Recorded
    /\ dialled' = dialled \cup Callable'

\* Central is started again, which ends the request.  Go also ends a process in
\* which it sees a map written while a loop goes through it.
Restart ==
    /\ Reset
    /\ Clears
    /\ dialled' = {}
    /\ UNCHANGED fresh

\* etcd or an agent answers, or fails.
ReplyStep == Get \/ GetSkips \/ CallEnds

\* The context that goes with the call ends it for who gave up.
Cancelled == left /\ (GetSkips \/ CallEnds)

\* What central does on its own.
LoopStep ==
    \/ \E a \in Agent : VisitForStatus(a) \/ VisitForPods(a)
                          \/ VisitPanics(a) \/ VisitForCards(a)
    \/ RangeEnds \/ NextCard \/ TakeName \/ Judge \/ Enter
    \/ step = "enter" /\ FillCard
    \/ CardsEnd \/ Sent

RequestStep == LoopStep \/ ReplyStep \/ FillCard

ListsNext ==
    \/ \E k \in {"status", "pods", "cards"} : Ask(k)
    \/ RequestStep \/ GivesUp
    \/ \E a \in Agent : Beats(a) \/ Ages(a) \/ DirectoryStep(a)
    \/ Restart

ListsSpec == ListsInit /\ [][ListsNext]_vars

\* net/http runs the handler; a call whose context is cancelled ends.  Nothing
\* else makes etcd or an agent answer.
FairListsSpec == ListsSpec /\ WF_vars(LoopStep) /\ WF_vars(Cancelled)
-----------------------------------------------------------------------------
(* Properties.                                                             *)

\* Whatever changes while the loop waits, a line of an answer is about an agent
\* that had this name, and was online, offline or could be called, at some
\* time since the request came.
AnswerIsTrue ==
    \A e \in answer :
        /\ <<e.agent, e.name>> \in bore
        /\ e.says \in Verdict \cup {"pods"} => <<e.agent, e.says>> \in was

\* Another agent had one of its names.
SharesName(a) ==
    \E b \in Agent \ {a}, n \in Shown : <<a, n>> \in bore /\ <<b, n>> \in bore

\* "a list of all agents and their status": no agent that was listed all the
\* time is left out, unless, in the list of statuses, etcd failed for it or it
\* shared its name.
AnswerIsComplete ==
    step = "answered" =>
        \A a \in old \ failed :
            (kind = "status" => ~SharesName(a)) =>
                \E e \in answer : e.agent = a /\ e.says # "nothing"

\* The list of pods only panics for agents that never had a client: one that is
\* about to be dialled at its new address has its closed client until then.
OnlyNewcomersPanic ==
    [][step' = "panicked" /\ step # "panicked" => at' \notin dialled]_vars

\* However the map grows while the loop waits, a request only stays open in one
\* call to etcd or to an agent that never ends, and that nobody gave up on.
RequestsEnd ==
    []<>(step = "idle") \/ <>[](step \in {"get", "call"} /\ ~left)
=============================================================================
