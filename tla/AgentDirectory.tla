--------------------------- MODULE AgentDirectory ---------------------------
(***************************************************************************)
(* What central's registry promises to those who use it, its pages and the *)
(* agent API: which agents are listed, under which name, and where a call  *)
(* to each of them goes.  CentralRegistry implements it, heartbeat by      *)
(* heartbeat.                                                              *)
(***************************************************************************)

CONSTANTS
    Agent, Name, Place,     \* agents, their names, where they can be called
    Unnamed,                \* shown for an agent that only registered
    Undialled,              \* central has no client for the agent
    Nowhere                 \* it has one, and calls to the agent fail

VARIABLES
    listed,     \* the agents that are listed
    shown,      \* the name each is shown under
    reach       \* where a call to it goes

Init ==
    /\ listed = {}
    /\ shown = [a \in Agent |-> Unnamed]
    /\ reach = [a \in Agent |-> Undialled]

\* A new agent is listed.  It has no name yet, and central no client for it.
Enlist(a) ==
    /\ a \notin listed
    /\ listed' = listed \cup {a}
    /\ UNCHANGED <<shown, reach>>

\* An agent that central has lost is listed again: all at once it has its name
\* and can be called.
Return(a) ==
    /\ a \notin listed
    /\ listed' = listed \cup {a}
    /\ \E n \in Name : shown' = [shown EXCEPT ![a] = n]
    /\ \E p \in Place : reach' = [reach EXCEPT ![a] = p]

Rename(a) ==
    /\ a \in listed
    /\ \E n \in Name : shown' = [shown EXCEPT ![a] = n]
    /\ UNCHANGED <<listed, reach>>

\* A seeded fault, which nothing uses: the field of a closed client is cleared.
FaultLeavesNoClient(a) ==
    /\ reach[a] # Undialled
    /\ reach' = [reach EXCEPT ![a] = Undialled]
    /\ UNCHANGED <<listed, shown>>

\* Calls to the agent fail, before they go anywhere else.  It keeps a client.
Leave(a) ==
    /\ reach[a] # Undialled
    /\ reach' = [reach EXCEPT ![a] = Nowhere]
    /\ UNCHANGED <<listed, shown>>

\* Calls go to a listed agent that has its name.
Arrive(a) ==
    /\ a \in listed /\ shown[a] \in Name /\ reach[a] \in {Undialled, Nowhere}
    /\ \E p \in Place : reach' = [reach EXCEPT ![a] = p]
    /\ UNCHANGED <<listed, shown>>

\* Central is started again.
Reset ==
    /\ listed' = {}
    /\ shown' = [a \in Agent |-> Unnamed]
    /\ reach' = [a \in Agent |-> Undialled]

Next ==
    \/ \E a \in Agent :
         Enlist(a) \/ Return(a) \/ Rename(a) \/ Leave(a) \/ Arrive(a)
    \/ Reset

Spec == Init /\ [][Next]_<<listed, shown, reach>>
=============================================================================
