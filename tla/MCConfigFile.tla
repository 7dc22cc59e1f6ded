---------------------------- MODULE MCConfigFile ----------------------------
(***************************************************************************)
(* Model values of ConfigFile.  Both processes of central write the file,  *)
(* so two starts of them have more to interleave than three of the agent.  *)
(***************************************************************************)
EXTENDS ConfigFile

WatchStarts == [agent |-> 3, central |-> 2]

ResetStarts == [agent |-> 2]
=============================================================================
