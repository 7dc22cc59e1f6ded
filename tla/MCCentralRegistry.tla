------------------------ MODULE MCCentralRegistry ------------------------
(* Instances of CentralRegistry for TLC.                                   *)
EXTENDS CentralRegistry, TLC

\* UUIDs, clients and goroutines are interchangeable.
RegistrySymmetry ==
    Permutations(Id) \cup Permutations(Conn) \cup Permutations(Handler)
=============================================================================
