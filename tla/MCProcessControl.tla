-------------------------- MODULE MCProcessControl --------------------------
(* Instances of ProcessControl for TLC. *)
EXTENDS ProcessControl, TLC

\* Commands and servers are interchangeable.
Interchangeable == Permutations(Commands) \cup Permutations(Servers)

=============================================================================
