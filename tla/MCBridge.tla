------------------------------ MODULE MCBridge ------------------------------
(* Instance of Bridge for TLC. *)
EXTENDS Bridge, TLC

\* Clients, pipes and requests of the same operation are interchangeable.
Interchangeable ==
    Permutations(Clients) \cup Permutations(Pipes) \cup Permutations(Pings)
    \cup Permutations(Cancels)

=============================================================================
