---------------------------- MODULE MCOrderSubmit ----------------------------
(* Instance of OrderSubmit for TLC. *)
EXTENDS OrderSubmit, TLC

\* Clients and pipes are interchangeable; the submissions share a marker.
Interchangeable == Permutations(Clients) \cup Permutations(Pipes)

=============================================================================
