---------------------------- MODULE MCSourceReads ----------------------------
(* Instance of SourceReads for TLC. *)
EXTENDS SourceReads, TLC

\* Callers are interchangeable.
Interchangeable == Permutations(Callers)

OneAtATime == {{"queries"}, {"discovery"}, {"batches"}}

=============================================================================
