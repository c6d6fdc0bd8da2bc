------------------------- MODULE MCTraderConnection -------------------------
(* Instances of TraderConnection for TLC. *)
EXTENDS TraderConnection, TLC

\* Traders and workers are interchangeable.
Interchangeable == Permutations(Traders) \cup Permutations(Workers)

=============================================================================
