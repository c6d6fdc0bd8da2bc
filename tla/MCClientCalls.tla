--------------------------- MODULE MCClientCalls ---------------------------
(* Instances of ClientCalls for TLC. *)
EXTENDS ClientCalls
=============================================================================
