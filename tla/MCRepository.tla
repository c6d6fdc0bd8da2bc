---------------------------- MODULE MCRepository ----------------------------
(* Instance of Repository for TLC. *)
EXTENDS Repository
=============================================================================
