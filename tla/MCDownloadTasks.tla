-------------------------- MODULE MCDownloadTasks --------------------------
(* Instances of DownloadTasks and DownloadHandle for TLC. *)
EXTENDS DownloadHandle, TLC

=============================================================================
