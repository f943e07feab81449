------------------------------- MODULE MCPipeExit -------------------------------
(* Instances of PipeExit for TLC. *)
EXTENDS PipeExit
=============================================================================
