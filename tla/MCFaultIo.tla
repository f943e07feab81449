------------------------------- MODULE MCFaultIo -------------------------------
(* Instances of FaultIo for TLC. *)
EXTENDS FaultIo
=============================================================================
