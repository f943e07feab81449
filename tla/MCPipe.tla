--------------------------------- MODULE MCPipe ---------------------------------
(* Instances of Pipe for TLC. *)
EXTENDS Pipe, TLC

\* No definition names a task or a byte.
Symmetry == Permutations(Tasks) \cup Permutations(Bytes)
=============================================================================
