--------------------------------- MODULE MCTlb ---------------------------------
(***************************************************************************)
(* Instance of Tlb for TLC: three CPUs, of which one, two or three are      *)
(* online, and page table changes by any of them.                           *)
(***************************************************************************)
EXTENDS Tlb

=============================================================================
