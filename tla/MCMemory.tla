-------------------------------- MODULE MCMemory --------------------------------
(***************************************************************************)
(* Two processes with one mapping each of a file of two pages, in a machine *)
(* with fewer frames than they can use.                                     *)
(***************************************************************************)
EXTENDS Memory

MCModes ==
    {[kind |-> k, writable |-> TRUE] : k \in Kinds} \cup {[kind |-> "lazy", writable |-> FALSE]}

\* What follows a race is not explored.
NoRace == ~raced
=============================================================================
