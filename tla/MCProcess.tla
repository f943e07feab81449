------------------------------- MODULE MCProcess -------------------------------
(***************************************************************************)
(* The process table with everything a process can hold, in small tables.   *)
(***************************************************************************)
EXTENDS Process

\* How much the processes hold at once: three messages sent to them, or two
\* in all of messages, references to files and at most one signal.  A disposition or a
\* group of a process's own choice leaves room for one signal and nothing else.
Inherited(p) == IF parent[p] = Kernel THEN p ELSE group[parent[p]]
Chosen ==
    Cardinality({p \in Ids : action[p] # Defaults})
    + Cardinality({p \in Records : group[p] # Inherited(p)})
Signalled == Cardinality({p \in Ids : pending[p] # NoSignal})
Load ==
    LET held == FoldFunction(+, 0, refs)
        all == Sent + held + Signalled
    IN  /\ Signalled <= 1 /\ Chosen <= 1
        /\ \/ Chosen = 0 /\ (all <= 2 \/ (all = 3 /\ Sent = 3))
           \/ Sent + held = 0
================================================================================
