-------------------------------- MODULE PipeExit --------------------------------
(***************************************************************************)
(* Pipe with processes that exit.                                           *)
(*                                                                         *)
(* exit_current_process (kernel/src/task.rs) releases the file table while  *)
(* it holds SCHEDULER; closing an end calls wake_task for each waiter of    *)
(* the other end, and wake_task takes SCHEDULER, a spin lock that is not    *)
(* reentrant, with interrupts off.                                          *)
(***************************************************************************)
EXTENDS Pipe

VARIABLE hung       \* CPU 0 spins in wake_task for a lock it holds itself

allVars == <<vars, hung>>

\* The waiters that closing t's descriptors would wake.
ToWake(t) == (IF rfds[t] > 0 THEN Range(write_waiters) ELSE {})
             \cup (IF wfds[t] > 0 THEN Range(read_waiters) ELSE {})

\* exit_current_process.  With nobody to wake it ends like kill_process; else it
\* has closed r and w ends, the last one being the first with a waiter on the
\* other side, and has taken that side's list, when it starts to spin.
Exit(t) ==
    /\ Idle(t)
    /\ \/ ToWake(t) = {} /\ Kill(t) /\ UNCHANGED hung
       \/ \E r \in 0 .. rfds[t], w \in 0 .. wfds[t] :
             /\ \/ /\ write_waiters # <<>> /\ r = 1 /\ (read_waiters # <<>> => w = 0)
                   /\ write_waiters' = <<>> /\ UNCHANGED read_waiters
                \/ /\ read_waiters # <<>> /\ w = 1 /\ (write_waiters # <<>> => r = 0)
                   /\ read_waiters' = <<>> /\ UNCHANGED write_waiters
             /\ readers' = readers - r /\ writers' = writers - w
             /\ rfds' = [rfds EXCEPT ![t] = @ - r] /\ wfds' = [wfds EXCEPT ![t] = @ - w]
             /\ hung' = TRUE
             /\ UNCHANGED <<ring, occupied, tasks, got>>

EInit == Init /\ hung = FALSE

ExitNext == ~hung /\ ((Next /\ UNCHANGED hung) \/ \E t \in Tasks : Exit(t))
ExitSpec == EInit /\ [][ExitNext]_allVars

-----------------------------------------------------------------------------
\* "Closing an end wakes the opposite waiters": no reader stays blocked once the
\* last writer is gone.
EofWakesReaders == \A t \in alive \cap blocked : call[t].kind = "read" => writers > 0
=============================================================================
