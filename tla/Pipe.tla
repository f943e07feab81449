---------------------------------- MODULE Pipe ----------------------------------
(***************************************************************************)
(* An anonymous pipe (kernel/src/pipe.rs) and the processes that share it   *)
(* by pipe, dup, fork, close and kill (kernel/src/task.rs).                 *)
(*                                                                         *)
(* A system call runs on CPU 0 with interrupts off, so it is one step up to *)
(* the point where it returns or blocks; a blocked call goes on, from the   *)
(* top of its loop, some time after its task is woken.                      *)
(***************************************************************************)
EXTENDS Integers, Sequences, FiniteSets, SequencesExt

CONSTANTS
    Tasks,          \* task ids, each used once
    Bytes,
    Cap,            \* PIPE_BUFFER
    MaxWaiters,     \* MAX_WAITERS
    MaxLive,        \* MAX_TASKS: how many tasks exist at a time
    MaxBuf,         \* bound: the longest buffer of a call
    MaxFds          \* bound: descriptors there are for one end

ASSUME PipeAssumption ==
    /\ Cap \in Nat \ {0} /\ MaxWaiters \in Nat \ {0} /\ MaxLive \in Nat \ {0}
    /\ MaxBuf \in Nat \ {0} /\ MaxFds \in Nat \ {0}
    /\ Bytes # {} /\ Tasks # {}

VARIABLES
    data, head, tail, len,          \* the ring
    readers, writers, occupied,
    read_waiters, write_waiters,
    rfds, wfds,     \* the descriptors each process holds for each end
    alive,          \* tasks that exist
    fresh,          \* ids not handed out yet
    blocked,        \* tasks in state Blocked
    call,           \* the call a task is in
    got             \* what the last read that ended returned

ring == <<data, head, tail, len>>
refs == <<readers, writers, occupied, rfds, wfds>>
waiters == <<read_waiters, write_waiters>>
tasks == <<alive, fresh, blocked, call>>
vars == <<ring, refs, waiters, tasks, got>>

Chunks == UNION {[1 .. n -> Bytes] : n \in 1 .. MaxBuf}
NoCall == [kind |-> "none"]

Init ==
    /\ data \in {[i \in 0 .. Cap - 1 |-> b] : b \in Bytes}
    /\ head = 0 /\ tail = 0 /\ len = 0
    /\ readers = 0 /\ writers = 0 /\ occupied = FALSE
    /\ read_waiters = <<>> /\ write_waiters = <<>>
    /\ rfds = [t \in Tasks |-> 0] /\ wfds = [t \in Tasks |-> 0]
    /\ \E t \in Tasks : alive = {t} /\ fresh = Tasks \ {t}
    /\ blocked = {}
    /\ call = [t \in Tasks |-> NoCall]
    /\ got = <<>>

Least(m, n) == IF m < n THEN m ELSE n

\* The task has the CPU and is in user mode.
Idle(t) == t \in alive /\ t \notin blocked /\ call[t] = NoCall
\* The task has the CPU and goes on with its call.
Resumed(t, kind) == t \in alive /\ t \notin blocked /\ call[t].kind = kind


\* push_waiter: an id is entered once, and is dropped when the table is full.
PushWaiter(list, t) ==
    IF t \in Range(list) \/ Len(list) = MaxWaiters THEN list ELSE Append(list, t)

\* take_waiters and wake_list: wake_task finds blocked tasks only.
Woken(list) == blocked \ Range(list)

-----------------------------------------------------------------------------
(***************************************************************************)
(* pipe::create, the descriptors, and fork.                                *)
(***************************************************************************)
Create(t) ==
    /\ Idle(t) /\ ~occupied
    /\ head' = 0 /\ tail' = 0 /\ len' = 0 /\ UNCHANGED data
    /\ readers' = 1 /\ writers' = 1 /\ occupied' = TRUE
    /\ read_waiters' = <<>> /\ write_waiters' = <<>>
    /\ rfds' = [rfds EXCEPT ![t] = 1] /\ wfds' = [wfds EXCEPT ![t] = 1]
    /\ UNCHANGED <<tasks, got>>

\* dup of a read end, then of a write end.
CloneReader(t) ==
    /\ Idle(t) /\ rfds[t] > 0 /\ readers < MaxFds
    /\ readers' = readers + 1 /\ rfds' = [rfds EXCEPT ![t] = @ + 1]
    /\ UNCHANGED <<ring, writers, occupied, wfds, waiters, tasks, got>>

CloneWriter(t) ==
    /\ Idle(t) /\ wfds[t] > 0 /\ writers < MaxFds
    /\ writers' = writers + 1 /\ wfds' = [wfds EXCEPT ![t] = @ + 1]
    /\ UNCHANGED <<ring, readers, occupied, rfds, waiters, tasks, got>>


\* fork: clone_file_table gives the child a descriptor for each of t's.
Fork(t, child) ==
    /\ Idle(t) /\ child \in fresh /\ Cardinality(alive) < MaxLive
    /\ readers + rfds[t] <= MaxFds /\ writers + wfds[t] <= MaxFds         \* bound
    /\ alive' = alive \cup {child} /\ fresh' = fresh \ {child}
    /\ readers' = readers + rfds[t] /\ writers' = writers + wfds[t]
    /\ rfds' = [rfds EXCEPT ![child] = rfds[t]] /\ wfds' = [wfds EXCEPT ![child] = wfds[t]]
    /\ UNCHANGED <<ring, occupied, waiters, blocked, call, got>>

-----------------------------------------------------------------------------
(***************************************************************************)
(* pipe::write: from the top of the loop to its return or to block_current.*)
(***************************************************************************)
\* Mutant of Filled: the first byte goes one place too far.
FilledAhead(buf, n) ==
    [i \in 0 .. Cap - 1 |->
        IF \E k \in 1 .. n : i = (tail + k) % Cap
        THEN buf[CHOOSE k \in 1 .. n : i = (tail + k) % Cap]
        ELSE data[i]]

\* The ring after the first n bytes of buf are appended.
Filled(buf, n) ==
    [i \in 0 .. Cap - 1 |->
        IF \E k \in 1 .. n : i = (tail + k - 1) % Cap
        THEN buf[CHOOSE k \in 1 .. n : i = (tail + k - 1) % Cap]
        ELSE data[i]]

WriteLoop(t, buf) ==
    LET n == Least(Len(buf), Cap - len) IN
    \/ /\ readers = 0                              \* try_write: Closed
       /\ call' = [call EXCEPT ![t] = NoCall]
       /\ UNCHANGED <<ring, refs, waiters, alive, fresh, blocked, got>>
    \/ /\ readers > 0
       /\ data' = Filled(buf, n) /\ tail' = (tail + n) % Cap /\ len' = len + n
       /\ read_waiters' = IF n > 0 THEN <<>> ELSE read_waiters
       /\ LET awake == IF n > 0 THEN Woken(read_waiters) ELSE blocked IN
          \/ /\ n = Len(buf)
             /\ call' = [call EXCEPT ![t] = NoCall]
             /\ blocked' = awake /\ UNCHANGED write_waiters
          \/ /\ n < Len(buf)
             /\ call' = [call EXCEPT ![t] = [kind |-> "write", buf |-> SubSeq(buf, n + 1, Len(buf))]]
             /\ write_waiters' = PushWaiter(write_waiters, t)
             /\ blocked' = awake \cup {t}
       /\ UNCHANGED <<head, refs, alive, fresh, got>>

Write(t, buf) == Idle(t) /\ wfds[t] > 0 /\ WriteLoop(t, buf)
WriteResumes(t) == Resumed(t, "write") /\ WriteLoop(t, call[t].buf)

-----------------------------------------------------------------------------
(***************************************************************************)
(* pipe::read, likewise; size is the length of the caller's buffer.        *)
(***************************************************************************)
ReadLoop(t, size) ==
    LET n == Least(size, len) IN
    \/ /\ len = 0 /\ writers = 0                    \* end of file
       /\ got' = <<>>
       /\ call' = [call EXCEPT ![t] = NoCall]
       /\ UNCHANGED <<ring, refs, waiters, alive, fresh, blocked>>
    \/ /\ len = 0 /\ writers > 0
       /\ call' = [call EXCEPT ![t] = [kind |-> "read", size |-> size]]
       /\ read_waiters' = PushWaiter(read_waiters, t)
       /\ blocked' = blocked \cup {t}
       /\ UNCHANGED <<ring, refs, write_waiters, alive, fresh, got>>
    \/ /\ len > 0
       /\ got' = [k \in 1 .. n |-> data[(head + k - 1) % Cap]]
       /\ head' = (head + n) % Cap /\ len' = len - n
       /\ call' = [call EXCEPT ![t] = NoCall]
       /\ write_waiters' = <<>> /\ blocked' = Woken(write_waiters)
       /\ UNCHANGED <<data, tail, refs, read_waiters, alive, fresh>>

Read(t, size) == Idle(t) /\ rfds[t] > 0 /\ ReadLoop(t, size)
ReadResumes(t) == Resumed(t, "read") /\ ReadLoop(t, call[t].size)

-----------------------------------------------------------------------------
(***************************************************************************)
(* close_reader and close_writer, r and w times, for process t: the other   *)
(* side's waiters are woken, and a pipe with no end left is emptied.  The   *)
(* tasks in dead are not blocked any more either.                           *)
(***************************************************************************)
CloseEnds(t, r, w, dead) ==
    LET gone == occupied /\ readers = r /\ writers = w
        wake_writers == IF r > 0 THEN Range(write_waiters) ELSE {}
        wake_readers == IF w > 0 THEN Range(read_waiters) ELSE {} IN
    /\ readers' = readers - r /\ writers' = writers - w
    /\ rfds' = [rfds EXCEPT ![t] = @ - r] /\ wfds' = [wfds EXCEPT ![t] = @ - w]
    /\ occupied' = (occupied /\ ~gone)
    /\ write_waiters' = IF r > 0 \/ gone THEN <<>> ELSE write_waiters
    /\ read_waiters' = IF w > 0 \/ gone THEN <<>> ELSE read_waiters
    /\ head' = IF gone THEN 0 ELSE head
    /\ tail' = IF gone THEN 0 ELSE tail
    /\ len' = IF gone THEN 0 ELSE len
    /\ blocked' = blocked \ (wake_writers \cup wake_readers \cup dead)
    /\ UNCHANGED <<data, got>>

Close(t) ==
    /\ Idle(t)
    /\ \/ rfds[t] > 0 /\ CloseEnds(t, 1, 0, {})
       \/ wfds[t] > 0 /\ CloseEnds(t, 0, 1, {})
    /\ UNCHANGED <<alive, fresh, call>>

\* kill_process by another process, or by the kernel: release_file_table, then
\* the task is dead wherever it was.  Its id stays in the list it waited in.
Kill(t) ==
    /\ t \in alive
    /\ CloseEnds(t, rfds[t], wfds[t], {t})
    /\ alive' = alive \ {t}
    /\ call' = [call EXCEPT ![t] = NoCall]
    /\ UNCHANGED fresh

Next ==
    \E t \in Tasks :
        \/ Create(t)
        \/ CloneReader(t) \/ CloneWriter(t)
        \/ \E child \in Tasks : Fork(t, child)
        \/ \E buf \in Chunks : Write(t, buf)
        \/ WriteResumes(t)
        \/ \E size \in 1 .. MaxBuf : Read(t, size)
        \/ ReadResumes(t)
        \/ Close(t)
        \/ Kill(t)

Spec == Init /\ [][Next]_vars

-----------------------------------------------------------------------------
(***************************************************************************)
(* Properties.                                                             *)
(***************************************************************************)
\* The ring's indices and the descriptor counts have their types.
TypeOK ==
    /\ data \in [0 .. Cap - 1 -> Bytes]
    /\ head \in 0 .. Cap - 1 /\ tail \in 0 .. Cap - 1 /\ len \in 0 .. Cap
    /\ readers \in Nat /\ writers \in Nat /\ occupied \in BOOLEAN
    /\ Len(read_waiters) <= MaxWaiters /\ Len(write_waiters) <= MaxWaiters
    /\ rfds \in [Tasks -> 0 .. MaxFds] /\ wfds \in [Tasks -> 0 .. MaxFds]
    /\ alive \subseteq Tasks /\ fresh \subseteq Tasks \ alive



Stream == INSTANCE ByteStream WITH
    stream <- [k \in 1 .. len |-> data[(head + k - 1) % Cap]],
    reading <- readers > 0, writing <- writers > 0

\* The ring, its waiters and its reference counts are a byte stream.
StreamSpec == Stream!Spec
=============================================================================
