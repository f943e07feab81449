-------------------------------- MODULE Process --------------------------------
(***************************************************************************)
(* The process table of kernel/src/task.rs: spawn, fork, exit, wait,        *)
(* signals and process groups, with the state each of them touches: the     *)
(* user task behind a process, its address space, its descriptor table over *)
(* the open-file table of kernel/src/vfs.rs, and its IPC endpoint.  An exec *)
(* exchanges the address space of a record and leaves all of this alone.    *)
(*                                                                         *)
(* System calls run with interrupts off on CPU 0, so each is one step.  Pid *)
(* 0 stands for the kernel task, which spawns and reaps processes too.  The *)
(* descriptors here are those of files; module Pipe has those of pipes.     *)
(*                                                                         *)
(* A process that kills itself is marked Dead but keeps the CPU: tick       *)
(* returns early for a task that is not Running.  `ghost' is that process.  *)
(* It runs on until it yields (and is gone), exits, or blocks in a system   *)
(* call that writes Blocked or Sleeping over Dead, and so comes back.       *)
(***************************************************************************)
EXTENDS Ipc

CONSTANTS
    Fds,            \* the descriptors 3 .. MAX_FILE_DESCRIPTORS - 1
    NFiles,         \* MAX_OPEN_FILES
    NTasks,         \* task slots left for user tasks
    NProcesses,     \* MAX_PROCESSES
    Signals,        \* a subset of {"TERM", "KILL", "USR"}
    MaxPid,         \* bound on the process ids handed out
    MaxLeaks        \* bound on the references lost by open and dup

ASSUME ProcessAssumption ==
    /\ NFiles \in Nat /\ NTasks \in Nat /\ NProcesses \in Nat
    /\ Fds \in SUBSET Nat
    /\ MaxPid \in Nat /\ Ids = 1 .. MaxPid /\ MaxLeaks \in Nat
    /\ Signals \subseteq {"TERM", "KILL", "USR"}

Kernel == 0
NoPid == 0
Files == 1 .. NFiles
NoFile == 0
NoSignal == "none"

VARIABLES
    pstate,         \* "None" (no record), "Ready" or "Exited"
    parent, group,
    files,          \* the descriptor table
    space,          \* the process's address space is allocated
    action,         \* signal_actions: "default", "ignore" or "handler"
    pending,        \* pending_signal
    task,           \* the process's task: "Empty", "Live" or "Dead"
    ghost,          \* the self-killed process that still runs, or NoPid
    refs,           \* the reference count of each open-file description
    leaked,         \* history: the references open and dup lost
    next_pid

procVars == <<pstate, parent, group, files, space, action, pending, task, ghost>>
fileVars == <<refs, leaked>>
pvars == <<endpoints, accepted, received, pstate, parent, group, files, space,
           action, pending, task, ghost, refs, leaked, next_pid>>

NoFiles == [d \in Fds |-> NoFile]
Defaults == [s \in Signals |-> "default"]

PInit ==
    /\ Init
    /\ pstate = [p \in Ids |-> "None"]
    /\ parent = [p \in Ids |-> Kernel]
    /\ group = [p \in Ids |-> p]
    /\ files = [p \in Ids |-> NoFiles]
    /\ space = [p \in Ids |-> FALSE]
    /\ action = [p \in Ids |-> Defaults]
    /\ pending = [p \in Ids |-> NoSignal]
    /\ task = [p \in Ids |-> "Empty"]
    /\ ghost = NoPid
    /\ refs = [f \in Files |-> 0]
    /\ leaked = [f \in Files |-> 0]
    /\ next_pid = 1

Records == {p \in Ids : pstate[p] # "None"}
Live == {p \in Ids : task[p] = "Live"}

\* p may execute: while a ghost runs nothing else does.
Executes(p) ==
    IF ghost = NoPid THEN p = Kernel \/ p \in Live ELSE p = ghost

\* p executes and current_process_id finds its record.
Caller(p) == Executes(p) /\ (p = Kernel \/ p \in Records)
User(p) == p # Kernel /\ Caller(p)

\* After reap_dead a task slot is free: all the dead but the current are gone.
TaskRoom == Cardinality(Live \cup ({ghost} \ {NoPid})) < NTasks

\* How many descriptors of table t are file f.
Count(t, f) == Cardinality({d \in Fds : t[d] = f})

\* Mutant of Released: a description that a table holds twice is dropped once.
ReleasedOnce(P) ==
    [f \in Files |-> refs[f] - Cardinality({p \in P : Count(files[p], f) > 0})]

\* release_file_table on the tables of the processes in P.
Released(P) ==
    [f \in Files |-> refs[f] - FoldFunctionOnSet(+, 0, [p \in Ids |-> Count(files[p], f)], P)]

-----------------------------------------------------------------------------
(***************************************************************************)
(* Creation.                                                                *)
(***************************************************************************)

\* Child c gets its record, its task and its endpoint.
Install(c, par, grp, table, actions) ==
    /\ Register(c) /\ UNCHANGED <<accepted, received>>
    /\ pstate' = [pstate EXCEPT ![c] = "Ready"]
    /\ parent' = [parent EXCEPT ![c] = par]
    /\ group' = [group EXCEPT ![c] = grp]
    /\ files' = [files EXCEPT ![c] = table]
    /\ space' = [space EXCEPT ![c] = TRUE]
    /\ action' = [action EXCEPT ![c] = actions]
    /\ pending' = [pending EXCEPT ![c] = NoSignal]
    /\ task' = [task EXCEPT ![c] = "Live"]
    /\ UNCHANGED <<ghost, leaked>>

\* spawn_user_process: the ids are consumed before the table and the endpoint
\* registry are found to have room.
SpawnUserProcess(p) ==
    /\ Caller(p) /\ TaskRoom /\ next_pid <= MaxPid
    /\ next_pid' = next_pid + 1
    /\ \/ /\ Cardinality(Records) < NProcesses /\ CanRegister(next_pid)
          /\ Install(next_pid, p, IF p = Kernel THEN next_pid ELSE group[p], NoFiles, Defaults)
          /\ UNCHANGED refs
       \/ /\ Cardinality(Records) >= NProcesses \/ ~CanRegister(next_pid)
          /\ UNCHANGED <<ipcVars, procVars, fileVars>>

\* fork_current: the child shares the parent's descriptions, one reference per
\* descriptor.  clone_file_table cannot fail: every descriptor names a counted description.
ForkCurrent(p) ==
    /\ User(p) /\ space[p] /\ TaskRoom /\ next_pid <= MaxPid
    /\ Cardinality(Records) < NProcesses
    /\ next_pid' = next_pid + 1
    /\ \/ /\ CanRegister(next_pid)
          /\ Install(next_pid, p, group[p], files[p], action[p])
          /\ refs' = [f \in Files |-> refs[f] + Count(files[p], f)]
       \/ /\ ~CanRegister(next_pid)
          /\ UNCHANGED <<ipcVars, procVars, fileVars>>

-----------------------------------------------------------------------------
(***************************************************************************)
(* Termination.                                                             *)
(***************************************************************************)

\* exit_current_process: the record stays as a zombie, everything else goes.
ExitCurrent(p) ==
    /\ User(p)
    /\ pstate' = [pstate EXCEPT ![p] = "Exited"]
    /\ refs' = Released({p})
    /\ files' = [files EXCEPT ![p] = NoFiles]
    /\ space' = [space EXCEPT ![p] = FALSE]
    /\ task' = [task EXCEPT ![p] = "Dead"]
    /\ ghost' = NoPid
    /\ UNCHANGED <<ipcVars, parent, group, action, pending, leaked, next_pid>>

ZombieChild(p, c) == parent[c] = p /\ pstate[c] = "Exited"

\* wait_process: a zombie child loses its record and its endpoint.  The address
\* space of a child that was killed is not released here or anywhere else.
WaitProcess(p, c) ==
    /\ Caller(p) /\ ZombieChild(p, c)
    /\ refs' = Released({c})
    /\ files' = [files EXCEPT ![c] = NoFiles]
    /\ Unregister(c)
    /\ pstate' = [pstate EXCEPT ![c] = "None"]
    /\ parent' = [parent EXCEPT ![c] = Kernel]
    /\ group' = [group EXCEPT ![c] = c]
    /\ action' = [action EXCEPT ![c] = Defaults]
    /\ pending' = [pending EXCEPT ![c] = NoSignal]
    /\ accepted' = [accepted EXCEPT ![c] = <<>>] /\ received' = [received EXCEPT ![c] = <<>>]
    /\ UNCHANGED <<space, task, ghost, leaked, next_pid>>

\* What kill_process does to one selected record for signal sig.
Terminates(c, sig) ==
    /\ action[c][sig] = "default" \/ (action[c][sig] = "handler" /\ sig = "KILL")
    /\ sig \in {"TERM", "KILL"}

\* Mutant of Kill: the address spaces are released on the spot.
KillFrees(p, T, sig) ==
    LET dies == {c \in T : Terminates(c, sig) /\ pstate[c] = "Ready"}
    IN  /\ Caller(p) /\ T # {}
        /\ pstate' = [c \in Ids |-> IF c \in dies THEN "Exited" ELSE pstate[c]]
        /\ refs' = Released(dies)
        /\ files' = [c \in Ids |-> IF c \in dies THEN NoFiles ELSE files[c]]
        /\ task' = [c \in Ids |-> IF c \in dies THEN "Dead" ELSE task[c]]
        /\ space' = [c \in Ids |-> space[c] /\ c \notin dies]
        /\ ghost' = IF p \in dies THEN p ELSE ghost
        /\ UNCHANGED <<ipcVars, parent, group, action, pending, leaked, next_pid>>

\* kill_process on the records in T.  Signal 0 only probes and changes nothing.
Kill(p, T, sig) ==
    LET dies == {c \in T : Terminates(c, sig) /\ pstate[c] = "Ready"}
    IN  /\ Caller(p) /\ T # {}
        /\ pending' = [c \in Ids |-> IF c \in T /\ action[c][sig] # "ignore" THEN sig
                                     ELSE pending[c]]
        /\ pstate' = [c \in Ids |-> IF c \in dies THEN "Exited" ELSE pstate[c]]
        /\ refs' = Released(dies)
        /\ files' = [c \in Ids |-> IF c \in dies THEN NoFiles ELSE files[c]]
        /\ task' = [c \in Ids |-> IF c \in dies THEN "Dead" ELSE task[c]]
        /\ ghost' = IF p \in dies THEN p ELSE ghost
        /\ UNCHANGED <<ipcVars, parent, group, space, action, leaked, next_pid>>

\* pid > 0 names one process, pid <= 0 a group.
KillProcess(p) ==
    \E sig \in Signals, q \in Ids :
        \/ Kill(p, Records \cap {q}, sig)
        \/ Kill(p, {c \in Records : group[c] = q}, sig)

\* The ghost yields: its task is Dead, so nothing switches back.
GhostYields ==
    /\ ghost # NoPid
    /\ ghost' = NoPid
    /\ UNCHANGED <<ipcVars, fileVars, next_pid, pstate, parent, group, files, space,
                   action, pending, task>>

\* The ghost sleeps or blocks on a pipe: its task is scheduled again later.
GhostBlocks ==
    /\ ghost # NoPid
    /\ task' = [task EXCEPT ![ghost] = "Live"]
    /\ ghost' = NoPid
    /\ UNCHANGED <<ipcVars, fileVars, next_pid, pstate, parent, group, files, space,
                   action, pending>>

-----------------------------------------------------------------------------
(***************************************************************************)
(* Signals and groups.                                                      *)
(***************************************************************************)

\* sigaction_current refuses SIGKILL.
SigactionCurrent(p) ==
    \E sig \in Signals \ {"KILL"}, a \in {"default", "ignore", "handler"} :
        /\ User(p)
        /\ action' = [action EXCEPT ![p][sig] = a]
        /\ UNCHANGED <<ipcVars, fileVars, next_pid, pstate, parent, group, files, space,
                       pending, task, ghost>>

\* take_pending_signal_current, on the way out of a system call.
TakePendingSignal(p) ==
    /\ User(p) /\ pending[p] # NoSignal /\ action[p][pending[p]] = "handler"
    /\ pending' = [pending EXCEPT ![p] = NoSignal]
    /\ UNCHANGED <<ipcVars, fileVars, next_pid, pstate, parent, group, files, space,
                   action, task, ghost>>

\* set_process_group: of the caller or of its child.
SetProcessGroup(p) ==
    \E c \in Records, g \in Ids :
        /\ User(p) /\ (c = p \/ parent[c] = p)
        /\ group' = [group EXCEPT ![c] = g]
        /\ UNCHANGED <<ipcVars, fileVars, next_pid, pstate, parent, files, space,
                       action, pending, task, ghost>>

-----------------------------------------------------------------------------
(***************************************************************************)
(* Descriptors.                                                             *)
(***************************************************************************)

FreeFds(p) == {d \in Fds : files[p][d] = NoFile}
FreeFiles == {f \in Files : refs[f] = 0}
Smallest(S, x) == x \in S /\ \A y \in S : x <= y

SetFd(p, d, f) == files' = [files EXCEPT ![p][d] = f]

descriptorUnchanged == <<ipcVars, next_pid, pstate, parent, group, space, action,
                         pending, task, ghost>>

\* open_current: the description is allocated first; when the table turns out
\* to be full it is not given back.
OpenCurrent(p) ==
    \E f \in Files :
        /\ User(p) /\ Smallest(FreeFiles, f)
        /\ refs' = [refs EXCEPT ![f] = 1]
        /\ \/ \E d \in Fds : Smallest(FreeFds(p), d) /\ SetFd(p, d, f) /\ UNCHANGED leaked
           \/ /\ FreeFds(p) = {} /\ leaked[f] < MaxLeaks
              /\ leaked' = [leaked EXCEPT ![f] = @ + 1] /\ UNCHANGED files
        /\ UNCHANGED descriptorUnchanged

\* dup_current: the same order, and the same loss on a full table.
DupCurrent(p) ==
    \E e \in Fds :
        LET f == files[p][e]
        IN  /\ User(p) /\ f # NoFile
            /\ refs' = [refs EXCEPT ![f] = @ + 1]
            /\ \/ \E d \in Fds : Smallest(FreeFds(p), d) /\ SetFd(p, d, f) /\ UNCHANGED leaked
               \/ /\ FreeFds(p) = {} /\ leaked[f] < MaxLeaks
                  /\ leaked' = [leaked EXCEPT ![f] = @ + 1] /\ UNCHANGED files
            /\ UNCHANGED descriptorUnchanged

\* dup2_current: clone the old descriptor's description, then release the one
\* the new descriptor held.
Dup2Current(p) ==
    \E e, d \in Fds :
        LET f == files[p][e]  g == files[p][d]
        IN  /\ User(p) /\ f # NoFile /\ d # e
            /\ refs' = [x \in Files |-> refs[x] + (IF x = f THEN 1 ELSE 0)
                                               - (IF x = g THEN 1 ELSE 0)]
            /\ SetFd(p, d, f)
            /\ UNCHANGED leaked /\ UNCHANGED descriptorUnchanged

CloseCurrent(p) ==
    \E d \in Fds :
        /\ User(p) /\ files[p][d] # NoFile
        /\ refs' = [refs EXCEPT ![files[p][d]] = @ - 1]
        /\ SetFd(p, d, NoFile)
        /\ UNCHANGED leaked /\ UNCHANGED descriptorUnchanged

-----------------------------------------------------------------------------
SendMessage(p) ==
    \E r \in Records, m \in Payloads :
        /\ User(p) /\ Send(p, r, m)
        /\ UNCHANGED <<procVars, fileVars, next_pid>>

ReceiveMessage(p) ==
    /\ User(p) /\ Receive(p)
    /\ UNCHANGED <<procVars, fileVars, next_pid>>

UserStep(p) ==
    \/ ForkCurrent(p) \/ ExitCurrent(p)
    \/ SigactionCurrent(p) \/ TakePendingSignal(p) \/ SetProcessGroup(p)
    \/ OpenCurrent(p) \/ DupCurrent(p) \/ Dup2Current(p) \/ CloseCurrent(p)
    \/ SendMessage(p) \/ ReceiveMessage(p)

PNext ==
    \/ \E p \in Ids \cup {Kernel} : SpawnUserProcess(p) \/ KillProcess(p)
    \/ \E p \in Ids \cup {Kernel}, c \in Ids : WaitProcess(p, c)
    \/ \E p \in Ids : UserStep(p)
    \/ GhostYields \/ GhostBlocks

PSpec == PInit /\ [][PNext]_pvars

-----------------------------------------------------------------------------
\* Exactly the processes with a record, zombies included, own an endpoint, and
\* each of them one: so the assertion of wait_process, "reaped process has no
\* IPC endpoint", cannot fail, and messages die with the process they were for.
EndpointPerProcess ==
    /\ Owners = Records
    /\ \A s, r \in Used : endpoints[s].owner = endpoints[r].owner => s = r

\* The descriptors of all the processes that are file f.
Holders(f) == FoldFunctionOnSet(+, 0, [p \in Ids |-> Count(files[p], f)], Ids)

\* The count of every description is the number of descriptors that share it
\* plus the references that open and dup lost on a full table: through forks,
\* group kills, dup2 and the second release in wait_process no description is
\* freed while a descriptor still names it, and no exit loses one.
RefsExact ==
    \A f \in Files : refs[f] = Holders(f) + leaked[f]

\* A task that can execute user code still has its address space: exit releases
\* it only when the task gives up the CPU for good, and kill, whose victim may
\* be the caller and run on, never does.
RunsInItsSpace ==
    \A p \in Ids : Executes(p) /\ p # Kernel => space[p]

================================================================================
