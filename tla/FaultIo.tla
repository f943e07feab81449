-------------------------------- MODULE FaultIo --------------------------------
(***************************************************************************)
(* Disk I/O on CPU 0 end to end: which task runs, which locks it holds, and *)
(* the block requests (BlockIo) it waits for.                               *)
(*                                                                         *)
(*   - A file page fault blocks the user task and queues it for the pager   *)
(*     (kernel/src/task.rs).  The pager reads the page of a file inside     *)
(*     file_fault_io, which raises FILE_IO_DEPTH, with OPEN_FILES held by   *)
(*     vfs::read_from; it reads a page from swap with neither; and to make  *)
(*     room it may write a page to swap with PROCESS_TABLE held.            *)
(*   - A system call runs with interrupts off: it is not preempted, waits   *)
(*     in place for a lock it finds taken, and goes to the disk directly.   *)
(*   - Only msync and the first write to a file that is still on disk enable  *)
(*     interrupts, inside file_fault_io, and queue their requests; the      *)
(*     latter holds OPEN_FILES meanwhile.                                   *)
(*   - Task 0 runs the shell with interrupts on and goes to the disk        *)
(*     directly, with OPEN_FILES held when it reads a file.                 *)
(*                                                                         *)
(* OPEN_FILES stands for it and for REGISTRY, always taken after it.  A     *)
(* lock that is held for a few instructions only is taken and released in   *)
(* one step.                                                                *)
(***************************************************************************)
EXTENDS BlockIo

CONSTANTS
    Users,          \* user tasks
    Callers,        \* those that make file system calls and kill
    Syncers,        \* those that make the calls that queue requests
    Pager,          \* the pager task
    Main,           \* task 0
    NRequests       \* MAX_PAGER_REQUESTS

ASSUME FaultIoAssumption ==
    /\ Callers \cup Syncers \subseteq Users
    /\ Submitters = Callers \cup Syncers \cup {Pager, Main}
    /\ NRequests \in Nat \ {0}

Tasks == Users \cup {Pager, Worker, Main}
Entries == 1 .. NRequests

VARIABLES
    running,        \* the task on the CPU, NoTask while one is being chosen
    at,             \* where each user task is, and task 0 ("user" is its loop)
    pager_entries,  \* PAGER.entries
    ppc,            \* where the pager is in pager_task
    serving,        \* the request it has popped
    depth,          \* FILE_IO_DEPTH
    open_files,     \* the holder of OPEN_FILES
    processes       \* the holder of PROCESS_TABLE

schedVars == <<running, at>>
pagerVars == <<pager_entries, ppc, serving>>
lockVars == <<depth, open_files, processes>>
cpuVars == <<schedVars, pagerVars, lockVars>>
allVars == <<vars, cpuVars>>

FInit ==
    /\ Init
    /\ running = Main
    /\ at = [u \in Users \cup {Main} |-> "user"]
    /\ pager_entries = [e \in Entries |-> NoTask]
    /\ ppc = "pop" /\ serving = NoTask
    /\ depth = 0 /\ open_files = NoTask /\ processes = NoTask

Goes(t, place) == at' = [at EXCEPT ![t] = place]

-----------------------------------------------------------------------------
(***************************************************************************)
(* The scheduler.                                                          *)
(***************************************************************************)
Runnable == {t \in Tasks : t \in Users => at[t] \notin {"fault", "dead"}}

\* prepare_switch; the rotation is in the fairness of this step.
Dispatch(t) ==
    /\ running = NoTask /\ t \in Runnable
    /\ running' = t
    /\ UNCHANGED <<vars, at, pagerVars, lockVars>>

\* Inside file_fault_io, where interrupts are on.
InFileIo(t) ==
    \/ t \in Users /\ at[t] \in {"sync", "syncing", "fill", "filling"}
    \/ t = Pager /\ ppc \in {"open", "read", "poll"}

\* User mode, kernel tasks and file_fault_io run with interrupts on.
InterruptsOn == running \in Users => at[running] = "user" \/ InFileIo(running)

\* Mutant of Guard: an off-by-one in the test of FILE_IO_DEPTH.
GuardNested == depth > 1

Guard == depth # 0

\* preempt_from_interrupt on a timer tick.
Preempt ==
    /\ running # NoTask /\ InterruptsOn /\ ~Guard
    /\ running' = NoTask
    /\ UNCHANGED <<vars, at, pagerVars, lockVars>>

MainYields ==
    /\ running = Main /\ at[Main] = "user"
    /\ running' = NoTask
    /\ UNCHANGED <<vars, at, pagerVars, lockVars>>

\* wait_for_completion: the result, or another turn for the other tasks.
Polls(t) ==
    \/ TakeResult(t) /\ UNCHANGED running
    \/ /\ pc[t] = "poll" /\ ~\E s \in Slots : Answered(t, s)
       /\ running' = NoTask
       /\ UNCHANGED vars

-----------------------------------------------------------------------------
(***************************************************************************)
(* User tasks.                                                             *)
(***************************************************************************)
\* The page-fault exception, or a system call, begins: all of them look the
\* process up in PROCESS_TABLE first.
EntryPoints(u) ==
    {"faulting"} \cup (IF u \in Callers THEN {"call", "read"} ELSE {})
                 \cup (IF u \in Syncers THEN {"msync", "write"} ELSE {})

Enters(u, place) ==
    /\ running = u /\ at[u] = "user" /\ place \in EntryPoints(u)
    /\ Goes(u, place)
    /\ UNCHANGED <<vars, running, pagerVars, lockVars>>

\* try_handle_file_fault up to block_current_from_exception.
Faults(u) ==
    /\ running = u /\ at[u] = "faulting" /\ processes = NoTask
    /\ \E e \in Entries :
          /\ pager_entries[e] = NoTask /\ \A f \in Entries : f < e => pager_entries[f] # NoTask
          /\ pager_entries' = [pager_entries EXCEPT ![e] = u]
    /\ Goes(u, "fault")
    /\ running' = NoTask
    /\ UNCHANGED <<vars, ppc, serving, lockVars>>

\* The rest of it: the instruction is retried.
Retries(u) ==
    /\ running = u /\ at[u] = "woken"
    /\ Goes(u, "user")
    /\ UNCHANGED <<vars, running, pagerVars, lockVars>>

\* A system call that needs no file: it ends here.
Calls(u) ==
    /\ running = u /\ at[u] = "call" /\ processes = NoTask
    /\ Goes(u, "user")
    /\ UNCHANGED <<vars, running, pagerVars, lockVars>>

\* kill_process, of a task that is not running.
Kills(u, v) ==
    /\ running = u /\ at[u] = "call" /\ processes = NoTask
    /\ v # u /\ at[v] # "dead" /\ kills < MaxKills
    /\ at' = [at EXCEPT ![u] = "user", ![v] = "dead"]
    /\ \/ v \in Submitters /\ Kill(v)
       \/ /\ v \in Submitters => pc[v] # "poll"
          /\ UNCHANGED vars
    /\ UNCHANGED <<running, pagerVars, lockVars>>

\* read, write, seek, close, ... by a user task, and the shell's commands:
\* OPEN_FILES is taken, and the disk may be needed before it is released.
TakesFiles(t) ==
    /\ running = t /\ open_files = NoTask
    /\ \/ at[t] = "read" /\ processes = NoTask
       \/ t = Main /\ at[t] = "user"
    /\ open_files' = t
    /\ Goes(t, "file")
    /\ UNCHANGED <<vars, running, pagerVars, depth, processes>>

ReadsDirectly(t) ==
    /\ running = t /\ at[t] = "file" /\ pc[t] = "idle"
    /\ \E l \in Lba : Submit(t, [kind |-> "Read", lba |-> l], FALSE)
    /\ UNCHANGED cpuVars

InDriver(t) ==
    /\ running = t /\ at[t] = "file"
    /\ DirectEnters(t) \/ DirectPerforms(t)
    /\ UNCHANGED cpuVars

DropsFiles(t) ==
    /\ running = t /\ at[t] = "file"
    /\ (pc[t] = "idle" /\ UNCHANGED vars) \/ Return(t)
    /\ open_files' = NoTask
    /\ Goes(t, "user")
    /\ UNCHANGED <<running, pagerVars, depth, processes>>

\* file_fault_io is entered by msync, or by materialize_disk_node under OPEN_FILES.
EntersFileIo(u) ==
    /\ running = u /\ processes = NoTask
    /\ depth' = depth + 1
    /\ \/ at[u] = "msync" /\ Goes(u, "sync") /\ UNCHANGED open_files
       \/ at[u] = "write" /\ open_files = NoTask /\ Goes(u, "fill") /\ open_files' = u
    /\ UNCHANGED <<vars, running, pagerVars, processes>>

Queues(u) ==
    /\ running = u
    /\ \E l \in Lba, d \in Data :
          \/ /\ at[u] = "sync" /\ Submit(u, [kind |-> "Write", lba |-> l, data |-> d], TRUE)
             /\ Goes(u, "syncing")
          \/ /\ at[u] = "fill" /\ Submit(u, [kind |-> "Read", lba |-> l], TRUE)
             /\ Goes(u, "filling")
    /\ UNCHANGED <<running, pagerVars, lockVars>>

UserPolls(u) ==
    /\ running = u /\ at[u] \in {"syncing", "filling"}
    /\ Polls(u) \/ (UNCHANGED running /\ (DirectEnters(u) \/ DirectPerforms(u)))
    /\ UNCHANGED <<at, pagerVars, lockVars>>

\* Mutant of LeavesFileIo: a failed operation returns before the guard is lowered.
LeavesFileIoRaised(u) ==
    /\ running = u /\ at[u] \in {"syncing", "filling"} /\ Return(u)
    /\ depth' = IF returned[u] = Fault THEN depth ELSE depth - 1
    /\ open_files' = IF at[u] = "filling" THEN NoTask ELSE open_files
    /\ Goes(u, "user")
    /\ UNCHANGED <<running, pagerVars, processes>>

LeavesFileIo(u) ==
    /\ running = u /\ at[u] \in {"syncing", "filling"} /\ Return(u)
    /\ depth' = depth - 1
    /\ open_files' = IF at[u] = "filling" THEN NoTask ELSE open_files
    /\ Goes(u, "user")
    /\ UNCHANGED <<running, pagerVars, processes>>

-----------------------------------------------------------------------------
(***************************************************************************)
(* pager_task.                                                             *)
(***************************************************************************)
PagerAt(from, to) ==
    running = Pager /\ ppc = from /\ ppc' = to

PagerPop ==
    /\ PagerAt("pop", "enter")
    /\ \E e \in Entries :
          /\ pager_entries[e] # NoTask /\ \A f \in Entries : f < e => pager_entries[f] = NoTask
          /\ pager_entries' = [pager_entries EXCEPT ![e] = NoTask]
          /\ serving' = pager_entries[e]
    /\ UNCHANGED <<vars, schedVars, lockVars>>

\* sleep_current(1) with nothing to do.
PagerSleeps ==
    /\ PagerAt("pop", "pop") /\ \A e \in Entries : pager_entries[e] = NoTask
    /\ running' = NoTask
    /\ UNCHANGED <<vars, at, pager_entries, serving, lockVars>>

\* populate_file_page: the page is in the file frame cache or in RAM swap, it is
\* in swap on the disk, or it is read from its file inside file_fault_io.
PagerHits ==
    /\ PagerAt("enter", "store")
    /\ UNCHANGED <<vars, schedVars, pager_entries, serving, lockVars>>

PagerSwapsIn ==
    /\ PagerAt("enter", "swap")
    /\ \E l \in Lba : Submit(Pager, [kind |-> "Read", lba |-> l], TRUE)
    /\ UNCHANGED <<schedVars, pager_entries, serving, lockVars>>

PagerEnters ==
    /\ PagerAt("enter", "open")
    /\ depth' = depth + 1
    /\ UNCHANGED <<vars, schedVars, pager_entries, serving, open_files, processes>>

\* vfs::read_from takes OPEN_FILES and keeps it across read_disk_file.
PagerLocks ==
    /\ PagerAt("open", "read") /\ open_files = NoTask
    /\ open_files' = Pager
    /\ UNCHANGED <<vars, schedVars, pager_entries, serving, depth, processes>>

PagerSubmits ==
    /\ PagerAt("read", "poll")
    /\ \E l \in Lba : Submit(Pager, [kind |-> "Read", lba |-> l], TRUE)
    /\ UNCHANGED <<schedVars, pager_entries, serving, lockVars>>

PagerPolls ==
    /\ running = Pager /\ ppc \in {"poll", "swap", "evict"}
    /\ Polls(Pager) \/ (UNCHANGED running /\ (DirectEnters(Pager) \/ DirectPerforms(Pager)))
    /\ UNCHANGED <<at, pagerVars, lockVars>>

\* The lock is dropped and file_fault_io left; there may be no frame for the page.
PagerLeaves ==
    /\ running = Pager /\ ppc = "poll" /\ Return(Pager)
    /\ ppc' \in {"store", "full"}
    /\ open_files' = NoTask
    /\ depth' = depth - 1
    /\ UNCHANGED <<schedVars, pager_entries, serving, processes>>

\* evict_one_mapped_file_page: a dirty private page is written to swap.
PagerEvicts ==
    /\ PagerAt("full", "evict") /\ processes = NoTask
    /\ \E l \in Lba, d \in Data : Submit(Pager, [kind |-> "Write", lba |-> l, data |-> d], TRUE)
    /\ processes' = Pager
    /\ UNCHANGED <<schedVars, pager_entries, serving, depth, open_files>>

PagerEvicted ==
    /\ PagerAt("evict", "store") /\ Return(Pager)
    /\ processes' = NoTask
    /\ UNCHANGED <<schedVars, pager_entries, serving, depth, open_files>>

PagerSwappedIn ==
    /\ PagerAt("swap", "store") /\ Return(Pager)
    /\ UNCHANGED <<schedVars, pager_entries, serving, lockVars>>

\* Mutant of PagerStores: the task that faulted is not woken.
PagerStoresSilently ==
    /\ PagerAt("store", "pop") /\ processes = NoTask
    /\ serving' = NoTask
    /\ UNCHANGED <<vars, schedVars, pager_entries, lockVars>>

\* The mapping is stored back, unless population failed, and the task woken.
PagerStores ==
    /\ PagerAt("store", "pop") /\ processes = NoTask
    /\ Goes(serving, IF at[serving] = "fault" THEN "woken" ELSE at[serving])
    /\ serving' = NoTask
    /\ UNCHANGED <<vars, running, pager_entries, lockVars>>

-----------------------------------------------------------------------------
(***************************************************************************)
(* worker_task.                                                            *)
(***************************************************************************)
WorkerWorks ==
    /\ running = Worker
    /\ WorkerStep
    /\ UNCHANGED cpuVars

WorkerSleeps ==
    /\ running = Worker /\ pc[Worker] = "idle" /\ \A s \in Slots : queue[s].state # "Pending"
    /\ running' = NoTask
    /\ UNCHANGED <<vars, at, pagerVars, lockVars>>

PagerStep ==
    \/ PagerPop \/ PagerSleeps \/ PagerHits \/ PagerSwapsIn \/ PagerSwappedIn \/ PagerEnters
    \/ PagerLocks \/ PagerSubmits \/ PagerPolls \/ PagerLeaves \/ PagerEvicts \/ PagerEvicted
    \/ PagerStores

\* What a task that has entered the kernel goes on to do.
InKernel(t) ==
    \/ t \in Users /\ (Faults(t) \/ Retries(t) \/ Calls(t) \/ EntersFileIo(t) \/ Queues(t)
                       \/ UserPolls(t) \/ LeavesFileIo(t) \/ \E v \in Users : Kills(t, v))
    \/ at[t] = "read" /\ TakesFiles(t)
    \/ ReadsDirectly(t) \/ InDriver(t) \/ DropsFiles(t)

FNext ==
    \/ \E t \in Tasks : Dispatch(t)
    \/ Preempt
    \/ MainYields \/ TakesFiles(Main)
    \/ PagerStep
    \/ WorkerWorks \/ WorkerSleeps
    \/ \E u \in Users : \E place \in EntryPoints(u) : Enters(u, place)
    \/ \E t \in Users \cup {Main} : InKernel(t)

FSpec == FInit /\ [][FNext]_allVars

\* A quantum is long enough for a kernel task's next step, timer interrupts keep
\* arriving, and the rotation reaches every ready task.  A user task in the kernel
\* is not preempted, so its next step needs no more than to be enabled.  Nothing obliges a user
\* task to fault or to make a system call.
FFairSpec ==
    /\ FSpec
    /\ WF_allVars(MainYields) /\ SF_allVars(Preempt)
    /\ SF_allVars(PagerStep) /\ SF_allVars(WorkerWorks \/ WorkerSleeps)
    /\ WF_allVars(\E u \in Users : InKernel(u)) /\ SF_allVars(InKernel(Main))
    /\ \A t \in Tasks : SF_allVars(Dispatch(t))

-----------------------------------------------------------------------------
(***************************************************************************)
(* Properties.                                                             *)
(***************************************************************************)
\* The task on the CPU waits for a lock, and no interrupt takes the CPU from it.
Spinning ==
    /\ Guard \/ ~InterruptsOn
    /\ \/ /\ running \in Users /\ processes # NoTask
          /\ at[running] \in {"faulting", "call", "read", "msync", "write"}
       \/ running \in Users /\ open_files # NoTask /\ at[running] \in {"read", "write"}
       \/ running = Pager /\ open_files # NoTask /\ ppc = "open"
       \/ running \in Submitters \cup {Worker} /\ ata # NoTask /\ pc[running] = "direct"

\* "A BSP preemption guard prevents another task from spinning on an I/O lock
\* held by the interrupted task" (docs/file-mmap.md), as far as it holds: while
\* the worker performs a request made inside file_fault_io it is not switched
\* away from inside the driver, where it holds the ATA lock a system call would
\* spin on.  Swap requests are made outside file_fault_io and have no such guard.
DriverNotInterrupted ==
    \A t \in Submitters :
        ata = Worker /\ waiting[t] = work.id /\ InFileIo(t) => running = Worker

\* FILE_IO_DEPTH counts the tasks inside file_fault_io and those killed there,
\* each once: nothing else leaves CPU 0 without preemption.
GuardExact ==
    depth = Cardinality({t \in Submitters : InFileIo(t)}) + kills

\* CPU 0 keeps going: the guard is lowered again and again, no task waits for
\* ever in place for a lock, and the shell comes to the end of its commands.  (A
\* task killed inside file_fault_io, or one that is preempted or yields while it
\* holds a lock, can put an end to this.)
Progress == []<>(depth = 0) /\ []<>~Spinning /\ <>[](at[Main] = "user")

\* "User wait loops cannot starve pending page faults" (docs/file-mmap.md) as far
\* as it holds.  While CPU 0 keeps going a fault is served, unless a later one
\* gets the first entry of the queue, which pop looks at first, for ever: neither
\* the pager's queue nor the block queue, which the pager polls without a time
\* limit, loses a request, failed ones included.
ServedUnlessOvertaken ==
    Progress =>
        \A u \in Users :
            \/ at[u] = "fault" ~> at[u] # "fault"
            \/ []<>(\E v \in Users \ {u} : pager_entries[1] = v)
=============================================================================
