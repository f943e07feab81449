------------------------------- MODULE Scheduler -------------------------------
(***************************************************************************)
(* The task scheduler of kernel/src/task.rs: one table of task control      *)
(* blocks shared by all CPUs under the SCHEDULER spin lock, strict          *)
(* priorities with round robin inside a priority, quanta counted by each    *)
(* CPU's timer interrupt, and tasks pinned to the CPU they were created on. *)
(*                                                                         *)
(* Every operation holds SCHEDULER from its first read to its last write,   *)
(* so it is one action.  What is not atomic is kept apart: a switch is      *)
(* published under the lock (prepare_switch) and carried out after the lock *)
(* is released (switch_stacks), and the timer interrupt takes the lock      *)
(* twice (tick, then preempt_from_interrupt).  The other CPUs run between   *)
(* those steps; the CPU itself does not, its interrupts are off.            *)
(*                                                                         *)
(* A deadline wake_tick is kept as the number of ticks left until it.       *)
(***************************************************************************)
EXTENDS Integers, FiniteSets

CONSTANTS
    NSlots,     \* MAX_TASKS, the number of task control blocks and stacks
    NCpus,      \* CPUs that smp::start brings up, CPU 0 included
    MaxId,      \* bound: the last task id handed out
    MaxSleep,   \* bound: the longest sleep, in ticks
    MaxKills,   \* bound: how many kill_process calls reach the scheduler
    FileIo      \* whether tasks of CPU 0 perform file-fault I/O

ASSUME SchedulerAssumption ==
    /\ NSlots \in Nat /\ NCpus \in Nat \ {0} /\ NSlots >= NCpus + 1
    /\ MaxId \in Nat /\ MaxSleep \in Nat \ {0} /\ MaxKills \in Nat
    /\ FileIo \in BOOLEAN

Slots == 0 .. NSlots - 1
Cpus == 0 .. NCpus - 1

LOW == 0
NORMAL == 1
HIGH == 2
Priorities == {LOW, NORMAL, HIGH}

\* TaskPriority::quantum, in timer ticks.
Quantum(p) == CASE p = LOW -> 1 [] p = NORMAL -> 2 [] p = HIGH -> 4

States == {"Empty", "Ready", "Running", "Blocked", "Sleeping", "Dead"}

KERNEL_TASK_ID == 0
IDLE_TASK_ID == 1
NoId == -1                      \* u64::MAX in an empty control block
KernelSlot == 0
IdleSlot == 1

(***************************************************************************)
(* One function per field of a control block, one variable per field of    *)
(* Scheduler, and the per-CPU state around them.  process[s] is what the    *)
(* scheduler's operations depend on of the process a task belongs to:       *)
(* "None" for kernel tasks, "Live", or "Exited" once exited or killed.      *)
(***************************************************************************)
VARIABLES
    state, id, priority, cpu, wake_in, remaining_ticks, process,
    current_slot,           \* per CPU: the slot the scheduler says it runs
    last_selected,          \* per CPU and priority: where round robin resumes
    task_count,
    next_id,                \* NEXT_TASK_ID
    preemption_requested,   \* PREEMPTION_REQUESTED, per CPU
    on_stack,               \* per CPU: the slot whose stack it executes on
    in_irq,                 \* per CPU: between tick and preempt_from_interrupt
    online,                 \* how many CPUs run the scheduler
    file_io,                \* ids of the tasks inside file_fault_io; FILE_IO_DEPTH is its size
    kills                   \* kill_process calls so far (for the bound MaxKills)

tcb == <<state, id, priority, cpu, wake_in, remaining_ticks, process>>
percpu == <<current_slot, last_selected, preemption_requested, on_stack, in_irq, online>>
vars == <<tcb, percpu, task_count, next_id, file_io, kills>>

Init ==
    /\ state = [s \in Slots |-> CASE s = KernelSlot -> "Running"
                                  [] s = IdleSlot -> "Ready"
                                  [] OTHER -> "Empty"]
    /\ id = [s \in Slots |-> CASE s = KernelSlot -> KERNEL_TASK_ID
                               [] s = IdleSlot -> IDLE_TASK_ID
                               [] OTHER -> NoId]
    /\ priority = [s \in Slots |-> CASE s = KernelSlot -> HIGH
                                     [] s = IdleSlot -> LOW
                                     [] OTHER -> NORMAL]
    /\ cpu = [s \in Slots |-> 0]
    /\ wake_in = [s \in Slots |-> 0]
    /\ remaining_ticks = [s \in Slots |-> IF s \in {KernelSlot, IdleSlot}
                                          THEN Quantum(priority[s]) ELSE 0]
    /\ process = [s \in Slots |-> "None"]
    /\ current_slot = [c \in Cpus |-> 0]
    /\ last_selected = [c \in Cpus |-> [p \in Priorities |-> 0]]
    /\ task_count = 2
    /\ next_id = 2
    /\ preemption_requested = [c \in Cpus |-> FALSE]
    /\ on_stack = [c \in Cpus |-> 0]
    /\ in_irq = [c \in Cpus |-> FALSE]
    /\ online = 1
    /\ file_io = {}
    /\ kills = 0

\* Mutants of Reapable and Turn: any CPU reaps any task, and the search always
\* starts at slot 0.
ReapableAnyCpu(c, st) == {s \in Slots : s # current_slot[c] /\ st[s] = "Dead"}
TurnFromZero(c, p, s) == s

(***************************************************************************)
(* reap_dead on CPU c, with st the states at that point of the handler:     *)
(* the dead slots CPU c owns and has left become empty control blocks.      *)
(***************************************************************************)
Reapable(c, st) == {s \in Slots : s # current_slot[c] /\ st[s] = "Dead" /\ cpu[s] = c}

Reset(R, f, v) == [s \in Slots |-> IF s \in R THEN v ELSE f[s]]

\* wake_sleeping: every sleeper whose deadline has passed, of whatever CPU.
Due(st) == {s \in Slots : st[s] = "Sleeping" /\ wake_in[s] = 0}
Awake(st) == [s \in Slots |-> IF s \in Due(st) THEN "Ready" ELSE st[s]]

\* How many steps after the last selected slot round robin meets slot s.
Turn(c, p, s) == IF s > last_selected[c][p]
                 THEN s - last_selected[c][p]
                 ELSE s + NSlots - last_selected[c][p]

ReadyOn(c, st) == {s \in Slots : st[s] = "Ready" /\ cpu[s] = c}

\* The slot prepare_switch picks: the highest priority, then the next turn.
IsNext(c, st, s) ==
    /\ s \in ReadyOn(c, st)
    /\ \A t \in ReadyOn(c, st) :
          \/ priority[t] < priority[s]
          \/ priority[t] = priority[s] /\ Turn(c, priority[s], s) <= Turn(c, priority[s], t)

(***************************************************************************)
(* prepare_switch on CPU c.  st, w are the states and deadlines the caller  *)
(* has already written.  With no ready task of CPU c, only reap_dead takes  *)
(* effect and the CPU stays where it is.                                    *)
(***************************************************************************)
StayHere(c, st) ==
    /\ state' = Reset(Reapable(c, st), st, "Empty")
    /\ remaining_ticks' = Reset(Reapable(c, st), remaining_ticks, 0)
    /\ UNCHANGED <<current_slot, last_selected>>

SwitchTo(c, st, next) ==
    /\ state' = [s \in Slots |->
                   IF s = next THEN "Running"
                   ELSE IF s = current_slot[c] /\ st[s] = "Running" THEN "Ready"
                   ELSE IF s \in Reapable(c, st) THEN "Empty" ELSE st[s]]
    /\ remaining_ticks' = [Reset(Reapable(c, st), remaining_ticks, 0)
                             EXCEPT ![next] = Quantum(priority[next])]
    /\ current_slot' = [current_slot EXCEPT ![c] = next]
    /\ last_selected' = [last_selected EXCEPT ![c][priority[next]] = next]

PrepareSwitch(c, st, w) ==
    /\ id' = Reset(Reapable(c, st), id, NoId)
    /\ priority' = Reset(Reapable(c, st), priority, NORMAL)
    /\ cpu' = Reset(Reapable(c, st), cpu, 0)
    /\ wake_in' = Reset(Reapable(c, st), w, 0)
    /\ process' = Reset(Reapable(c, st), process, "None")
    /\ \/ ReadyOn(c, st) = {} /\ StayHere(c, st)
       \/ \E next \in Slots : IsNext(c, st, next) /\ SwitchTo(c, st, next)

\* CPU c runs the code of its current task: up, not switching, not in the timer.
Executing(c) == c < online /\ on_stack[c] = current_slot[c] /\ ~in_irq[c]

\* switch_stacks: the CPU leaves the old stack for the published one.
SwitchStacks(c) ==
    /\ c < online
    /\ on_stack[c] # current_slot[c]
    /\ on_stack' = [on_stack EXCEPT ![c] = current_slot[c]]
    /\ UNCHANGED <<tcb, current_slot, last_selected, preemption_requested, in_irq, online,
                   task_count, next_id, file_io, kills>>

-----------------------------------------------------------------------------
(***************************************************************************)
(* Creating tasks.  The free slot is the first empty one; initialize leaves *)
(* the cpu field of the control block as reap_dead's empty() left it.       *)
(***************************************************************************)
IsFreeSlot(s, st) == st[s] = "Empty" /\ \A t \in Slots : st[t] = "Empty" => s <= t

Initialize(s, p) ==
    /\ id' = [id EXCEPT ![s] = next_id]
    /\ state' = [state EXCEPT ![s] = "Ready"]
    /\ priority' = [priority EXCEPT ![s] = p]
    /\ wake_in' = [wake_in EXCEPT ![s] = 0]
    /\ remaining_ticks' = [remaining_ticks EXCEPT ![s] = Quantum(p)]

\* spawn_with_priority, by a kernel task of CPU 0.
SpawnWithPriority(p) ==
    /\ Executing(0) /\ process[current_slot[0]] = "None" /\ task_count # 0
    /\ next_id <= MaxId
    /\ \E s \in Slots : IsFreeSlot(s, state) /\ Initialize(s, p)
    /\ task_count' = task_count + 1
    /\ next_id' = next_id + 1
    /\ UNCHANGED <<cpu, process, percpu, file_io, kills>>

\* smp::online_count: it counts the other CPUs once all of them are up.
OnlineCount == IF online = NCpus THEN NCpus ELSE 1

\* spawn_on, and the placement spawn_parallel chose before it took the lock again.
SpawnOn(target) ==
    /\ Executing(0) /\ process[current_slot[0]] = "None" /\ target < OnlineCount
    /\ next_id <= MaxId
    /\ \E s \in Slots :
          /\ IsFreeSlot(s, state)
          /\ Initialize(s, NORMAL)
          /\ cpu' = [cpu EXCEPT ![s] = target]
    /\ task_count' = task_count + 1
    /\ next_id' = next_id + 1
    /\ UNCHANGED <<process, percpu, file_io, kills>>

\* init_ap: the next CPU comes up inside its own idle task.
InitAp ==
    /\ online < NCpus
    /\ \E s \in Slots :
          /\ IsFreeSlot(s, state)
          /\ id' = [id EXCEPT ![s] = next_id]
          /\ state' = [state EXCEPT ![s] = "Running"]
          /\ priority' = [priority EXCEPT ![s] = LOW]
          /\ wake_in' = [wake_in EXCEPT ![s] = 0]
          /\ remaining_ticks' = [remaining_ticks EXCEPT ![s] = Quantum(LOW)]
          /\ cpu' = [cpu EXCEPT ![s] = online]
          /\ current_slot' = [current_slot EXCEPT ![online] = s]
          /\ on_stack' = [on_stack EXCEPT ![online] = s]
    /\ online' = online + 1
    /\ task_count' = task_count + 1
    /\ next_id' = next_id + 1
    /\ UNCHANGED <<process, last_selected, preemption_requested, in_irq, file_io, kills>>

\* spawn_user_process and fork_current reap CPU 0's dead slots before they
\* look for a free one, and give the task normal priority.
SpawnUser ==
    LET R == Reapable(0, state)
        st == Reset(R, state, "Empty")
    IN  /\ Executing(0)
        /\ next_id <= MaxId
        /\ \E s \in Slots :
              /\ IsFreeSlot(s, st)
              /\ id' = [Reset(R, id, NoId) EXCEPT ![s] = next_id]
              /\ state' = [st EXCEPT ![s] = "Ready"]
              /\ priority' = [Reset(R, priority, NORMAL) EXCEPT ![s] = NORMAL]
              /\ wake_in' = [Reset(R, wake_in, 0) EXCEPT ![s] = 0]
              /\ remaining_ticks' = [Reset(R, remaining_ticks, 0) EXCEPT ![s] = Quantum(NORMAL)]
              /\ process' = [Reset(R, process, "None") EXCEPT ![s] = "Live"]
              /\ cpu' = Reset(R, cpu, 0)
        /\ task_count' = task_count + 1
        /\ next_id' = next_id + 1
        /\ UNCHANGED <<percpu, file_io, kills>>

-----------------------------------------------------------------------------
(***************************************************************************)
(* What the running task may ask for.  None of these looks at the state of  *)
(* the current slot: it is overwritten.                                     *)
(***************************************************************************)
\* yield_now, and preemption_point, which also clears the request.
YieldNow(c) ==
    /\ Executing(c) /\ task_count # 0
    /\ PrepareSwitch(c, state, wake_in)
    /\ preemption_requested' \in {preemption_requested,
                                  [preemption_requested EXCEPT ![c] = FALSE]}
    /\ UNCHANGED <<on_stack, in_irq, online, task_count, next_id, file_io, kills>>

\* Mutant of MayStop: idle tasks may stop too.
MayStopIdle(c) == Executing(c) /\ id[current_slot[c]] # KERNEL_TASK_ID

\* Idle tasks only yield; the kernel task is refused by an assertion.
\* Inside file_fault_io a task gives up the CPU only by yielding.
MayStop(c) == /\ Executing(c)
              /\ id[current_slot[c]] # KERNEL_TASK_ID
              /\ priority[current_slot[c]] # LOW
              /\ id[current_slot[c]] \notin file_io

\* block_current and block_current_from_exception.
BlockCurrent(c) ==
    /\ MayStop(c) /\ c = 0
    /\ PrepareSwitch(c, [state EXCEPT ![current_slot[c]] = "Blocked"], wake_in)
    /\ UNCHANGED <<preemption_requested, on_stack, in_irq, online,
                   task_count, next_id, file_io, kills>>

SleepCurrent(c) ==
    /\ MayStop(c)
    /\ \E n \in 1 .. MaxSleep :
          PrepareSwitch(c, [state EXCEPT ![current_slot[c]] = "Sleeping"],
                           [wake_in EXCEPT ![current_slot[c]] = n])
    /\ UNCHANGED <<preemption_requested, on_stack, in_irq, online,
                   task_count, next_id, file_io, kills>>

\* exit_current_task, and the scheduler part of exit_current_process.
ExitCurrent(c) ==
    /\ MayStop(c)
    /\ PrepareSwitch(c, [state EXCEPT ![current_slot[c]] = "Dead"], wake_in)
    /\ task_count' = IF task_count = 0 THEN 0 ELSE task_count - 1
    /\ UNCHANGED <<preemption_requested, on_stack, in_irq, online, next_id, file_io, kills>>

\* Mutant of WakeTask: the state is not looked at.
WakeAnyState(i) ==
    /\ Executing(0)
    /\ \E s \in Slots : id[s] = i /\ state' = [state EXCEPT ![s] = "Ready"]
    /\ UNCHANGED <<id, priority, cpu, wake_in, remaining_ticks, process, percpu,
                   task_count, next_id, file_io, kills>>

\* wake_task, called by tasks of CPU 0; the id may be of a task long gone.
WakeTask(i) ==
    /\ Executing(0)
    /\ \E s \in Slots :
          /\ id[s] = i /\ state[s] \in {"Blocked", "Sleeping"}
          /\ state' = [state EXCEPT ![s] = "Ready"]
          /\ wake_in' = [wake_in EXCEPT ![s] = 0]
    /\ UNCHANGED <<id, priority, cpu, remaining_ticks, process, percpu,
                   task_count, next_id, file_io, kills>>

\* kill_process: the processes of K, the caller's own among them if it is
\* selected, are marked exited and their tasks dead.
KillProcess(K) ==
    /\ Executing(0) /\ kills < MaxKills
    /\ K # {} /\ \A s \in K : process[s] = "Live"
    /\ state' = Reset(K, state, "Dead")
    /\ process' = Reset(K, process, "Exited")
    /\ LET dying == Cardinality({s \in K : state[s] # "Dead"})
       IN  task_count' = IF task_count < dying THEN 0 ELSE task_count - dying
    /\ kills' = kills + 1
    /\ UNCHANGED <<id, priority, cpu, wake_in, remaining_ticks, percpu, next_id, file_io>>

\* file_fault_io brackets a backing read made by a task of CPU 0.
FileIoEnter ==
    /\ FileIo /\ Executing(0)
    /\ priority[current_slot[0]] = NORMAL /\ id[current_slot[0]] \notin file_io
    /\ file_io' = file_io \cup {id[current_slot[0]]}
    /\ UNCHANGED <<tcb, percpu, task_count, next_id, kills>>

FileIoLeave ==
    /\ Executing(0) /\ id[current_slot[0]] \in file_io
    /\ file_io' = file_io \ {id[current_slot[0]]}
    /\ UNCHANGED <<tcb, percpu, task_count, next_id, kills>>

-----------------------------------------------------------------------------

\* record_tick: only CPU 0's timer moves the clock, and every deadline nears.
Clock(c) == [s \in Slots |-> IF c = 0 /\ state[s] = "Sleeping" /\ wake_in[s] > 0
                             THEN wake_in[s] - 1 ELSE wake_in[s]]

Tick(c) ==
    LET cur == current_slot[c]
        w == Clock(c)
        due == {s \in Slots : state[s] = "Sleeping" /\ w[s] = 0}
    IN  /\ Executing(c)
        /\ state' = Reset(due, state, "Ready")
        /\ wake_in' = w
        /\ IF state[cur] # "Running"
           THEN UNCHANGED <<remaining_ticks, preemption_requested>>
           ELSE IF remaining_ticks[cur] > 1
           THEN /\ remaining_ticks' = [remaining_ticks EXCEPT ![cur] = @ - 1]
                /\ UNCHANGED preemption_requested
           ELSE /\ remaining_ticks' = [remaining_ticks EXCEPT ![cur] = 0]
                /\ preemption_requested' = [preemption_requested EXCEPT ![c] = TRUE]
        /\ in_irq' = [in_irq EXCEPT ![c] = TRUE]
        /\ UNCHANGED <<id, priority, cpu, process, current_slot, last_selected, on_stack,
                       online, task_count, next_id, file_io, kills>>

TickContended(c) ==
    /\ Executing(c)
    /\ wake_in' = Clock(c)
    /\ preemption_requested' = [preemption_requested EXCEPT ![c] = TRUE]
    /\ in_irq' = [in_irq EXCEPT ![c] = TRUE]
    /\ UNCHANGED <<state, id, priority, cpu, remaining_ticks, process, current_slot,
                   last_selected, on_stack, online, task_count, next_id, file_io, kills>>

\* CPU 0 inside file_fault_io, on behalf of any task, is not preempted.
Guarded(c) == c = 0 /\ file_io # {}

PreemptFromInterrupt(c) ==
    /\ c < online /\ in_irq[c]
    /\ ~Guarded(c) /\ preemption_requested[c]
    /\ preemption_requested' = [preemption_requested EXCEPT ![c] = FALSE]
    /\ in_irq' = [in_irq EXCEPT ![c] = FALSE]
    /\ PrepareSwitch(c, Awake(state), wake_in)
    /\ UNCHANGED <<on_stack, online, task_count, next_id, file_io, kills>>

\* The early returns: guarded, not requested, or the lock is taken.
ReturnFromInterrupt(c) ==
    /\ c < online /\ in_irq[c]
    /\ in_irq' = [in_irq EXCEPT ![c] = FALSE]
    /\ UNCHANGED <<tcb, current_slot, last_selected, preemption_requested, on_stack, online,
                   task_count, next_id, file_io, kills>>

-----------------------------------------------------------------------------
CpuStep(c) ==
    \/ SwitchStacks(c)
    \/ YieldNow(c)
    \/ BlockCurrent(c)
    \/ SleepCurrent(c)
    \/ ExitCurrent(c)
    \/ Tick(c)
    \/ TickContended(c)
    \/ PreemptFromInterrupt(c)
    \/ ReturnFromInterrupt(c)

BspStep ==
    \/ SpawnWithPriority(NORMAL)
    \/ \E target \in Cpus : SpawnOn(target)
    \/ InitAp
    \/ SpawnUser
    \/ \E i \in 0 .. MaxId : WakeTask(i)
    \/ \E K \in SUBSET Slots : KillProcess(K)
    \/ FileIoEnter
    \/ FileIoLeave

Next == BspStep \/ \E c \in Cpus : CpuStep(c)

Spec == Init /\ [][Next]_vars

-----------------------------------------------------------------------------
(***************************************************************************)
(* Properties.                                                             *)
(***************************************************************************)
\* Every field has its type; ids are those handed out so far.
TypeOK ==
    /\ state \in [Slots -> States]
    /\ id \in [Slots -> Int]
    /\ priority \in [Slots -> Priorities]
    /\ cpu \in [Slots -> Cpus]
    /\ wake_in \in [Slots -> Nat]
    /\ remaining_ticks \in [Slots -> Nat]
    /\ process \in [Slots -> {"None", "Live", "Exited"}]
    /\ current_slot \in [Cpus -> Slots]
    /\ last_selected \in [Cpus -> [Priorities -> Slots]]
    /\ task_count \in Nat
    /\ next_id \in Nat
    /\ preemption_requested \in [Cpus -> BOOLEAN]
    /\ on_stack \in [Cpus -> Slots]
    /\ in_irq \in [Cpus -> BOOLEAN]
    /\ online \in 1 .. NCpus
    /\ file_io \in SUBSET Int
    /\ kills \in Nat

Up == 0 .. online - 1

\* "Only the owning CPU can switch away from or reap a task's stack": a stack
\* some CPU executes on belongs to a task of that CPU and is never recycled,
\* not even between publishing a switch away from a dead task and leaving it.
StackOwned ==
    \A c \in Up : /\ state[on_stack[c]] # "Empty"
                  /\ cpu[on_stack[c]] = c
                  /\ state[current_slot[c]] # "Empty"
                  /\ cpu[current_slot[c]] = c

\* A task runs on one CPU at most: a control block is in state Running only
\* as the current slot of the CPU it is pinned to.
RunningIsCurrent ==
    \A s \in Slots : state[s] = "Running" => cpu[s] < online /\ current_slot[cpu[s]] = s

\* Block, sleep and exit always find another task to run: the CPU never goes
\* on executing a task the scheduler holds blocked, sleeping or ready.  Dead
\* is the task that killed itself, which runs until it next gives up the CPU.
CurrentRuns ==
    \A c \in Up : /\ state[current_slot[c]] \in {"Running", "Dead"}
                  /\ state[current_slot[c]] = "Dead" => c = 0 /\ process[current_slot[c]] = "Exited"

\* What the three invariants above need to be inductive: a CPU that is up owns
\* an idle task that is ready or running; empty control blocks are those of
\* empty(), so initialize may leave the cpu field alone; only tasks of normal
\* priority on CPU 0 have a process; no CPU is both in its timer interrupt and
\* between two stacks.
Support ==
    /\ \A c \in Up : \E s \in Slots : /\ cpu[s] = c /\ priority[s] = LOW
                                      /\ state[s] \in {"Ready", "Running"}
    /\ \A s \in Slots : state[s] = "Empty" => cpu[s] = 0 /\ process[s] = "None"
    /\ \A s \in Slots : process[s] # "None" => cpu[s] = 0 /\ priority[s] = NORMAL
    /\ \A c \in Up : in_irq[c] => on_stack[c] = current_slot[c]

\* The inductive invariant: on top of the properties above, whatever kill, exit,
\* reaping and the two halves of a switch on another CPU leave behind, each CPU
\* has a task of its own to return to, so prepare_switch finds a successor.
IInv == TypeOK /\ StackOwned /\ RunningIsCurrent /\ CurrentRuns /\ Support

\* A dead task's control block only ever becomes empty: it is never selected
\* again (the comment at the switch in exit_current_task).  It holds of every
\* dead task its CPU has left.
DeadStaysDead ==
    [][\A s \in Slots :
          state[s] = "Dead" /\ (\A c \in Up : current_slot[c] # s)
            => state'[s] \in {"Dead", "Empty", "Ready"} /\ (state'[s] = "Ready" => id'[s] # id[s])]_vars

(***************************************************************************)
(* Fairness: timer interrupts keep coming to every CPU that is up, each one *)
(* returns, and, SCHEDULER being held for short bounded sections only, not  *)
(* every one of them finds the lock taken.                                  *)
(***************************************************************************)
FairSpec ==
    /\ Spec
    /\ \A c \in Cpus : /\ WF_vars(SwitchStacks(c))
                        /\ SF_vars(Tick(c))
                        /\ SF_vars(PreemptFromInterrupt(c))
                        /\ WF_vars(ReturnFromInterrupt(c))

\* Timer interrupts keep finding CPU c at work for a live task, outside
\* file_fault_io.  They need not: tick asks for preemption only while the current
\* task is in state Running, so a process that kills itself and does not enter
\* the scheduler any more keeps the CPU.
Interruptible(c) == in_irq[c] /\ ~Guarded(c) /\ state[current_slot[c]] # "Dead"

\* Round robin starves no task of normal priority, whatever the others do, not
\* even when the running ones never yield, as long as each CPU that is up stays
\* interruptible.
ReadyRuns ==
    (\A c \in Cpus : []<>(c < online => Interruptible(c))) =>
        \A s \in Slots : (state[s] = "Ready" /\ priority[s] = NORMAL) ~> (state[s] # "Ready")

=============================================================================
