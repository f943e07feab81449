---------------------------- MODULE SchedulerProofs ----------------------------
(***************************************************************************)
(* Proofs about Scheduler, for any number of task slots and CPUs.  IInv is  *)
(* inductive.  Every operation that gives up a CPU goes through             *)
(* PrepareSwitch, so what prepare_switch preserves is proved once, as the   *)
(* lemma SwitchKeeps, from what its callers have in common.                 *)
(***************************************************************************)
EXTENDS Scheduler, FiniteSetTheorems, TLAPS

(***************************************************************************)
(* What a caller hands to PrepareSwitch: states st that differ from state   *)
(* only at the CPU's own current slot and by waking sleepers.               *)
(***************************************************************************)
Prepared(c, st) ==
    /\ st \in [Slots -> States]
    /\ st[current_slot[c]] # "Empty" /\ st[current_slot[c]] # "Ready"
    /\ st[current_slot[c]] = "Running" => state[current_slot[c]] = "Running"
    /\ \A s \in Slots : s # current_slot[c] =>
          st[s] = state[s] \/ (state[s] = "Sleeping" /\ st[s] = "Ready")
    /\ \E s \in Slots : cpu[s] = c /\ priority[s] = LOW /\ st[s] \in {"Ready", "Running"}
    /\ \A s \in Slots : priority[s] = LOW /\ state[s] = "Running" => st[s] = "Running"

LEMMA QuantumType ==
    \A p \in Priorities : Quantum(p) \in Nat
BY DEF Quantum, Priorities, LOW, NORMAL, HIGH

LEMMA CpuFacts ==
    ASSUME TypeOK
    PROVE  /\ Up \subseteq Cpus
           /\ 0 \in Up /\ 0 \in Cpus
           /\ \A c \in Cpus : c < online <=> c \in Up
<1>1. NCpus \in Nat /\ NCpus > 0
  BY SchedulerAssumption DEF SchedulerAssumption
<1>2. online \in 1 .. NCpus
  BY DEF TypeOK
<1> QED BY <1>1, <1>2 DEF Up, Cpus

LEMMA ResetType ==
    ASSUME NEW S, NEW R, NEW f \in [Slots -> S], NEW v \in S
    PROVE  Reset(R, f, v) \in [Slots -> S]
BY DEF Reset

\* prepare_switch leaves the types right, whichever task it selects.
LEMMA SwitchTypes ==
    ASSUME IInv, NEW c \in Up, NEW st, NEW w \in [Slots -> Nat],
           Prepared(c, st), PrepareSwitch(c, st, w)
    PROVE  /\ state' \in [Slots -> States]
           /\ id' \in [Slots -> Int]
           /\ priority' \in [Slots -> Priorities]
           /\ cpu' \in [Slots -> Cpus]
           /\ wake_in' \in [Slots -> Nat]
           /\ remaining_ticks' \in [Slots -> Nat]
           /\ process' \in [Slots -> {"None", "Live", "Exited"}]
           /\ current_slot' \in [Cpus -> Slots]
           /\ last_selected' \in [Cpus -> [Priorities -> Slots]]
<1>1. c \in Cpus /\ 0 \in Cpus
  BY CpuFacts DEF IInv
<1>2. /\ id' \in [Slots -> Int] /\ priority' \in [Slots -> Priorities]
      /\ cpu' \in [Slots -> Cpus] /\ wake_in' \in [Slots -> Nat]
      /\ process' \in [Slots -> {"None", "Live", "Exited"}]
  <2>1. /\ id \in [Slots -> Int] /\ priority \in [Slots -> Priorities]
        /\ cpu \in [Slots -> Cpus] /\ process \in [Slots -> {"None", "Live", "Exited"}]
    BY DEF IInv, TypeOK
  <2>2. NoId \in Int /\ NORMAL \in Priorities
    BY DEF NoId, NORMAL, Priorities
  <2> QED BY <1>1, <2>1, <2>2, ResetType DEF PrepareSwitch
<1>3. CASE StayHere(c, st)
  <2>1. state' \in [Slots -> States]
    BY <1>3 DEF StayHere, Reset, Prepared, States
  <2>2. remaining_ticks' \in [Slots -> Nat]
    BY <1>3 DEF StayHere, Reset, IInv, TypeOK
  <2> QED BY <1>2, <1>3, <2>1, <2>2 DEF StayHere, IInv, TypeOK
<1>4. CASE \E next \in Slots : SwitchTo(c, st, next)
  <2>1. PICK next \in Slots : SwitchTo(c, st, next)
    BY <1>4
  <2>2. state' \in [Slots -> States]
    BY <2>1 DEF SwitchTo, Prepared, States
  <2>3. priority[next] \in Priorities /\ Quantum(priority[next]) \in Nat
    BY QuantumType DEF IInv, TypeOK
  <2>4. remaining_ticks' \in [Slots -> Nat]
    BY <2>1, <2>3 DEF SwitchTo, Reset, IInv, TypeOK
  <2>5. current_slot' \in [Cpus -> Slots]
    BY <2>1, <1>1 DEF SwitchTo, IInv, TypeOK
  <2>6. last_selected' \in [Cpus -> [Priorities -> Slots]]
    BY <2>1, <2>3, <1>1 DEF SwitchTo, IInv, TypeOK
  <2> QED BY <1>2, <2>2, <2>4, <2>5, <2>6
<1> QED BY <1>3, <1>4 DEF PrepareSwitch

(***************************************************************************)
(* prepare_switch keeps the rest of the invariant.  Reaping spares every    *)
(* stack in use: CPU c's own because it is still its current slot, those of *)
(* the other CPUs because it only reaps its own tasks.  It finds a task to  *)
(* run because CPU c's idle task is ready unless it is the one running.     *)
(***************************************************************************)
LEMMA SwitchKeeps ==
    ASSUME IInv, NEW c \in Up, NEW st, NEW w \in [Slots -> Nat],
           Prepared(c, st), PrepareSwitch(c, st, w),
           on_stack[c] = current_slot[c],
           UNCHANGED <<on_stack, online>>,
           in_irq' = in_irq \/ in_irq' = [in_irq EXCEPT ![c] = FALSE],
           ~in_irq'[c]
    PROVE  StackOwned' /\ RunningIsCurrent' /\ CurrentRuns' /\ Support'
<1> DEFINE cur == current_slot[c]
           R == Reapable(c, st)
<1>1. /\ c \in Cpus /\ Up \subseteq Cpus /\ 0 \in Up /\ Up' = Up
      /\ cur \in Slots
      /\ \A d \in Up : current_slot[d] \in Slots /\ on_stack[d] \in Slots
      /\ \A s \in Slots : cpu[s] \in Cpus /\ (cpu[s] < online <=> cpu[s] \in Up)
  BY CpuFacts DEF IInv, TypeOK, Up
<1>2. /\ \A s \in Slots : s \in R <=> s # cur /\ st[s] = "Dead" /\ cpu[s] = c
      /\ \A s \in R : state[s] = "Dead" /\ s \in Slots
  BY <1>1 DEF Reapable, Prepared
<1>3. \A d \in Up : current_slot[d] \notin R /\ on_stack[d] \notin R
  BY <1>1, <1>2 DEF IInv, StackOwned
<1>4. /\ \A s \in Slots : cpu'[s] = IF s \in R THEN 0 ELSE cpu[s]
      /\ \A s \in Slots : priority'[s] = IF s \in R THEN NORMAL ELSE priority[s]
      /\ \A s \in Slots : process'[s] = IF s \in R THEN "None" ELSE process[s]
  BY DEF PrepareSwitch, Reset
<1>5. PICK idle \in Slots : cpu[idle] = c /\ priority[idle] = LOW /\ st[idle] \in {"Ready", "Running"}
  BY DEF Prepared
<1>6. CASE ReadyOn(c, st) = {} /\ StayHere(c, st)
  <2>1. /\ \A s \in Slots : state'[s] = IF s \in R THEN "Empty" ELSE st[s]
        /\ current_slot' = current_slot
    BY <1>6 DEF StayHere, Reset
  <2>2. idle = cur /\ st[cur] = "Running" /\ state[cur] = "Running"
    BY <1>1, <1>5, <1>6 DEF ReadyOn, Prepared, IInv, RunningIsCurrent
  <2>3. StackOwned'
    BY <1>1, <1>3, <1>4, <2>1, <2>2 DEF StackOwned, IInv, Prepared
  <2>4. RunningIsCurrent'
    BY <1>1, <1>2, <1>4, <2>1, <2>2 DEF RunningIsCurrent, IInv, Prepared
  <2>5. CurrentRuns'
    BY <1>1, <1>3, <1>4, <2>1, <2>2 DEF CurrentRuns, IInv, Prepared, StackOwned
  <2>6. Support'
    <3>1. \A d \in Up : \E s \in Slots : /\ cpu'[s] = d /\ priority'[s] = LOW
                                         /\ state'[s] \in {"Ready", "Running"}
      <4> TAKE d \in Up
      <4>1. CASE d = c
        BY <4>1, <1>2, <1>4, <1>5, <2>1
      <4>2. CASE d # c
        <5>1. PICK s \in Slots : cpu[s] = d /\ priority[s] = LOW /\ state[s] \in {"Ready", "Running"}
          BY DEF IInv, Support
        <5>2. s # cur /\ s \notin R /\ st[s] = state[s]
          BY <5>1, <4>2, <1>1, <1>2 DEF IInv, StackOwned, Prepared
        <5> QED BY <5>1, <5>2, <1>4, <2>1
      <4> QED BY <4>1, <4>2
    <3>2. \A s \in Slots : state'[s] = "Empty" => cpu'[s] = 0 /\ process'[s] = "None"
      BY <1>1, <1>4, <2>1, <2>2 DEF IInv, Support, Prepared
    <3>3. \A s \in Slots : process'[s] # "None" => cpu'[s] = 0 /\ priority'[s] = NORMAL
      BY <1>4 DEF IInv, Support
    <3>4. \A d \in Up : in_irq'[d] => on_stack'[d] = current_slot'[d]
      BY <1>1, <2>1 DEF IInv, Support, TypeOK
    <3> QED BY <1>1, <3>1, <3>2, <3>3, <3>4 DEF Support
  <2> QED BY <2>3, <2>4, <2>5, <2>6
<1>7. ASSUME NEW next \in Slots, IsNext(c, st, next), SwitchTo(c, st, next)
      PROVE  StackOwned' /\ RunningIsCurrent' /\ CurrentRuns' /\ Support'
  <2>1. /\ \A s \in Slots : state'[s] = IF s = next THEN "Running"
                                        ELSE IF s = cur /\ st[s] = "Running" THEN "Ready"
                                        ELSE IF s \in R THEN "Empty" ELSE st[s]
        /\ current_slot' = [current_slot EXCEPT ![c] = next]
    BY <1>7 DEF SwitchTo
  <2>2. st[next] = "Ready" /\ cpu[next] = c /\ next # cur /\ next \notin R
    BY <1>7, <1>2 DEF IsNext, ReadyOn, Prepared
  <2>3. /\ current_slot'[c] = next
        /\ \A d \in Up : d # c => current_slot'[d] = current_slot[d] /\ current_slot'[d] # next
    BY <1>1, <2>1, <2>2 DEF IInv, TypeOK, StackOwned
  <2>4. StackOwned'
    <3> SUFFICES ASSUME NEW d \in Up
                 PROVE  /\ state'[on_stack[d]] # "Empty" /\ cpu'[on_stack[d]] = d
                        /\ state'[current_slot'[d]] # "Empty" /\ cpu'[current_slot'[d]] = d
      BY <1>1 DEF StackOwned
    <3>1. state'[on_stack[d]] # "Empty" /\ cpu'[on_stack[d]] = d
      BY <1>1, <1>3, <1>4, <2>1 DEF IInv, StackOwned, Prepared
    <3>2. CASE d = c
      BY <3>1, <3>2, <1>4, <2>1, <2>2, <2>3
    <3>3. CASE d # c
      BY <3>1, <3>3, <1>1, <1>3, <1>4, <2>1, <2>3 DEF IInv, StackOwned, Prepared
    <3> QED BY <3>2, <3>3
  <2>5. RunningIsCurrent'
    <3> SUFFICES ASSUME NEW s \in Slots, state'[s] = "Running"
                 PROVE  cpu'[s] < online /\ current_slot'[cpu'[s]] = s
      BY DEF RunningIsCurrent
    <3>1. CASE s = next
      BY <3>1, <1>1, <1>4, <2>2, <2>3
    <3>2. CASE s # next
      <4>1. s # cur /\ s \notin R /\ state[s] = "Running" /\ cpu'[s] = cpu[s]
        BY <3>2, <1>1, <1>4, <2>1 DEF Prepared
      <4>2. cpu[s] \in Up /\ current_slot[cpu[s]] = s /\ cpu[s] # c
        BY <4>1, <1>1 DEF IInv, RunningIsCurrent
      <4> QED BY <4>1, <4>2, <1>1, <2>3
    <3> QED BY <3>1, <3>2
  <2>6. CurrentRuns'
    <3> SUFFICES ASSUME NEW d \in Up
                 PROVE  /\ state'[current_slot'[d]] \in {"Running", "Dead"}
                        /\ state'[current_slot'[d]] = "Dead" =>
                              d = 0 /\ process'[current_slot'[d]] = "Exited"
      BY <1>1 DEF CurrentRuns
    <3>1. CASE d = c
      BY <3>1, <2>1, <2>3
    <3>2. CASE d # c
      <4>1. current_slot'[d] = current_slot[d] /\ current_slot[d] # cur /\ current_slot[d] # next
        BY <3>2, <1>1, <2>3 DEF IInv, StackOwned
      <4> QED BY <4>1, <3>2, <1>1, <1>3, <1>4, <2>1 DEF IInv, CurrentRuns, Prepared
    <3> QED BY <3>1, <3>2
  <2>7. Support'
    <3>1. \A d \in Up : \E s \in Slots : /\ cpu'[s] = d /\ priority'[s] = LOW
                                         /\ state'[s] \in {"Ready", "Running"}
      <4> TAKE d \in Up
      <4>1. CASE d = c
        BY <4>1, <1>2, <1>4, <1>5, <2>1
      <4>2. CASE d # c
        <5>1. PICK s \in Slots : cpu[s] = d /\ priority[s] = LOW /\ state[s] \in {"Ready", "Running"}
          BY DEF IInv, Support
        <5>2. s # cur /\ s # next /\ s \notin R /\ st[s] = state[s]
          BY <5>1, <4>2, <1>1, <1>2, <2>2 DEF IInv, StackOwned, Prepared
        <5> QED BY <5>1, <5>2, <1>4, <2>1
      <4> QED BY <4>1, <4>2
    <3>2. \A s \in Slots : state'[s] = "Empty" => cpu'[s] = 0 /\ process'[s] = "None"
      BY <1>1, <1>4, <2>1, <2>2 DEF IInv, Support, Prepared
    <3>3. \A s \in Slots : process'[s] # "None" => cpu'[s] = 0 /\ priority'[s] = NORMAL
      BY <1>4 DEF IInv, Support
    <3>4. \A d \in Up : in_irq'[d] => on_stack'[d] = current_slot'[d]
      <4> SUFFICES ASSUME NEW d \in Up, in_irq'[d]
                   PROVE  on_stack'[d] = current_slot'[d]
        OBVIOUS
      <4>1. d # c /\ in_irq[d]
        BY <1>1 DEF IInv, TypeOK
      <4> QED BY <4>1, <2>3 DEF IInv, Support
    <3> QED BY <1>1, <3>1, <3>2, <3>3, <3>4 DEF Support
  <2> QED BY <2>4, <2>5, <2>6, <2>7
<1> QED BY <1>6, <1>7 DEF PrepareSwitch

(***************************************************************************)
(* The callers of prepare_switch hand it states that qualify.              *)
(***************************************************************************)
LEMMA YieldPrepared ==
    ASSUME IInv, NEW c \in Up
    PROVE  Prepared(c, state)
BY CpuFacts DEF IInv, TypeOK, CurrentRuns, Support, Prepared

LEMMA AwakePrepared ==
    ASSUME IInv, NEW c \in Up
    PROVE  Prepared(c, Awake(state))
<1>1. /\ state \in [Slots -> States] /\ current_slot[c] \in Slots
      /\ state[current_slot[c]] \in {"Running", "Dead"}
  BY CpuFacts DEF IInv, TypeOK, CurrentRuns
<1>2. \A s \in Slots : Awake(state)[s] = IF state[s] = "Sleeping" /\ wake_in[s] = 0
                                         THEN "Ready" ELSE state[s]
  BY DEF Awake, Due
<1>3. Awake(state) \in [Slots -> States]
  BY <1>1 DEF Awake, States
<1> QED BY <1>1, <1>2, <1>3 DEF Prepared, IInv, Support

LEMMA StopPrepared ==
    ASSUME IInv, NEW c \in Up, priority[current_slot[c]] # LOW,
           NEW v \in {"Blocked", "Sleeping", "Dead"}
    PROVE  Prepared(c, [state EXCEPT ![current_slot[c]] = v])
<1>1. state \in [Slots -> States] /\ current_slot[c] \in Slots
  BY CpuFacts DEF IInv, TypeOK
<1>2. PICK s \in Slots : cpu[s] = c /\ priority[s] = LOW /\ state[s] \in {"Ready", "Running"}
  BY DEF IInv, Support
<1>3. v \in States
  BY DEF States
<1> QED BY <1>1, <1>2, <1>3 DEF Prepared

\* A step that gives up the CPU keeps the invariant.
LEMMA SwitchStep ==
    ASSUME IInv, NEW c \in Up, NEW st, NEW w \in [Slots -> Nat],
           Prepared(c, st), PrepareSwitch(c, st, w),
           on_stack[c] = current_slot[c],
           UNCHANGED <<on_stack, online, next_id, file_io, kills>>,
           in_irq' = in_irq \/ in_irq' = [in_irq EXCEPT ![c] = FALSE],
           ~in_irq'[c],
           task_count' \in Nat,
           preemption_requested' \in [Cpus -> BOOLEAN]
    PROVE  IInv'
<1>1. TypeOK'
  <2>1. in_irq' \in [Cpus -> BOOLEAN]
    BY DEF IInv, TypeOK
  <2> QED BY <2>1, SwitchTypes DEF IInv, TypeOK
<1>2. StackOwned' /\ RunningIsCurrent' /\ CurrentRuns' /\ Support'
  BY SwitchKeeps
<1> QED BY <1>1, <1>2 DEF IInv

-----------------------------------------------------------------------------
\* initialize establishes the invariant.
THEOREM InitInvariant == Init => IInv
<1> SUFFICES ASSUME Init PROVE IInv
  OBVIOUS
<1>1. /\ KernelSlot \in Slots /\ IdleSlot \in Slots /\ KernelSlot # IdleSlot
      /\ 0 \in Cpus /\ 0 \in Slots /\ 1 \in 1 .. NCpus
  BY SchedulerAssumption DEF SchedulerAssumption, Slots, Cpus, KernelSlot, IdleSlot
<1>2. Up = {0}
  BY DEF Init, Up
<1>3. TypeOK
  <2>1. state \in [Slots -> States]
    BY DEF Init, States
  <2>2. priority \in [Slots -> Priorities] /\ id \in [Slots -> Int]
    BY DEF Init, Priorities, LOW, NORMAL, HIGH, KERNEL_TASK_ID, IDLE_TASK_ID, NoId
  <2>3. remaining_ticks \in [Slots -> Nat]
    BY <2>2, QuantumType DEF Init
  <2>4. /\ cpu \in [Slots -> Cpus] /\ wake_in \in [Slots -> Nat]
        /\ process \in [Slots -> {"None", "Live", "Exited"}]
        /\ current_slot \in [Cpus -> Slots] /\ on_stack \in [Cpus -> Slots]
        /\ last_selected \in [Cpus -> [Priorities -> Slots]]
        /\ preemption_requested \in [Cpus -> BOOLEAN] /\ in_irq \in [Cpus -> BOOLEAN]
    BY <1>1 DEF Init
  <2>5. /\ task_count \in Nat /\ next_id \in Nat /\ online \in 1 .. NCpus
        /\ file_io \in SUBSET Int /\ kills \in Nat
    BY <1>1 DEF Init
  <2> QED BY <2>1, <2>2, <2>3, <2>4, <2>5 DEF TypeOK
<1>4. StackOwned /\ CurrentRuns
  BY <1>1, <1>2 DEF Init, StackOwned, CurrentRuns, KernelSlot, IdleSlot
<1>5. RunningIsCurrent
  BY <1>1 DEF Init, RunningIsCurrent, KernelSlot, IdleSlot
<1>6. Support
  <2>1. cpu[IdleSlot] = 0 /\ priority[IdleSlot] = LOW /\ state[IdleSlot] = "Ready"
    BY <1>1 DEF Init
  <2>2. \A c \in Up : \E s \in Slots : /\ cpu[s] = c /\ priority[s] = LOW
                                      /\ state[s] \in {"Ready", "Running"}
    BY <1>1, <1>2, <2>1
  <2> QED BY <1>1, <1>2, <2>2 DEF Init, Support
<1> QED BY <1>3, <1>4, <1>5, <1>6 DEF IInv

(***************************************************************************)
(* The steps of one CPU.                                                   *)
(***************************************************************************)
LEMMA CpuStepKeeps ==
    ASSUME IInv, NEW c \in Cpus, CpuStep(c)
    PROVE  IInv'
<1>0. /\ Up \subseteq Cpus /\ 0 \in Up /\ (c < online => c \in Up)
      /\ wake_in \in [Slots -> Nat] /\ state \in [Slots -> States]
      /\ (c < online => current_slot[c] \in Slots)
      /\ preemption_requested \in [Cpus -> BOOLEAN] /\ in_irq \in [Cpus -> BOOLEAN]
      /\ task_count \in Nat
  BY CpuFacts DEF IInv, TypeOK
<1>1. CASE SwitchStacks(c)
  <2>1. TypeOK'
    BY <1>1 DEF SwitchStacks, IInv, TypeOK, tcb
  <2>2. UNCHANGED <<tcb, current_slot, in_irq, online>> /\ Up' = Up
    BY <1>1 DEF SwitchStacks, Up
  <2>3. StackOwned'
    BY <1>1, <1>0, <2>2 DEF SwitchStacks, IInv, TypeOK, StackOwned, tcb
  <2>4. RunningIsCurrent' /\ CurrentRuns'
    BY <2>2 DEF IInv, RunningIsCurrent, CurrentRuns, tcb
  <2>5. Support'
    <3>1. \A d \in Up : in_irq'[d] => on_stack'[d] = current_slot'[d]
      BY <1>1, <1>0, <2>2 DEF SwitchStacks, IInv, TypeOK, Support
    <3> QED BY <2>2, <3>1 DEF IInv, Support, tcb
  <2> QED BY <2>1, <2>3, <2>4, <2>5 DEF IInv
<1>2. CASE YieldNow(c)
  BY <1>2, <1>0, YieldPrepared, SwitchStep DEF YieldNow, Executing
<1>3. CASE BlockCurrent(c)
  <2>1. Prepared(c, [state EXCEPT ![current_slot[c]] = "Blocked"])
    BY <1>3, <1>0, StopPrepared DEF BlockCurrent, MayStop, Executing
  <2> QED BY <2>1, <1>3, <1>0, SwitchStep DEF BlockCurrent, MayStop, Executing
<1>4. CASE SleepCurrent(c)
  <2>1. Prepared(c, [state EXCEPT ![current_slot[c]] = "Sleeping"])
    BY <1>4, <1>0, StopPrepared DEF SleepCurrent, MayStop, Executing
  <2>2. PICK n \in 1 .. MaxSleep :
          PrepareSwitch(c, [state EXCEPT ![current_slot[c]] = "Sleeping"],
                           [wake_in EXCEPT ![current_slot[c]] = n])
    BY <1>4 DEF SleepCurrent
  <2>3. [wake_in EXCEPT ![current_slot[c]] = n] \in [Slots -> Nat]
    <3>1. n \in Nat
      BY SchedulerAssumption DEF SchedulerAssumption
    <3> QED BY <3>1, <1>0
  <2> QED BY <2>1, <2>2, <2>3, <1>4, <1>0, SwitchStep DEF SleepCurrent, MayStop, Executing
<1>5. CASE ExitCurrent(c)
  <2>1. Prepared(c, [state EXCEPT ![current_slot[c]] = "Dead"])
    BY <1>5, <1>0, StopPrepared DEF ExitCurrent, MayStop, Executing
  <2>2. task_count' \in Nat
    BY <1>5, <1>0 DEF ExitCurrent
  <2> QED BY <2>1, <2>2, <1>5, <1>0, SwitchStep DEF ExitCurrent, MayStop, Executing
<1>6. CASE Tick(c)
  <2> DEFINE w == Clock(c)
             due == {s \in Slots : state[s] = "Sleeping" /\ w[s] = 0}
  <2>1. c \in Up /\ on_stack[c] = current_slot[c] /\ current_slot[c] \in Slots
    BY <1>6, <1>0 DEF Tick, Executing
  <2>2. /\ state' = Reset(due, state, "Ready") /\ wake_in' = w
        /\ in_irq' = [in_irq EXCEPT ![c] = TRUE]
        /\ UNCHANGED <<id, priority, cpu, process, current_slot, last_selected, on_stack,
                       online, task_count, next_id, file_io, kills>>
        /\ Up' = Up
    BY <1>6 DEF Tick, Up
  <2>3. \A s \in Slots : state'[s] = state[s] \/ (state[s] = "Sleeping" /\ state'[s] = "Ready")
    BY <2>2 DEF Reset
  <2>4. TypeOK'
    <3>1. w \in [Slots -> Nat] /\ state' \in [Slots -> States]
      BY <1>0, <2>2 DEF Clock, Reset, States
    <3>2. remaining_ticks' \in [Slots -> Nat] /\ preemption_requested' \in [Cpus -> BOOLEAN]
      <4> DEFINE cur == current_slot[c]
      <4>1. remaining_ticks \in [Slots -> Nat]
        BY DEF IInv, TypeOK
      <4>2. \/ UNCHANGED <<remaining_ticks, preemption_requested>>
            \/ /\ remaining_ticks[cur] > 1
               /\ remaining_ticks' = [remaining_ticks EXCEPT ![cur] = remaining_ticks[cur] - 1]
               /\ UNCHANGED preemption_requested
            \/ /\ remaining_ticks' = [remaining_ticks EXCEPT ![cur] = 0]
               /\ preemption_requested' = [preemption_requested EXCEPT ![c] = TRUE]
        BY <1>6 DEF Tick
      <4>3. CASE UNCHANGED <<remaining_ticks, preemption_requested>>
        BY <1>0, <4>1, <4>3
      <4>4. CASE /\ remaining_ticks[cur] > 1
                 /\ remaining_ticks' = [remaining_ticks EXCEPT ![cur] = remaining_ticks[cur] - 1]
                 /\ UNCHANGED preemption_requested
        <5>1. remaining_ticks[cur] \in Nat /\ remaining_ticks[cur] - 1 \in Nat
          BY <4>1, <4>4, <2>1
        <5> QED BY <1>0, <4>1, <4>4, <5>1
      <4>5. CASE /\ remaining_ticks' = [remaining_ticks EXCEPT ![cur] = 0]
                 /\ preemption_requested' = [preemption_requested EXCEPT ![c] = TRUE]
        BY <1>0, <4>1, <4>5
      <4> QED BY <4>2, <4>3, <4>4, <4>5
    <3> QED BY <3>1, <3>2, <1>0, <2>2 DEF IInv, TypeOK
  <2>5. StackOwned' /\ RunningIsCurrent' /\ CurrentRuns'
    <3>1. StackOwned'
      <4>1. \A d \in Up : current_slot[d] \in Slots /\ on_stack[d] \in Slots
        BY <1>0 DEF IInv, TypeOK
      <4> QED BY <4>1, <2>2, <2>3 DEF IInv, StackOwned
    <3>2. RunningIsCurrent'
      BY <2>2, <2>3 DEF IInv, RunningIsCurrent
    <3>3. CurrentRuns'
      BY <1>0, <2>2, <2>3 DEF IInv, TypeOK, CurrentRuns
    <3> QED BY <3>1, <3>2, <3>3
  <2>6. Support'
    <3>1. \A d \in Up : \E s \in Slots : /\ cpu'[s] = d /\ priority'[s] = LOW
                                         /\ state'[s] \in {"Ready", "Running"}
      <4> TAKE d \in Up
      <4>1. PICK s \in Slots : cpu[s] = d /\ priority[s] = LOW /\ state[s] \in {"Ready", "Running"}
        BY DEF IInv, Support
      <4> QED BY <4>1, <2>2, <2>3
    <3>2. \A d \in Up : in_irq'[d] => on_stack'[d] = current_slot'[d]
      BY <1>0, <2>1, <2>2 DEF IInv, Support
    <3> QED BY <3>1, <3>2, <2>2, <2>3 DEF IInv, Support
  <2> QED BY <2>4, <2>5, <2>6 DEF IInv
<1>7. CASE TickContended(c)
  <2>1. c \in Up /\ on_stack[c] = current_slot[c]
    BY <1>7, <1>0 DEF TickContended, Executing
  <2>2. /\ in_irq' = [in_irq EXCEPT ![c] = TRUE] /\ wake_in' = Clock(c)
        /\ preemption_requested' = [preemption_requested EXCEPT ![c] = TRUE]
        /\ UNCHANGED <<state, id, priority, cpu, remaining_ticks, process, current_slot,
                       last_selected, on_stack, online, task_count, next_id, file_io, kills>>
        /\ Up' = Up
    BY <1>7 DEF TickContended, Up
  <2>3. TypeOK'
    <3>1. Clock(c) \in [Slots -> Nat]
      BY <1>0 DEF Clock
    <3> QED BY <3>1, <1>0, <2>2 DEF IInv, TypeOK
  <2>4. StackOwned' /\ RunningIsCurrent' /\ CurrentRuns'
    BY <2>2 DEF IInv, StackOwned, RunningIsCurrent, CurrentRuns
  <2>5. Support'
    <3>1. \A d \in Up : in_irq'[d] => on_stack'[d] = current_slot'[d]
      BY <1>0, <2>1, <2>2 DEF IInv, Support
    <3> QED BY <3>1, <2>2 DEF IInv, Support
  <2> QED BY <2>3, <2>4, <2>5 DEF IInv
<1>8. CASE PreemptFromInterrupt(c)
  <2>1. c \in Up /\ on_stack[c] = current_slot[c]
    BY <1>8, <1>0 DEF PreemptFromInterrupt, IInv, Support
  <2>2. in_irq' = [in_irq EXCEPT ![c] = FALSE] /\ ~in_irq'[c]
    BY <1>8, <1>0 DEF PreemptFromInterrupt
  <2>3. preemption_requested' \in [Cpus -> BOOLEAN] /\ task_count' \in Nat
    BY <1>8, <1>0 DEF PreemptFromInterrupt
  <2> QED BY <2>1, <2>2, <2>3, <1>8, <1>0, AwakePrepared, SwitchStep DEF PreemptFromInterrupt
<1>9. CASE ReturnFromInterrupt(c)
  <2>1. /\ in_irq' = [in_irq EXCEPT ![c] = FALSE]
        /\ UNCHANGED <<tcb, current_slot, last_selected, preemption_requested, on_stack, online,
                       task_count, next_id, file_io, kills>>
        /\ Up' = Up
    BY <1>9 DEF ReturnFromInterrupt, Up
  <2>2. TypeOK'
    BY <2>1, <1>0 DEF IInv, TypeOK, tcb
  <2>3. StackOwned' /\ RunningIsCurrent' /\ CurrentRuns'
    BY <2>1 DEF IInv, StackOwned, RunningIsCurrent, CurrentRuns, tcb
  <2>4. Support'
    <3>1. \A d \in Up : in_irq'[d] => on_stack'[d] = current_slot'[d]
      BY <1>0, <2>1 DEF IInv, Support
    <3> QED BY <3>1, <2>1 DEF IInv, Support, tcb
  <2> QED BY <2>2, <2>3, <2>4 DEF IInv
<1> QED BY <1>1, <1>2, <1>3, <1>4, <1>5, <1>6, <1>7, <1>8, <1>9 DEF CpuStep

(***************************************************************************)
(* Creating a task in an empty slot disturbs no CPU: no stack in use is     *)
(* empty.                                                                   *)
(***************************************************************************)
LEMMA FreshKeeps ==
    ASSUME IInv, NEW s \in Slots, state[s] = "Empty",
           NEW p \in Priorities, NEW t \in Cpus,
           state' = [state EXCEPT ![s] = "Ready"],
           priority' = [priority EXCEPT ![s] = p],
           cpu' = [cpu EXCEPT ![s] = t],
           UNCHANGED <<process, percpu>>
    PROVE  StackOwned' /\ RunningIsCurrent' /\ CurrentRuns' /\ Support'
<1>1. /\ Up \subseteq Cpus /\ Up' = Up
      /\ UNCHANGED <<process, current_slot, on_stack, in_irq, online>>
      /\ \A d \in Up : /\ current_slot[d] \in Slots /\ current_slot[d] # s
                       /\ on_stack[d] \in Slots /\ on_stack[d] # s
  BY CpuFacts DEF IInv, TypeOK, StackOwned, Up, percpu
<1>2. \A r \in Slots : r # s => /\ state'[r] = state[r] /\ priority'[r] = priority[r]
                                /\ cpu'[r] = cpu[r]
  BY DEF IInv, TypeOK
<1>3. state'[s] = "Ready" /\ process[s] = "None"
  BY DEF IInv, TypeOK, Support
<1>4. StackOwned'
  BY <1>1, <1>2 DEF IInv, StackOwned
<1>5. RunningIsCurrent'
  BY <1>1, <1>2, <1>3 DEF IInv, RunningIsCurrent
<1>6. CurrentRuns'
  BY <1>1, <1>2 DEF IInv, CurrentRuns
<1>7. Support'
  <2>1. \A d \in Up : \E r \in Slots : /\ cpu'[r] = d /\ priority'[r] = LOW
                                       /\ state'[r] \in {"Ready", "Running"}
    <3> TAKE d \in Up
    <3>1. PICK r \in Slots : cpu[r] = d /\ priority[r] = LOW /\ state[r] \in {"Ready", "Running"}
      BY DEF IInv, Support
    <3> QED BY <3>1, <1>2
  <2> QED BY <1>1, <1>2, <1>3, <2>1 DEF IInv, Support
<1> QED BY <1>4, <1>5, <1>6, <1>7

LEMMA FreshTypes ==
    ASSUME IInv, NEW s \in Slots, Initialize(s, NORMAL),
           NEW t \in Cpus, cpu' = [cpu EXCEPT ![s] = t],
           task_count' = task_count + 1, next_id' = next_id + 1,
           UNCHANGED <<process, percpu, file_io, kills>>
    PROVE  TypeOK'
<1>1. NORMAL \in Priorities /\ Quantum(NORMAL) \in Nat
  BY QuantumType DEF Priorities, NORMAL
<1>2. state' \in [Slots -> States] /\ cpu' \in [Slots -> Cpus]
  BY DEF Initialize, States, IInv, TypeOK
<1>3. /\ id' \in [Slots -> Int] /\ priority' \in [Slots -> Priorities]
      /\ wake_in' \in [Slots -> Nat] /\ remaining_ticks' \in [Slots -> Nat]
  <2>1. next_id \in Int /\ 0 \in Nat
    BY DEF IInv, TypeOK
  <2> QED BY <1>1, <2>1 DEF Initialize, IInv, TypeOK
<1>4. task_count' \in Nat /\ next_id' \in Nat
  BY DEF IInv, TypeOK
<1> QED BY <1>2, <1>3, <1>4 DEF IInv, TypeOK, percpu

LEMMA BspStepKeeps ==
    ASSUME IInv, BspStep
    PROVE  IInv'
<1>0. /\ Up \subseteq Cpus /\ 0 \in Up /\ 0 \in Cpus
      /\ (0 < online)
      /\ next_id \in Nat /\ task_count \in Nat /\ kills \in Nat
      /\ NORMAL \in Priorities /\ LOW \in Priorities
      /\ Quantum(NORMAL) \in Nat /\ Quantum(LOW) \in Nat
  BY CpuFacts, QuantumType DEF IInv, TypeOK, Priorities, LOW, NORMAL, HIGH
<1>1. CASE SpawnWithPriority(NORMAL)
  <2>1. PICK s \in Slots : IsFreeSlot(s, state) /\ Initialize(s, NORMAL)
    BY <1>1 DEF SpawnWithPriority
  <2>2. PICK t \in Cpus : cpu' = [cpu EXCEPT ![s] = t]
    BY <1>1 DEF SpawnWithPriority, IInv, TypeOK
  <2>3. TypeOK'
    BY <1>0, <1>1, <2>1, <2>2, FreshTypes DEF SpawnWithPriority
  <2>4. StackOwned' /\ RunningIsCurrent' /\ CurrentRuns' /\ Support'
    BY <1>0, <1>1, <2>1, <2>2, FreshKeeps DEF SpawnWithPriority, Initialize, IsFreeSlot
  <2> QED BY <2>3, <2>4 DEF IInv
<1>2. ASSUME NEW target \in Cpus, SpawnOn(target)
      PROVE  IInv'
  <2>1. PICK s \in Slots : /\ IsFreeSlot(s, state) /\ Initialize(s, NORMAL)
                           /\ cpu' = [cpu EXCEPT ![s] = target]
    BY <1>2 DEF SpawnOn
  <2>2. TypeOK'
    BY <1>0, <1>2, <2>1, FreshTypes DEF SpawnOn
  <2>3. StackOwned' /\ RunningIsCurrent' /\ CurrentRuns' /\ Support'
    BY <1>0, <1>2, <2>1, FreshKeeps DEF SpawnOn, Initialize, IsFreeSlot
  <2> QED BY <2>2, <2>3 DEF IInv
<1>3. CASE InitAp
  <2>1. PICK s \in Slots :
          /\ IsFreeSlot(s, state)
          /\ id' = [id EXCEPT ![s] = next_id]
          /\ state' = [state EXCEPT ![s] = "Running"]
          /\ priority' = [priority EXCEPT ![s] = LOW]
          /\ wake_in' = [wake_in EXCEPT ![s] = 0]
          /\ remaining_ticks' = [remaining_ticks EXCEPT ![s] = Quantum(LOW)]
          /\ cpu' = [cpu EXCEPT ![s] = online]
          /\ current_slot' = [current_slot EXCEPT ![online] = s]
          /\ on_stack' = [on_stack EXCEPT ![online] = s]
    BY <1>3 DEF InitAp
  <2>2. /\ online \in Cpus /\ online' = online + 1 /\ online' \in 1 .. NCpus
        /\ online \notin Up /\ Up' = Up \cup {online}
        /\ UNCHANGED <<process, last_selected, preemption_requested, in_irq, file_io, kills>>
        /\ task_count' = task_count + 1 /\ next_id' = next_id + 1
    <3>1. NCpus \in Nat /\ online \in 1 .. NCpus /\ online < NCpus /\ online' = online + 1
      BY <1>3, SchedulerAssumption DEF InitAp, SchedulerAssumption, IInv, TypeOK
    <3>2. /\ online \in Cpus /\ online' \in 1 .. NCpus /\ online \notin Up
          /\ Up' = Up \cup {online}
      BY <3>1 DEF Up, Cpus
    <3> QED BY <3>1, <3>2, <1>3 DEF InitAp
  <2>3. TypeOK'
    <3>1. state' \in [Slots -> States] /\ cpu' \in [Slots -> Cpus]
      BY <2>1, <2>2 DEF States, IInv, TypeOK
    <3>2. /\ id' \in [Slots -> Int] /\ priority' \in [Slots -> Priorities]
          /\ wake_in' \in [Slots -> Nat] /\ remaining_ticks' \in [Slots -> Nat]
      <4>1. next_id \in Int /\ 0 \in Nat
        BY <1>0
      <4> QED BY <1>0, <2>1, <4>1 DEF IInv, TypeOK
    <3>3. current_slot' \in [Cpus -> Slots] /\ on_stack' \in [Cpus -> Slots]
      BY <2>1, <2>2 DEF IInv, TypeOK
    <3> QED BY <1>0, <2>2, <3>1, <3>2, <3>3 DEF IInv, TypeOK
  <2>4. /\ \A d \in Up : /\ current_slot[d] \in Slots /\ current_slot[d] # s
                         /\ on_stack[d] \in Slots /\ on_stack[d] # s
                         /\ current_slot'[d] = current_slot[d] /\ on_stack'[d] = on_stack[d]
        /\ current_slot'[online] = s /\ on_stack'[online] = s
    BY <1>0, <2>1, <2>2 DEF IInv, TypeOK, StackOwned, IsFreeSlot
  <2>5. /\ \A r \in Slots : r # s => /\ state'[r] = state[r] /\ priority'[r] = priority[r]
                                     /\ cpu'[r] = cpu[r]
        /\ state'[s] = "Running" /\ priority'[s] = LOW /\ cpu'[s] = online
        /\ process[s] = "None"
    BY <2>1 DEF IInv, TypeOK, Support, IsFreeSlot
  <2>6. StackOwned'
    BY <2>2, <2>4, <2>5 DEF IInv, StackOwned
  <2>7. RunningIsCurrent'
    <3> SUFFICES ASSUME NEW r \in Slots, state'[r] = "Running"
                 PROVE  cpu'[r] < online' /\ current_slot'[cpu'[r]] = r
      BY DEF RunningIsCurrent
    <3>0. online \in Int
      BY DEF IInv, TypeOK
    <3>1. CASE r = s
      BY <3>0, <3>1, <2>2, <2>4, <2>5
    <3>2. CASE r # s
      <4>1. cpu[r] < online /\ current_slot[cpu[r]] = r /\ cpu[r] \in Cpus
        BY <3>2, <2>5 DEF IInv, RunningIsCurrent, TypeOK
      <4>2. cpu[r] \in Up
        BY <4>1, CpuFacts DEF IInv
      <4> QED BY <3>0, <3>2, <4>1, <4>2, <2>2, <2>4, <2>5 DEF Cpus
    <3> QED BY <3>1, <3>2
  <2>8. CurrentRuns'
    BY <2>2, <2>4, <2>5 DEF IInv, CurrentRuns
  <2>9. Support'
    <3>1. \A d \in Up' : \E r \in Slots : /\ cpu'[r] = d /\ priority'[r] = LOW
                                          /\ state'[r] \in {"Ready", "Running"}
      <4>1. ASSUME NEW d \in Up
            PROVE  \E r \in Slots : /\ cpu'[r] = d /\ priority'[r] = LOW
                                    /\ state'[r] \in {"Ready", "Running"}
        <5>1. PICK r \in Slots : cpu[r] = d /\ priority[r] = LOW /\ state[r] \in {"Ready", "Running"}
          BY DEF IInv, Support
        <5>2. r # s
          BY <5>1, <2>1 DEF IsFreeSlot
        <5> QED BY <5>1, <5>2, <2>5
      <4> QED BY <4>1, <2>2, <2>5
    <3>2. \A d \in Up' : in_irq'[d] => on_stack'[d] = current_slot'[d]
      BY <2>2, <2>4 DEF IInv, Support
    <3> QED BY <3>1, <3>2, <2>2, <2>5 DEF IInv, Support
  <2> QED BY <2>3, <2>6, <2>7, <2>8, <2>9 DEF IInv
<1>4. CASE SpawnUser
  <2> DEFINE R == Reapable(0, state)
             st == Reset(R, state, "Empty")
  <2>1. PICK s \in Slots :
          /\ IsFreeSlot(s, st)
          /\ id' = [Reset(R, id, NoId) EXCEPT ![s] = next_id]
          /\ state' = [st EXCEPT ![s] = "Ready"]
          /\ priority' = [Reset(R, priority, NORMAL) EXCEPT ![s] = NORMAL]
          /\ wake_in' = [Reset(R, wake_in, 0) EXCEPT ![s] = 0]
          /\ remaining_ticks' = [Reset(R, remaining_ticks, 0) EXCEPT ![s] = Quantum(NORMAL)]
          /\ process' = [Reset(R, process, "None") EXCEPT ![s] = "Live"]
          /\ cpu' = Reset(R, cpu, 0)
    BY <1>4 DEF SpawnUser
  <2>2. /\ UNCHANGED <<percpu, file_io, kills>> /\ Up' = Up
        /\ task_count' = task_count + 1 /\ next_id' = next_id + 1
        /\ on_stack[0] = current_slot[0]
    BY <1>4 DEF SpawnUser, Executing, percpu, Up
  <2>3. TypeOK'
    <3>1. state' \in [Slots -> States] /\ cpu' \in [Slots -> Cpus]
      <4>1. "Empty" \in States /\ "Ready" \in States
        BY DEF States
      <4>2. st \in [Slots -> States]
        BY <4>1, ResetType DEF IInv, TypeOK
      <4>3. state' \in [Slots -> States]
        BY <2>1, <4>1, <4>2
      <4>4. Reset(R, cpu, 0) \in [Slots -> Cpus]
        BY <1>0, ResetType DEF IInv, TypeOK
      <4> QED BY <2>1, <4>3, <4>4
    <3>2. id' \in [Slots -> Int] /\ priority' \in [Slots -> Priorities]
      <4>1. NoId \in Int /\ next_id \in Int
        BY <1>0 DEF NoId
      <4>2. Reset(R, id, NoId) \in [Slots -> Int]
        BY <4>1, ResetType DEF IInv, TypeOK
      <4>3. Reset(R, priority, NORMAL) \in [Slots -> Priorities]
        BY <1>0, ResetType DEF IInv, TypeOK
      <4> QED BY <1>0, <2>1, <4>1, <4>2, <4>3
    <3>3. wake_in' \in [Slots -> Nat] /\ remaining_ticks' \in [Slots -> Nat]
      BY <1>0, <2>1 DEF Reset, IInv, TypeOK
    <3>4. process' \in [Slots -> {"None", "Live", "Exited"}]
      BY <2>1 DEF Reset, IInv, TypeOK
    <3>5. task_count' \in Nat /\ next_id' \in Nat
      BY <1>0, <2>2
    <3> QED BY <2>2, <3>1, <3>2, <3>3, <3>4, <3>5 DEF IInv, TypeOK, percpu
  <2>4. /\ \A r \in Slots : r \in R <=> r # current_slot[0] /\ state[r] = "Dead" /\ cpu[r] = 0
        /\ state[s] = "Empty" \/ s \in R
    BY <2>1 DEF Reapable, IsFreeSlot, Reset
  <2>5. \A d \in Up : /\ current_slot[d] \in Slots /\ current_slot[d] # s /\ current_slot[d] \notin R
                      /\ on_stack[d] \in Slots /\ on_stack[d] # s /\ on_stack[d] \notin R
    <3> SUFFICES ASSUME NEW d \in Up
                 PROVE  /\ current_slot[d] \in Slots /\ current_slot[d] # s /\ current_slot[d] \notin R
                        /\ on_stack[d] \in Slots /\ on_stack[d] # s /\ on_stack[d] \notin R
      OBVIOUS
    <3>1. current_slot[d] \in Slots /\ on_stack[d] \in Slots
      BY <1>0 DEF IInv, TypeOK
    <3>2. /\ state[on_stack[d]] # "Empty" /\ cpu[on_stack[d]] = d
          /\ state[current_slot[d]] # "Empty" /\ cpu[current_slot[d]] = d
      BY DEF IInv, StackOwned
    <3>3. current_slot[d] \notin R /\ on_stack[d] \notin R
      BY <3>1, <3>2, <2>2, <2>4
    <3> QED BY <3>1, <3>2, <3>3, <2>4
  <2>6. /\ \A r \in Slots : r # s => state'[r] = IF r \in R THEN "Empty" ELSE state[r]
        /\ \A r \in Slots : r # s => priority'[r] = IF r \in R THEN NORMAL ELSE priority[r]
        /\ \A r \in Slots : r # s => process'[r] = IF r \in R THEN "None" ELSE process[r]
        /\ \A r \in Slots : cpu'[r] = IF r \in R THEN 0 ELSE cpu[r]
        /\ state'[s] = "Ready" /\ priority'[s] = NORMAL
    BY <2>1 DEF Reset
  <2>7. cpu'[s] = 0
    BY <2>4, <2>6 DEF IInv, Support
  <2>8. StackOwned'
    BY <2>2, <2>5, <2>6 DEF IInv, StackOwned, percpu
  <2>9. RunningIsCurrent'
    BY <2>2, <2>6 DEF IInv, RunningIsCurrent, percpu
  <2>10. CurrentRuns'
    BY <2>2, <2>5, <2>6 DEF IInv, CurrentRuns, percpu
  <2>11. Support'
    <3>1. \A d \in Up : \E r \in Slots : /\ cpu'[r] = d /\ priority'[r] = LOW
                                         /\ state'[r] \in {"Ready", "Running"}
      <4> TAKE d \in Up
      <4>1. PICK r \in Slots : cpu[r] = d /\ priority[r] = LOW /\ state[r] \in {"Ready", "Running"}
        BY DEF IInv, Support
      <4>2. r # s /\ r \notin R
        BY <4>1, <2>4
      <4> QED BY <4>1, <4>2, <2>6
    <3>2. \A r \in Slots : state'[r] = "Empty" => cpu'[r] = 0 /\ process'[r] = "None"
      BY <2>6 DEF IInv, Support
    <3>3. \A r \in Slots : process'[r] # "None" => cpu'[r] = 0 /\ priority'[r] = NORMAL
      BY <2>6, <2>7 DEF IInv, Support
    <3> QED BY <3>1, <3>2, <3>3, <2>2 DEF IInv, Support, percpu
  <2> QED BY <2>3, <2>8, <2>9, <2>10, <2>11 DEF IInv
<1>5. ASSUME NEW i \in 0 .. MaxId, WakeTask(i)
      PROVE  IInv'
  <2>1. PICK s \in Slots : /\ state[s] \in {"Blocked", "Sleeping"}
                           /\ state' = [state EXCEPT ![s] = "Ready"]
                           /\ wake_in' = [wake_in EXCEPT ![s] = 0]
    BY <1>5 DEF WakeTask
  <2>2. /\ UNCHANGED <<id, priority, cpu, remaining_ticks, process, percpu,
                       task_count, next_id, file_io, kills>>
        /\ Up' = Up
    BY <1>5 DEF WakeTask, percpu, Up
  <2>3. TypeOK'
    BY <2>1, <2>2 DEF IInv, TypeOK, States, percpu
  <2>4. \A d \in Up : current_slot[d] \in Slots /\ on_stack[d] \in Slots /\ current_slot[d] # s
    BY <1>0, <2>1 DEF IInv, TypeOK, CurrentRuns
  <2>5. \A r \in Slots : state'[r] = IF r = s THEN "Ready" ELSE state[r]
    BY <2>1 DEF IInv, TypeOK
  <2>6. StackOwned' /\ RunningIsCurrent' /\ CurrentRuns'
    <3>1. StackOwned'
      BY <2>2, <2>4, <2>5 DEF IInv, StackOwned, percpu
    <3>2. RunningIsCurrent'
      BY <2>2, <2>5 DEF IInv, RunningIsCurrent, percpu
    <3>3. CurrentRuns'
      BY <2>2, <2>4, <2>5 DEF IInv, CurrentRuns, percpu
    <3> QED BY <3>1, <3>2, <3>3
  <2>7. Support'
    <3>1. \A d \in Up : \E r \in Slots : /\ cpu'[r] = d /\ priority'[r] = LOW
                                         /\ state'[r] \in {"Ready", "Running"}
      BY <2>2, <2>5 DEF IInv, Support
    <3> QED BY <3>1, <2>1, <2>2, <2>5 DEF IInv, Support, percpu
  <2> QED BY <2>3, <2>6, <2>7 DEF IInv
<1>6. ASSUME NEW K \in SUBSET Slots, KillProcess(K)
      PROVE  IInv'
  <2>1. /\ state' = Reset(K, state, "Dead") /\ process' = Reset(K, process, "Exited")
        /\ UNCHANGED <<id, priority, cpu, wake_in, remaining_ticks, percpu, next_id, file_io>>
        /\ kills' = kills + 1 /\ Up' = Up
        /\ \A s \in K : process[s] = "Live"
    BY <1>6 DEF KillProcess, percpu, Up
  <2>2. TypeOK'
    <3> DEFINE dying == Cardinality({s \in K : state[s] # "Dead"})
    <3>1. dying \in Nat
      <4>1. IsFiniteSet(Slots)
        BY FS_Interval, SchedulerAssumption DEF SchedulerAssumption, Slots
      <4>2. IsFiniteSet({s \in K : state[s] # "Dead"})
        BY <4>1, FS_Subset
      <4> QED BY <4>2, FS_CardinalityType
    <3>2. task_count' = IF task_count < dying THEN 0 ELSE task_count - dying
      BY <1>6 DEF KillProcess
    <3>3. task_count' \in Nat /\ kills' \in Nat
      BY <1>0, <2>1, <3>1, <3>2
    <3>4. state' \in [Slots -> States]
      BY <2>1 DEF Reset, IInv, TypeOK, States
    <3>5. process' \in [Slots -> {"None", "Live", "Exited"}]
      BY <2>1 DEF Reset, IInv, TypeOK
    <3> QED BY <2>1, <3>3, <3>4, <3>5 DEF IInv, TypeOK, percpu
  <2>3. /\ \A s \in Slots : state'[s] = IF s \in K THEN "Dead" ELSE state[s]
        /\ \A s \in Slots : process'[s] = IF s \in K THEN "Exited" ELSE process[s]
    BY <2>1 DEF Reset
  <2>4. \A d \in Up : current_slot[d] \in Slots /\ on_stack[d] \in Slots
    BY <1>0 DEF IInv, TypeOK
  <2>5. \A s \in K : cpu[s] = 0 /\ priority[s] = NORMAL /\ s \in Slots
    BY <2>1 DEF IInv, Support
  <2>6. StackOwned'
    BY <2>1, <2>3, <2>4 DEF IInv, StackOwned, percpu
  <2>7. RunningIsCurrent'
    BY <2>1, <2>3 DEF IInv, RunningIsCurrent, percpu
  <2>8. CurrentRuns'
    BY <2>1, <2>3, <2>4, <2>5 DEF IInv, CurrentRuns, StackOwned, percpu
  <2>9. Support'
    <3>1. \A d \in Up : \E r \in Slots : /\ cpu'[r] = d /\ priority'[r] = LOW
                                         /\ state'[r] \in {"Ready", "Running"}
      <4> TAKE d \in Up
      <4>1. PICK r \in Slots : cpu[r] = d /\ priority[r] = LOW /\ state[r] \in {"Ready", "Running"}
        BY DEF IInv, Support
      <4>2. r \notin K
        BY <4>1, <2>5 DEF LOW, NORMAL
      <4> QED BY <4>1, <4>2, <2>1, <2>3
    <3> QED BY <3>1, <2>1, <2>3, <2>5 DEF IInv, Support, percpu
  <2> QED BY <2>2, <2>6, <2>7, <2>8, <2>9 DEF IInv
<1>7. CASE FileIoEnter \/ FileIoLeave
  <2>1. UNCHANGED <<tcb, percpu, task_count, next_id, kills>>
    BY <1>7 DEF FileIoEnter, FileIoLeave
  <2>2. file_io' \in SUBSET Int
    <3>1. id[current_slot[0]] \in Int
      BY <1>0 DEF IInv, TypeOK
    <3> QED BY <3>1, <1>7 DEF FileIoEnter, FileIoLeave, IInv, TypeOK
  <2>3. TypeOK'
    BY <2>1, <2>2 DEF IInv, TypeOK, tcb, percpu
  <2>4. StackOwned' /\ RunningIsCurrent' /\ CurrentRuns' /\ Support'
    BY <2>1 DEF IInv, StackOwned, RunningIsCurrent, CurrentRuns, Support, Up, tcb, percpu
  <2> QED BY <2>3, <2>4 DEF IInv
<1> QED BY <1>1, <1>2, <1>3, <1>4, <1>5, <1>6, <1>7 DEF BspStep

\* The inductive invariant holds in every reachable state.
THEOREM Invariance == Spec => []IInv
<1>1. IInv /\ [Next]_vars => IInv'
  <2> SUFFICES ASSUME IInv, [Next]_vars PROVE IInv'
    OBVIOUS
  <2>1. CASE BspStep
    BY <2>1, BspStepKeeps
  <2>2. CASE \E c \in Cpus : CpuStep(c)
    BY <2>2, CpuStepKeeps
  <2>3. CASE UNCHANGED vars
    BY <2>3 DEF vars, tcb, percpu, IInv, TypeOK, StackOwned, RunningIsCurrent, CurrentRuns,
                Support, Up
  <2> QED BY <2>1, <2>2, <2>3 DEF Next
<1> QED BY <1>1, InitInvariant, PTL DEF Spec

\* Every field keeps its type, for any number of slots and CPUs.
THEOREM TypeCorrect == Spec => []TypeOK
BY Invariance, PTL DEF IInv

\* "Only the owning CPU can switch away from or reap a task's stack": no stack
\* a CPU executes on is recycled, whatever the other CPUs do meanwhile.
THEOREM StackSafety == Spec => []StackOwned
BY Invariance, PTL DEF IInv

\* A task runs on one CPU at most, the one it is pinned to.
THEOREM RunningOnOneCpu == Spec => []RunningIsCurrent
BY Invariance, PTL DEF IInv

\* Blocking, sleeping and exiting always leave the CPU to a runnable task.
THEOREM AlwaysASuccessor == Spec => []CurrentRuns
BY Invariance, PTL DEF IInv
=============================================================================
