-------------------------------- MODULE BlockIo --------------------------------
(***************************************************************************)
(* The block I/O queue of kernel/src/block_io.rs: tasks that run with       *)
(* interrupts enabled queue a request and poll for its result, one worker   *)
(* task serves the queue, and a task that submits while the worker is       *)
(* inside the driver goes to the device itself, under the same ATA lock.    *)
(*                                                                         *)
(* QUEUE is a spin lock held for one method call, so a method is one step.  *)
(* Which task runs its next step, and which are killed, is FaultIo's        *)
(* matter.  A killed submitter never polls again and its slot is not given  *)
(* back.                                                                    *)
(*                                                                         *)
(* Request ids only grow and are only compared for equality, so an id that  *)
(* is nowhere in the state stands for every id never used before.           *)
(***************************************************************************)
EXTENDS Integers, FiniteSets, FiniteSetsExt

CONSTANTS
    Submitters,     \* tasks that submit requests
    Worker,         \* the block-io task
    Lba, Data,
    NSlots,         \* MAX_BLOCK_IO_REQUESTS
    MaxKills        \* bound on the tasks killed while they poll

ASSUME BlockIoAssumption ==
    /\ NSlots \in Nat \ {0} /\ MaxKills \in Nat
    /\ IsFiniteSet(Submitters) /\ Worker \notin Submitters

Slots == 0 .. NSlots - 1
NoId == 0
Ids == 1 .. NSlots + Cardinality(Submitters) + 2
Free == [id |-> NoId, state |-> "Free"]
NoTask == "no task"

Fault == <<"Fault">>
Done == <<"Done">>
Value(d) == <<"Ok", d>>
Pending == <<"Pending">>
Answers == {Fault, Done} \cup {Value(d) : d \in Data}

VARIABLES
    queue,          \* QUEUE.entries
    in_worker,      \* IN_WORKER
    ata,            \* the task that holds the ATA lock
    disk,           \* the device behind it, cache included
    pc,             \* where each task is
    waiting,        \* the id each submitter polls for
    work,           \* the worker's WorkItem and, once performed, its result
    asked,          \* the operation each submitter asked for
    returned,       \* what submit last returned to it
    outcome,        \* history: what the device answered to each submitter's operation
    kills

vars == <<queue, in_worker, ata, disk, pc, waiting, work, asked, returned, outcome, kills>>

NoWork == [slot |-> 0, id |-> NoId, answer |-> Pending]

Init ==
    /\ queue = [s \in Slots |-> Free]
    /\ in_worker = FALSE /\ ata = NoTask
    /\ disk \in [Lba -> Data]
    /\ pc = [t \in Submitters \cup {Worker} |-> "idle"]
    /\ waiting = [t \in Submitters |-> NoId]
    /\ work = NoWork
    /\ asked = [t \in Submitters |-> [kind |-> "Flush"]]
    /\ returned = [t \in Submitters |-> Pending]
    /\ outcome = [t \in Submitters |-> Pending]
    /\ kills = 0

\* with_primary_master: operation op on the device, which may fail it.
Device(op, answer) ==
    \/ answer = Fault /\ UNCHANGED disk
    \/ op.kind = "Read" /\ answer = Value(disk[op.lba]) /\ UNCHANGED disk
    \/ op.kind = "Write" /\ answer = Done /\ disk' = [disk EXCEPT ![op.lba] = op.data]
    \/ op.kind = "Flush" /\ answer = Done /\ UNCHANGED disk

-----------------------------------------------------------------------------
(***************************************************************************)
(* submit, by task t.                                                      *)
(***************************************************************************)
\* `eligible': interrupts are enabled and the caller is not task 0.
should_queue(eligible) == eligible /\ ~in_worker

UsedIds == {queue[s].id : s \in Slots} \cup {waiting[t] : t \in Submitters} \cup {work.id}

\* push: the first empty slot takes the request, under a new id.
Push(t, op) ==
    \E s \in Slots :
        LET next_id == Min(Ids \ UsedIds)
        IN  /\ queue[s] = Free /\ \A r \in Slots : r < s => queue[r] # Free
            /\ queue' = [queue EXCEPT ![s] = [id |-> next_id, state |-> "Pending",
                                              op |-> op, answer |-> Pending]]
            /\ waiting' = [waiting EXCEPT ![t] = next_id]

\* submit up to the poll, the spin on the ATA lock, or the refusal.
Submit(t, op, eligible) ==
    /\ pc[t] = "idle"
    /\ asked' = [asked EXCEPT ![t] = op]
    /\ outcome' = [outcome EXCEPT ![t] = Pending]
    /\ \/ /\ should_queue(eligible) /\ Push(t, op)
          /\ pc' = [pc EXCEPT ![t] = "poll"]
          /\ returned' = [returned EXCEPT ![t] = Pending]
       \/ /\ should_queue(eligible) /\ \A s \in Slots : queue[s] # Free
          /\ pc' = [pc EXCEPT ![t] = "returned"]
          /\ returned' = [returned EXCEPT ![t] = Fault]
          /\ UNCHANGED <<queue, waiting>>
       \/ /\ ~should_queue(eligible)
          /\ pc' = [pc EXCEPT ![t] = "direct"]
          /\ returned' = [returned EXCEPT ![t] = Pending]
          /\ UNCHANGED <<queue, waiting>>
    /\ UNCHANGED <<in_worker, ata, disk, work, kills>>

\* direct_primary: the ATA lock is taken, and the device performs the operation.
DirectEnters(t) ==
    /\ pc[t] = "direct" /\ ata = NoTask
    /\ ata' = t
    /\ pc' = [pc EXCEPT ![t] = "driver"]
    /\ UNCHANGED <<queue, in_worker, disk, waiting, work, asked, returned, outcome, kills>>

DirectPerforms(t) ==
    /\ pc[t] = "driver"
    /\ \E answer \in Answers :
          /\ Device(asked[t], answer)
          /\ outcome' = [outcome EXCEPT ![t] = answer]
          /\ returned' = [returned EXCEPT ![t] = answer]
    /\ ata' = NoTask
    /\ pc' = [pc EXCEPT ![t] = "returned"]
    /\ UNCHANGED <<queue, in_worker, waiting, work, asked, kills>>

\* The caller goes on with what submit returned.
Return(t) ==
    /\ pc[t] = "returned"
    /\ pc' = [pc EXCEPT ![t] = "idle"]
    /\ asked' = [asked EXCEPT ![t] = [kind |-> "Flush"]]
    /\ outcome' = [outcome EXCEPT ![t] = Pending]
    /\ returned' = [returned EXCEPT ![t] = Pending]
    /\ UNCHANGED <<queue, in_worker, ata, disk, waiting, work, kills>>

\* Mutants of Answered and TakeResult: any completed request will do, and the
\* entry is not emptied.
AnsweredAny(t, s) == queue[s].state = "Complete"

TakeResultKeeps(t) ==
    /\ pc[t] = "poll"
    /\ \E s \in Slots :
          /\ queue[s].id = waiting[t] /\ queue[s].state = "Complete"
          /\ returned' = [returned EXCEPT ![t] = queue[s].answer]
    /\ pc' = [pc EXCEPT ![t] = "returned"]
    /\ waiting' = [waiting EXCEPT ![t] = NoId]
    /\ UNCHANGED <<queue, in_worker, ata, disk, work, asked, outcome, kills>>

\* take_result: the entry a poll by t would take.
Answered(t, s) == queue[s].id = waiting[t] /\ queue[s].state = "Complete"

TakeResult(t) ==
    /\ pc[t] = "poll"
    /\ \E s \in Slots :
          /\ Answered(t, s) /\ \A r \in Slots : r < s => ~Answered(t, r)
          /\ returned' = [returned EXCEPT ![t] = queue[s].answer]
          /\ queue' = [queue EXCEPT ![s] = Free]
    /\ pc' = [pc EXCEPT ![t] = "returned"]
    /\ waiting' = [waiting EXCEPT ![t] = NoId]
    /\ UNCHANGED <<in_worker, ata, disk, work, asked, outcome, kills>>

\* kill_process marks the task dead between two of its polls: nobody waits for
\* the result any more.
Kill(t) ==
    /\ pc[t] = "poll"
    /\ pc' = [pc EXCEPT ![t] = "idle"]
    /\ waiting' = [waiting EXCEPT ![t] = NoId]
    /\ asked' = [asked EXCEPT ![t] = [kind |-> "Flush"]]
    /\ outcome' = [outcome EXCEPT ![t] = Pending]
    /\ kills' = kills + 1
    /\ UNCHANGED <<queue, in_worker, ata, disk, work, returned>>

-----------------------------------------------------------------------------
(***************************************************************************)
(* process_one_primary, the worker's loop body.                            *)
(***************************************************************************)
TakePending ==
    /\ pc[Worker] = "idle"
    /\ \E s \in Slots :
          /\ queue[s].state = "Pending" /\ \A r \in Slots : r < s => queue[r].state # "Pending"
          /\ queue' = [queue EXCEPT ![s].state = "InProgress"]
          /\ work' = [slot |-> s, id |-> queue[s].id, answer |-> Pending]
    /\ pc' = [pc EXCEPT ![Worker] = "taken"]
    /\ UNCHANGED <<in_worker, ata, disk, waiting, asked, returned, outcome, kills>>

SetInWorker ==
    /\ pc[Worker] = "taken"
    /\ in_worker' = TRUE
    /\ pc' = [pc EXCEPT ![Worker] = "direct"]
    /\ UNCHANGED <<queue, ata, disk, waiting, work, asked, returned, outcome, kills>>

\* The driver is entered once the ATA lock is free.
EnterDriver ==
    /\ pc[Worker] = "direct" /\ ata = NoTask
    /\ ata' = Worker
    /\ pc' = [pc EXCEPT ![Worker] = "driver"]
    /\ UNCHANGED <<queue, in_worker, disk, waiting, work, asked, returned, outcome, kills>>

\* The device performs the request, the lock is released, IN_WORKER is cleared.
Perform ==
    /\ pc[Worker] = "driver"
    /\ \E answer \in Answers :
          /\ Device(queue[work.slot].op, answer)
          /\ work' = [work EXCEPT !.answer = answer]
          /\ outcome' = [t \in Submitters |-> IF waiting[t] = work.id THEN answer ELSE outcome[t]]
    /\ in_worker' = FALSE /\ ata' = NoTask
    /\ pc' = [pc EXCEPT ![Worker] = "performed"]
    /\ UNCHANGED <<queue, waiting, asked, returned, kills>>

Finish ==
    /\ pc[Worker] = "performed"
    /\ queue' = IF queue[work.slot].id = work.id /\ queue[work.slot].state = "InProgress"
                THEN [queue EXCEPT ![work.slot].answer = work.answer,
                                   ![work.slot].state = "Complete"]
                ELSE queue
    /\ pc' = [pc EXCEPT ![Worker] = "idle"]
    /\ work' = NoWork
    /\ UNCHANGED <<in_worker, ata, disk, waiting, asked, returned, outcome, kills>>

WorkerStep == TakePending \/ SetInWorker \/ EnterDriver \/ Perform \/ Finish

-----------------------------------------------------------------------------
(***************************************************************************)
(* Properties.                                                             *)
(***************************************************************************)
\* submit returns what the device answered to that very operation, never the
\* result of another request that used the slot.
OwnResult == \A t \in Submitters :
    returned[t] # Pending /\ returned[t] # Fault => returned[t] = outcome[t]

\* Slots that no live task waits for are only those of killed submitters, one
\* each: nothing else shrinks the queue.
SlotsOwned ==
    Cardinality({s \in Slots : /\ queue[s] # Free
                               /\ \A t \in Submitters : pc[t] = "poll" => waiting[t] # queue[s].id})
        <= kills

=============================================================================
