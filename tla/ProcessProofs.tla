----------------------------- MODULE ProcessProofs -----------------------------
(***************************************************************************)
(* Proofs about Process: the endpoints follow the process table, messages   *)
(* are delivered in order and once, and what executes has its address       *)
(* space, for any number of processes, endpoints and descriptors.           *)
(***************************************************************************)
EXTENDS Process, SequenceTheorems, TLAPS

Messages == [sender : Ids, payload : Payloads]
Endpoints == {NoEndpoint} \cup [owner : Ids, messages : Seq(Messages)]

IpcType ==
    /\ endpoints \in [Slots -> Endpoints]
    /\ accepted \in [Ids -> Seq(Messages)]
    /\ received \in [Ids -> Seq(Messages)]

ProcType ==
    /\ pstate \in [Ids -> {"None", "Ready", "Exited"}]
    /\ task \in [Ids -> {"Empty", "Live", "Dead"}]
    /\ space \in [Ids -> BOOLEAN]
    /\ ghost \in Ids \cup {NoPid}
    /\ next_pid \in Nat \ {0}

\* FifoOnce by slot: the messages of an endpoint are those accepted for its
\* owner and not yet received.
SlotFifo ==
    \A s \in Used : accepted[endpoints[s].owner] = received[endpoints[s].owner] \o endpoints[s].messages

\* The history of an id without a record is empty, so a new endpoint starts afresh.
Forgotten == \A p \in Ids \ Records : accepted[p] = <<>> /\ received[p] = <<>>

IpcInv == IpcType /\ EndpointPerProcess /\ SlotFifo /\ Forgotten

SpaceInv ==
    /\ \A p \in Live : space[p]
    /\ ghost # NoPid => space[ghost]

(***************************************************************************)
(* Facts about the endpoints.                                               *)
(***************************************************************************)

\* An endpoint is used when it has an owner among the processes.
LEMMA UsedEndpoint ==
    ASSUME IpcType, NEW s \in Used
    PROVE  /\ s \in Slots
           /\ endpoints[s] \in [owner : Ids, messages : Seq(Messages)]
           /\ endpoints[s].owner \in Ids
           /\ endpoints[s].messages \in Seq(Messages)
  BY DEF IpcType, Used, Endpoints, NoEndpoint

\* An endpoint with an owner is not the empty one: pid 0 is never handed out.
LEMMA OwnedIsUsed ==
    ASSUME NEW e \in [owner : Ids, messages : Seq(Messages)]
    PROVE  e # NoEndpoint
  BY ProcessAssumption DEF NoEndpoint

\* A step that leaves the endpoints, the history and the records alone keeps the invariant.
LEMMA IpcSame ==
    ASSUME IpcInv, UNCHANGED ipcVars, Records' = Records
    PROVE  IpcInv'
<1>1. endpoints' = endpoints /\ accepted' = accepted /\ received' = received
  BY DEF ipcVars
<1>2. Used' = Used /\ Owners' = Owners
  BY <1>1 DEF Used, Owners
<1>3. IpcType'
  BY <1>1 DEF IpcInv, IpcType
<1>4. EndpointPerProcess'
  BY <1>1, <1>2 DEF IpcInv, EndpointPerProcess
<1>5. SlotFifo'
  BY <1>1, <1>2 DEF IpcInv, SlotFifo
<1>6. Forgotten'
  BY <1>1 DEF IpcInv, Forgotten
<1>7. QED
  BY <1>3, <1>4, <1>5, <1>6 DEF IpcInv

\* register for a process that gets its record in the same step.
LEMMA RegisterKeeps ==
    ASSUME IpcInv, NEW c \in Ids, Register(c), UNCHANGED <<accepted, received>>,
           Records' = Records \cup {c}
    PROVE  IpcInv'
<1>1. PICK s \in Slots \ Used :
          endpoints' = [endpoints EXCEPT ![s] = [owner |-> c, messages |-> <<>>]]
  BY DEF Register
<1>2. c \notin Owners
  BY DEF Register
<1> DEFINE e == [owner |-> c, messages |-> <<>>]
<1>3. e \in [owner : Ids, messages : Seq(Messages)] /\ e # NoEndpoint
  <2>1. e \in [owner : Ids, messages : Seq(Messages)]
    OBVIOUS
  <2>2. QED
    BY <2>1, OwnedIsUsed
<1>4. IpcType'
  BY <1>1, <1>3 DEF IpcInv, IpcType, Endpoints
<1>5. Used' = Used \cup {s} /\ endpoints'[s] = e /\ \A r \in Used : endpoints'[r] = endpoints[r]
  BY <1>1, <1>3 DEF IpcInv, IpcType, Used
<1>6. c \notin Records /\ accepted[c] = <<>> /\ received[c] = <<>>
  BY <1>2 DEF IpcInv, EndpointPerProcess, Forgotten
<1>7. EndpointPerProcess'
  <2>1. Owners' = Owners \cup {c}
    BY <1>5 DEF Owners
  <2>2. \A r \in Used : endpoints[r].owner # c
    BY <1>2 DEF Owners
  <2>3. QED
    BY <1>5, <2>1, <2>2 DEF IpcInv, EndpointPerProcess
<1>8. SlotFifo'
  <2>1. accepted[c] = received[c] \o <<>>
    BY <1>6
  <2>2. SUFFICES ASSUME NEW r \in Used \cup {s}
                 PROVE  accepted[endpoints'[r].owner]
                          = received[endpoints'[r].owner] \o endpoints'[r].messages
    BY <1>5 DEF SlotFifo
  <2>3. CASE r = s
    <3>1. endpoints'[r].owner = c /\ endpoints'[r].messages = <<>>
      BY <1>5, <2>3
    <3>2. QED
      BY <2>1, <3>1, Zenon
  <2>4. CASE r \in Used
    BY <1>5, <2>4 DEF IpcInv, SlotFifo
  <2>5. QED
    BY <2>3, <2>4
<1>9. Forgotten'
  BY DEF IpcInv, Forgotten
<1>10. QED
  BY <1>4, <1>7, <1>8, <1>9 DEF IpcInv

\* unregister for a process that loses its record and its history in the same step.
LEMMA UnregisterKeeps ==
    ASSUME IpcInv, NEW c \in Ids, Unregister(c), Records' = Records \ {c},
           accepted' = [accepted EXCEPT ![c] = <<>>], received' = [received EXCEPT ![c] = <<>>]
    PROVE  IpcInv'
<1>1. PICK s \in Slots : /\ IsEndpoint(s, c)
                         /\ endpoints' = [endpoints EXCEPT ![s] = NoEndpoint]
  BY DEF Unregister
<1>2. s \in Used /\ endpoints[s].owner = c
  BY <1>1 DEF IsEndpoint
<1>3. IpcType'
  BY <1>1 DEF IpcInv, IpcType, Endpoints
<1>4. Used' = Used \ {s} /\ \A r \in Used \ {s} : endpoints'[r] = endpoints[r]
  BY <1>1 DEF IpcInv, IpcType, Used
<1>5. \A r \in Used \ {s} : endpoints[r].owner # c /\ endpoints[r].owner \in Ids
  BY <1>2, UsedEndpoint DEF IpcInv, EndpointPerProcess
<1>6. EndpointPerProcess'
  <2>1. Owners' = Owners \ {c}
    BY <1>2, <1>4, <1>5 DEF Owners
  <2>2. QED
    BY <1>4, <2>1 DEF IpcInv, EndpointPerProcess
<1>7. SlotFifo'
  BY <1>4, <1>5 DEF IpcInv, IpcType, SlotFifo
<1>8. Forgotten'
  BY DEF IpcInv, IpcType, Forgotten
<1>9. QED
  BY <1>3, <1>6, <1>7, <1>8 DEF IpcInv

(***************************************************************************)
(* Facts about sequences.                                                   *)
(***************************************************************************)

\* A message appended to the queue is appended to what was accepted.
LEMMA AppendConcat ==
    \A a, b \in Seq(Messages), m \in Messages : Append(a \o b, m) = a \o Append(b, m)
<1> TAKE a, b \in Seq(Messages), m \in Messages
<1>1. Append(a \o b, m) = (a \o b) \o <<m>> /\ Append(b, m) = b \o <<m>>
  OBVIOUS
<1>2. QED
  BY <1>1, ConcatAssociative, <<m>> \in Seq(Messages)

\* A message that moves from the head of the queue to what was received.
LEMMA MoveHead ==
    ASSUME NEW S, NEW a \in Seq(S), NEW b \in Seq(S), b # <<>>
    PROVE  Append(a, Head(b)) \o Tail(b) = a \o b
<1>1. Head(b) \in S /\ Tail(b) \in Seq(S) /\ <<Head(b)>> \in Seq(S)
  OBVIOUS
<1>2. Append(a, Head(b)) = a \o <<Head(b)>>
  BY <1>1
<1>3. <<Head(b)>> \o Tail(b) = b
  BY <1>1
<1>4. QED
  BY <1>1, <1>2, <1>3, ConcatAssociative

(***************************************************************************)
(* Messages.                                                                *)
(***************************************************************************)

\* A step that gives one endpoint other messages, and its owner the history
\* that goes with them.
LEMMA MessagesChange ==
    ASSUME IpcInv, NEW s \in Used, NEW q \in Seq(Messages),
           endpoints' = [endpoints EXCEPT ![s].messages = q],
           accepted' \in [Ids -> Seq(Messages)], received' \in [Ids -> Seq(Messages)],
           \A i \in Ids \ {endpoints[s].owner} :
               accepted'[i] = accepted[i] /\ received'[i] = received[i],
           accepted'[endpoints[s].owner] = received'[endpoints[s].owner] \o q,
           Records' = Records
    PROVE  IpcInv'
<1> DEFINE e == [endpoints[s] EXCEPT !.messages = q]
<1>1. /\ s \in Slots /\ endpoints[s] \in [owner : Ids, messages : Seq(Messages)]
      /\ endpoints[s].owner \in Ids
  BY UsedEndpoint DEF IpcInv
<1>2. e \in [owner : Ids, messages : Seq(Messages)] /\ e.owner = endpoints[s].owner /\ e.messages = q
  BY <1>1
<1>3. e # NoEndpoint
  BY <1>2, OwnedIsUsed
<1>4. endpoints' = [endpoints EXCEPT ![s] = e]
  OBVIOUS
<1>5. IpcType'
  BY <1>2, <1>4 DEF IpcInv, IpcType, Endpoints
<1>6. /\ Used' = Used /\ endpoints'[s] = e
      /\ \A r \in Used \ {s} : endpoints'[r] = endpoints[r]
  BY <1>1, <1>3, <1>4 DEF IpcInv, IpcType, Used
<1>7. \A r \in Used : endpoints'[r].owner = endpoints[r].owner
  BY <1>2, <1>6
<1>8. EndpointPerProcess'
  <2>1. Owners' = Owners
    BY <1>6, <1>7 DEF Owners
  <2>2. QED
    BY <1>6, <1>7, <2>1 DEF IpcInv, EndpointPerProcess
<1>9. SlotFifo'
  <2>1. SUFFICES ASSUME NEW r \in Used
                 PROVE  accepted'[endpoints'[r].owner]
                          = received'[endpoints'[r].owner] \o endpoints'[r].messages
    BY <1>6 DEF SlotFifo
  <2>2. CASE r = s
    BY <1>2, <1>6, <2>2
  <2>3. CASE r # s
    <3>1. endpoints[r].owner \in Ids \ {endpoints[s].owner}
      BY <2>3, UsedEndpoint DEF IpcInv, EndpointPerProcess
    <3>2. endpoints'[r] = endpoints[r]
      BY <1>6, <2>3
    <3>3. /\ accepted'[endpoints[r].owner] = accepted[endpoints[r].owner]
          /\ received'[endpoints[r].owner] = received[endpoints[r].owner]
      BY <3>1
    <3>4. accepted[endpoints[r].owner] = received[endpoints[r].owner] \o endpoints[r].messages
      BY DEF IpcInv, SlotFifo
    <3>5. QED
      BY <3>2, <3>3, <3>4, Zenon
  <2>4. QED
    BY <2>2, <2>3
<1>10. Forgotten'
  <2>1. endpoints[s].owner \in Records
    BY DEF IpcInv, EndpointPerProcess, Owners
  <2>2. QED
    BY <2>1 DEF IpcInv, Forgotten
<1>11. QED
  BY <1>5, <1>8, <1>9, <1>10 DEF IpcInv

\* sys_message_send adds the message to the receiver's queue and to its history.
LEMMA SendKeeps ==
    ASSUME IpcInv, NEW p \in Ids, NEW r \in Ids, NEW m \in Payloads, Send(p, r, m),
           Records' = Records
    PROVE  IpcInv'
<1> DEFINE msg == [sender |-> p, payload |-> m]
<1>1. PICK s \in Slots :
          /\ IsEndpoint(s, r)
          /\ endpoints' = [endpoints EXCEPT ![s].messages = Append(@, msg)]
          /\ accepted' = [accepted EXCEPT ![r] = Append(@, msg)]
          /\ received' = received
  BY DEF Send
<1>2. s \in Used /\ endpoints[s].owner = r /\ endpoints[s].messages \in Seq(Messages)
  BY <1>1, UsedEndpoint DEF IsEndpoint, IpcInv
<1>3. msg \in Messages
  BY DEF Messages
<1> DEFINE q == Append(endpoints[s].messages, msg)
<1>4. q \in Seq(Messages)
  BY <1>2, <1>3
<1>5. endpoints' = [endpoints EXCEPT ![s].messages = q]
  BY <1>1
<1>6. accepted' \in [Ids -> Seq(Messages)] /\ received' \in [Ids -> Seq(Messages)]
  BY <1>1, <1>3 DEF IpcInv, IpcType
<1> HIDE DEF msg
<1>7. accepted'[r] = received'[r] \o q
  <2>1. accepted[r] = received[r] \o endpoints[s].messages /\ received[r] \in Seq(Messages)
    BY <1>2 DEF IpcInv, SlotFifo, IpcType
  <2>2. accepted'[r] = Append(accepted[r], msg) /\ received'[r] = received[r]
    BY <1>1 DEF IpcInv, IpcType
  <2>3. Append(received[r] \o endpoints[s].messages, msg) = received[r] \o q
    BY <1>2, <1>3, <2>1, AppendConcat, Zenon
  <2>4. QED
    BY <2>1, <2>2, <2>3, Zenon
<1>8. \A i \in Ids \ {r} : accepted'[i] = accepted[i] /\ received'[i] = received[i]
  BY <1>1 DEF IpcInv, IpcType
<1> HIDE DEF q
<1>9. QED
  BY <1>2, <1>4, <1>5, <1>6, <1>7, <1>8, MessagesChange

\* sys_message_receive moves the first message of the caller's queue to its history.
LEMMA ReceiveKeeps ==
    ASSUME IpcInv, NEW p \in Ids, Receive(p), Records' = Records
    PROVE  IpcInv'
<1>1. PICK s \in Slots :
          /\ IsEndpoint(s, p) /\ endpoints[s].messages # <<>>
          /\ endpoints' = [endpoints EXCEPT ![s].messages = Tail(@)]
          /\ received' = [received EXCEPT ![p] = Append(@, Head(endpoints[s].messages))]
          /\ accepted' = accepted
  BY DEF Receive
<1>2. s \in Used /\ endpoints[s].owner = p /\ endpoints[s].messages \in Seq(Messages)
  BY <1>1, UsedEndpoint DEF IsEndpoint, IpcInv
<1> DEFINE q == Tail(endpoints[s].messages)
<1>3. q \in Seq(Messages) /\ Head(endpoints[s].messages) \in Messages
  BY <1>1, <1>2
<1>4. endpoints' = [endpoints EXCEPT ![s].messages = q]
  BY <1>1
<1>5. accepted' \in [Ids -> Seq(Messages)] /\ received' \in [Ids -> Seq(Messages)]
  BY <1>1, <1>3 DEF IpcInv, IpcType
<1>6. accepted'[p] = received'[p] \o q
  <2>1. accepted[p] = received[p] \o endpoints[s].messages /\ received[p] \in Seq(Messages)
    BY <1>2 DEF IpcInv, SlotFifo, IpcType
  <2>2. received'[p] = Append(received[p], Head(endpoints[s].messages)) /\ accepted'[p] = accepted[p]
    BY <1>1 DEF IpcInv, IpcType
  <2>3. QED
    BY <1>1, <1>2, <2>1, <2>2, MoveHead
<1>7. \A i \in Ids \ {p} : accepted'[i] = accepted[i] /\ received'[i] = received[i]
  BY <1>1 DEF IpcInv, IpcType
<1> HIDE DEF q
<1>8. QED
  BY <1>2, <1>3, <1>4, <1>5, <1>6, <1>7, MessagesChange

(***************************************************************************)
(* The process table.                                                       *)
(***************************************************************************)
PInv == IpcInv /\ ProcType /\ SpaceInv

\* Who executes user code is live or the ghost.
LEMMA ExecutesHasSpace ==
    ASSUME SpaceInv, NEW p \in Ids, Executes(p)
    PROVE  space[p]
<1>1. p # Kernel
  BY ProcessAssumption DEF Kernel
<1>2. QED
  BY <1>1 DEF SpaceInv, Executes

\* A step that leaves the endpoints, the records, the tasks and the spaces alone.
LEMMA QuietKeeps ==
    ASSUME PInv, UNCHANGED <<ipcVars, pstate, task, space, ghost, next_pid>>
    PROVE  PInv'
<1>1. pstate' = pstate /\ task' = task /\ space' = space /\ ghost' = ghost /\ next_pid' = next_pid
  OBVIOUS
<1>2. IpcInv'
  <2>1. UNCHANGED ipcVars /\ Records' = Records
    BY <1>1 DEF Records
  <2>2. QED
    BY <2>1, IpcSame DEF PInv
<1>3. ProcType'
  BY <1>1 DEF PInv, ProcType
<1>4. SpaceInv'
  BY <1>1 DEF PInv, SpaceInv, Live
<1>5. QED
  BY <1>2, <1>3, <1>4 DEF PInv

\* A child that spawn or fork installs has its record, its endpoint and its space at once.
LEMMA InstallKeeps ==
    ASSUME PInv, NEW c \in Ids, NEW par, NEW grp, NEW table, NEW actions,
           Install(c, par, grp, table, actions), next_pid' = next_pid + 1
    PROVE  PInv'
<1>1. /\ pstate' = [pstate EXCEPT ![c] = "Ready"]
      /\ space' = [space EXCEPT ![c] = TRUE]
      /\ task' = [task EXCEPT ![c] = "Live"]
      /\ ghost' = ghost
  BY DEF Install
<1>2. Records' = Records \cup {c}
  BY <1>1 DEF PInv, ProcType, Records
<1>3. IpcInv'
  BY <1>2, RegisterKeeps DEF PInv, Install
<1>4. ProcType'
  BY <1>1 DEF PInv, ProcType
<1>5. SpaceInv'
  BY <1>1 DEF PInv, ProcType, SpaceInv, Live
<1>6. QED
  BY <1>3, <1>4, <1>5 DEF PInv

\* A spawn or a fork that fails consumes the id and changes nothing else.
LEMMA IdConsumed ==
    ASSUME PInv, UNCHANGED <<ipcVars, procVars>>, next_pid' = next_pid + 1
    PROVE  PInv'
<1>1. pstate' = pstate /\ task' = task /\ space' = space /\ ghost' = ghost
  BY DEF procVars
<1>2. IpcInv'
  <2>1. UNCHANGED ipcVars /\ Records' = Records
    BY <1>1 DEF Records
  <2>2. QED
    BY <2>1, IpcSame DEF PInv
<1>3. ProcType'
  BY <1>1 DEF PInv, ProcType
<1>4. SpaceInv'
  BY <1>1 DEF PInv, SpaceInv, Live
<1>5. QED
  BY <1>2, <1>3, <1>4 DEF PInv

\* spawn_user_process, whether or not the tables have room.
LEMMA SpawnKeeps ==
    ASSUME PInv, NEW p \in Ids \cup {Kernel}, SpawnUserProcess(p)
    PROVE  PInv'
<1>1. next_pid \in Ids /\ next_pid' = next_pid + 1
  BY ProcessAssumption DEF SpawnUserProcess, PInv, ProcType
<1>2. CASE Install(next_pid, p, IF p = Kernel THEN next_pid ELSE group[p], NoFiles, Defaults)
  BY <1>1, <1>2, InstallKeeps
<1>3. CASE UNCHANGED <<ipcVars, procVars, fileVars>>
  BY <1>1, <1>3, IdConsumed
<1>4. QED
  BY <1>2, <1>3 DEF SpawnUserProcess

\* fork_current, whether or not the endpoint registry has room.
LEMMA ForkKeeps ==
    ASSUME PInv, NEW p \in Ids, ForkCurrent(p)
    PROVE  PInv'
<1>1. next_pid \in Ids /\ next_pid' = next_pid + 1
  BY ProcessAssumption DEF ForkCurrent, PInv, ProcType
<1>2. CASE Install(next_pid, p, group[p], files[p], action[p])
  BY <1>1, <1>2, InstallKeeps
<1>3. CASE UNCHANGED <<ipcVars, procVars, fileVars>>
  BY <1>1, <1>3, IdConsumed
<1>4. QED
  BY <1>2, <1>3 DEF ForkCurrent

\* The caller's record stays; its space goes with its task.
LEMMA ExitKeeps ==
    ASSUME PInv, NEW p \in Ids, ExitCurrent(p)
    PROVE  PInv'
<1>1. /\ pstate' = [pstate EXCEPT ![p] = "Exited"]
      /\ space' = [space EXCEPT ![p] = FALSE]
      /\ task' = [task EXCEPT ![p] = "Dead"]
      /\ ghost' = NoPid /\ next_pid' = next_pid
      /\ UNCHANGED ipcVars
  BY DEF ExitCurrent
<1>2. p \in Records
  BY DEF ExitCurrent, User, Caller
<1>3. Records' = Records
  BY <1>1, <1>2 DEF PInv, ProcType, Records
<1>4. IpcInv'
  BY <1>1, <1>3, IpcSame DEF PInv
<1>5. ProcType'
  BY <1>1 DEF PInv, ProcType
<1>6. SpaceInv'
  BY <1>1 DEF PInv, ProcType, SpaceInv, Live
<1>7. QED
  BY <1>4, <1>5, <1>6 DEF PInv

\* wait_process removes the record and the endpoint of a zombie together.
LEMMA WaitKeeps ==
    ASSUME PInv, NEW p \in Ids \cup {Kernel}, NEW c \in Ids, WaitProcess(p, c)
    PROVE  PInv'
<1>1. /\ pstate' = [pstate EXCEPT ![c] = "None"] /\ Unregister(c)
      /\ accepted' = [accepted EXCEPT ![c] = <<>>] /\ received' = [received EXCEPT ![c] = <<>>]
      /\ space' = space /\ task' = task /\ ghost' = ghost /\ next_pid' = next_pid
  BY DEF WaitProcess
<1>2. Records' = Records \ {c}
  BY <1>1 DEF PInv, ProcType, Records
<1>3. IpcInv'
  BY <1>1, <1>2, UnregisterKeeps DEF PInv
<1>4. ProcType'
  BY <1>1 DEF PInv, ProcType
<1>5. SpaceInv'
  BY <1>1 DEF PInv, SpaceInv, Live
<1>6. QED
  BY <1>3, <1>4, <1>5 DEF PInv

\* No record and no space goes with a kill, and a caller among the killed has
\* been executing.
LEMMA KillKeeps ==
    ASSUME PInv, NEW p \in Ids \cup {Kernel}, NEW T \in SUBSET Records, NEW sig, Kill(p, T, sig)
    PROVE  PInv'
<1> DEFINE dies == {c \in T : Terminates(c, sig) /\ pstate[c] = "Ready"}
<1>1. /\ pstate' = [c \in Ids |-> IF c \in dies THEN "Exited" ELSE pstate[c]]
      /\ task' = [c \in Ids |-> IF c \in dies THEN "Dead" ELSE task[c]]
      /\ ghost' = IF p \in dies THEN p ELSE ghost
      /\ space' = space /\ next_pid' = next_pid /\ UNCHANGED ipcVars
      /\ Executes(p)
  BY DEF Kill, Caller
<1>2. dies \subseteq Records /\ Records \subseteq Ids
  BY DEF Records
<1> HIDE DEF dies
<1>3. Records' = Records
  BY <1>1, <1>2 DEF PInv, ProcType, Records
<1>4. IpcInv'
  BY <1>1, <1>3, IpcSame DEF PInv
<1>5. ProcType'
  BY <1>1, <1>2 DEF PInv, ProcType
<1>6. SpaceInv'
  <2>1. p \in dies => space[p]
    BY <1>1, <1>2, ExecutesHasSpace DEF PInv
  <2>2. QED
    BY <1>1, <2>1 DEF PInv, ProcType, SpaceInv, Live
<1>7. QED
  BY <1>4, <1>5, <1>6 DEF PInv

\* The ghost leaves the CPU for good, or will be scheduled again.
LEMMA GhostKeeps ==
    ASSUME PInv, GhostYields \/ GhostBlocks
    PROVE  PInv'
<1>1. /\ ghost # NoPid /\ ghost' = NoPid
      /\ task' = task \/ task' = [task EXCEPT ![ghost] = "Live"]
      /\ pstate' = pstate /\ space' = space /\ next_pid' = next_pid /\ UNCHANGED ipcVars
  BY DEF GhostYields, GhostBlocks
<1>2. Records' = Records
  BY <1>1 DEF Records
<1>3. IpcInv'
  BY <1>1, <1>2, IpcSame DEF PInv
<1>4. ProcType'
  BY <1>1 DEF PInv, ProcType
<1>5. SpaceInv'
  BY <1>1 DEF PInv, ProcType, SpaceInv, Live
<1>6. QED
  BY <1>3, <1>4, <1>5 DEF PInv

(***************************************************************************)
(* The invariant and the theorems.                                          *)
(***************************************************************************)

\* At boot there is no process and no endpoint.
LEMMA InitHolds == PInit => PInv
<1> SUFFICES ASSUME PInit PROVE PInv
  OBVIOUS
<1>1. Used = {} /\ Owners = {} /\ Records = {} /\ Live = {}
  BY DEF PInit, Init, Used, Owners, Records, Live
<1>2. IpcType
  BY DEF PInit, Init, IpcType, Endpoints
<1>3. EndpointPerProcess /\ SlotFifo
  BY <1>1 DEF EndpointPerProcess, SlotFifo
<1>4. Forgotten
  BY DEF PInit, Init, Forgotten
<1>5. ProcType
  BY DEF PInit, ProcType
<1>6. SpaceInv
  BY <1>1 DEF PInit, SpaceInv
<1>7. QED
  BY <1>2, <1>3, <1>4, <1>5, <1>6 DEF PInv, IpcInv

\* The system calls of a process.
LEMMA UserStepKeeps ==
    ASSUME PInv, NEW p \in Ids, UserStep(p)
    PROVE  PInv'
<1>1. CASE ForkCurrent(p)
  BY <1>1, ForkKeeps
<1>2. CASE ExitCurrent(p)
  BY <1>2, ExitKeeps
<1>3. CASE SigactionCurrent(p) \/ TakePendingSignal(p) \/ SetProcessGroup(p)
  BY <1>3, QuietKeeps DEF SigactionCurrent, TakePendingSignal, SetProcessGroup
<1>4. CASE OpenCurrent(p) \/ DupCurrent(p) \/ Dup2Current(p) \/ CloseCurrent(p)
  BY <1>4, QuietKeeps DEF OpenCurrent, DupCurrent, Dup2Current, CloseCurrent, descriptorUnchanged
<1>5. CASE SendMessage(p) \/ ReceiveMessage(p)
  <2>1. UNCHANGED <<pstate, task, space, ghost, next_pid>>
    BY <1>5 DEF SendMessage, ReceiveMessage, procVars
  <2>2. Records' = Records /\ ProcType' /\ SpaceInv'
    BY <2>1 DEF PInv, ProcType, SpaceInv, Live, Records
  <2>3. IpcInv'
    <3>1. CASE SendMessage(p)
      BY <2>2, <3>1, SendKeeps DEF SendMessage, PInv, Records
    <3>2. CASE ReceiveMessage(p)
      BY <2>2, <3>2, ReceiveKeeps DEF ReceiveMessage, PInv
    <3>3. QED
      BY <1>5, <3>1, <3>2
  <2>4. QED
    BY <2>2, <2>3 DEF PInv
<1>6. QED
  BY <1>1, <1>2, <1>3, <1>4, <1>5 DEF UserStep

\* PInv is inductive.
LEMMA StepKeeps == PInv /\ [PNext]_pvars => PInv'
<1> SUFFICES ASSUME PInv, [PNext]_pvars PROVE PInv'
  OBVIOUS
<1>1. ASSUME NEW p \in Ids \cup {Kernel}, SpawnUserProcess(p) PROVE PInv'
  BY <1>1, SpawnKeeps
<1>2. ASSUME NEW p \in Ids \cup {Kernel}, KillProcess(p) PROVE PInv'
  BY <1>2, KillKeeps DEF KillProcess
<1>3. ASSUME NEW p \in Ids \cup {Kernel}, NEW c \in Ids, WaitProcess(p, c) PROVE PInv'
  BY <1>3, WaitKeeps
<1>4. ASSUME NEW p \in Ids, UserStep(p) PROVE PInv'
  BY <1>4, UserStepKeeps
<1>5. CASE GhostYields \/ GhostBlocks
  BY <1>5, GhostKeeps
<1>6. CASE UNCHANGED pvars
  <2>1. UNCHANGED <<ipcVars, pstate, task, space, ghost, next_pid>>
    BY <1>6 DEF pvars, ipcVars
  <2>2. QED
    BY <2>1, QuietKeeps
<1>7. QED
  BY <1>1, <1>2, <1>3, <1>4, <1>5, <1>6 DEF PNext

\* The inductive invariant holds through every sequence of system calls, for
\* tables of any size.
THEOREM Invariance == PSpec => []PInv
  BY InitHolds, StepKeeps, PTL DEF PSpec

\* A process has an endpoint exactly from its creation until it is reaped, and
\* only one: ipc::unregister in wait_process always finds it.
THEOREM EndpointsFollowTable == PSpec => []EndpointPerProcess
<1>1. PInv => EndpointPerProcess
  BY DEF PInv, IpcInv
<1>2. QED
  BY <1>1, Invariance, PTL

\* What executes user code has its address space, whoever is killed by whom.
THEOREM SpaceWhileExecuting == PSpec => []RunsInItsSpace
<1>1. PInv => RunsInItsSpace
  BY ExecutesHasSpace DEF PInv, RunsInItsSpace
<1>2. QED
  BY <1>1, Invariance, PTL

\* Every message accepted is delivered once and in order to the process it was
\* for, as long as that process has not been reaped.
THEOREM DeliveredOnce == PSpec => []FifoOnce
<1>1. ASSUME PInv PROVE FifoOnce
  <2> SUFFICES ASSUME NEW i \in Owners PROVE accepted[i] = received[i] \o Queued(i)
    BY DEF FifoOnce
  <2> DEFINE S == {s \in Slots : IsEndpoint(s, i)}
  <2>1. PICK r \in Used : endpoints[r].owner = i
    BY DEF Owners
  <2>2. S = {r}
    BY <1>1, <2>1 DEF PInv, IpcInv, EndpointPerProcess, IsEndpoint, Slots, Used
  <2> HIDE DEF S
  <2>3. Queued(i) = endpoints[r].messages
    BY <2>2, Zenon DEF Queued, S
  <2>4. accepted[i] = received[i] \o endpoints[r].messages
    BY <1>1, <2>1, Zenon DEF PInv, IpcInv, SlotFifo
  <2>5. QED
    BY <2>3, <2>4, Zenon
<1>2. QED
  BY <1>1, Invariance, PTL
================================================================================
