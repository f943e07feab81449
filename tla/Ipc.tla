---------------------------------- MODULE Ipc ----------------------------------
(***************************************************************************)
(* The message endpoints of kernel/src/ipc.rs, with the two system calls    *)
(* that use them.  Every user process owns one endpoint: a bounded queue of *)
(* messages.  STATE is a spin lock held for one method call and the system  *)
(* calls run with interrupts off, so each is one step.                      *)
(*                                                                         *)
(* A payload is a member of Payloads; whether it fits the receiver's buffer *)
(* and whether the copies to user memory succeed is a choice of the step.   *)
(* accepted and received are history: what send reported as sent to each    *)
(* owner and what receive handed to it.                                     *)
(***************************************************************************)
EXTENDS Integers, Sequences, FiniteSets, SequencesExt

CONSTANTS
    Ids,            \* process ids
    Payloads,
    NEndpoints,     \* MAX_IPC_ENDPOINTS
    QueueDepth,     \* IPC_QUEUE_DEPTH
    MaxSends        \* bound on the messages sent

ASSUME IpcAssumption ==
    /\ NEndpoints \in Nat \ {0} /\ QueueDepth \in Nat \ {0} /\ MaxSends \in Nat

Slots == 0 .. NEndpoints - 1
NoEndpoint == [owner |-> 0, messages |-> <<>>]

VARIABLES
    endpoints,      \* STATE.endpoints: an owner and its messages, or none
    accepted, received

ipcVars == <<endpoints, accepted, received>>

Init ==
    /\ endpoints = [s \in Slots |-> NoEndpoint]
    /\ accepted = [i \in Ids |-> <<>>]
    /\ received = [i \in Ids |-> <<>>]

\* How much has been sent to the owners there are: bounded by MaxSends.
Sent == FoldFunction(LAMBDA q, n : Len(q) + n, 0, accepted)

Used == {s \in Slots : endpoints[s] # NoEndpoint}
Owners == {endpoints[s].owner : s \in Used}

\* find returns the first endpoint of the owner.
IsEndpoint(s, owner) ==
    /\ s \in Used /\ endpoints[s].owner = owner
    /\ \A r \in Used : endpoints[r].owner = owner => s <= r

\* register takes the first empty slot; it fails on a second endpoint for the
\* owner and on a full registry.
CanRegister(owner) == owner \notin Owners /\ Used # Slots

Register(owner) ==
    \E s \in Slots \ Used :
        /\ owner \notin Owners
        /\ \A r \in Slots \ Used : s <= r
        /\ endpoints' = [endpoints EXCEPT ![s] = [owner |-> owner, messages |-> <<>>]]

\* Mutant of Unregister: the owner is not compared.
UnregisterFirst(owner) ==
    \E s \in Used :
        /\ \A r \in Used : s <= r
        /\ endpoints' = [endpoints EXCEPT ![s] = NoEndpoint]

\* unregister drops the endpoint with everything queued at it.
Unregister(owner) ==
    \E s \in Slots :
        /\ IsEndpoint(s, owner)
        /\ endpoints' = [endpoints EXCEPT ![s] = NoEndpoint]

-----------------------------------------------------------------------------
\* Mutant of Receive: a dequeue that takes the newest message.
ReceiveLast(receiver) ==
    \E s \in Slots :
        /\ IsEndpoint(s, receiver) /\ endpoints[s].messages # <<>>
        /\ received' = [received EXCEPT ![receiver] = Append(@, Last(endpoints[s].messages))]
        /\ endpoints' = [endpoints EXCEPT ![s].messages = Front(@)]
        /\ UNCHANGED accepted

\* sys_message_send: both sides need an endpoint and the queue a free place.
Send(sender, receiver, payload) ==
    \E s \in Slots :
        /\ sender \in Owners /\ IsEndpoint(s, receiver)
        /\ Len(endpoints[s].messages) < QueueDepth
        /\ Sent < MaxSends
        /\ LET m == [sender |-> sender, payload |-> payload]
           IN  /\ endpoints' = [endpoints EXCEPT ![s].messages = Append(@, m)]
               /\ accepted' = [accepted EXCEPT ![receiver] = Append(@, m)]
        /\ UNCHANGED received

\* sys_message_receive: peek, copy out, then dequeue.  A payload that does not
\* fit, or a fault of a copy, returns before the dequeue and changes nothing.
Receive(receiver) ==
    \E s \in Slots :
        /\ IsEndpoint(s, receiver) /\ endpoints[s].messages # <<>>
        /\ received' = [received EXCEPT ![receiver] = Append(@, Head(endpoints[s].messages))]
        /\ endpoints' = [endpoints EXCEPT ![s].messages = Tail(@)]
        /\ UNCHANGED accepted

-----------------------------------------------------------------------------
\* The queue of an owner, empty when it has no endpoint.
Queued(owner) ==
    LET S == {s \in Slots : IsEndpoint(s, owner)}
    IN  IF S = {} THEN <<>> ELSE endpoints[CHOOSE s \in S : TRUE].messages

\* While an owner has its endpoint, every message that send accepted for it has
\* been received, in order and once, or is still queued in order: nothing is
\* lost, repeated or reordered, at the queue's limit included.
FifoOnce ==
    \A i \in Owners : accepted[i] = received[i] \o Queued(i)
================================================================================
