---------------------------------- MODULE Tlb ----------------------------------
(***************************************************************************)
(* The TLB shootdown of kernel/src/smp.rs, with the paging path that needs  *)
(* it: a CPU changes a page table entry under the PAGING mutex, runs        *)
(* shootdown, and only then gives the old frame back.  Every access to a    *)
(* shared atomic is a step.  A non-maskable interrupt may arrive between    *)
(* any two steps of the code it interrupts, also while that code spins with *)
(* interrupts masked; one sent while the handler runs is latched until the  *)
(* handler returns.  The hardware may fill a TLB from the tables at any     *)
(* time.                                                                    *)
(*                                                                         *)
(* COUNT is stored once, after every AP has reported itself online and      *)
(* before the BSP touches a page table again, so the set of online CPUs is  *)
(* chosen by Init.                                                          *)
(***************************************************************************)
EXTENDS Integers

CONSTANTS
    Cpus,           \* the CPUs of the machine
    Bsp,            \* the bootstrap processor
    MaxChanges      \* bound on the page table changes of a behaviour

NoCpu == "no cpu"

ASSUME TlbAssumption ==
    /\ Bsp \in Cpus
    /\ NoCpu \notin Cpus
    /\ MaxChanges \in Nat

Flushed == -1

VARIABLES
    online,         \* the CPUs counted by COUNT
    table,          \* the version of the page tables: PTE stores so far
    cached,         \* the version each TLB holds a translation of
    paging,         \* the holder of PAGING
    shoot,          \* the holder of SHOOT_LOCK
    generation,     \* GENERATION
    ack,            \* ACK
    nmi,            \* an NMI is latched for the CPU
    pc,             \* where the paging path of each CPU is
    target,         \* the generation its shootdown waits for
    loaded,         \* the generation its own acknowledge_tlb loaded
    unsent,         \* the CPUs its shootdown has yet to interrupt
    handler,        \* where the NMI handler of each CPU is
    seen            \* the generation the NMI handler loaded

memoryVars == <<table, cached>>
handlerVars == <<handler, seen>>
initiatorVars == <<pc, target, loaded, unsent>>
vars == <<online, table, cached, paging, shoot, generation, ack, nmi,
          pc, target, loaded, unsent, handler, seen>>

Init ==
    /\ online \in {s \in SUBSET Cpus : Bsp \in s}
    /\ table = 0
    /\ cached = [c \in Cpus |-> 0]
    /\ paging = NoCpu
    /\ shoot = NoCpu
    /\ generation = 0
    /\ ack = [c \in Cpus |-> 0]
    /\ nmi = [c \in Cpus |-> FALSE]
    /\ pc = [c \in Cpus |-> "idle"]
    /\ target = [c \in Cpus |-> 0]
    /\ loaded = [c \in Cpus |-> 0]
    /\ unsent = [c \in Cpus |-> {}]
    /\ handler = [c \in Cpus |-> "out"]
    /\ seen = [c \in Cpus |-> 0]

(***************************************************************************)
(* The hardware.                                                            *)
(***************************************************************************)
Fill(c) ==
    /\ c \in online
    /\ cached' = [cached EXCEPT ![c] = table]
    /\ UNCHANGED <<online, table, paging, shoot, generation, ack, nmi>>
    /\ UNCHANGED <<initiatorVars, handlerVars>>

(***************************************************************************)
(* acknowledge_tlb as the NMI handler: load, flush, acknowledge.            *)
(***************************************************************************)
NmiEnter(c) ==
    /\ nmi[c] /\ handler[c] = "out"
    /\ nmi' = [nmi EXCEPT ![c] = FALSE]
    /\ handler' = [handler EXCEPT ![c] = "load"]
    /\ UNCHANGED <<online, memoryVars, paging, shoot, generation, ack, seen, initiatorVars>>

NmiLoad(c) ==
    /\ handler[c] = "load"
    /\ seen' = [seen EXCEPT ![c] = generation]
    /\ handler' = [handler EXCEPT ![c] = "flush"]
    /\ UNCHANGED <<online, memoryVars, paging, shoot, generation, ack, nmi, initiatorVars>>

NmiFlush(c) ==
    /\ handler[c] = "flush"
    /\ cached' = [cached EXCEPT ![c] = Flushed]
    /\ handler' = [handler EXCEPT ![c] = "ack"]
    /\ UNCHANGED <<online, table, paging, shoot, generation, ack, nmi, seen, initiatorVars>>

NmiAck(c) ==
    /\ handler[c] = "ack"
    /\ ack' = [ack EXCEPT ![c] = seen[c]]
    /\ handler' = [handler EXCEPT ![c] = "exit"]
    /\ UNCHANGED <<online, memoryVars, paging, shoot, generation, nmi, seen, initiatorVars>>

NmiReturn(c) ==
    /\ handler[c] = "exit"
    /\ handler' = [handler EXCEPT ![c] = "out"]
    /\ UNCHANGED <<online, memoryVars, paging, shoot, generation, ack, nmi, seen, initiatorVars>>

(***************************************************************************)
(* A paging operation on CPU c; it makes no progress inside an NMI handler. *)
(***************************************************************************)
At(c, where) == c \in online /\ pc[c] = where /\ handler[c] = "out"

Goto(c, where) == pc' = [pc EXCEPT ![c] = where]

LockPaging(c) ==
    /\ At(c, "idle")
    /\ table < MaxChanges
    /\ paging = NoCpu
    /\ paging' = c
    /\ Goto(c, "store")
    /\ UNCHANGED <<online, memoryVars, shoot, generation, ack, nmi, target, loaded, unsent, handlerVars>>

\* Unmap or remap one page; the local entry is invalidated a step later.
StorePte(c) ==
    /\ At(c, "store")
    /\ table' = table + 1
    /\ Goto(c, "invlpg")
    /\ UNCHANGED <<online, cached, paging, shoot, generation, ack, nmi, target, loaded, unsent, handlerVars>>

\* The pages are those of the loaded address space; another space's are in no
\* TLB, because loading CR3 flushes it, and the code skips this flush for them.
InvalidateLocal(c) ==
    /\ At(c, "invlpg")
    /\ cached' = [cached EXCEPT ![c] = Flushed]
    /\ Goto(c, "shootdown")
    /\ UNCHANGED <<online, table, paging, shoot, generation, ack, nmi, target, loaded, unsent, handlerVars>>

\* With one CPU online there is nobody to interrupt.
ShootAlone(c) ==
    /\ At(c, "shootdown")
    /\ online = {c}
    /\ Goto(c, "retire")
    /\ UNCHANGED <<online, memoryVars, paging, shoot, generation, ack, nmi, target, loaded, unsent, handlerVars>>

ShootLock(c) ==
    /\ At(c, "shootdown")
    /\ online # {c}
    /\ shoot = NoCpu
    /\ shoot' = c
    /\ Goto(c, "bump")
    /\ UNCHANGED <<online, memoryVars, paging, generation, ack, nmi, target, loaded, unsent, handlerVars>>

\* Mutant of NewGeneration: a one-bit counter.
NewGenerationWraps(c) ==
    /\ At(c, "bump")
    /\ generation' = (generation + 1) % 2
    /\ target' = [target EXCEPT ![c] = (generation + 1) % 2]
    /\ Goto(c, "load")
    /\ UNCHANGED <<online, memoryVars, paging, shoot, ack, nmi, loaded, unsent, handlerVars>>

NewGeneration(c) ==
    /\ At(c, "bump")
    /\ generation' = generation + 1
    /\ target' = [target EXCEPT ![c] = generation + 1]
    /\ Goto(c, "load")
    /\ UNCHANGED <<online, memoryVars, paging, shoot, ack, nmi, loaded, unsent, handlerVars>>


AckLoad(c) ==
    /\ At(c, "load")
    /\ loaded' = [loaded EXCEPT ![c] = generation]
    /\ Goto(c, "flush")
    /\ UNCHANGED <<online, memoryVars, paging, shoot, generation, ack, nmi, target, unsent, handlerVars>>

AckFlush(c) ==
    /\ At(c, "flush")
    /\ cached' = [cached EXCEPT ![c] = Flushed]
    /\ Goto(c, "ack")
    /\ UNCHANGED <<online, table, paging, shoot, generation, ack, nmi, target, loaded, unsent, handlerVars>>

AckStore(c) ==
    /\ At(c, "ack")
    /\ ack' = [ack EXCEPT ![c] = loaded[c]]
    /\ unsent' = [unsent EXCEPT ![c] = online \ {c}]
    /\ Goto(c, "send")
    /\ UNCHANGED <<online, memoryVars, paging, shoot, generation, nmi, target, loaded, handlerVars>>

SendNmi(c, d) ==
    /\ At(c, "send")
    /\ d \in unsent[c]
    /\ nmi' = [nmi EXCEPT ![d] = TRUE]
    /\ unsent' = [unsent EXCEPT ![c] = @ \ {d}]
    /\ Goto(c, IF unsent[c] = {d} THEN "wait" ELSE "send")
    /\ UNCHANGED <<online, memoryVars, paging, shoot, generation, ack, target, loaded, handlerVars>>

\* Mutant of Acknowledged: off by one generation.
AcknowledgedBefore(c) == \A d \in online : ack[d] + 1 >= target[c]

\* The loop ends when every online CPU has acknowledged this generation.
Acknowledged(c) == \A d \in online : ack[d] >= target[c]

AllAcked(c) ==
    /\ At(c, "wait")
    /\ Acknowledged(c)
    /\ Goto(c, "unlock")
    /\ UNCHANGED <<online, memoryVars, paging, shoot, generation, ack, nmi, target, loaded, unsent, handlerVars>>

ShootUnlock(c) ==
    /\ At(c, "unlock")
    /\ shoot' = NoCpu
    /\ Goto(c, "retire")
    /\ UNCHANGED <<online, memoryVars, paging, generation, ack, nmi, target, loaded, unsent, handlerVars>>

\* The old frame goes back to the allocator and PAGING is dropped.
RetireFrame(c) ==
    /\ At(c, "retire")
    /\ paging' = NoCpu
    /\ Goto(c, "idle")
    /\ UNCHANGED <<online, memoryVars, shoot, generation, ack, nmi, target, loaded, unsent, handlerVars>>

Handler(c) ==
    NmiEnter(c) \/ NmiLoad(c) \/ NmiFlush(c) \/ NmiAck(c) \/ NmiReturn(c)

Shootdown(c) ==
    \/ StorePte(c) \/ InvalidateLocal(c) \/ ShootAlone(c) \/ ShootLock(c)
    \/ NewGeneration(c) \/ AckLoad(c) \/ AckFlush(c) \/ AckStore(c)
    \/ \E d \in Cpus : SendNmi(c, d)
    \/ AllAcked(c) \/ ShootUnlock(c) \/ RetireFrame(c)

Next == \E c \in Cpus : Fill(c) \/ Handler(c) \/ LockPaging(c) \/ Shootdown(c)

Spec == Init /\ [][Next]_vars

\* A CPU keeps executing: the handler runs to its end, and so does a paging
\* operation that has PAGING, whenever no handler is above it.
FairSpec ==
    /\ Spec
    /\ \A c \in Cpus : WF_vars(Handler(c)) /\ WF_vars(Shootdown(c))

-----------------------------------------------------------------------------

Sites == {"idle", "store", "invlpg", "shootdown", "bump", "load", "flush", "ack",
          "send", "wait", "unlock", "retire"}

Locked == Sites \ {"idle"}
Shooting == {"bump", "load", "flush", "ack", "send", "wait", "unlock"}

\* Type invariant; each lock is held by exactly the CPU whose code is between
\* its two ends.
TypeOK ==
    /\ online \subseteq Cpus
    /\ table \in Nat /\ generation \in Nat
    /\ cached \in [Cpus -> Nat \cup {Flushed}]
    /\ paging \in Cpus \cup {NoCpu}
    /\ shoot \in Cpus \cup {NoCpu}
    /\ ack \in [Cpus -> Nat]
    /\ nmi \in [Cpus -> BOOLEAN]
    /\ pc \in [Cpus -> Sites]
    /\ target \in [Cpus -> Nat]
    /\ loaded \in [Cpus -> Nat]
    /\ unsent \in [Cpus -> SUBSET Cpus]
    /\ handler \in [Cpus -> {"out", "load", "flush", "ack", "exit"}]
    /\ seen \in [Cpus -> Nat]
    /\ \A c \in Cpus : (paging = c) <=> (pc[c] \in Locked)
    /\ \A c \in Cpus : (shoot = c) <=> (pc[c] \in Shooting)

Published == Shooting \ {"bump"}
Fresh(d) == cached[d] \in {Flushed, table}

AcksBounded ==
    /\ \A c \in Cpus : ack[c] <= generation /\ seen[c] <= generation
    /\ \A c \in Cpus : handler[c] \in {"flush", "ack"} => ack[c] <= seen[c]

InitiatorCurrent ==
    /\ \A c \in Cpus : pc[c] \in Locked => c \in online
    /\ \A c \in Cpus : pc[c] \in Published => target[c] = generation
    /\ \A c \in Cpus : pc[c] \in {"flush", "ack"} => loaded[c] = generation

InitiatorFresh == \A c \in Cpus : pc[c] \in {"shootdown", "ack"} => Fresh(c)

AckedFresh ==
    \A c, d \in Cpus : pc[c] \in Published /\ ack[d] = generation => Fresh(d)

AckingFresh ==
    \A c, d \in Cpus :
        pc[c] \in Published /\ handler[d] = "ack" /\ seen[d] = generation => Fresh(d)

WaitedFresh == \A c \in Cpus : pc[c] = "unlock" => \A d \in online : Fresh(d)

\* The generation a shootdown waits for is the current one, the initiator has
\* loaded it for its own acknowledgement, and a CPU that has acknowledged it,
\* or is about to, has flushed since the change.
Support ==
    /\ AcksBounded /\ InitiatorCurrent /\ InitiatorFresh
    /\ AckedFresh /\ AckingFresh /\ WaitedFresh

\* When shootdown has returned and the old frame is about to be reused, no
\* online CPU holds a translation older than the change: the generation read
\* by acknowledge_tlb before its flush is what makes a late handler harmless.
NoStaleTranslation ==
    \A c \in Cpus : pc[c] = "retire" =>
        \A d \in online : Fresh(d)

\* The inductive invariant: at every step of shootdown_inner and of the handler
\* the generation a CPU has loaded or acknowledged is one its TLB was flushed for.
IInv == TypeOK /\ Support /\ NoStaleTranslation

\* An acknowledgement is never taken back: acknowledge_tlb stores with a plain
\* store from two contexts of a CPU, and a handler that stored an older
\* generation over the initiator's own would make it wait for ever.
AckMonotone == [][\A c \in Cpus : ack'[c] >= ack[c]]_vars


=============================================================================
