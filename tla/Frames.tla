--------------------------------- MODULE Frames ---------------------------------
(***************************************************************************)
(* Physical frames and who refers to them: the frame allocator              *)
(* (kernel/src/memory.rs), the reference table and the user page tables     *)
(* (paging.rs), and the swap slots (swap.rs).                               *)
(*                                                                         *)
(* The operators work on a running call (Calls) whose st.v is the record    *)
(*   fresh, reclaimed   the frames an allocation can return                 *)
(*   data               what each frame holds                               *)
(*   cow                COW_TABLE: references of a frame, 0 for no entry    *)
(*   pte                each process's page table                           *)
(*   swap               SWAP.slots                                          *)
(* and the file's fields, which Memory adds.                                *)
(* A frame, a slot and a page hold one value: sectors and bytes are not     *)
(* told apart.  The frames of the page tables themselves are not counted.   *)
(***************************************************************************)
EXTENDS Calls, FiniteSets, SequencesExt

CONSTANTS
    Procs,          \* processes, each with an address space
    Image,          \* pages of a loaded program: its segments and its stack
    Slots,          \* mapping slots of a process, by number
    NPages,         \* pages of a mapping, and of the file
    NFrames,        \* frames of the machine
    MaxReclaimed,   \* MAX_RECLAIMED_FRAMES
    MaxCow,         \* MAX_COW_FRAMES
    NSwap,          \* MAX_SWAP_SLOTS
    NDisk,          \* slots the configured disk area covers
    GenMod          \* generations of a slot wrap here: 2^16

ASSUME FramesAssumption ==
    /\ NPages \in Nat \ {0} /\ NFrames \in Nat \ {0}
    /\ MaxReclaimed \in Nat /\ MaxCow \in Nat
    /\ NSwap \in Nat /\ NDisk \in 0 .. NSwap /\ GenMod \in Nat \ {0, 1}

FrameIds == 1 .. NFrames
Indices == 1 .. NPages
SwapIds == 1 .. NSwap
\* A page of an address space: of the image (slot 0), or of a mapping.
ImagePages == {0} \X Image
PagesOf(slot) == [i \in Indices |-> <<slot, i>>]
PageIds == ImagePages \cup (Slots \X Indices)
NoPte == [frame |-> 0, writable |-> FALSE]
NoSwap == [index |-> 0, generation |-> 0]
Mapped(m, p, page) == m.pte[p][page] # NoPte

(***************************************************************************)
(* memory.rs.  Which of the free frames is returned does not matter.        *)
(***************************************************************************)
AllocateFrame(st) ==
    Then(st, LAMBDA s :
        LET pool == IF s.v.reclaimed # {} THEN s.v.reclaimed ELSE s.v.fresh IN
        IF pool = {} THEN Fail(s, "OutOfFrames")
        ELSE LET f == Min(pool)
             IN  [s EXCEPT !.val = f, !.v.fresh = @ \ {f}, !.v.reclaimed = @ \ {f}])

DeallocateFrame(st, f) ==
    Then(st, LAMBDA s :
        IF Cardinality(s.v.reclaimed) = MaxReclaimed \/ f \in s.v.reclaimed
        THEN Fail(s, "NotReclaimed")
        ELSE [s EXCEPT !.v.reclaimed = @ \cup {f}, !.v.data[f] = "junk"])

(***************************************************************************)
(* CowTable and the page tables of paging.rs.                               *)
(***************************************************************************)
Refcount(m, f) == IF m.cow[f] = 0 THEN 1 ELSE m.cow[f]

CowShare(st, f) ==
    Then(st, LAMBDA s :
        IF s.v.cow[f] # 0 THEN [s EXCEPT !.v.cow[f] = @ + 1]
        ELSE IF Cardinality({g \in FrameIds : s.v.cow[g] # 0}) = MaxCow THEN Fail(s, "OutOfFrames")
        ELSE [s EXCEPT !.v.cow[f] = 2])

ReleaseFrame(st, f) ==
    Then(st, LAMBDA s :
        IF s.v.cow[f] > 1 THEN [s EXCEPT !.v.cow[f] = @ - 1]
        ELSE DeallocateFrame([s EXCEPT !.v.cow[f] = 0], f))

SetPte(st, p, page, f, writable) ==
    [st EXCEPT !.v.pte[p][page] = [frame |-> f, writable |-> writable]]

UnmapPage(st, p, page) ==
    Then(st, LAMBDA s :
        IF ~Mapped(s.v, p, page) THEN Fail(s, "NotMapped")
        ELSE ReleaseFrame([s EXCEPT !.v.pte[p][page] = NoPte], s.v.pte[p][page].frame))

UnmapRange(st, p, pages) == FoldLeft(LAMBDA s, page : UnmapPage(s, p, page), st, pages)

\* The pages of the ranges, then the page tables; never of the space in CR3.
DestroyUserAddressSpace(st, p, pages) == UnmapRange(st, p, pages)

\* map_user_range_in, then the zeroes or the bytes its callers fill it with.
MapPage(st, p, page, writable, bytes) ==
    Then(st, LAMBDA s :
        IF Mapped(s.v, p, page) THEN Fail(s, "AlreadyMapped")
        ELSE Then(AllocateFrame(s), LAMBDA t :
            SetPte([t EXCEPT !.v.data[t.val] = bytes], p, page, t.val, writable)))

\* What was mapped before a failure is unmapped again.
RollBack(st, before, p, pages) ==
    OnError(st, LAMBDA s :
        UnmapRange(s, p, SelectSeq(pages, LAMBDA page :
            Mapped(s.v, p, page) /\ ~Mapped(before, p, page))))

MapRange(st, p, pages, writable, bytes) ==
    RollBack(FoldLeft(LAMBDA s, page : MapPage(s, p, page, writable, bytes[page[2]]), st, pages),
             st.v, p, pages)

\* Mutant of SharePage: the parent keeps its permission to write.
SharePageKeepsWrite(st, p, child, page, writable) ==
    Then(st, LAMBDA s :
        LET f == s.v.pte[p][page].frame IN
        IF ~Mapped(s.v, p, page) THEN Fail(s, "NotMapped")
        ELSE Then(CowShare(s, f), LAMBDA t : SetPte(t, child, page, f, FALSE)))

\* One page of share_user_range_in.
SharePage(st, p, child, page, writable) ==
    Then(st, LAMBDA s :
        LET f == s.v.pte[p][page].frame IN
        IF ~Mapped(s.v, p, page) THEN Fail(s, "NotMapped")
        ELSE Then(CowShare(s, f), LAMBDA t :
            SetPte(SetPte(t, child, page, f, FALSE),
                   p, page, f, IF writable THEN FALSE ELSE s.v.pte[p][page].writable)))

MapFileFrame(st, p, page, f, writable) ==
    Then(st, LAMBDA s :
        IF Mapped(s.v, p, page) THEN Fail(s, "AlreadyMapped")
        ELSE Then(CowShare(s, f), LAMBDA t : SetPte(t, p, page, f, writable)))

\* Mutant of TryBreakCow: whoever writes first takes the shared frame.
TryBreakCowInPlace(st, p, page) ==
    LET old == st.v.pte[p][page].frame
    IN  SetPte([st EXCEPT !.v.cow[old] = 0], p, page, old, TRUE)

TryBreakCow(st, p, page) ==
    Then(st, LAMBDA s :
        LET old == s.v.pte[p][page].frame IN
        IF ~Mapped(s.v, p, page) \/ s.v.pte[p][page].writable THEN Fail(s, "NotMapped")
        ELSE IF Refcount(s.v, old) = 1
             THEN SetPte([s EXCEPT !.v.cow[old] = 0], p, page, old, TRUE)
             ELSE Then(AllocateFrame(s), LAMBDA t :
                 Ignoring(SetPte([t EXCEPT !.v.data[t.val] = s.v.data[old]], p, page, t.val, TRUE),
                          LAMBDA u : ReleaseFrame(u, old))))

\* allocate_file_frame: the cache holds the one reference.
AllocateFileFrame(st, bytes) ==
    Then(AllocateFrame(st), LAMBDA s : [s EXCEPT !.v.data[s.val] = bytes])

(***************************************************************************)
(* swap.rs: State.                                                          *)
(***************************************************************************)
EmptySlot == [refs |-> 0, generation |-> 0, occupied |-> FALSE, backing |-> "Ram", bytes |-> "junk"]
FreeSwapSlots(m) == {i \in SwapIds : ~m.swap[i].occupied}
NextGeneration(slot) ==
    LET g == (slot.generation + 1) % GenMod IN IF g = 0 THEN 1 ELSE g
ClearSlot(st, i) ==
    [st EXCEPT !.v.swap[i] = [EmptySlot EXCEPT !.generation = st.v.swap[i].generation]]
HandleOf(m, i) == [index |-> i, generation |-> m.swap[i].generation]

\* reserve_disk (refs 0) and occupy (refs 1) in the first free slot.
Occupy(st, refs, backing, bytes) ==
    LET i == Min(FreeSwapSlots(st.v)) IN
    LET s == [st EXCEPT !.v.swap[i] =
                 [refs |-> refs, occupied |-> TRUE, backing |-> backing, bytes |-> bytes,
                  generation |-> NextGeneration(st.v.swap[i])]]
    IN  Give(s, HandleOf(s.v, i))
DiskSlotFree(m) == FreeSwapSlots(m) # {} /\ Min(FreeSwapSlots(m)) <= NDisk

Reserved(m, h) ==
    /\ m.swap[h.index].occupied /\ m.swap[h.index].refs = 0
    /\ m.swap[h.index].generation = h.generation

PublishReservedDisk(st, h, bytes) ==
    IF Reserved(st.v, h)
    THEN Give([st EXCEPT !.v.swap[h.index].refs = 1, !.v.swap[h.index].bytes = bytes], h)
    ELSE Fail(st, "NotReserved")

CancelReserved(st, h) == IF Reserved(st.v, h) THEN ClearSlot(st, h.index) ELSE st

AllocateRam(st, bytes) ==
    IF FreeSwapSlots(st.v) = {} THEN Fail(st, "NoSlot") ELSE Occupy(st, 1, "Ram", bytes)

LiveHandle(m, h) ==
    /\ h.index \in SwapIds
    /\ m.swap[h.index].occupied /\ m.swap[h.index].refs > 0
    /\ m.swap[h.index].generation = h.generation

SwapShare(st, h) ==
    Then(st, LAMBDA s :
        IF LiveHandle(s.v, h) THEN [s EXCEPT !.v.swap[h.index].refs = @ + 1]
        ELSE Fail(s, "BadHandle"))

SwapRelease(st, h) ==
    IF ~LiveHandle(st.v, h) THEN st
    ELSE IF st.v.swap[h.index].refs = 1 THEN ClearSlot(st, h.index)
    ELSE [st EXCEPT !.v.swap[h.index].refs = @ - 1]
=============================================================================
