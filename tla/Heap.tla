---------------------------------- MODULE Heap ----------------------------------
(***************************************************************************)
(* The kernel heap of kernel/src/heap.rs: a range that is handed out from   *)
(* its start, a table of live allocations, and a list of freed blocks that  *)
(* is searched first, best fit.  HEAP is a spin lock held for one call, so  *)
(* a call is one step.  A null pointer changes nothing unless stated.       *)
(***************************************************************************)
EXTENDS Integers

CONSTANTS
    Start, End,     \* the mapped range
    MaxAllocations, \* MAX_HEAP_ALLOCATIONS
    MaxFreeBlocks,  \* MAX_FREE_BLOCKS
    Layouts         \* sizes and alignments that are asked for

\* GlobalAlloc is never called with size 0, and an alignment is a power of two.
HeapAssumption ==
    /\ Start \in Nat \ {0} /\ End \in Nat /\ Start <= End
    /\ MaxAllocations \in Nat /\ MaxFreeBlocks \in Nat
    /\ Layouts \subseteq [size : Nat \ {0}, align : Nat \ {0}]

VARIABLES
    next,           \* where the range was not handed out yet
    live_allocations,
    free_list,
    free_count

vars == <<next, live_allocations, free_list, free_count>>

LiveSlots == 1 .. MaxAllocations
FreeSlots == 1 .. MaxFreeBlocks
NoBlock == [ptr |-> 0, size |-> 0]

Init ==
    /\ next = Start
    /\ live_allocations = [s \in LiveSlots |-> NoBlock]
    /\ free_list = [i \in FreeSlots |-> NoBlock]
    /\ free_count = 0

\* The first multiple of the alignment from value on.
AlignUp(value, align) == value + ((align - (value % align)) % align)

\* Entries are added at free_count, which never falls: the place of a block
\* that was taken stays empty, and once all places were used blocks are dropped.
InsertFreeBlock(list, block) ==
    IF block.size = 0 \/ free_count = MaxFreeBlocks
    THEN free_list' = list /\ free_count' = free_count
    ELSE /\ free_list' = [list EXCEPT ![free_count + 1] = block]
         /\ free_count' = free_count + 1

Fits(block, layout) ==
    /\ block # NoBlock
    /\ AlignUp(block.ptr, layout.align) - block.ptr + layout.size <= block.size

\* find_free takes the first of the smallest blocks that fit.
Best(i, layout) ==
    /\ Fits(free_list[i], layout)
    /\ \A j \in FreeSlots : Fits(free_list[j], layout) =>
          \/ free_list[i].size < free_list[j].size
          \/ free_list[i].size = free_list[j].size /\ i <= j

Unused(s) ==
    live_allocations[s] = NoBlock /\ \A t \in LiveSlots : live_allocations[t] = NoBlock => s <= t

\* alloc from the list: what alignment skips is lost, the rest is listed again.
\* Without a place in the table the block is lost and the caller gets null.
AllocFree(layout) ==
    \E i \in FreeSlots :
        LET block == free_list[i]
            ptr == AlignUp(block.ptr, layout.align)
        IN  /\ Best(i, layout)
            /\ InsertFreeBlock([free_list EXCEPT ![i] = NoBlock],
                   [ptr |-> ptr + layout.size, size |-> block.ptr + block.size - ptr - layout.size])
            /\ \/ \E s \in LiveSlots :
                    /\ Unused(s)
                    /\ live_allocations' =
                          [live_allocations EXCEPT ![s] = [ptr |-> ptr, size |-> layout.size]]
               \/ /\ \A s \in LiveSlots : live_allocations[s] # NoBlock
                  /\ UNCHANGED live_allocations
            /\ UNCHANGED next

\* alloc from the range that was not used yet.
AllocNext(layout) ==
    LET ptr == AlignUp(next, layout.align)
    IN  /\ \A i \in FreeSlots : ~Fits(free_list[i], layout)
        /\ ptr + layout.size <= End
        /\ \E s \in LiveSlots :
              /\ Unused(s)
              /\ live_allocations' =
                    [live_allocations EXCEPT ![s] = [ptr |-> ptr, size |-> layout.size]]
        /\ next' = ptr + layout.size
        /\ UNCHANGED <<free_list, free_count>>

Dealloc(s) ==
    /\ live_allocations[s] # NoBlock
    /\ live_allocations' = [live_allocations EXCEPT ![s] = NoBlock]
    /\ InsertFreeBlock(free_list, live_allocations[s])
    /\ UNCHANGED next

Next ==
    \/ \E layout \in Layouts : AllocFree(layout) \/ AllocNext(layout)
    \/ \E s \in LiveSlots : Dealloc(s)

Spec == Init /\ [][Next]_vars

------------------------------------------------------------------------------
Disjoint(a, b) == a.ptr + a.size <= b.ptr \/ b.ptr + b.size <= a.ptr
Inside(b) == b = NoBlock \/ (b.size > 0 /\ Start <= b.ptr /\ b.ptr + b.size <= next)

\* No byte of the heap belongs to two live allocations, or to one and to a block
\* that may be handed out again, whatever was split, aligned or dropped.
Separate ==
    /\ \A s, t \in LiveSlots : s # t => Disjoint(live_allocations[s], live_allocations[t])
    /\ \A s \in LiveSlots, i \in FreeSlots : Disjoint(live_allocations[s], free_list[i])
    /\ \A i, j \in FreeSlots : i # j => Disjoint(free_list[i], free_list[j])
    /\ \A s \in LiveSlots : Inside(live_allocations[s])
    /\ \A i \in FreeSlots : Inside(free_list[i])
    /\ Start <= next /\ next <= End

Blocks == [ptr : Nat, size : Nat]
TypeOK ==
    /\ next \in Nat
    /\ live_allocations \in [LiveSlots -> Blocks]
    /\ free_list \in [FreeSlots -> Blocks]
    /\ free_count \in 0 .. MaxFreeBlocks
    /\ \A i \in FreeSlots : i > free_count => free_list[i] = NoBlock

HInv == TypeOK /\ Separate
================================================================================
