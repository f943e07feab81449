------------------------------- MODULE HeapProofs -------------------------------
(***************************************************************************)
(* Proof that the blocks of Heap never overlap, for a heap of any size, any *)
(* table limits and any sizes and alignments.                               *)
(***************************************************************************)
EXTENDS Heap, TLAPS

\* align_up moves an address forward by less than the alignment.
LEMMA AlignUpBounds ==
    ASSUME NEW v \in Nat, NEW a \in Nat \ {0}
    PROVE  AlignUp(v, a) \in Nat /\ v <= AlignUp(v, a)
<1>1. v % a \in 0 .. a - 1
  OBVIOUS
<1>2. (a - (v % a)) % a \in 0 .. a - 1
  BY <1>1
<1>3. QED
  BY <1>2 DEF AlignUp

\* A block is separate from everything in use that is described by the lists:
\* what may take a place of the lists.
Apart(b, live, list) ==
    /\ \A s \in LiveSlots : Disjoint(b, live[s])
    /\ \A i \in FreeSlots : Disjoint(b, list[i])

\* Separate for given lists and a given end of the used range.
Lists(live, list, n) ==
    /\ live \in [LiveSlots -> Blocks] /\ list \in [FreeSlots -> Blocks]
    /\ \A s, t \in LiveSlots : s # t => Disjoint(live[s], live[t])
    /\ \A s \in LiveSlots, i \in FreeSlots : Disjoint(live[s], list[i])
    /\ \A i, j \in FreeSlots : i # j => Disjoint(list[i], list[j])
    /\ \A s \in LiveSlots : live[s] = NoBlock \/ (live[s].size > 0 /\ Start <= live[s].ptr /\ live[s].ptr + live[s].size <= n)
    /\ \A i \in FreeSlots : list[i] = NoBlock \/ (list[i].size > 0 /\ Start <= list[i].ptr /\ list[i].ptr + list[i].size <= n)

\* The empty block is apart from every other.
LEMMA NoBlockApart ==
    /\ NoBlock \in Blocks
    /\ \A b \in Blocks : Disjoint(NoBlock, b) /\ Disjoint(b, NoBlock)
  BY DEF NoBlock, Blocks, Disjoint

\* Emptying a place of the free list.
LEMMA TakeFree ==
    ASSUME NEW live, NEW list, NEW n, Lists(live, list, n), NEW i \in FreeSlots
    PROVE  Lists(live, [list EXCEPT ![i] = NoBlock], n)
  BY NoBlockApart DEF Lists

\* Emptying a place of the table of allocations.
LEMMA TakeLive ==
    ASSUME NEW live, NEW list, NEW n, Lists(live, list, n), NEW s \in LiveSlots
    PROVE  Lists([live EXCEPT ![s] = NoBlock], list, n)
  BY NoBlockApart DEF Lists

\* Filling an empty place of the free list with a block that is apart.
LEMMA PutFree ==
    ASSUME NEW live, NEW list, NEW n \in Nat, Lists(live, list, n), NEW i \in FreeSlots,
           NEW b \in Blocks, Apart(b, live, list), b.size > 0, Start <= b.ptr, b.ptr + b.size <= n
    PROVE  Lists(live, [list EXCEPT ![i] = b], n)
<1>1. \A c \in Blocks : Disjoint(b, c) => Disjoint(c, b)
  BY DEF Disjoint
<1> DEFINE new == [list EXCEPT ![i] = b]
<1>2. new \in [FreeSlots -> Blocks] /\ new[i] = b /\ \A j \in FreeSlots : j # i => new[j] = list[j]
  BY DEF Lists
<1> HIDE DEF new
<1>3. QED
  BY <1>1, <1>2 DEF Lists, Apart

\* Filling a place of the table of allocations with a block that is apart.
LEMMA PutLive ==
    ASSUME NEW live, NEW list, NEW n \in Nat, Lists(live, list, n), NEW s \in LiveSlots,
           NEW b \in Blocks, Apart(b, live, list), b.size > 0, Start <= b.ptr, b.ptr + b.size <= n
    PROVE  Lists([live EXCEPT ![s] = b], list, n)
<1>1. \A c \in Blocks : Disjoint(b, c) => Disjoint(c, b)
  BY DEF Disjoint
<1> DEFINE new == [live EXCEPT ![s] = b]
<1>2. new \in [LiveSlots -> Blocks] /\ new[s] = b /\ \A j \in LiveSlots : j # s => new[j] = live[j]
  BY DEF Lists
<1> HIDE DEF new
<1>3. QED
  BY <1>1, <1>2 DEF Lists, Apart

\* The invariant in terms of the lists.
LEMMA HInvLists ==
    HInv <=> /\ next \in Nat /\ Start <= next /\ next <= End
             /\ Lists(live_allocations, free_list, next)
             /\ free_count \in 0 .. MaxFreeBlocks
             /\ \A i \in FreeSlots : i > free_count => free_list[i] = NoBlock
  BY DEF HInv, TypeOK, Separate, Lists, Inside

\* insert_free_block with a block that is apart, or that is empty.
LEMMA InsertKeeps ==
    ASSUME NEW live, NEW list, NEW n \in Nat, Lists(live, list, n), MaxFreeBlocks \in Nat,
           free_count \in 0 .. MaxFreeBlocks,
           \A i \in FreeSlots : i > free_count => list[i] = NoBlock,
           NEW b \in Blocks, Apart(b, live, list), Start <= b.ptr, b.ptr + b.size <= n,
           InsertFreeBlock(list, b)
    PROVE  /\ Lists(live, free_list', n)
           /\ free_count' \in 0 .. MaxFreeBlocks
           /\ \A i \in FreeSlots : i > free_count' => free_list'[i] = NoBlock
<1>1. CASE b.size = 0 \/ free_count = MaxFreeBlocks
  BY <1>1 DEF InsertFreeBlock
<1>2. CASE ~(b.size = 0 \/ free_count = MaxFreeBlocks)
  <2>1. /\ free_list' = [list EXCEPT ![free_count + 1] = b]
        /\ free_count' = free_count + 1 /\ free_count + 1 \in FreeSlots /\ b.size > 0
    BY <1>2 DEF InsertFreeBlock, FreeSlots, Blocks
  <2>2. Lists(live, free_list', n)
    BY <2>1, PutFree
  <2>3. \A i \in FreeSlots : i > free_count' => free_list'[i] = NoBlock
    BY <2>1 DEF FreeSlots, Lists
  <2>4. QED
    BY <1>2, <2>1, <2>2, <2>3
<1>3. QED
  BY <1>1, <1>2

\* dealloc moves a block from the table to the list, or drops it.
LEMMA DeallocKeeps ==
    ASSUME HeapAssumption, HInv, NEW s \in LiveSlots, Dealloc(s)
    PROVE  HInv'
<1> DEFINE b == live_allocations[s]
           live == [live_allocations EXCEPT ![s] = NoBlock]
<1>1. /\ Lists(live_allocations, free_list, next) /\ next \in Nat /\ Start <= next /\ next <= End
      /\ free_count \in 0 .. MaxFreeBlocks /\ MaxFreeBlocks \in Nat
      /\ \A i \in FreeSlots : i > free_count => free_list[i] = NoBlock
  BY HInvLists DEF HeapAssumption
<1>2. /\ b \in Blocks /\ b # NoBlock /\ live_allocations' = live /\ next' = next
      /\ InsertFreeBlock(free_list, b)
  BY <1>1 DEF Dealloc, Lists
<1>3. Start <= b.ptr /\ b.ptr + b.size <= next
  BY <1>1, <1>2 DEF Lists
<1>4. Lists(live, free_list, next)
  BY <1>1, TakeLive
<1>5. Apart(b, live, free_list)
  BY <1>1, <1>2, NoBlockApart DEF Lists, Apart
<1> HIDE DEF b, live
<1>6. /\ Lists(live, free_list', next) /\ free_count' \in 0 .. MaxFreeBlocks
      /\ \A i \in FreeSlots : i > free_count' => free_list'[i] = NoBlock
  BY <1>1, <1>2, <1>3, <1>4, <1>5, InsertKeeps
<1>7. QED
  BY <1>1, <1>2, <1>6 DEF HInv, TypeOK, Separate, Lists, Inside

\* alloc from the unused range: everything there is lies before it.
LEMMA AllocNextKeeps ==
    ASSUME HeapAssumption, HInv, NEW layout \in Layouts, AllocNext(layout)
    PROVE  HInv'
<1> DEFINE ptr == AlignUp(next, layout.align)
           b == [ptr |-> ptr, size |-> layout.size]
<1>1. /\ Lists(live_allocations, free_list, next) /\ next \in Nat /\ Start <= next /\ next <= End
      /\ free_count \in 0 .. MaxFreeBlocks
      /\ \A i \in FreeSlots : i > free_count => free_list[i] = NoBlock
  BY HInvLists
<1>2. layout.size \in Nat \ {0} /\ layout.align \in Nat \ {0} /\ Start \in Nat /\ End \in Nat
  BY DEF HeapAssumption
<1>3. ptr \in Nat /\ next <= ptr
  BY <1>1, <1>2, AlignUpBounds
<1>4. PICK s \in LiveSlots : live_allocations' = [live_allocations EXCEPT ![s] = b]
  BY DEF AllocNext
<1>5. next' = ptr + layout.size /\ ptr + layout.size <= End /\ UNCHANGED <<free_list, free_count>>
  BY DEF AllocNext
<1> HIDE DEF ptr
<1>6. next' \in Nat /\ next <= next' /\ next' <= End
  BY <1>1, <1>2, <1>3, <1>5
<1>7. b \in Blocks /\ b.ptr = ptr /\ b.size = layout.size
  BY <1>2, <1>3 DEF Blocks
<1> HIDE DEF b
<1>8. Lists(live_allocations, free_list, next')
  BY <1>1, <1>6 DEF Lists, Blocks
<1>9. Apart(b, live_allocations, free_list)
  <2>1. \A c \in Blocks : c = NoBlock \/ c.ptr + c.size <= next => Disjoint(b, c)
    BY <1>1, <1>3, <1>7 DEF Disjoint, Blocks, NoBlock
  <2>2. QED
    BY <1>1, <2>1 DEF Lists, Apart
<1>10. Lists(live_allocations', free_list, next')
  <2>1. b.size > 0 /\ Start <= b.ptr /\ b.ptr + b.size <= next'
    BY <1>1, <1>2, <1>3, <1>5, <1>7
  <2>2. QED
    BY <1>4, <1>6, <1>7, <1>8, <1>9, <2>1, PutLive
<1>11. QED
  BY <1>1, <1>2, <1>5, <1>6, <1>10 DEF HInv, TypeOK, Separate, Lists, Inside

\* alloc from the list: the allocation and the rest lie in the block they come from.
LEMMA AllocFreeKeeps ==
    ASSUME HeapAssumption, HInv, NEW layout \in Layouts, AllocFree(layout)
    PROVE  HInv'
<1>1. /\ Lists(live_allocations, free_list, next) /\ next \in Nat /\ Start <= next /\ next <= End
      /\ free_count \in 0 .. MaxFreeBlocks /\ MaxFreeBlocks \in Nat
      /\ \A i \in FreeSlots : i > free_count => free_list[i] = NoBlock
  BY HInvLists DEF HeapAssumption
<1>2. layout.size \in Nat \ {0} /\ layout.align \in Nat \ {0} /\ Start \in Nat
  BY DEF HeapAssumption
<1>3. PICK i \in FreeSlots :
          LET block == free_list[i]
              ptr == AlignUp(block.ptr, layout.align)
          IN  /\ Best(i, layout)
              /\ InsertFreeBlock([free_list EXCEPT ![i] = NoBlock],
                     [ptr |-> ptr + layout.size, size |-> block.ptr + block.size - ptr - layout.size])
              /\ \/ \E s \in LiveSlots :
                      /\ Unused(s)
                      /\ live_allocations' =
                            [live_allocations EXCEPT ![s] = [ptr |-> ptr, size |-> layout.size]]
                 \/ UNCHANGED live_allocations
              /\ UNCHANGED next
  BY DEF AllocFree
<1> DEFINE block == free_list[i]
           ptr == AlignUp(block.ptr, layout.align)
           list == [free_list EXCEPT ![i] = NoBlock]
           b == [ptr |-> ptr, size |-> layout.size]
           rest == [ptr |-> ptr + layout.size, size |-> block.ptr + block.size - ptr - layout.size]
<1>4. block \in Blocks /\ block # NoBlock /\ ptr - block.ptr + layout.size <= block.size
  BY <1>1, <1>3 DEF Lists, Best, Fits
<1>5. Start <= block.ptr /\ block.ptr + block.size <= next
  BY <1>1, <1>4 DEF Lists
<1>6. block.ptr \in Nat /\ block.size \in Nat
  BY <1>4 DEF Blocks
<1>7. ptr \in Nat /\ block.ptr <= ptr
  BY <1>2, <1>6, AlignUpBounds
<1>8. Lists(live_allocations, list, next)
  BY <1>1, TakeFree
<1>9. Apart(block, live_allocations, list)
  <2>1. \A c, d \in Blocks : Disjoint(c, d) => Disjoint(d, c)
    BY DEF Disjoint
  <2>2. QED
    BY <1>1, <1>4, <2>1, NoBlockApart DEF Lists, Apart
<1>10. \A j \in FreeSlots : j > free_count => list[j] = NoBlock
  BY <1>1 DEF Lists
<1>11. InsertFreeBlock(list, rest) /\ next' = next
  BY <1>3
<1>12. \/ \E s \in LiveSlots : live_allocations' = [live_allocations EXCEPT ![s] = b]
       \/ UNCHANGED live_allocations
  BY <1>3
<1> HIDE DEF block, ptr, list
<1>13. b \in Blocks /\ b.ptr = ptr /\ b.size = layout.size
  BY <1>2, <1>7 DEF Blocks
<1>14. /\ rest \in Blocks /\ rest.ptr = ptr + layout.size
       /\ rest.size = block.ptr + block.size - ptr - layout.size
  BY <1>2, <1>4, <1>6, <1>7 DEF Blocks
<1> HIDE DEF b, rest
<1>15. \A c \in Blocks : Disjoint(block, c) => Disjoint(b, c) /\ Disjoint(rest, c)
  BY <1>2, <1>4, <1>6, <1>7, <1>13, <1>14 DEF Disjoint, Blocks
<1>16. Apart(b, live_allocations, list) /\ Apart(rest, live_allocations, list)
  BY <1>8, <1>9, <1>15 DEF Lists, Apart
<1>17. Lists(live_allocations', list, next) /\ Apart(rest, live_allocations', list)
  <2>1. CASE UNCHANGED live_allocations
    BY <1>8, <1>16, <2>1
  <2>2. ASSUME NEW s \in LiveSlots, live_allocations' = [live_allocations EXCEPT ![s] = b]
        PROVE  Lists(live_allocations', list, next) /\ Apart(rest, live_allocations', list)
    <3>1. b.size > 0 /\ Start <= b.ptr /\ b.ptr + b.size <= next
      BY <1>1, <1>2, <1>4, <1>5, <1>6, <1>7, <1>13
    <3>2. Lists(live_allocations', list, next)
      BY <1>1, <1>8, <1>13, <1>16, <2>2, <3>1, PutLive
    <3>3. Disjoint(rest, b)
      BY <1>2, <1>7, <1>13, <1>14 DEF Disjoint
    <3>4. QED
      BY <1>8, <1>16, <2>2, <3>2, <3>3 DEF Apart, Lists
  <2>3. QED
    BY <1>12, <2>1, <2>2
<1>18. Start <= rest.ptr /\ rest.ptr + rest.size <= next
  BY <1>1, <1>2, <1>5, <1>6, <1>7, <1>14
<1>19. /\ Lists(live_allocations', free_list', next) /\ free_count' \in 0 .. MaxFreeBlocks
       /\ \A j \in FreeSlots : j > free_count' => free_list'[j] = NoBlock
  BY <1>1, <1>10, <1>11, <1>14, <1>17, <1>18, InsertKeeps
<1>20. QED
  BY <1>1, <1>11, <1>19 DEF HInv, TypeOK, Separate, Lists, Inside

\* HInv is inductive.
LEMMA HeapStep == ASSUME HeapAssumption PROVE HInv /\ [Next]_vars => HInv'
<1> SUFFICES ASSUME HInv, [Next]_vars PROVE HInv'
  OBVIOUS
<1>1. CASE UNCHANGED vars
  BY <1>1 DEF vars, HInv, TypeOK, Separate, Inside
<1>2. CASE Next
  BY <1>2, AllocFreeKeeps, AllocNextKeeps, DeallocKeeps DEF Next
<1>3. QED
  BY <1>1, <1>2

\* After init the whole range is unused.
LEMMA HeapInit == ASSUME HeapAssumption PROVE Init => HInv
  BY NoBlockApart DEF HeapAssumption, Init, HInv, TypeOK, Separate, Inside

\* Allocations of the kernel never overlap, and what is listed as free belongs
\* to none of them, through every sequence of alloc and dealloc.
THEOREM NoOverlap == ASSUME HeapAssumption PROVE Spec => []Separate
<1>1. Init => HInv
  BY HeapInit
<1>2. HInv /\ [Next]_vars => HInv'
  BY HeapStep
<1>3. HInv => Separate
  BY DEF HInv
<1>4. QED
  BY <1>1, <1>2, <1>3, PTL DEF Spec
================================================================================
