--------------------------------- MODULE Memory ---------------------------------
(***************************************************************************)
(* The memory of user processes: the mappings of a process and the calls    *)
(* that change them (userspace.rs, task.rs), the file pages they share      *)
(* (file_frames.rs), the pager task that loads an absent page, and the      *)
(* eviction it falls back on when no frame is left.                         *)
(*                                                                         *)
(* System calls and faults run with interrupts off and are one step each.   *)
(* The pager is a kernel task with interrupts on: a step of it ends where   *)
(* it drops a lock or waits for the disk, and processes run in between.     *)
(* While it evicts it holds PROCESS_TABLE: then only user mode runs, since  *)
(* a call or a fault would wait for the table with interrupts off.          *)
(***************************************************************************)
EXTENDS Frames

CONSTANTS
    First,          \* the process the system starts with
    Modes,          \* the mappings asked for: their kind and whether writable
    Written,        \* the numbers of the pages, of image, mapping or file, that are written
    NCache,         \* CAPACITY of the cached file frames
    NRequests,      \* MAX_PAGER_REQUESTS: places for requests,
    NCompletions,   \* and as many for completions
    MaxCalls        \* how many calls the processes make, faults not counted

Kinds == {"anonymous", "eager", "lazy", "shared"}

ASSUME MemoryAssumption ==
    /\ First \in Procs
    /\ Written \subseteq Image \cup (1 .. NPages)
    /\ Modes \subseteq [kind : Kinds, writable : BOOLEAN]
    /\ NCache \in Nat /\ NRequests \in Nat /\ NCompletions \in Nat /\ MaxCalls \in Nat

VARIABLES
    mm,             \* frames, page tables, swap slots and cached file pages (Frames), and
                    \* as history the frames that nothing can release any more (lost)
    state,          \* what each process is doing
    maps,           \* Process.memory_mappings
    requests,       \* PAGER.entries, at most one of a process
    completions,    \* PAGER.completions
    pager,          \* where pager_task is, and its locals
    calls,          \* how many calls the processes have made
    panicked,       \* an assertion about released memory has failed
    wrote,          \* what each process last wrote to each page of its own
    view,           \* what was last written to each page of the file
    raced           \* one of the three races below has happened

vars == <<mm, state, maps, requests, completions, pager, calls, panicked, wrote, view, raced>>

CacheIds == 1 .. NCache
NoEntry == [frame |-> 0, index |-> 0, shared |-> FALSE, current |-> FALSE]
NoKey == [index |-> 0, shared |-> FALSE, current |-> FALSE]
NoMapping == [kind |-> "none", writable |-> FALSE, resident |-> {}, dirty |-> {},
              swap |-> [i \in Indices |-> NoSwap]]
NoVictim == [proc |-> First, slot |-> 0, index |-> 0]
Idle == [pc |-> "idle", proc |-> First, slot |-> 0, index |-> 0, mapping |-> NoMapping,
         bytes |-> "junk", at |-> 0, tried |-> {}, victim |-> NoVictim, copy |-> "junk",
         handle |-> NoSwap]
Lazy(mapping) == mapping.kind \in {"lazy", "shared"}
Anything == "any"
Unwritten == [page \in PageIds |-> Anything]

ImageSeq == SetToSeq(ImagePages)
SlotSeq == SetToSortSeq(Slots, <)

\* load_elf: the segments and the stack, all of them or none.
LoadElf(st, p) == MapRange(st, p, ImageSeq, TRUE, [page \in Image |-> "image"])

\* The arguments go below the top of the stack, if they fit: their bytes are not
\* told apart from the rest of the stack.
SetupArgvStack(st, fits) == IF fits THEN st ELSE Fail(st, "TooLong")

\* A program whose arguments do not fit is given up with the frames it was loaded in.
LoadElfWithArgv(st, p, fits) ==
    Then(LoadElf(st, p), LAMBDA s :
        With(SetupArgvStack(s, fits), LAMBDA t :
            IF Fine(t) THEN t
            ELSE [t EXCEPT !.v.lost = @ \cup {s.v.pte[p][page].frame : page \in ImagePages},
                           !.v.pte[p] = [page \in PageIds |-> NoPte]]))

Loaded == [page \in PageIds |-> IF page \in ImagePages THEN "image" ELSE Anything]

CallOn(m) == [v |-> m, val |-> 0, err |-> "none", left |-> 0]

Blank ==
    [fresh |-> FrameIds, reclaimed |-> {},
     data |-> [f \in FrameIds |-> "junk"],
     cow |-> [f \in FrameIds |-> 0],
     pte |-> [p \in Procs |-> [page \in PageIds |-> NoPte]],
     swap |-> [i \in SwapIds |-> EmptySlot],
     node |-> [i \in Indices |-> "file"],
     cache |-> [i \in CacheIds |-> NoEntry],
     key |-> NoKey, opens |-> 1, lost |-> {}]

Init ==
    /\ mm = LoadElf(CallOn(Blank), First).v
    /\ state = [p \in Procs |-> IF p = First THEN "live" ELSE "none"]
    /\ maps = [p \in Procs |-> [s \in Slots |-> NoMapping]]
    /\ requests = {} /\ completions = [p \in Procs |-> "none"]
    /\ pager = Idle
    /\ calls = 0 /\ panicked = FALSE
    /\ wrote = [p \in Procs |-> IF p = First THEN Loaded ELSE Unwritten]
    /\ view = [i \in Indices |-> "file"]
    /\ raced = FALSE

Call == CallOn(mm)

(***************************************************************************)
(* The file: its inode image and the frames cached for it.  Of a version    *)
(* only whether it is still the file's is kept; a snapshot matches nothing. *)
(***************************************************************************)
ReadFile(m, index) ==
    LET over == {c \in CacheIds : m.cache[c].shared /\ m.cache[c].index = index}
    IN  IF over = {} THEN m.node[index] ELSE m.data[m.cache[CHOOSE c \in over : TRUE].frame]

Update(m, index, bytes) ==
    LET over == {m.cache[c].frame : c \in {d \in CacheIds :
                     m.cache[d].shared /\ m.cache[d].index = index}}
    IN  [f \in FrameIds |-> IF f \in over THEN bytes ELSE m.data[f]]

WriteNode(st, index, bytes) ==
    [st EXCEPT !.v.node[index] = bytes,
               !.v.cache = [c \in CacheIds |-> [@[c] EXCEPT !.current = @ /\ st.v.cache[c].shared]],
               !.v.key.current = @ /\ st.v.key.shared,
               !.v.data = Update(st.v, index, bytes)]

SamePage(entry, key) ==
    /\ entry # NoEntry
    /\ entry.index = key.index /\ entry.shared = key.shared
    /\ entry.current /\ key.current

CachedAt(m, key) == {c \in CacheIds : SamePage(m.cache[c], key)}
Unpinned(m) == {c \in CacheIds : m.cache[c] # NoEntry /\ Refcount(m, m.cache[c].frame) = 1}

DropCached(st, c) ==
    Ignoring([st EXCEPT !.v.cache[c] = NoEntry], LAMBDA s : ReleaseFrame(s, st.v.cache[c].frame))

ReclaimUnused(st) ==
    FoldLeft(LAMBDA s, c : IF c \in Unpinned(s.v) THEN DropCached(s, c) ELSE s,
             st, [c \in CacheIds |-> c])


ResidentPages(slot, mapping) ==
    SelectSeq(PagesOf(slot), LAMBDA page : page[2] \in mapping.resident)

SyncFileMapping(st, p, slot, mapping) ==
    IF mapping.kind # "shared" THEN Fail(st, "NotShared")
    ELSE FoldLeft(LAMBDA s, page :
             Then(s, LAMBDA t : IF ~Mapped(t.v, p, page) THEN Fail(t, "NotMapped")
                                ELSE WriteNode(t, page[2], t.v.data[t.v.pte[p][page].frame])),
             st, ResidentPages(slot, mapping))

ReleaseSwapSlots(st, mapping) ==
    FoldLeft(LAMBDA s, i : SwapRelease(s, mapping.swap[i]), st, [i \in Indices |-> i])

UnmapAnonymous(st, p, slot, mapping) ==
    IF mapping = NoMapping THEN st
    ELSE IF ~Lazy(mapping) THEN UnmapRange(st, p, PagesOf(slot))
    ELSE Then(Then(IF mapping.kind = "shared" THEN SyncFileMapping(st, p, slot, mapping) ELSE st,
                   LAMBDA s : UnmapRange(s, p, ResidentPages(slot, mapping))),
              LAMBDA s : ReclaimUnused([ReleaseSwapSlots(s, mapping) EXCEPT !.v.opens = @ - 1]))

NewMapping(mode) == [NoMapping EXCEPT !.kind = mode.kind, !.writable = mode.writable]

\* map_anonymous, map_file_private, map_file_lazy and map_file_shared.
MapNew(st, p, slot, mode) ==
    CASE mode.kind = "anonymous" ->
            MapRange(st, p, PagesOf(slot), mode.writable, [i \in Indices |-> "zero"])
      [] mode.kind = "eager" ->
            MapRange(st, p, PagesOf(slot), mode.writable, [i \in Indices |-> ReadFile(st.v, i)])
      [] OTHER -> IF \E i \in Indices : Mapped(st.v, p, <<slot, i>>) THEN Fail(st, "Mapped")
                  ELSE [st EXCEPT !.v.opens = @ + 1]

\* One page of clone_address_space.
ClonePage(st, p, child, page, mapping) ==
    IF mapping.kind = "shared"
    THEN Then(st, LAMBDA s :
            IF Mapped(s.v, p, page) THEN MapFileFrame(s, child, page, s.v.pte[p][page].frame, TRUE)
            ELSE Fail(s, "NotMapped"))
    ELSE SharePage(st, p, child, page, mapping.writable)

CloneMapping(st, p, child, slot) ==
    LET mapping == maps[p][slot] IN
    IF mapping = NoMapping THEN st
    ELSE FoldLeft(LAMBDA s, page : ClonePage(s, p, child, page, mapping), st,
                  IF Lazy(mapping) THEN ResidentPages(slot, mapping) ELSE PagesOf(slot))

LazyMaps(p) == {s \in Slots : Lazy(maps[p][s])}
SwapHandles(p) ==
    SelectSeq(FlattenSeq([s \in 1 .. Len(SlotSeq) |-> maps[p][SlotSeq[s]].swap]),
              LAMBDA h : h # NoSwap)

\* Each reference the child's mappings need, all of them or none.
CloneReferences(st, p) ==
    Then(st, LAMBDA s :
        With(FoldLeft(SwapShare, s, SwapHandles(p)), LAMBDA t :
            IF Fine(t) THEN [t EXCEPT !.v.opens = @ + Cardinality(LazyMaps(p))]
            ELSE Fail(s, t.err)))

ReleaseClone(st, child) ==
    OnError(st, LAMBDA s :
        DestroyUserAddressSpace(s, child, SelectSeq(SetToSeq(PageIds), LAMBDA page :
            Mapped(s.v, child, page))))

CloneAddressSpace(st, p, child) ==
    LET image == FoldLeft(LAMBDA s, page : SharePage(s, p, child, page, TRUE), st, ImageSeq)
        all == FoldLeft(LAMBDA s, slot : Then(s, LAMBDA t : CloneMapping(t, p, child, slot)),
                        image, SlotSeq)
    IN  ReleaseClone(CloneReferences(all, p), child)

\* unmap_anonymous for each mapping, then destroy.
DestroyProcess(st, p) ==
    Then(FoldLeft(LAMBDA s, slot :
                      Then(s, LAMBDA t : UnmapAnonymous(t, p, slot, maps[p][slot])), st, SlotSeq),
         LAMBDA s : DestroyUserAddressSpace(s, p, ImageSeq))

(***************************************************************************)
(* Processes: user mode, faults and calls.                                  *)
(***************************************************************************)
TableHeld == pager.pc \in {"scan", "swapout", "swapwrite", "writeback", "unmap"}
InKernel(p) == state[p] = "live" /\ ~TableHeld /\ ~panicked
Calling(p) == InKernel(p) /\ calls < MaxCalls /\ calls' = calls + 1
HasSpace(p) == state[p] # "none"

\* The frame of the page the pager is evicting, once it has been copied.
Copied(f) ==
    /\ pager.pc \in {"swapout", "swapwrite", "writeback", "unmap"}
    /\ LET v == pager.victim
           mapping == maps[v.proc][v.slot]
       IN  /\ mapping.kind = "shared" \/ v.index \in mapping.dirty
           /\ mm.pte[v.proc][<<v.slot, v.index>>].frame = f

SharedPage(p, page) == page[1] \in Slots /\ maps[p][page[1]].kind = "shared"

\* A store in user mode to a page that is mapped writable; copy_to_current_user
\* ends in the same store.  First race: the page was already copied out.
Store(p, page) ==
    LET f == mm.pte[p][page].frame IN
    /\ state[p] = "live" /\ ~panicked
    /\ mm.pte[p][page].writable
    /\ mm' = [mm EXCEPT !.data[f] = p]
    /\ IF SharedPage(p, page)
       THEN view' = [view EXCEPT ![page[2]] = p] /\ UNCHANGED wrote
       ELSE wrote' = [wrote EXCEPT ![p][page] = p] /\ UNCHANGED view
    /\ raced' = (raced \/ Copied(f))
    /\ UNCHANGED <<state, maps, requests, completions, pager, calls, panicked>>

LogicallyWritable(p, page) == page \in ImagePages \/ maps[p][page[1]].writable

MarkDirty(p, page) ==
    IF page[1] \in Slots /\ maps[p][page[1]].kind = "lazy" /\ maps[p][page[1]].writable
       /\ page[2] \in maps[p][page[1]].resident
    THEN [maps EXCEPT ![p][page[1]].dirty = @ \cup {page[2]}] ELSE maps

\* exit_current_process, and the parent's wait: what is left when process p has
\* gone, starting from the call st.
Exits(p, st) ==
    \E r \in {DestroyProcess(st, p)} :
        /\ mm' = r.v
        /\ panicked' = ~Fine(r)
        /\ state' = [state EXCEPT ![p] = "none"]
        /\ maps' = [maps EXCEPT ![p] = [s \in Slots |-> NoMapping]]
        /\ wrote' = [wrote EXCEPT ![p] = Unwritten]

Exit(p) ==
    /\ Calling(p)
    /\ Exits(p, Call)
    /\ UNCHANGED <<requests, completions, pager, view, raced>>

\* A write to a present page that is not writable.
CowFault(p, page) ==
    /\ InKernel(p)
    /\ Mapped(mm, p, page) /\ ~mm.pte[p][page].writable
    /\ \E r \in {IF LogicallyWritable(p, page) THEN TryBreakCow(Call, p, page)
                  ELSE Fail(Call, "ReadOnly")} :
        IF Fine(r)
        THEN /\ mm' = r.v /\ maps' = MarkDirty(p, page)
             /\ UNCHANGED <<state, panicked, wrote>>
        ELSE Exits(p, Call)
    /\ UNCHANGED <<requests, completions, pager, calls, view, raced>>

\* An access to an absent page of a mapping.
FileFault(p, slot, index, write) ==
    /\ InKernel(p)
    /\ maps[p][slot] # NoMapping /\ ~Mapped(mm, p, <<slot, index>>)
    /\ IF Cardinality(requests) < NRequests
       THEN /\ requests' = requests \cup
                   {[proc |-> p, slot |-> slot, index |-> index, mapping |-> maps[p][slot],
                     denied |-> write /\ ~maps[p][slot].writable]}
            /\ state' = [state EXCEPT ![p] = "fault"]
            /\ UNCHANGED <<mm, maps, panicked, wrote>>
       ELSE Exits(p, Call) /\ UNCHANGED requests
    /\ UNCHANGED <<completions, pager, calls, view, raced>>

\* The woken task takes its completion: it goes on, or dies of its fault.
Resume(p) ==
    /\ state[p] = "woken" /\ ~TableHeld /\ ~panicked
    /\ completions' = [completions EXCEPT ![p] = "none"]
    /\ IF completions[p] = "ok"
       THEN state' = [state EXCEPT ![p] = "live"] /\ UNCHANGED <<mm, maps, panicked, wrote>>
       ELSE Exits(p, Call)
    /\ UNCHANGED <<requests, pager, calls, view, raced>>

FreeMapSlots(p) == {s \in Slots : maps[p][s] = NoMapping}

Mmap(p, mode) ==
    /\ Calling(p) /\ FreeMapSlots(p) # {}
    /\ LET slot == Min(FreeMapSlots(p)) IN
        \E r \in {MapNew(Call, p, slot, mode)} :
            /\ mm' = r.v
            /\ maps' = IF Fine(r) THEN [maps EXCEPT ![p][slot] = NewMapping(mode)] ELSE maps
            /\ wrote' = IF Fine(r) /\ mode.kind \in {"anonymous", "eager"}
                        THEN [wrote EXCEPT ![p] = [page \in PageIds |->
                                 IF page[1] # slot THEN @[page]
                                 ELSE IF mode.kind = "eager" THEN ReadFile(mm, page[2]) ELSE "zero"]]
                        ELSE wrote
    /\ UNCHANGED <<state, requests, completions, pager, panicked, view, raced>>

Munmap(p, slot) ==
    /\ Calling(p) /\ maps[p][slot] # NoMapping
    /\ \E r \in {UnmapAnonymous(Call, p, slot, maps[p][slot])} :
        /\ mm' = r.v
        /\ maps' = IF Fine(r) THEN [maps EXCEPT ![p][slot] = NoMapping] ELSE maps
    /\ wrote' = [wrote EXCEPT ![p] = [page \in PageIds |->
                     IF page[1] = slot THEN Anything ELSE @[page]]]
    /\ UNCHANGED <<state, requests, completions, pager, panicked, view, raced>>

\* msync_current; what it makes durable is in Files.
Msync(p, slot) ==
    /\ Calling(p)
    /\ mm' = SyncFileMapping(Call, p, slot, maps[p][slot]).v
    /\ UNCHANGED <<state, maps, requests, completions, pager, panicked, wrote, view, raced>>

\* write on a descriptor of the file.  Second race: the pager has read the
\* page for a shared mapping and not yet published it.
WriteFile(p, index) ==
    /\ Calling(p)
    /\ mm' = WriteNode(Call, index, p).v
    /\ view' = [view EXCEPT ![index] = p]
    /\ raced' = (raced \/ (pager.pc \in {"publish", "pressure", "retry"}
                           /\ mm.key.shared /\ mm.key.index = index))
    /\ UNCHANGED <<state, maps, requests, completions, pager, panicked, wrote>>

Fork(p, child) ==
    /\ Calling(p) /\ state[child] = "none"
    /\ \E r \in {CloneAddressSpace(Call, p, child)} :
        /\ mm' = r.v
        /\ IF Fine(r)
           THEN /\ state' = [state EXCEPT ![child] = "live"]
                /\ maps' = [maps EXCEPT ![child] = maps[p]]
                /\ wrote' = [wrote EXCEPT ![child] = wrote[p]]
           ELSE UNCHANGED <<state, maps, wrote>>
    /\ UNCHANGED <<requests, completions, pager, panicked, view, raced>>

\* exec_current: the space new was loaded in replaces the old one, which is released.
ExecCurrent(p, new) ==
    \E r \in {DestroyProcess([new EXCEPT !.v.pte[p] = mm.pte[p]], p)} :
        /\ mm' = [r.v EXCEPT !.pte[p] = new.v.pte[p]]
        /\ panicked' = ~Fine(r)
        /\ maps' = [maps EXCEPT ![p] = [s \in Slots |-> NoMapping]]
        /\ wrote' = [wrote EXCEPT ![p] = Loaded]

\* sys_exec_command; sys_exec is the same with the path as the only argument.  A
\* line without a word or with too many, and a file that cannot be read, change nothing.
SysExecCommand(p) ==
    /\ Calling(p)
    /\ LET blank == [Call EXCEPT !.v.pte[p] = [page \in PageIds |-> NoPte]] IN
        \E fits \in BOOLEAN : \E new \in {LoadElfWithArgv(blank, p, fits)} :
            IF Fine(new) THEN ExecCurrent(p, new)
            ELSE mm' = [new.v EXCEPT !.pte[p] = mm.pte[p]] /\ UNCHANGED <<panicked, maps, wrote>>
    /\ UNCHANGED <<state, requests, completions, pager, view, raced>>

\* sys_spawn_command, with room in the tables (Process has the other cases).
SysSpawnCommand(p, child) ==
    /\ Calling(p) /\ state[child] = "none"
    /\ \E fits \in BOOLEAN : \E new \in {LoadElfWithArgv(Call, child, fits)} :
        /\ mm' = new.v
        /\ IF Fine(new)
           THEN /\ state' = [state EXCEPT ![child] = "live"]
                /\ wrote' = [wrote EXCEPT ![child] = Loaded]
           ELSE UNCHANGED <<state, wrote>>
    /\ UNCHANGED <<maps, requests, completions, pager, panicked, view, raced>>

\* kill_process: the task is gone; nothing it holds in memory is released.
Kill(p) ==
    /\ calls < MaxCalls /\ ~TableHeld /\ ~panicked
    /\ state[p] \in {"live", "fault", "woken"}
    /\ state' = [state EXCEPT ![p] = "killed"]
    /\ calls' = calls + 1
    /\ UNCHANGED <<mm, maps, requests, completions, pager, panicked, wrote, view, raced>>

(***************************************************************************)
(* The pager.                                                               *)
(***************************************************************************)
At(where) == pager.pc = where /\ ~panicked
Goto(where) == [pager EXCEPT !.pc = where]
\* A step that ends in the call r, with the page mapped or the fault refused.
Forget(where) == [pager EXCEPT !.pc = where, !.bytes = "junk", !.at = 0, !.tried = {},
                               !.victim = NoVictim, !.copy = "junk", !.handle = NoSwap]
Populated == [Forget("store") EXCEPT !.mapping.resident = @ \cup {pager.index}]
Refused == Forget("refuse")
Served(r) == mm' = [r.v EXCEPT !.key = NoKey] /\ pager' = IF Fine(r) THEN Populated ELSE Refused
PagerOnly == UNCHANGED <<state, maps, requests, completions, calls, panicked, wrote, view, raced>>
PagerPage == <<pager.slot, pager.index>>

\* file_identity and, for a private page, whether the file is being changed
\* through a shared page.
KeyOf(mapping, index) ==
    [index |-> index, shared |-> mapping.kind = "shared",
     current |-> mapping.kind = "shared" \/ ~\E c \in CacheIds : mm.cache[c].shared]

\* pop, and the tests of populate_file_page on the copy in the request.
Pop(r) ==
    /\ At("idle") /\ r \in requests
    /\ requests' = requests \ {r}
    /\ LET go(where) == [Idle EXCEPT !.pc = where, !.proc = r.proc, !.slot = r.slot,
                                     !.index = r.index, !.mapping = r.mapping] IN
        IF ~Lazy(r.mapping) \/ r.denied \/ r.index \in r.mapping.resident
        THEN pager' = go("refuse") /\ UNCHANGED mm
        ELSE IF r.mapping.swap[r.index] # NoSwap THEN pager' = go("swapin") /\ UNCHANGED mm
        ELSE pager' = go("lookup") /\ mm' = [mm EXCEPT !.key = KeyOf(r.mapping, r.index)]
    /\ UNCHANGED <<state, maps, completions, calls, panicked, wrote, view, raced>>

\* read_page: a RAM slot is read under the lock, of a disk slot only its place
\* is found there.
SwapFind ==
    LET h == pager.mapping.swap[pager.index] IN
    /\ At("swapin")
    /\ pager' = IF ~LiveHandle(mm, h) THEN Refused
                ELSE IF mm.swap[h.index].backing = "Disk" THEN Goto("swapread")
                ELSE [Goto("swapmap") EXCEPT !.bytes = mm.swap[h.index].bytes]
    /\ UNCHANGED mm /\ PagerOnly

\* The sectors at that place, or an error of the disk.
SwapRead ==
    /\ At("swapread")
    /\ \/ pager' = [Goto("swapmap") EXCEPT
                        !.bytes = mm.swap[pager.mapping.swap[pager.index].index].bytes]
       \/ pager' = Refused
    /\ UNCHANGED mm /\ PagerOnly

\* map_private_frame_from_bytes, then the slot is released.
SwapMap ==
    /\ At("swapmap")
    /\ \E r \in {MapPage(Call, pager.proc, PagerPage, pager.mapping.writable, pager.bytes)} :
        /\ mm' = IF Fine(r) THEN SwapRelease(r, pager.mapping.swap[pager.index]).v ELSE mm
        /\ pager' = IF Fine(r)
                    THEN [Populated EXCEPT !.mapping.swap[pager.index] = NoSwap,
                                           !.mapping.dirty = @ \cup {pager.index}]
                    ELSE Refused
    /\ PagerOnly

MapCached(st) ==
    LET c == CHOOSE c \in CachedAt(mm, mm.key) : TRUE
    IN  MapFileFrame(st, pager.proc, PagerPage, mm.cache[c].frame, mm.key.shared)

\* file_frames::map up to the read.
Lookup ==
    /\ At("lookup")
    /\ IF CachedAt(mm, mm.key) # {} THEN Served(MapCached(Call))
       ELSE pager' = Goto("read") /\ UNCHANGED mm
    /\ PagerOnly

\* read_mapping_at; the file may have shrunk, the disk may fail.
ReadPage ==
    /\ At("read")
    /\ \/ pager' = [Goto("publish") EXCEPT !.bytes = ReadFile(mm, mm.key.index)]
       \/ pager' = Refused
    /\ UNCHANGED mm /\ PagerOnly

\* The new frame f is mapped and entered in the cache at c.
EnterFrame(st, c) ==
    Then(st, LAMBDA s :
        With(MapFileFrame(s, pager.proc, PagerPage, s.val, mm.key.shared), LAMBDA t :
            IF Fine(t)
            THEN [t EXCEPT !.v.cache[c] = [frame |-> s.val, index |-> mm.key.index,
                                           shared |-> mm.key.shared, current |-> mm.key.current]]
            ELSE Ignoring(t, LAMBDA u : ReleaseFrame(u, s.val))))

\* The frame index: a free one, or one whose page nobody maps.
CacheSlots ==
    LET free == {c \in CacheIds : mm.cache[c] = NoEntry}
    IN  IF free # {} THEN {Min(free)} ELSE Unpinned(mm)

\* The recheck, the choice of a cache slot and the first allocation, under CACHE.
Publish ==
    /\ At("publish")
    /\ IF CachedAt(mm, mm.key) # {} THEN Served(MapCached(Call))
       ELSE IF CacheSlots = {} THEN pager' = Refused /\ UNCHANGED mm
       ELSE \E c \in CacheSlots :
            \E old \in {IF mm.cache[c] = NoEntry THEN Call
                        ELSE ReleaseFrame([Call EXCEPT !.v.cache[c] = NoEntry], mm.cache[c].frame)} :
            \E new \in {AllocateFileFrame(old, pager.bytes)} :
                IF Fine(old) /\ ~Fine(new)
                THEN /\ mm' = ReclaimUnused(old).v
                     /\ pager' = [Goto("pressure") EXCEPT !.at = c]
                ELSE Served(EnterFrame(new, c))
    /\ PagerOnly

\* Without the lock: allocate again, or evict.
Pressure ==
    /\ At("pressure")
    /\ \E new \in {AllocateFileFrame(Call, pager.bytes)} :
        IF Fine(new) THEN Served(EnterFrame(new, pager.at))
        ELSE pager' = Goto("scan") /\ UNCHANGED mm
    /\ PagerOnly

\* After an eviction; it may have freed no frame, if the page was shared.
Retry ==
    /\ At("retry")
    /\ Served(EnterFrame(AllocateFileFrame(Call, pager.bytes), pager.at))
    /\ PagerOnly

(***************************************************************************)
(* evict_one_mapped_file_page, with PROCESS_TABLE held.  The scan is in the *)
(* order of the table; which page it meets first does not matter.           *)
(***************************************************************************)
Evictable ==
    {v \in [proc : Procs, slot : Slots, index : Indices] :
        /\ HasSpace(v.proc) /\ Lazy(maps[v.proc][v.slot])
        /\ v.index \in maps[v.proc][v.slot].resident
        /\ v \notin pager.tried}
VictimMap == maps[pager.victim.proc][pager.victim.slot]
VictimPage == <<pager.victim.slot, pager.victim.index>>

ScanEnds ==
    /\ At("scan") /\ Evictable = {}
    /\ pager' = Refused
    /\ UNCHANGED mm /\ PagerOnly

\* The page is copied, unless it can be read again from its file.
ScanMeets(v) ==
    LET mapping == maps[v.proc][v.slot]
        pte == mm.pte[v.proc][<<v.slot, v.index>>]
        go(where, copy) == [Goto(where) EXCEPT !.victim = v, !.copy = copy, !.handle = NoSwap,
                                               !.tried = @ \cup {v}]
    IN
    /\ At("scan") /\ v \in Evictable
    /\ pager' = IF mapping.kind = "lazy" /\ v.index \notin mapping.dirty THEN go("unmap", "junk")
                ELSE IF pte = NoPte THEN go("scan", "junk")
                ELSE go(IF mapping.kind = "shared" THEN "writeback" ELSE "swapout", mm.data[pte.frame])
    /\ UNCHANGED mm /\ PagerOnly

\* Mutant of WriteBack: a shared page is dropped as if it were clean.
WriteBackSkipped ==
    /\ At("writeback")
    /\ pager' = Goto("unmap")
    /\ UNCHANGED mm /\ PagerOnly

WriteBack ==
    /\ At("writeback")
    /\ mm' = WriteNode(Call, pager.victim.index, pager.copy).v
    /\ pager' = Goto("unmap")
    /\ PagerOnly

\* allocate_page: a disk slot is reserved, or the copy goes to a RAM slot.
KeepInRam(st) ==
    \E r \in {AllocateRam(st, pager.copy)} :
        /\ mm' = r.v
        /\ pager' = IF Fine(r) THEN [Goto("unmap") EXCEPT !.handle = r.val] ELSE Goto("scan")

SwapOut ==
    /\ At("swapout")
    /\ IF DiskSlotFree(mm)
       THEN \E r \in {Occupy(Call, 0, "Disk", "junk")} :
                mm' = r.v /\ pager' = [Goto("swapwrite") EXCEPT !.handle = r.val]
       ELSE KeepInRam(Call)
    /\ PagerOnly

\* Mutant of SwapWritten: a failed write keeps the reserved slot.
SwapWrittenKeepsSlot ==
    /\ At("swapwrite")
    /\ \/ \E r \in {PublishReservedDisk(Call, pager.handle, pager.copy)} :
            mm' = r.v /\ pager' = Goto("unmap")
       \/ KeepInRam(Call)
    /\ PagerOnly

\* The page is on the disk and its slot published, or the write has failed.
SwapWritten ==
    /\ At("swapwrite")
    /\ \/ /\ Reserved(mm, pager.handle)
          /\ \E r \in {PublishReservedDisk(Call, pager.handle, pager.copy)} :
                mm' = r.v /\ pager' = Goto("unmap")
       \/ KeepInRam(CancelReserved(Call, pager.handle))
    /\ PagerOnly

Unmap ==
    /\ At("unmap")
    /\ \E r \in {UnmapPage(Call, pager.victim.proc, VictimPage)} :
        IF Fine(r)
        THEN LET i == pager.victim.index IN
             /\ mm' = ReclaimUnused(SwapRelease(r, VictimMap.swap[i])).v
             /\ maps' = [maps EXCEPT ![pager.victim.proc][pager.victim.slot] =
                            [@ EXCEPT !.swap[i] = pager.handle, !.resident = @ \ {i}]]
             /\ pager' = [Forget("retry") EXCEPT !.bytes = pager.bytes, !.at = pager.at]
        ELSE /\ mm' = SwapRelease([r EXCEPT !.err = "none"], pager.handle).v
             /\ pager' = Goto("scan")
             /\ UNCHANGED maps
    /\ UNCHANGED <<state, requests, completions, calls, panicked, wrote, view, raced>>

(***************************************************************************)
(* The end of a request: the mapping is stored back, the completion         *)
(* recorded and the task woken.  Third race: the mapping has changed since  *)
(* it was copied into the request.                                          *)
(***************************************************************************)
Recorded == Cardinality({p \in Procs : completions[p] # "none"}) < NCompletions
InRequest == [pager.mapping EXCEPT !.resident = @ \ {pager.index}]
SameMapping(p, slot) ==
    maps[p][slot].resident = InRequest.resident

\* Mutant of Finish: a refused fault is reported to nobody.
FinishQuietly ==
    /\ pager.pc \in {"store", "refuse"} /\ ~panicked
    /\ maps' = IF pager.pc = "store" THEN [maps EXCEPT ![pager.proc][pager.slot] = pager.mapping]
               ELSE maps
    /\ IF Recorded /\ pager.pc = "store"
       THEN /\ completions' = [completions EXCEPT ![pager.proc] = "ok"]
            /\ state' = [state EXCEPT ![pager.proc] = IF @ = "fault" THEN "woken" ELSE @]
       ELSE UNCHANGED <<completions, state>>
    /\ pager' = Idle /\ mm' = [mm EXCEPT !.key = NoKey]
    /\ UNCHANGED <<requests, calls, panicked, wrote, view, raced>>

Finish ==
    /\ pager.pc \in {"store", "refuse"} /\ ~panicked
    /\ maps' = IF pager.pc = "store" THEN [maps EXCEPT ![pager.proc][pager.slot] = pager.mapping]
               ELSE maps
    /\ raced' = (raced \/ (pager.pc = "store" /\ ~SameMapping(pager.proc, pager.slot)))
    /\ IF Recorded
       THEN /\ completions' = [completions EXCEPT ![pager.proc] =
                                  IF pager.pc = "store" THEN "ok" ELSE "failed"]
            /\ state' = [state EXCEPT ![pager.proc] = IF @ = "fault" THEN "woken" ELSE @]
       ELSE UNCHANGED <<completions, state>>
    /\ pager' = Idle /\ mm' = [mm EXCEPT !.key = NoKey]
    /\ UNCHANGED <<requests, calls, panicked, wrote, view>>

PagerStep ==
    \/ \E r \in requests : Pop(r)
    \/ SwapFind \/ SwapRead \/ SwapMap \/ Lookup \/ ReadPage \/ Publish \/ Pressure \/ Retry
    \/ ScanEnds \/ WriteBack \/ SwapOut \/ SwapWritten \/ Unmap \/ Finish
    \/ \E v \in Evictable : ScanMeets(v)

ProcessStep(p) ==
    \/ Exit(p) \/ SysExecCommand(p) \/ Resume(p) \/ Kill(p)
    \/ \E page \in {q \in PageIds : q[2] \in Written} : Store(p, page) \/ CowFault(p, page)
    \/ \E slot \in Slots, index \in Indices : FileFault(p, slot, index, FALSE)
    \/ \E slot \in Slots, index \in Written \cap Indices : FileFault(p, slot, index, TRUE)
    \/ \E mode \in Modes : Mmap(p, mode)
    \/ \E slot \in Slots : Munmap(p, slot) \/ Msync(p, slot)
    \/ \E index \in Written \cap Indices : WriteFile(p, index)
    \/ \E child \in Procs : Fork(p, child) \/ SysSpawnCommand(p, child)

Next == PagerStep \/ \E p \in Procs : ProcessStep(p)

Spec == Init /\ [][Next]_vars

-----------------------------------------------------------------------------

Mappers(f) == {<<p, page>> \in Procs \X PageIds : mm.pte[p][page].frame = f}
CachedFrames == {c \in CacheIds : mm.cache[c] # NoEntry}
Free == mm.fresh \cup mm.reclaimed

\* A frame is free, or has exactly as many references as page table entries
\* and cache slots name it, and a page that is written without a fault and is
\* not a shared file page has the only one: share, release, break and the two
\* kinds of eviction agree about who owns a frame, and no path of fork, exec,
\* exit, munmap or a failed fault loses one, but for the image of a program whose
\* arguments do not fit (load_elf_with_argv).
FramesOwned ==
    ~raced /\ ~panicked =>
        /\ \A f \in FrameIds :
            LET users == Cardinality(Mappers(f)) + Cardinality({c \in CachedFrames : mm.cache[c].frame = f})
            IN  IF f \in Free \cup mm.lost THEN users = 0 /\ mm.cow[f] = 0
                ELSE users = Refcount(mm, f)
        /\ \A p \in Procs, page \in PageIds :
            mm.pte[p][page].writable /\ ~SharedPage(p, page) =>
                Refcount(mm, mm.pte[p][page].frame) = 1

\* What a process reads at a page: the frame, or what will be faulted in from
\* its swap slot.
Reads(p, page) ==
    IF Mapped(mm, p, page) THEN mm.data[mm.pte[p][page].frame]
    ELSE IF page[1] \in Slots /\ LiveHandle(mm, maps[p][page[1]].swap[page[2]])
         THEN mm.swap[maps[p][page[1]].swap[page[2]].index].bytes
         ELSE "lost"

KeepsPrivate ==
    \A p \in Procs, page \in PageIds :
        wrote[p][page] # Anything /\ ~(pager.pc = "store" /\ pager.proc = p /\ PagerPage = page)
            => Reads(p, page) = wrote[p][page]

\* What a process wrote to a page of its own stays there until it unmaps the
\* page, through fork, through the writes of the others, and through eviction
\* to a swap slot and back.
PrivateKept == ~raced /\ ~panicked => KeepsPrivate

\* A read of the file returns what was last written to it, with write or
\* through a shared mapping, also after the pages were unmapped or evicted.
FileCoherent ==
    ~raced /\ ~panicked => \A i \in Indices : ReadFile(mm, i) = view[i]

SwapHolders(h) ==
    {<<p, s, i>> \in Procs \X Slots \X Indices : maps[p][s].swap[i] = h}

\* A swap slot counts exactly the mappings that hold its handle and the
\* eviction that is about to, and a slot without references is the reservation
\* of the eviction in flight: no failure of a disk write, of unmapping, of a
\* fork or of a fault loses a slot.
SwapOwned ==
    ~raced /\ ~panicked =>
        \A i \in SwapIds :
            LET h == HandleOf(mm, i)
                inHand == pager.pc \in {"swapwrite", "unmap"} /\ pager.handle = h
                served == pager.pc = "store" /\ maps[pager.proc][pager.slot].swap[pager.index] = h
                holders == Cardinality(SwapHolders(h))
            IN  mm.swap[i].occupied =>
                    IF mm.swap[i].refs = 0 THEN inHand /\ pager.pc = "swapwrite"
                    ELSE mm.swap[i].refs = holders + (IF inHand THEN 1 ELSE 0) - (IF served THEN 1 ELSE 0)


\* A task that waits for its page is still known to the pager, and one that was
\* woken finds its completion, as long as there is a place for the completion
\* of every task that faults.
FaultAnswered ==
    \A p \in Procs :
        /\ state[p] = "fault" =>
               (\E r \in requests : r.proc = p) \/ (pager.pc # "idle" /\ pager.proc = p)
        /\ state[p] = "woken" => completions[p] # "none"
=============================================================================
