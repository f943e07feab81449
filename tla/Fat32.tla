--------------------------------- MODULE Fat32 ----------------------------------
(***************************************************************************)
(* kernel/src/fat32.rs: the FAT32 volume as its sectors hold it, and the    *)
(* calls that change it.  A system call is not preempted, so a call it      *)
(* makes is one step; what comes in between is a device access that fails.  *)
(*                                                                         *)
(* A call is written as the code runs, with the operators of Calls.         *)
(* A cluster is one sector.  Freed clusters hold unspecified bytes.         *)
(***************************************************************************)
EXTENDS Calls, FiniteSets, Sequences, SequencesExt

CONSTANTS
    NClusters,          \* cluster_count of the volume
    NFats,              \* copies of the FAT
    SlotsPerCluster,    \* directory entries in a cluster
    Upper,              \* the short name each path component is encoded to
    Paths,              \* the paths calls are made with: sequences of names
    Contents            \* what files are written with: a value per cluster

ASSUME VolumeAssumption ==
    /\ NClusters \in Nat /\ NClusters >= 1
    /\ NFats \in 1..2
    /\ SlotsPerCluster \in Nat /\ SlotsPerCluster >= 2

VARIABLES
    vol,        \* the volume: FAT copies, cluster bodies, FSInfo sector
    ok,         \* did the last call return Ok?
    torn,       \* has an access failed between the two copies of a FAT entry?
    faulty,     \* has any access failed?
    tree        \* what the read path finds on the volume (auxiliary)

fatVars == <<vol, ok, torn, faulty, tree>>

Root == 2
Clusters == 2 .. NClusters + 1
FREE == 0
END == NClusters + 2            \* FAT32_END_MIN: above every cluster
FSINFO_UNKNOWN == -1

EmptySlot(n) == [name |-> n, dir |-> FALSE, ro |-> FALSE, first |-> 0, size |-> 0]
EndSlot == EmptySlot("end")             \* first byte 0
DeletedSlot == EmptySlot("deleted")     \* first byte 0xe5
Body(slot, v) == [slots |-> [i \in 1..SlotsPerCluster |-> slot], data |-> v]
Zeroes == Body(EndSlot, "zero")
Unspecified == Body(EmptySlot("junk"), "junk")

------------------------------------------------------------------------------
(* Running a call *)

Running(v, k) == [v |-> v, left |-> k, err |-> "none", val |-> 0, torn |-> FALSE]
SetSlot(st, at, e) ==
    Then(Access(st), LAMBDA s : [s EXCEPT !.v.body[at[1]].slots[at[2]] = e])

------------------------------------------------------------------------------
(* The file allocation table *)

ReadFatEntry(st, c) == Then(Access(st), LAMBDA s : Give(s, s.v.fat[1][c]))

\* write_fat_entry: every copy in turn; a failure leaves the later ones as they were.
WriteFatEntry(st, c, e) ==
    With(FoldLeft(LAMBDA s, i : Then(Access(s), LAMBDA t : [t EXCEPT !.v.fat[i][c] = e]),
                  st, [i \in 1..NFats |-> i]),
         LAMBDA r : [r EXCEPT !.torn = @ \/ r.v.fat[1][c] # r.v.fat[NFats][c],
                              !.v.body[c] = IF r.v.fat[1][c] = FREE THEN Unspecified ELSE @])

NextCluster(st, c) ==
    IF c \notin Clusters THEN Fail(st, "CorruptChain")
    ELSE Then(ReadFatEntry(st, c), LAMBDA s :
            IF s.val = END \/ s.val \in Clusters THEN s ELSE Fail(s, "CorruptChain"))

\* validate_cluster_chain with ChainCycleGuard; gives the clusters of the chain.
RECURSIVE ChainFrom(_, _, _)
ChainFrom(st, c, seen) ==
    Then(NextCluster(st, c), LAMBDA s :
        CASE s.val = END -> Give(s, Append(seen, c))
          [] s.val \in {seen[i] : i \in 1..Len(seen)} \cup {c} -> Fail(s, "ChainLoop")
          [] OTHER -> ChainFrom(s, s.val, Append(seen, c)))

ValidateClusterChain(st, c) == ChainFrom(st, c, <<>>)

------------------------------------------------------------------------------
(* FSInfo: a count of the free clusters and a hint where to look for one *)

\* read_fs_info: a value that cannot be right reads as unknown.
ReadFsInfo(st) ==
    [free |-> IF st.v.info.free > NClusters THEN FSINFO_UNKNOWN ELSE st.v.info.free,
     next |-> IF st.v.info.next \in Clusters THEN st.v.info.next ELSE FSINFO_UNKNOWN]

WriteFsInfo(st, free, next) ==
    Then(Access(Access(st)), LAMBDA s : [s EXCEPT !.v.info = [free |-> free, next |-> next]])

NextClusterHint(c) == IF c + 1 \in Clusters THEN c + 1 ELSE 2

UpdateFsInfoAfterAlloc(st, c) ==
    LET f == ReadFsInfo(st).free IN
    WriteFsInfo(st, IF f > 0 THEN f - 1 ELSE f, NextClusterHint(c))


UpdateFsInfoAfterFree(st, first, count) ==
    LET f == ReadFsInfo(st).free IN
    WriteFsInfo(st, IF f = FSINFO_UNKNOWN THEN f
                    ELSE IF f + count > NClusters THEN NClusters ELSE f + count,
                first)

FsInfoNextFreeHint(st) ==
    With(Access(st), LAMBDA r :
        Give([r EXCEPT !.err = "none"],
             IF Fine(r) /\ ReadFsInfo(r).next \in Clusters THEN ReadFsInfo(r).next ELSE 2))

------------------------------------------------------------------------------
(* Allocating and freeing *)

RECURSIVE FreeFrom(_, _, _, _)
FreeFrom(st, c, first, count) ==
    Then(NextCluster(st, c), LAMBDA s :
        Then(WriteFatEntry(s, c, FREE), LAMBDA t :
            IF s.val = END
            THEN Ignoring(t, LAMBDA u : UpdateFsInfoAfterFree(u, first, count + 1))
            ELSE FreeFrom(t, s.val, first, count + 1)))

FreeClusterChain(st, c) ==
    IF c < 2 THEN st
    ELSE Then(ValidateClusterChain(st, c), LAMBDA s : FreeFrom(s, c, c, 0))

RECURSIVE AllocateClusterInRange(_, _, _)
AllocateClusterInRange(st, c, end) ==
    IF c >= end THEN Fail(st, "NoSpace")
    ELSE Then(ReadFatEntry(st, c), LAMBDA s :
            IF s.val # FREE THEN AllocateClusterInRange(s, c + 1, end)
            ELSE Then(WriteFatEntry(s, c, END), LAMBDA t :
                    Give(Ignoring(t, LAMBDA u : UpdateFsInfoAfterAlloc(u, c)), c)))

AllocateCluster(st) ==
    With(FsInfoNextFreeHint(st), LAMBDA h :
    With(AllocateClusterInRange(h, h.val, END), LAMBDA r :
        IF r.err = "NoSpace" /\ h.val > 2
        THEN AllocateClusterInRange([r EXCEPT !.err = "none"], 2, h.val)
        ELSE r))

\* A chain of n clusters, of which those from first to last exist already.
RECURSIVE AllocateChain(_, _, _, _)
AllocateChain(st, n, first, last) ==
    IF n = 0 THEN Give(st, first)
    ELSE With(AllocateCluster(st), LAMBDA a :
         IF ~Fine(a) THEN OnError(a, LAMBDA s : FreeClusterChain(s, first))
         ELSE IF first = 0 THEN AllocateChain(a, n - 1, a.val, a.val)
         ELSE With(WriteFatEntry(a, last, a.val), LAMBDA w :
              IF Fine(w) THEN AllocateChain(w, n - 1, first, a.val)
              ELSE OnError(OnError(w, LAMBDA s : FreeClusterChain(s, a.val)),
                           LAMBDA s : FreeClusterChain(s, first))))

AllocateFileChain(st, n) == AllocateChain(st, n, 0, 0)

RECURSIVE WriteFileDataChain(_, _, _)
WriteFileDataChain(st, c, data) ==
    IF data = <<>> THEN st
    ELSE IF c \notin Clusters THEN Fail(st, "CorruptChain")
    ELSE Then(Access(st), LAMBDA s :
            LET w == [s EXCEPT !.v.body[c] = [Zeroes EXCEPT !.data = Head(data)]] IN
            IF Tail(data) = <<>> THEN w
            ELSE Then(NextCluster(w, c), LAMBDA t :
                    IF t.val = END THEN Fail(t, "TruncatedFile")
                    ELSE WriteFileDataChain(t, t.val, Tail(data))))

ZeroClusterSkips(st, c) == Access(st)
ZeroCluster(st, c) == Then(Access(st), LAMBDA s : [s EXCEPT !.v.body[c] = Zeroes])

------------------------------------------------------------------------------
(* Directories.  A position is <<cluster, index of the slot>>. *)

ExtendDirectoryChain(st, last) ==
    Then(AllocateCluster(st), LAMBDA a :
        With(Then(ZeroCluster(a, a.val), LAMBDA s : WriteFatEntry(s, last, a.val)), LAMBDA w :
            IF Fine(w)
            THEN Give(w, [at |-> <<a.val, 1>>, existing |-> EndSlot, ext |-> <<last, a.val>>])
            ELSE OnError(w, LAMBDA s : FreeClusterChain(s, a.val))))

RollbackReservedSlot(st, slot) ==
    OnError(st, LAMBDA s :
        IF slot.ext = <<>> THEN s
        ELSE Then(WriteFatEntry(s, slot.ext[1], END), LAMBDA t : FreeClusterChain(t, slot.ext[2])))

FirstOf(slots, names) ==
    LET hits == {i \in 1..SlotsPerCluster : slots[i].name \in names} IN
    IF hits = {} THEN 0 ELSE CHOOSE i \in hits : \A j \in hits : i <= j

CorruptEntry(e) == e.first < 2 /\ (e.size # 0 \/ e.dir)

\* find_in_directory and find_existing_directory_slot: gives the position.
RECURSIVE FindFrom(_, _, _, _)
FindFrom(st, c, name, seen) ==
    IF c \in seen THEN Fail(st, "ChainLoop")
    ELSE Then(Access(st), LAMBDA s :
        LET slots == s.v.body[c].slots
            i == FirstOf(slots, {name, "end"})
        IN CASE i = 0 -> Then(NextCluster(s, c), LAMBDA t :
                            IF t.val = END THEN Fail(t, "NotFound")
                            ELSE FindFrom(t, t.val, name, seen \cup {c}))
             [] i # 0 /\ slots[i].name = "end" -> Fail(s, "NotFound")
             [] OTHER -> IF CorruptEntry(slots[i]) THEN Fail(s, "CorruptDirectory")
                         ELSE Give(s, <<c, i>>))

FindInDirectory(st, c, name) == FindFrom(st, c, name, {})
SlotAt(st, at) == st.v.body[at[1]].slots[at[2]]

\* find_directory_slot: where an entry called name is or goes: over the entry
\* of that name, into the first deleted slot, at the end, or in a new cluster.
RECURSIVE SlotFrom(_, _, _, _, _)
SlotFrom(st, c, name, seen, deleted) ==
    IF c \in seen THEN Fail(st, "ChainLoop")
    ELSE Then(Access(st), LAMBDA s :
        LET slots == s.v.body[c].slots
            i == FirstOf(slots, {name, "end"})
            j == FirstOf(slots, {"deleted"})
            d == IF deleted = <<>> /\ j # 0 /\ (i = 0 \/ j < i) THEN <<c, j>> ELSE deleted
            New(at) == [at |-> at, existing |-> EndSlot, ext |-> <<>>]
        IN CASE i # 0 /\ slots[i].name = name ->
                    Give(s, [New(<<c, i>>) EXCEPT !.existing = slots[i]])
             [] i # 0 /\ slots[i].name # name ->
                    Give(s, New(IF d = <<>> THEN <<c, i>> ELSE d))
             [] OTHER -> Then(NextCluster(s, c), LAMBDA t :
                    IF t.val # END THEN SlotFrom(t, t.val, name, seen \cup {c}, d)
                    ELSE IF d # <<>> THEN Give(t, New(d)) ELSE ExtendDirectoryChain(t, c)))

FindDirectorySlot(st, c, name) == SlotFrom(st, c, name, {}, <<>>)

RECURSIVE EmptyFrom(_, _, _)
EmptyFrom(st, c, seen) ==
    IF c \in seen THEN Fail(st, "ChainLoop")
    ELSE Then(Access(st), LAMBDA s :
        LET slots == s.v.body[c].slots
            i == FirstOf(slots, {slots[k].name : k \in DOMAIN slots} \ {".", "..", "deleted"})
        IN CASE i # 0 -> Give(s, slots[i].name = "end")
             [] OTHER -> Then(NextCluster(s, c), LAMBDA t :
                            IF t.val = END THEN Give(t, TRUE)
                            ELSE EmptyFrom(t, t.val, seen \cup {c})))

DirectoryIsEmpty(st, c) == EmptyFrom(st, c, {})

\* mark_directory_entry_deleted, write_short_name, write_raw_directory_slot and
\* write_directory_entry read the sector of the slot, change it and write it back.
MarkDirectoryEntryDeleted(st, at) == SetSlot(Access(st), at, DeletedSlot)
WriteShortName(st, at, name) == SetSlot(Access(st), at, [SlotAt(st, at) EXCEPT !.name = name])
WriteRawDirectorySlot(st, at, e) == SetSlot(Access(st), at, e)
WriteDirectoryEntry(st, at, name, dir, first, size) ==
    SetSlot(Access(st), at, [name |-> name, dir |-> dir, ro |-> FALSE, first |-> first, size |-> size])

UpdateDotdot(st, c, parent) ==
    Then(Access(st), LAMBDA s :
        LET i == FirstOf(s.v.body[c].slots, {"..", "end"}) IN
        IF i = 0 \/ s.v.body[c].slots[i].name = "end" THEN Fail(s, "CorruptDirectory")
        ELSE SetSlot(s, <<c, i>>, [SlotAt(s, <<c, i>>) EXCEPT !.first = parent]))

------------------------------------------------------------------------------
(* The calls *)

CreateFileInDirectory(st, dirc, name, data) ==
    Then(FindDirectorySlot(st, dirc, name), LAMBDA f :
        LET slot == f.val
            old == slot.existing
        IN IF old.dir THEN Fail(f, "WriteFailed")
           ELSE Then(IF old.first >= 2 THEN ValidateClusterChain(f, old.first) ELSE f, LAMBDA s :
            With(AllocateFileChain(s, Len(data)), LAMBDA a :
            With(Then(a, LAMBDA t : Then(WriteFileDataChain(t, a.val, data), LAMBDA u :
                        WriteDirectoryEntry(u, slot.at, name, FALSE, a.val, Len(data)))), LAMBDA w :
                CASE ~Fine(a) -> RollbackReservedSlot(a, slot)
                  [] Fine(a) /\ ~Fine(w) ->
                        RollbackReservedSlot(OnError(w, LAMBDA t : FreeClusterChain(t, a.val)), slot)
                  [] OTHER -> FreeClusterChain(w, old.first)))))

\* create_directory_in: gives the cluster of the directory.
DotSlots(c, parent) ==
    [Zeroes EXCEPT !.slots[1] = [EmptySlot(".") EXCEPT !.dir = TRUE, !.first = c],
                   !.slots[2] = [EmptySlot("..") EXCEPT !.dir = TRUE, !.first = parent]]

CreateDirectoryIn(st, parent, name) ==
    Then(FindDirectorySlot(st, parent, name), LAMBDA f :
        LET slot == f.val
            old == slot.existing
        IN IF old # EndSlot
           THEN IF old.dir /\ old.first >= 2 THEN Give(f, old.first) ELSE Fail(f, "WriteFailed")
           ELSE With(AllocateCluster(f), LAMBDA a :
            IF ~Fine(a) THEN RollbackReservedSlot(a, slot)
            ELSE With(Then(ZeroCluster(a, a.val), LAMBDA s :
                      Then(Access(s), LAMBDA t :
                        WriteDirectoryEntry([t EXCEPT !.v.body[a.val] = DotSlots(a.val, parent)],
                                            slot.at, name, TRUE, a.val, 0))), LAMBDA w :
                IF Fine(w) THEN Give(w, a.val)
                ELSE RollbackReservedSlot(OnError(w, LAMBDA t : FreeClusterChain(t, a.val)), slot))))

\* One component of a path: gives the cluster of the directory it names.
EnterDirectory(st, c, comp, create, refused) ==
    With(FindInDirectory(st, c, Upper[comp]), LAMBDA f :
        CASE Fine(f) -> LET e == SlotAt(f, f.val) IN
                        IF e.dir /\ e.first >= 2 THEN Give(f, e.first) ELSE Fail(f, refused)
          [] f.err = "NotFound" /\ create ->
                CreateDirectoryIn([f EXCEPT !.err = "none"], c, Upper[comp])
          [] OTHER -> f)

Descend(st, comps, create, refused) ==
    FoldLeft(LAMBDA s, n : Then(s, LAMBDA t : EnterDirectory(t, t.val, n, create, refused)),
             Give(st, Root), comps)

ResolveParentCluster(st, p, create) == Descend(st, Front(p), create, "NotFound")

MkdirPath(st, p) == Descend(st, p, TRUE, "WriteFailed")

CreatePathFile(st, p, data) ==
    Then(ResolveParentCluster(st, p, TRUE), LAMBDA s :
        CreateFileInDirectory(s, s.val, Upper[Last(p)], data))


DeletePath(st, p) ==
    Then(ResolveParentCluster(st, p, FALSE), LAMBDA q :
    Then(FindInDirectory(q, q.val, Upper[Last(p)]), LAMBDA f :
        LET e == SlotAt(f, f.val) IN
        IF e.ro THEN Fail(f, "ReadOnly")
        ELSE Then(IF e.dir THEN DirectoryIsEmpty(f, e.first) ELSE Give(f, TRUE), LAMBDA s :
            IF ~s.val THEN Fail(s, "DirectoryNotEmpty")
            ELSE Then(IF e.first >= 2 THEN ValidateClusterChain(s, e.first) ELSE s, LAMBDA t :
                Then(MarkDirectoryEntryDeleted(t, f.val), LAMBDA u : FreeClusterChain(u, e.first))))))

\* path_is_descendant compares the components as they were typed.
PathIsDescendant(parent, child) ==
    Len(parent) < Len(child) /\ SubSeq(child, 1, Len(parent)) = parent

\* The end of rename_path: the entry at "at" moves to a slot of another directory.
MoveEntry(st, at, e, oldParent, newParent, name) ==
    Then(FindDirectorySlot(st, newParent, name), LAMBDA f :
        LET slot == f.val
            Unwrite(s) == OnError(s, LAMBDA t : MarkDirectoryEntryDeleted(t, slot.at))
            Undot(s) == OnError(s, LAMBDA t : IF e.dir THEN UpdateDotdot(t, e.first, oldParent) ELSE t)
        IN IF slot.existing # EndSlot THEN Fail(f, "AlreadyExists")
           ELSE With(WriteRawDirectorySlot(f, slot.at, [e EXCEPT !.name = name]), LAMBDA raw :
                IF ~Fine(raw) THEN RollbackReservedSlot(raw, slot)
                ELSE With(IF e.dir THEN UpdateDotdot(raw, e.first, newParent) ELSE raw, LAMBDA dot :
                    IF ~Fine(dot) THEN RollbackReservedSlot(Unwrite(dot), slot)
                    ELSE RollbackReservedSlot(Undot(Unwrite(MarkDirectoryEntryDeleted(dot, at))), slot))))

RenamePath(st, old, new) ==
    Then(ResolveParentCluster(st, old, FALSE), LAMBDA q :
    Then(FindInDirectory(q, q.val, Upper[Last(old)]), LAMBDA f :
        LET e == SlotAt(f, f.val)
            name == Upper[Last(new)]
        IN CASE e.ro -> Fail(f, "ReadOnly")
             [] ~e.ro /\ e.dir /\ PathIsDescendant(old, new) -> Fail(f, "InvalidPath")
             [] OTHER -> Then(ResolveParentCluster(f, new, FALSE), LAMBDA r :
                IF r.val = q.val /\ name = e.name THEN r
                ELSE With(FindInDirectory(r, r.val, name), LAMBDA x :
                    CASE Fine(x) -> Fail(x, "AlreadyExists")
                      [] x.err = "NotFound" ->
                            LET s == [x EXCEPT !.err = "none"] IN
                            IF r.val = q.val THEN WriteShortName(s, f.val, name)
                            ELSE MoveEntry(s, f.val, e, q.val, r.val, name)
                      [] OTHER -> x))))

------------------------------------------------------------------------------
(* The calls that only read *)

\* for_each_directory_entry: the entries of a directory but "." and "..".
RECURSIVE EntriesFrom(_, _, _, _)
EntriesFrom(st, c, seen, found) ==
    IF c \in seen THEN Fail(st, "ChainLoop")
    ELSE Then(Access(st), LAMBDA s :
        LET slots == s.v.body[c].slots
            i == FirstOf(slots, {"end"})
            listed == SelectSeq(SubSeq(slots, 1, IF i = 0 THEN SlotsPerCluster ELSE i - 1),
                                LAMBDA e : e.name \notin {".", "..", "deleted"})
        IN IF i # 0 THEN Give(s, found \o listed)
           ELSE Then(NextCluster(s, c), LAMBDA t :
                    IF t.val = END THEN Give(t, found \o listed)
                    ELSE EntriesFrom(t, t.val, seen \cup {c}, found \o listed)))

ForEachDirectoryEntry(st, c) == EntriesFrom(st, c, {}, <<>>)

ResolvePath(st, p) ==
    Then(ResolveParentCluster(st, p, FALSE), LAMBDA s : FindInDirectory(s, s.val, Upper[Last(p)]))

\* read_file_at: n clusters of the file, after skipping some.
RECURSIVE ReadFrom(_, _, _, _, _)
ReadFrom(st, c, skip, n, got) ==
    IF n = 0 THEN Give(st, got)
    ELSE IF c \notin Clusters THEN Fail(st, "CorruptChain")
    ELSE LET r == IF skip = 0 THEN Access(st) ELSE st
             more == IF skip = 0 THEN Append(got, st.v.body[c].data) ELSE got
             todo == IF skip = 0 THEN n - 1 ELSE n
         IN Then(r, LAMBDA s :
                IF todo = 0 THEN Give(s, more)
                ELSE Then(NextCluster(s, c), LAMBDA t :
                        IF t.val = END THEN Fail(t, "TruncatedFile")
                        ELSE ReadFrom(t, t.val, IF skip = 0 THEN 0 ELSE skip - 1, todo, more)))

ReadFileAt(st, e, offset, n) ==
    ReadFrom(st, e.first, offset,
             IF e.size <= offset THEN 0 ELSE IF e.size - offset < n THEN e.size - offset ELSE n, <<>>)

SpaceInfo(st) ==
    Then(Access(st), LAMBDA s :
        LET free == Cardinality({c \in Clusters : s.v.fat[1][c] = FREE})
            hint == ReadFsInfo(s).free
        IN Give(s, [free |-> free, matches |-> hint \in {FSINFO_UNKNOWN, free}]))

RECURSIVE CheckDirectoryTree(_, _, _)
CheckDirectoryTree(st, c, report) ==
    Then(ForEachDirectoryEntry(st, c), LAMBDA l :
        FoldLeft(LAMBDA s, e : Then(s, LAMBDA t :
                    IF CorruptEntry(e) THEN Fail(t, "CorruptDirectory")
                    ELSE IF e.first < 2 THEN Give(t, t.val + 1)
                    ELSE Then(ValidateClusterChain(t, e.first), LAMBDA u :
                            IF e.dir THEN CheckDirectoryTree(u, e.first, t.val + 1)
                            ELSE Give(u, t.val + 1))),
                 Give(l, report), l.val))

\* check_volume: gives the number of files and directories.
CheckVolume(st) ==
    Then(ValidateClusterChain(st, Root), LAMBDA s :
        Then(SpaceInfo(s), LAMBDA t : CheckDirectoryTree(t, Root, 1)))

------------------------------------------------------------------------------
(* The system: one call after the other *)

Volume(entries, bodies, info) ==
    LET used == {Root} \cup DOMAIN bodies IN
    [fat |-> [i \in 1..NFats |-> [c \in Clusters |-> IF c \in used THEN END ELSE FREE]],
     body |-> [c \in Clusters |->
                CASE c = Root -> [Zeroes EXCEPT !.slots = [i \in 1..SlotsPerCluster |->
                                    IF i <= Len(entries) THEN entries[i] ELSE EndSlot]]
                  [] c \in DOMAIN bodies -> [Zeroes EXCEPT !.data = bodies[c]]
                  [] OTHER -> Unspecified],
     info |-> info]

\* What the volume holds, as its own read path finds it, under short names.
ShortName(p) == [i \in 1..Len(p) |-> Upper[p[i]]]
FoundAt(v, p) ==
    With(ResolvePath(Running(v, 0), p), LAMBDA f :
        IF ~Fine(f) THEN [kind |-> "absent", content |-> <<>>]
        ELSE LET e == SlotAt(f, f.val) IN
             IF e.dir THEN [kind |-> "dir", content |-> <<>>]
             ELSE [kind |-> "file", content |-> ReadFileAt(Running(v, 0), e, 0, NClusters).val])
TreeOf(v) ==
    [s \in {ShortName(p) : p \in Paths} |-> FoundAt(v, CHOOSE p \in Paths : ShortName(p) = s)]

\* A volume as a formatting tool leaves it: empty, or with one read-only file.
Init ==
    /\ \E p \in {q \in Paths : Len(q) = 1}, c \in {d \in Contents : Len(d) = 1} :
          \/ vol = Volume(<<>>, <<>>, [free |-> NClusters - 1, next |-> 3])
          \/ vol = Volume(<<[name |-> Upper[p[1]], dir |-> FALSE, ro |-> TRUE, first |-> 3, size |-> 1]>>,
                          [x \in {3} |-> c[1]],
                          [free |-> FSINFO_UNKNOWN, next |-> NClusters + 2])
    /\ ok = TRUE /\ torn = FALSE /\ faulty = FALSE /\ tree = TreeOf(vol)

Exists(p) == Fine(ResolvePath(Running(vol, 0), p))
\* Bound: what is below a directory that moves stays in Paths.
StaysInPaths(p, q) ==
    \A r \in Paths : PathIsDescendant(p, r) /\ Exists(r) => q \o SubSeq(r, Len(p) + 1, Len(r)) \in Paths

\* The call F runs on the volume, with its k-th access failing (none for 0).
\* Bound: one access fails in a behaviour.
Call(F(_)) ==
    \E done \in {F(Running(vol, 0))} :
        \E k \in IF faulty THEN {0} ELSE 0 .. -done.left :
            \E r \in {IF k = 0 THEN done ELSE F(Running(vol, k))} :
                /\ vol' = r.v
                /\ ok' = Fine(r)
                /\ torn' = (torn \/ r.torn)
                /\ faulty' = (faulty \/ k # 0)
                /\ tree' = TreeOf(r.v)

Create(p, data) == Call(LAMBDA st : CreatePathFile(st, p, data))
Mkdir(p) == Call(LAMBDA st : MkdirPath(st, p))
Delete(p) == Call(LAMBDA st : DeletePath(st, p))
Rename(p, q) == StaysInPaths(p, q) /\ Call(LAMBDA st : RenamePath(st, p, q))

Next ==
    \E p \in Paths :
        \/ \E data \in Contents : Create(p, data)
        \/ Mkdir(p)
        \/ Delete(p)
        \/ \E q \in Paths : Rename(p, q)

Spec == Init /\ [][Next]_fatVars

------------------------------------------------------------------------------
(* Properties *)

AtRest == Running(vol, 0)
ChainOf(c) == ValidateClusterChain(AtRest, c).val
EntriesIn(c) == ForEachDirectoryEntry(AtRest, c).val

\* The chains of the volume: of the root, and of every file and directory below it.
RECURSIVE ChainsBelow(_)
ChainsBelow(c) ==
    FoldLeft(LAMBDA chains, e :
                chains \o (IF e.first < 2 THEN <<>> ELSE <<ChainOf(e.first)>>)
                       \o (IF e.dir THEN ChainsBelow(e.first) ELSE <<>>),
             <<>>, EntriesIn(c))
Chains == <<ChainOf(Root)>> \o ChainsBelow(Root)
Owned == UNION {ToSet(Chains[i]) : i \in 1..Len(Chains)}

\* Directories below c: the file chains have the length of their files, ".."
\* names the directory above, and no entry is left over from another use.
RECURSIVE WellFormedBelow(_)
WellFormedBelow(c) ==
    \A i \in 1..Len(EntriesIn(c)) :
        LET e == EntriesIn(c)[i] IN
        /\ e.name # "junk"
        /\ ~e.dir => e.size = IF e.first < 2 THEN 0 ELSE Len(ChainOf(e.first))
        /\ e.dir => /\ vol.body[e.first].slots[2].first = c
                    /\ WellFormedBelow(e.first)

Store == INSTANCE FileStore WITH
    Paths <- {ShortName(p) : p \in Paths}, tree <- tree, ok <- ok

\* Every call is atomic for its caller even when a device access fails in the
\* middle of it: what the read path finds afterwards is the old tree or the new
\* one (or, on an error, the old one with some missing parents made), and it is
\* the new one when the call reports success.  The rollbacks of fat32.rs
\* (rollback_reserved_slot, the `let _ =` frees, rename's undo) exist for this.
StoreSpec == [][~torn' => Store!Next]_<<tree, ok>>

\* fscheck accepts the volume, no cluster is in two chains, no chain is longer
\* or shorter than its file, every ".." names the directory above, and no
\* directory shows what a freed cluster held: after any calls, and after a
\* failing access that did not split a FAT update between its two copies.
VolumeSound ==
    ~torn =>
        /\ Fine(CheckVolume(AtRest))
        /\ \A i, j \in 1..Len(Chains) :
              i # j => ToSet(Chains[i]) \cap ToSet(Chains[j]) = {}
        /\ WellFormedBelow(Root)


=============================================================================
