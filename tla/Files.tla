--------------------------------- MODULE Files ----------------------------------
(***************************************************************************)
(* kernel/src/vfs.rs, storage.rs and page_cache.rs with the calls that user *)
(* processes (task.rs) and the kernel shell (shell.rs) make on them: nodes  *)
(* in memory that name what is on the volume mounted at /mnt, descriptions  *)
(* of open files, cached file pages, and the volume, which is the tree of   *)
(* FileStore.                                                               *)
(*                                                                         *)
(* A system call is not preempted: it is one step.  The shell is task 0 and *)
(* runs with interrupts on: a command is a list of steps, one for each      *)
(* stretch under a lock, and system calls come in between.  Paths are       *)
(* below /mnt: <<>> is /mnt itself, whose node is never removed.            *)
(***************************************************************************)
EXTENDS Calls, FiniteSets, Sequences, SequencesExt, FiniteSetsExt

CONSTANTS
    MaxNodes,       \* nodes of the registry
    MaxOpen,        \* descriptions of open files
    MaxFds,         \* descriptors of the user process
    NODE_CAPACITY,  \* longest file
    NPages,         \* slots of the page cache, one page per file
    Paths,          \* bound: paths that are used
    Trees,          \* bound: what may be on the volume at first
    Bytes,          \* bound: what a process writes, a byte at a time
    Texts,          \* bound: what the shell writes, a file at a time
    MaxFaults,      \* bound: failing device accesses
    MaxCalls,       \* bound: system calls
    MaxCommands     \* bound: commands given to the shell

VARIABLES
    fs,         \* nodes, generations, descriptions, pages, volume, mount status
    fds,        \* the descriptors of the user process, 0 when closed
    shell,      \* the command the shell runs: steps to do, value in hand
    given,      \* system calls made and commands given so far
    faults,     \* device accesses that failed
    raced       \* what a system call has done in the middle of a command

fileVars == <<fs, fds, shell, given, faults, raced>>

Disk == INSTANCE FileStore WITH
    Contents <- {}, tree <- fs.disk, ok <- TRUE

NodeIds == 1..MaxNodes
OpenIds == 1..MaxOpen
NoPath == <<"">>        \* an unnamed node; a node with no backing file
Parent(p) == Front(p)

\* bytes is auxiliary: what the file holds for whoever reads it.
FileNode(p, data) ==
    [occupied |-> TRUE, kind |-> "file", path |-> p, data |-> data, length |-> Len(data),
     backing |-> NoPath, bytes |-> data]
DirNode(p) == [FileNode(p, <<>>) EXCEPT !.kind = "dir"]
FreeNode == [FileNode(NoPath, <<>>) EXCEPT !.occupied = FALSE]
FreeEntry == [node |-> 0, generation |-> 0, offset |-> 0]

\* A call whose k-th access fails; late says that a failing mutation was done.
Running(v, k, late, x, failed) ==
    [v |-> v, left |-> k, late |-> late, err |-> "none", val |-> x, failed |-> failed]

------------------------------------------------------------------------------
(* The registry of vfs.rs *)

Matches(v, i, p) == v.node[i].occupied /\ v.node[i].path = p
At(v, p) == {i \in NodeIds : Matches(v, i, p)}
IsDirectory(v, p) == p = <<>> \/ \E i \in At(v, p) : v.node[i].kind = "dir"
Exists(v, p) == p = <<>> \/ At(v, p) # {}
FreeNodes(v) == {i \in NodeIds : ~v.node[i].occupied}

\* insert and mkdir: the first free node becomes n.
AddNode(st, n) ==
    CASE Exists(st.v, n.path) -> Fail(st, "AlreadyExists")
      [] ~IsDirectory(st.v, Parent(n.path)) -> Fail(st, "NotFound")
      [] FreeNodes(st.v) = {} -> Fail(st, "Full")
      [] OTHER -> [st EXCEPT !.v.node[Min(FreeNodes(st.v))] = n]

Insert(st, p, data) ==
    IF Len(data) > NODE_CAPACITY THEN Fail(st, "Full") ELSE AddNode(st, FileNode(p, data))

VfsMkdir(st, p) == IF p = <<>> THEN Fail(st, "AlreadyExists") ELSE AddNode(st, DirNode(p))

\* create_disk_file_with_writable: the bytes stay on the disk.
CreateDiskFile(st, p, length) ==
    IF length > NODE_CAPACITY THEN Fail(st, "Full")
    ELSE AddNode(st, [FileNode(p, <<>>) EXCEPT
                        !.backing = p, !.length = length, !.bytes = st.v.disk[p].content])

RemovableIndex(st, p) ==
    CASE At(st.v, p) = {} -> Fail(st, "NotFound")
      [] \E i \in NodeIds : /\ st.v.node[i].occupied /\ Len(st.v.node[i].path) = Len(p) + 1
                            /\ IsDirectory(st.v, p) /\ Parent(st.v.node[i].path) = p
            -> Fail(st, "NotEmpty")
      [] OTHER -> Give(st, Min(At(st.v, p)))

FreeTheNode(st, i) ==
    [st EXCEPT !.v.node[i] = FreeNode, !.v.generation[i] = 1 - @]

IsAbove(p, q) == Disk!IsAbove(p, q)

ValidateRename(st, o, n) ==
    CASE At(st.v, o) = {} -> Fail(st, "NotFound")
      [] o = n -> st
      [] Exists(st.v, n) -> Fail(st, "AlreadyExists")
      [] IsAbove(o, n) -> Fail(st, "InvalidPath")
      [] ~IsDirectory(st.v, Parent(n)) -> Fail(st, "NotFound")
      [] OTHER -> st

\* A path at or below o (below only when o is a directory) moves to n.
Moved(p, o, n, directory) ==
    IF p = o \/ (directory /\ IsAbove(o, p)) THEN n \o SubSeq(p, Len(o) + 1, Len(p)) ELSE p


VfsRename(st, o, n) ==
    Then(ValidateRename(st, o, n), LAMBDA s :
        [s EXCEPT !.v.node = [i \in NodeIds |->
            IF ~s.v.node[i].occupied THEN @[i]
            ELSE [@[i] EXCEPT !.path = Moved(@, o, n, IsDirectory(s.v, o)),
                              !.backing = Moved(@, o, n, IsDirectory(s.v, o))]]])

WriteFile(st, p, data) ==
    CASE Len(data) > NODE_CAPACITY -> Fail(st, "Full")
      [] At(st.v, p) = {} /\ p # <<>> -> Insert(st, p, data)
      [] IsDirectory(st.v, p) -> Fail(st, "AlreadyExists")
      [] OTHER -> [st EXCEPT !.v.node[Min(At(st.v, p))] = FileNode(p, data)]

------------------------------------------------------------------------------
(* The volume, and the cache of file pages in front of it *)

Invalidate(st) == [st EXCEPT !.v.page = <<>>]

\* A fat32.rs call that makes the tree t: it may fail with nothing done, or
\* (or the flush after it) with everything done.  Success marks the mount dirty.
Mutate(st, t) ==
    With(Access(st), LAMBDA s :
        [s EXCEPT !.v.disk = IF Fine(s) \/ s.late THEN t ELSE @,
                  !.v.dirty = @ \/ (Fine(s) /\ s.v.mounted)])

Mounted(st) == IF st.v.mounted THEN st ELSE Fail(st, "Unmounted")

PersistOnDevice(st, p, data) ==
    Then(Mounted(st), LAMBDA s :
        LET t == Disk!WithParents(s.v.disk, p) IN
        IF Disk!ParentsAreDirs(t, p) /\ t[p] # Disk!Dir
        THEN Mutate(s, [t EXCEPT ![p] = Disk!File(data)])
        ELSE Fail(s, "NotFound"))

MkdirOnDevice(st, p) ==
    Then(Mounted(st), LAMBDA s :
        LET t == Disk!WithParents(s.v.disk, p) IN
        IF Disk!ParentsAreDirs(t, p) /\ t[p].kind # "file"
        THEN Mutate(s, [t EXCEPT ![p] = Disk!Dir])
        ELSE Fail(s, "AlreadyExists"))

DeleteOnDevice(st, p) ==
    Then(Mounted(st), LAMBDA s :
        CASE s.v.disk[p] = Disk!Absent -> Fail(s, "NotFound")
          [] \E q \in Disk!Below(p) : s.v.disk[q] # Disk!Absent -> Fail(s, "NotEmpty")
          [] OTHER -> Mutate(s, [s.v.disk EXCEPT ![p] = Disk!Absent]))

RenameOnDevice(st, o, n) ==
    Then(Mounted(st), LAMBDA s :
        CASE s.v.disk[o] = Disk!Absent -> Fail(s, "NotFound")
          [] o = n -> Mutate(s, s.v.disk)
          [] IsAbove(o, n) \/ ~Disk!ParentsAreDirs(s.v.disk, n) -> Fail(s, "InvalidPath")
          [] s.v.disk[n] # Disk!Absent -> Fail(s, "AlreadyExists")
          [] OTHER ->
                Mutate(s, [q \in Paths |->
                    IF q = n \/ IsAbove(n, q)
                    THEN LET from == o \o SubSeq(q, Len(n) + 1, Len(q)) IN
                         IF from \in Paths THEN s.v.disk[from] ELSE Disk!Absent
                    ELSE IF q = o \/ IsAbove(o, q) THEN Disk!Absent ELSE s.v.disk[q]]))

\* PageCache::read, most recently used page first.  On a miss the victim's slot
\* is invalid before the page is loaded, and stays so if the load fails.
CacheRead(st, p) ==
    LET others == SelectSeq(st.v.page, LAMBDA g : g.key # p)
        hits == SelectSeq(st.v.page, LAMBDA g : g.key = p)
        kept == SubSeq(others, 1, Min({Len(others), NPages - 1})) IN
    IF hits # <<>> THEN Give([st EXCEPT !.v.page = hits \o others], hits[1].data)
    ELSE With(Access(st), LAMBDA s :
            IF Fine(s) /\ s.v.disk[p].kind = "file"
            THEN Give([s EXCEPT !.v.page = <<[key |-> p, data |-> s.v.disk[p].content]>> \o kept],
                      s.v.disk[p].content)
            ELSE Fail([s EXCEPT !.v.page = kept], "DeviceFault"))

\* read_disk_file: up to count bytes from offset on.
ReadDiskFile(st, p, offset, count) ==
    IF count = 0 THEN Give(Mounted(st), <<>>)
    ELSE Then(Mounted(st), LAMBDA s :
            Then(CacheRead(s, p), LAMBDA r :
                Give(r, SubSeq(r.val, offset + 1, Min({Len(r.val), offset + count})))))

------------------------------------------------------------------------------
(* Open files *)

OpenOn(v, i) == {d \in OpenIds : v.open[d].node = i}

\* The bytes of node i move from the disk into memory.
MaterializeDiskNode(st, i) ==
    IF st.v.node[i].backing = NoPath THEN st
    ELSE Then(ReadDiskFile(st, st.v.node[i].backing, 0, st.v.node[i].length), LAMBDA s :
            IF Len(s.val) # s.v.node[i].length THEN Fail(s, "Io")
            ELSE [s EXCEPT !.v.node[i].data = s.val, !.v.node[i].backing = NoPath])

PrepareRemove(st, p) ==
    Then(RemovableIndex(st, p), LAMBDA s :
        IF s.v.node[s.val].kind = "file" /\ OpenOn(s.v, s.val) # {}
        THEN MaterializeDiskNode(s, s.val) ELSE s)

VfsRemoveTakesOpenNode(st, p) ==
    Then(RemovableIndex(st, p), LAMBDA s : FreeTheNode(s, s.val))

VfsRemove(st, p) ==
    Then(RemovableIndex(st, p), LAMBDA s :
        IF s.v.node[s.val].kind = "file" /\ OpenOn(s.v, s.val) # {}
        THEN LET i == s.val IN
             Then(MaterializeDiskNode(s, i), LAMBDA r : [r EXCEPT !.v.node[i].path = NoPath])
        ELSE FreeTheNode(s, s.val))

VfsOpen(st, p) ==
    LET files == {i \in At(st.v, p) : st.v.node[i].kind = "file"}
        free == OpenOn(st.v, 0) IN
    CASE files = {} -> Fail(st, "NotFound")
      [] free = {} -> Fail(st, "Full")
      [] OTHER -> Give([st EXCEPT !.v.open[Min(free)] =
                            [node |-> Min(files), generation |-> st.v.generation[Min(files)],
                             offset |-> 0]],
                       Min(free))

\* The last close of an unnamed node frees it.
CloseOpenFile(st, d) ==
    LET i == st.v.open[d].node IN
    With([st EXCEPT !.v.open[d] = FreeEntry], LAMBDA s :
        IF OpenOn(s.v, i) = {} /\ s.v.node[i].path = NoPath THEN FreeTheNode(s, i) ELSE s)

\* What is read of node i from offset on.
ReadNode(st, i, offset) ==
    LET count == st.v.node[i].length - offset IN
    CASE count < 0 -> Fail(st, "InvalidDescriptor")
      [] st.v.node[i].backing = NoPath ->
            Give(st, SubSeq(st.v.node[i].data, offset + 1, st.v.node[i].length))
      [] OTHER ->
            Then(ReadDiskFile(st, st.v.node[i].backing, offset, count), LAMBDA s :
                IF Len(s.val) # count THEN Fail(s, "Io") ELSE s)

ReadFrom(st, d) ==
    Then(ReadNode(st, st.v.open[d].node, st.v.open[d].offset), LAMBDA s :
        [s EXCEPT !.v.open[d].offset = @ + Len(s.val)])

\* read_all: through a description of its own.
ReadAll(st, p) ==
    Then(VfsOpen(st, p), LAMBDA s :
        LET d == s.val IN
        With(ReadNode(s, s.v.open[d].node, 0), LAMBDA r :
            Ignoring(r, LAMBDA t : CloseOpenFile(t, d))))

Seek(st, d, offset) ==
    [st EXCEPT !.v.open[d].offset = Min({offset, st.v.node[st.v.open[d].node].length})]

\* One byte at the offset.
VfsWrite(st, d, b) ==
    LET i == st.v.open[d].node
        offset == st.v.open[d].offset IN
    Then(MaterializeDiskNode(st, i), LAMBDA s :
        CASE offset > s.v.node[i].length -> Fail(s, "InvalidDescriptor")
          [] offset = NODE_CAPACITY -> Fail(s, "Full")
          [] OTHER ->
                LET written == [k \in 1..Max({offset + 1, s.v.node[i].length}) |->
                                    IF k = offset + 1 THEN b ELSE s.v.node[i].data[k]] IN
                [s EXCEPT !.v.node[i].data = written, !.v.node[i].length = Len(written),
                          !.v.node[i].bytes = [k \in 1..Len(written) |->
                                IF k = offset + 1 THEN b ELSE @[k]],
                          !.v.open[d].offset = offset + 1])

MarkMntDirty(st) == [st EXCEPT !.v.dirty = @ \/ st.v.mounted]

------------------------------------------------------------------------------
(* What is on the volume becomes nodes: t is the volume as it was looked at *)

ChildrenIn(t, p) ==
    SetToSeq({q \in Paths : Len(q) = Len(p) + 1 /\ Parent(q) = p /\ t[q] # Disk!Absent})

\* import_directory: what is there already, and what does not fit, is skipped.
ImportEntry(st, q, t) ==
    IF t[q] = Disk!Dir THEN Unless(VfsMkdir(st, q), {"AlreadyExists", "Full"})
    ELSE Ignoring(st, LAMBDA s : CreateDiskFile(s, q, Len(t[q].content)))

ImportDirectory(st, p, t) ==
    FoldLeft(LAMBDA s, q : Then(s, LAMBDA r : ImportEntry(r, q, t)), st, ChildrenIn(t, p))

\* The walk of a mount goes into the directories too.
ImportTree(st, t) ==
    FoldLeft(LAMBDA s, q : IF t[q] = Disk!Dir
                           THEN Then(s, LAMBDA r : ImportDirectory(r, q, t)) ELSE s,
             ImportDirectory(st, <<>>, t), ChildrenIn(t, <<>>))

CreateParentDirs(st, p) ==
    FoldLeft(LAMBDA s, k : Then(s, LAMBDA r :
                Unless(VfsMkdir(r, SubSeq(p, 1, k)), {"AlreadyExists"})),
             st, [k \in 1..Len(p) - 1 |-> k])

ImportResolved(st, p, t) ==
    Then(CreateParentDirs(st, p), LAMBDA s :
        IF t[p] = Disk!Dir
        THEN Then(Unless(VfsMkdir(s, p), {"AlreadyExists"}), LAMBDA r : ImportDirectory(r, p, t))
        ELSE Unless(CreateDiskFile(s, p, Len(t[p].content)), {"AlreadyExists"}))

\* ensure_path: look for p in memory and on the disk, ...
LookUp(st, p) ==
    Then(Mounted(st), LAMBDA s :
        IF Exists(s.v, p) /\ ~IsDirectory(s.v, p) THEN Give(s, NoPath)
        ELSE Then(Access(s), LAMBDA r :
                IF p # <<>> /\ r.v.disk[p] = Disk!Absent THEN Fail(r, "NotFound")
                ELSE Give(r, r.v.disk)))

\* ... then make the nodes for what was found.
ImportFound(st, p, t) ==
    IF t = NoPath THEN st
    ELSE With(IF p = <<>> THEN ImportDirectory(st, p, t) ELSE ImportResolved(st, p, t), LAMBDA s :
            IF Fine(s) THEN s ELSE Fail(s, "Vfs"))

EnsurePath(st, p) == Then(LookUp(st, p), LAMBDA s : ImportFound(s, p, s.val))

\* record_mount_status after mount_device.
MountDevice(st) ==
    With(Then(Access(st), LAMBDA s : ImportTree(s, s.v.disk)), LAMBDA r :
        [r EXCEPT !.v.mounted = Fine(r), !.v.dirty = FALSE])

------------------------------------------------------------------------------
(* Steps: what is done in one stretch under a lock *)

Step(op, p, n) == [op |-> op, p |-> p, n |-> n]
On(op, p) == Step(op, p, <<>>)

\* sync_all_mounted goes on after a file that cannot be persisted.
Noted(st, F(_)) ==
    With(F(st), LAMBDA s :
        IF Fine(s) THEN s ELSE [s EXCEPT !.err = "none", !.failed = TRUE, !.val = NoPath])
SyncEnd(st) ==
    With(Access(st), LAMBDA s :
        IF s.failed \/ ~Fine(s) THEN Fail(MarkMntDirty(s), "Failed")
        ELSE [s EXCEPT !.v.dirty = FALSE])

Do(st, s) ==
    CASE s.op = "mounted" -> Mounted(st)
      [] s.op = "look_up" -> LookUp(st, s.p)
      [] s.op = "import" -> ImportFound(st, s.p, st.val)
      [] s.op = "can_rename" -> ValidateRename(st, s.p, s.n)
      [] s.op = "prepare_remove" -> PrepareRemove(st, s.p)
      [] s.op = "invalidate" -> Invalidate(st)
      [] s.op = "disk_delete" -> DeleteOnDevice(st, s.p)
      [] s.op = "disk_rename" -> RenameOnDevice(st, s.p, s.n)
      [] s.op = "disk_mkdir" ->
            OnError(MkdirOnDevice(st, s.p), LAMBDA r : VfsRemove(r, s.p))
      [] s.op = "disk_write" -> PersistOnDevice(st, s.p, st.val)
      [] s.op = "remove" -> VfsRemove(st, s.p)
      [] s.op = "rename" -> VfsRename(st, s.p, s.n)
      [] s.op = "mkdir" -> VfsMkdir(st, s.p)
      [] s.op = "write" -> Then(WriteFile(st, s.p, s.n), MarkMntDirty)
      [] s.op = "read_all" -> ReadAll(st, s.p)
      [] s.op = "open" -> VfsOpen(st, s.p)
      [] s.op = "read" -> Ignoring(st, LAMBDA r : ReadFrom(r, st.val))
      [] s.op = "close" -> CloseOpenFile(st, st.val)
      [] s.op = "sync_read" -> Noted(st, LAMBDA r : ReadAll(r, s.p))
      [] s.op = "sync_write" ->
            IF st.val = NoPath THEN st ELSE Noted(st, LAMBDA r : PersistOnDevice(r, s.p, st.val))
      [] s.op = "sync_end" -> SyncEnd(st)
      [] s.op = "mount" -> MountDevice(st)
      [] s.op = "flush" -> Access(st)
      [] s.op = "unmount" -> [st EXCEPT !.v.mounted = FALSE, !.v.dirty = FALSE]

DeletePath(p) == <<On("invalidate", p), On("disk_delete", p)>>
RenamePath(o, n) == <<On("invalidate", o), Step("disk_rename", o, n)>>
PersistDirectory(p) == <<On("invalidate", p), On("disk_mkdir", p)>>
PersistPath(p) == <<On("mounted", p), On("read_all", p), On("invalidate", p), On("disk_write", p)>>

Ensure(p) == <<On("look_up", p), On("import", p)>>
\* sync_all_mounted: the files of the registry, one after the other.
SyncFiles(v) ==
    FlattenSeq([k \in 1..MaxNodes |->
        LET n == v.node[k] IN
        IF n.occupied /\ n.kind = "file" /\ n.path # NoPath
        THEN <<On("sync_read", n.path), On("invalidate", n.path), On("sync_write", n.path)>>
        ELSE <<>>]) \o <<On("sync_end", <<>>)>>

UnlinkSteps(p) ==
    Ensure(p) \o <<On("prepare_remove", p)>> \o DeletePath(p) \o <<On("remove", p)>>
RenameSteps(o, n) ==
    Ensure(o) \o Ensure(Parent(n)) \o <<Step("can_rename", o, n)>>
        \o RenamePath(o, n) \o <<Step("rename", o, n)>>
MkdirSteps(p) ==
    Ensure(Parent(p)) \o <<On("mkdir", p)>> \o PersistDirectory(p)

------------------------------------------------------------------------------
(* System calls *)

RunAll(st, steps) == FoldLeft(LAMBDA s, step : Then(s, LAMBDA r : Do(r, step)), st, steps)

NamesOf(v) ==
    <<[i \in NodeIds |-> v.node[i].path], [p \in Paths |-> v.disk[p].kind]>>

\* The call F, with its k-th device access failing (none for 0).
Syscall(F(_), Result(_)) ==
    /\ given.calls < MaxCalls
    /\ given' = [given EXCEPT !.calls = @ + 1]
    /\ \E done \in {F(Running(fs, 0, FALSE, 0, FALSE))} :
        \E k \in IF faults = MaxFaults THEN {0} ELSE 0 .. -done.left, late \in BOOLEAN :
            /\ k = 0 => ~late
            /\ \E r \in {IF k = 0 THEN done ELSE F(Running(fs, k, late, 0, FALSE))} :
                /\ fs' = r.v
                /\ fds' = Result(r)
                /\ faults' = IF k = 0 THEN faults ELSE faults + 1
                /\ raced' = IF shell.todo = <<>> \/ r.v = fs \/ raced = "renamed" THEN raced
                            ELSE IF NamesOf(r.v) = NamesOf(fs) THEN "touched" ELSE "renamed"
                /\ UNCHANGED shell

SameFds(st) == fds
Opened(st, p) ==
    With(VfsOpen(st, p), LAMBDA s :
        IF Fine(s) THEN s
        ELSE Then(WriteFile([s EXCEPT !.err = "none"], p, <<>>), LAMBDA r :
                VfsOpen(MarkMntDirty(r), p)))

OpenCurrent(st, p) ==
    With(EnsurePath(st, p), LAMBDA s :
        CASE Fine(s) -> Opened(s, p)
          [] s.err = "NotFound" ->
                Then(EnsurePath([s EXCEPT !.err = "none"], Parent(p)), LAMBDA r : Opened(r, p))
          [] OTHER -> s)

\* With no free descriptor the description stays open, and nobody has it.
SysOpen(p) ==
    Syscall(LAMBDA st : OpenCurrent(st, p), LAMBDA r :
        LET free == {f \in 1..MaxFds : fds[f] = 0} IN
        IF Fine(r) /\ free # {} THEN [fds EXCEPT ![Min(free)] = r.val] ELSE fds)

SysRead(f) == fds[f] # 0 /\ Syscall(LAMBDA st : ReadFrom(st, fds[f]), SameFds)
SysSeek(f, offset) == fds[f] # 0 /\ Syscall(LAMBDA st : Seek(st, fds[f], offset), SameFds)
SysWrite(f, b) ==
    /\ fds[f] # 0
    /\ fs.node[fs.open[fds[f]].node].path # NoPath => fs.mounted
    /\ Syscall(LAMBDA st :
            Then(VfsWrite(st, fds[f], b), LAMBDA s :
                IF fs.node[fs.open[fds[f]].node].path # NoPath THEN MarkMntDirty(s) ELSE s),
            SameFds)
SysClose(f) ==
    /\ fds[f] # 0
    /\ Syscall(LAMBDA st : CloseOpenFile(st, fds[f]), LAMBDA r : [fds EXCEPT ![f] = 0])

SysStat(p) == Syscall(LAMBDA st : EnsurePath(st, p), SameFds)
SysUnlink(p) == Syscall(LAMBDA st : RunAll(st, UnlinkSteps(p)), SameFds)
SysMkdir(p) == Syscall(LAMBDA st : RunAll(st, MkdirSteps(p)), SameFds)
SysSync ==
    fs.mounted /\ Syscall(LAMBDA st : RunAll(st, SyncFiles(fs)), SameFds)

\* Bound: what moves stays in Paths.
RenameFits(o, n) ==
    \A q \in Paths : IsAbove(o, q) /\ (fs.disk[q] # Disk!Absent \/ At(fs, q) # {})
        => n \o SubSeq(q, Len(o) + 1, Len(q)) \in Paths
SysRename(o, n) ==
    RenameFits(o, n) /\ Syscall(LAMBDA st : RunAll(st, RenameSteps(o, n)), SameFds)

------------------------------------------------------------------------------
(* The kernel shell *)

Idle == [todo |-> <<>>, val |-> 0, failed |-> FALSE]

Start(steps) ==
    /\ shell.todo = <<>> /\ given.commands < MaxCommands
    /\ given' = [given EXCEPT !.commands = @ + 1]
    /\ shell' = [Idle EXCEPT !.todo = steps]
    /\ UNCHANGED <<fs, fds, faults, raced>>

CmdWrite(p, text) == Start(<<On("mounted", p)>> \o Ensure(Parent(p)) \o <<Step("write", p, text)>>)
CmdRename(o, n) == RenameFits(o, n) /\ Start(RenameSteps(o, n))
CmdRm(p) == Start(UnlinkSteps(p))
CmdMkdir(p) == Start(MkdirSteps(p))
CmdPersist(p) ==
    Start(IF IsDirectory(fs, p) THEN PersistDirectory(p) ELSE PersistPath(p))
CmdCat(p) == Start(Ensure(p) \o <<On("open", p), On("read", p), On("close", p)>>)
CmdSync == fs.mounted /\ Start(SyncFiles(fs))
CmdMount == Start(<<On("invalidate", <<>>), On("mount", <<>>)>>)
CmdUmount ==
    fs.mounted /\ Start(SyncFiles(fs) \o
        <<On("invalidate", <<>>), On("flush", <<>>), On("unmount", <<>>)>>)

\* One step; an error ends the command.
ShellStep ==
    /\ shell.todo # <<>>
    /\ LET step == Head(shell.todo) IN
       step.op \in {"disk_rename", "rename"} => RenameFits(step.p, step.n)
    /\ \E k \in IF faults = MaxFaults THEN {0} ELSE {0, 1}, late \in BOOLEAN :
        /\ k = 0 => ~late
        /\ \E r \in {Do(Running(fs, k, late, shell.val, shell.failed), Head(shell.todo))} :
            /\ k = 1 => r.left < 1
            /\ fs' = r.v
            /\ shell' = IF Fine(r) /\ Len(shell.todo) > 1
                        THEN [todo |-> Tail(shell.todo), val |-> r.val, failed |-> r.failed]
                        ELSE Idle
            /\ faults' = faults + k
    /\ UNCHANGED <<fds, given, raced>>

------------------------------------------------------------------------------

Init ==
    /\ \E t \in Trees :
       fs = MountDevice(Running(
                [node |-> [i \in NodeIds |-> FreeNode], generation |-> [i \in NodeIds |-> 0],
                 open |-> [d \in OpenIds |-> FreeEntry], page |-> <<>>, disk |-> t,
                 mounted |-> FALSE, dirty |-> FALSE], 0, FALSE, 0, FALSE)).v
    /\ fds = [f \in 1..MaxFds |-> 0]
    /\ shell = Idle /\ given = [calls |-> 0, commands |-> 0] /\ faults = 0 /\ raced = "no"

User ==
    \/ \E p \in Paths :
        \/ SysOpen(p)
        \/ SysStat(p)
        \/ SysUnlink(p)
        \/ SysMkdir(p)
        \/ \E n \in Paths : SysRename(p, n)
    \/ \E f \in 1..MaxFds :
        \/ SysRead(f)
        \/ SysSeek(f, 0)
        \/ \E b \in Bytes : SysWrite(f, b)
        \/ SysClose(f)
    \/ SysSync

Shell ==
    \/ \E p \in Paths :
        \/ \E text \in Texts : CmdWrite(p, text)
        \/ \E n \in Paths : CmdRename(p, n)
        \/ CmdRm(p)
        \/ CmdMkdir(p)
        \/ CmdPersist(p)
        \/ CmdCat(p)
    \/ CmdSync
    \/ CmdMount
    \/ CmdUmount
    \/ ShellStep

Next == User \/ Shell

Spec == Init /\ [][Next]_fileVars

------------------------------------------------------------------------------
(* Properties *)

AtRest == Running(fs, 0, FALSE, 0, FALSE)
LiveFiles == {i \in NodeIds : fs.node[i].occupied /\ fs.node[i].kind = "file"}

\* A description keeps the node it was opened on: unlink leaves the node to its
\* open descriptions, the last close frees it, and no slot is reused before.
OpenNodeAlive ==
    \A d \in OpenIds :
        LET i == fs.open[d].node IN
        i # 0 => /\ i \in LiveFiles
                 /\ fs.open[d].generation = fs.generation[i]



Saved ==
    \A i \in LiveFiles :
        fs.node[i].path # NoPath => fs.disk[fs.node[i].path] = Disk!File(fs.node[i].bytes)
Mounting == shell.todo # <<>> /\ Head(shell.todo).op \in {"mount", "unmount"}
=============================================================================
