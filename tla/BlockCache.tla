------------------------------- MODULE BlockCache -------------------------------
(***************************************************************************)
(* The write-back sector cache of kernel/src/block_cache.rs over a device   *)
(* whose reads and writes may fail.  The cache is used under the ATA lock,  *)
(* so an operation is one action; inside it every device access may be the  *)
(* one that fails, and what was done before the failure stays done.         *)
(*                                                                         *)
(* A sector's 512 bytes are one member of Data.  N = 0, which bypasses the  *)
(* cache, and out-of-range sectors, which fail before any state is touched, *)
(* are left out.  Ages saturate at AgeCap, which stands for u64::MAX.       *)
(***************************************************************************)
EXTENDS Integers

CONSTANTS Lba, Data, N, AgeCap

ASSUME BlockCacheAssumption ==
    /\ N \in Nat \ {0} /\ AgeCap \in Nat \ {0}
    /\ Lba # {} /\ Data # {}

Entries == 0 .. N - 1

VARIABLES
    lba, data, valid, dirty, age,   \* the fields of entries[i]
    disk,                           \* the inner device
    read_only,                      \* the inner device's is_read_only
    ret                             \* the result of the last operation

entries == <<lba, data, valid, dirty, age>>
vars == <<entries, disk, read_only, ret>>

None == <<"None">>
Done == <<"Done">>
Fault == <<"Fault">>
Value(d) == <<"Ok", d>>

Init ==
    /\ disk \in [Lba -> Data]
    /\ lba = [i \in Entries |-> CHOOSE l \in Lba : TRUE]
    /\ data = [i \in Entries |-> CHOOSE d \in Data : TRUE]
    /\ valid = [i \in Entries |-> FALSE]
    /\ dirty = [i \in Entries |-> FALSE]
    /\ age = [i \in Entries |-> 0]
    /\ read_only \in BOOLEAN
    /\ ret = None

Older(a) == IF a < AgeCap THEN a + 1 ELSE AgeCap

\* touch(index), v being the valid flags at that point.
Touched(index, v) == [i \in Entries |-> IF i = index THEN 0
                                        ELSE IF v[i] THEN Older(age[i]) ELSE age[i]]

Hit(index, l) == valid[index] /\ lba[index] = l
Cached(l) == \E i \in Entries : Hit(i, l)
\* find: the first entry that holds the sector.
Find(index, l) == Hit(index, l) /\ \A i \in Entries : Hit(i, l) => index <= i

\* Mutant of Victim: the entry used last is replaced.
VictimNewest(index) ==
    IF \E i \in Entries : ~valid[i] THEN ~valid[index] ELSE \A i \in Entries : age[index] <= age[i]

\* victim: the first invalid entry, else the last of the oldest.
Victim(index) ==
    IF \E i \in Entries : ~valid[i]
    THEN ~valid[index] /\ \A i \in Entries : ~valid[i] => index <= i
    ELSE \A i \in Entries : \/ age[i] < age[index]
                            \/ age[i] = age[index] /\ i <= index

\* write_back(index): the sector it writes, if it has to write one.
MustWrite(index) == valid[index] /\ dirty[index]
Written(index) == IF MustWrite(index) THEN [disk EXCEPT ![lba[index]] = data[index]] ELSE disk
Cleaned(index) == [dirty EXCEPT ![index] = FALSE]

\* The device fails the write: the sector holds the old bytes or the new ones,
\* and the entry is still dirty.
WriteBackFails(index) ==
    /\ MustWrite(index)
    /\ disk' \in {disk, Written(index)}
    /\ ret' = Fault
    /\ UNCHANGED <<entries, read_only>>

\* Install sector l with contents d in entry index, over what was there.
Install(index, l, d, isDirty) ==
    /\ lba' = [lba EXCEPT ![index] = l]
    /\ data' = [data EXCEPT ![index] = d]
    /\ valid' = [valid EXCEPT ![index] = TRUE]
    /\ dirty' = [dirty EXCEPT ![index] = isDirty]
    /\ age' = Touched(index, valid)

-----------------------------------------------------------------------------
(***************************************************************************)
(* read_sector, which is load followed by a copy.                          *)
(***************************************************************************)
ReadHit(l) ==
    \E index \in Entries :
        /\ Find(index, l)
        /\ age' = Touched(index, valid)
        /\ ret' = Value(data[index])
        /\ UNCHANGED <<lba, data, valid, dirty, disk, read_only>>

ReadMiss(l) ==
    /\ ~Cached(l)
    /\ \E index \in Entries :
          /\ Victim(index)
          /\ \/ WriteBackFails(index)
             \/ /\ disk' = Written(index)
                /\ Install(index, l, Written(index)[l], FALSE)
                /\ ret' = Value(Written(index)[l])
                /\ UNCHANGED read_only
             \/ /\ disk' = Written(index)         \* written back, then the read fails
                /\ dirty' = Cleaned(index)
                /\ ret' = Fault
                /\ UNCHANGED <<lba, data, valid, age, read_only>>

(***************************************************************************)
(* write_sector: the whole sector is replaced, so nothing is read.         *)
(***************************************************************************)
WriteHit(l, d) ==
    /\ ~read_only
    /\ \E index \in Entries :
          /\ Find(index, l)
          /\ Install(index, l, d, TRUE)
    /\ ret' = Done
    /\ UNCHANGED <<disk, read_only>>

\* Mutant of WriteMiss: the device is not asked whether it is read-only.
WriteMissAnyDevice(l, d) ==
    /\ ~Cached(l)
    /\ \E index \in Entries :
          /\ Victim(index) /\ ~MustWrite(index)
          /\ Install(index, l, d, TRUE)
    /\ ret' = Done
    /\ UNCHANGED <<disk, read_only>>

WriteMiss(l, d) ==
    /\ ~read_only /\ ~Cached(l)
    /\ \E index \in Entries :
          /\ Victim(index)
          /\ \/ WriteBackFails(index)
             \/ /\ disk' = Written(index)
                /\ Install(index, l, d, TRUE)
                /\ ret' = Done
                /\ UNCHANGED read_only

WriteRefused ==
    /\ read_only
    /\ ret' = Fault
    /\ UNCHANGED <<entries, disk, read_only>>

(***************************************************************************)
(* flush writes back entries 0, 1, ... in turn and stops at the first that  *)
(* fails; entries below k are clean by then, the others untouched.  When    *)
(* all are clean the inner device is flushed, which may fail too.           *)
(***************************************************************************)
\* Mutant of Drained: the last entry is left out.
DrainedShort(k) == [l \in Lba |->
                      IF \E i \in Entries : i + 1 < k /\ MustWrite(i) /\ lba[i] = l
                      THEN data[CHOOSE i \in Entries : i + 1 < k /\ MustWrite(i) /\ lba[i] = l]
                      ELSE disk[l]]

\* The medium once the dirty entries below k are written.
Drained(k) == [l \in Lba |->
                 IF \E i \in Entries : i < k /\ MustWrite(i) /\ lba[i] = l
                 THEN data[CHOOSE i \in Entries : i < k /\ MustWrite(i) /\ lba[i] = l]
                 ELSE disk[l]]

Flush ==
    /\ disk' = Drained(N)
    /\ dirty' = [i \in Entries |-> IF valid[i] THEN FALSE ELSE dirty[i]]
    /\ ret' \in {Done, Fault}
    /\ UNCHANGED <<lba, data, valid, age, read_only>>

FlushFails(k) ==
    /\ MustWrite(k)
    /\ disk' \in {Drained(k), Drained(k + 1)}
    /\ dirty' = [i \in Entries |-> IF i < k /\ valid[i] THEN FALSE ELSE dirty[i]]
    /\ ret' = Fault
    /\ UNCHANGED <<lba, data, valid, age, read_only>>

\* Power is lost: the cache starts again empty, the device keeps its sectors.
PowerLoss ==
    /\ valid' = [i \in Entries |-> FALSE]
    /\ dirty' = [i \in Entries |-> FALSE]
    /\ age' = [i \in Entries |-> 0]
    /\ ret' = None
    /\ UNCHANGED <<lba, data, disk, read_only>>

Next ==
    \/ \E l \in Lba : ReadHit(l) \/ ReadMiss(l)
    \/ \E l \in Lba, d \in Data : WriteHit(l, d) \/ WriteMiss(l, d)
    \/ WriteRefused
    \/ Flush
    \/ \E k \in Entries : FlushFails(k)
    \/ PowerLoss

Spec == Init /\ [][Next]_vars

-----------------------------------------------------------------------------
(***************************************************************************)
(* Properties.                                                             *)
(***************************************************************************)
\* Every field of every entry, and the device, has its type.
TypeOK ==
    /\ lba \in [Entries -> Lba] /\ data \in [Entries -> Data]
    /\ valid \in [Entries -> BOOLEAN] /\ dirty \in [Entries -> BOOLEAN]
    /\ age \in [Entries -> 0 .. AgeCap]
    /\ disk \in [Lba -> Data]
    /\ read_only \in BOOLEAN
    /\ ret \in {None, Done, Fault} \cup {Value(d) : d \in Data}

\* A sector is cached once: find, which stops at the first match, cannot miss
\* a newer copy that a later writeback would overwrite with an older one.
NoAlias == \A i, j \in Entries : valid[i] /\ valid[j] /\ lba[i] = lba[j] => i = j

\* An entry that writeback would skip agrees with the device.
CleanMatches == \A i \in Entries : valid[i] /\ ~dirty[i] => data[i] = disk[lba[i]]

\* A read-only device is never written, whatever was cached before.
ReadOnlyClean == read_only => \A i \in Entries : ~dirty[i]

\* The inductive invariant: flags, ages, copies and the read-only device agree
\* after every partial failure of read_sector, write_sector and flush.
IInv == TypeOK /\ NoAlias /\ CleanMatches /\ ReadOnlyClean

\* With two entries or more, the sector used last survives whatever is used
\* next: replacement never evicts it.
HotSurvives ==
    [][N > 1 => \A i \in Entries :
          valid[i] /\ age[i] = 0 /\ ret' # None
             => \E j \in Entries : valid'[j] /\ lba'[j] = lba[i]]_vars

\* What a read of sector l returns: the cached copy, else the device's.
View == [l \in Lba |-> IF Cached(l) THEN data[CHOOSE i \in Entries : Hit(i, l)] ELSE disk[l]]

Store == INSTANCE SectorStore WITH view <- View, media <- disk

\* The cached device is a BlockDevice: "Failed writeback leaves the dirty entry
\* and its bytes intact for retry; failed reads do not install partial data",
\* and a successful flush leaves every earlier write on the device.
StoreSpec == Store!Spec
=============================================================================
