--------------------------- MODULE BlockCacheProofs ---------------------------
(***************************************************************************)
(* The cache is coherent, and is a SectorStore, for every number of entries *)
(* and every set of sectors and contents.                                   *)
(***************************************************************************)
EXTENDS BlockCache, TLAPS

\* What the invariant says of a single entry, in the form the proofs use.
LEMMA ViewOfCached ==
    ASSUME IInv, NEW l \in Lba, NEW i \in Entries, Hit(i, l)
    PROVE  View[l] = data[i]
<1> DEFINE c == CHOOSE j \in Entries : Hit(j, l)
<1>1. c \in Entries /\ Hit(c, l)
    OBVIOUS
<1>2. c = i
    BY <1>1 DEF IInv, NoAlias, Hit
<1>3. Cached(l)
    BY DEF Cached
<1> QED
    BY <1>2, <1>3 DEF View

LEMMA ViewOfUncached ==
    ASSUME NEW l \in Lba, ~Cached(l)
    PROVE  View[l] = disk[l]
BY DEF View

\* A write to the device of what an entry holds keeps the invariants' view.
LEMMA WrittenFacts ==
    ASSUME IInv, NEW i \in Entries
    PROVE  /\ Written(i) \in [Lba -> Data]
           /\ \A l \in Lba : Written(i)[l] \in {disk[l], View[l]}
           /\ \A j \in Entries : valid[j] /\ (~dirty[j] \/ j = i) => Written(i)[lba[j]] = data[j]
           /\ \A l \in Lba : ~(valid[i] /\ lba[i] = l) => Written(i)[l] = disk[l]
           /\ read_only => Written(i) = disk
<1>1. Written(i) \in [Lba -> Data]
    BY DEF Written, MustWrite, IInv, TypeOK
<1>2. ASSUME NEW l \in Lba PROVE Written(i)[l] \in {disk[l], View[l]}
  <2>1. CASE MustWrite(i) /\ lba[i] = l
    <3>1. View[l] = data[i]
        BY <2>1, ViewOfCached DEF Hit, MustWrite
    <3>2. Written(i)[l] = data[i]
        BY <2>1 DEF Written, IInv, TypeOK
    <3> QED
        BY <3>1, <3>2
  <2>2. CASE ~(MustWrite(i) /\ lba[i] = l)
    <3>1. Written(i)[l] = disk[l]
        BY <2>2 DEF Written, IInv, TypeOK
    <3> QED
        BY <3>1
  <2> QED
    BY <2>1, <2>2
<1>3. ASSUME NEW j \in Entries, valid[j], ~dirty[j] \/ j = i
      PROVE  Written(i)[lba[j]] = data[j]
    BY <1>3 DEF Written, MustWrite, IInv, TypeOK, NoAlias, CleanMatches
<1>4. ASSUME NEW l \in Lba, ~(valid[i] /\ lba[i] = l) PROVE Written(i)[l] = disk[l]
    BY <1>4 DEF Written, MustWrite, IInv, TypeOK
<1>5. read_only => Written(i) = disk
    BY DEF Written, MustWrite, IInv, ReadOnlyClean
<1> QED
    BY <1>1, <1>2, <1>3, <1>4, <1>5

LEMMA AgesTyped ==
    ASSUME IInv, NEW i \in Entries
    PROVE  Touched(i, valid) \in [Entries -> 0 .. AgeCap]
<1>1. \A a \in 0 .. AgeCap : Older(a) \in 0 .. AgeCap
    BY BlockCacheAssumption DEF Older, BlockCacheAssumption
<1>2. 0 \in 0 .. AgeCap
    BY BlockCacheAssumption DEF BlockCacheAssumption
<1> QED
    BY <1>1, <1>2 DEF Touched, IInv, TypeOK

-----------------------------------------------------------------------------
LEMMA InitInvariant == Init => IInv
<1> SUFFICES ASSUME Init PROVE IInv
    OBVIOUS
<1>1. (CHOOSE l \in Lba : TRUE) \in Lba /\ (CHOOSE d \in Data : TRUE) \in Data
    BY BlockCacheAssumption DEF BlockCacheAssumption
<1>2. TypeOK
  <2>1. lba \in [Entries -> Lba]
    BY <1>1, Zenon DEF Init
  <2>2. data \in [Entries -> Data]
    BY <1>1, Zenon DEF Init
  <2>3. age \in [Entries -> 0 .. AgeCap]
    BY BlockCacheAssumption DEF BlockCacheAssumption, Init
  <2> QED
    BY <2>1, <2>2, <2>3 DEF Init, TypeOK, None
<1>3. NoAlias /\ CleanMatches /\ ReadOnlyClean
    BY DEF Init, NoAlias, CleanMatches, ReadOnlyClean
<1> QED
    BY <1>2, <1>3 DEF IInv

(***************************************************************************)
(* Each operation preserves the invariant.                                 *)
(***************************************************************************)
\* Installing a sector that no other entry holds, over an entry whose bytes
\* are safe on the device, keeps the cache coherent.
LEMMA InstallKeeps ==
    ASSUME IInv, NEW index \in Entries, NEW l \in Lba, NEW d \in Data, NEW b \in BOOLEAN,
           \A i \in Entries : Hit(i, l) => i = index,
           disk' = Written(index) \/ (disk' = disk /\ lba[index] = l),
           Install(index, l, d, b),
           ~b => d = disk'[l],
           b => ~read_only,
           ret' \in {None, Done, Fault} \cup {Value(e) : e \in Data},
           UNCHANGED read_only
    PROVE  IInv'
<1>1. TypeOK'
  <2>1. age' \in [Entries -> 0 .. AgeCap]
    BY AgesTyped DEF Install
  <2>2. disk' \in [Lba -> Data]
    BY WrittenFacts DEF IInv, TypeOK
  <2> QED
    BY <2>1, <2>2 DEF IInv, TypeOK, Install, None, Done, Fault, Value
<1>2. NoAlias'
    BY DEF IInv, TypeOK, NoAlias, Install, Hit
<1>3. ASSUME NEW i \in Entries, valid'[i], ~dirty'[i]
      PROVE  data'[i] = disk'[lba'[i]]
  <2>1. CASE i = index
    BY <2>1, <1>3 DEF Install, IInv, TypeOK
  <2>2. CASE i # index
    <3>1. /\ valid[i] /\ ~dirty[i] /\ lba'[i] = lba[i] /\ data'[i] = data[i] /\ lba[i] \in Lba
        BY <2>2, <1>3 DEF Install, IInv, TypeOK
    <3>2. disk'[lba[i]] = data[i]
        BY <3>1, WrittenFacts DEF IInv, CleanMatches
    <3> QED
        BY <3>1, <3>2
  <2> QED
    BY <2>1, <2>2
<1>4. ReadOnlyClean'
    BY DEF IInv, TypeOK, ReadOnlyClean, Install
<1> QED
    BY <1>1, <1>2, <1>3, <1>4 DEF IInv, CleanMatches

\* Writing entries back and marking them clean keeps the cache coherent.
LEMMA WriteBackKeeps ==
    ASSUME IInv,
           disk' \in [Lba -> Data], dirty' \in [Entries -> BOOLEAN],
           \A i \in Entries : valid[i] /\ ~dirty'[i] => disk'[lba[i]] = data[i],
           read_only => \A i \in Entries : ~dirty'[i],
           ret' \in {None, Done, Fault} \cup {Value(e) : e \in Data},
           UNCHANGED <<lba, data, valid, read_only>>,
           age' \in [Entries -> 0 .. AgeCap]
    PROVE  IInv'
<1>1. TypeOK'
    BY DEF IInv, TypeOK, None, Done, Fault, Value
<1>2. NoAlias' /\ CleanMatches'
    BY DEF IInv, NoAlias, CleanMatches
<1>3. ReadOnlyClean'
    BY DEF ReadOnlyClean
<1> QED
    BY <1>1, <1>2, <1>3 DEF IInv

LEMMA WriteBackFailsKeeps ==
    ASSUME IInv, NEW index \in Entries, WriteBackFails(index)
    PROVE  IInv'
<1>1. disk' \in [Lba -> Data]
    BY WrittenFacts DEF WriteBackFails, IInv, TypeOK
<1>2. ASSUME NEW i \in Entries, valid[i], ~dirty'[i] PROVE disk'[lba[i]] = data[i]
    BY <1>2, WrittenFacts DEF WriteBackFails, entries, IInv, CleanMatches
<1>3. read_only => \A i \in Entries : ~dirty'[i]
    BY DEF WriteBackFails, entries, IInv, ReadOnlyClean
<1>4. ret' = Fault /\ UNCHANGED <<lba, data, valid, dirty, age, read_only>>
    BY DEF WriteBackFails, entries
<1>5. /\ dirty' \in [Entries -> BOOLEAN] /\ age' \in [Entries -> 0 .. AgeCap]
    BY <1>4 DEF IInv, TypeOK
<1>6. ret' \in {None, Done, Fault} \cup {Value(e) : e \in Data}
    BY <1>4
<1> QED
    BY <1>1, <1>2, <1>3, <1>4, <1>5, <1>6, WriteBackKeeps

\* The device after the dirty entries below k are written.
LEMMA DrainedFacts ==
    ASSUME IInv, NEW k \in Int
    PROVE  /\ Drained(k) \in [Lba -> Data]
           /\ \A l \in Lba : Drained(k)[l] \in {disk[l], View[l]}
           /\ \A i \in Entries : valid[i] /\ (i < k \/ ~dirty[i]) => Drained(k)[lba[i]] = data[i]
<1> DEFINE W(i, l) == i < k /\ MustWrite(i) /\ lba[i] = l
<1>1. ASSUME NEW l \in Lba, NEW i \in Entries, W(i, l)
      PROVE  Drained(k)[l] = data[i]
  <2> DEFINE c == CHOOSE j \in Entries : W(j, l)
  <2>1. c \in Entries /\ W(c, l)
    BY <1>1
  <2>2. c = i
    BY <2>1, <1>1 DEF MustWrite, IInv, NoAlias
  <2> QED
    BY <2>2, <1>1 DEF Drained
<1>2. ASSUME NEW l \in Lba, ~\E i \in Entries : W(i, l)
      PROVE  Drained(k)[l] = disk[l]
    BY <1>2 DEF Drained
<1>3. ASSUME NEW l \in Lba PROVE Drained(k)[l] \in Data /\ Drained(k)[l] \in {disk[l], View[l]}
  <2>1. CASE \E i \in Entries : W(i, l)
    <3>1. PICK i \in Entries : W(i, l)
        BY <2>1
    <3>2. View[l] = data[i]
        BY <3>1, ViewOfCached DEF MustWrite, Hit
    <3> QED
        BY <3>1, <3>2, <1>1 DEF IInv, TypeOK
  <2>2. CASE ~\E i \in Entries : W(i, l)
    BY <2>2, <1>2 DEF IInv, TypeOK
  <2> QED
    BY <2>1, <2>2
<1>4. Drained(k) \in [Lba -> Data]
    BY <1>3 DEF Drained
<1>5. ASSUME NEW i \in Entries, valid[i], i < k \/ ~dirty[i]
      PROVE  Drained(k)[lba[i]] = data[i]
  <2>1. lba[i] \in Lba
    BY DEF IInv, TypeOK
  <2>2. CASE i < k /\ dirty[i]
    BY <2>1, <2>2, <1>1, <1>5 DEF MustWrite
  <2>3. CASE ~dirty[i]
    <3>1. ~\E j \in Entries : W(j, lba[i])
        BY <2>3, <1>5 DEF MustWrite, IInv, NoAlias
    <3> QED
        BY <2>1, <2>3, <3>1, <1>2, <1>5 DEF IInv, CleanMatches
  <2> QED
    BY <2>2, <2>3, <1>5
<1> QED
    BY <1>3, <1>4, <1>5

LEMMA FlushKeeps ==
    ASSUME IInv, Flush
    PROVE  IInv'
<1>1. N \in Int
    BY BlockCacheAssumption DEF BlockCacheAssumption
<1>2. disk' = Drained(N) /\ disk' \in [Lba -> Data]
    BY <1>1, DrainedFacts DEF Flush
<1>3. dirty' = [i \in Entries |-> IF valid[i] THEN FALSE ELSE dirty[i]]
    BY DEF Flush
<1>4. \A i \in Entries : valid[i] => disk'[lba[i]] = data[i]
  <2>1. \A i \in Entries : i < N
    BY <1>1 DEF Entries
  <2> QED
    BY <1>1, <1>2, <2>1, DrainedFacts
<1>5. ret' \in {None, Done, Fault} \cup {Value(e) : e \in Data}
    BY DEF Flush
<1>6. dirty' \in [Entries -> BOOLEAN]
    BY <1>3 DEF IInv, TypeOK
<1>7. read_only => \A i \in Entries : ~dirty'[i]
    BY <1>3 DEF IInv, ReadOnlyClean
<1>8. UNCHANGED <<lba, data, valid, read_only>> /\ age' \in [Entries -> 0 .. AgeCap]
    BY DEF Flush, IInv, TypeOK
<1> QED
    BY <1>2, <1>4, <1>5, <1>6, <1>7, <1>8, WriteBackKeeps

LEMMA FlushFailsKeeps ==
    ASSUME IInv, NEW k \in Entries, FlushFails(k)
    PROVE  IInv'
<1>1. k \in Int /\ k + 1 \in Int
    BY BlockCacheAssumption DEF BlockCacheAssumption, Entries
<1>2. disk' \in {Drained(k), Drained(k + 1)} /\ disk' \in [Lba -> Data]
    BY <1>1, DrainedFacts DEF FlushFails
<1>3. dirty' = [i \in Entries |-> IF i < k /\ valid[i] THEN FALSE ELSE dirty[i]]
    BY DEF FlushFails
<1>4. ASSUME NEW i \in Entries, valid[i], ~dirty'[i] PROVE disk'[lba[i]] = data[i]
  <2>1. (i < k \/ ~dirty[i]) /\ (i < k => i < k + 1)
    BY <1>3, <1>4, BlockCacheAssumption DEF BlockCacheAssumption, Entries
  <2> QED
    BY <1>1, <1>2, <1>4, <2>1, DrainedFacts
<1>5. ret' \in {None, Done, Fault} \cup {Value(e) : e \in Data}
    BY DEF FlushFails
<1>6. dirty' \in [Entries -> BOOLEAN]
    BY <1>3 DEF IInv, TypeOK
<1>7. read_only => \A i \in Entries : ~dirty'[i]
    BY <1>3 DEF IInv, ReadOnlyClean
<1>8. UNCHANGED <<lba, data, valid, read_only>> /\ age' \in [Entries -> 0 .. AgeCap]
    BY DEF FlushFails, IInv, TypeOK
<1> QED
    BY <1>2, <1>4, <1>5, <1>6, <1>7, <1>8, WriteBackKeeps

LEMMA ReadKeeps ==
    ASSUME IInv, NEW l \in Lba, ReadHit(l) \/ ReadMiss(l)
    PROVE  IInv'
<1>1. CASE ReadHit(l)
  <2>1. PICK index \in Entries : /\ age' = Touched(index, valid)
                                 /\ ret' = Value(data[index])
                                 /\ UNCHANGED <<lba, data, valid, dirty, disk, read_only>>
    BY <1>1 DEF ReadHit
  <2>2. age' \in [Entries -> 0 .. AgeCap] /\ data[index] \in Data
    BY <2>1, AgesTyped DEF IInv, TypeOK
  <2> QED
    BY <2>1, <2>2 DEF IInv, TypeOK, NoAlias, CleanMatches, ReadOnlyClean
<1>2. CASE ReadMiss(l)
  <2>1. PICK index \in Entries :
            \/ WriteBackFails(index)
            \/ /\ disk' = Written(index)
               /\ Install(index, l, Written(index)[l], FALSE)
               /\ ret' = Value(Written(index)[l])
               /\ UNCHANGED read_only
            \/ /\ disk' = Written(index)
               /\ dirty' = Cleaned(index)
               /\ ret' = Fault
               /\ UNCHANGED <<lba, data, valid, age, read_only>>
    BY <1>2 DEF ReadMiss
  <2>2. ~Cached(l)
    BY <1>2 DEF ReadMiss
  <2>3. CASE WriteBackFails(index)
    BY <2>3, WriteBackFailsKeeps
  <2>4. CASE /\ disk' = Written(index)
             /\ Install(index, l, Written(index)[l], FALSE)
             /\ ret' = Value(Written(index)[l])
             /\ UNCHANGED read_only
    <3>1. Written(index)[l] \in Data
        BY WrittenFacts
    <3>2. \A i \in Entries : Hit(i, l) => i = index
        BY <2>2 DEF Cached
    <3> QED
        BY <2>4, <3>1, <3>2, InstallKeeps
  <2>5. CASE /\ disk' = Written(index)
             /\ dirty' = Cleaned(index)
             /\ ret' = Fault
             /\ UNCHANGED <<lba, data, valid, age, read_only>>
    <3>1. disk' \in [Lba -> Data]
        BY <2>5, WrittenFacts
    <3>2. dirty' \in [Entries -> BOOLEAN] /\ age' \in [Entries -> 0 .. AgeCap]
        BY <2>5 DEF Cleaned, IInv, TypeOK
    <3>3. ASSUME NEW i \in Entries, valid[i], ~dirty'[i] PROVE disk'[lba[i]] = data[i]
      <4>1. ~dirty[i] \/ i = index
        BY <2>5, <3>3 DEF Cleaned, IInv, TypeOK
      <4> QED
        BY <2>5, <3>3, <4>1, WrittenFacts
    <3>4. read_only => \A i \in Entries : ~dirty'[i]
        BY <2>5 DEF Cleaned, IInv, TypeOK, ReadOnlyClean
    <3>5. ret' \in {None, Done, Fault} \cup {Value(e) : e \in Data}
        BY <2>5
    <3> QED
        BY <2>5, <3>1, <3>2, <3>3, <3>4, <3>5, WriteBackKeeps
  <2> QED
    BY <2>1, <2>3, <2>4, <2>5
<1> QED
    BY <1>1, <1>2

LEMMA WriteKeeps ==
    ASSUME IInv, NEW l \in Lba, NEW d \in Data, WriteHit(l, d) \/ WriteMiss(l, d)
    PROVE  IInv'
<1>1. CASE WriteHit(l, d)
  <2>1. PICK index \in Entries : Find(index, l) /\ Install(index, l, d, TRUE)
    BY <1>1 DEF WriteHit
  <2>2. ~read_only /\ ret' = Done /\ disk' = disk /\ UNCHANGED read_only
    BY <1>1 DEF WriteHit
  <2>3. lba[index] = l /\ \A i \in Entries : Hit(i, l) => i = index
    BY <2>1 DEF Find, Hit, IInv, NoAlias
  <2> QED
    BY <2>1, <2>2, <2>3, InstallKeeps
<1>2. CASE WriteMiss(l, d)
  <2>1. PICK index \in Entries :
            \/ WriteBackFails(index)
            \/ /\ disk' = Written(index)
               /\ Install(index, l, d, TRUE)
               /\ ret' = Done
               /\ UNCHANGED read_only
    BY <1>2 DEF WriteMiss
  <2>2. ~read_only /\ \A i \in Entries : Hit(i, l) => i = index
    BY <1>2 DEF WriteMiss, Cached
  <2>3. CASE WriteBackFails(index)
    BY <2>3, WriteBackFailsKeeps
  <2>4. CASE /\ disk' = Written(index)
             /\ Install(index, l, d, TRUE)
             /\ ret' = Done
             /\ UNCHANGED read_only
    BY <2>2, <2>4, InstallKeeps
  <2> QED
    BY <2>1, <2>3, <2>4
<1> QED
    BY <1>1, <1>2

LEMMA StepKeeps == IInv /\ [Next]_vars => IInv'
<1> SUFFICES ASSUME IInv, [Next]_vars PROVE IInv'
    OBVIOUS
<1>1. ASSUME NEW l \in Lba, ReadHit(l) \/ ReadMiss(l) PROVE IInv'
    BY <1>1, ReadKeeps
<1>2. ASSUME NEW l \in Lba, NEW d \in Data, WriteHit(l, d) \/ WriteMiss(l, d) PROVE IInv'
    BY <1>2, WriteKeeps
<1>3. CASE WriteRefused
    BY <1>3 DEF WriteRefused, entries, IInv, TypeOK, NoAlias, CleanMatches, ReadOnlyClean
<1>4. CASE Flush
    BY <1>4, FlushKeeps
<1>5. ASSUME NEW k \in Entries, FlushFails(k) PROVE IInv'
    BY <1>5, FlushFailsKeeps
<1>6. CASE PowerLoss
  <2>1. TypeOK'
    BY <1>6, BlockCacheAssumption DEF BlockCacheAssumption, PowerLoss, IInv, TypeOK
  <2> QED
    BY <1>6, <2>1 DEF PowerLoss, IInv, NoAlias, CleanMatches, ReadOnlyClean
<1>7. CASE UNCHANGED vars
    BY <1>7 DEF vars, entries, IInv, TypeOK, NoAlias, CleanMatches, ReadOnlyClean
<1> QED
    BY <1>1, <1>2, <1>3, <1>4, <1>5, <1>6, <1>7 DEF Next

\* The inductive invariant holds of every behaviour of the cache: fields have
\* their types, no sector is cached twice, clean entries agree with the device,
\* a read-only device has no dirty entry.
THEOREM Coherence == Spec => []IInv
<1>1. Init => IInv
    BY InitInvariant
<1>2. IInv /\ [Next]_vars => IInv'
    BY StepKeeps
<1> QED
    BY <1>1, <1>2, PTL DEF Spec

\* No sector is ever cached twice, so find never misses a newer copy.
THEOREM SingleCopy == Spec => []NoAlias
<1>1. IInv => NoAlias
    BY DEF IInv
<1> QED
    BY <1>1, Coherence, PTL

\* A valid entry that writeback skips holds what the device holds.
THEOREM CleanIsSafe == Spec => []CleanMatches
<1>1. IInv => CleanMatches
    BY DEF IInv
<1> QED
    BY <1>1, Coherence, PTL

-----------------------------------------------------------------------------
(***************************************************************************)
(* The cache implements SectorStore.                                       *)
(***************************************************************************)
\* The view after a step is V when every cached entry holds V's sector and V
\* agrees with the device on the sectors that are not cached.
LEMMA ViewAfter ==
    ASSUME IInv', NEW V \in [Lba -> Data],
           \A i \in Entries : valid'[i] => data'[i] = V[lba'[i]],
           \A l \in Lba : V[l] = disk'[l] \/ \E i \in Entries : valid'[i] /\ lba'[i] = l
    PROVE  View' = V
<1>1. ASSUME NEW l \in Lba PROVE View'[l] = V[l]
  <2> DEFINE H(i) == valid'[i] /\ lba'[i] = l
             c == CHOOSE i \in Entries : H(i)
  <2>1. CASE \E i \in Entries : H(i)
    <3>1. c \in Entries /\ H(c)
        BY <2>1
    <3>2. data'[c] = V[l]
        BY <3>1
    <3>3. View'[l] = data'[c]
        BY <2>1 DEF View, Cached, Hit
    <3> QED
        BY <3>2, <3>3
  <2>2. CASE ~\E i \in Entries : H(i)
    <3>1. View'[l] = disk'[l]
        BY <2>2 DEF View, Cached, Hit
    <3> QED
        BY <2>2, <3>1
  <2> QED
    BY <2>1, <2>2
<1>2. View' = [l \in Lba |-> View'[l]]
    BY DEF View
<1> QED
    BY <1>1, <1>2

LEMMA ViewTyped == ASSUME IInv PROVE View \in [Lba -> Data]
<1>1. ASSUME NEW l \in Lba PROVE View[l] \in Data
  <2>1. CASE Cached(l)
    <3>1. PICK i \in Entries : Hit(i, l)
        BY <2>1 DEF Cached
    <3> QED
        BY <3>1, ViewOfCached DEF IInv, TypeOK
  <2>2. CASE ~Cached(l)
    BY <2>2, ViewOfUncached DEF IInv, TypeOK
  <2> QED
    BY <2>1, <2>2
<1> QED
    BY <1>1 DEF View

\* A step that only moves cached sectors to the device is invisible.
LEMMA WriteBackInvisible ==
    ASSUME IInv, IInv', UNCHANGED <<lba, data, valid>>,
           \A l \in Lba : disk'[l] \in {disk[l], View[l]}
    PROVE  View' = View
<1>1. View \in [Lba -> Data]
    BY ViewTyped
<1>2. ASSUME NEW i \in Entries, valid'[i] PROVE data'[i] = View[lba'[i]]
  <2>1. lba[i] \in Lba
    BY DEF IInv, TypeOK
  <2> QED
    BY <2>1, <1>2, ViewOfCached DEF Hit
<1>3. ASSUME NEW l \in Lba PROVE View[l] = disk'[l] \/ \E i \in Entries : valid'[i] /\ lba'[i] = l
    BY ViewOfUncached DEF Cached, Hit
<1> QED
    BY <1>1, <1>2, <1>3, ViewAfter

\* Installing d for sector l changes the view of that sector to d and no other.
LEMMA InstallView ==
    ASSUME IInv, IInv', NEW index \in Entries, NEW l \in Lba, NEW d \in Data, NEW b \in BOOLEAN,
           Install(index, l, d, b),
           \A i \in Entries : Hit(i, l) => i = index,
           disk' = Written(index) \/ (disk' = disk /\ lba[index] = l)
    PROVE  View' = [View EXCEPT ![l] = d]
<1> DEFINE V == [View EXCEPT ![l] = d]
<1>1. View \in [Lba -> Data] /\ V \in [Lba -> Data]
    BY ViewTyped
<1>2. ASSUME NEW i \in Entries, valid'[i] PROVE data'[i] = V[lba'[i]]
  <2>1. CASE i = index
    BY <1>1, <2>1 DEF Install, IInv, TypeOK
  <2>2. CASE i # index
    <3>1. valid[i] /\ lba'[i] = lba[i] /\ data'[i] = data[i] /\ lba[i] \in Lba /\ lba[i] # l
        BY <1>2, <2>2 DEF Install, IInv, TypeOK, Hit
    <3>2. View[lba[i]] = data[i]
        BY <3>1, ViewOfCached DEF Hit
    <3> QED
        BY <1>1, <3>1, <3>2
  <2> QED
    BY <2>1, <2>2
<1>3. ASSUME NEW m \in Lba PROVE V[m] = disk'[m] \/ \E i \in Entries : valid'[i] /\ lba'[i] = m
  <2>1. CASE m = l
    BY <2>1 DEF Install, IInv, TypeOK
  <2>2. CASE m # l /\ \E i \in Entries : i # index /\ Hit(i, m)
    BY <2>2 DEF Install, IInv, TypeOK, Hit
  <2>3. CASE m # l /\ ~\E i \in Entries : i # index /\ Hit(i, m)
    <3>1. V[m] = View[m]
        BY <1>1, <2>3
    <3>2. CASE Hit(index, m)
      <4>1. disk' = Written(index) /\ View[m] = data[index]
        BY <2>3, <3>2, ViewOfCached DEF Hit
      <4>2. Written(index)[m] = data[index]
        BY <3>2, WrittenFacts DEF Hit
      <4> QED
        BY <3>1, <4>1, <4>2
    <3>3. CASE ~Hit(index, m)
      <4>1. View[m] = disk[m]
        BY <2>3, <3>3, ViewOfUncached DEF Cached
      <4>2. disk'[m] = disk[m]
        BY <3>3, WrittenFacts DEF Hit
      <4> QED
        BY <3>1, <4>1, <4>2
    <3> QED
        BY <3>2, <3>3
  <2> QED
    BY <2>1, <2>2, <2>3
<1> QED
    BY <1>1, <1>2, <1>3, ViewAfter

LEMMA WriteBackFailsView ==
    ASSUME IInv, IInv', NEW index \in Entries, WriteBackFails(index)
    PROVE  View' = View /\ Store!Settle /\ ret' = Fault
<1>1. UNCHANGED <<lba, data, valid>> /\ ret' = Fault
    BY DEF WriteBackFails, entries
<1>2. \A l \in Lba : disk'[l] \in {disk[l], View[l]}
    BY WrittenFacts DEF WriteBackFails
<1>3. disk' \in [Lba -> Data]
    BY DEF IInv, TypeOK
<1> QED
    BY <1>1, <1>2, <1>3, WriteBackInvisible DEF Store!Settle

LEMMA ReadImplements ==
    ASSUME IInv, IInv', NEW l \in Lba, ReadHit(l) \/ ReadMiss(l)
    PROVE  Store!Read(l)
<1>0. disk' \in [Lba -> Data]
    BY DEF IInv, TypeOK
<1>1. CASE ReadHit(l)
  <2>1. PICK index \in Entries : Find(index, l) /\ ret' = Value(data[index])
    BY <1>1 DEF ReadHit
  <2>2. UNCHANGED <<lba, data, valid, dirty, disk>>
    BY <1>1 DEF ReadHit
  <2>3. View[l] = data[index]
    BY <2>1, ViewOfCached DEF Find
  <2>4. View' = View
    BY <2>2, WriteBackInvisible
  <2> QED
    BY <1>0, <2>1, <2>2, <2>3, <2>4 DEF Store!Read, Store!Settle, Store!Value, Value
<1>2. CASE ReadMiss(l)
  <2>1. PICK index \in Entries :
            \/ WriteBackFails(index)
            \/ /\ disk' = Written(index)
               /\ Install(index, l, Written(index)[l], FALSE)
               /\ ret' = Value(Written(index)[l])
            \/ /\ disk' = Written(index)
               /\ ret' = Fault
               /\ UNCHANGED <<lba, data, valid>>
    BY <1>2 DEF ReadMiss
  <2>2. ~Cached(l) /\ View[l] = disk[l]
    BY <1>2, ViewOfUncached DEF ReadMiss
  <2>3. CASE WriteBackFails(index)
    BY <2>3, WriteBackFailsView DEF Store!Read, Store!Fault, Fault
  <2>4. CASE /\ disk' = Written(index)
             /\ Install(index, l, Written(index)[l], FALSE)
             /\ ret' = Value(Written(index)[l])
    <3>1. Written(index)[l] = View[l] /\ Written(index)[l] \in Data
        BY <2>2, WrittenFacts
    <3>2. \A i \in Entries : Hit(i, l) => i = index
        BY <2>2 DEF Cached
    <3>3. View' = [View EXCEPT ![l] = Written(index)[l]]
        BY <2>4, <3>1, <3>2, InstallView
    <3>4. View' = View
        BY <3>1, <3>3, ViewTyped
    <3>5. Store!Settle
        BY <1>0, <2>4, WrittenFacts DEF Store!Settle
    <3> QED
        BY <2>4, <3>1, <3>4, <3>5 DEF Store!Read, Store!Value, Value
  <2>5. CASE /\ disk' = Written(index)
             /\ ret' = Fault
             /\ UNCHANGED <<lba, data, valid>>
    <3>1. Store!Settle
        BY <1>0, <2>5, WrittenFacts DEF Store!Settle
    <3>2. View' = View
        BY <2>5, WrittenFacts, WriteBackInvisible
    <3> QED
        BY <2>5, <3>1, <3>2 DEF Store!Read, Store!Fault, Fault
  <2> QED
    BY <2>1, <2>3, <2>4, <2>5
<1> QED
    BY <1>1, <1>2

LEMMA WriteImplements ==
    ASSUME IInv, IInv', NEW l \in Lba, NEW d \in Data, WriteHit(l, d) \/ WriteMiss(l, d)
    PROVE  Store!Write(l, d)
<1>0. disk' \in [Lba -> Data]
    BY DEF IInv, TypeOK
<1>1. CASE WriteHit(l, d)
  <2>1. PICK index \in Entries : Find(index, l) /\ Install(index, l, d, TRUE)
    BY <1>1 DEF WriteHit
  <2>2. ret' = Done /\ disk' = disk
    BY <1>1 DEF WriteHit
  <2>3. lba[index] = l /\ \A i \in Entries : Hit(i, l) => i = index
    BY <2>1 DEF Find, Hit, IInv, NoAlias
  <2>4. /\ Install(index, l, d, TRUE) /\ TRUE \in BOOLEAN
        /\ disk' = Written(index) \/ (disk' = disk /\ lba[index] = l)
    BY <2>1, <2>2, <2>3
  <2>5. View' = [View EXCEPT ![l] = d]
    BY <2>3, <2>4, InstallView, Zenon
  <2> QED
    BY <1>0, <2>2, <2>5 DEF Store!Write, Store!Settle, Store!Done, Done
<1>2. CASE WriteMiss(l, d)
  <2>1. PICK index \in Entries :
            \/ WriteBackFails(index)
            \/ /\ disk' = Written(index)
               /\ Install(index, l, d, TRUE)
               /\ ret' = Done
    BY <1>2 DEF WriteMiss
  <2>2. \A i \in Entries : Hit(i, l) => i = index
    BY <1>2 DEF WriteMiss, Cached
  <2>3. CASE WriteBackFails(index)
    BY <2>3, WriteBackFailsView DEF Store!Write, Store!Fault, Fault
  <2>4. CASE /\ disk' = Written(index)
             /\ Install(index, l, d, TRUE)
             /\ ret' = Done
    <3>0. disk' = Written(index) /\ Install(index, l, d, TRUE)
        BY <2>4
    <3>1. View' = [View EXCEPT ![l] = d]
        BY <2>2, <3>0, InstallView
    <3>2. Store!Settle
        BY <1>0, <2>4, WrittenFacts DEF Store!Settle
    <3> QED
        BY <2>4, <3>1, <3>2 DEF Store!Write, Store!Done, Done
  <2> QED
    BY <2>1, <2>3, <2>4
<1> QED
    BY <1>1, <1>2

LEMMA FlushImplements ==
    ASSUME IInv, IInv', Flush \/ \E k \in Entries : FlushFails(k)
    PROVE  Store!Flush
<1>0. disk' \in [Lba -> Data]
    BY DEF IInv, TypeOK
<1>1. CASE Flush
  <2>1. N \in Int /\ \A i \in Entries : i < N
    BY BlockCacheAssumption DEF BlockCacheAssumption, Entries
  <2>2. disk' = Drained(N) /\ ret' \in {Done, Fault} /\ UNCHANGED <<lba, data, valid>>
    BY <1>1 DEF Flush
  <2>3. View' = View
    BY <2>1, <2>2, DrainedFacts, WriteBackInvisible
  <2>4. ASSUME NEW l \in Lba PROVE disk'[l] = View[l]
    <3>1. CASE Cached(l)
      <4>1. PICK i \in Entries : Hit(i, l)
        BY <3>1 DEF Cached
      <4>2. View[l] = data[i]
        BY <4>1, ViewOfCached
      <4>3. Drained(N)[l] = data[i]
        BY <4>1, <2>1, DrainedFacts DEF Hit
      <4> QED
        BY <2>2, <4>2, <4>3
    <3>2. CASE ~Cached(l)
      <4>1. Drained(N)[l] \in {disk[l], View[l]}
        BY <2>1, DrainedFacts
      <4> QED
        BY <2>2, <3>2, <4>1, ViewOfUncached
    <3> QED
        BY <3>1, <3>2
  <2>5. disk' = View
    BY <1>0, <2>4, ViewTyped
  <2> QED
    BY <1>0, <2>2, <2>3, <2>4, <2>5
       DEF Store!Flush, Store!Settle, Store!Done, Store!Fault, Done, Fault
<1>2. ASSUME NEW k \in Entries, FlushFails(k) PROVE Store!Flush
  <2>1. k \in Int /\ k + 1 \in Int
    BY BlockCacheAssumption DEF BlockCacheAssumption, Entries
  <2>2. disk' \in {Drained(k), Drained(k + 1)} /\ ret' = Fault /\ UNCHANGED <<lba, data, valid>>
    BY <1>2 DEF FlushFails
  <2>3. \A l \in Lba : disk'[l] \in {disk[l], View[l]}
    BY <2>1, <2>2, DrainedFacts
  <2>4. View' = View
    BY <2>2, <2>3, WriteBackInvisible
  <2> QED
    BY <1>0, <2>2, <2>3, <2>4 DEF Store!Flush, Store!Settle, Store!Fault, Fault
<1> QED
    BY <1>1, <1>2

\* Every behaviour of the cache, with any of its device accesses failing and
\* power lost between any two operations, is one of the sector store's.
THEOREM CacheIsADevice == Spec => StoreSpec
<1>1. Init => Store!Init
  <2> SUFFICES ASSUME Init PROVE Store!Init
    OBVIOUS
  <2>1. \A l \in Lba : ~Cached(l)
    BY DEF Init, Cached, Hit
  <2>2. View = [l \in Lba |-> disk[l]]
    BY <2>1 DEF View
  <2>3. View = disk
    BY <2>2 DEF Init
  <2> QED
    BY <2>3 DEF Init, Store!Init, Store!None, None
<1>2. IInv /\ IInv' /\ [Next]_vars => [Store!Next]_(Store!vars)
  <2> SUFFICES ASSUME IInv, IInv', [Next]_vars PROVE [Store!Next]_(Store!vars)
    OBVIOUS
  <2>1. ASSUME NEW l \in Lba, ReadHit(l) \/ ReadMiss(l) PROVE Store!Next
    BY <2>1, ReadImplements DEF Store!Next
  <2>2. ASSUME NEW l \in Lba, NEW d \in Data, WriteHit(l, d) \/ WriteMiss(l, d) PROVE Store!Next
    BY <2>2, WriteImplements DEF Store!Next
  <2>3. CASE WriteRefused
    <3>1. UNCHANGED <<lba, data, valid, disk>> /\ ret' = Fault
        BY <2>3 DEF WriteRefused, entries
    <3>2. View' = View
        BY <3>1, WriteBackInvisible
    <3>3. PICK l \in Lba, d \in Data : TRUE
        BY BlockCacheAssumption DEF BlockCacheAssumption
    <3>4. Store!Settle
        BY <3>1 DEF Store!Settle, IInv, TypeOK
    <3>5. Store!Write(l, d)
        BY <3>1, <3>2, <3>4 DEF Store!Write, Store!Fault, Fault
    <3> QED
        BY <3>5 DEF Store!Next
  <2>4. CASE Flush \/ \E k \in Entries : FlushFails(k)
    BY <2>4, FlushImplements DEF Store!Next
  <2>5. CASE PowerLoss
    <3>1. disk \in [Lba -> Data] /\ disk' = disk /\ ret' = None
        BY <2>5 DEF PowerLoss, IInv, TypeOK
    <3>2. \A i \in Entries : ~valid'[i]
        BY <2>5 DEF PowerLoss
    <3>3. View' = disk
        BY <3>1, <3>2, ViewAfter
    <3> QED
        BY <3>1, <3>3 DEF Store!Next, Store!PowerLoss, Store!None, None
  <2>6. CASE UNCHANGED vars
    <3>1. UNCHANGED <<lba, data, valid, disk>> /\ ret' = ret
        BY <2>6 DEF vars, entries
    <3>2. View' = View
        BY <3>1, WriteBackInvisible
    <3> QED
        BY <3>1, <3>2 DEF Store!vars
  <2> QED
    BY <2>1, <2>2, <2>3, <2>4, <2>5, <2>6 DEF Next
<1> QED
    BY <1>1, <1>2, Coherence, PTL DEF Spec, StoreSpec, Store!Spec
=============================================================================
