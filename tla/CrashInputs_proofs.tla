-------------------------- MODULE CrashInputs_proofs --------------------------
(***************************************************************************)
(* What the recorder reads of a process that has crashed is there and      *)
(* true, wherever the other threads were stopped: proofs for the cache of  *)
(* thread names, the cache of deallocated objects, the application's       *)
(* settings, the copying of memory, the watchdog whose alarm is one of the *)
(* events that are reported, and the application state monitor.  They      *)
(* share no state; each has a section, and in it the inductive invariant   *)
(* and the lemma that every action keeps it.                               *)
(***************************************************************************)
EXTENDS AppState, ThreadCache, ZombieCache, UserData, MemoryCopy, Watchdog, FiniteSetTheorems, TLAPS

-----------------------------------------------------------------------------
(* The cache of thread names *)

\* The count fits the arrays shown and, between the two assignments of the count,
\* the arrays that are being swapped in; the pointers are swapped in their order;
\* only arrays that no pointer shows any more are freed.
CacheInv ==
    /\ count \in Nat /\ live \in Nat
    /\ array \in [Kinds -> Arrays] /\ fresh \in Arrays
    /\ step \in Steps /\ swapped \in 0..4
    /\ live <= fresh.made
    /\ CrashReadsValid
    /\ step = "swapping" => /\ count <= Len(fresh.of)
                            /\ \A j \in 1..swapped : array[Pointers[j]] = fresh
    /\ step = "published" => \A kind \in Kinds : array[kind] = fresh

\* A list of threads has a length, and fits where it says it does.
LEMMA ListLength == \A list \in Lists : Len(list) \in Nat
<1> SUFFICES ASSUME NEW list \in Lists PROVE Len(list) \in Nat
    OBVIOUS
<1>1. PICK n \in 0..MaxThreads : list \in [1..n -> Threads]
    BY DEF Lists
<1>2. n \in Nat
    BY ThreadCacheAssumption
<1>3. list \in Seq(Threads)
    BY <1>1, <1>2
<1> QED BY <1>3

LEMMA CacheInitInv == CacheInit => CacheInv
<1> SUFFICES ASSUME CacheInit PROVE CacheInv
    OBVIOUS
<1>1. <<>> \in Lists
  <2>1. 0 \in 0..MaxThreads
      BY ThreadCacheAssumption
  <2>2. <<>> \in [1..0 -> Threads]
      OBVIOUS
  <2> QED BY <2>1, <2>2 DEF Lists
<1>2. NoArrays \in Arrays
    BY <1>1 DEF NoArrays, Arrays
<1>3. NoArrays.made = 0 /\ Len(NoArrays.of) = 0
    BY DEF NoArrays
<1> QED BY <1>2, <1>3 DEF CacheInit, CacheInv, CrashReadsValid, Steps

LEMMA CacheStepInv == CacheInv /\ [CacheNext]_cacheVars => CacheInv'
<1> SUFFICES ASSUME CacheInv, [CacheNext]_cacheVars PROVE CacheInv'
    OBVIOUS
<1> USE DEF CacheInv, CrashReadsValid
<1>0. \A a \in Arrays : a.made \in Nat /\ a.of \in Lists /\ Len(a.of) \in Nat
    BY ListLength DEF Arrays
<1>1. CASE CheckSemaphore
    BY <1>1 DEF CheckSemaphore, Steps
<1>2. ASSUME NEW threads \in Lists, ListThreads(threads) PROVE CacheInv'
  <2>1. fresh' \in Arrays /\ fresh'.made = fresh.made + 1
      BY <1>0, <1>2 DEF ListThreads, Arrays
  <2>2. live' <= fresh'.made
      BY <1>0, <2>1, <1>2 DEF ListThreads
  <2> QED BY <2>1, <2>2, <1>2 DEF ListThreads, Steps
<1>3. CASE TrimCount
  <2>1. count' \in Nat /\ count' <= count /\ count' <= Len(fresh.of)
      BY <1>0, <1>3 DEF TrimCount, Trimmed, Smaller
  <2>2. \A kind \in Kinds : count' <= Len(array[kind].of)
      BY <2>1, <1>0
  <2> QED BY <2>1, <2>2, <1>3 DEF TrimCount, Steps
<1>4. CASE SwapPointer
  <2>1. Pointers[swapped + 1] \in Kinds
      BY <1>4 DEF SwapPointer, Pointers, Kinds
  <2>2. array' \in [Kinds -> Arrays] /\ swapped' \in 0..4
      BY <2>1, <1>4 DEF SwapPointer
  <2>3. \A kind \in Kinds : array'[kind] = array[kind] \/ array'[kind] = fresh
      BY <2>1, <1>4 DEF SwapPointer
  <2>4. \A j \in 1..swapped' : array'[Pointers[j]] = fresh
    <3> SUFFICES ASSUME NEW j \in 1..swapped' PROVE array'[Pointers[j]] = fresh
        OBVIOUS
    <3>1. CASE j = swapped + 1
        BY <3>1, <2>1, <1>4 DEF SwapPointer
    <3>2. CASE j \in 1..swapped
      <4>1. Pointers[j] \in Kinds
          BY <3>2, <1>4 DEF SwapPointer, Pointers, Kinds
      <4> QED BY <3>2, <4>1, <2>1, <1>4 DEF SwapPointer
    <3> QED BY <3>1, <3>2, <1>4 DEF SwapPointer
  <2>5. CrashReadsValid'
      BY <2>3, <1>4 DEF SwapPointer
  <2> QED BY <2>2, <2>4, <2>5, <1>4 DEF SwapPointer
<1>5. CASE PublishCount
  <2>1. \A kind \in Kinds : array[kind] = fresh
    <3>1. \A kind \in Kinds : \E j \in 1..4 : Pointers[j] = kind
      <4>1. Pointers[1] = "mach" /\ Pointers[2] = "pthread" /\ Pointers[3] = "names" /\ Pointers[4] = "queues"
          BY DEF Pointers
      <4>2. 1 \in 1..4 /\ 2 \in 1..4 /\ 3 \in 1..4 /\ 4 \in 1..4
          OBVIOUS
      <4> QED BY <4>1, <4>2 DEF Kinds
    <3> QED BY <3>1, <1>5 DEF PublishCount
  <2> QED BY <2>1, <1>0, <1>5 DEF PublishCount, Steps
<1>6. CASE FreeOld
    BY <1>0, <1>6 DEF FreeOld, Steps
<1>7. ASSUME NEW r \in Reporters, Report(r) PROVE CacheInv'
  <2>1. UNCHANGED updater
      BY <1>7 DEF Report, Freeze, Unfreeze, LookUp, CheckIndex, CompareThread, FetchName, UseName
  <2> QED BY <2>1 DEF updater
<1>8. CASE UNCHANGED cacheVars
    BY <1>8 DEF cacheVars
<1> QED BY <1>1, <1>2, <1>3, <1>4, <1>5, <1>6, <1>7, <1>8 DEF CacheNext, Update

\* The names shown are those of the threads shown, between the two swaps excepted.
NamesInv == MixedUp \/ array["names"] = array["mach"]

LEMMA NamesStepInv == CacheInv /\ NamesInv /\ [CacheNext]_cacheVars => NamesInv'
<1> SUFFICES ASSUME CacheInv, NamesInv, [CacheNext]_cacheVars PROVE NamesInv'
    OBVIOUS
<1> USE DEF NamesInv, MixedUp
<1>1. CASE CheckSemaphore
    BY <1>1 DEF CheckSemaphore
<1>2. ASSUME NEW threads \in Lists, ListThreads(threads) PROVE NamesInv'
    BY <1>2 DEF ListThreads
<1>3. CASE TrimCount
    BY <1>3 DEF TrimCount
<1>4. CASE SwapPointer
  <2>1. swapped \in 0..3
      BY <1>4 DEF SwapPointer, CacheInv
  <2>2. swapped + 1 = 1 \/ swapped + 1 = 2 \/ swapped + 1 = 3 \/ swapped + 1 = 4
      BY <2>1
  <2>3. CASE swapped = 0 \/ swapped = 1
      BY <2>3, <1>4 DEF SwapPointer
  <2>4. CASE swapped = 2
    <3>1. Pointers[swapped + 1] = "names" /\ Pointers[1] = "mach"
        BY <2>4 DEF Pointers
    <3>2. array["mach"] = fresh
        BY <3>1, <2>4, <1>4 DEF SwapPointer, CacheInv
    <3> QED BY <3>1, <3>2, <1>4 DEF SwapPointer, CacheInv, Kinds
  <2>5. CASE swapped = 3
    <3>1. Pointers[swapped + 1] = "queues"
        BY <2>5 DEF Pointers
    <3> QED BY <3>1, <2>5, <1>4 DEF SwapPointer, CacheInv, Kinds
  <2> QED BY <2>1, <2>3, <2>4, <2>5
<1>5. CASE PublishCount
    BY <1>5 DEF PublishCount
<1>6. CASE FreeOld
    BY <1>6 DEF FreeOld
<1>7. ASSUME NEW r \in Reporters, Report(r) PROVE NamesInv'
  <2>1. UNCHANGED updater
      BY <1>7 DEF Report, Freeze, Unfreeze, LookUp, CheckIndex, CompareThread, FetchName, UseName
  <2> QED BY <2>1 DEF updater
<1>8. CASE UNCHANGED cacheVars
    BY <1>8 DEF cacheVars
<1> QED BY <1>1, <1>2, <1>3, <1>4, <1>5, <1>6, <1>7, <1>8 DEF CacheNext, Update

\* Wherever a crash suspends the updater, every index below the count is inside all
\* four arrays, none of which is freed: for any threads, updates and reporters.
THEOREM CrashReadsAlwaysValid == CacheSpec => []CrashReadsValid
<1>1. CacheInv => CrashReadsValid
    BY DEF CacheInv
<1> QED BY CacheInitInv, CacheStepInv, <1>1, PTL DEF CacheSpec

\* Wherever a crash suspends the updater, the name found for a thread is its own,
\* but for the moment between the swaps of the threads and of the names.
THEOREM CrashNamesAlwaysRight == CacheSpec => []CrashNamesRight
<1>1. CacheInit => NamesInv
    BY DEF CacheInit, NamesInv, Kinds
<1>2. NamesInv => CrashNamesRight
    BY DEF NamesInv, CrashNamesRight
<1> QED BY CacheInitInv, CacheStepInv, NamesStepInv, <1>1, <1>2, PTL DEF CacheSpec

\* A report that froze the cache while no update was under way: the updater sleeps
\* until it unfreezes it, what was loaded of the pointers is what they show, and
\* what is found in them is there, and is the thread's.
Searching(r) == reading[r].at \in {"check", "compare", "fetch", "use"}
ReadsRight(r) ==
    /\ reading[r].at # "fault"
    /\ Searching(r) => step = "sleeping" /\ reading[r].held = array
    /\ reading[r].at \in {"compare", "fetch"} => reading[r].index <= count
    /\ reading[r].at = "fetch" => array["mach"].of[reading[r].index] = reading[r].thread
    /\ reading[r].at = "use" => /\ reading[r].name.of = reading[r].thread
                                /\ reading[r].name.made >= live

\* Every report that is not outside has raised the semaphore once.
Frozen == {r \in Reporters : reading[r].at # "out"}
ReadersType ==
    /\ oldCount \in Nat /\ semaphore \in Nat /\ reading \in [Reporters -> Reading]
    /\ \A r \in Reporters : reading[r].index # 0
FrozenCounted == IsFiniteSet(Frozen) /\ Cardinality(Frozen) <= semaphore
ReadersInv ==
    /\ ReadersType /\ FrozenCounted
    /\ \A r \in Reporters : reading[r].overlaps \/ ReadsRight(r)

LEMMA NotReadingIs == NotReading \in Reading /\ Done \in Reading
<1>1. <<>> \in Lists
  <2>1. 0 \in 0..MaxThreads /\ <<>> \in [1..0 -> Threads]
      BY ThreadCacheAssumption
  <2> QED BY <2>1 DEF Lists
<1>2. NoArrays \in Arrays
    BY <1>1 DEF NoArrays, Arrays
<1> QED BY <1>2 DEF NotReading, Done, Reading

\* A thread at an index of an array is one of the threads.
LEMMA ListedThread ==
    ASSUME NEW a \in Arrays, NEW i \in Nat \ {0}, i <= Len(a.of)
    PROVE  a.of[i] \in Threads
<1>1. PICK n \in 0..MaxThreads : a.of \in [1..n -> Threads]
    BY DEF Arrays, Lists
<1>2. n \in Nat
    BY ThreadCacheAssumption
<1>3. Len(a.of) = n
    BY <1>1, <1>2
<1> QED BY <1>1, <1>2, <1>3

\* A step of a search moves it, or makes it look at the next index.
LEMMA Moved ==
    ASSUME NEW e \in Reading, NEW at \in {"check", "compare", "fetch", "use", "fault", "frozen"},
           NEW f, f = [e EXCEPT !.at = at]
    PROVE  /\ f \in Reading /\ f.at = at /\ f.index = e.index /\ f.held = e.held
           /\ f.overlaps = e.overlaps /\ f.thread = e.thread /\ f.name = e.name
BY DEF Reading

MovedOn(e, i) == [e EXCEPT !.at = "check", !.index = i]
LEMMA MovedOnIs ==
    ASSUME NEW e \in Reading, NEW i \in Nat
    PROVE  /\ MovedOn(e, i) \in Reading /\ MovedOn(e, i).at = "check" /\ MovedOn(e, i).index = i
           /\ MovedOn(e, i).held = e.held /\ MovedOn(e, i).overlaps = e.overlaps
           /\ MovedOn(e, i).thread = e.thread
BY DEF Reading, MovedOn

Named(e, name) == [e EXCEPT !.at = "use", !.name = name]
LEMMA NamedIs ==
    ASSUME NEW e \in Reading, NEW name \in [made : Nat, of : Threads]
    PROVE  /\ Named(e, name) \in Reading /\ Named(e, name).at = "use" /\ Named(e, name).name = name
           /\ Named(e, name).index = e.index /\ Named(e, name).held = e.held
           /\ Named(e, name).overlaps = e.overlaps /\ Named(e, name).thread = e.thread
BY DEF Reading, Named

Begun(t, held, overlaps) ==
    [NotReading EXCEPT !.at = "check", !.thread = t, !.held = held, !.overlaps = overlaps]
LEMMA BegunIs ==
    ASSUME NEW t \in Threads, NEW held \in [Kinds -> Arrays], NEW overlaps \in BOOLEAN
    PROVE  /\ Begun(t, held, overlaps) \in Reading /\ Begun(t, held, overlaps).at = "check"
           /\ Begun(t, held, overlaps).index = 1 /\ Begun(t, held, overlaps).held = held
           /\ Begun(t, held, overlaps).overlaps = overlaps
<1>1. NotReading \in Reading /\ NotReading.index = 1
    BY NotReadingIs DEF NotReading
<1>2. Begun(t, held, overlaps) \in Reading
    BY <1>1 DEF Reading, Begun
<1>3. /\ Begun(t, held, overlaps).at = "check" /\ Begun(t, held, overlaps).held = held
      /\ Begun(t, held, overlaps).overlaps = overlaps /\ Begun(t, held, overlaps).index = 1
    BY DEF NotReading, Begun
<1> QED BY <1>2, <1>3

\* An update starts only when no report holds the cache, and so changes nothing
\* that a report which froze it in time is reading.
LEMMA UpdateKeepsReaders ==
    CacheInv /\ ReadersInv /\ Update => ReadersInv'
<1> SUFFICES ASSUME CacheInv, ReadersInv, Update PROVE ReadersInv'
    OBVIOUS
<1>1. UNCHANGED <<semaphore, reading>>
    BY DEF Update, CheckSemaphore, ListThreads, TrimCount, SwapPointer, PublishCount, FreeOld
<1>2. oldCount' \in Nat
    BY DEF Update, CheckSemaphore, ListThreads, TrimCount, SwapPointer, PublishCount, FreeOld,
           CacheInv, ReadersInv, ReadersType
<1>3. Frozen' = Frozen
    BY <1>1 DEF Frozen
<1>4. ASSUME NEW r \in Reporters, ReadsRight(r) PROVE ~Searching(r)
  <2>1. CASE step = "sleeping"
    <3>1. semaphore <= 0 /\ semaphore \in Nat /\ IsFiniteSet(Frozen) /\ Cardinality(Frozen) <= semaphore
        BY <2>1 DEF Update, CheckSemaphore, ListThreads, TrimCount, SwapPointer, PublishCount,
                    FreeOld, Unfrozen, ReadersInv, ReadersType, FrozenCounted
    <3>2. Cardinality(Frozen) \in Nat
        BY <3>1, FS_CardinalityType
    <3>3. Cardinality(Frozen) = 0
        BY <3>1, <3>2
    <3>4. Frozen = {}
        BY <3>1, <3>3, FS_EmptySet
    <3> QED BY <3>4 DEF Frozen, Searching
  <2> QED BY <1>4, <2>1 DEF ReadsRight
<1>5. \A r \in Reporters : ReadsRight(r) => ReadsRight(r)'
    BY <1>1, <1>4 DEF ReadsRight, Searching
<1>6. FrozenCounted' /\ ReadersType'
    BY <1>1, <1>2, <1>3 DEF ReadersInv, ReadersType, FrozenCounted
<1> QED BY <1>1, <1>5, <1>6 DEF ReadersInv

\* A report of its own changes only what it is reading itself.
LEMMA ReportKeepsReaders ==
    ASSUME CacheInv, NamesInv, ReadersInv, NEW r \in Reporters, Report(r)
    PROVE  ReadersInv'
<1>0. /\ UNCHANGED updater /\ reading \in [Reporters -> Reading] /\ reading[r] \in Reading
      /\ reading[r].index # 0 /\ semaphore \in Nat /\ oldCount' \in Nat
      /\ reading' = [reading EXCEPT ![r] = reading'[r]]
  <2>1. UNCHANGED updater
      BY DEF Report, Freeze, Unfreeze, LookUp, CheckIndex, CompareThread, FetchName, UseName, updater
  <2>2. /\ reading \in [Reporters -> Reading] /\ reading[r] \in Reading
        /\ reading[r].index # 0 /\ semaphore \in Nat /\ oldCount \in Nat
      BY DEF ReadersInv, ReadersType
  <2> DEFINE Own == reading' = [reading EXCEPT ![r] = reading'[r]]
  <2>3. ASSUME NEW e, reading' = [reading EXCEPT ![r] = e] PROVE Own
      BY <2>2, <2>3
  <2>4. ASSUME Freeze(r) PROVE Own
      BY <2>3, <2>4, Zenon DEF Freeze
  <2>5. ASSUME Unfreeze(r) PROVE Own
      BY <2>3, <2>5, Zenon DEF Unfreeze
  <2>6. ASSUME \E t \in Threads : LookUp(r, t) PROVE Own
      BY <2>3, <2>6, Zenon DEF LookUp
  <2>7. ASSUME CheckIndex(r) PROVE Own
    <3>1. CASE reading[r].index <= count
        BY <2>3, <2>7, <3>1, Zenon DEF CheckIndex
    <3>2. CASE ~(reading[r].index <= count)
        BY <2>3, <2>7, <3>2, Zenon DEF CheckIndex, Found
    <3> QED BY <3>1, <3>2
  <2>8. ASSUME UseName(r) PROVE Own
    <3>1. CASE reading[r].name.made >= live
        BY <2>3, <2>8, <3>1, Zenon DEF UseName, Found
    <3>2. CASE ~(reading[r].name.made >= live)
        BY <2>3, <2>8, <3>2, Zenon DEF UseName
    <3> QED BY <3>1, <3>2
  <2>9. ASSUME CompareThread(r) PROVE Own
    <3>1. PICK a \in Loaded(r, "mach"), i \in {reading[r].index} :
          reading' = CASE ~Readable(a, i) -> [reading EXCEPT ![r].at = "fault"]
                       [] Readable(a, i) /\ a.of[i] = reading[r].thread -> [reading EXCEPT ![r].at = "fetch"]
                       [] OTHER -> [reading EXCEPT ![r].at = "check", ![r].index = i + 1]
        BY <2>9, Zenon DEF CompareThread
    <3>2. CASE ~Readable(a, i)
        BY <2>3, <3>1, <3>2, Zenon
    <3>3. CASE Readable(a, i) /\ a.of[i] = reading[r].thread
        BY <2>3, <3>1, <3>3, Zenon
    <3>4. CASE Readable(a, i) /\ a.of[i] # reading[r].thread
        BY <2>3, <3>1, <3>4, Zenon
    <3> QED BY <3>2, <3>3, <3>4, Zenon
  <2>10. ASSUME \E kind \in {"names", "queues"} : FetchName(r, kind) PROVE Own
      BY <2>3, <2>10, Zenon DEF FetchName, Found
  <2> QED BY <2>1, <2>2, <2>4, <2>5, <2>6, <2>7, <2>8, <2>9, <2>10 DEF Report, updater
<1>1. /\ count \in Nat /\ array \in [Kinds -> Arrays] /\ CrashReadsValid /\ live \in Nat
      /\ \A kind \in Kinds : array[kind].made \in Nat /\ Len(array[kind].of) \in Nat
    BY ListLength DEF CacheInv, Arrays
<1>13. reading[r] \in Reading
    BY <1>0
<1>14. array \in [Kinds -> Arrays]
    BY <1>1
<1>2. ASSUME reading'[r] \in Reading, reading'[r].index # 0, FrozenCounted',
             reading'[r].overlaps \/ ReadsRight(r)'
      PROVE  ReadersInv'
  <2>1. \A q \in Reporters \ {r} : reading'[q] = reading[q]
      BY <1>0
  <2>2. reading' \in [Reporters -> Reading]
      BY <1>0, <1>2
  <2>3. \A q \in Reporters \ {r} : reading'[q].overlaps \/ ReadsRight(q)'
    <3> SUFFICES ASSUME NEW q \in Reporters \ {r}, ~reading'[q].overlaps PROVE ReadsRight(q)'
        OBVIOUS
    <3>1. ReadsRight(q) /\ reading'[q] = reading[q]
        BY <2>1 DEF ReadersInv
    <3>2. UNCHANGED <<step, array, count, live>>
        BY <1>0 DEF updater
    <3> QED BY <3>1, <3>2, Zenon DEF ReadsRight, Searching
  <2>4. semaphore' \in Nat
    <3>1. semaphore' = semaphore \/ semaphore' = semaphore + 1 \/ semaphore' = Released
        BY Zenon DEF Report, Freeze, Unfreeze, LookUp, CheckIndex, CompareThread, FetchName, UseName
    <3> QED BY <1>0, <3>1 DEF Released
  <2> QED BY <1>0, <1>2, <2>1, <2>2, <2>3, <2>4 DEF ReadersInv, ReadersType
<1>3. ASSUME semaphore' = semaphore, reading[r].at # "out", reading'[r].at # "out" PROVE FrozenCounted'
  <2>1. Frozen' = Frozen
      BY <1>0, <1>3 DEF Frozen
  <2> QED BY <1>3, <2>1 DEF ReadersInv, FrozenCounted
<1>4. CASE Freeze(r)
  <2>1. reading'[r] = [reading[r] EXCEPT !.at = "frozen"] /\ reading[r].at = "out"
        /\ semaphore' = semaphore + 1
      BY <1>4, <1>0 DEF Freeze
  <2>2. reading'[r] \in Reading /\ reading'[r].index # 0 /\ reading'[r].at = "frozen"
      BY <1>0, <2>1 DEF Reading
  <2>3. FrozenCounted'
    <3>1. Frozen' = Frozen \cup {r} /\ r \notin Frozen
        BY <1>0, <2>1, <2>2 DEF Frozen
    <3>2. /\ IsFiniteSet(Frozen) /\ Cardinality(Frozen) <= semaphore /\ Cardinality(Frozen) \in Nat
        BY FS_CardinalityType DEF ReadersInv, FrozenCounted
    <3>3. IsFiniteSet(Frozen') /\ Cardinality(Frozen') = Cardinality(Frozen) + 1
        BY <3>1, <3>2, FS_AddElement
    <3> QED BY <1>0, <2>1, <3>2, <3>3 DEF FrozenCounted
  <2>4. ReadsRight(r)'
      BY <2>2 DEF ReadsRight, Searching
  <2> QED BY <1>2, <2>2, <2>3, <2>4
<1>5. CASE Unfreeze(r)
  <2>1. reading'[r] = NotReading /\ reading[r].at = "frozen" /\ semaphore' = Released
      BY <1>5, <1>0 DEF Unfreeze
  <2>2. reading'[r] \in Reading /\ reading'[r].index # 0 /\ reading'[r].at = "out"
      BY <2>1, NotReadingIs DEF NotReading
  <2>3. FrozenCounted'
    <3>1. Frozen' = Frozen \ {r} /\ r \in Frozen
        BY <1>0, <2>1, <2>2 DEF Frozen
    <3>2. /\ IsFiniteSet(Frozen) /\ Cardinality(Frozen) <= semaphore /\ Cardinality(Frozen) \in Nat
        BY FS_CardinalityType DEF ReadersInv, FrozenCounted
    <3>3. IsFiniteSet(Frozen') /\ Cardinality(Frozen') = Cardinality(Frozen) - 1
        BY <3>1, <3>2, FS_RemoveElement
    <3>4. Cardinality(Frozen) # 0
        BY <3>1, <3>2, FS_EmptySet
    <3>5. semaphore' = semaphore - 1
        BY <1>0, <2>1, <3>2, <3>4 DEF Released
    <3> QED BY <1>0, <3>2, <3>3, <3>5 DEF FrozenCounted
  <2>4. ReadsRight(r)'
      BY <2>2 DEF ReadsRight, Searching
  <2> QED BY <1>2, <2>2, <2>3, <2>4
<1>6. ASSUME NEW t \in Threads, LookUp(r, t) PROVE ReadersInv'
  <2>1. /\ reading'[r] = [NotReading EXCEPT !.at = "check", !.thread = t, !.held = array,
                                            !.overlaps = step # "sleeping"]
        /\ reading[r].at = "frozen" /\ semaphore' = semaphore
      BY <1>6, <1>0 DEF LookUp
  <2>2. reading'[r] \in Reading /\ reading'[r].index # 0 /\ reading'[r].at = "check"
    <3> DEFINE late == step # "sleeping"
    <3>1. late \in BOOLEAN
        OBVIOUS
    <3>3. reading'[r] = Begun(t, array, late)
        BY <2>1 DEF Begun
    <3> HIDE DEF late
    <3>2. reading'[r] \in Reading /\ reading'[r].index = 1 /\ reading'[r].at = "check"
        BY <1>14, <3>1, <3>3, BegunIs
    <3> QED BY <3>2
  <2>3. reading'[r].held = array /\ (reading'[r].overlaps \/ step = "sleeping")
      BY <2>1 DEF NotReading
  <2>4. reading'[r].overlaps \/ ReadsRight(r)'
      BY <1>0, <2>2, <2>3 DEF ReadsRight, Searching, updater
  <2> QED BY <1>2, <1>3, <2>1, <2>2, <2>4
\* Back to the frozen cache, with nothing found.
<1>7. ASSUME reading'[r] = Done, reading[r].at # "out", semaphore' = semaphore PROVE ReadersInv'
  <2>1. reading'[r] \in Reading /\ reading'[r].index # 0 /\ reading'[r].at = "frozen"
      BY <1>7, NotReadingIs DEF Done, NotReading
  <2> QED BY <1>2, <1>3, <1>7, <2>1 DEF ReadsRight, Searching
<1>8. CASE CheckIndex(r)
  <2>1. /\ reading[r].at = "check" /\ semaphore' = semaphore
        /\ \/ reading[r].index <= count /\ reading'[r] = [reading[r] EXCEPT !.at = "compare"]
           \/ reading'[r] = Done
      BY <1>8, <1>0 DEF CheckIndex, Found
  <2>2. CASE reading[r].index <= count /\ reading'[r] = [reading[r] EXCEPT !.at = "compare"]
    <3>1. reading'[r] \in Reading /\ reading'[r].index # 0 /\ reading'[r].at = "compare"
        BY <1>0, <2>2 DEF Reading
    <3>2. reading'[r].overlaps \/ ReadsRight(r)'
        BY <1>0, <2>1, <2>2, <3>1 DEF ReadersInv, ReadsRight, Searching, updater, Reading
    <3> QED BY <1>2, <1>3, <2>1, <3>1, <3>2
  <2> QED BY <1>7, <2>1, <2>2
\* What a report in time loads of a pointer is what it shows, and can be read there.
<1>9. ASSUME NEW kind \in Kinds, NEW a \in Loaded(r, kind), Searching(r)
      PROVE  /\ a \in Arrays
             /\ ~reading[r].overlaps => a = array[kind]
             /\ ~reading[r].overlaps /\ reading[r].index <= count => Readable(a, reading[r].index)
  <2>1. a \in Arrays
      BY <1>0, <1>1, <1>9 DEF Loaded, Reading
  <2>2. ~reading[r].overlaps => a = array[kind]
      BY <1>9 DEF Loaded, ReadersInv, ReadsRight
  <2>3. reading[r].index \in Nat
      BY <1>0 DEF Reading
  <2> QED BY <1>1, <2>1, <2>2, <2>3 DEF Readable, CrashReadsValid
<1>10. CASE CompareThread(r)
  <2>0. reading[r].at = "compare" /\ semaphore' = semaphore /\ Searching(r) /\ reading[r].index \in Nat \ {0}
      BY <1>10, <1>0 DEF CompareThread, Searching, Reading
  <2>1. PICK a \in Loaded(r, "mach") :
          \/ /\ ~Readable(a, reading[r].index) /\ reading'[r] = [reading[r] EXCEPT !.at = "fault"]
          \/ /\ Readable(a, reading[r].index) /\ a.of[reading[r].index] = reading[r].thread
             /\ reading'[r] = [reading[r] EXCEPT !.at = "fetch"]
          \/ reading'[r] = [reading[r] EXCEPT !.at = "check", !.index = reading[r].index + 1]
      BY <1>10, <1>0 DEF CompareThread
  <2>2. "mach" \in Kinds
      BY DEF Kinds
  <2>3. /\ ~reading[r].overlaps => a = array["mach"] /\ Readable(a, reading[r].index)
      BY <1>9, <2>0, <2>2 DEF ReadersInv, ReadsRight
  <2>4. reading'[r] \in Reading /\ reading'[r].index # 0 /\ reading'[r].at # "out"
    <3>1. reading[r].index + 1 \in Nat \ {0}
        BY <2>0
    <3>2. \/ \E at \in {"fault", "fetch"} : reading'[r] = [reading[r] EXCEPT !.at = at]
          \/ reading'[r] = [reading[r] EXCEPT !.at = "check", !.index = reading[r].index + 1]
        BY <2>1
    <3>3. ASSUME NEW at \in {"fault", "fetch"}, reading'[r] = [reading[r] EXCEPT !.at = at]
          PROVE  reading'[r] \in Reading /\ reading'[r].index = reading[r].index /\ reading'[r].at = at
      <4>1. at \in {"check", "compare", "fetch", "use", "fault", "frozen"}
          BY <3>3
      <4> QED BY <1>13, <3>3, <4>1, Moved
    <3>4. ASSUME reading'[r] = [reading[r] EXCEPT !.at = "check", !.index = reading[r].index + 1]
          PROVE  /\ reading'[r] \in Reading /\ reading'[r].index = reading[r].index + 1
                 /\ reading'[r].at = "check"
      <4>1. reading[r].index + 1 \in Nat
          BY <3>1
      <4>2. reading'[r] = MovedOn(reading[r], reading[r].index + 1)
          BY <3>4 DEF MovedOn
      <4> DEFINE next == reading[r].index + 1
      <4>3. next \in Nat /\ reading'[r] = MovedOn(reading[r], next)
          BY <4>1, <4>2
      <4> HIDE DEF next
      <4>5. /\ MovedOn(reading[r], next) \in Reading /\ MovedOn(reading[r], next).index = next
            /\ MovedOn(reading[r], next).at = "check"
        <5>1. next \in Nat
            BY <4>3
        <5> QED BY <1>13, <5>1, MovedOnIs
      <4>4. reading'[r] \in Reading /\ reading'[r].index = next /\ reading'[r].at = "check"
          BY <4>3, <4>5
      <4> QED BY <4>4 DEF next
    <3>5. CASE \E at \in {"fault", "fetch"} : reading'[r] = [reading[r] EXCEPT !.at = at]
      <4>1. PICK at \in {"fault", "fetch"} : reading'[r] = [reading[r] EXCEPT !.at = at]
          BY <3>5
      <4> QED BY <2>0, <3>3, <4>1, Zenon
    <3> QED BY <3>1, <3>2, <3>4, <3>5
  <2>5. reading'[r].overlaps \/ ReadsRight(r)'
    <3>1. reading'[r].overlaps = reading[r].overlaps /\ reading'[r].held = reading[r].held
          /\ reading'[r].thread = reading[r].thread
        BY <1>0, <2>1 DEF Reading
    <3>2. ASSUME ~reading[r].overlaps PROVE ReadsRight(r)'
      <4>1. step = "sleeping" /\ reading[r].held = array /\ reading[r].index <= count
          BY <2>0, <3>2 DEF ReadersInv, ReadsRight
      <4>2. \/ reading'[r].at = "fetch" /\ reading'[r].index = reading[r].index
               /\ array["mach"].of[reading[r].index] = reading[r].thread
            \/ reading'[r].at = "check"
          BY <1>0, <2>1, <2>3, <3>2 DEF Reading
      <4> QED BY <1>0, <3>1, <4>1, <4>2 DEF ReadsRight, Searching, updater
    <3> QED BY <3>1, <3>2
  <2> QED BY <1>2, <1>3, <2>0, <2>4, <2>5
<1>11. ASSUME NEW kind \in {"names", "queues"}, FetchName(r, kind) PROVE ReadersInv'
  <2>0. reading[r].at = "fetch" /\ semaphore' = semaphore /\ Searching(r) /\ reading[r].index \in Nat \ {0}
      BY <1>11, <1>0 DEF FetchName, Searching, Reading
  <2>1. PICK a \in Loaded(r, kind) :
          \/ /\ ~Readable(a, reading[r].index) /\ reading'[r] = [reading[r] EXCEPT !.at = "fault"]
          \/ /\ Readable(a, reading[r].index) /\ kind = "names"
             /\ reading'[r] = [reading[r] EXCEPT !.at = "use",
                                 !.name = [made |-> a.made, of |-> a.of[reading[r].index]]]
          \/ reading'[r] = Done
    <3>1. PICK a \in Loaded(r, kind) :
            reading' = CASE ~Readable(a, reading[r].index) -> [reading EXCEPT ![r].at = "fault"]
                         [] Readable(a, reading[r].index) /\ kind = "names" ->
                               [reading EXCEPT ![r].at = "use",
                                   ![r].name = [made |-> a.made, of |-> a.of[reading[r].index]]]
                         [] OTHER -> Found(r, Done)
        BY <1>11 DEF FetchName
    <3>2. CASE ~Readable(a, reading[r].index)
      <4>1. reading' = [reading EXCEPT ![r].at = "fault"]
          BY <3>1, <3>2, Zenon
      <4>2. reading'[r] = [reading[r] EXCEPT !.at = "fault"]
          BY <1>0, <4>1, Zenon
      <4> QED BY <3>2, <4>2, Zenon
    <3>3. CASE Readable(a, reading[r].index) /\ kind = "names"
      <4> DEFINE nm == [made |-> a.made, of |-> a.of[reading[r].index]]
      <4>1. reading' = [reading EXCEPT ![r].at = "use", ![r].name = nm]
          BY <3>1, <3>3
      <4> HIDE DEF nm
      <4>2. reading'[r] = [reading[r] EXCEPT !.at = "use", !.name = nm]
        <5>1. [reading EXCEPT ![r].at = "use"] \in [Reporters -> Reading]
            BY <1>0, Moved
        <5> QED BY <1>0, <4>1, Zenon
      <4>3. reading'[r] = [reading[r] EXCEPT !.at = "use",
                              !.name = [made |-> a.made, of |-> a.of[reading[r].index]]]
          BY <4>2 DEF nm
      <4> QED BY <3>3, <4>3, Zenon
    <3>4. CASE Readable(a, reading[r].index) /\ kind # "names"
      <4>1. reading' = [reading EXCEPT ![r] = Done]
          BY <3>1, <3>4, Zenon DEF Found
      <4>2. reading'[r] = Done
          BY <1>0, <4>1, Zenon
      <4> QED BY <4>2, Zenon
    <3> QED BY <3>2, <3>3, <3>4, Zenon
  <2>2. kind \in Kinds
      BY <1>11 DEF Kinds
  <2>3. /\ a \in Arrays
        /\ ~reading[r].overlaps => a = array[kind] /\ Readable(a, reading[r].index)
      BY <1>9, <2>0, <2>2 DEF ReadersInv, ReadsRight
  <2>4. CASE ~Readable(a, reading[r].index) /\ reading'[r] = [reading[r] EXCEPT !.at = "fault"]
    <3>1. reading'[r] \in Reading /\ reading'[r].index # 0 /\ reading'[r].at # "out" /\ reading'[r].overlaps
        BY <1>0, <2>3, <2>4 DEF Reading
    <3> QED BY <1>2, <1>3, <2>0, <3>1
  <2>5. CASE /\ Readable(a, reading[r].index) /\ kind = "names"
             /\ reading'[r] = [reading[r] EXCEPT !.at = "use",
                                 !.name = [made |-> a.made, of |-> a.of[reading[r].index]]]
    <3>1. a.made \in Nat /\ Len(a.of) \in Nat
        BY <2>3, ListLength DEF Arrays
    <3>2. a.of[reading[r].index] \in Threads
        BY <2>0, <2>3, <2>5, ListedThread DEF Readable
    <3>3. /\ reading'[r] \in Reading /\ reading'[r].index # 0 /\ reading'[r].at = "use"
          /\ reading'[r].overlaps = reading[r].overlaps /\ reading'[r].held = reading[r].held
          /\ reading'[r].thread = reading[r].thread
          /\ reading'[r].name.made = a.made /\ reading'[r].name.of = a.of[reading[r].index]
      <4> DEFINE nm == [made |-> a.made, of |-> a.of[reading[r].index]]
      <4>1. reading'[r] = [reading[r] EXCEPT !.at = "use", !.name = nm]
          BY <2>5
      <4>2. reading'[r] \in Reading
        <5>1. nm \in [made : Nat, of : Threads]
            BY <3>1, <3>2
        <5>2. reading'[r] = Named(reading[r], nm)
            BY <4>1 DEF Named
        <5> HIDE DEF nm
        <5> QED BY <1>13, <5>1, <5>2, NamedIs
      <4>3. nm.made = a.made /\ nm.of = a.of[reading[r].index]
          OBVIOUS
      <4> HIDE DEF nm
      <4>4. /\ reading'[r].at = "use" /\ reading'[r].name = nm
            /\ reading'[r].index = reading[r].index /\ reading'[r].held = reading[r].held
            /\ reading'[r].overlaps = reading[r].overlaps /\ reading'[r].thread = reading[r].thread
          BY <1>0, <4>1 DEF Reading
      <4> QED BY <1>0, <4>2, <4>3, <4>4
    <3>4. ASSUME ~reading[r].overlaps PROVE ReadsRight(r)'
      <4>1. /\ step = "sleeping" /\ reading[r].held = array
            /\ array["mach"].of[reading[r].index] = reading[r].thread
          BY <2>0, <3>4 DEF ReadersInv, ReadsRight
      <4>2. array["names"] = array["mach"]
          BY <4>1 DEF NamesInv, MixedUp
      <4>3. a = array["names"] /\ a.made >= live
          BY <2>3, <2>5, <3>4 DEF Readable
      <4> QED BY <1>0, <3>3, <4>1, <4>2, <4>3 DEF ReadsRight, Searching, updater
    <3> QED BY <1>2, <1>3, <2>0, <3>3, <3>4
  <2> QED BY <1>7, <2>0, <2>1, <2>4, <2>5
<1>12. CASE UseName(r)
  <2>1. /\ reading[r].at = "use" /\ semaphore' = semaphore
        /\ \/ reading'[r] = Done
           \/ ~(reading[r].name.made >= live) /\ reading'[r] = [reading[r] EXCEPT !.at = "fault"]
      BY <1>12, <1>0 DEF UseName, Found
  <2>2. CASE ~(reading[r].name.made >= live) /\ reading'[r] = [reading[r] EXCEPT !.at = "fault"]
    <3>1. reading[r].overlaps
        BY <2>1, <2>2 DEF ReadersInv, ReadsRight
    <3>2. reading'[r] \in Reading /\ reading'[r].index # 0 /\ reading'[r].at # "out" /\ reading'[r].overlaps
      <4>1. /\ reading'[r] \in Reading /\ reading'[r].index = reading[r].index
            /\ reading'[r].at = "fault" /\ reading'[r].overlaps = reading[r].overlaps
          BY <1>13, <2>2, Moved
      <4> QED BY <1>0, <3>1, <4>1
    <3> QED BY <1>2, <1>3, <2>1, <3>2
  <2> QED BY <1>7, <2>1, <2>2
<1> QED BY <1>4, <1>5, <1>6, <1>8, <1>10, <1>11, <1>12 DEF Report

\* What a report tells of a thread is that thread's: in a crash everywhere but
\* between two of the four swaps, and beside the updater whenever the report froze
\* the cache before an update began, for any threads, updates and reports.
THEOREM NamesAlwaysTold == CacheSpec => []NamesTold
<1>1. CacheInit => ReadersInv
  <2> SUFFICES ASSUME CacheInit PROVE ReadersInv
      OBVIOUS
  <2>1. \A r \in Reporters : reading[r] = NotReading
      BY DEF CacheInit
  <2>2. Frozen = {}
      BY <2>1 DEF Frozen, NotReading
  <2>3. FrozenCounted
      BY <2>2, FS_EmptySet DEF FrozenCounted, CacheInit
  <2>4. ReadersType
      BY <2>1, NotReadingIs DEF ReadersType, CacheInit, NotReading
  <2>5. \A r \in Reporters : ReadsRight(r)
      BY <2>1 DEF ReadsRight, Searching, NotReading
  <2> QED BY <2>3, <2>4, <2>5 DEF ReadersInv
<1>2. CacheInit => NamesInv
    BY DEF CacheInit, NamesInv, Kinds
<1>3. CacheInv /\ NamesInv /\ ReadersInv /\ [CacheNext]_cacheVars => ReadersInv'
  <2> SUFFICES ASSUME CacheInv, NamesInv, ReadersInv, [CacheNext]_cacheVars PROVE ReadersInv'
      OBVIOUS
  <2>1. CASE UNCHANGED cacheVars
      BY <2>1 DEF cacheVars, ReadersInv, ReadersType, FrozenCounted, Frozen, ReadsRight, Searching
  <2> QED BY <2>1, UpdateKeepsReaders, ReportKeepsReaders DEF CacheNext
<1>4. CacheInv /\ NamesInv /\ ReadersInv => NamesTold
  <2> SUFFICES ASSUME CacheInv, NamesInv, ReadersInv PROVE NamesTold
      OBVIOUS
  <2>1. CacheTypeOK
      BY DEF CacheInv, ReadersInv, ReadersType, CacheTypeOK
  <2>2. CrashNamesRight
      BY DEF NamesInv, CrashNamesRight
  <2>3. OverlapOnly
      BY DEF ReadersInv, ReadsRight, OverlapOnly
  <2> QED BY <2>1, <2>2, <2>3 DEF NamesTold
<1> QED BY <1>1, <1>2, <1>3, <1>4, CacheInitInv, CacheStepInv, NamesStepInv, PTL DEF CacheSpec


-----------------------------------------------------------------------------
(* The cache of deallocated objects.  The slot belongs to the dealloc that is
   between its two writes unless another one came into it (crossed), and the
   last exception to the one that is storing it unless another one did the same
   (overlapped); an address is in one dealloc at a time, so neither can be
   taken for another object's.                                               *)

Ats == {"out", "object", "class", "address", "name", "reason", "freed"}
Deallocs == [at : Ats, self : Addresses \cup {Nil}]

\* Nothing is noted before dealloc is replaced, and it is replaced once.
HookedOnce ==
    /\ zombieHooked => zombieEnabled
    /\ ~zombieHooked => /\ slot.object = Nil /\ slot.class = Nil /\ lastException.address = Nil
                        /\ \A t \in AppThreads : InDealloc(t, {"out", "freed"})

\* A dealloc has an object, which lives until it is freed, and which no other has.
OneDealloc ==
    /\ \A t \in AppThreads : dying[t].at = "out" => dying[t].self = Nil
    /\ \A t \in AppThreads : dying[t].at # "out" => dying[t].self # Nil /\ Alive(dying[t].self)
    /\ \A t, u \in AppThreads : dying[t].self = dying[u].self /\ dying[t].self # Nil => t = u

\* Only an exception has a name or a reason.
OnlyNamed ==
    \A a \in Addresses : object[a].class # "NSException" => object[a].name = Nil /\ object[a].reason = Nil

SlotOwned == crossed \/ \A t \in AppThreads : InDealloc(t, {"object"}) => slot.object = dying[t].self
StoringOwned ==
    \/ overlapped
    \/ \A t \in AppThreads : Storing(t) =>
          /\ lastException.address = dying[t].self
          /\ InDealloc(t, {"name"}) /\ object[dying[t].self].name # Nil =>
                lastException.name = object[dying[t].self].name

ZombieInv ==
    /\ ZombieTypeOK /\ HookedOnce /\ OneDealloc /\ OnlyNamed /\ SlotOwned /\ StoringOwned
    /\ ZombieNamesRight /\ ExceptionWhole

\* What a step of a dealloc makes of the deallocs.
LEMMA DyingIs ==
    ASSUME ZombieTypeOK, NEW t \in AppThreads, NEW at \in Ats, NEW self \in Addresses \cup {Nil},
           dying' = [dying EXCEPT ![t] = [at |-> at, self |-> self]]
    PROVE  /\ dying' \in [AppThreads -> Deallocs]
           /\ dying'[t].at = at /\ dying'[t].self = self
           /\ \A u \in AppThreads \ {t} : dying'[u] = dying[u]
BY DEF ZombieTypeOK, Deallocs, Ats

LEMMA DyingAt ==
    ASSUME ZombieTypeOK, NEW t \in AppThreads, NEW at \in Ats,
           dying' = [dying EXCEPT ![t].at = at]
    PROVE  /\ dying' \in [AppThreads -> Deallocs]
           /\ dying'[t].at = at /\ dying'[t].self = dying[t].self
           /\ \A u \in AppThreads \ {t} : dying'[u] = dying[u]
<1>1. dying[t] \in Deallocs
    BY DEF ZombieTypeOK, Deallocs, Ats
<1>2. [dying[t] EXCEPT !.at = at] = [at |-> at, self |-> dying[t].self]
    BY <1>1 DEF Deallocs
<1>3. dying[t].self \in Addresses \cup {Nil}
    BY <1>1 DEF Deallocs
<1>4. dying' = [dying EXCEPT ![t] = [at |-> at, self |-> dying[t].self]]
    BY <1>2
<1> HIDE <1>2
<1> QED BY <1>3, <1>4, DyingIs

LEMMA ZombieStarts == ZombieInit => ZombieInv
<1> SUFFICES ASSUME ZombieInit PROVE ZombieInv
    OBVIOUS
<1>0. /\ Nil \notin Addresses /\ "NSException" # Nil /\ MaxObjects \in Nat
      /\ \A t \in AppThreads : dying[t].at = "out" /\ dying[t].self = Nil
      /\ \A a \in Addresses : object[a].class = Nil /\ object[a].name = Nil /\ object[a].reason = Nil
      /\ slot.object = Nil /\ slot.class = Nil /\ lastException.address = Nil
    BY ZombieCacheAssumption DEF ZombieInit, NoObject
<1>1. ZombieTypeOK
  <2>1. object \in [Addresses -> Objects]
      BY DEF ZombieInit, NoObject, Objects
  <2>2. /\ slot \in [object : Addresses \cup {Nil}, class : Classes \cup {Nil}]
        /\ lastException \in [address : Addresses \cup {Nil}, name : Strings \cup {Nil},
                              reason : Strings \cup {Nil}]
      BY DEF ZombieInit
  <2>3. dying \in [AppThreads -> Deallocs]
      BY DEF ZombieInit, Deallocs, Ats
  <2>4. /\ zombieEnabled \in BOOLEAN /\ zombieHooked \in BOOLEAN /\ allocated \in 0..MaxObjects
        /\ truth \in [Addresses -> Classes \cup {Nil}] /\ {crossed, overlapped} \subseteq BOOLEAN
    <3>1. allocated \in 0..MaxObjects
        BY <1>0 DEF ZombieInit
    <3>2. crossed = FALSE /\ overlapped = FALSE /\ zombieEnabled = FALSE /\ zombieHooked = FALSE
        BY DEF ZombieInit
    <3>3. truth \in [Addresses -> Classes \cup {Nil}]
        BY DEF ZombieInit
    <3> QED BY <3>1, <3>2, <3>3
  <2> QED BY <2>1, <2>2, <2>3, <2>4 DEF ZombieTypeOK, Deallocs, Ats
<1>2. HookedOnce /\ OneDealloc
    BY <1>0 DEF ZombieInit, HookedOnce, OneDealloc, InDealloc
<1>3. OnlyNamed /\ SlotOwned /\ StoringOwned
    BY <1>0 DEF OnlyNamed, SlotOwned, StoringOwned, Storing, InDealloc
<1>4. ZombieNamesRight
    BY <1>0 DEF ZombieNamesRight, ClassName
<1>5. ExceptionWhole
    BY <1>0 DEF ExceptionWhole
<1> QED BY <1>1, <1>2, <1>3, <1>4, <1>5 DEF ZombieInv

\* The monitor is switched on once, when nothing is noted.
LEMMA SetZombieEnabledKeeps ==
    ASSUME ZombieInv, NEW enable \in BOOLEAN, SetZombieEnabled(enable)
    PROVE  ZombieInv'
<1>0. /\ UNCHANGED <<slot, object, dying, allocated, truth, crossed, overlapped>>
      /\ Nil \notin Addresses
    BY ZombieCacheAssumption DEF SetZombieEnabled
<1>1. CASE UNCHANGED <<zombieEnabled, zombieHooked, lastException>>
  <2>1. ZombieTypeOK' /\ HookedOnce'
      BY <1>0, <1>1 DEF ZombieInv, ZombieTypeOK, HookedOnce, InDealloc
  <2>2. OneDealloc' /\ OnlyNamed' /\ SlotOwned'
      BY <1>0 DEF ZombieInv, OneDealloc, OnlyNamed, SlotOwned, InDealloc, Alive
  <2>3. StoringOwned' /\ ZombieNamesRight' /\ ExceptionWhole'
      BY <1>0, <1>1 DEF ZombieInv, StoringOwned, ZombieNamesRight, ExceptionWhole, InDealloc, Storing,
                        ClassName
  <2> QED BY <2>1, <2>2, <2>3 DEF ZombieInv
<1>2. CASE /\ zombieEnabled' = TRUE /\ zombieEnabled = FALSE /\ Install
  <2>1. ~zombieHooked
      BY <1>2 DEF ZombieInv, HookedOnce
  <2>2. /\ slot.object = Nil /\ slot.class = Nil /\ lastException'.address = Nil
        /\ \A t \in AppThreads : InDealloc(t, {"out", "freed"})
        /\ lastException' \in [address : Addresses \cup {Nil}, name : Strings \cup {Nil},
                               reason : Strings \cup {Nil}]
        /\ zombieHooked' \in BOOLEAN
    <3>1. lastException' = [address |-> Nil, name |-> Nil, reason |-> Nil] \/ lastException' = lastException
        BY <1>2 DEF Install
    <3>2. zombieHooked' = TRUE \/ zombieHooked' = zombieHooked
        BY <1>2 DEF Install
    <3>3. /\ zombieHooked \in BOOLEAN /\ lastException.address = Nil
          /\ lastException \in [address : Addresses \cup {Nil}, name : Strings \cup {Nil},
                                reason : Strings \cup {Nil}]
        BY <2>1 DEF ZombieInv, ZombieTypeOK, HookedOnce
    <3>4. lastException'.address = Nil
        BY <3>1, <3>3
    <3>5. lastException' \in [address : Addresses \cup {Nil}, name : Strings \cup {Nil},
                              reason : Strings \cup {Nil}]
        BY <3>1, <3>3
    <3> QED BY <2>1, <3>2, <3>3, <3>4, <3>5 DEF ZombieInv, HookedOnce
  <2>3. HookedOnce' /\ ZombieTypeOK'
      BY <1>0, <1>2, <2>2 DEF ZombieInv, HookedOnce, ZombieTypeOK, InDealloc
  <2>4. OneDealloc' /\ OnlyNamed' /\ SlotOwned' /\ ZombieNamesRight'
      BY <1>0 DEF ZombieInv, OneDealloc, OnlyNamed, SlotOwned, ZombieNamesRight, InDealloc, ClassName, Alive
  <2>5. StoringOwned'
      BY <1>0, <2>2 DEF StoringOwned, Storing, InDealloc
  <2>6. ExceptionWhole'
      BY <1>0, <2>2 DEF ExceptionWhole
  <2> QED BY <2>3, <2>4, <2>5, <2>6 DEF ZombieInv
<1>3. zombieEnabled \in BOOLEAN
    BY DEF ZombieInv, ZombieTypeOK
<1> QED BY <1>1, <1>2, <1>3 DEF SetZombieEnabled

\* A new object is at an address that no dealloc has.
LEMMA AllocateKeeps ==
    ASSUME ZombieInv, NEW a \in Addresses, NEW o \in Objects, Allocate(a, o)
    PROVE  ZombieInv'
<1>0. /\ UNCHANGED <<zombieEnabled, zombieHooked, slot, lastException, dying, truth, crossed, overlapped>>
      /\ object \in [Addresses -> Objects] /\ object' = [object EXCEPT ![a] = o] /\ ~Alive(a)
      /\ object' \in [Addresses -> Objects] /\ object'[a] = o
      /\ \A b \in Addresses \ {a} : object'[b] = object[b]
      /\ o.class # Nil /\ (o.class # "NSException" => o.name = Nil /\ o.reason = Nil)
      /\ allocated' \in 0..MaxObjects
    BY ZombieCacheAssumption DEF Allocate, ZombieInv, ZombieTypeOK, Classes
<1>1. \A t \in AppThreads : /\ dying[t].self # a
                            /\ dying[t].self # Nil => dying[t].self \in Addresses \ {a}
  <2>1. Nil \notin Addresses /\ \A t \in AppThreads : dying[t].self \in Addresses \cup {Nil}
      BY ZombieCacheAssumption DEF ZombieInv, ZombieTypeOK
  <2>2. \A t \in AppThreads : dying[t].self # a
      BY <1>0, <2>1 DEF ZombieInv, OneDealloc
  <2> QED BY <2>1, <2>2
<1>2. ZombieTypeOK'
    BY <1>0 DEF ZombieInv, ZombieTypeOK
<1>3. HookedOnce' /\ SlotOwned'
    BY <1>0 DEF ZombieInv, HookedOnce, SlotOwned, InDealloc
<1>4. OneDealloc'
    BY <1>0, <1>1 DEF ZombieInv, OneDealloc, Alive
<1>5. OnlyNamed'
    BY <1>0 DEF ZombieInv, OnlyNamed
<1>6. StoringOwned'
  <2> SUFFICES ASSUME ~overlapped, NEW t \in AppThreads, Storing(t)
               PROVE  /\ lastException.address = dying[t].self
                      /\ InDealloc(t, {"name"}) /\ object'[dying[t].self].name # Nil =>
                            lastException.name = object'[dying[t].self].name
      BY <1>0 DEF StoringOwned, Storing, InDealloc
  <2>1. object'[dying[t].self] = object[dying[t].self]
      BY <1>0, <1>1 DEF ZombieInv, OneDealloc, Storing, InDealloc
  <2> QED BY <2>1 DEF ZombieInv, StoringOwned
<1>7. ZombieNamesRight'
  <2> SUFFICES ASSUME NEW b \in Addresses, slot.object = b, slot.class # Nil, ~crossed,
                      \A t \in AppThreads : ~InDealloc(t, {"object"})
               PROVE  slot.class = IF \E t \in AppThreads : dying[t].self = b THEN object'[b].class
                                                                             ELSE truth[b]
    <3>1. UNCHANGED <<slot, dying, truth, crossed>>
        BY <1>0
    <3> QED BY <3>1 DEF ZombieNamesRight, ClassName, InDealloc
  <2>1. (\E t \in AppThreads : dying[t].self = b) => object'[b] = object[b]
      BY <1>0, <1>1
  <2>2. slot.class = IF \E t \in AppThreads : dying[t].self = b THEN object[b].class ELSE truth[b]
      BY Zenon DEF ZombieInv, ZombieNamesRight, ClassName
  <2> QED BY <2>1, <2>2
<1>8. ExceptionWhole'
  <2> SUFFICES ASSUME NEW t \in AppThreads, NEW b \in Addresses,
                      dying[t] = [at |-> "freed", self |-> b], lastException.address = b, ~overlapped,
                      object'[b].name # Nil, object'[b].reason # Nil,
                      \A u \in AppThreads \ {t} : ~Storing(u)
               PROVE  lastException.name = object'[b].name /\ lastException.reason = object'[b].reason
    <3>1. UNCHANGED <<lastException, dying, overlapped>>
        BY <1>0
    <3> QED BY <3>1 DEF ExceptionWhole, Storing, InDealloc
  <2>1. object'[b] = object[b]
      BY <1>0, <1>1
  <2> QED BY <2>1, Zenon DEF ZombieInv, ExceptionWhole
<1> QED BY <1>2, <1>3, <1>4, <1>5, <1>6, <1>7, <1>8 DEF ZombieInv

\* A dealloc that moves on, and leaves the objects and the last exception alone.
LEMMA NoteObjectKeeps ==
    ASSUME ZombieInv, NEW t \in AppThreads, NEW a \in Addresses, NoteObject(t, a)
    PROVE  ZombieInv'
<1>0. /\ UNCHANGED <<zombieEnabled, zombieHooked, lastException, object, allocated, truth, overlapped>>
      /\ dying[t].at = "out" /\ Alive(a) /\ a # Nil /\ (\A u \in AppThreads : dying[u].self # a)
      /\ zombieHooked \in BOOLEAN
    BY ZombieCacheAssumption DEF NoteObject, InDealloc, ZombieInv, ZombieTypeOK
<1>1. /\ dying' \in [AppThreads -> Deallocs] /\ dying'[t].self = a
      /\ dying'[t].at = IF zombieHooked THEN "object" ELSE "freed"
      /\ \A u \in AppThreads \ {t} : dying'[u] = dying[u]
  <2> DEFINE at == IF zombieHooked THEN "object" ELSE "freed"
  <2>1. at \in Ats
      BY DEF Ats
  <2>2. dying' = [dying EXCEPT ![t] = [at |-> at, self |-> a]]
      BY DEF NoteObject
  <2>3. ZombieTypeOK /\ a \in Addresses \cup {Nil}
      BY DEF ZombieInv
  <2> HIDE DEF at
  <2>4. /\ dying' \in [AppThreads -> Deallocs] /\ dying'[t].self = a /\ dying'[t].at = at
        /\ \A u \in AppThreads \ {t} : dying'[u] = dying[u]
      BY <2>1, <2>2, <2>3, DyingIs
  <2> QED BY <2>4 DEF at
<1>2. /\ zombieHooked => slot'.object = a /\ slot'.class = slot.class
      /\ ~zombieHooked => slot' = slot /\ slot.object = Nil /\ slot.class = Nil
      /\ slot' \in [object : Addresses \cup {Nil}, class : Classes \cup {Nil}]
    BY DEF NoteObject, ZombieInv, ZombieTypeOK, HookedOnce
<1>3. crossed' = (crossed \/ (zombieHooked /\ \E u \in AppThreads : dying[u].at = "object"))
    BY DEF NoteObject, InDealloc
<1>4. ZombieTypeOK'
  <2>1. crossed' \in BOOLEAN
      BY <1>3 DEF ZombieInv, ZombieTypeOK
  <2> QED BY <1>0, <1>1, <1>2, <2>1 DEF ZombieInv, ZombieTypeOK, Deallocs, Ats
<1>5. HookedOnce'
    BY <1>0, <1>1, <1>2 DEF ZombieInv, HookedOnce, InDealloc
<1>6. OneDealloc'
    BY <1>0, <1>1 DEF ZombieInv, OneDealloc, Alive
<1>7. OnlyNamed'
    BY <1>0 DEF ZombieInv, OnlyNamed
<1>8. SlotOwned'
  <2> SUFFICES ASSUME ~crossed', NEW u \in AppThreads, dying'[u].at = "object"
               PROVE  slot'.object = dying'[u].self
      BY DEF SlotOwned, InDealloc
  <2>1. CASE u = t
      BY <1>0, <1>1, <1>2, <2>1
  <2>2. CASE u # t
    <3>1. dying[u].at = "object" /\ dying'[u] = dying[u]
        BY <1>1, <2>2
    <3>2. ~zombieHooked
        BY <1>3, <3>1
    <3> QED BY <3>1, <3>2 DEF ZombieInv, HookedOnce, InDealloc
  <2> QED BY <2>1, <2>2
<1>9. StoringOwned'
  <2> SUFFICES ASSUME ~overlapped, NEW u \in AppThreads, Storing(u)'
               PROVE  /\ lastException'.address = dying'[u].self
                      /\ dying'[u].at = "name" /\ object'[dying'[u].self].name # Nil =>
                            lastException'.name = object'[dying'[u].self].name
      BY <1>0 DEF StoringOwned, InDealloc
  <2>1. u # t
      BY <1>1 DEF Storing, InDealloc
  <2>2. dying'[u] = dying[u] /\ Storing(u)
      BY <1>1, <2>1 DEF Storing, InDealloc
  <2> QED BY <1>0, <2>2 DEF ZombieInv, StoringOwned, InDealloc
<1>10. ZombieNamesRight'
  <2>1. CASE zombieHooked
    <3>1. \E u \in AppThreads : InDealloc(u, {"object"})'
        BY <1>1, <2>1 DEF InDealloc
    <3> QED BY <3>1 DEF ZombieNamesRight
  <2>2. CASE ~zombieHooked
    <3>1. \A b \in Addresses : ClassName(b)' = Nil
        BY <1>0, <1>2, <2>2 DEF ClassName
    <3> QED BY <3>1 DEF ZombieNamesRight
  <2> QED BY <2>1, <2>2
<1>11. ExceptionWhole'
  <2> SUFFICES ASSUME NEW u \in AppThreads, NEW b \in Addresses,
                      dying'[u] = [at |-> "freed", self |-> b], lastException.address = b, ~overlapped,
                      object[b].name # Nil, object[b].reason # Nil,
                      \A v \in AppThreads \ {u} : ~Storing(v)'
               PROVE  lastException.name = object[b].name /\ lastException.reason = object[b].reason
    <3>1. UNCHANGED <<lastException, object, overlapped>>
        BY <1>0
    <3> QED BY <3>1 DEF ExceptionWhole
  <2>1. zombieHooked
      BY <1>0, ZombieCacheAssumption DEF ZombieInv, HookedOnce
  <2>2. u # t
      BY <1>1, <2>1
  <2>3. \A v \in AppThreads \ {u} : ~Storing(v)
      BY <1>0, <1>1 DEF Storing, InDealloc
  <2>4. dying[u] = [at |-> "freed", self |-> b]
      BY <1>1, <2>2
  <2> QED BY <2>3, <2>4, Zenon DEF ZombieInv, ExceptionWhole
<1> QED BY <1>4, <1>5, <1>6, <1>7, <1>8, <1>9, <1>10, <1>11 DEF ZombieInv

LEMMA NoteClassKeeps ==
    ASSUME ZombieInv, NEW t \in AppThreads, NoteClass(t)
    PROVE  ZombieInv'
<1> DEFINE self == dying[t].self
<1>0. /\ UNCHANGED <<zombieEnabled, zombieHooked, lastException, object, allocated, truth, crossed, overlapped>>
      /\ dying[t].at = "object" /\ self \in Addresses /\ Alive(self) /\ self # Nil /\ zombieHooked
      /\ object[self] \in Objects
    BY ZombieCacheAssumption DEF NoteClass, InDealloc, ZombieInv, ZombieTypeOK, OneDealloc, HookedOnce
<1>1. /\ dying' \in [AppThreads -> Deallocs] /\ dying'[t].self = self
      /\ dying'[t].at = IF object[self].class = "NSException" THEN "class" ELSE "freed"
      /\ \A u \in AppThreads \ {t} : dying'[u] = dying[u]
  <2> DEFINE at == IF object[self].class = "NSException" THEN "class" ELSE "freed"
  <2>1. at \in Ats
      BY DEF Ats
  <2>2. dying' = [dying EXCEPT ![t].at = at]
      BY DEF NoteClass
  <2>3. ZombieTypeOK
      BY DEF ZombieInv
  <2> HIDE DEF at, self
  <2>4. /\ dying' \in [AppThreads -> Deallocs] /\ dying'[t].self = dying[t].self /\ dying'[t].at = at
        /\ \A u \in AppThreads \ {t} : dying'[u] = dying[u]
      BY <2>1, <2>2, <2>3, DyingAt
  <2> QED BY <2>4 DEF at, self
<1>2. /\ slot'.object = slot.object /\ slot'.class = object[self].class /\ slot'.class # Nil
      /\ slot' \in [object : Addresses \cup {Nil}, class : Classes \cup {Nil}]
  <2>1. slot \in [object : Addresses \cup {Nil}, class : Classes \cup {Nil}]
      BY DEF ZombieInv, ZombieTypeOK
  <2>2. slot' = [slot EXCEPT !.class = object[self].class]
      BY DEF NoteClass, Stored
  <2>3. object[self].class \in Classes \cup {Nil} /\ object[self].class # Nil
      BY <1>0 DEF Objects, Alive
  <2> QED BY <2>1, <2>2, <2>3
<1> HIDE DEF self
<1>4. ZombieTypeOK'
    BY <1>0, <1>1, <1>2 DEF ZombieInv, ZombieTypeOK, Deallocs, Ats
<1>5. HookedOnce'
    BY <1>0 DEF ZombieInv, HookedOnce
<1>6. OneDealloc'
    BY <1>0, <1>1 DEF ZombieInv, OneDealloc, Alive, self
<1>7. OnlyNamed'
    BY <1>0 DEF ZombieInv, OnlyNamed
<1>8. SlotOwned'
  <2> SUFFICES ASSUME ~crossed, NEW u \in AppThreads, dying'[u].at = "object"
               PROVE  slot.object = dying'[u].self
      BY <1>0, <1>2 DEF SlotOwned, InDealloc
  <2>1. dying'[u] = dying[u] /\ dying[u].at = "object"
      BY <1>1
  <2> QED BY <2>1 DEF ZombieInv, SlotOwned, InDealloc
<1>9. StoringOwned'
  <2> SUFFICES ASSUME ~overlapped, NEW u \in AppThreads, Storing(u)'
               PROVE  /\ lastException'.address = dying'[u].self
                      /\ dying'[u].at = "name" /\ object'[dying'[u].self].name # Nil =>
                            lastException'.name = object'[dying'[u].self].name
      BY <1>0 DEF StoringOwned, InDealloc
  <2>1. u # t
      BY <1>1 DEF Storing, InDealloc
  <2>2. dying'[u] = dying[u] /\ Storing(u)
      BY <1>1, <2>1 DEF Storing, InDealloc
  <2> QED BY <1>0, <2>2 DEF ZombieInv, StoringOwned, InDealloc
<1>10. ZombieNamesRight'
  <2> SUFFICES ASSUME NEW b \in Addresses, slot.object = b, ~crossed
               PROVE  slot'.class = IF \E u \in AppThreads : dying'[u].self = b THEN object[b].class ELSE truth[b]
    <3>1. UNCHANGED <<object, truth, crossed>> /\ slot'.object = slot.object
        BY <1>0, <1>2
    <3> QED BY <3>1 DEF ZombieNamesRight, ClassName
  <2>1. b = self
      BY <1>0 DEF ZombieInv, SlotOwned, InDealloc, self
  <2> QED BY <1>1, <1>2, <2>1
<1>11. ExceptionWhole'
  <2> SUFFICES ASSUME NEW u \in AppThreads, NEW b \in Addresses,
                      dying'[u] = [at |-> "freed", self |-> b], lastException.address = b, ~overlapped,
                      object[b].name # Nil, object[b].reason # Nil,
                      \A v \in AppThreads \ {u} : ~Storing(v)'
               PROVE  lastException.name = object[b].name /\ lastException.reason = object[b].reason
    <3>1. UNCHANGED <<lastException, object, overlapped>>
        BY <1>0
    <3> QED BY <3>1 DEF ExceptionWhole
  <2>2. u # t
    <3>1. ASSUME u = t PROVE FALSE
      <4>1. b = self /\ dying'[t].at = "freed"
          BY <1>1, <3>1
      <4>2. object[b].class # "NSException"
          BY <1>1, <4>1
      <4> QED BY <4>2 DEF ZombieInv, OnlyNamed
    <3> QED BY <3>1
  <2>3. \A v \in AppThreads \ {u} : ~Storing(v)
      BY <1>0, <1>1 DEF Storing, InDealloc
  <2>4. dying[u] = [at |-> "freed", self |-> b]
      BY <1>1, <2>2
  <2> QED BY <2>3, <2>4, Zenon DEF ZombieInv, ExceptionWhole
<1> QED BY <1>4, <1>5, <1>6, <1>7, <1>8, <1>9, <1>10, <1>11 DEF ZombieInv

\* Storing an exception: the address, the name, the reason.
LEMMA NoteExceptionKeeps ==
    ASSUME ZombieInv, NEW t \in AppThreads, NoteException(t)
    PROVE  ZombieInv'
<1> DEFINE self == dying[t].self
           before(field) == CASE field = "address" -> "class" [] field = "name" -> "address"
                              [] field = "reason" -> "name"
           after(field) == IF field = "reason" THEN "freed" ELSE field
<1>0. PICK field \in {"address", "name", "reason"} :
        /\ dying[t].at = before(field)
        /\ lastException' = [lastException EXCEPT ![field] =
                               IF field = "address" THEN self ELSE CopiedString(@, object[self][field])]
        /\ dying' = [dying EXCEPT ![t].at = after(field)]
    BY DEF NoteException
<1>1. /\ UNCHANGED <<zombieEnabled, zombieHooked, slot, object, allocated, truth, crossed>>
      /\ overlapped' = (overlapped \/ \E u \in AppThreads \ {t} : Storing(u))
    BY DEF NoteException
<1>2. /\ dying[t].at \notin {"out", "freed", "object"}
      /\ field = "name" => dying[t].at = "address"
      /\ field = "reason" => dying[t].at = "name"
    BY <1>0
<1>3. /\ self \in Addresses /\ Alive(self) /\ self # Nil /\ zombieHooked /\ object[self] \in Objects
    BY <1>2, ZombieCacheAssumption DEF InDealloc, ZombieInv, ZombieTypeOK, OneDealloc, HookedOnce
<1>4. /\ dying' \in [AppThreads -> Deallocs] /\ dying'[t].self = self /\ dying'[t].at = after(field)
      /\ \A u \in AppThreads \ {t} : dying'[u] = dying[u]
  <2>1. after(field) \in Ats
      BY DEF Ats
  <2> DEFINE at == after(field)
  <2>2. dying' = [dying EXCEPT ![t].at = at]
      BY <1>0
  <2>3. ZombieTypeOK
      BY DEF ZombieInv
  <2>5. at \in Ats
      BY <2>1
  <2> HIDE DEF at, self
  <2>4. /\ dying' \in [AppThreads -> Deallocs] /\ dying'[t].self = dying[t].self /\ dying'[t].at = at
        /\ \A u \in AppThreads \ {t} : dying'[u] = dying[u]
      BY <2>2, <2>3, <2>5, DyingAt
  <2> QED BY <2>4 DEF at, self
\* What each step leaves in the last exception.
<1>5. /\ lastException' \in [address : Addresses \cup {Nil}, name : Strings \cup {Nil},
                            reason : Strings \cup {Nil}]
      /\ lastException'.address = IF field = "address" THEN self ELSE lastException.address
      /\ field = "name" /\ object[self].name # Nil => lastException'.name = object[self].name
      /\ field = "reason" => lastException'.name = lastException.name
      /\ field = "reason" /\ object[self].reason # Nil => lastException'.reason = object[self].reason
  <2>1. /\ lastException \in [address : Addresses \cup {Nil}, name : Strings \cup {Nil},
                              reason : Strings \cup {Nil}]
        /\ object[self].name \in Strings \cup {Nil} /\ object[self].reason \in Strings \cup {Nil}
      BY <1>3 DEF ZombieInv, ZombieTypeOK, Objects
  <2> HIDE DEF self
  <2>2. CASE field = "address"
    <3>1. lastException' = [lastException EXCEPT !.address = self]
        BY <1>0, <2>2
    <3> QED BY <1>3, <2>1, <2>2, <3>1
  <2>3. CASE field = "name"
    <3>1. lastException' = [lastException EXCEPT !.name = CopiedString(@, object[self].name)]
        BY <1>0, <2>3
    <3> QED BY <2>1, <2>3, <3>1 DEF CopiedString
  <2>4. CASE field = "reason"
    <3>1. lastException' = [lastException EXCEPT !.reason = CopiedString(@, object[self].reason)]
        BY <1>0, <2>4
    <3> QED BY <2>1, <2>4, <3>1 DEF CopiedString
  <2> QED BY <2>2, <2>3, <2>4
<1>6. ASSUME ~overlapped', NEW u \in AppThreads \ {t} PROVE ~Storing(u) /\ ~overlapped
    BY <1>1, <1>6 DEF ZombieInv, ZombieTypeOK
<1>7. ZombieTypeOK'
  <2>1. overlapped' \in BOOLEAN
      BY <1>1 DEF ZombieInv, ZombieTypeOK
  <2> QED BY <1>1, <1>4, <1>5, <2>1 DEF ZombieInv, ZombieTypeOK, Deallocs, Ats
<1>8. HookedOnce'
    BY <1>1, <1>3 DEF ZombieInv, HookedOnce
<1>9. after(field) # "out" /\ after(field) # "object"
    OBVIOUS
<1>10. OneDealloc'
  <2> HIDE DEF self, before, after
  <2> QED BY <1>1, <1>3, <1>4, <1>9 DEF ZombieInv, OneDealloc, Alive, self
<1>11. OnlyNamed'
    BY <1>1 DEF ZombieInv, OnlyNamed
<1>12. SlotOwned'
  <2> HIDE DEF self, before, after
  <2> QED BY <1>1, <1>4, <1>9 DEF ZombieInv, SlotOwned, InDealloc
<1>13. StoringOwned'
  <2> SUFFICES ASSUME ~overlapped', NEW u \in AppThreads, Storing(u)'
               PROVE  /\ lastException'.address = dying'[u].self
                      /\ dying'[u].at = "name" /\ object[dying'[u].self].name # Nil =>
                            lastException'.name = object[dying'[u].self].name
      BY <1>1 DEF StoringOwned, InDealloc
  <2>1. u = t
    <3>1. ASSUME u # t PROVE FALSE
      <4>1. dying'[u] = dying[u] /\ Storing(u)
          BY <1>4, <3>1 DEF Storing, InDealloc
      <4> QED BY <1>6, <3>1, <4>1
    <3> QED BY <3>1
  <2>2. ~overlapped
      BY <1>1 DEF ZombieInv, ZombieTypeOK
  <2>3. field # "reason"
      BY <1>4, <2>1 DEF Storing, InDealloc
  <2>4. lastException'.address = self
    <3>1. CASE field = "address"
        BY <1>5, <3>1
    <3>2. CASE field = "name"
      <4>1. Storing(t)
          BY <1>2, <3>2 DEF Storing, InDealloc
      <4>2. lastException.address = self
          BY <2>2, <4>1 DEF ZombieInv, StoringOwned
      <4> QED BY <1>5, <3>2, <4>2
    <3> QED BY <2>3, <3>1, <3>2
  <2>5. dying'[t].at = "name" => field = "name"
      BY <1>4
  <2> HIDE DEF self, before, after
  <2> QED BY <1>4, <1>5, <2>1, <2>4, <2>5
<1>14. ZombieNamesRight'
  <2> SUFFICES ASSUME NEW b \in Addresses, slot.object = b, slot.class # Nil, ~crossed,
                      \A u \in AppThreads : ~InDealloc(u, {"object"})'
               PROVE  slot.class = IF \E u \in AppThreads : dying'[u].self = b THEN object[b].class ELSE truth[b]
      BY <1>1 DEF ZombieNamesRight, ClassName
  <2>1. \A u \in AppThreads : dying'[u].self = dying[u].self
      BY <1>4
  <2>2. \A u \in AppThreads : ~InDealloc(u, {"object"})
    <3> SUFFICES ASSUME NEW u \in AppThreads PROVE dying[u].at # "object"
        BY DEF InDealloc
    <3>1. CASE u = t
        BY <1>2, <3>1
    <3>2. CASE u # t
        BY <1>4, <3>2 DEF InDealloc
    <3> QED BY <3>1, <3>2
  <2>3. slot.class = IF \E u \in AppThreads : dying[u].self = b THEN object[b].class ELSE truth[b]
      BY <2>2 DEF ZombieInv, ZombieNamesRight, ClassName
  <2> QED BY <2>1, <2>3
<1>15. ExceptionWhole'
  <2> SUFFICES ASSUME NEW u \in AppThreads, NEW b \in Addresses,
                      dying'[u] = [at |-> "freed", self |-> b], lastException'.address = b, ~overlapped',
                      object[b].name # Nil, object[b].reason # Nil,
                      \A v \in AppThreads \ {u} : ~Storing(v)'
               PROVE  lastException'.name = object[b].name /\ lastException'.reason = object[b].reason
    <3>1. UNCHANGED object
        BY <1>1
    <3> QED BY <3>1 DEF ExceptionWhole
  <2>1. ~overlapped
      BY <1>1 DEF ZombieInv, ZombieTypeOK
  \* The address in the last exception is that of the thread that stores it.
  <2>2. lastException'.address = self
    <3>1. CASE field = "address"
        BY <1>5, <3>1
    <3>2. CASE field \in {"name", "reason"}
      <4>1. Storing(t)
          BY <1>2, <3>2 DEF Storing, InDealloc
      <4>2. lastException.address = self
          BY <2>1, <4>1 DEF ZombieInv, StoringOwned
      <4> QED BY <1>5, <3>2, <4>2
    <3> QED BY <3>1, <3>2
  <2>3. u = t
    <3>1. dying'[u].self = self /\ dying'[t].self = self
        BY <1>4, <2>2
    <3> QED BY <1>3, <1>10, <3>1 DEF OneDealloc
  <2>4. field = "reason" /\ b = self
      BY <1>4, <2>3
  <2>5. lastException.name = object[self].name
    <3>1. Storing(t) /\ InDealloc(t, {"name"})
        BY <1>2, <2>4 DEF Storing, InDealloc
    <3> QED BY <2>1, <2>4, <3>1 DEF ZombieInv, StoringOwned
  <2> HIDE DEF self, before, after
  <2> QED BY <1>5, <2>4, <2>5
<1> QED BY <1>7, <1>8, <1>10, <1>11, <1>12, <1>13, <1>14, <1>15 DEF ZombieInv

\* The end of a dealloc: what was there is now what was last deallocated there.
LEMMA FreeKeeps ==
    ASSUME ZombieInv, NEW t \in AppThreads, Free(t)
    PROVE  ZombieInv'
<1> DEFINE self == dying[t].self
<1>0. /\ UNCHANGED <<zombieEnabled, zombieHooked, slot, lastException, allocated, crossed, overlapped>>
      /\ dying[t].at = "freed" /\ self \in Addresses /\ Alive(self) /\ self # Nil /\ object[self] \in Objects
      /\ Nil \notin Addresses
    BY ZombieCacheAssumption DEF Free, InDealloc, ZombieInv, ZombieTypeOK, OneDealloc
<1>1. /\ dying' \in [AppThreads -> Deallocs] /\ dying'[t].self = Nil /\ dying'[t].at = "out"
      /\ \A u \in AppThreads \ {t} : dying'[u] = dying[u]
  <2>1. dying' = [dying EXCEPT ![t] = [at |-> "out", self |-> Nil]]
      BY DEF Free
  <2>2. ZombieTypeOK /\ "out" \in Ats /\ Nil \in Addresses \cup {Nil}
      BY DEF ZombieInv, Ats
  <2> QED BY <2>1, <2>2, DyingIs
<1>2. /\ object' \in [Addresses -> Objects] /\ object'[self] = NoObject
      /\ \A b \in Addresses \ {self} : object'[b] = object[b]
      /\ truth' \in [Addresses -> Classes \cup {Nil}] /\ truth'[self] = object[self].class
      /\ \A b \in Addresses \ {self} : truth'[b] = truth[b]
  <2>1. object \in [Addresses -> Objects] /\ truth \in [Addresses -> Classes \cup {Nil}]
      BY DEF ZombieInv, ZombieTypeOK
  <2>2. object' = [object EXCEPT ![self] = NoObject] /\ truth' = [truth EXCEPT ![self] = object[self].class]
      BY DEF Free
  <2>3. object[self].class \in Classes \cup {Nil} /\ NoObject \in Objects
      BY <1>0 DEF Objects, NoObject
  <2> HIDE DEF self
  <2> QED BY <1>0, <2>1, <2>2, <2>3
<1> HIDE DEF self
<1>3. \A u \in AppThreads \ {t} : dying'[u].self # self /\ (dying'[u].self # Nil => dying'[u].self \in Addresses)
    BY <1>0, <1>1 DEF ZombieInv, OneDealloc, self, Deallocs
<1>4. ZombieTypeOK'
    BY <1>0, <1>1, <1>2 DEF ZombieInv, ZombieTypeOK, Deallocs, Ats
<1>5. HookedOnce'
    BY <1>0, <1>1 DEF ZombieInv, HookedOnce, InDealloc
<1>6. OneDealloc'
    BY <1>0, <1>1, <1>2, <1>3 DEF ZombieInv, OneDealloc, Alive
<1>7. OnlyNamed'
    BY <1>0, <1>2 DEF ZombieInv, OnlyNamed, NoObject
<1>8. SlotOwned'
    BY <1>0, <1>1 DEF ZombieInv, SlotOwned, InDealloc
<1>9. StoringOwned'
  <2> SUFFICES ASSUME ~overlapped, NEW u \in AppThreads, Storing(u)'
               PROVE  /\ lastException.address = dying'[u].self
                      /\ dying'[u].at = "name" /\ object'[dying'[u].self].name # Nil =>
                            lastException.name = object'[dying'[u].self].name
      BY <1>0 DEF StoringOwned, InDealloc
  <2>1. u # t
      BY <1>1 DEF Storing, InDealloc
  <2>2. dying'[u] = dying[u] /\ Storing(u) /\ dying[u].self \in Addresses \ {self}
    <3>1. dying'[u] = dying[u] /\ Storing(u)
        BY <1>1, <2>1 DEF Storing, InDealloc
    <3>2. dying[u].self # Nil
        BY <3>1 DEF ZombieInv, OneDealloc, Storing, InDealloc
    <3> QED BY <1>3, <2>1, <3>1, <3>2
  <2>3. object'[dying[u].self] = object[dying[u].self]
      BY <1>2, <2>2
  <2> QED BY <2>2, <2>3 DEF ZombieInv, StoringOwned, InDealloc
<1>10. ZombieNamesRight'
  <2> SUFFICES ASSUME NEW b \in Addresses, slot.object = b, slot.class # Nil, ~crossed,
                      \A u \in AppThreads : ~InDealloc(u, {"object"})'
               PROVE  slot.class = IF \E u \in AppThreads : dying'[u].self = b THEN object'[b].class ELSE truth'[b]
      BY <1>0 DEF ZombieNamesRight, ClassName
  <2>2. \A u \in AppThreads : ~InDealloc(u, {"object"})
      BY <1>0, <1>1 DEF InDealloc
  <2>3. slot.class = IF \E u \in AppThreads : dying[u].self = b THEN object[b].class ELSE truth[b]
      BY <2>2 DEF ZombieInv, ZombieNamesRight, ClassName
  <2>4. CASE b = self
    <3>1. ~\E u \in AppThreads : dying'[u].self = b
        BY <1>0, <1>1, <1>3, <2>4
    <3>2. \E u \in AppThreads : dying[u].self = b
        BY <2>4 DEF self
    <3> QED BY <1>2, <2>3, <2>4, <3>1, <3>2
  <2>5. CASE b # self
    <3>1. (\E u \in AppThreads : dying'[u].self = b) => \E u \in AppThreads : dying[u].self = b
        BY <1>0, <1>1
    <3>2. (\E u \in AppThreads : dying[u].self = b) => \E u \in AppThreads : dying'[u].self = b
        BY <1>0, <1>1, <2>5 DEF self
    <3> QED BY <1>2, <2>3, <2>5, <3>1, <3>2
  <2> QED BY <2>4, <2>5
<1>11. ExceptionWhole'
  <2> SUFFICES ASSUME NEW u \in AppThreads, NEW b \in Addresses,
                      dying'[u] = [at |-> "freed", self |-> b], lastException.address = b, ~overlapped,
                      object'[b].name # Nil, object'[b].reason # Nil,
                      \A v \in AppThreads \ {u} : ~Storing(v)'
               PROVE  lastException.name = object'[b].name /\ lastException.reason = object'[b].reason
    <3>1. UNCHANGED <<lastException, overlapped>>
        BY <1>0
    <3> QED BY <3>1 DEF ExceptionWhole
  <2>1. u # t
      BY <1>1
  <2>2. dying[u] = [at |-> "freed", self |-> b] /\ b # self
      BY <1>1, <1>3, <2>1
  <2>3. object'[b] = object[b]
      BY <1>2, <2>2
  <2>4. \A v \in AppThreads \ {u} : ~Storing(v)
      BY <1>0, <1>1 DEF Storing, InDealloc
  <2> QED BY <2>2, <2>3, <2>4, Zenon DEF ZombieInv, ExceptionWhole
<1> QED BY <1>4, <1>5, <1>6, <1>7, <1>8, <1>9, <1>10, <1>11 DEF ZombieInv

\* What a crash handler tells of deallocated objects and of the last exception is
\* true, wherever among their steps the deallocs of the application were stopped:
\* for any threads, any addresses that share the slot, and any exceptions.
THEOREM ZombieAlwaysTold == ZombieSpec => []ZombieTold
<1>1. ZombieInv /\ [ZombieNext]_zombieVars => ZombieInv'
  <2> SUFFICES ASSUME ZombieInv, [ZombieNext]_zombieVars PROVE ZombieInv'
      OBVIOUS
  <2>1. CASE UNCHANGED zombieVars
    <3>1. /\ ZombieTypeOK' /\ HookedOnce' /\ OneDealloc' /\ OnlyNamed' /\ SlotOwned' /\ StoringOwned'
        BY <2>1 DEF zombieVars, ZombieInv, ZombieTypeOK, HookedOnce, OneDealloc, OnlyNamed, SlotOwned,
                    StoringOwned, InDealloc, Storing, Alive
    <3>2. ZombieNamesRight' /\ ExceptionWhole'
        BY <2>1 DEF zombieVars, ZombieInv, ZombieNamesRight, ExceptionWhole, InDealloc, Storing, ClassName
    <3> QED BY <3>1, <3>2 DEF ZombieInv
  <2>2. CASE ZombieNext
      BY <2>2, SetZombieEnabledKeeps, AllocateKeeps, NoteObjectKeeps, NoteClassKeeps, NoteExceptionKeeps,
         FreeKeeps DEF ZombieNext
  <2> QED BY <2>1, <2>2
<1>2. ZombieInv => ZombieTold
    BY DEF ZombieInv, ZombieTold
<1> QED BY <1>1, <1>2, ZombieStarts, PTL DEF ZombieSpec

-----------------------------------------------------------------------------
(* The application's settings.  The blocks of the two setters are kept apart,
   so each of them is followed on its own: the mutex keeps the setters of the
   user information apart from each other, and where no two calls that set
   classes meet, the history variable met says as much of those.             *)

\* The blocks a variable or a setter at work shows.
OnInfo(b) == b = userInfo \/ \E s \in Setters : At(s, InfoSteps) /\ b = setting[s].block
OnClass(b) ==
    b = classes \/ \E s \in Setters : At(s, ClassSteps) /\ b \in {setting[s].block, setting[s].old}

Apart ==
    /\ \A b \in Blocks : b # 0 /\ OnInfo(b) => ~OnClass(b)
    /\ \A b \in Blocks : OnInfo(b) \/ OnClass(b) => b <= calls
    /\ \A b \in Blocks : b > calls => freedBlocks[b] = 0
    /\ freedBlocks[0] = 0 /\ length[0] = 0

\* Of the setters of the user information one is at work, with a block of its own;
\* the report decodes the block shown until a setter comes.
InfoInv ==
    /\ \A s, t \in Setters : At(s, InfoSteps) /\ At(t, InfoSteps) => s = t
    /\ \A s \in Setters : At(s, InfoSteps) => /\ setting[s].block \notin {0, userInfo}
                                             /\ freedBlocks[setting[s].block] = 0
    /\ userInfo # 0 /\ (\A s \in Setters : ~At(s, {"freed"})) => freedBlocks[userInfo] = 0
    /\ copying # 0 /\ ~shared => copying = userInfo /\ \A s \in Setters : ~At(s, InfoSteps)

\* Of the setters of classes one is at work, with the array it makes and the one it frees.
ClassInv ==
    /\ \A s, t \in Setters : At(s, ClassSteps) /\ At(t, ClassSteps) => s = t
    /\ classes # 0 => freedBlocks[classes] = 0
    /\ \A s \in Setters : At(s, {"made"}) =>
          /\ setting[s].old = classes
          /\ setting[s].block # 0 => setting[s].block # classes /\ freedBlocks[setting[s].block] = 0
    /\ \A s \in Setters : At(s, {"pointed", "counted"}) =>
          /\ setting[s].block = classes
          /\ setting[s].old # 0 => setting[s].old # classes /\ freedBlocks[setting[s].old] = 0
    /\ (\A s \in Setters : ~At(s, {"pointed"})) => classCount = length[classes]

OnceInv == \A b \in Blocks : freedBlocks[b] <= 1

SettingsInv == UserDataTypeOK /\ Apart /\ InfoInv /\ (~met => ClassInv /\ OnceInv)

LEMMA SettingsInit == UserDataInit => SettingsInv
<1> SUFFICES ASSUME UserDataInit PROVE SettingsInv
    OBVIOUS
<1>1. 0 \in Blocks /\ NoSetting \in Setting
    BY UserDataAssumption DEF Blocks, NoSetting, Setting
<1>2. UserDataTypeOK
    BY <1>1 DEF UserDataInit, UserDataTypeOK
<1>3. \A s \in Setters : ~At(s, InfoSteps) /\ ~At(s, ClassSteps) /\ setting[s].in = "out"
    BY DEF UserDataInit, At, NoSetting, InfoSteps, ClassSteps
<1>4. Apart
    BY <1>1, <1>3 DEF UserDataInit, Apart, OnInfo, OnClass, Blocks
<1>5. InfoInv
    BY <1>3 DEF UserDataInit, InfoInv
<1>6. ClassInv /\ OnceInv
    BY <1>1, <1>3 DEF UserDataInit, ClassInv, OnceInv, At
<1> QED BY <1>2, <1>4, <1>5, <1>6 DEF SettingsInv

LEMMA FreedIs ==
    ASSUME freedBlocks \in [Blocks -> Nat], NEW x \in Blocks
    PROVE  /\ Freed(x) \in [Blocks -> Nat]
           /\ \A b \in Blocks : b = 0 \/ b # x => Freed(x)[b] = freedBlocks[b]
           /\ Freed(x)[x] <= freedBlocks[x] + 1
<1>1. CASE x = 0
    BY <1>1 DEF Freed
<1>2. CASE x # 0
    BY <1>2 DEF Freed
<1> QED BY <1>1, <1>2

LEMMA SettingsStep == SettingsInv /\ [UserDataNext]_userDataVars => SettingsInv'
<1> SUFFICES ASSUME SettingsInv, [UserDataNext]_userDataVars PROVE SettingsInv'
    OBVIOUS
<1>0. UserDataTypeOK /\ Apart /\ InfoInv /\ (~met => ClassInv /\ OnceInv)
    BY DEF SettingsInv
<1>types. /\ MaxCalls \in Nat /\ calls \in Nat /\ calls <= MaxCalls
      /\ userInfo \in Blocks /\ classes \in Blocks /\ copying \in Blocks
      /\ 0 \in Blocks /\ \A b \in Blocks : b \in Nat
    BY <1>0, UserDataAssumption DEF UserDataTypeOK, Blocks
<1>1. CASE \E s \in Setters : LockInfo(s)
  <2>1. PICK s \in Setters : LockInfo(s)
      BY <1>1
  <2> DEFINE r == [in |-> "locked", block |-> calls + 1, old |-> 0]
  <2>2. r \in Setting /\ r.in = "locked" /\ r.block = calls + 1 /\ r.old = 0
    <3>1. calls + 1 \in Blocks
        BY <1>types, <2>1 DEF LockInfo, Blocks
    <3> QED BY <1>types, <3>1 DEF Setting
  <2>3. setting' = [setting EXCEPT ![s] = r]
      BY <2>1 DEF LockInfo
  <2>4. setting' \in [Setters -> Setting] /\ setting'[s] = r /\ \A t \in Setters \ {s} : setting'[t] = setting[t]
      BY <1>0, <2>2, <2>3 DEF UserDataTypeOK
  <2> HIDE DEF r
  <2>5. /\ calls < MaxCalls /\ calls' = calls + 1 /\ calls' \in Blocks
        /\ UNCHANGED <<userInfo, classes, classCount, length, freedBlocks, copying, met>>
      BY <1>types, <2>1 DEF LockInfo, Blocks
  <2>shared. shared' \in BOOLEAN /\ (copying # 0 => shared')
      BY <1>0, <2>1, Zenon DEF LockInfo, UserDataTypeOK
  <2>6. setting[s].in = "out" /\ \A t \in Setters : setting[t].in \notin InfoSteps
      BY <2>1 DEF LockInfo, At, MutexFree
  <2>7. UserDataTypeOK'
      BY <1>0, <2>4, <2>5, <2>shared DEF UserDataTypeOK
  <2>8. Apart'
    <3>1. \A b \in Blocks : OnInfo(b)' => OnInfo(b) \/ b = calls + 1
        BY <2>2, <2>4, <2>5, <2>6, Zenon DEF OnInfo, At
    <3>2. \A b \in Blocks : OnClass(b)' => OnClass(b)
      <4>1. "locked" \notin ClassSteps
          BY DEF ClassSteps
      <4> QED BY <2>2, <2>4, <2>5, <4>1, Zenon DEF OnClass, At
    <3>3. ~OnClass(calls + 1)
        BY <1>0, <2>5 DEF Apart, UserDataTypeOK, Blocks
    <3>4. ~OnInfo(calls + 1)
        BY <1>0, <1>types, <2>5 DEF Apart
    <3> HIDE DEF r
    <3> QED BY <1>0, <1>types, <2>5, <3>1, <3>2, <3>3, <3>4 DEF Apart
  <2>9. InfoInv'
    <3>1. \A t \in Setters : At(t, InfoSteps)' => t = s
        BY <2>4, <2>6, Zenon DEF At
    <3>2. /\ setting'[s].block \notin {0, userInfo'}
          /\ freedBlocks'[setting'[s].block] = 0
        BY <1>0, <2>2, <2>4, <2>5 DEF Apart, OnInfo, UserDataTypeOK, Blocks
    <3>3. /\ \A t \in Setters : ~At(t, {"freed"})
          /\ \A t \in Setters : ~At(t, {"freed"})'
        BY <2>2, <2>4, <2>6 DEF At, InfoSteps
    <3> QED BY <1>0, <2>5, <2>shared, <3>1, <3>2, <3>3, Zenon DEF InfoInv
  <2>10. ~met' => ClassInv' /\ OnceInv'
      BY <1>0, <2>2, <2>4, <2>5, <2>6 DEF ClassInv, OnceInv, At, InfoSteps, ClassSteps
  <2> QED BY <2>7, <2>8, <2>9, <2>10 DEF SettingsInv
<1>2. CASE \E s \in Setters : FreeInfo(s)
  <2>1. PICK s \in Setters : FreeInfo(s)
      BY <1>2
  <2>2. /\ setting[s].in = "locked" /\ freedBlocks' = Freed(userInfo)
        /\ setting' = [setting EXCEPT ![s].in = "freed"]
        /\ UNCHANGED <<userInfo, classes, classCount, length, calls, copying, met, shared>>
      BY <2>1 DEF FreeInfo, At
  <2>3. /\ setting' \in [Setters -> Setting] /\ setting'[s].in = "freed"
        /\ setting'[s].block = setting[s].block
        /\ \A t \in Setters \ {s} : setting'[t] = setting[t]
      BY <1>0, <2>2 DEF UserDataTypeOK, Setting
  <2>4. /\ freedBlocks' \in [Blocks -> Nat]
        /\ \A b \in Blocks : b = 0 \/ b # userInfo => freedBlocks'[b] = freedBlocks[b]
        /\ freedBlocks'[userInfo] <= freedBlocks[userInfo] + 1
      BY <1>0, <1>types, <2>2, FreedIs DEF UserDataTypeOK
  <2>5. UserDataTypeOK'
      BY <1>0, <2>2, <2>3, <2>4 DEF UserDataTypeOK
  <2>6. At(s, InfoSteps) /\ ~At(s, ClassSteps) /\ At(s, InfoSteps)' /\ ~At(s, ClassSteps)'
      BY <2>2, <2>3 DEF At, InfoSteps, ClassSteps
  <2>7. \A t \in Setters : t # s => ~At(t, InfoSteps) /\ ~At(t, {"freed"})
    <3>1. \A t \in Setters : t # s => ~At(t, InfoSteps)
        BY <1>0, <2>6, Zenon DEF InfoInv
    <3>2. \A t \in Setters : At(t, {"freed"}) => At(t, InfoSteps)
        BY DEF At, InfoSteps
    <3> QED BY <3>1, <3>2
  <2>8. /\ \A b \in Blocks : OnInfo(b)' => OnInfo(b)
        /\ \A b \in Blocks : OnClass(b)' => OnClass(b)
    <3>1. \A b \in Blocks : OnInfo(b)' => OnInfo(b)
        BY <2>2, <2>3, <2>6 DEF OnInfo, At
    <3>2. \A b \in Blocks : OnClass(b)' => OnClass(b)
        BY <2>2, <2>3, <2>6 DEF OnClass, At
    <3> QED BY <3>1, <3>2
  <2>9. OnInfo(userInfo)
      BY Zenon DEF OnInfo
  <2>10. Apart'
      BY <1>0, <1>types, <2>2, <2>4, <2>8, <2>9 DEF Apart
  <2>11. InfoInv'
    <3>1. setting[s].block \in Blocks /\ setting[s].block \notin {0, userInfo} /\ freedBlocks[setting[s].block] = 0
        BY <1>0, <2>6 DEF InfoInv, UserDataTypeOK, Setting
    <3>2. \A t \in Setters : At(t, InfoSteps)' => t = s
        BY <2>3, <2>7, Zenon DEF At
    <3>3. At(s, {"freed"})' /\ (copying # 0 => shared)
        BY <1>0, <2>3, <2>6 DEF At, InfoInv
    <3> QED BY <2>2, <2>3, <2>4, <3>1, <3>2, <3>3 DEF InfoInv
  <2>12. ASSUME ~met PROVE ClassInv' /\ OnceInv'
    <3>1. \A b \in Blocks : OnClass(b) => freedBlocks'[b] = freedBlocks[b]
        BY <1>0, <1>types, <2>4, <2>9 DEF Apart
    <3>2. OnClass(classes) /\ \A t \in Setters : At(t, ClassSteps) => OnClass(setting[t].block) /\ OnClass(setting[t].old)
        BY DEF OnClass
    <3>3. \A t \in Setters : setting[t].block \in Blocks /\ setting[t].old \in Blocks
        BY <1>0 DEF UserDataTypeOK, Setting
    <3>4. \A t \in Setters : At(t, ClassSteps)' => t # s /\ At(t, ClassSteps)
        BY <2>3, <2>6, Zenon DEF At
    <3>5. freedBlocks[userInfo] = 0
        BY <1>0, <2>2, <2>7 DEF InfoInv, Apart, At
    <3>6. OnceInv'
        BY <1>0, <1>types, <2>4, <2>12, <3>5 DEF OnceInv, UserDataTypeOK
    <3>7. ClassInv'
        BY <1>0, <1>types, <2>2, <2>3, <2>12, <3>1, <3>2, <3>3, <3>4 DEF ClassInv, At, ClassSteps
    <3> QED BY <3>6, <3>7
  <2> QED BY <2>2, <2>5, <2>10, <2>11, <2>12 DEF SettingsInv
<1>3. CASE \E s \in Setters : ReplaceInfo(s)
  <2>1. PICK s \in Setters : ReplaceInfo(s)
      BY <1>3
  <2>2. /\ setting[s].in = "freed" /\ userInfo' \in {0, setting[s].block}
        /\ setting' = [setting EXCEPT ![s] = NoSetting]
        /\ UNCHANGED <<classes, classCount, length, freedBlocks, calls, copying, met, shared>>
      BY <2>1 DEF ReplaceInfo, At, Replaced
  <2>3. /\ setting' \in [Setters -> Setting] /\ setting'[s].in = "out"
        /\ \A t \in Setters \ {s} : setting'[t] = setting[t]
    <3>1. NoSetting \in Setting /\ NoSetting.in = "out"
        BY <1>types DEF NoSetting, Setting
    <3> QED BY <1>0, <2>2, <3>1 DEF UserDataTypeOK
  <2>4. At(s, InfoSteps) /\ ~At(s, ClassSteps) /\ ~At(s, InfoSteps)' /\ ~At(s, ClassSteps)'
      BY <2>2, <2>3 DEF At, InfoSteps, ClassSteps
  <2>5. setting[s].block \in Blocks /\ OnInfo(setting[s].block) /\ freedBlocks[setting[s].block] = 0
      BY <1>0, <2>4 DEF InfoInv, UserDataTypeOK, Setting, OnInfo
  <2>6. UserDataTypeOK'
      BY <1>0, <1>types, <2>2, <2>3, <2>5 DEF UserDataTypeOK
  <2>7. /\ \A b \in Blocks : OnInfo(b)' => b = 0 \/ OnInfo(b)
        /\ \A b \in Blocks : OnClass(b)' => OnClass(b)
      BY <2>2, <2>3, <2>4, <2>5 DEF OnInfo, OnClass, At
  <2>8. Apart'
      BY <1>0, <1>types, <2>2, <2>7 DEF Apart
  <2>9. InfoInv'
    <3>1. \A t \in Setters : ~At(t, InfoSteps)'
        BY <1>0, <2>3, <2>4, Zenon DEF At, InfoInv
    <3>2. copying # 0 => shared
        BY <1>0, <2>4, Zenon DEF InfoInv
    <3> QED BY <2>2, <2>5, <3>1, <3>2 DEF InfoInv
  <2>10. ASSUME ~met PROVE ClassInv' /\ OnceInv'
    <3>1. \A t \in Setters : At(t, ClassSteps)' => t # s /\ At(t, ClassSteps)
        BY <2>3, <2>4, Zenon DEF At
    <3> QED BY <1>0, <2>2, <2>3, <2>10, <3>1 DEF ClassInv, OnceInv, At, ClassSteps
  <2> QED BY <2>2, <2>6, <2>8, <2>9, <2>10 DEF SettingsInv
<1>4. CASE \E s \in Setters, n \in 0..2 : MakeClasses(s, n)
  <2>1. PICK s \in Setters, n \in 0..2 : MakeClasses(s, n)
      BY <1>4
  <2> DEFINE new == IF n = 0 THEN 0 ELSE calls + 1
             r == [in |-> "made", old |-> classes, block |-> new]
  <2>2. /\ setting[s].in = "out" /\ setting' = [setting EXCEPT ![s] = r]
        /\ calls < MaxCalls /\ calls' = calls + 1
        /\ UNCHANGED <<userInfo, classes, classCount, freedBlocks, copying, shared>>
      BY <2>1 DEF MakeClasses, At
  <2>new. new \in Blocks /\ (new = 0 \/ new = calls + 1) /\ calls + 1 \in Blocks
      BY <1>types, <2>2 DEF Blocks
  <2>record. r \in Setting /\ r.in = "made" /\ r.old = classes /\ r.block = new
      BY <1>types, <2>new DEF Setting
  <2> HIDE DEF new, r
  <2>3. /\ setting' \in [Setters -> Setting] /\ setting'[s] = r
        /\ \A t \in Setters \ {s} : setting'[t] = setting[t]
      BY <1>0, <2>2, <2>record DEF UserDataTypeOK
  <2>4. ~At(s, InfoSteps) /\ ~At(s, ClassSteps) /\ ~At(s, InfoSteps)' /\ At(s, ClassSteps)'
      BY <2>2, <2>3, <2>record DEF At, InfoSteps, ClassSteps
  <2>5. /\ length' \in [Blocks -> Nat]
        /\ \A b \in Blocks : b # calls + 1 => length'[b] = length[b]
    <3>1. CASE n = 0
      <4>1. length' = length
          BY <2>1, <3>1, Zenon DEF MakeClasses
      <4> QED BY <1>0, <4>1 DEF UserDataTypeOK
    <3>2. CASE n # 0
      <4>1. length' = [length EXCEPT ![calls + 1] = n] /\ n \in Nat
        <5>1. n \in Nat
            OBVIOUS
        <5> QED BY <2>1, <3>2, <5>1, Zenon DEF MakeClasses
      <4> QED BY <1>0, <4>1 DEF UserDataTypeOK
    <3> QED BY <3>1, <3>2
  <2>6. met' \in BOOLEAN /\ (met => met') /\ (~met' => \A t \in Setters : ~At(t, ClassSteps))
      BY <1>0, <2>1, Zenon DEF MakeClasses, UserDataTypeOK
  <2>7. UserDataTypeOK'
      BY <1>0, <2>2, <2>3, <2>5, <2>6, <2>new DEF UserDataTypeOK
  <2>8. ~OnInfo(calls + 1) /\ ~OnClass(calls + 1) /\ freedBlocks[calls + 1] = 0
      BY <1>0, <1>types, <2>new DEF Apart
  <2>9. /\ \A b \in Blocks : OnInfo(b)' => OnInfo(b)
        /\ \A b \in Blocks : OnClass(b)' => OnClass(b) \/ b = new
    <3>1. \A b \in Blocks : OnInfo(b)' => OnInfo(b)
        BY <2>2, <2>3, <2>4 DEF OnInfo, At
    <3>2. \A b \in Blocks : OnClass(b)' => OnClass(b) \/ b = new
        BY <2>2, <2>3, <2>record DEF OnClass, At
    <3> QED BY <3>1, <3>2
  <2>10. Apart'
      BY <1>0, <1>types, <2>2, <2>5, <2>8, <2>9, <2>new DEF Apart
  <2>11. InfoInv'
    <3>1. \A t \in Setters : t # s => (At(t, InfoSteps)' <=> At(t, InfoSteps)) /\ (At(t, {"freed"})' <=> At(t, {"freed"}))
        BY <2>3 DEF At
    <3>2. ~At(s, {"freed"}) /\ ~At(s, {"freed"})'
        BY <2>2, <2>3, <2>record DEF At
    <3> QED BY <1>0, <1>types, <2>2, <2>3, <2>4, <3>1, <3>2 DEF InfoInv
  <2>12. ASSUME ~met' PROVE ClassInv' /\ OnceInv'
    <3>1. \A t \in Setters : At(t, ClassSteps)' => t = s
        BY <2>3, <2>6, <2>12, Zenon DEF At
    <3>2. At(s, {"made"})' /\ ~At(s, {"pointed", "counted"})'
        BY <2>3, <2>record DEF At
    <3>3. \A t \in Setters : ~At(t, {"pointed"})
        BY <2>6, <2>12 DEF At, ClassSteps
    <3>4. classes # calls + 1 /\ length'[classes] = length[classes]
        BY <1>types, <2>5, <2>8 DEF OnClass
    <3>5. \A t \in Setters : At(t, {"made"})' \/ At(t, {"pointed", "counted"})' => t = s
        BY <3>1 DEF At, ClassSteps
    <3>6. freedBlocks[new] = 0 /\ (new # 0 => new # classes)
        BY <1>0, <2>8, <2>new, <3>4 DEF Apart
    <3>7. ClassInv /\ OnceInv
        BY <1>0, <2>6, <2>12
    <3> QED BY <2>2, <2>3, <2>record, <3>1, <3>2, <3>3, <3>4, <3>5, <3>6, <3>7 DEF ClassInv, OnceInv
  <2> QED BY <2>7, <2>10, <2>11, <2>12 DEF SettingsInv
<1>5. CASE \E s \in Setters : ShowClasses(s)
  <2>1. PICK s \in Setters : ShowClasses(s)
      BY <1>5
  <2>2. /\ setting[s].in = "made" /\ classes' = setting[s].block
        /\ setting' = [setting EXCEPT ![s].in = "pointed"]
        /\ UNCHANGED <<userInfo, classCount, length, freedBlocks, calls, copying, met, shared>>
      BY <2>1 DEF ShowClasses, At
  <2>3. /\ setting' \in [Setters -> Setting] /\ setting'[s].in = "pointed"
        /\ setting'[s].block = setting[s].block /\ setting'[s].old = setting[s].old
        /\ \A t \in Setters \ {s} : setting'[t] = setting[t]
      BY <1>0, <2>2 DEF UserDataTypeOK, Setting
  <2>4. ~At(s, InfoSteps) /\ At(s, ClassSteps) /\ ~At(s, InfoSteps)' /\ At(s, ClassSteps)'
      BY <2>2, <2>3 DEF At, InfoSteps, ClassSteps
  <2>5. setting[s].block \in Blocks /\ setting[s].old \in Blocks
      BY <1>0 DEF UserDataTypeOK, Setting
  <2>6. UserDataTypeOK'
      BY <1>0, <2>2, <2>3, <2>5 DEF UserDataTypeOK
  <2>7. /\ \A b \in Blocks : OnInfo(b)' => OnInfo(b)
        /\ \A b \in Blocks : OnClass(b)' => OnClass(b)
    <3>1. \A b \in Blocks : OnInfo(b)' => OnInfo(b)
        BY <2>2, <2>3, <2>4 DEF OnInfo, At
    <3>2. \A b \in Blocks : OnClass(b)' => OnClass(b)
        BY <2>2, <2>3, <2>4 DEF OnClass, At
    <3> QED BY <3>1, <3>2
  <2>8. Apart'
      BY <1>0, <2>2, <2>7 DEF Apart
  <2>9. InfoInv'
    <3>1. \A t \in Setters : t # s => (At(t, InfoSteps)' <=> At(t, InfoSteps)) /\ (At(t, {"freed"})' <=> At(t, {"freed"}))
        BY <2>3 DEF At
    <3>2. ~At(s, {"freed"}) /\ ~At(s, {"freed"})'
        BY <2>2, <2>3 DEF At
    <3> QED BY <1>0, <1>types, <2>2, <2>3, <2>4, <3>1, <3>2 DEF InfoInv
  <2>10. ASSUME ~met PROVE ClassInv' /\ OnceInv'
    <3>1. ClassInv /\ OnceInv
        BY <1>0, <2>10
    <3>2. \A t \in Setters : At(t, ClassSteps)' => t = s
        BY <2>3, <2>4, <3>1, Zenon DEF At, ClassInv
    <3>3. /\ setting[s].old = classes /\ (classes # 0 => freedBlocks[classes] = 0)
          /\ setting[s].block # 0 => setting[s].block # classes /\ freedBlocks[setting[s].block] = 0
        BY <2>2, <3>1 DEF ClassInv, At
    <3>4. At(s, {"pointed"})' /\ At(s, {"pointed", "counted"})' /\ ~At(s, {"made"})'
        BY <2>3 DEF At
    <3>5. \A t \in Setters : At(t, {"made"})' \/ At(t, {"pointed", "counted"})' => t = s
        BY <3>2 DEF At, ClassSteps
    <3> QED BY <2>2, <2>3, <3>1, <3>2, <3>3, <3>4, <3>5 DEF ClassInv, OnceInv
  <2> QED BY <2>2, <2>6, <2>8, <2>9, <2>10 DEF SettingsInv
<1>6. CASE \E s \in Setters : CountClasses(s)
  <2>1. PICK s \in Setters : CountClasses(s)
      BY <1>6
  <2>2. /\ setting[s].in = "pointed" /\ classCount' = length[setting[s].block]
        /\ setting' = [setting EXCEPT ![s].in = "counted"]
        /\ UNCHANGED <<userInfo, classes, length, freedBlocks, calls, copying, met, shared>>
      BY <2>1 DEF CountClasses, CountOf, At
  <2>3. /\ setting' \in [Setters -> Setting] /\ setting'[s].in = "counted"
        /\ setting'[s].block = setting[s].block /\ setting'[s].old = setting[s].old
        /\ \A t \in Setters \ {s} : setting'[t] = setting[t]
      BY <1>0, <2>2 DEF UserDataTypeOK, Setting
  <2>4. ~At(s, InfoSteps) /\ At(s, ClassSteps) /\ ~At(s, InfoSteps)' /\ At(s, ClassSteps)'
      BY <2>2, <2>3 DEF At, InfoSteps, ClassSteps
  <2>5. setting[s].block \in Blocks
      BY <1>0 DEF UserDataTypeOK, Setting
  <2>6. UserDataTypeOK'
      BY <1>0, <2>2, <2>3, <2>5 DEF UserDataTypeOK
  <2>7. /\ \A b \in Blocks : OnInfo(b)' => OnInfo(b)
        /\ \A b \in Blocks : OnClass(b)' => OnClass(b)
    <3>1. \A b \in Blocks : OnInfo(b)' => OnInfo(b)
        BY <2>2, <2>3, <2>4 DEF OnInfo, At
    <3>2. \A b \in Blocks : OnClass(b)' => OnClass(b)
        BY <2>2, <2>3, <2>4 DEF OnClass, At
    <3> QED BY <3>1, <3>2
  <2>8. Apart'
      BY <1>0, <2>2, <2>7 DEF Apart
  <2>9. InfoInv'
    <3>1. \A t \in Setters : t # s => (At(t, InfoSteps)' <=> At(t, InfoSteps)) /\ (At(t, {"freed"})' <=> At(t, {"freed"}))
        BY <2>3 DEF At
    <3>2. ~At(s, {"freed"}) /\ ~At(s, {"freed"})'
        BY <2>2, <2>3 DEF At
    <3> QED BY <1>0, <1>types, <2>2, <2>3, <2>4, <3>1, <3>2 DEF InfoInv
  <2>10. ASSUME ~met PROVE ClassInv' /\ OnceInv'
    <3>1. ClassInv /\ OnceInv
        BY <1>0, <2>10
    <3>2. \A t \in Setters : At(t, ClassSteps)' => t = s
        BY <2>3, <2>4, <3>1, Zenon DEF At, ClassInv
    <3>3. /\ setting[s].block = classes
          /\ setting[s].old # 0 => setting[s].old # classes /\ freedBlocks[setting[s].old] = 0
        BY <2>2, <3>1 DEF ClassInv, At
    <3>4. At(s, {"pointed", "counted"})' /\ ~At(s, {"made"})'
        BY <2>3 DEF At
    <3>5. \A t \in Setters : At(t, {"made"})' \/ At(t, {"pointed", "counted"})' => t = s
        BY <3>2 DEF At, ClassSteps
    <3> QED BY <2>2, <2>3, <3>1, <3>2, <3>3, <3>4, <3>5 DEF ClassInv, OnceInv
  <2> QED BY <2>2, <2>6, <2>8, <2>9, <2>10 DEF SettingsInv
<1>7. CASE \E s \in Setters : FreeClasses(s)
  <2>1. PICK s \in Setters : FreeClasses(s)
      BY <1>7
  <2> DEFINE old == setting[s].old
  <2>2. /\ setting[s].in = "counted" /\ freedBlocks' = Freed(old)
        /\ setting' = [setting EXCEPT ![s] = NoSetting]
        /\ UNCHANGED <<userInfo, classes, classCount, length, calls, copying, met, shared>>
      BY <2>1 DEF FreeClasses, At
  <2>3. /\ setting' \in [Setters -> Setting] /\ setting'[s].in = "out"
        /\ \A t \in Setters \ {s} : setting'[t] = setting[t]
    <3>1. NoSetting \in Setting /\ NoSetting.in = "out"
        BY <1>types DEF NoSetting, Setting
    <3> QED BY <1>0, <2>2, <3>1 DEF UserDataTypeOK
  <2>4. ~At(s, InfoSteps) /\ At(s, ClassSteps) /\ ~At(s, InfoSteps)' /\ ~At(s, ClassSteps)'
      BY <2>2, <2>3 DEF At, InfoSteps, ClassSteps
  <2>5. old \in Blocks /\ OnClass(old)
      BY <1>0, <2>4 DEF UserDataTypeOK, Setting, OnClass
  <2> HIDE DEF old
  <2>6. /\ freedBlocks' \in [Blocks -> Nat]
        /\ \A b \in Blocks : b = 0 \/ b # old => freedBlocks'[b] = freedBlocks[b]
        /\ freedBlocks'[old] <= freedBlocks[old] + 1
      BY <1>0, <2>2, <2>5, FreedIs DEF UserDataTypeOK
  <2>7. UserDataTypeOK'
      BY <1>0, <2>2, <2>3, <2>6 DEF UserDataTypeOK
  <2>8. /\ \A b \in Blocks : OnInfo(b)' => OnInfo(b)
        /\ \A b \in Blocks : OnClass(b)' => OnClass(b)
    <3>1. \A b \in Blocks : OnInfo(b)' => OnInfo(b)
        BY <2>2, <2>3, <2>4 DEF OnInfo, At
    <3>2. \A b \in Blocks : OnClass(b)' => OnClass(b)
        BY <2>2, <2>3, <2>4 DEF OnClass, At
    <3> QED BY <3>1, <3>2
  <2>9. Apart'
      BY <1>0, <1>types, <2>2, <2>5, <2>6, <2>8 DEF Apart
  <2>10. InfoInv'
    <3>1. \A b \in Blocks : OnInfo(b) => freedBlocks'[b] = freedBlocks[b]
        BY <1>0, <1>types, <2>5, <2>6 DEF Apart
    <3>2. \A t \in Setters : t # s => (At(t, InfoSteps)' <=> At(t, InfoSteps)) /\ (At(t, {"freed"})' <=> At(t, {"freed"}))
        BY <2>3 DEF At
    <3>3. ~At(s, {"freed"}) /\ ~At(s, {"freed"})'
        BY <2>2, <2>3 DEF At
    <3>4. OnInfo(userInfo) /\ \A t \in Setters : At(t, InfoSteps) => setting[t].block \in Blocks /\ OnInfo(setting[t].block)
        BY <1>0 DEF OnInfo, UserDataTypeOK, Setting
    <3> QED BY <1>0, <1>types, <2>2, <2>3, <2>4, <3>1, <3>2, <3>3, <3>4 DEF InfoInv
  <2>11. ASSUME ~met PROVE ClassInv' /\ OnceInv'
    <3>1. ClassInv /\ OnceInv
        BY <1>0, <2>11
    <3>2. \A t \in Setters : ~At(t, ClassSteps)'
        BY <2>3, <2>4, <3>1, Zenon DEF At, ClassInv
    <3>3. \A t \in Setters : ~At(t, {"made"})' /\ ~At(t, {"pointed", "counted"})' /\ ~At(t, {"pointed"})
        BY <2>2, <2>3, <3>1, <3>2 DEF At, ClassSteps, ClassInv
    <3>4. old # 0 => old # classes /\ freedBlocks[old] = 0
        BY <2>2, <3>1 DEF ClassInv, At, old
    <3>5. OnceInv'
        BY <1>0, <2>5, <2>6, <3>1, <3>4 DEF OnceInv, UserDataTypeOK
    <3>6. ClassInv'
        BY <1>types, <2>2, <2>6, <3>1, <3>2, <3>3, <3>4 DEF ClassInv
    <3> QED BY <3>5, <3>6
  <2> QED BY <2>2, <2>7, <2>9, <2>10, <2>11 DEF SettingsInv
<1>8. CASE DecodeInfo
  <2>1. /\ copying' = userInfo
        /\ UNCHANGED <<userInfo, classes, classCount, length, freedBlocks, calls, setting, met>>
      BY <1>8 DEF DecodeInfo
  <2>2. shared' \in BOOLEAN /\ (~shared' => \A s \in Setters : ~At(s, InfoSteps))
      BY <1>8, Zenon DEF DecodeInfo
  <2>3. UserDataTypeOK'
      BY <1>0, <1>types, <2>1, <2>2 DEF UserDataTypeOK
  <2>4. Apart' /\ (~met => ClassInv' /\ OnceInv')
      BY <1>0, <2>1 DEF Apart, OnInfo, OnClass, At, ClassInv, OnceInv
  <2>5. InfoInv'
      BY <1>0, <2>1, <2>2 DEF InfoInv, At
  <2> QED BY <2>1, <2>3, <2>4, <2>5 DEF SettingsInv
<1>9. CASE EndDecoding
  <2>1. /\ copying' = 0
        /\ UNCHANGED <<userInfo, classes, classCount, length, freedBlocks, calls, setting, met, shared>>
      BY <1>9 DEF EndDecoding
  <2>2. UserDataTypeOK' /\ InfoInv'
      BY <1>0, <1>types, <2>1 DEF UserDataTypeOK, InfoInv, At
  <2>3. Apart' /\ (~met => ClassInv' /\ OnceInv')
      BY <1>0, <2>1 DEF Apart, OnInfo, OnClass, At, ClassInv, OnceInv
  <2> QED BY <2>1, <2>2, <2>3 DEF SettingsInv
<1>10. CASE UNCHANGED userDataVars
  <2>1. UserDataTypeOK' /\ InfoInv'
      BY <1>0, <1>10 DEF userDataVars, UserDataTypeOK, InfoInv, At
  <2>2. Apart' /\ (~met => ClassInv' /\ OnceInv')
      BY <1>0, <1>10 DEF userDataVars, Apart, OnInfo, OnClass, At, ClassInv, OnceInv
  <2> QED BY <1>10, <2>1, <2>2 DEF SettingsInv, userDataVars
<1> QED BY <1>1, <1>2, <1>3, <1>4, <1>5, <1>6, <1>7, <1>8, <1>9, <1>10 DEF UserDataNext

\* At whatever step of the setters a report is written, the user information it
\* decodes and the classes it does not look into are there, but for the moments
\* between the two assignments of a setter; and no block is freed twice.
THEOREM SettingsAlwaysReadable == UserDataSpec => []SettingsReadable
<1>1. SettingsInv => SettingsReadable
  <2> SUFFICES ASSUME SettingsInv PROVE SettingsReadable
      OBVIOUS
  <2>1. UserDataTypeOK /\ InfoInv /\ (~met => ClassInv /\ OnceInv)
      BY DEF SettingsInv
  <2>2. UserInfoReadable
    <3>1. (\A s \in Setters : ~At(s, InfoSteps)) => \A s \in Setters : ~At(s, {"freed"})
        BY DEF At, InfoSteps
    <3> QED BY <2>1, <3>1 DEF UserInfoReadable, InfoInv
  <2>3. ClassesReadable
      BY <2>1 DEF ClassesReadable, ClassInv, UserDataTypeOK
  <2>4. FreedOnce
      BY <2>1 DEF FreedOnce, OnceInv
  <2> QED BY <2>1, <2>2, <2>3, <2>4 DEF SettingsReadable
<1> QED BY <1>1, SettingsInit, SettingsStep, PTL DEF UserDataSpec

-----------------------------------------------------------------------------
(* The copying of memory.  Whenever the loop has not just begun, some byte
   between pSrc and pSrcMax cannot be read, so what remains to be halved never
   lies beyond the first such byte.                                          *)

MemoryTypeOK ==
    /\ readable \in SUBSET Bytes
    /\ bytesRemaining \in Int
    /\ stage \in {"chunks", "copy", "halve", "done"}
    /\ copyEnd \in Nat /\ pSrc \in Nat /\ pSrcEnd \in Nat /\ pSrcMax \in Nat

\* The window that is being halved.
Window ==
    /\ pSrc <= pSrcEnd /\ pSrcEnd <= pSrcMax /\ pSrcMax <= copyEnd
    /\ pSrcMax # copyEnd \/ pSrcEnd # pSrcMax => ~Copies(pSrc, pSrcMax)
    /\ pSrc = pSrcEnd => pSrcMax <= pSrc + 1

CopyInv ==
    /\ MemoryTypeOK
    /\ Copies(0, pSrc)
    /\ stage = "copy" => pSrc <= copyEnd /\ pSrcEnd = copyEnd /\ pSrcMax = copyEnd
    /\ stage = "halve" => Window
    /\ LongestPrefix

\* Half of a number lies between nothing and the number, and is nothing only of
\* 0 and 1.
LEMMA HalfBounds ==
    ASSUME NEW n \in Nat
    PROVE  /\ HalfOf(n) \in Nat /\ HalfOf(n) <= n
           /\ HalfOf(n) = 0 => n <= 1
           /\ n > 0 => HalfOf(n) < n
BY SMT DEF HalfOf

\* Two stretches that can be read, one after the other, can be read.
LEMMA CopiesJoin ==
    ASSUME NEW a \in Nat, NEW b \in Nat, NEW c \in Nat, Copies(a, b), Copies(b, c)
    PROVE  Copies(a, c)
<1> SUFFICES ASSUME NEW x \in a..(c - 1) PROVE x \in readable
    BY DEF Copies
<1>1. CASE x < b
    BY <1>1 DEF Copies
<1>2. CASE x >= b
    BY <1>2 DEF Copies
<1> QED BY <1>1, <1>2

LEMMA CopyStarts == MemoryAssumption /\ MemoryInit => CopyInv
<1> SUFFICES ASSUME MemoryAssumption, MemoryInit PROVE CopyInv
    OBVIOUS
<1>1. MemoryTypeOK
    BY DEF MemoryAssumption, MemoryInit, MemoryTypeOK
<1>2. Copies(0, pSrc)
    BY DEF MemoryInit, Copies
<1> QED BY <1>1, <1>2 DEF MemoryInit, CopyInv, MemoryTypeOK, LongestPrefix

LEMMA ReadChunkKeeps == MemoryAssumption /\ CopyInv /\ ReadChunk => CopyInv'
<1> SUFFICES ASSUME MemoryAssumption, CopyInv, ReadChunk PROVE CopyInv'
    OBVIOUS
<1> USE DEF MemoryAssumption, CopyInv, MemoryTypeOK, ReadChunk
<1>1. CASE bytesRemaining > Buffer /\ IsMemoryReadable(pSrc, Buffer)
    <2>1. Copies(pSrc, pSrc + Buffer)
        BY <1>1 DEF IsMemoryReadable
    <2>2. Copies(0, pSrc + Buffer)
        BY <2>1, CopiesJoin
    <2>3. Copies(0, pSrc)'
        BY <1>1, <2>2 DEF Copies
    <2> QED BY <1>1, <2>3 DEF LongestPrefix
<1>2. CASE ~(bytesRemaining > Buffer /\ IsMemoryReadable(pSrc, Buffer))
    <2>1. Copies(0, pSrc)'
        BY <1>2 DEF Copies
    <2> QED BY <1>2, <2>1 DEF LongestPrefix
<1> QED BY <1>1, <1>2

LEMMA StartCopyKeeps == MemoryAssumption /\ CopyInv /\ StartCopy => CopyInv'
<1> SUFFICES ASSUME MemoryAssumption, CopyInv, StartCopy PROVE CopyInv'
    OBVIOUS
<1> USE DEF MemoryAssumption, CopyInv, MemoryTypeOK, StartCopy
<1>1. CASE ~Copies(pSrc, pSrc + 1)
    <2>1. pSrc \notin readable
        BY <1>1 DEF Copies
    <2> QED BY <1>1, <2>1 DEF LongestPrefix, Copies
<1>2. CASE Copies(pSrc, pSrc + 1) /\ copyEnd - pSrc <= 1
    <2>1. Copies(pSrc, copyEnd)
        BY <1>2 DEF Copies
    <2>2. Copies(0, copyEnd)
        BY <2>1, CopiesJoin
    <2> QED BY <1>2, <2>2 DEF LongestPrefix, Copies
<1>3. CASE Copies(pSrc, pSrc + 1) /\ ~(copyEnd - pSrc <= 1)
    <2>1. Window'
        BY <1>3 DEF Window
    <2> QED BY <1>3, <2>1 DEF LongestPrefix, Copies
<1> QED BY <1>1, <1>2, <1>3

\* One turn of the loop: the success, the failure, the end.
LEMMA HalveKeeps == MemoryAssumption /\ CopyInv /\ Halve => CopyInv'
<1> SUFFICES ASSUME MemoryAssumption, CopyInv, Halve PROVE CopyInv'
    OBVIOUS
<1> USE DEF MemoryAssumption, CopyInv, MemoryTypeOK
<1>0. stage = "halve" /\ Window /\ UNCHANGED <<readable, asked, bytesRemaining, copyEnd>>
    BY DEF Halve
<1>1. CASE /\ CopyLength > 0 /\ Copies(pSrc, pSrcEnd)
           /\ pSrc' = pSrcEnd /\ pSrcEnd' = HalfOfRest(pSrcEnd)
           /\ UNCHANGED <<stage, pSrcMax>>
    <2>1. Copies(0, pSrcEnd)
        BY <1>0, <1>1, CopiesJoin
    <2>2. /\ HalfOf(pSrcMax - pSrcEnd) \in Nat
          /\ HalfOf(pSrcMax - pSrcEnd) <= pSrcMax - pSrcEnd
          /\ HalfOf(pSrcMax - pSrcEnd) = 0 => pSrcMax - pSrcEnd <= 1
        <3>1. pSrcMax - pSrcEnd \in Nat
            BY <1>0 DEF Window
        <3> QED BY <3>1, HalfBounds
    <2>3. pSrcMax # copyEnd \/ pSrcEnd # pSrcMax => ~Copies(pSrcEnd, pSrcMax)
        <3>1. Copies(pSrcEnd, pSrcMax) => Copies(pSrc, pSrcMax)
            BY <1>1, CopiesJoin
        <3> QED BY <1>0, <3>1 DEF Window
    <2>4. pSrcEnd = pSrcMax => pSrcEnd' = pSrcMax
        BY <1>1, <2>2 DEF HalfOfRest
    <2>5. (pSrcMax # copyEnd \/ pSrcEnd # pSrcMax => ~Copies(pSrc, pSrcMax))'
        BY <1>0, <1>1, <2>3, <2>4 DEF Copies
    <2>6. Window'
        BY <1>0, <1>1, <2>2, <2>5 DEF Window, HalfOfRest
    <2>7. Copies(0, pSrc)'
        BY <1>0, <1>1, <2>1 DEF Copies
    <2> QED BY <1>0, <1>1, <2>2, <2>6, <2>7 DEF HalfOfRest, LongestPrefix
<1>2. CASE /\ CopyLength > 1 /\ ~Copies(pSrc, pSrcEnd)
           /\ pSrcMax' = pSrcEnd /\ pSrcEnd' = pSrc + HalfOf(CopyLength)
           /\ UNCHANGED <<stage, pSrc>>
    <2>1. /\ HalfOf(CopyLength) \in Nat
          /\ HalfOf(CopyLength) < CopyLength
          /\ HalfOf(CopyLength) # 0
        <3>1. CopyLength \in Nat /\ CopyLength > 1
            BY <1>0, <1>2 DEF Window, CopyLength
        <3> QED BY <3>1, HalfBounds
    <2>2. ~Copies(pSrc, pSrcMax)'
        BY <1>0, <1>2 DEF Copies
    <2>3. Window'
        BY <1>0, <1>2, <2>1, <2>2 DEF Window, CopyLength
    <2> QED BY <1>0, <1>2, <2>1, <2>3 DEF Copies, LongestPrefix
<1>3. CASE /\ CopyLength <= 1 /\ (CopyLength = 1 => ~Copies(pSrc, pSrcEnd))
           /\ stage' = "done" /\ UNCHANGED <<pSrc, pSrcEnd, pSrcMax>>
    <2>1. pSrc < copyEnd => pSrc \notin readable
        <3>1. CASE CopyLength = 1
            BY <1>0, <1>3, <3>1 DEF Window, CopyLength, Copies
        <3>2. CASE pSrc = pSrcEnd
            <4>1. pSrc < copyEnd => ~Copies(pSrc, pSrcMax)
                BY <1>0, <3>2 DEF Window
            <4>2. pSrcMax <= pSrc + 1
                BY <1>0, <3>2 DEF Window
            <4> QED BY <4>1, <4>2 DEF Copies
        <3> QED BY <1>0, <1>3, <3>1, <3>2 DEF Window, CopyLength
    <2> QED BY <1>0, <1>3, <2>1 DEF Copies, LongestPrefix
<1> QED BY <1>1, <1>2, <1>3 DEF Halve

\* The copy is the longest prefix that can be read, of what is copied as of what is
\* only counted: vicrabcrashmem_copyMaxPossible, vicrabcrashmem_maxReadableBytes.
THEOREM CopiesTheLongestPrefix == MemoryAssumption /\ MemorySpec => []LongestPrefix
<1>1. MemoryAssumption /\ MemoryInit => CopyInv
    BY CopyStarts
<1>2. MemoryAssumption /\ CopyInv /\ [MemoryNext]_memoryVars => CopyInv'
    <2> SUFFICES ASSUME MemoryAssumption, CopyInv, [MemoryNext]_memoryVars PROVE CopyInv'
        OBVIOUS
    <2>1. CASE ReadChunk
        BY <2>1, ReadChunkKeeps
    <2>2. CASE StartCopy
        BY <2>2, StartCopyKeeps
    <2>3. CASE Halve
        BY <2>3, HalveKeeps
    <2>4. CASE UNCHANGED memoryVars
        BY <2>4 DEF memoryVars, CopyInv, MemoryTypeOK, Window, LongestPrefix, Copies, Bytes
    <2> QED BY <2>1, <2>2, <2>3, <2>4 DEF MemoryNext
<1>3. CopyInv => LongestPrefix
    BY DEF CopyInv
<1> QED BY MemoryAssumption, <1>1, <1>2, <1>3, PTL DEF MemorySpec

-----------------------------------------------------------------------------
(* The main-thread watchdog *)

Monitor == [at : {"top", "sleeping", "woken", "alarmed", "ended"}, runs : BOOLEAN,
            awaiting : BOOLEAN, cancelled : BOOLEAN]

Questioned(m) == \E i \in 1..Len(mainQueue) : mainQueue[i] = m

\* A monitor's question is in the main queue once, exactly while it is not answered.
QuestionsOnce ==
    /\ \A i, j \in 1..Len(mainQueue) : mainQueue[i] = mainQueue[j] /\ mainQueue[i] # 0 => i = j
    /\ \A m \in Ids : Questioned(m) <=> monitor[m].awaiting

\* The question of initialize is the first in the queue, until the main thread ran it;
\* before there was one, no monitor was made.
IdentityFirst ==
    /\ initialized => mainKnown \/ (Len(mainQueue) > 0 /\ mainQueue[1] = 0)
    /\ ~initialized => Len(mainQueue) = 0 /\ \A m \in Ids : monitor[m].at = "ended"
    /\ \A m \in Ids : monitor[m].at # "ended" => m <= made

WatchdogInv == WatchdogTypeOK /\ QuestionsOnce /\ IdentityFirst

\* What a block at the end of the queue, or the first one taken, leaves of the others.
LEMMA Appended ==
    ASSUME NEW S, NEW q \in Seq(S), NEW T, S \subseteq T, NEW e \in T
    PROVE  /\ Append(q, e) \in Seq(T) /\ Len(Append(q, e)) = Len(q) + 1
           /\ Append(q, e)[Len(q) + 1] = e
           /\ \A i \in 1..Len(q) : Append(q, e)[i] = q[i]
OBVIOUS

LEMMA Widened == ASSUME NEW S, NEW q \in Seq(S), NEW T, S \subseteq T PROVE q \in Seq(T)
OBVIOUS

LEMMA Taken ==
    ASSUME NEW S, NEW q \in Seq(S), q # <<>>
    PROVE  /\ Tail(q) \in Seq(S) /\ Len(q) > 0 /\ Len(Tail(q)) = Len(q) - 1
           /\ Head(q) = q[1] /\ q[1] \in S
           /\ \A i \in 1..Len(Tail(q)) : Tail(q)[i] = q[i + 1]
OBVIOUS

LEMMA WatchdogInvInit == WatchdogInit => WatchdogInv
<1> SUFFICES ASSUME WatchdogInit PROVE WatchdogInv
    OBVIOUS
<1>1. MaxMonitors \in Nat /\ MaxSettings \in Nat /\ MaxHangs \in Nat
    BY WatchdogAssumption
<1>2. Len(mainQueue) = 0 /\ mainQueue \in Seq(0..made)
    BY DEF WatchdogInit
<1>3. \A m \in Ids : monitor[m].at = "ended" /\ monitor[m].awaiting = FALSE
    BY DEF WatchdogInit, Unmade
<1>4. WatchdogTypeOK
  <2>1. Unmade \in Monitor
      BY DEF Unmade, Monitor
  <2>2. monitor \in [Ids -> Monitor]
      BY <2>1 DEF WatchdogInit
  <2>3. 0 \in 0..MaxMonitors /\ 0 \in 0..0 /\ 0 \in 0..MaxHangs /\ 0 \in 0..MaxSettings
      BY <1>1
  <2> QED BY <1>2, <2>2, <2>3 DEF WatchdogInit, WatchdogTypeOK, Monitor
<1>5. QuestionsOnce
    BY <1>2, <1>3 DEF QuestionsOnce, Questioned
<1>6. IdentityFirst
    BY <1>2, <1>3 DEF WatchdogInit, IdentityFirst
<1> QED BY <1>4, <1>5, <1>6 DEF WatchdogInv

LEMMA WatchdogInvStep == WatchdogInv /\ [WatchdogNext]_watchdogVars => WatchdogInv'
<1> SUFFICES ASSUME WatchdogInv, [WatchdogNext]_watchdogVars PROVE WatchdogInv'
    OBVIOUS
<1>types. /\ MaxMonitors \in Nat /\ MaxSettings \in Nat /\ MaxHangs \in Nat
          /\ made \in Nat /\ made <= MaxMonitors /\ alarm \in 0..made /\ mainQueue \in Seq(0..made)
          /\ monitor \in [Ids -> Monitor]
    BY WatchdogAssumption DEF WatchdogInv, WatchdogTypeOK, Monitor
<1>inv. WatchdogTypeOK /\ QuestionsOnce /\ IdentityFirst
    BY DEF WatchdogInv
<1>len. Len(mainQueue) \in Nat
    BY <1>types
<1>1. CASE Enable
  <2>1. /\ made < MaxMonitors /\ made' = made + 1 /\ initialized' = TRUE /\ enabled' = TRUE
        /\ mainQueue' = Identify /\ monitor' = [monitor EXCEPT ![made + 1].at = "top"]
        /\ UNCHANGED <<mainKnown, interval, hung, hangs, settings, alarm>>
      BY <1>1 DEF Enable
  <2>2. made + 1 \in Ids /\ 0..made \subseteq 0..(made + 1) /\ 0 \in 0..(made + 1)
      BY <1>types, <2>1 DEF Ids
  <2>3. /\ monitor' \in [Ids -> Monitor]
        /\ \A m \in Ids : monitor'[m].awaiting = monitor[m].awaiting
        /\ \A m \in Ids : m # made + 1 => monitor'[m].at = monitor[m].at
      BY <1>types, <2>1, <2>2 DEF Monitor
  <2>4. CASE initialized
    <3>1. mainQueue' = mainQueue /\ mainQueue \in Seq(0..(made + 1))
        BY <1>types, <2>1, <2>2, <2>4, Widened DEF Identify
    <3>2. WatchdogTypeOK'
        BY <1>inv, <1>types, <2>1, <2>3, <3>1 DEF WatchdogTypeOK, Monitor
    <3>3. QuestionsOnce'
        BY <1>inv, <2>3, <3>1 DEF QuestionsOnce, Questioned
    <3>4. IdentityFirst'
        BY <1>inv, <1>types, <2>1, <2>3, <2>4, <3>1 DEF IdentityFirst, Ids
    <3> QED BY <3>2, <3>3, <3>4 DEF WatchdogInv
  <2>5. CASE ~initialized
    <3>1. Len(mainQueue) = 0
        BY <1>inv, <2>5 DEF IdentityFirst
    <3>2. mainQueue' = Append(mainQueue, 0)
        BY <2>1, <2>5 DEF Identify
    <3>3. mainQueue' \in Seq(0..(made + 1)) /\ Len(mainQueue') = 1 /\ mainQueue'[1] = 0
        BY <1>types, <2>2, <3>1, <3>2, Appended
    <3>4. WatchdogTypeOK'
        BY <1>inv, <1>types, <2>1, <2>3, <3>3 DEF WatchdogTypeOK, Monitor
    <3>5. QuestionsOnce'
        BY <1>inv, <2>3, <3>1, <3>3 DEF QuestionsOnce, Questioned, Ids
    <3>6. IdentityFirst'
        BY <1>inv, <1>types, <2>1, <2>3, <3>3 DEF IdentityFirst, Ids
    <3> QED BY <3>4, <3>5, <3>6 DEF WatchdogInv
  <2> QED BY <2>4, <2>5
<1>2. CASE Disable
  <2>1. /\ enabled' = FALSE /\ monitor' = [monitor EXCEPT ![made].cancelled = TRUE]
        /\ UNCHANGED <<initialized, mainKnown, interval, made, mainQueue, hung, hangs, settings, alarm>>
      BY <1>2 DEF Disable
  <2>2. /\ monitor' \in [Ids -> Monitor]
        /\ \A m \in Ids : monitor'[m].awaiting = monitor[m].awaiting /\ monitor'[m].at = monitor[m].at
      BY <1>types, <2>1 DEF Monitor
  <2>3. WatchdogTypeOK'
      BY <1>inv, <2>1, <2>2 DEF WatchdogTypeOK, Monitor
  <2>4. QuestionsOnce'
      BY <1>inv, <2>1, <2>2 DEF QuestionsOnce, Questioned
  <2>5. IdentityFirst'
      BY <1>inv, <2>1, <2>2 DEF IdentityFirst
  <2> QED BY <2>3, <2>4, <2>5 DEF WatchdogInv
<1>3. CASE SetInterval
  <2>1. /\ settings' = settings + 1 /\ settings < MaxSettings /\ interval' \in BOOLEAN
        /\ UNCHANGED <<enabled, initialized, mainKnown, made, monitor, mainQueue, hung, hangs, alarm>>
      BY <1>3 DEF SetInterval
  <2>2. settings' \in 0..MaxSettings
      BY <1>inv, <1>types, <2>1 DEF WatchdogTypeOK
  <2> QED BY <1>inv, <2>1, <2>2 DEF WatchdogInv, WatchdogTypeOK, QuestionsOnce, Questioned, IdentityFirst
<1>4. CASE Hang
  <2>1. /\ hung' = TRUE /\ hangs' = hangs + 1 /\ hangs < MaxHangs
        /\ UNCHANGED <<enabled, initialized, mainKnown, interval, made, monitor, mainQueue, settings, alarm>>
      BY <1>4 DEF Hang
  <2>2. hangs' \in 0..MaxHangs
      BY <1>inv, <1>types, <2>1 DEF WatchdogTypeOK
  <2> QED BY <1>inv, <2>1, <2>2 DEF WatchdogInv, WatchdogTypeOK, QuestionsOnce, Questioned, IdentityFirst
<1>5. CASE Recover
    BY <1>inv, <1>5 DEF Recover, WatchdogInv, WatchdogTypeOK, QuestionsOnce, Questioned, IdentityFirst
<1>6. CASE RunBlock
  <2>1. /\ mainQueue # <<>> /\ mainQueue' = Tail(mainQueue)
        /\ UNCHANGED <<enabled, initialized, interval, made, hung, hangs, settings, alarm>>
      BY <1>6 DEF RunBlock
  <2> DEFINE head == mainQueue[1]
  <2>2. /\ mainQueue' \in Seq(0..made) /\ Len(mainQueue) > 0 /\ Len(mainQueue') = Len(mainQueue) - 1
        /\ \A i \in 1..Len(mainQueue') : mainQueue'[i] = mainQueue[i + 1]
        /\ Head(mainQueue) = head /\ head \in 0..made
      BY <1>types, <2>1, Taken
  <2>3. \/ head = 0 /\ mainKnown' = TRUE /\ monitor' = monitor
        \/ head # 0 /\ monitor' = Answered(head) /\ mainKnown' = mainKnown
      BY <1>6, <2>2 DEF RunBlock
  <2>4. /\ monitor' \in [Ids -> Monitor]
        /\ \A m \in Ids : monitor'[m].at = monitor[m].at
        /\ \A m \in Ids : monitor'[m].awaiting <=> monitor[m].awaiting /\ m # head
    <3>1. CASE head = 0
      <4>1. monitor' = monitor /\ \A m \in Ids : m # head
          BY <2>3, <3>1 DEF Ids
      <4> QED BY <1>types, <4>1
    <3>2. CASE head # 0
      <4>1. head \in Ids
          BY <1>types, <2>2, <3>2 DEF Ids
      <4>2. monitor' = [monitor EXCEPT ![head].awaiting = FALSE]
          BY <2>3, <3>2 DEF Answered
      <4> HIDE DEF head
      <4> QED BY <1>types, <4>1, <4>2 DEF Monitor
    <3> QED BY <3>1, <3>2
  <2>5. WatchdogTypeOK'
      BY <1>inv, <2>1, <2>2, <2>3, <2>4 DEF WatchdogTypeOK, Monitor
  <2>6. QuestionsOnce'
    <3>1. \A i, j \in 1..Len(mainQueue') : mainQueue'[i] = mainQueue'[j] /\ mainQueue'[i] # 0 => i = j
        BY <1>inv, <1>len, <2>2 DEF QuestionsOnce
    <3>2. ASSUME NEW m \in Ids PROVE Questioned(m)' <=> Questioned(m) /\ m # head
      <4>1. ASSUME Questioned(m)' PROVE Questioned(m) /\ m # head
        <5>1. PICK i \in 1..Len(mainQueue') : mainQueue'[i] = m
            BY <4>1 DEF Questioned
        <5>2. i + 1 \in 1..Len(mainQueue) /\ 1 \in 1..Len(mainQueue) /\ mainQueue[i + 1] = m
            BY <1>len, <2>2, <5>1
        <5>3. m # 0 /\ i + 1 # 1
            BY <2>2, <1>len DEF Ids
        <5> QED BY <1>inv, <5>2, <5>3 DEF QuestionsOnce, Questioned
      <4>2. ASSUME Questioned(m), m # head PROVE Questioned(m)'
        <5>1. PICK i \in 1..Len(mainQueue) : mainQueue[i] = m
            BY <4>2 DEF Questioned
        <5>2. i - 1 \in 1..Len(mainQueue') /\ mainQueue'[i - 1] = m
            BY <1>len, <2>2, <4>2, <5>1
        <5> QED BY <5>2 DEF Questioned
      <4> QED BY <4>1, <4>2
    <3> QED BY <1>inv, <2>4, <3>1, <3>2 DEF QuestionsOnce
  <2>7. IdentityFirst'
    <3>1. initialized /\ initialized'
        BY <1>inv, <2>1, <2>2 DEF IdentityFirst
    <3>2. mainKnown'
      <4>1. mainKnown \/ head = 0
          BY <1>inv, <3>1 DEF IdentityFirst
      <4>2. CASE head = 0
          BY <2>3, <4>2
      <4>3. CASE mainKnown /\ head # 0
        <5>1. mainKnown' = mainKnown
            BY <2>3, <4>3
        <5> QED BY <4>3, <5>1
      <4> QED BY <4>1, <4>2, <4>3
    <3>3. \A m \in Ids : monitor'[m].at # "ended" => m <= made'
        BY <1>inv, <2>1, <2>4 DEF IdentityFirst
    <3> QED BY <3>1, <3>2, <3>3, Zenon DEF IdentityFirst
  <2> QED BY <2>5, <2>6, <2>7 DEF WatchdogInv
<1>7. CASE \E m \in Ids : FallAsleep(m) \/ WakeUp(m)
  <2>1. PICK m \in Ids : FallAsleep(m) \/ WakeUp(m)
      BY <1>7
  <2>2. /\ monitor[m].at # "ended"
        /\ UNCHANGED <<enabled, initialized, mainKnown, interval, made, mainQueue, hung, hangs, settings, alarm>>
      BY <2>1 DEF FallAsleep, WakeUp
  <2>3. /\ monitor' \in [Ids -> Monitor]
        /\ \A n \in Ids : monitor'[n].awaiting = monitor[n].awaiting
        /\ \A n \in Ids : n # m => monitor'[n].at = monitor[n].at
    <3>1. CASE FallAsleep(m)
        BY <1>types, <1>inv, <3>1 DEF FallAsleep, Monitor, WatchdogTypeOK
    <3>2. CASE WakeUp(m)
      <4>1. GoesOn(m) \in {"top", "woken", "ended"}
          BY Zenon DEF GoesOn, GoesOnRegardless
      <4> QED BY <1>types, <3>2, <4>1 DEF WakeUp, Monitor
    <3> QED BY <2>1, <3>1, <3>2
  <2>4. m <= made /\ initialized
      BY <1>inv, <2>2 DEF IdentityFirst
  <2>5. WatchdogTypeOK'
      BY <1>inv, <2>2, <2>3 DEF WatchdogTypeOK, Monitor
  <2>6. QuestionsOnce'
      BY <1>inv, <2>2, <2>3 DEF QuestionsOnce, Questioned
  <2>7. IdentityFirst'
      BY <1>inv, <2>2, <2>3, <2>4 DEF IdentityFirst
  <2> QED BY <2>5, <2>6, <2>7 DEF WatchdogInv
<1>8. CASE \E m \in Ids : Check(m)
  <2>1. PICK m \in Ids : Check(m)
      BY <1>8
  <2>2. /\ monitor[m].at = "woken"
        /\ UNCHANGED <<enabled, initialized, mainKnown, interval, made, hung, hangs, settings, alarm>>
      BY <2>1 DEF Check
  <2>3. m <= made /\ initialized /\ m \in 0..made /\ m # 0
      BY <1>inv, <1>types, <2>2 DEF IdentityFirst, Ids
  <2>4. CASE monitor[m].awaiting
    <3>1. mainQueue' = mainQueue /\ monitor' = [monitor EXCEPT ![m].at = "alarmed"]
        BY <2>1, <2>4 DEF Check, Pulse
    <3>2. /\ monitor' \in [Ids -> Monitor]
          /\ \A n \in Ids : monitor'[n].awaiting = monitor[n].awaiting
          /\ \A n \in Ids : n # m => monitor'[n].at = monitor[n].at
        BY <1>types, <3>1 DEF Monitor
    <3>3. WatchdogTypeOK'
        BY <1>inv, <2>2, <3>1, <3>2 DEF WatchdogTypeOK, Monitor
    <3>4. QuestionsOnce' /\ IdentityFirst'
        BY <1>inv, <2>2, <2>3, <3>1, <3>2 DEF QuestionsOnce, Questioned, IdentityFirst
    <3> QED BY <3>3, <3>4 DEF WatchdogInv
  <2>5. CASE ~monitor[m].awaiting
    <3>1. /\ mainQueue' = Append(mainQueue, m)
          /\ monitor' = [monitor EXCEPT ![m].at = "top", ![m].awaiting = TRUE]
        BY <2>1, <2>5 DEF Check, Pulse
    <3>2. /\ monitor' \in [Ids -> Monitor]
          /\ \A n \in Ids : monitor'[n].awaiting = (monitor[n].awaiting \/ n = m)
          /\ \A n \in Ids : n # m => monitor'[n].at = monitor[n].at
        BY <1>types, <3>1 DEF Monitor
    <3>3. /\ mainQueue' \in Seq(0..made) /\ Len(mainQueue') = Len(mainQueue) + 1
          /\ mainQueue'[Len(mainQueue) + 1] = m
          /\ \A i \in 1..Len(mainQueue) : mainQueue'[i] = mainQueue[i]
        BY <1>types, <2>3, <3>1, Appended
    <3>4. WatchdogTypeOK'
        BY <1>inv, <2>2, <3>2, <3>3 DEF WatchdogTypeOK, Monitor
    <3>5. ~Questioned(m)
        BY <1>inv, <2>5 DEF QuestionsOnce
    <3>6. \A n \in Ids : Questioned(n)' <=> Questioned(n) \/ n = m
        BY <1>len, <3>3 DEF Questioned
    <3>7. \A i, j \in 1..Len(mainQueue') : mainQueue'[i] = mainQueue'[j] /\ mainQueue'[i] # 0 => i = j
        BY <1>inv, <1>len, <3>3, <3>5 DEF QuestionsOnce, Questioned
    <3>8. QuestionsOnce'
        BY <1>inv, <3>2, <3>6, <3>7 DEF QuestionsOnce
    <3>9. IdentityFirst'
      <4>1. initialized /\ initialized' /\ (mainKnown => mainKnown')
          BY <2>2, <2>3
      <4>2. Len(mainQueue) > 0 /\ mainQueue[1] = 0 => Len(mainQueue') > 0 /\ mainQueue'[1] = 0
          BY <1>len, <3>3
      <4>3. \A n \in Ids : monitor'[n].at # "ended" => n <= made'
          BY <1>inv, <2>2, <2>3, <3>2 DEF IdentityFirst
      <4> QED BY <1>inv, <4>1, <4>2, <4>3, Zenon DEF IdentityFirst
    <3> QED BY <3>4, <3>8, <3>9 DEF WatchdogInv
  <2> QED BY <2>4, <2>5
<1>9. CASE \E m \in Ids : HandleDeadlock(m)
  <2>1. PICK m \in Ids : HandleDeadlock(m)
      BY <1>9
  <2>2. /\ alarm' = m /\ monitor[m].at = "alarmed"
        /\ UNCHANGED <<enabled, initialized, mainKnown, interval, made, monitor, mainQueue, hung, hangs, settings>>
      BY <2>1 DEF HandleDeadlock
  <2>3. alarm' \in 0..made
      BY <1>inv, <1>types, <2>2 DEF IdentityFirst, Ids
  <2> QED BY <1>inv, <2>2, <2>3 DEF WatchdogInv, WatchdogTypeOK, QuestionsOnce, Questioned, IdentityFirst
<1>10. CASE UNCHANGED watchdogVars
    BY <1>inv, <1>10 DEF watchdogVars, WatchdogInv, WatchdogTypeOK, QuestionsOnce, Questioned, IdentityFirst
<1> QED BY <1>1, <1>2, <1>3, <1>4, <1>5, <1>6, <1>7, <1>8, <1>9, <1>10 DEF WatchdogNext, RunMonitor

\* Whoever reports a deadlock reports the main thread, and because its own last
\* question was not answered, however often the watchdog is switched off and on.
THEOREM WatchdogAlwaysSound == WatchdogSpec => []WatchdogSound
<1>1. WatchdogInv => WatchdogSound
  <2> SUFFICES ASSUME WatchdogInv PROVE WatchdogSound
      OBVIOUS
  <2>1. WatchdogTypeOK /\ QuestionsOnce /\ IdentityFirst
      BY DEF WatchdogInv
  <2>2. mainQueue \in Seq(0..made) /\ DOMAIN mainQueue = 1..Len(mainQueue)
      BY <2>1 DEF WatchdogTypeOK
  <2>3. Len(mainQueue) > 0 => mainQueue # <<>> /\ Head(mainQueue) = mainQueue[1]
      BY <2>2
  <2>4. AlarmNamesMain
      BY <2>1, <2>3 DEF AlarmNamesMain, IdentityFirst
  <2>5. OneQuestionEach
    <3>1. ASSUME NEW m \in Ids
          PROVE  {i \in DOMAIN mainQueue : mainQueue[i] = m} = {} <=> ~Questioned(m)
        BY <2>2 DEF Questioned
    <3> QED BY <2>1, <3>1, Zenon DEF OneQuestionEach, QuestionsOnce
  <2> QED BY <2>1, <2>4, <2>5 DEF WatchdogSound
<1> QED BY <1>1, WatchdogInvInit, WatchdogInvStep, PTL DEF WatchdogSpec

-----------------------------------------------------------------------------
(* What the application state monitor tells of launches and crashes, and how *)
(* long it says the application was active, for every environment and every  *)
(* bound.  The counts survive the process only in the state file, so each    *)
(* invariant says of the file what it says of the counters, for the next     *)
(* launch to start from.                                                     *)

\* A file that does not say that its launch crashed counts nothing that did not
\* happen; a crash that could be saved is in the file, or nothing is.
FileNotOverstated ==
    /\ file.crashed \/ /\ file.launches <= realCrash.launches
                       /\ file.sessions <= realCrash.sessions
    /\ realCrashed /\ ~Up => file.crashed \/ (file.launches = 0 /\ file.sessions = 0)
    /\ realCrashed /\ Up => crashedThisLaunch

\* Only a process saves, and only where the environment lets it does one run on.
SavesOrderly ==
    /\ saving => Up
    /\ course # "runs" => Up
    /\ course = "runsOn" => env.runsOn

CountsInv == TypeOK /\ CountsNotOverstated /\ SavesOrderly /\ (~env.runsOn => FileNotOverstated)

\* What is written is a file, however much of it.
LEMMA WrittenIsFile ==
    ASSUME TypeOK, NEW k \in 0..5
    PROVE  Written(k) \in File
<1>1. k \in Int /\ sinceCrash \in SinceCrash /\ crashedThisLaunch \in BOOLEAN
    BY DEF TypeOK
<1>2. (IF k >= 1 THEN crashedThisLaunch ELSE FALSE) \in BOOLEAN
    BY <1>1, Zenon
<1>3. /\ (IF k >= 2 THEN sinceCrash.active ELSE 0) \in Int
      /\ (IF k >= 3 THEN sinceCrash.background ELSE 0) \in Int
      /\ (IF k >= 4 THEN sinceCrash.launches ELSE 0) \in Nat
      /\ (IF k >= 5 THEN sinceCrash.sessions ELSE 0) \in Nat
    BY <1>1 DEF SinceCrash
<1> QED BY <1>2, <1>3, Zenon DEF Written, File

\* A torn file counts nothing or what the process counts, and has lost the counts
\* where it lost the crash.
LEMMA TornCounts ==
    ASSUME TypeOK, NEW f \in Torn
    PROVE  /\ f \in File /\ saving
           /\ f.launches \in {0, sinceCrash.launches}
           /\ f.sessions \in {0, sinceCrash.sessions}
           /\ crashedThisLaunch => f.crashed \/ (f.launches = 0 /\ f.sessions = 0)
<1>1. saving /\ (\E k \in 0..5 : f = Written(k))
    BY Zenon DEF Torn
<1>2. PICK k \in 0..5 : f = Written(k)
    BY <1>1
<1>3. f \in File
    BY <1>2, WrittenIsFile
<1>4. k >= 4 => k >= 1
    BY SMT
<1>5. k >= 5 => k >= 1
    BY SMT
<1>6. /\ f.crashed = IF k >= 1 THEN crashedThisLaunch ELSE FALSE
      /\ f.launches = IF k >= 4 THEN sinceCrash.launches ELSE 0
      /\ f.sessions = IF k >= 5 THEN sinceCrash.sessions ELSE 0
    BY <1>2, Zenon DEF Written
<1> QED BY <1>1, <1>3, <1>4, <1>5, <1>6, Zenon

\* What a save that went on after a crash leaves is a file.
LEMMA LaidOverIsFile ==
    ASSUME TypeOK, NEW f \in LaidOver
    PROVE  f \in File
<1>1. CASE f \in {Written(k) : k \in 0..5}
  <2>1. \E k \in 0..5 : f = Written(k)
      BY <1>1, Zenon
  <2>2. PICK k \in 0..5 : f = Written(k)
      BY <2>1
  <2> QED BY <2>2, WrittenIsFile
<1>2. CASE f \in {[Written(k) EXCEPT !.crashed = FALSE] : k \in 0..5}
  <2>1. \E k \in 0..5 : f = [Written(k) EXCEPT !.crashed = FALSE]
      BY <1>2, Zenon
  <2>2. PICK k \in 0..5 : f = [Written(k) EXCEPT !.crashed = FALSE]
      BY <2>1
  <2>3. Written(k) \in File
      BY <2>2, WrittenIsFile
  <2> HIDE DEF Written
  <2> QED BY <2>2, <2>3 DEF File
<1> QED BY <1>1, <1>2, Zenon DEF LaidOver

\* The whole file says what the process knows.
LEMMA SavedCounts ==
    ASSUME TypeOK
    PROVE  /\ Written(5) \in File
           /\ Written(5).crashed = crashedThisLaunch
           /\ Written(5).launches = sinceCrash.launches
           /\ Written(5).sessions = sinceCrash.sessions
<1>1. 5 >= 1 /\ 5 >= 4 /\ 5 >= 5 /\ 5 \in 0..5
    BY SMT
<1>2. Written(5) \in File
    BY <1>1, WrittenIsFile
<1> QED BY <1>1, <1>2, Zenon DEF Written

\* What is left of the counters when the process is gone.
LEMMA ExitsTyped ==
    ASSUME TypeOK, Exits, UNCHANGED now
    PROVE  /\ os' = "down" /\ ~Up' /\ saving' = FALSE /\ course' = "runs" /\ interrupted' = FALSE
           /\ sinceCrash' \in SinceCrash /\ sinceLaunch' \in SinceLaunch
           /\ crashedLastLaunch' = FALSE /\ crashedThisLaunch' = FALSE
           /\ applicationIsActive' = FALSE /\ applicationIsInForeground' = FALSE
           /\ appStateTransitionTime' \in 0..now'
<1>1. NoneSinceCrash \in SinceCrash /\ NoneSinceLaunch \in SinceLaunch
    BY DEF NoneSinceCrash, SinceCrash, NoneSinceLaunch, SinceLaunch
<1>2. 0 \in 0..now
    BY AppStateAssumption DEF TypeOK, Environment
<1> QED BY <1>1, <1>2 DEF Exits, Up

\* A crash adds a time to the durations and nothing to the counts.
LEMMA CrashCounts ==
    ASSUME TypeOK, NotifyAppCrash
    PROVE  /\ sinceCrash' \in SinceCrash /\ sinceLaunch' \in SinceLaunch
           /\ sinceCrash'.launches = sinceCrash.launches
           /\ sinceCrash'.sessions = sinceCrash.sessions
           /\ sinceLaunch'.sessions = sinceLaunch.sessions
<1>1. Elapsed \in Int
    BY AppStateAssumption DEF TypeOK, Elapsed, Environment
<1>2. CASE applicationIsActive
    BY <1>1, <1>2 DEF TypeOK, NotifyAppCrash, AddActive, SinceCrash, SinceLaunch
<1>3. CASE ~applicationIsActive /\ ~applicationIsInForeground
    BY <1>1, <1>3 DEF TypeOK, NotifyAppCrash, AddBackground, SinceCrash, SinceLaunch
<1>4. CASE ~applicationIsActive /\ applicationIsInForeground
    BY <1>4 DEF TypeOK, NotifyAppCrash
<1> QED BY <1>2, <1>3, <1>4 DEF TypeOK

\* A launch starts from the file, and from what really happened.
LEMMA ResetCounts ==
    ASSUME NEW f \in File
    PROVE  /\ Reset(f) \in SinceCrash
           /\ f.crashed => Reset(f).launches = 1 /\ Reset(f).sessions = 1
           /\ ~f.crashed => /\ Reset(f).launches = f.launches + 1
                            /\ Reset(f).sessions = f.sessions + 1
<1>1. StartsOver(f) \in SinceCrash /\ StartsOver(f).launches = 1 /\ StartsOver(f).sessions = 1
  <2>1. NoneSinceCrash \in SinceCrash
      BY DEF NoneSinceCrash, SinceCrash
  <2> QED BY <2>1 DEF StartsOver, SinceCrash
<1>2. KeepsCounting(f) \in SinceCrash
    BY DEF KeepsCounting, File, SinceCrash
<1>3. CASE f.crashed
  <2>1. Reset(f) = StartsOver(f)
      BY <1>3, Zenon DEF Reset
  <2> QED BY <1>1, <1>3, <2>1
<1>4. CASE ~f.crashed
  <2>1. Reset(f) = KeepsCounting(f)
      BY <1>4, Zenon DEF Reset
  <2> QED BY <1>2, <1>4, <2>1 DEF KeepsCounting
<1> QED BY <1>3, <1>4

\* Another launch counts one launch and one session more.
LEMMA OneMore ==
    ASSUME NEW c \in SinceCrash
    PROVE  /\ AnotherLaunch(c) \in SinceCrash
           /\ AnotherLaunch(c).launches = c.launches + 1
           /\ AnotherLaunch(c).sessions = c.sessions + 1
BY DEF SinceCrash, AnotherLaunch

\* So a launch really is one more since the last crash, or the first one.
LEMMA LaunchCounts ==
    ASSUME TypeOK, Launch
    PROVE  /\ realCrash' \in SinceCrash
           /\ realCrashed => realCrash'.launches = 1 /\ realCrash'.sessions = 1
           /\ ~realCrashed => /\ realCrash'.launches = realCrash.launches + 1
                              /\ realCrash'.sessions = realCrash.sessions + 1
<1> DEFINE before == IF realCrashed THEN NoneSinceCrash ELSE realCrash
<1>1. realCrash' = AnotherLaunch(before)
    BY DEF Launch
<1>2. realCrashed => before = NoneSinceCrash
    BY Zenon
<1>3. ~realCrashed => before = realCrash
    BY Zenon
<1>4. realCrash \in SinceCrash
    BY DEF TypeOK
<1>5. before \in SinceCrash
    BY <1>2, <1>3, <1>4 DEF NoneSinceCrash, SinceCrash
<1>6. NoneSinceCrash.launches = 0 /\ NoneSinceCrash.sessions = 0
    BY DEF NoneSinceCrash
<1> HIDE DEF before
<1>7. /\ realCrash' \in SinceCrash
      /\ realCrash'.launches = before.launches + 1 /\ realCrash'.sessions = before.sessions + 1
    BY <1>1, <1>5, OneMore
<1> QED BY <1>2, <1>3, <1>6, <1>7

LEMMA CountsInit == Init => CountsInv
<1> SUFFICES ASSUME Init PROVE CountsInv
    OBVIOUS
<1>1. EmptyFile \in File /\ NoneSinceCrash \in SinceCrash /\ NoneSinceLaunch \in SinceLaunch
    BY DEF EmptyFile, File, NoneSinceCrash, SinceCrash, NoneSinceLaunch, SinceLaunch
<1>2. /\ now \in FirstTime..env.maxTime /\ launched \in 0..MaxLaunches
      /\ appStateTransitionTime \in 0..now
    BY AppStateAssumption DEF Init, Environment
<1>3. TypeOK
    BY <1>1, <1>2 DEF Init, TypeOK
<1> QED BY <1>3 DEF Init, CountsInv, CountsNotOverstated, FileNotOverstated, SavesOrderly, Up,
    EmptyFile, NoneSinceCrash

\* What of the counts holds wherever a process runs on, and what only where none does.
SessionsReal == Up => sinceLaunch.sessions = realLaunch.sessions
CountsReal ==
    Up => sinceCrash.launches <= realCrash.launches /\ sinceCrash.sessions <= realCrash.sessions

\* Every value stays of its type, and the sessions of a launch are counted.
LEMMA TypeStep ==
    TypeOK /\ SavesOrderly /\ SessionsReal /\ [Next]_vars => TypeOK' /\ SavesOrderly' /\ SessionsReal'
<1> SUFFICES ASSUME TypeOK, SavesOrderly, SessionsReal, [Next]_vars
             PROVE  TypeOK' /\ SavesOrderly' /\ SessionsReal'
    OBVIOUS
<1>0. /\ env \in Environment /\ env \in Environments /\ FirstTime \in Nat
      /\ now \in Int /\ FirstTime <= now /\ now <= env.maxTime /\ env.maxTime \in Nat
      /\ env' = env
    BY AppStateAssumption DEF TypeOK, Environment, Next, vars
<1>1. CASE Launch
  <2>1. /\ file \in File /\ realCrash \in SinceCrash /\ launched + 1 \in 0..MaxLaunches
      BY <1>1, AppStateAssumption DEF TypeOK, Launch
  <2>2. sinceLaunch' \in SinceLaunch /\ realLaunch' = sinceLaunch'
      BY <1>1 DEF Launch, NoneSinceLaunch, SinceLaunch
  <2>3. /\ appStateTransitionTime' \in 0..now' /\ os' \in {"inactive", "background"}
        /\ crashedLastLaunch' \in BOOLEAN
      BY <1>0, <1>1, <2>1 DEF Launch, File
  <2>4. sinceCrash' \in SinceCrash /\ realCrash' \in SinceCrash
      BY <1>1, <2>1, ResetCounts, LaunchCounts DEF Launch
  <2>5. TypeOK'
      BY <1>0, <1>1, <2>1, <2>2, <2>3, <2>4 DEF TypeOK, Launch
  <2> QED BY <1>0, <1>1, <2>2, <2>3, <2>5 DEF Launch, SavesOrderly, SessionsReal, Up
<1>2. CASE SaveDone
  <2>1. /\ saving /\ Up /\ file' = Written(5) /\ UNCHANGED <<now, launched, real>>
      BY <1>2 DEF SaveDone, SavesOrderly
  <2>2. file' \in File
      BY <2>1, SavedCounts
  <2>3. CASE Exits
    <3>1. TypeOK'
        BY <1>0, <2>1, <2>2, <2>3, ExitsTyped DEF TypeOK, real
    <3> QED BY <2>1, <2>3, <3>1, ExitsTyped DEF SavesOrderly, SessionsReal
  <2>4. CASE /\ saving' = FALSE
             /\ course' = IF RunsOn THEN "runsOn" ELSE course
             /\ UNCHANGED <<os, state, interrupted>>
    <3>1. TypeOK'
        BY <1>0, <2>1, <2>2, <2>4 DEF TypeOK, real, state, flags
    <3>2. SavesOrderly'
        BY <1>0, <2>1, <2>4 DEF SavesOrderly, RunsOn, Up
    <3> QED BY <2>1, <2>4, <3>1, <3>2 DEF SessionsReal, real, state, Up
  <2> QED BY <1>2, <2>3, <2>4 DEF SaveDone
<1>3. CASE SaveGoesOn
  <2>1. file' \in File
      BY <1>3, LaidOverIsFile DEF SaveGoesOn
  <2>2. TypeOK'
      BY <1>0, <1>3, <2>1 DEF TypeOK, SaveGoesOn, state, flags, real
  <2> QED BY <1>0, <1>3, <2>2 DEF SaveGoesOn, SavesOrderly, SessionsReal, Up, state, real
<1>4. CASE Kill
  <2>1. /\ Up /\ Exits /\ UNCHANGED <<now, launched, realCrash, realLaunch, realCrashedLast>>
        /\ \/ file' = file /\ realCrashed' = (course = "runsOn")
           \/ file' \in Torn /\ realCrashed' = realCrashed
      BY <1>4 DEF Kill, Up
  <2>2. /\ ~Up' /\ saving' = FALSE /\ file' \in File /\ realCrashed' \in BOOLEAN
      BY <2>1, ExitsTyped, TornCounts DEF TypeOK
  <2>3. TypeOK'
      BY <1>0, <2>1, <2>2, ExitsTyped DEF TypeOK
  <2> QED BY <2>1, <2>2, <2>3, ExitsTyped DEF SavesOrderly, SessionsReal
<1>5. CASE Tick
  <2>1. /\ now' = now + 1 /\ now < env.maxTime
        /\ UNCHANGED <<os, launched, state, file, saving, course, interrupted, realCrashed, realCrashedLast>>
      BY <1>5 DEF Tick
  <2>2. /\ realCrash' \in SinceCrash /\ realLaunch' \in SinceLaunch
        /\ realLaunch'.sessions = realLaunch.sessions
    <3>1. CASE os = "active"
        BY <1>5, <3>1 DEF Tick, TypeOK, SinceCrash, SinceLaunch
    <3>2. CASE os = "background"
        BY <1>5, <3>2 DEF Tick, TypeOK, SinceCrash, SinceLaunch
    <3>3. CASE os \notin {"active", "background"}
        BY <1>5, <3>3 DEF Tick, TypeOK
    <3> QED BY <3>1, <3>2, <3>3
  <2>3. now' \in FirstTime..env'.maxTime /\ appStateTransitionTime' \in 0..now'
      BY <1>0, <2>1 DEF TypeOK, state, flags
  <2>4. TypeOK'
      BY <1>0, <2>1, <2>2, <2>3 DEF TypeOK, state, flags
  <2> QED BY <1>0, <2>1, <2>2, <2>4 DEF SavesOrderly, SessionsReal, Up, state
<1>6. CASE BecomeActive
  <2>1. now \in 0..now
      BY <1>0
  <2>2. TypeOK'
      BY <1>0, <1>6, <2>1 DEF TypeOK, BecomeActive, NotesTime, real
  <2> QED BY <1>0, <1>6, <2>2 DEF BecomeActive, real, SavesOrderly, SessionsReal, Up
<1>7. CASE ResignActive
  <2>1. Elapsed \in Int
      BY <1>0 DEF TypeOK, Elapsed
  <2>2. /\ sinceCrash' \in SinceCrash /\ sinceLaunch' \in SinceLaunch
        /\ sinceLaunch'.sessions = sinceLaunch.sessions
      BY <1>7, <2>1 DEF ResignActive, AddActive, TypeOK, SinceCrash, SinceLaunch
  <2>3. TypeOK'
      BY <1>0, <1>7, <2>2 DEF TypeOK, ResignActive, real
  <2> QED BY <1>0, <1>7, <2>2, <2>3 DEF ResignActive, real, SavesOrderly, SessionsReal, Up
<1>8. CASE EnterBackground
  <2>1. now \in 0..now
      BY <1>0
  <2>2. TypeOK'
      BY <1>0, <1>8, <2>1 DEF TypeOK, EnterBackground, NotesTime, real
  <2> QED BY <1>0, <1>8, <2>2 DEF EnterBackground, real, SavesOrderly, SessionsReal, Up
<1>9. CASE EnterForeground
  <2>1. Elapsed \in Int
      BY <1>0 DEF TypeOK, Elapsed
  <2>2. /\ sinceCrash \in SinceCrash /\ sinceLaunch \in SinceLaunch
        /\ realCrash \in SinceCrash /\ realLaunch \in SinceLaunch
      BY DEF TypeOK
  <2>3. sinceCrash' \in SinceCrash
    <3> DEFINE time == sinceCrash.background + Elapsed
               number == sinceCrash.sessions + 1
    <3>1. time \in Int /\ number \in Nat
        BY <2>1, <2>2 DEF SinceCrash
    <3>2. sinceCrash' = [sinceCrash EXCEPT !.background = time, !.sessions = number]
        BY <1>9 DEF EnterForeground
    <3> HIDE DEF time, number
    <3> QED BY <2>2, <3>1, <3>2 DEF SinceCrash
  <2>4. sinceLaunch' \in SinceLaunch /\ sinceLaunch'.sessions = sinceLaunch.sessions + 1
    <3> DEFINE time == sinceLaunch.background + Elapsed
               number == sinceLaunch.sessions + 1
    <3>1. time \in Int /\ number \in Nat
        BY <2>1, <2>2 DEF SinceLaunch
    <3>2. sinceLaunch' = [sinceLaunch EXCEPT !.background = time, !.sessions = number]
        BY <1>9 DEF EnterForeground
    <3>3. number = sinceLaunch.sessions + 1
        OBVIOUS
    <3> HIDE DEF time, number
    <3> QED BY <2>2, <3>1, <3>2, <3>3 DEF SinceLaunch
  <2>5. /\ realCrash' \in SinceCrash
        /\ realLaunch' \in SinceLaunch /\ realLaunch'.sessions = realLaunch.sessions + 1
      BY <1>9, <2>2 DEF EnterForeground, SinceCrash, SinceLaunch
  <2>6. TypeOK'
      BY <1>0, <1>9, <2>3, <2>4, <2>5 DEF TypeOK, EnterForeground
  <2> QED BY <1>0, <1>9, <2>4, <2>5, <2>6 DEF EnterForeground, Notified, SavesOrderly, SessionsReal, Up
<1>10. CASE Terminate
  <2>1. Elapsed \in Int
      BY <1>0 DEF TypeOK, Elapsed
  <2>2. sinceCrash' \in SinceCrash
      BY <1>10, <2>1 DEF Terminate, TypeOK, SinceCrash
  <2>3. TypeOK'
      BY <1>0, <1>10, <2>2 DEF TypeOK, Terminate, flags, real
  <2> QED BY <1>0, <1>10, <2>3 DEF Terminate, Notified, real, SavesOrderly, SessionsReal, Up
<1>11. CASE Crash
  <2>1. /\ Up /\ Up' /\ NotifyAppCrash /\ crashedThisLaunch' = TRUE
        /\ saving' = TRUE /\ course' = "crashed" /\ interrupted' \in BOOLEAN /\ realCrashed' = TRUE
        /\ file' = file \/ file' \in Torn
        /\ UNCHANGED <<os, now, launched, crashedLastLaunch, applicationIsActive,
                       applicationIsInForeground, appStateTransitionTime,
                       realCrash, realLaunch, realCrashedLast>>
      BY <1>11 DEF Crash, NotifyAppCrash, Up
  <2>2. file' \in File
      BY <2>1, TornCounts DEF TypeOK
  <2>3. TypeOK'
      BY <1>0, <2>1, <2>2, CrashCounts DEF TypeOK
  <2> QED BY <2>1, <2>3, CrashCounts DEF SavesOrderly, SessionsReal
<1>12. CASE UserReport
  <2>1. /\ Up /\ Up' /\ NotifyAppCrash /\ crashedThisLaunch' = TRUE /\ saving' = TRUE
        /\ course = "runs"
        /\ UNCHANGED <<os, now, launched, crashedLastLaunch, applicationIsActive,
                       applicationIsInForeground, appStateTransitionTime, file, course, interrupted, real>>
      BY <1>12 DEF UserReport, Notified, NotifyAppCrash, Up
  <2>2. TypeOK'
      BY <1>0, <2>1, CrashCounts DEF TypeOK, real
  <2> QED BY <2>1, <2>2, CrashCounts DEF SavesOrderly, SessionsReal, real
<1>13. CASE UNCHANGED vars
    BY <1>13 DEF vars, state, flags, real, TypeOK, SavesOrderly, SessionsReal, Up
<1> QED BY <1>1, <1>2, <1>3, <1>4, <1>5, <1>6, <1>7, <1>8, <1>9, <1>10, <1>11, <1>12, <1>13 DEF Next

\* Where nothing runs on, neither the process nor its file counts what did not happen.
LEMMA CountsRealStep ==
    ASSUME TypeOK, SavesOrderly, ~env.runsOn, CountsReal, FileNotOverstated,
           TypeOK', [Next]_vars
    PROVE  CountsReal' /\ FileNotOverstated'
<1>0. /\ realCrash \in SinceCrash /\ sinceCrash \in SinceCrash /\ file \in File
      /\ realCrash.launches \in Nat /\ realCrash.sessions \in Nat
      /\ file.launches \in Nat /\ file.sessions \in Nat
      /\ realCrash'.launches \in Nat /\ realCrash'.sessions \in Nat
      /\ course # "runsOn"
    BY DEF TypeOK, SinceCrash, File, SavesOrderly
<1>1. CASE Launch
  <2>1. ~Up /\ ~realCrashed' /\ file' = file /\ sinceCrash' = Reset(file) /\ crashedThisLaunch' = FALSE
      BY <1>1 DEF Launch, Up
  <2>2. CountsReal'
    <3>1. CASE file.crashed
      <4>1. Reset(file).launches = 1 /\ Reset(file).sessions = 1
          BY <1>0, <3>1, ResetCounts, Zenon
      <4>2. realCrash'.launches >= 1 /\ realCrash'.sessions >= 1
          BY <1>0, <1>1, LaunchCounts
      <4> QED BY <1>0, <2>1, <4>1, <4>2 DEF CountsReal
    <3>2. CASE ~file.crashed
        BY <1>0, <1>1, <2>1, <3>2, ResetCounts, LaunchCounts DEF FileNotOverstated, CountsReal
    <3> QED BY <3>1, <3>2
  <2>3. Up'
      BY <1>1 DEF Launch, Up
  <2>4. file'.crashed \/ (file'.launches <= realCrash'.launches /\ file'.sessions <= realCrash'.sessions)
      BY <1>0, <1>1, <2>1, LaunchCounts DEF FileNotOverstated
  <2> QED BY <2>1, <2>2, <2>3, <2>4, Zenon DEF FileNotOverstated
<1>2. CASE SaveDone
  <2>1. /\ saving /\ Up /\ file' = Written(5) /\ UNCHANGED <<now, launched, real>>
      BY <1>2 DEF SaveDone, SavesOrderly
  <2>2. /\ file'.crashed = crashedThisLaunch
        /\ file'.launches = sinceCrash.launches /\ file'.sessions = sinceCrash.sessions
      BY <2>1, SavedCounts
  <2>3. /\ file'.launches <= realCrash'.launches /\ file'.sessions <= realCrash'.sessions
        /\ realCrashed' => crashedThisLaunch
      BY <2>1, <2>2 DEF CountsReal, FileNotOverstated, real
  <2>4. CASE Exits
      BY <2>1, <2>2, <2>3, <2>4, ExitsTyped, Zenon DEF FileNotOverstated, CountsReal
  <2>5. CASE UNCHANGED <<os, state, interrupted>>
    <3>1. Up' /\ crashedThisLaunch' = crashedThisLaunch /\ sinceCrash' = sinceCrash /\ realCrash' = realCrash
        BY <2>1, <2>5 DEF Up, state, flags, real
    <3> QED BY <2>1, <2>3, <3>1, Zenon DEF FileNotOverstated, CountsReal
  <2> QED BY <1>2, <2>4, <2>5 DEF SaveDone
<1>3. CASE SaveGoesOn
    BY <1>0, <1>3 DEF SaveGoesOn
<1>4. CASE Kill
  <2>1. /\ Up /\ Exits /\ ~Up' /\ realCrash' = realCrash
        /\ \/ file' = file /\ realCrashed' = FALSE
           \/ file' \in Torn /\ realCrashed' = realCrashed
      BY <1>0, <1>4 DEF Kill, Up, Exits
  <2>2. CASE file' = file /\ realCrashed' = FALSE
      BY <2>1, <2>2 DEF FileNotOverstated, CountsReal
  <2>3. CASE file' \in Torn /\ realCrashed' = realCrashed
    <3>1. file'.launches <= realCrash'.launches /\ file'.sessions <= realCrash'.sessions
      <4>1. file'.launches \in {0, sinceCrash.launches} /\ file'.sessions \in {0, sinceCrash.sessions}
          BY <2>3, TornCounts, Zenon
      <4> QED BY <1>0, <2>1, <4>1 DEF CountsReal
    <3>2. realCrashed' => file'.crashed \/ (file'.launches = 0 /\ file'.sessions = 0)
        BY <2>1, <2>3, TornCounts, Zenon DEF FileNotOverstated
    <3> QED BY <2>1, <3>1, <3>2, Zenon DEF FileNotOverstated, CountsReal
  <2> QED BY <2>1, <2>2, <2>3
<1>5. CASE Tick
  <2>1. UNCHANGED <<os, state, file, realCrashed>>
      BY <1>5 DEF Tick
  <2>2. realCrash'.launches = realCrash.launches /\ realCrash'.sessions = realCrash.sessions
    <3>1. CASE os = "active"
        BY <1>0, <1>5, <3>1 DEF Tick, SinceCrash
    <3>2. CASE os = "background"
        BY <1>0, <1>5, <3>2 DEF Tick, SinceCrash
    <3>3. CASE os \notin {"active", "background"}
        BY <1>5, <3>3 DEF Tick
    <3> QED BY <3>1, <3>2, <3>3
  <2> QED BY <2>1, <2>2 DEF CountsReal, FileNotOverstated, Up, state, flags
<1>6. CASE BecomeActive
    BY <1>6 DEF BecomeActive, Notified, real, CountsReal, FileNotOverstated, Up
<1>7. CASE ResignActive
  <2>1. sinceCrash'.launches = sinceCrash.launches /\ sinceCrash'.sessions = sinceCrash.sessions
      BY <1>0, <1>7 DEF ResignActive, AddActive, SinceCrash
  <2> QED BY <1>7, <2>1 DEF ResignActive, Notified, real, CountsReal, FileNotOverstated, Up
<1>8. CASE EnterBackground
    BY <1>8 DEF EnterBackground, Notified, real, CountsReal, FileNotOverstated, Up
<1>9. CASE EnterForeground
  <2>1. /\ sinceCrash'.launches = sinceCrash.launches /\ sinceCrash'.sessions = sinceCrash.sessions + 1
        /\ realCrash'.launches = realCrash.launches /\ realCrash'.sessions = realCrash.sessions + 1
      BY <1>0, <1>9 DEF EnterForeground, SinceCrash
  <2>2. Up /\ Up' /\ UNCHANGED <<file, saving, crashedThisLaunch, realCrashed>>
      BY <1>9 DEF EnterForeground, Notified, Up
  <2>3. sinceCrash.launches \in Nat /\ sinceCrash.sessions \in Nat
      BY <1>0 DEF SinceCrash
  <2>4. CountsReal'
      BY <1>0, <2>1, <2>2, <2>3 DEF CountsReal
  <2>5. file'.crashed \/ (file'.launches <= realCrash'.launches /\ file'.sessions <= realCrash'.sessions)
      BY <1>0, <2>1, <2>2 DEF FileNotOverstated
  <2> QED BY <2>2, <2>4, <2>5 DEF FileNotOverstated
<1>10. CASE Terminate
  <2>1. sinceCrash'.launches = sinceCrash.launches /\ sinceCrash'.sessions = sinceCrash.sessions
      BY <1>0, <1>10 DEF Terminate, SinceCrash
  <2> QED BY <1>10, <2>1 DEF Terminate, Notified, flags, real, CountsReal, FileNotOverstated, Up
<1>11. CASE Crash
  <2>1. /\ Up /\ Up' /\ NotifyAppCrash /\ crashedThisLaunch' = TRUE /\ realCrashed' = TRUE
        /\ file' = file \/ file' \in Torn
        /\ realCrash' = realCrash
      BY <1>11 DEF Crash, NotifyAppCrash, Up
  <2>2. CountsReal'
      BY <2>1, CrashCounts DEF CountsReal
  <2>3. file'.crashed \/ (file'.launches <= realCrash'.launches /\ file'.sessions <= realCrash'.sessions)
    <3>1. CASE file' = file
        BY <2>1, <3>1 DEF FileNotOverstated
    <3>2. CASE file' \in Torn
      <4>1. file'.launches \in {0, sinceCrash.launches} /\ file'.sessions \in {0, sinceCrash.sessions}
          BY <3>2, TornCounts, Zenon
      <4> QED BY <1>0, <2>1, <4>1 DEF CountsReal
    <3> QED BY <2>1, <3>1, <3>2
  <2> QED BY <2>1, <2>2, <2>3, Zenon DEF FileNotOverstated
<1>12. CASE UserReport
  <2>1. /\ Up /\ Up' /\ NotifyAppCrash /\ crashedThisLaunch' = TRUE /\ UNCHANGED <<file, real>>
      BY <1>12 DEF UserReport, Notified, NotifyAppCrash, Up
  <2>2. CountsReal'
      BY <2>1, CrashCounts DEF CountsReal, real
  <2> QED BY <2>1, <2>2 DEF FileNotOverstated, real
<1>13. CASE UNCHANGED vars
    BY <1>13 DEF vars, state, flags, real, CountsReal, FileNotOverstated, Up
<1> QED BY <1>1, <1>2, <1>3, <1>4, <1>5, <1>6, <1>7, <1>8, <1>9, <1>10, <1>11, <1>12, <1>13 DEF Next

LEMMA CountsStep == CountsInv /\ [Next]_vars => CountsInv'
<1>1. CountsInv <=> /\ TypeOK /\ SavesOrderly /\ SessionsReal
                    /\ ~env.runsOn => CountsReal /\ FileNotOverstated
    BY DEF CountsInv, CountsNotOverstated, SessionsReal, CountsReal
<1>2. CountsInv' <=> /\ TypeOK' /\ SavesOrderly' /\ SessionsReal'
                     /\ ~env'.runsOn => CountsReal' /\ FileNotOverstated'
    BY DEF CountsInv, CountsNotOverstated, SessionsReal, CountsReal
<1>3. [Next]_vars => env' = env
    BY DEF Next, vars
<1> QED BY <1>1, <1>2, <1>3, TypeStep, CountsRealStep

\* Every value is of its type, and however often the process is killed, in the
\* middle of a save included, no launch or session is counted that did not happen.
THEOREM CountsAlwaysSound == Spec => []CountsSound
<1>1. CountsInv => CountsSound
    BY DEF CountsInv, CountsSound
<1> QED BY <1>1, CountsInit, CountsStep, PTL DEF Spec

-----------------------------------------------------------------------------
(* Where saves complete and only crashes are reported, the file of a process *)
(* that is gone says that it crashed only if it did, and if nothing runs on  *)
(* after a crash it says so if it did, and counts every launch if not; in    *)
(* between, only a save under way, which a crash starts too, separates the   *)
(* file from the process.                                                    *)

SavesComplete == ~env.userReports /\ ~env.killedInSave
FlagInv ==
    SavesComplete =>
        /\ Up => /\ crashedThisLaunch = realCrashed
                 /\ crashedThisLaunch => course # "runs"
                 /\ crashedLastLaunch => realCrashedLast
        /\ ending => saving
        /\ course \in {"crashed", "runsOn"} => realCrashed
        /\ Up /\ ~saving /\ course = "runs" => ~file.crashed
        /\ ~Up => (file.crashed => realCrashed)

Orderly == SavesComplete /\ ~env.runsOn
CrashIsKnown ==
    /\ crashedThisLaunch = realCrashed
    /\ crashedThisLaunch => saving /\ ending
FileIsExact ==
    /\ ~Up => /\ file.crashed = realCrashed
              /\ file.crashed \/ file.launches = realCrash.launches
    /\ Up /\ ~saving => ~file.crashed /\ file.launches = realCrash.launches
OrderlyIsReal ==
    Up => sinceCrash.launches = realCrash.launches /\ crashedLastLaunch = realCrashedLast
LastCrashInv == Orderly => (Up => CrashIsKnown) /\ FileIsExact /\ OrderlyIsReal

LEMMA FlagInit == Init => FlagInv
BY DEF Init, FlagInv, Up, EmptyFile, ending

\* The flag of the file is never ahead of what happened.
LEMMA FlagStep == CountsInv /\ FlagInv /\ [Next]_vars => FlagInv'
<1> SUFFICES ASSUME CountsInv, FlagInv, [Next]_vars, SavesComplete' PROVE FlagInv'
    BY DEF FlagInv
<1>0. /\ TypeOK /\ SavesOrderly /\ SavesComplete
      /\ Up => /\ crashedThisLaunch = realCrashed
               /\ crashedThisLaunch => course # "runs"
               /\ crashedLastLaunch => realCrashedLast
      /\ ending => saving
      /\ course \in {"crashed", "runsOn"} => realCrashed
      /\ Up /\ ~saving /\ course = "runs" => ~file.crashed
      /\ ~Up => (file.crashed => realCrashed)
    BY DEF CountsInv, Next, vars, SavesComplete, FlagInv
<1> SUFFICES /\ Up' => /\ crashedThisLaunch' = realCrashed'
                       /\ crashedThisLaunch' => course' # "runs"
                       /\ crashedLastLaunch' => realCrashedLast'
             /\ ending' => saving'
             /\ course' \in {"crashed", "runsOn"} => realCrashed'
             /\ Up' /\ ~saving' /\ course' = "runs" => ~file'.crashed
             /\ ~Up' => (file'.crashed => realCrashed')
    BY DEF FlagInv
<1>1. CASE Launch
    BY <1>0, <1>1 DEF Launch, Up, ending, SavesOrderly
<1>2. CASE SaveDone
  <2>1. /\ saving /\ Up /\ realCrashed' = realCrashed /\ realCrashedLast' = realCrashedLast
        /\ file'.crashed = crashedThisLaunch
      BY <1>0, <1>2, SavedCounts DEF SaveDone, real, SavesOrderly
  <2>2. CASE Exits
      BY <1>0, <2>1, <2>2 DEF Exits, Up, ending
  <2>3. CASE /\ ~ending \/ RunsOn
             /\ saving' = FALSE
             /\ course' = IF RunsOn THEN "runsOn" ELSE course
             /\ UNCHANGED <<os, state, interrupted>>
    <3>1. /\ Up' = Up /\ crashedThisLaunch' = crashedThisLaunch /\ crashedLastLaunch' = crashedLastLaunch
        BY <2>3 DEF state, flags, Up
    <3>2. CASE RunsOn
      <4>1. course' = "runsOn" /\ ~ending'
          BY <2>3, <3>2 DEF ending
      <4>2. crashedThisLaunch
          BY <1>0, <2>1, <3>2 DEF RunsOn
      <4> QED BY <1>0, <2>1, <3>1, <4>1, <4>2
    <3>3. CASE ~RunsOn
      <4>1. course' = course /\ ~ending /\ ~ending'
          BY <2>3, <3>3 DEF ending
      <4> QED BY <1>0, <2>1, <3>1, <4>1
    <3> QED BY <3>2, <3>3
  <2> QED BY <1>2, <2>2, <2>3 DEF SaveDone
<1>3. CASE SaveGoesOn
    BY <1>0, <1>3 DEF SaveGoesOn, state, flags, real, Up, ending, SavesOrderly
<1>4. CASE Kill
  <2>1. /\ Up /\ ~Up' /\ course' = "runs" /\ ~ending' /\ (saving => course = "runsOn")
        /\ \/ file' = file /\ (course = "runsOn" => realCrashed')
           \/ file' \in Torn /\ realCrashed' = realCrashed
      BY <1>0, <1>4 DEF Kill, Exits, Up, ending, SavesComplete
  <2>2. file' \in Torn => saving
      BY DEF Torn
  <2>3. course = "runs" \/ course = "runsOn"
      BY <1>0, <2>1 DEF ending, TypeOK
  <2> QED BY <1>0, <2>1, <2>2, <2>3
<1>5. CASE Tick
    BY <1>0, <1>5 DEF Tick, state, flags, Up, ending
<1>6. CASE BecomeActive
    BY <1>0, <1>6 DEF BecomeActive, Notified, real, Up, ending
<1>7. CASE ResignActive
    BY <1>0, <1>7 DEF ResignActive, Notified, real, Up, ending
<1>8. CASE EnterBackground
    BY <1>0, <1>8 DEF EnterBackground, Notified, real, Up, ending
<1>9. CASE EnterForeground
    BY <1>0, <1>9 DEF EnterForeground, Notified, Up, ending
<1>10. CASE Terminate
    BY <1>0, <1>10 DEF Terminate, Notified, flags, real, Up, ending
<1>11. CASE Crash
    BY <1>0, <1>11 DEF Crash, NotifyAppCrash, Up, ending
<1>12. CASE UserReport
    BY <1>0, <1>12 DEF UserReport, SavesComplete
<1>13. CASE UNCHANGED vars
    BY <1>0, <1>13 DEF vars, state, flags, real, Up, ending
<1> QED BY <1>1, <1>2, <1>3, <1>4, <1>5, <1>6, <1>7, <1>8, <1>9, <1>10, <1>11, <1>12, <1>13 DEF Next

LEMMA LastCrashInit == Init => LastCrashInv
<1> SUFFICES ASSUME Init PROVE LastCrashInv
    OBVIOUS
<1>1. ~Up /\ file.crashed = realCrashed /\ file.launches = realCrash.launches
    BY DEF Init, Up, EmptyFile, NoneSinceCrash
<1> QED BY <1>1, Zenon DEF LastCrashInv, FileIsExact, OrderlyIsReal

LEMMA LastCrashStep == CountsInv /\ LastCrashInv /\ [Next]_vars => LastCrashInv'
<1> SUFFICES ASSUME CountsInv, LastCrashInv, [Next]_vars, Orderly'
             PROVE  (Up => CrashIsKnown)' /\ FileIsExact' /\ OrderlyIsReal'
    BY DEF LastCrashInv
<1>0. TypeOK /\ SavesOrderly /\ env' = env /\ Orderly /\ course # "runsOn"
    BY DEF CountsInv, Next, vars, Orderly, SavesComplete, SavesOrderly
<1>1. /\ Up => CrashIsKnown
      /\ FileIsExact
      /\ Up => sinceCrash.launches = realCrash.launches /\ crashedLastLaunch = realCrashedLast
    BY <1>0 DEF LastCrashInv, OrderlyIsReal
<1>2. CASE Launch
  <2>1. /\ ~Up /\ Up' /\ saving' = TRUE /\ sinceCrash' = Reset(file)
        /\ crashedLastLaunch' = file.crashed /\ realCrashedLast' = realCrashed
        /\ crashedThisLaunch' = FALSE /\ realCrashed' = FALSE
      BY <1>2 DEF Launch, Up
  <2>2. /\ file \in File /\ file.crashed = realCrashed
        /\ file.crashed \/ file.launches = realCrash.launches
      BY <1>0, <1>1, <2>1 DEF TypeOK, FileIsExact
  <2>3. sinceCrash'.launches = realCrash'.launches
    <3>1. CASE file.crashed
      <4>1. Reset(file).launches = 1
          BY <2>2, <3>1, ResetCounts, Zenon
      <4>2. realCrash'.launches = 1
          BY <1>0, <1>2, <2>2, <3>1, LaunchCounts, Zenon
      <4> QED BY <2>1, <4>1, <4>2
    <3>2. CASE ~file.crashed
      <4>1. Reset(file).launches = file.launches + 1
          BY <2>2, <3>2, ResetCounts, Zenon
      <4>2. realCrash'.launches = realCrash.launches + 1
          BY <1>0, <1>2, <2>2, <3>2, LaunchCounts, Zenon
      <4>3. file.launches = realCrash.launches
          BY <2>2, <3>2, Zenon
      <4> QED BY <2>1, <4>1, <4>2, <4>3
    <3> QED BY <3>1, <3>2
  <2> QED BY <2>1, <2>2, <2>3, Zenon
      DEF CrashIsKnown, FileIsExact, OrderlyIsReal
<1>3. CASE SaveDone
  <2>1. /\ saving /\ Up /\ file' = Written(5) /\ realCrash' = realCrash
        /\ realCrashed' = realCrashed /\ realCrashedLast' = realCrashedLast
      BY <1>0, <1>3 DEF SaveDone, real, SavesOrderly
  <2>2. /\ file'.crashed = crashedThisLaunch /\ crashedThisLaunch = realCrashed
        /\ file'.launches = realCrash.launches
      BY <1>0, <1>1, <2>1, SavedCounts DEF CrashIsKnown
  <2>3. CASE ending
    <3>1. ~Up'
        BY <1>0, <1>3, <2>3 DEF SaveDone, Exits, Up, RunsOn, Orderly
    <3> QED BY <2>1, <2>2, <3>1, Zenon
        DEF FileIsExact, OrderlyIsReal
  <2>4. CASE ~ending
    <3>1. Up' /\ UNCHANGED <<state, course>> /\ ending' = ending
        BY <1>0, <1>3, <2>1, <2>4 DEF SaveDone, Up, RunsOn, Orderly, ending
    <3>2. ~crashedThisLaunch
        BY <1>1, <2>1, <2>4, Zenon DEF CrashIsKnown
    <3>3. ~crashedThisLaunch' /\ sinceCrash' = sinceCrash /\ crashedLastLaunch' = crashedLastLaunch
        BY <3>1, <3>2 DEF state, flags
    <3>4. crashedThisLaunch' = realCrashed'
        BY <2>1, <2>2, <3>1 DEF state, flags
    <3> QED BY <1>1, <2>1, <2>2, <3>1, <3>2, <3>3, <3>4, Zenon
        DEF CrashIsKnown, FileIsExact, OrderlyIsReal
  <2> QED BY <2>3, <2>4
<1>4. CASE Kill
  <2>1. Up /\ ~saving
      BY <1>0, <1>4 DEF Kill, Up, Orderly, SavesComplete
  <2>2. /\ ~Up' /\ file' = file /\ realCrashed' = FALSE /\ realCrash' = realCrash
      BY <1>0, <1>4, <2>1 DEF Kill, Exits, Torn, Up
  <2>3. file.crashed = FALSE /\ file.launches = realCrash.launches
      BY <1>0, <1>1, <2>1, Zenon DEF FileIsExact, TypeOK, File
  <2> QED BY <2>2, <2>3, Zenon
      DEF FileIsExact, OrderlyIsReal
<1>5. CASE Tick
  <2>1. /\ UNCHANGED <<os, state, file, saving, course, realCrashed, realCrashedLast>>
        /\ realCrash'.launches = realCrash.launches
    <3>1. realCrash \in SinceCrash
        BY <1>0 DEF TypeOK
    <3> QED BY <1>5, <3>1 DEF Tick, SinceCrash
  <2> QED BY <1>1, <2>1 DEF CrashIsKnown, FileIsExact, OrderlyIsReal, Up, ending, state, flags
<1>6. CASE BecomeActive
    BY <1>1, <1>6 DEF BecomeActive, Notified, real, CrashIsKnown, FileIsExact, OrderlyIsReal, Up, ending
<1>7. CASE ResignActive
  <2>1. sinceCrash'.launches = sinceCrash.launches
      BY <1>0, <1>7 DEF ResignActive, AddActive, TypeOK, SinceCrash
  <2> QED BY <1>1, <1>7, <2>1 DEF ResignActive, Notified, real, CrashIsKnown, FileIsExact,
      OrderlyIsReal, Up, ending
<1>8. CASE EnterBackground
    BY <1>1, <1>8 DEF EnterBackground, Notified, real, CrashIsKnown, FileIsExact, OrderlyIsReal, Up, ending
<1>9. CASE EnterForeground
  <2>1. sinceCrash \in SinceCrash /\ realCrash \in SinceCrash
      BY <1>0 DEF TypeOK
  <2>2. sinceCrash'.launches = sinceCrash.launches /\ realCrash'.launches = realCrash.launches
      BY <1>9, <2>1 DEF EnterForeground, SinceCrash
  <2>3. /\ Up /\ Up' /\ UNCHANGED <<crashedLastLaunch, crashedThisLaunch, file, saving, course,
                                   realCrashed, realCrashedLast>>
      BY <1>9 DEF EnterForeground, Notified, Up
  <2> QED BY <1>1, <2>2, <2>3 DEF CrashIsKnown, FileIsExact, OrderlyIsReal, ending
<1>10. CASE Terminate
  <2>1. sinceCrash'.launches = sinceCrash.launches
      BY <1>0, <1>10 DEF Terminate, TypeOK, SinceCrash
  <2> QED BY <1>1, <1>10, <2>1 DEF Terminate, Notified, flags, real, CrashIsKnown, FileIsExact,
      OrderlyIsReal, Up, ending
<1>11. CASE Crash
  <2>1. /\ Up /\ Up' /\ crashedThisLaunch' = TRUE /\ saving' = TRUE /\ course' = "crashed"
        /\ realCrashed' = TRUE
        /\ UNCHANGED <<crashedLastLaunch, realCrash, realCrashedLast>>
      BY <1>11 DEF Crash, NotifyAppCrash, Up
  <2>2. sinceCrash'.launches = sinceCrash.launches
      BY <1>0, <1>11, CrashCounts DEF Crash
  <2> QED BY <1>1, <2>1, <2>2 DEF CrashIsKnown, FileIsExact, OrderlyIsReal, ending
<1>12. CASE UserReport
    BY <1>0, <1>12 DEF UserReport, Orderly, SavesComplete
<1>14. CASE SaveGoesOn
    BY <1>0, <1>14 DEF SaveGoesOn
<1>13. CASE UNCHANGED vars
    BY <1>1, <1>13 DEF vars, state, flags, real, CrashIsKnown, FileIsExact, OrderlyIsReal, Up, ending
<1> QED BY <1>2, <1>3, <1>4, <1>5, <1>6, <1>7, <1>8, <1>9, <1>10, <1>11, <1>12, <1>13, <1>14 DEF Next

\* Where saves complete and only crashes are reported, the process is told of no crash of
\* the previous launch that was not; and where nothing runs on after a crash, of each
\* there was, and how many launches ago it was.
THEOREM LastCrashAlwaysReal == Spec => []LastCrashIsReal
<1>1. FlagInv /\ LastCrashInv => LastCrashIsReal
    BY DEF FlagInv, LastCrashInv, OrderlyIsReal, LastCrashIsReal, LaunchesAreReal, CrashFlagIsReal,
       Orderly, SavesComplete
<1> QED BY <1>1, CountsInit, CountsStep, FlagInit, FlagStep, LastCrashInit, LastCrashStep, PTL DEF Spec

-----------------------------------------------------------------------------
(* Where the application is launched and quits the usual way as well, what   *)
(* is counted and what the clock has gone on since the last notification add *)
(* up to what passed; when the process is about to end, only what was saved  *)
(* must not be more.                                                         *)

\* The process knows where the application is.
KnowsPlace ==
    /\ os = "active" => applicationIsActive
    /\ os \in {"inactive", "background"} => ~applicationIsActive
    /\ os \in {"inactive", "active"} => applicationIsInForeground
    /\ os = "background" => ~applicationIsInForeground

ActiveAddsUp ==
    /\ os = "active" /\ ~ending => /\ sinceLaunch.active + Elapsed = realLaunch.active
                                   /\ sinceCrash.active + Elapsed <= realCrash.active
    /\ os # "active" => sinceLaunch.active = realLaunch.active
    /\ sinceCrash.active <= realCrash.active

BackgroundAddsUp ==
    /\ os = "background" /\ ~ending => /\ sinceLaunch.background + Elapsed = realLaunch.background
                                       /\ sinceCrash.background + Elapsed <= realCrash.background
    /\ os # "background" => sinceLaunch.background = realLaunch.background
    /\ sinceCrash.background <= realCrash.background

\* The next launch starts from no more than that.
FileAddsUp == file.active <= realCrash.active /\ file.background <= realCrash.background

Times ==
    /\ Up => KnowsPlace /\ ActiveAddsUp /\ BackgroundAddsUp
    /\ ~Up \/ ~saving => FileAddsUp
    /\ ending => saving
TimesInv == Usual => Times

LEMMA TimesInit == Init => TimesInv
<1> SUFFICES ASSUME Init PROVE Times
    BY DEF TimesInv
<1>1. /\ ~Up /\ ~ending /\ file.active = 0 /\ file.background = 0
      /\ realCrash.active = 0 /\ realCrash.background = 0
    BY DEF Init, Up, EmptyFile, NoneSinceCrash, ending
<1> QED BY <1>1 DEF Times, FileAddsUp

\* The times a state keeps are numbers.
LEMMA TimesAreNumbers ==
    ASSUME TypeOK
    PROVE  /\ sinceLaunch \in SinceLaunch /\ realLaunch \in SinceLaunch
           /\ sinceCrash \in SinceCrash /\ realCrash \in SinceCrash
           /\ sinceLaunch.active \in Int /\ sinceLaunch.background \in Int
           /\ sinceCrash.active \in Int /\ sinceCrash.background \in Int
           /\ realLaunch.active \in Int /\ realLaunch.background \in Int
           /\ realCrash.active \in Int /\ realCrash.background \in Int
           /\ now \in Nat /\ appStateTransitionTime \in Nat /\ appStateTransitionTime <= now
           /\ Elapsed \in Nat
<1>1. env \in Environment /\ FirstTime \in Nat
    BY AppStateAssumption DEF TypeOK
<1>2. now \in Nat /\ appStateTransitionTime \in Nat /\ appStateTransitionTime <= now
    BY <1>1 DEF TypeOK, Environment
<1>3. Elapsed \in Nat
    BY <1>2 DEF Elapsed
<1> QED BY <1>2, <1>3 DEF TypeOK, SinceLaunch, SinceCrash

\* A launch starts from nothing, or from what the file says.
LEMMA LaunchTimes ==
    ASSUME TypeOK, Launch, file.crashed = realCrashed, FileAddsUp
    PROVE  /\ sinceCrash'.active <= realCrash'.active
           /\ sinceCrash'.background <= realCrash'.background
<1>1. file \in File /\ realCrash \in SinceCrash
    BY DEF TypeOK
<1>2. CASE file.crashed
  <2>1. sinceCrash' = StartsOver(file) /\ realCrash' = AnotherLaunch(NoneSinceCrash)
      BY <1>2 DEF Launch, Reset
  <2> QED BY <2>1 DEF StartsOver, AnotherLaunch, NoneSinceCrash
<1>3. CASE ~file.crashed
  <2>1. sinceCrash' = KeepsCounting(file) /\ realCrash' = AnotherLaunch(realCrash)
      BY <1>3 DEF Launch, Reset
  <2>2. /\ sinceCrash'.active = file.active /\ sinceCrash'.background = file.background
        /\ realCrash'.active = realCrash.active /\ realCrash'.background = realCrash.background
      BY <2>1 DEF KeepsCounting, AnotherLaunch
  <2> QED BY <2>2 DEF FileAddsUp
<1> QED BY <1>2, <1>3

LEMMA AddsActive ==
    ASSUME TypeOK, AddActive
    PROVE  /\ sinceLaunch'.active = sinceLaunch.active + Elapsed
           /\ sinceCrash'.active = sinceCrash.active + Elapsed
           /\ sinceLaunch'.background = sinceLaunch.background
           /\ sinceCrash'.background = sinceCrash.background
BY DEF TypeOK, AddActive, SinceLaunch, SinceCrash

LEMMA AddsBackground ==
    ASSUME TypeOK, AddBackground
    PROVE  /\ sinceLaunch'.background = sinceLaunch.background + Elapsed
           /\ sinceCrash'.background = sinceCrash.background + Elapsed
           /\ sinceLaunch'.active = sinceLaunch.active
           /\ sinceCrash'.active = sinceCrash.active
BY DEF TypeOK, AddBackground, SinceLaunch, SinceCrash

LEMMA TimesStep ==
    CountsInv /\ LastCrashInv /\ TimesInv /\ [Next]_vars => TimesInv'
<1> SUFFICES ASSUME CountsInv, LastCrashInv, TimesInv, [Next]_vars, Usual' PROVE Times'
    BY DEF TimesInv
<1>0. TypeOK /\ SavesOrderly /\ env' = env /\ Usual /\ Times /\ Orderly /\ ~RunsOn /\ course # "runsOn"
    BY DEF CountsInv, Next, vars, Usual, TimesInv, Orderly, SavesComplete, RunsOn, SavesOrderly
<1>n. /\ sinceLaunch \in SinceLaunch /\ realLaunch \in SinceLaunch
      /\ sinceCrash \in SinceCrash /\ realCrash \in SinceCrash
      /\ sinceLaunch.active \in Int /\ sinceLaunch.background \in Int
      /\ sinceCrash.active \in Int /\ sinceCrash.background \in Int
      /\ realLaunch.active \in Int /\ realLaunch.background \in Int
      /\ realCrash.active \in Int /\ realCrash.background \in Int
      /\ now \in Nat /\ appStateTransitionTime \in Nat /\ appStateTransitionTime <= now
      /\ Elapsed \in Nat
    BY <1>0, TimesAreNumbers
<1>1. CASE Launch
  <2>1. /\ ~Up /\ os' = "inactive" /\ saving' = TRUE /\ ending' = ending
        /\ applicationIsActive' = FALSE /\ applicationIsInForeground' = TRUE
        /\ sinceLaunch' = realLaunch'
      BY <1>0, <1>1 DEF Launch, Up, Usual, ending
  <2>2. file.crashed = realCrashed /\ FileAddsUp
      BY <1>0, <2>1 DEF LastCrashInv, FileIsExact, Times
  <2>3. /\ sinceCrash'.active <= realCrash'.active
        /\ sinceCrash'.background <= realCrash'.background
      BY <1>0, <1>1, <2>2, LaunchTimes
  <2> QED BY <2>1, <2>3 DEF Times, Up, KnowsPlace, ActiveAddsUp, BackgroundAddsUp
<1>2. CASE SaveDone
  <2>1. /\ saving /\ Up /\ file' = Written(5) /\ UNCHANGED <<now, launched, real>>
      BY <1>0, <1>2 DEF SaveDone, SavesOrderly
  <2>2. file'.active = sinceCrash.active /\ file'.background = sinceCrash.background
      BY <2>1 DEF Written
  <2>3. KnowsPlace /\ ActiveAddsUp /\ BackgroundAddsUp
      BY <1>0, <2>1 DEF Times
  <2>4. FileAddsUp'
      BY <2>1, <2>2, <2>3 DEF ActiveAddsUp, BackgroundAddsUp, FileAddsUp, real
  <2>5. CASE ending
    <3>1. ~Up' /\ ending' = FALSE
        BY <1>0, <1>2, <2>5 DEF SaveDone, Exits, Up, ending
    <3> QED BY <2>4, <3>1 DEF Times
  <2>6. CASE ~ending
    <3>1. UNCHANGED <<os, state, course>> /\ ending' = ending
        BY <1>0, <1>2, <2>6 DEF SaveDone, ending
    <3>2. Elapsed' = Elapsed /\ Up' = Up
        BY <2>1, <3>1 DEF Elapsed, state, flags, Up
    <3>3. (KnowsPlace /\ ActiveAddsUp /\ BackgroundAddsUp)'
        BY <2>1, <2>3, <3>1, <3>2 DEF KnowsPlace, ActiveAddsUp, BackgroundAddsUp, state, flags, real
    <3> QED BY <2>4, <2>6, <3>1, <3>3 DEF Times
  <2> QED BY <2>5, <2>6
<1>3. CASE Kill
  <2>1. Up /\ ~saving
      BY <1>0, <1>3 DEF Kill, Up, Usual
  <2>2. ~Up' /\ file' = file /\ realCrash' = realCrash /\ ending' = FALSE
      BY <1>0, <1>3, <2>1 DEF Kill, Exits, Torn, Up, ending
  <2>3. FileAddsUp
      BY <1>0, <2>1 DEF Times
  <2> QED BY <2>2, <2>3 DEF Times, FileAddsUp
<1>4. CASE Tick
  <2>1. /\ ~saving /\ now' = now + 1
        /\ UNCHANGED <<os, state, file, saving, ending>>
      BY <1>4 DEF Tick, ending
  <2>2. ~ending /\ FileAddsUp
      BY <1>0, <2>1 DEF Times
  <2>3. Elapsed' = Elapsed + 1
      BY <1>n, <2>1 DEF Elapsed, state, flags
  <2>4. /\ realLaunch'.active = IF os = "active" THEN realLaunch.active + 1 ELSE realLaunch.active
        /\ realCrash'.active = IF os = "active" THEN realCrash.active + 1 ELSE realCrash.active
      BY <1>n, <1>4 DEF Tick, SinceLaunch, SinceCrash
  <2>5. /\ realLaunch'.background = IF os = "background" THEN realLaunch.background + 1 ELSE realLaunch.background
        /\ realCrash'.background = IF os = "background" THEN realCrash.background + 1 ELSE realCrash.background
      BY <1>n, <1>4 DEF Tick, SinceLaunch, SinceCrash
  <2>6. /\ UNCHANGED <<os, saving, ending, sinceCrash, sinceLaunch, applicationIsActive,
                       applicationIsInForeground, file>>
      BY <2>1 DEF state, flags
  <2>7. FileAddsUp'
    <3>1. realCrash.active <= realCrash'.active /\ realCrash.background <= realCrash'.background
        BY <1>n, <2>4, <2>5
    <3>2. file.active \in Int /\ file.background \in Int
        BY <1>0 DEF TypeOK, File
    <3>3. realCrash'.active \in Int /\ realCrash'.background \in Int
        BY <1>n, <2>4, <2>5
    <3> QED BY <1>n, <2>2, <2>6, <3>1, <3>2, <3>3 DEF FileAddsUp
  <2>8. ASSUME Up PROVE (KnowsPlace /\ ActiveAddsUp /\ BackgroundAddsUp)'
    <3>1. KnowsPlace /\ ActiveAddsUp /\ BackgroundAddsUp
        BY <1>0, <2>8 DEF Times
    <3>2. KnowsPlace'
        BY <2>6, <3>1 DEF KnowsPlace
    <3>3. ActiveAddsUp'
        BY <1>n, <2>2, <2>3, <2>4, <2>6, <3>1 DEF ActiveAddsUp
    <3>4. BackgroundAddsUp'
        BY <1>n, <2>2, <2>3, <2>5, <2>6, <3>1 DEF BackgroundAddsUp
    <3> QED BY <3>2, <3>3, <3>4
  <2>9. Up' => Up
      BY <2>6 DEF Up
  <2> QED BY <2>2, <2>6, <2>7, <2>8, <2>9 DEF Times
<1>m. ASSUME Notified PROVE /\ Up /\ ~saving /\ ~ending
                            /\ KnowsPlace /\ ActiveAddsUp /\ BackgroundAddsUp /\ FileAddsUp
    BY <1>0, <1>m DEF Times, Notified, Up
<1>5. CASE BecomeActive
  <2>1. /\ Notified /\ os = "inactive" /\ os' = "active" /\ applicationIsActive' = TRUE
        /\ appStateTransitionTime' = now
        /\ UNCHANGED <<now, sinceCrash, sinceLaunch, applicationIsInForeground, file, saving, ending,
                       realCrash, realLaunch>>
      BY <1>5 DEF BecomeActive, NotesTime, real, ending
  <2>2. Elapsed' = 0
      BY <1>n, <2>1 DEF Elapsed
  <2>3. KnowsPlace' /\ ActiveAddsUp' /\ BackgroundAddsUp' /\ FileAddsUp'
      BY <1>n, <1>m, <2>1, <2>2 DEF KnowsPlace, ActiveAddsUp, BackgroundAddsUp, FileAddsUp
  <2> QED BY <1>m, <2>1, <2>3 DEF Times
<1>6. CASE ResignActive
  <2>1. /\ Notified /\ os = "active" /\ os' = "inactive" /\ applicationIsActive' = FALSE
        /\ UNCHANGED <<file, saving, ending, realCrash, realLaunch>> /\ AddActive
        /\ applicationIsInForeground' = applicationIsInForeground
      BY <1>6 DEF ResignActive, real, ending
  <2>2. KnowsPlace' /\ ActiveAddsUp' /\ BackgroundAddsUp' /\ FileAddsUp'
    <3>1. KnowsPlace'
        BY <1>m, <2>1 DEF KnowsPlace
    <3>2. /\ sinceLaunch'.active = sinceLaunch.active + Elapsed
          /\ sinceCrash'.active = sinceCrash.active + Elapsed
          /\ sinceLaunch'.background = sinceLaunch.background
          /\ sinceCrash'.background = sinceCrash.background
        BY <1>0, <2>1, AddsActive
    <3> QED BY <1>n, <1>m, <2>1, <3>1, <3>2 DEF ActiveAddsUp, BackgroundAddsUp, FileAddsUp
  <2> QED BY <1>m, <2>1, <2>2 DEF Times
<1>7. CASE EnterBackground
  <2>1. /\ Notified /\ os = "inactive" /\ os' = "background" /\ applicationIsInForeground' = FALSE
        /\ appStateTransitionTime' = now /\ saving' = TRUE
        /\ UNCHANGED <<now, sinceCrash, sinceLaunch, applicationIsActive, file, ending, realCrash, realLaunch>>
      BY <1>7 DEF EnterBackground, NotesTime, real, ending
  <2>2. Elapsed' = 0
      BY <1>n, <2>1 DEF Elapsed
  <2>3. KnowsPlace' /\ ActiveAddsUp' /\ BackgroundAddsUp' /\ FileAddsUp'
      BY <1>n, <1>m, <2>1, <2>2 DEF KnowsPlace, ActiveAddsUp, BackgroundAddsUp, FileAddsUp
  <2> QED BY <1>m, <2>1, <2>3 DEF Times
<1>8. CASE EnterForeground
  <2>1. /\ Notified /\ os = "background" /\ os' = "inactive" /\ applicationIsInForeground' = TRUE
        /\ UNCHANGED <<applicationIsActive, file, saving, ending>>
      BY <1>8 DEF EnterForeground, ending
  <2>2. /\ sinceLaunch'.background = sinceLaunch.background + Elapsed
        /\ sinceCrash'.background = sinceCrash.background + Elapsed
        /\ sinceLaunch'.active = sinceLaunch.active /\ sinceCrash'.active = sinceCrash.active
      BY <1>n, <1>8 DEF EnterForeground, SinceLaunch, SinceCrash
  <2>3. /\ realLaunch'.background = realLaunch.background /\ realLaunch'.active = realLaunch.active
        /\ realCrash'.background = realCrash.background /\ realCrash'.active = realCrash.active
      BY <1>n, <1>8 DEF EnterForeground, SinceLaunch, SinceCrash
  <2>4. KnowsPlace' /\ ActiveAddsUp' /\ BackgroundAddsUp' /\ FileAddsUp'
      BY <1>n, <1>m, <2>1, <2>2, <2>3 DEF KnowsPlace, ActiveAddsUp, BackgroundAddsUp, FileAddsUp
  <2> QED BY <1>m, <2>1, <2>4 DEF Times
<1>9. CASE Terminate
  <2>1. /\ Notified /\ os = "background" /\ saving' = TRUE /\ ending' = TRUE
        /\ UNCHANGED <<os, now, sinceLaunch, flags, file, realCrash, realLaunch>>
      BY <1>0, <1>9 DEF Terminate, Usual, real, ending
  <2>2. /\ sinceCrash'.background = sinceCrash.background + Elapsed
        /\ sinceCrash'.active = sinceCrash.active
      BY <1>n, <1>9 DEF Terminate, SinceCrash
  <2>3. KnowsPlace' /\ ActiveAddsUp' /\ BackgroundAddsUp'
      BY <1>n, <1>m, <2>1, <2>2 DEF KnowsPlace, ActiveAddsUp, BackgroundAddsUp, flags
  <2> QED BY <1>m, <2>1, <2>3 DEF Times, Up
<1>10. CASE Crash
  <2>1. /\ Up /\ Up' /\ ~ending /\ ending' = TRUE /\ saving' = TRUE /\ NotifyAppCrash
        /\ UNCHANGED <<os, applicationIsActive, applicationIsInForeground, realCrash, realLaunch>>
      BY <1>10 DEF Crash, Up, NotifyAppCrash, ending
  <2>2. KnowsPlace /\ ActiveAddsUp /\ BackgroundAddsUp
      BY <1>0, <2>1 DEF Times
  <2>3. KnowsPlace'
      BY <2>1, <2>2 DEF KnowsPlace
  <2>4. ActiveAddsUp' /\ BackgroundAddsUp'
    <3>1. os \in {"inactive", "active", "background"}
        BY <1>0, <2>1 DEF TypeOK, Up
    <3>2. CASE os = "active"
      <4>1. AddActive
          BY <2>1, <2>2, <3>2 DEF NotifyAppCrash, KnowsPlace
      <4> QED BY <1>0, <1>n, <2>1, <2>2, <3>2, <4>1, AddsActive DEF ActiveAddsUp, BackgroundAddsUp
    <3>3. CASE os = "background"
      <4>1. AddBackground
          BY <2>1, <2>2, <3>3 DEF NotifyAppCrash, KnowsPlace
      <4> QED BY <1>0, <1>n, <2>1, <2>2, <3>3, <4>1, AddsBackground DEF ActiveAddsUp, BackgroundAddsUp
    <3>4. CASE os = "inactive"
      <4>1. UNCHANGED <<sinceCrash, sinceLaunch>>
          BY <2>1, <2>2, <3>4 DEF NotifyAppCrash, KnowsPlace
      <4> QED BY <1>n, <2>1, <2>2, <3>4, <4>1 DEF ActiveAddsUp, BackgroundAddsUp
    <3> QED BY <3>1, <3>2, <3>3, <3>4
  <2> QED BY <2>1, <2>3, <2>4 DEF Times
<1>11. CASE UserReport
    BY <1>0, <1>11 DEF UserReport, Usual
<1>12. CASE UNCHANGED vars
  <2>1. UNCHANGED <<os, now, sinceCrash, sinceLaunch, applicationIsActive, applicationIsInForeground,
                    appStateTransitionTime, file, saving, ending, realCrash, realLaunch>>
      BY <1>12 DEF vars, state, flags, real, ending
  <2>2. Elapsed' = Elapsed
      BY <2>1 DEF Elapsed
  <2> QED BY <1>0, <2>1, <2>2
      DEF Times, Up, KnowsPlace, ActiveAddsUp, BackgroundAddsUp, FileAddsUp
<1>13. CASE SaveGoesOn
    BY <1>0, <1>13 DEF SaveGoesOn
<1> QED BY <1>1, <1>2, <1>3, <1>4, <1>5, <1>6, <1>7, <1>8, <1>9, <1>10, <1>11, <1>12, <1>13 DEF Next

\* Where the application is launched and quits the usual way and only crashes are
\* reported, the times a report gives are those that passed since the launch, and since
\* the last crash no more than passed.
THEOREM TimesAlwaysReal == Spec => []TimesAreReal
<1>1. TimesInv => TimesAreReal
    BY DEF TimesInv, Times, ActiveAddsUp, BackgroundAddsUp, TimesAreReal, ActiveIsReal, BackgroundIsReal
<1> QED BY <1>1, CountsInit, CountsStep, LastCrashInit, LastCrashStep, TimesInit, TimesStep, PTL DEF Spec
=============================================================================
