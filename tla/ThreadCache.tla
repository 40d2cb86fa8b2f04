---------------------------- MODULE ThreadCache ----------------------------
(***************************************************************************)
(* The cache of thread and queue names, VicrabCrashCachedData.c.  One      *)
(* detached thread replaces it every so often; reporters look names up in  *)
(* it.  A crash handler suspends the updater wherever it is: what such a   *)
(* handler reads is a function of the state, and an invariant says it of   *)
(* every state.  A user report does not suspend: it runs beside the        *)
(* updater, step by step, with only freeze() to hold it off.               *)
(***************************************************************************)
EXTENDS Integers, Sequences

CONSTANTS
    Threads,    \* the threads the kernel may list
    Reporters,  \* user reports, which suspend nothing
    MaxUpdates, \* bound on the updates
    MaxThreads, \* bound on the threads there are at a time
    Absent      \* no thread; the name of a thread without one

ASSUME ThreadCacheAssumption == {MaxUpdates, MaxThreads} \subseteq Nat /\ Absent \notin Threads

VARIABLES
    count,     \* g_allThreadsCount
    array,     \* the arrays the four pointers show: which update made them, of what
    fresh,     \* the arrays the update under way has made
    step,      \* where the updater is
    swapped,   \* how many pointers it has swapped
    oldCount,  \* oldThreadsCount
    live,      \* the arrays of updates before this one are freed
    semaphore, \* g_semaphoreCount
    reading    \* the look-up of each reporter

cacheVars == <<count, array, fresh, step, swapped, oldCount, live, semaphore, reading>>
updater == <<count, array, fresh, step, swapped, oldCount, live>>

\* The order in which updateThreadList swaps them.
Pointers == <<"mach", "pthread", "names", "queues">>
Kinds == {"mach", "pthread", "names", "queues"}
Lists == UNION {[1..n -> Threads] : n \in 0..MaxThreads}
Distinct(list) == \A i, j \in DOMAIN list : i # j => list[i] # list[j]
Arrays == [made : Nat, of : Lists]

Steps == {"sleeping", "checked", "listed", "swapping", "published"}
Reading == [at : {"out", "frozen", "check", "compare", "fetch", "use", "fault"},
            thread : Threads \cup {Absent}, index : Nat, held : [Kinds -> Arrays],
            name : [made : Nat, of : Threads \cup {Absent}], overlaps : BOOLEAN]

CacheTypeOK ==
    /\ count \in Nat /\ oldCount \in Nat /\ live \in Nat /\ semaphore \in Nat
    /\ array \in [Kinds -> Arrays] /\ fresh \in Arrays
    /\ step \in Steps /\ swapped \in 0..4
    /\ reading \in [Reporters -> Reading]

NoArrays == [made |-> 0, of |-> <<>>]
NotReading == [at |-> "out", thread |-> Absent, index |-> 1, held |-> [k \in Kinds |-> NoArrays],
               name |-> [made |-> 0, of |-> Absent], overlaps |-> FALSE]

CacheInit ==
    /\ count = 0 /\ oldCount = 0 /\ live = 0 /\ semaphore = 0 /\ swapped = 0
    /\ array = [k \in Kinds |-> NoArrays] /\ fresh = NoArrays
    /\ step = "sleeping"
    /\ reading = [r \in Reporters |-> NotReading]

-----------------------------------------------------------------------------
(* The updater: monitorCachedData and updateThreadList *)

\* The semaphore is looked at before the update, not while it runs.
Unfrozen == semaphore <= 0
CheckSemaphore ==
    /\ step = "sleeping" /\ Unfrozen /\ fresh.made < MaxUpdates
    /\ step' = "checked"
    /\ UNCHANGED <<count, array, fresh, swapped, oldCount, live, semaphore, reading>>

\* task_threads lists the threads there are, the updater at least, in some order.
ListThreads(threads) ==
    /\ step = "checked" /\ Len(threads) > 0 /\ Distinct(threads)
    /\ oldCount' = count
    /\ fresh' = [made |-> fresh.made + 1, of |-> threads]
    /\ step' = "listed"
    /\ UNCHANGED <<count, array, swapped, live, semaphore, reading>>

Smaller(m, n) == IF m < n THEN m ELSE n
Untrimmed == count
Trimmed == Smaller(count, Len(fresh.of))
TrimCount ==
    /\ step = "listed"
    /\ count' = Trimmed
    /\ swapped' = 0
    /\ step' = "swapping"
    /\ UNCHANGED <<array, fresh, oldCount, live, semaphore, reading>>

SwapPointer ==
    /\ step = "swapping" /\ swapped < 4
    /\ array' = [array EXCEPT ![Pointers[swapped + 1]] = fresh]
    /\ swapped' = swapped + 1
    /\ UNCHANGED <<count, fresh, step, oldCount, live, semaphore, reading>>

PublishCount ==
    /\ step = "swapping" /\ swapped = 4
    /\ count' = Len(fresh.of)
    /\ step' = "published"
    /\ UNCHANGED <<array, fresh, swapped, oldCount, live, semaphore, reading>>

\* The arrays that were swapped out, and the oldCount names in them.
FreeOld ==
    /\ step = "published"
    /\ live' = fresh.made
    /\ step' = "sleeping"
    /\ UNCHANGED <<count, array, fresh, swapped, oldCount, semaphore, reading>>

-----------------------------------------------------------------------------
(* A reporter beside the updater *)

Freeze(r) ==
    /\ reading[r].at = "out"
    /\ semaphore' = semaphore + 1
    /\ reading' = [reading EXCEPT ![r].at = "frozen"]
    /\ UNCHANGED updater

ReleasedAll == 0
Released == IF semaphore - 1 < 0 THEN semaphore ELSE semaphore - 1
Unfreeze(r) ==
    /\ reading[r].at = "frozen"
    /\ semaphore' = Released
    /\ reading' = [reading EXCEPT ![r] = NotReading]
    /\ UNCHANGED updater

\* getThreadName and getQueueName: the loop over the indices.  The globals are
\* plain variables, so each read is of the global or of what was loaded before.
Loaded(r, kind) == {array[kind], reading[r].held[kind]}
Readable(a, i) == a.made >= live /\ i <= Len(a.of)

LookUp(r, t) ==
    /\ reading[r].at = "frozen" /\ array["names"].made > 0
    /\ reading' = [reading EXCEPT ![r] = [NotReading EXCEPT !.at = "check", !.thread = t,
                                             !.held = array, !.overlaps = step # "sleeping"]]
    /\ UNCHANGED <<updater, semaphore>>

Found(r, entry) == [reading EXCEPT ![r] = entry]
Done == [NotReading EXCEPT !.at = "frozen"]
CheckIndex(r) ==
    /\ reading[r].at = "check"
    /\ reading' = IF reading[r].index <= count THEN [reading EXCEPT ![r].at = "compare"]
                                               ELSE Found(r, Done)
    /\ UNCHANGED <<updater, semaphore>>

CompareThread(r) ==
    /\ reading[r].at = "compare"
    /\ \E a \in Loaded(r, "mach"), i \in {reading[r].index} :
          reading' = CASE ~Readable(a, i) -> [reading EXCEPT ![r].at = "fault"]
                       [] Readable(a, i) /\ a.of[i] = reading[r].thread -> [reading EXCEPT ![r].at = "fetch"]
                       [] OTHER -> [reading EXCEPT ![r].at = "check", ![r].index = i + 1]
    /\ UNCHANGED <<updater, semaphore>>

\* The queue names are never filled in: what is found there is no name.
FetchName(r, kind) ==
    /\ reading[r].at = "fetch"
    /\ \E a \in Loaded(r, kind), i \in {reading[r].index} :
          reading' = CASE ~Readable(a, i) -> [reading EXCEPT ![r].at = "fault"]
                       [] Readable(a, i) /\ kind = "names" ->
                             [reading EXCEPT ![r].at = "use", ![r].name = [made |-> a.made, of |-> a.of[i]]]
                       [] OTHER -> Found(r, Done)
    /\ UNCHANGED <<updater, semaphore>>

\* addStringElement copies the name into the report.
UseName(r) ==
    /\ reading[r].at = "use"
    /\ reading' = IF reading[r].name.made >= live THEN Found(r, Done)
                                                  ELSE [reading EXCEPT ![r].at = "fault"]
    /\ UNCHANGED <<updater, semaphore>>

-----------------------------------------------------------------------------
Update ==
    \/ CheckSemaphore \/ TrimCount \/ SwapPointer \/ PublishCount \/ FreeOld
    \/ \E threads \in Lists : ListThreads(threads)

Report(r) ==
    \/ Freeze(r) \/ Unfreeze(r) \/ CheckIndex(r) \/ CompareThread(r) \/ UseName(r)
    \/ \E t \in Threads : LookUp(r, t)
    \/ \E kind \in {"names", "queues"} : FetchName(r, kind)

CacheNext == Update \/ \E r \in Reporters : Report(r)
CacheSpec == CacheInit /\ [][CacheNext]_cacheVars

-----------------------------------------------------------------------------
(* Properties *)

\* Wherever the updater is suspended, every index below the count is inside all
\* four arrays and none of them is freed: getThreadName in a crash handler reads
\* only memory that is there (the two assignments of the count around the swaps).
CrashReadsValid ==
    \A kind \in Kinds : count <= Len(array[kind].of) /\ array[kind].made >= live

\* Wherever the updater is suspended, the name found for a thread is its own,
\* except between the swap of the threads and the swap of the names.
MixedUp == step = "swapping" /\ swapped \in {1, 2}
CrashNamesRight ==
    \A i \in 1..count : MixedUp \/ array["names"].of[i] = array["mach"].of[i]

\* A user report reads freed memory or the wrong name only if the update that had
\* passed the semaphore before it froze the cache was still under way when the
\* look-up began; an update never starts under a frozen cache.
OverlapOnly ==
    \A r \in Reporters : reading[r].overlaps
        \/ /\ reading[r].at # "fault"
           /\ reading[r].at = "use" => reading[r].name.of = reading[r].thread

\* A report, of a crash or of the user's, tells of each thread the name of that thread.
NamesTold == CacheTypeOK /\ CrashNamesRight /\ OverlapOnly
=============================================================================
