---------------------------- MODULE ReportStore ----------------------------
(***************************************************************************)
(* The crash report files: VicrabCrashReportStore.c, with the recorder     *)
(* that writes into it and sendAllReportsWithCompletion of VicrabCrash.m,  *)
(* which counts, lists, reads, sends and deletes.  The store's mutex       *)
(* covers single calls only; the recorder, which may run in a signal       *)
(* handler, and deleteReportWithID do not take it.  The process may exit   *)
(* between any two steps and be launched again later.                      *)
(*                                                                         *)
(* A report ID is a position in a ring: the launch time, in seconds, picks *)
(* one of 512 slots of 2^23 IDs (only the low 32 bits of the base survive  *)
(* `baseID & ~0xffffffff`), and the counter goes on from there.            *)
(***************************************************************************)
EXTENDS Naturals, FiniteSets

CONSTANTS
    Writers,    \* threads that record crashes or add user reports
    Senders,    \* threads that call sendAllReports
    Slots, PerSlot, \* the ring of IDs: 512 slots of 2^23 in the code
    FirstClock, LastClock, \* launch times
    MaxReports, \* bound on the reports begun
    MaxExits,   \* bound on process exits
    MaxCounts,  \* values of g_maxReportCount
    Behaviors,  \* values of deleteBehaviorAfterSendAll
    MayFail,    \* whether the sink may refuse
    DeletesByID, \* whether the application calls deleteReportWithID
    AddsWhileListing \* whether a file may appear between a sender's count and
                     \* its listing

IDs == 0..(Slots * PerSlot - 1)
Numbers == 1..MaxReports
None == 0
Clocks == FirstClock..LastClock

ASSUME StoreAssumption ==
    /\ Slots \in Nat \ {0} /\ PerSlot \in Nat \ {0}
    /\ FirstClock \in Nat /\ LastClock \in Nat /\ FirstClock <= LastClock
    /\ MaxReports \in Nat /\ MaxExits \in Nat
    /\ MaxCounts \subseteq Nat /\ MaxCounts # {}
    /\ Behaviors \subseteq {"never", "success", "always"} /\ Behaviors # {}
    /\ MayFail \in BOOLEAN /\ DeletesByID \in BOOLEAN /\ AddsWhileListing \in BOOLEAN
    /\ Writers \cap Senders = {}

Free == "free"

VARIABLES
    phase,      \* "down", "prune" (in vicrabcrashcrs_initialize) or "up"
    clock,      \* time of the last launch
    nextID,     \* g_nextUniqueID
    maxCount,   \* g_maxReportCount
    file,       \* for each ID, the number of the report in its file
    written,    \* reports whose file was completed
    lock,       \* holder of g_mutex
    writer,     \* what each writer is doing
    sender,     \* what each sender is doing
    victims,    \* report IDs pruneReports still has to delete
    born, exits,\* reports begun, process exits
    sends,      \* history: how often each report was accepted by the sink
    begunAt     \* history: the time of the launch each report was begun in

process == <<phase, clock, nextID, maxCount, exits>>
storage == <<file, written, victims>>
history == <<sends, begunAt>>
vars == <<process, storage, lock, writer, sender, born, history>>

Present == {id \in IDs : file[id] # None}
\* getReportIDFromFilename(name) > 0: the ID 0 counts as no report.
Visible == Present \ {0}

WriterIdle == [pc |-> "idle", id |-> 0, num |-> None]
SenderIdle == [pc |-> "idle", count |-> 0, todo |-> {}, loaded |-> {}, known |-> {}]

TypeOK ==
    /\ phase \in {"down", "prune", "up"}
    /\ clock \in Clocks
    /\ nextID \in IDs
    /\ maxCount \in MaxCounts
    /\ file \in [IDs -> Numbers \cup {None}]
    /\ written \in SUBSET Numbers
    /\ lock \in Writers \cup Senders \cup {Free}
    /\ writer \in [Writers -> [pc : {"idle", "open", "write", "add"}, id : IDs,
                               num : Numbers \cup {None}]]
    /\ sender \in [Senders -> [pc : {"idle", "list", "read", "send", "delete"}, count : Nat,
                               todo : SUBSET IDs, loaded : SUBSET Numbers,
                               known : SUBSET Numbers]]
    /\ victims \in SUBSET IDs
    /\ born \in 0..MaxReports
    /\ exits \in 0..MaxExits
    /\ sends \in [Numbers -> Nat]
    /\ begunAt \in [Numbers -> Clocks]

\* The k smallest members of a set of IDs.
Rank(S, id) == Cardinality({x \in S : x < id})
Smallest(S, k) == {id \in S : Rank(S, id) < k}
Oldest(S) == CHOOSE id \in S : Rank(S, id) = 0

-----------------------------------------------------------------------------
(* Launching and exiting *)

\* initializeIDs: the time decides where this launch's IDs start.
InitialIDFixed(time) == PerSlot
InitialID(time) == (time % Slots) * PerSlot
NextAfter(id) == (id + 1) % (Slots * PerSlot)

\* pruneReports deletes the smallest IDs beyond g_maxReportCount.
PrunesOneLess(max) == IF Cardinality(Visible) > max
                      THEN Smallest(Visible, Cardinality(Visible) - max - 1) ELSE {}
Prunes(max) == IF Cardinality(Visible) > max
               THEN Smallest(Visible, Cardinality(Visible) - max) ELSE {}

Launch ==
    /\ phase = "down"
    /\ phase' = "prune"
    /\ clock' \in (clock + 1)..LastClock
    /\ maxCount' \in MaxCounts
    /\ victims' = Prunes(maxCount')
    /\ UNCHANGED <<nextID, exits, file, written, lock, writer, sender, born, history>>

Prune ==
    /\ phase = "prune" /\ victims # {}
    /\ file' = [file EXCEPT ![Oldest(victims)] = None]
    /\ victims' = victims \ {Oldest(victims)}
    /\ UNCHANGED <<process, written, lock, writer, sender, born, history>>

Initialized ==
    /\ phase = "prune" /\ victims = {}
    /\ phase' = "up"
    /\ nextID' = InitialID(clock)
    /\ UNCHANGED <<clock, maxCount, exits, storage, lock, writer, sender, born, history>>

\* The process ends, wherever its threads are.
Exit ==
    /\ phase # "down" /\ exits < MaxExits /\ clock < LastClock
    /\ exits' = exits + 1
    /\ phase' = "down"
    /\ victims' = {}
    /\ lock' = Free
    /\ writer' = [w \in Writers |-> WriterIdle]
    /\ sender' = [s \in Senders |-> SenderIdle]
    /\ UNCHANGED <<clock, nextID, maxCount, file, written, born, history>>

-----------------------------------------------------------------------------
(* Recording *)

MayAdd == AddsWhileListing \/ \A s \in Senders : sender[s].pc # "list"
MayBegin(w) == phase = "up" /\ writer[w].pc = "idle" /\ born < MaxReports
TakesID(w, pc) ==
    /\ born' = born + 1
    /\ writer' = [writer EXCEPT ![w] = [pc |-> pc, id |-> nextID, num |-> born + 1]]
    /\ nextID' = NextAfter(nextID)
    /\ begunAt' = [begunAt EXCEPT ![born + 1] = clock]

\* vicrabcrashcrs_getNextCrashReportPath, without the lock.
BeginReport(w) ==
    /\ MayBegin(w) /\ TakesID(w, "open")
    /\ UNCHANGED <<phase, clock, maxCount, exits, storage, lock, sender, sends>>

\* vicrabcrashfu_openBufferedWriter: O_EXCL, so a name that is taken gives up.
MayCreate(id) == file[id] = None
OpenReport(w) ==
    /\ writer[w].pc = "open" /\ MayAdd
    /\ LET r == writer[w]
       IN  IF MayCreate(r.id)
           THEN /\ file' = [file EXCEPT ![r.id] = r.num]
                /\ writer' = [writer EXCEPT ![w].pc = "write"]
           ELSE /\ writer' = [writer EXCEPT ![w] = WriterIdle]
                /\ UNCHANGED file
    /\ UNCHANGED <<process, written, victims, lock, sender, born, history>>

\* Completing a file that was deleted meanwhile completes an unlinked inode.
Completes(r) == written' = IF file[r.id] = r.num THEN written \cup {r.num} ELSE written
CloseReport(w) ==
    /\ writer[w].pc = "write"
    /\ Completes(writer[w])
    /\ writer' = [writer EXCEPT ![w] = WriterIdle]
    /\ UNCHANGED <<process, file, victims, lock, sender, born, history>>

\* vicrabcrashcrs_addUserReport, under the lock: neither O_EXCL nor O_TRUNC.
AddUserReport(w) ==
    /\ MayBegin(w) /\ MayAdd /\ lock = Free /\ TakesID(w, "add")
    /\ lock' = w
    /\ file' = [file EXCEPT ![nextID] = born + 1]
    /\ UNCHANGED <<phase, clock, maxCount, exits, written, victims, sender, sends>>

\* A short write is logged only, and what is left of a longer report that had the name
\* ends the file: it is not whole then.
CloseUserReport(w) ==
    /\ writer[w].pc = "add"
    /\ Completes(writer[w]) \/ UNCHANGED written
    /\ writer' = [writer EXCEPT ![w] = WriterIdle]
    /\ lock' = Free
    /\ UNCHANGED <<process, file, victims, sender, born, history>>

-----------------------------------------------------------------------------
(* Sending *)

AtSender(s, pc) == phase = "up" /\ sender[s].pc = pc
Step(s, r) == sender' = [sender EXCEPT ![s] = r]
Whole == {file[id] : id \in Present} \cap written

\* vicrabcrashcrs_getReportCount; without reports there is nothing to list.
Count(s) ==
    /\ AtSender(s, "idle") /\ lock = Free
    /\ Step(s, [pc |-> IF Visible = {} THEN "send" ELSE "list",
                count |-> Cardinality(Visible), todo |-> {}, loaded |-> {},
                known |-> Whole])
    /\ UNCHANGED <<process, storage, lock, writer, born, history>>

\* vicrabcrashcrs_getReportIDs fills an array of `count` IDs in directory order,
\* sorts all of it, filled or not, and returns as many entries as it filled:
\* `low` of the entries that were never set sort before the report IDs.
List(s) ==
    /\ AtSender(s, "list") /\ lock = Free
    /\ LET count == sender[s].count
           found == Cardinality(Visible)
       IN  \E S \in SUBSET Visible, low \in 0..count :
             /\ Cardinality(S) = IF found < count THEN found ELSE count
             /\ low <= count - Cardinality(S) /\ low <= Cardinality(S)
             /\ Step(s, [sender[s] EXCEPT !.pc = "read",
                                          !.todo = Smallest(S, Cardinality(S) - low)])
    /\ UNCHANGED <<process, storage, lock, writer, born, history>>

\* vicrabcrashcrs_readReport, one report after the other; a file that is gone, or
\* that has nothing in it yet, is no report.
Loads(id) == {file[id]} \cap written
Read(s) ==
    /\ AtSender(s, "read") /\ lock = Free
    /\ LET r == sender[s]
       IN  IF r.todo = {}
           THEN Step(s, [r EXCEPT !.pc = "send"])
           ELSE Step(s, [r EXCEPT !.loaded = @ \cup Loads(Oldest(r.todo)),
                                  !.todo = @ \ {Oldest(r.todo)}])
    /\ UNCHANGED <<process, storage, lock, writer, born, history>>

\* sendReports: nothing to send counts as success, otherwise the sink answers.
DeletesAlways(ok, behavior) == TRUE
DeletesNever(ok, behavior) == FALSE
DeletesAfter(ok, behavior) == behavior = "always" \/ (behavior = "success" /\ ok)
Send(s) ==
    /\ AtSender(s, "send")
    /\ \E behavior \in Behaviors, ok \in BOOLEAN :
         /\ ok \/ (MayFail /\ sender[s].loaded # {})
         /\ sends' = [n \in Numbers |->
                        IF ok /\ n \in sender[s].loaded THEN sends[n] + 1 ELSE sends[n]]
         /\ Step(s, IF DeletesAfter(ok, behavior)
                    THEN [sender[s] EXCEPT !.pc = "delete"] ELSE SenderIdle)
    /\ UNCHANGED <<process, storage, lock, writer, born, begunAt>>

\* deletePathContents lists the directory and removes every file in it, whatever its
\* name; as in a listing of the IDs, no file appears meanwhile.
Emptied == [id \in IDs |-> None]
\* vicrabcrashcrs_deleteAllReports: whatever the directory holds by then.
DeleteAll(s) ==
    /\ AtSender(s, "delete") /\ lock = Free
    /\ file' = Emptied
    /\ Step(s, SenderIdle)
    /\ UNCHANGED <<process, written, victims, lock, writer, born, history>>

\* vicrabcrashcrs_deleteReportWithID, without the lock.
DeleteByID(id) ==
    /\ DeletesByID /\ phase = "up" /\ id \in Visible
    /\ file' = [file EXCEPT ![id] = None]
    /\ UNCHANGED <<process, written, victims, lock, writer, sender, born, history>>

-----------------------------------------------------------------------------
\* The first launch finds an empty directory.
Init ==
    /\ phase = "prune"
    /\ clock = FirstClock
    /\ nextID = 0
    /\ maxCount \in MaxCounts
    /\ file = [id \in IDs |-> None]
    /\ written = {}
    /\ lock = Free
    /\ writer = [w \in Writers |-> WriterIdle]
    /\ sender = [s \in Senders |-> SenderIdle]
    /\ victims = {}
    /\ born = 0
    /\ exits = 0
    /\ sends = [n \in Numbers |-> 0]
    /\ begunAt = [n \in Numbers |-> FirstClock]

Next ==
    \/ Launch \/ Prune \/ Initialized \/ Exit
    \/ \E w \in Writers : \/ BeginReport(w) \/ OpenReport(w) \/ CloseReport(w)
                          \/ AddUserReport(w) \/ CloseUserReport(w)
    \/ \E s \in Senders : Count(s) \/ List(s) \/ Read(s) \/ Send(s) \/ DeleteAll(s)
    \/ \E id \in IDs : DeleteByID(id)

Spec == Init /\ [][Next]_vars

-----------------------------------------------------------------------------
(* Properties *)

\* As long as launches share no slot and none starts at the ID 0, the store is
\* the box that its users expect, and a sender that deletes on success has sent
\* every complete report it counted: reports it did not count are at risk, those
\* it did are not, however the recorder and other senders interleave, as long as
\* no file appears between its count and its listing (AddsWhileListing).
Box == INSTANCE ReportBox WITH
         box <- Whole,
         used <- written,
         counted <- [s \in Senders |-> sender[s].known],
         sent <- {n \in Numbers : sends[n] > 0}
IsReportBox == Box!Spec

\* A launch leaves at most g_maxReportCount reports.
Capped == [][phase = "prune" /\ phase' = "up" => Cardinality(Visible) <= maxCount]_vars

\* With one sender, a report is accepted twice only if the process exited between
\* sending and deleting.
OncePerProcess == \A n \in Numbers : sends[n] <= 1 + exits

\* A name tells the slot of its report's launch, and no launch uses a name twice: a
\* name that is taken, for which a crash is not recorded and which a user's report
\* writes over, is that of a report left by another launch in the same slot; and what
\* a writer writes is in its own file or in none.
OfThisLaunch(id) == file[id] # None /\ begunAt[file[id]] = clock
OwnFile ==
    /\ \A id \in Present : id \div PerSlot = begunAt[file[id]] % Slots
    /\ phase = "up" /\ born < MaxReports => ~OfThisLaunch(nextID)
    /\ \A w \in Writers : writer[w].pc = "open" => ~OfThisLaunch(writer[w].id)
    /\ \A w \in Writers : writer[w].pc \in {"write", "add"} =>
         \A id \in Present : file[id] = writer[w].num <=> id = writer[w].id

\* The state is well-formed, and the reports of a launch are apart in it.
FilesApart == TypeOK /\ OwnFile
=============================================================================
