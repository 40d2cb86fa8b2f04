-------------------------- MODULE ReportStore_proofs --------------------------
(***************************************************************************)
(* The crash report files, for any ring of IDs, any writers and any        *)
(* bounds: their types; with one sender that deletes what it sent, how     *)
(* often a report is accepted by the sink; whatever slots the launches     *)
(* share, that the reports of a launch are apart from each other and a     *)
(* taken name is another launch's; and, when launches share no slot, that  *)
(* the store implements ReportBox.                                         *)
(***************************************************************************)
EXTENDS ReportStore, FiniteSetTheorems, WellFoundedInduction, TLAPS

-----------------------------------------------------------------------------
(* Types *)

WriterState == [pc : {"idle", "open", "write", "add"}, id : IDs, num : Numbers \cup {None}]
SenderState == [pc : {"idle", "list", "read", "send", "delete"}, count : Nat,
                todo : SUBSET IDs, loaded : SUBSET Numbers, known : SUBSET Numbers]

Busy(w) == writer[w].pc # "idle"

\* A report gets its number once: writers at work have numbers of their own, that are
\* not in a finished file yet; only finished reports are sent.
Numbered ==
    /\ \A w \in Writers : Busy(w) => writer[w].num \in (1..born) \ written
    /\ \A v, w \in Writers : Busy(v) /\ Busy(w) /\ writer[v].num = writer[w].num => v = w
    /\ \A n \in written : n <= born
    /\ \A n \in Numbers : sends[n] > 0 => n \in written
    /\ \A s \in Senders : sender[s].loaded \subseteq written

\* The ring is not empty, and the successor of an ID and a launch's first one are in it.
LEMMA RingSize == Slots * PerSlot \in Nat \ {0}
<1>1. Slots \in Nat \ {0} /\ PerSlot \in Nat \ {0}
    BY StoreAssumption
<1> QED BY <1>1, Z3

LEMMA ZeroIsID == 0 \in IDs
BY RingSize DEF IDs

LEMMA NextIsID == ASSUME NEW id \in IDs PROVE NextAfter(id) \in IDs
<1> DEFINE size == Slots * PerSlot
<1>1. size \in Nat \ {0} /\ id \in Nat
    BY RingSize DEF IDs
<1> HIDE DEF size
<1>2. (id + 1) % size \in 0..(size - 1)
    BY <1>1
<1> QED BY <1>2 DEF NextAfter, IDs, size

LEMMA InitialIsID == ASSUME NEW time \in Nat PROVE InitialID(time) \in IDs
<1>1. Slots \in Nat \ {0} /\ PerSlot \in Nat \ {0}
    BY StoreAssumption
<1> DEFINE slot == time % Slots
<1>2. slot \in 0..(Slots - 1)
    BY <1>1
<1> HIDE DEF slot
<1>3. slot * PerSlot \in Nat
    BY <1>1, <1>2, Z3
<1>4. slot * PerSlot + PerSlot <= Slots * PerSlot
    BY <1>1, <1>2, Z3
<1>5. slot * PerSlot \in 0..(Slots * PerSlot - 1)
    BY <1>1, <1>3, <1>4, RingSize
<1> QED BY <1>5 DEF InitialID, IDs, slot

LEMMA VisibleIsFinite == Visible \subseteq IDs /\ Cardinality(Visible) \in Nat
<1>1. Visible \subseteq IDs
    BY DEF Visible, Present
<1>2. IsFiniteSet(IDs)
    BY RingSize, FS_Interval DEF IDs
<1> QED BY <1>1, <1>2, FS_Subset, FS_CardinalityType

LEMMA WholeIsNumbers == ASSUME TypeOK PROVE Whole \subseteq Numbers
BY DEF TypeOK, Whole

LEMMA TypeInit == Init => TypeOK
<1> SUFFICES ASSUME Init PROVE TypeOK
    OBVIOUS
<1>1. WriterIdle \in WriterState /\ SenderIdle \in SenderState
    BY ZeroIsID DEF WriterIdle, WriterState, SenderIdle, SenderState, None
<1>2. FirstClock \in Clocks /\ 0 \in 0..MaxReports /\ 0 \in 0..MaxExits
    BY StoreAssumption DEF Clocks
<1> QED BY <1>1, <1>2, ZeroIsID DEF Init, TypeOK, WriterState, SenderState, None, Free

LEMMA TypeStep == TypeOK /\ Numbered /\ [Next]_vars => TypeOK'
<1> SUFFICES ASSUME TypeOK, Numbered, [Next]_vars PROVE TypeOK'
    OBVIOUS
<1>state. writer \in [Writers -> WriterState] /\ sender \in [Senders -> SenderState]
    BY DEF TypeOK, WriterState, SenderState
<1>file. file \in [IDs -> Numbers \cup {None}] /\ written \subseteq Numbers
    BY DEF TypeOK
<1>idle. WriterIdle \in WriterState /\ SenderIdle \in SenderState
    BY ZeroIsID DEF WriterIdle, WriterState, SenderIdle, SenderState, None
<1>counts. MaxReports \in Nat /\ MaxExits \in Nat /\ born \in Nat /\ exits \in Nat /\ clock \in Nat
    BY StoreAssumption DEF TypeOK, Clocks
<1>numbers. \A w \in Writers : Busy(w) => writer[w].num \in Numbers
    BY <1>counts DEF Numbered, Numbers, TypeOK
<1>1. CASE Launch
  <2>1. /\ phase' = "prune" /\ clock' \in (clock + 1)..LastClock /\ maxCount' \in MaxCounts
        /\ victims' = Prunes(maxCount')
        /\ UNCHANGED <<nextID, exits, file, written, lock, writer, sender, born, history>>
      BY <1>1 DEF Launch
  <2>2. clock' \in Clocks
      BY <2>1, StoreAssumption DEF TypeOK, Clocks
  <2>3. victims' \subseteq IDs
    <3>1. Prunes(maxCount') \subseteq Visible
        BY DEF Prunes, Smallest
    <3> QED BY <2>1, <3>1, VisibleIsFinite
  <2> QED BY <2>1, <2>2, <2>3 DEF TypeOK, history
<1>2. CASE Prune
  <2>1. /\ file' = [file EXCEPT ![Oldest(victims)] = None] /\ victims' \subseteq victims
        /\ UNCHANGED <<process, written, lock, writer, sender, born, history>>
      BY <1>2 DEF Prune
  <2>2. file' \in [IDs -> Numbers \cup {None}]
      BY <1>file, <2>1
  <2> QED BY <2>1, <2>2 DEF TypeOK, process, history
<1>3. CASE Initialized
  <2>1. InitialID(clock) \in IDs
      BY <1>counts, InitialIsID
  <2> QED BY <1>3, <2>1 DEF Initialized, TypeOK, storage, history
<1>4. CASE Exit
  <2>1. exits' \in 0..MaxExits
      BY <1>4, <1>counts DEF Exit
  <2>2. writer' \in [Writers -> WriterState] /\ sender' \in [Senders -> SenderState]
      BY <1>4, <1>idle DEF Exit
  <2> QED BY <1>4, <2>1, <2>2 DEF Exit, TypeOK, WriterState, SenderState, history
<1>5. CASE \E w \in Writers : BeginReport(w) \/ AddUserReport(w)
  <2>1. PICK w \in Writers : BeginReport(w) \/ AddUserReport(w)
      BY <1>5
  <2>2. born + 1 \in Numbers /\ born' = born + 1 /\ born' \in 0..MaxReports
      BY <1>counts, <2>1 DEF BeginReport, AddUserReport, MayBegin, TakesID, Numbers
  <2>3. nextID \in IDs /\ nextID' \in IDs
      BY <2>1, NextIsID DEF BeginReport, AddUserReport, TakesID, TypeOK
  <2>4. \A pc \in {"open", "add"} : [pc |-> pc, id |-> nextID, num |-> born + 1] \in WriterState
      BY <2>2, <2>3 DEF WriterState
  <2>5. writer' \in [Writers -> WriterState]
      BY <1>state, <2>1, <2>4 DEF BeginReport, AddUserReport, TakesID
  <2>8. begunAt' \in [Numbers -> Clocks]
      BY <2>1 DEF BeginReport, AddUserReport, TakesID, TypeOK
  <2>6. CASE BeginReport(w)
      BY <2>2, <2>3, <2>5, <2>6, <2>8 DEF BeginReport, TypeOK, WriterState, storage, history
  <2>7. CASE AddUserReport(w)
    <3>1. file' \in [IDs -> Numbers \cup {None}]
        BY <1>file, <2>2, <2>3, <2>7 DEF AddUserReport
    <3> QED BY <2>2, <2>3, <2>5, <2>7, <2>8, <3>1 DEF AddUserReport, TypeOK, WriterState, history
  <2> QED BY <2>1, <2>6, <2>7
<1>6. CASE \E w \in Writers : OpenReport(w)
  <2>1. PICK w \in Writers : OpenReport(w)
      BY <1>6
  <2>2. writer[w] \in WriterState /\ writer[w].num \in Numbers /\ writer[w].pc = "open"
      BY <1>state, <1>numbers, <2>1 DEF WriterState, OpenReport, Busy
  <2>3. UNCHANGED <<process, written, victims, lock, sender, born, history>>
      BY <2>1 DEF OpenReport
  <2>4. CASE MayCreate(writer[w].id)
    <3>1. /\ file' = [file EXCEPT ![writer[w].id] = writer[w].num]
          /\ writer' = [writer EXCEPT ![w].pc = "write"]
        BY <2>1, <2>4 DEF OpenReport
    <3>2. file' \in [IDs -> Numbers \cup {None}] /\ writer' \in [Writers -> WriterState]
        BY <1>file, <1>state, <2>2, <3>1 DEF WriterState
    <3> QED BY <2>3, <3>1, <3>2 DEF TypeOK, WriterState, process, history
  <2>5. CASE ~MayCreate(writer[w].id)
    <3>1. /\ file' = file
          /\ writer' = [writer EXCEPT ![w] = WriterIdle]
        BY <2>1, <2>5 DEF OpenReport
    <3>2. writer' \in [Writers -> WriterState]
        BY <1>state, <1>idle, <3>1
    <3> QED BY <2>2, <2>3, <3>1, <3>2 DEF TypeOK, WriterState, process, history
  <2> QED BY <2>4, <2>5
<1>7. CASE \E w \in Writers : CloseReport(w) \/ CloseUserReport(w)
  <2>1. PICK w \in Writers : CloseReport(w) \/ CloseUserReport(w)
      BY <1>7
  <2>2. /\ Completes(writer[w]) \/ UNCHANGED written
        /\ writer' = [writer EXCEPT ![w] = WriterIdle]
        /\ lock' = lock \/ lock' = Free
        /\ UNCHANGED <<process, file, victims, sender, born, history>>
      BY <2>1 DEF CloseReport, CloseUserReport
  <2>3. writer' \in [Writers -> WriterState]
      BY <1>state, <1>idle, <2>2
  <2>4. writer[w].num \in Numbers
      BY <1>numbers, <2>1 DEF CloseReport, CloseUserReport, Busy
  <2>5. written' \subseteq Numbers
    <3>1. written' = written \/ written' = written \cup {writer[w].num}
        BY <2>2, Zenon DEF Completes
    <3> QED BY <1>file, <2>4, <3>1
  <2> QED BY <2>2, <2>3, <2>5 DEF TypeOK, WriterState, process, history
<1>8. CASE \E s \in Senders : Count(s) \/ List(s) \/ Read(s) \/ DeleteAll(s) \/ Send(s)
  <2>1. PICK s \in Senders : Count(s) \/ List(s) \/ Read(s) \/ DeleteAll(s) \/ Send(s)
      BY <1>8
  <2>2. sender[s] \in SenderState
      BY <1>state
  <2>3. CASE Count(s)
    <3> DEFINE r == [pc |-> IF Visible = {} THEN "send" ELSE "list", count |-> Cardinality(Visible),
                     todo |-> {}, loaded |-> {}, known |-> Whole]
    <3>1. r \in SenderState
        BY VisibleIsFinite, WholeIsNumbers DEF SenderState
    <3>2. sender' = [sender EXCEPT ![s] = r]
        BY <2>3 DEF Count, Step
    <3> HIDE DEF r
    <3>3. sender' \in [Senders -> SenderState]
        BY <1>state, <3>1, <3>2
    <3> QED BY <2>3, <3>3 DEF Count, TypeOK, SenderState, process, storage, history
  <2>4. CASE List(s)
    <3>1. PICK T \in SUBSET IDs : sender' = [sender EXCEPT ![s] = [sender[s] EXCEPT !.pc = "read", !.todo = T]]
      <4>1. PICK S \in SUBSET Visible, low \in 0..sender[s].count :
               Step(s, [sender[s] EXCEPT !.pc = "read", !.todo = Smallest(S, Cardinality(S) - low)])
          BY <2>4 DEF List
      <4>2. Smallest(S, Cardinality(S) - low) \in SUBSET IDs
          BY VisibleIsFinite DEF Smallest
      <4> QED BY <4>1, <4>2, Zenon DEF Step
    <3>2. [sender[s] EXCEPT !.pc = "read", !.todo = T] \in SenderState
        BY <2>2, <3>1 DEF SenderState
    <3>3. sender' \in [Senders -> SenderState]
        BY <1>state, <3>1, <3>2, Zenon
    <3> QED BY <2>4, <3>3 DEF List, TypeOK, SenderState, process, storage, history
  <2>5. CASE Read(s)
    <3> DEFINE r == IF sender[s].todo = {}
                    THEN [sender[s] EXCEPT !.pc = "send"]
                    ELSE [sender[s] EXCEPT !.loaded = @ \cup Loads(Oldest(sender[s].todo)),
                                           !.todo = @ \ {Oldest(sender[s].todo)}]
    <3>1. r \in SenderState
      <4>1. \A id : Loads(id) \subseteq Numbers
          BY <1>file DEF Loads
      <4>2. CASE sender[s].todo = {}
          BY <2>2, <4>2 DEF SenderState
      <4>3. CASE sender[s].todo # {}
        <5> DEFINE more == sender[s].loaded \cup Loads(Oldest(sender[s].todo))
                   rest == sender[s].todo \ {Oldest(sender[s].todo)}
        <5>1. more \in SUBSET Numbers /\ rest \in SUBSET IDs
            BY <2>2, <4>1 DEF SenderState
        <5>2. r = [sender[s] EXCEPT !.loaded = more, !.todo = rest]
            BY <4>3, Zenon
        <5> HIDE DEF more, rest, r
        <5> QED BY <2>2, <5>1, <5>2 DEF SenderState
      <4> QED BY <4>2, <4>3
    <3>2. sender' = [sender EXCEPT ![s] = r]
      <4>1. CASE sender[s].todo = {}
          BY <2>5, <4>1 DEF Read, Step
      <4>2. CASE sender[s].todo # {}
          BY <2>5, <4>2, Zenon DEF Read, Step
      <4> QED BY <4>1, <4>2
    <3> HIDE DEF r
    <3>3. sender' \in [Senders -> SenderState]
        BY <1>state, <3>1, <3>2
    <3> QED BY <2>5, <3>3 DEF Read, TypeOK, SenderState, process, storage, history
  <2>6. CASE DeleteAll(s)
    <3>1. file' \in [IDs -> Numbers \cup {None}] /\ sender' \in [Senders -> SenderState]
        BY <1>state, <1>idle, <2>6 DEF DeleteAll, Emptied, Step
    <3> QED BY <2>6, <3>1 DEF DeleteAll, Emptied, TypeOK, SenderState, process, history
  <2>7. CASE Send(s)
    <3>1. PICK behavior \in Behaviors, ok \in BOOLEAN :
             /\ sends' = [n \in Numbers |-> IF ok /\ n \in sender[s].loaded THEN sends[n] + 1 ELSE sends[n]]
             /\ Step(s, IF DeletesAfter(ok, behavior) THEN [sender[s] EXCEPT !.pc = "delete"] ELSE SenderIdle)
        BY <2>7 DEF Send
    <3>2. sends' \in [Numbers -> Nat]
      <4>1. sends \in [Numbers -> Nat]
          BY DEF TypeOK
      <4>2. \A n \in Numbers : (IF ok /\ n \in sender[s].loaded THEN sends[n] + 1 ELSE sends[n]) \in Nat
          BY <4>1
      <4> QED BY <3>1, <4>2, Zenon
    <3>3. [sender[s] EXCEPT !.pc = "delete"] \in SenderState
        BY <2>2 DEF SenderState
    <3>4. PICK r \in SenderState : sender' = [sender EXCEPT ![s] = r]
        BY <1>idle, <3>1, <3>3, Zenon DEF Step
    <3>5. sender' \in [Senders -> SenderState]
        BY <1>state, <3>4
    <3> QED BY <2>7, <3>2, <3>5 DEF Send, TypeOK, SenderState, process, storage
  <2> QED BY <2>1, <2>3, <2>4, <2>5, <2>6, <2>7
<1>9. CASE \E id \in IDs : DeleteByID(id)
  <2>1. file' \in [IDs -> Numbers \cup {None}]
      BY <1>file, <1>9 DEF DeleteByID
  <2> QED BY <1>9, <2>1 DEF DeleteByID, TypeOK, process, history
<1>10. CASE UNCHANGED vars
    BY <1>10 DEF vars, process, storage, history, TypeOK
<1> QED BY <1>1, <1>2, <1>3, <1>4, <1>5, <1>6, <1>7, <1>8, <1>9, <1>10 DEF Next

-----------------------------------------------------------------------------
(* Numbers *)

LEMMA NumberedInit == Init => Numbered
BY DEF Init, Numbered, Busy, WriterIdle, SenderIdle

\* A finite set of numbers has a least one: strict inclusion of what is below is well
\* founded.
LEMMA LeastOfFinite ==
    ASSUME NEW F, F \subseteq Nat, IsFiniteSet(F), F # {}
    PROVE  \E x \in F : \A y \in F : ~(y < x)
<1> DEFINE below(x) == {y \in F : y < x}
           lower == {below(x) : x \in F}
<1>1. lower \subseteq FiniteSubsetsOf(F) /\ lower # {}
  <2>1. \A x \in F : below(x) \in SUBSET F
      OBVIOUS
  <2> HIDE DEF below
  <2>2. \A x \in F : below(x) \in FiniteSubsetsOf(F)
      BY <2>1, FS_Subset DEF FiniteSubsetsOf
  <2> QED BY <2>2
<1>2. PICK L \in lower : \A J \in lower : <<J, L>> \notin StrictSubsetOrdering(F)
  <2> HIDE DEF lower
  <2> QED BY <1>1, FS_StrictSubsetOrderingWellFounded, WFMin
<1>3. PICK x \in F : L = below(x)
    OBVIOUS
<1>4. \A y \in F : ~(y < x)
  <2> SUFFICES ASSUME NEW y \in F, y < x PROVE FALSE
      OBVIOUS
  <2>1. (\A z \in F : z < y => z < x) /\ ~(y < y)
      OBVIOUS
  <2>2. below(y) \subseteq below(x) /\ y \in below(x) /\ y \notin below(y)
      BY <2>1
  <2>3. below(y) \in SUBSET F /\ below(x) \in SUBSET F /\ below(y) \in lower
      OBVIOUS
  <2> HIDE DEF below, lower
  <2>4. <<below(y), below(x)>> \in StrictSubsetOrdering(F)
      BY <2>2, <2>3 DEF StrictSubsetOrdering
  <2> QED BY <1>2, <1>3, <2>3, <2>4
<1> QED BY <1>4

\* The IDs are finitely many, so some report is the oldest: none has a smaller rank.
LEMMA OldestHasRank ==
    ASSUME NEW T \in SUBSET IDs, T # {}
    PROVE  \E x \in T : Rank(T, x) = 0
<1>1. IsFiniteSet(T) /\ T \subseteq Nat
  <2>1. IDs \subseteq Nat
      BY DEF IDs
  <2>2. IsFiniteSet(IDs)
      BY RingSize, FS_Interval DEF IDs
  <2> QED BY <2>1, <2>2, FS_Subset
<1>2. PICK x \in T : \A y \in T : ~(y < x)
    BY <1>1, LeastOfFinite
<1>3. {y \in T : y < x} = {}
    BY <1>2
<1>4. Rank(T, x) = 0
    BY <1>3, FS_EmptySet DEF Rank
<1> QED BY <1>4

LEMMA OldestIsThere ==
    ASSUME NEW T \in SUBSET IDs, T # {}
    PROVE  Oldest(T) \in T /\ Rank(T, Oldest(T)) = 0
BY OldestHasRank, Zenon DEF Oldest

\* What a step that sends nothing makes of its sender: it loads nothing, or some
\* finished reports that are in files; and it deletes all files, or leaves them alone.
Loading(s) == sender[s].pc \in {"list", "read", "send"}
Finished == {file[id] : id \in IDs} \cap written

LEMMA SenderMoves ==
    ASSUME TypeOK, NEW s \in Senders, Count(s) \/ List(s) \/ Read(s) \/ DeleteAll(s)
    PROVE  /\ \A t \in Senders \ {s} : sender'[t] = sender[t]
           /\ \/ sender'[s].loaded = {}
              \/ Loading(s) /\ sender'[s].loaded \subseteq sender[s].loaded \cup Finished
           /\ sender'[s].pc # "delete"
           /\ IF sender[s].pc = "delete" THEN \A id \in IDs : file'[id] = None ELSE file' = file
<1>1. sender \in [Senders -> SenderState]
    BY DEF TypeOK, SenderState
<1>2. CASE Count(s)
  <2>1. /\ sender'[s].loaded = {} /\ sender'[s].pc # "delete"
        /\ \A t \in Senders \ {s} : sender'[t] = sender[t]
    <3> DEFINE pc == IF Visible = {} THEN "send" ELSE "list"
    <3>1. pc # "delete"
        OBVIOUS
    <3>2. sender' = [sender EXCEPT ![s] = [pc |-> pc, count |-> Cardinality(Visible), todo |-> {},
                                           loaded |-> {}, known |-> Whole]]
        BY <1>2 DEF Count, Step
    <3> HIDE DEF pc
    <3> QED BY <1>1, <3>1, <3>2
  <2>2. sender[s].pc = "idle" /\ file' = file
      BY <1>2 DEF Count, AtSender, storage
  <2> QED BY <2>1, <2>2
<1>3. CASE List(s)
  <2>1. PICK T : sender' = [sender EXCEPT ![s] = [sender[s] EXCEPT !.pc = "read", !.todo = T]]
      BY <1>3 DEF List, Step
  <2>2. LET r == [sender[s] EXCEPT !.pc = "read", !.todo = T]
        IN  r.pc = "read" /\ r.loaded = sender[s].loaded
      BY <1>1 DEF SenderState
  <2>3. sender[s].pc = "list" /\ file' = file
      BY <1>3 DEF List, AtSender, storage
  <2> QED BY <1>1, <2>1, <2>2, <2>3 DEF Loading
<1>4. CASE Read(s)
  <2>1. sender[s].pc = "read" /\ file' = file
      BY <1>4 DEF Read, AtSender, storage
  <2>2. sender[s] \in SenderState /\ sender[s].todo \in SUBSET IDs
      BY <1>1 DEF SenderState
  <2>3. CASE sender[s].todo = {}
      BY <1>1, <1>4, <2>1, <2>2, <2>3 DEF Read, Step, SenderState, Loading
  <2>4. CASE sender[s].todo # {}
    <3> DEFINE more == sender[s].loaded \cup Loads(Oldest(sender[s].todo))
               rest == sender[s].todo \ {Oldest(sender[s].todo)}
    <3>1. sender' = [sender EXCEPT ![s] = [sender[s] EXCEPT !.loaded = more, !.todo = rest]]
        BY <1>4, <2>4, Zenon DEF Read, Step
    <3>2. more \subseteq sender[s].loaded \cup Finished
        BY <2>2, <2>4, OldestIsThere DEF Loads, Finished
    <3> HIDE DEF more, rest
    <3>3. [sender[s] EXCEPT !.loaded = more, !.todo = rest].loaded = more
        BY <2>2 DEF SenderState
    <3>4. [sender[s] EXCEPT !.loaded = more, !.todo = rest].pc = "read"
        BY <2>1, <2>2 DEF SenderState
    <3> QED BY <1>1, <2>1, <3>1, <3>2, <3>3, <3>4 DEF Loading
  <2> QED BY <2>3, <2>4
<1>5. CASE DeleteAll(s)
  <2>1. sender[s].pc = "delete" /\ (\A id \in IDs : file'[id] = None) /\ sender' = [sender EXCEPT ![s] = SenderIdle]
      BY <1>5 DEF DeleteAll, Emptied, AtSender, Step
  <2>2. SenderIdle.pc = "idle" /\ SenderIdle.loaded = {}
      BY DEF SenderIdle
  <2> QED BY <1>1, <2>1, <2>2
<1> QED BY <1>2, <1>3, <1>4, <1>5

\* A writer that completes its report, or gives up, has no number any more.
LEMMA NumberedStep == TypeOK /\ Numbered /\ [Next]_vars => Numbered'
<1> SUFFICES ASSUME TypeOK, Numbered, [Next]_vars PROVE Numbered'
    OBVIOUS
<1>state. writer \in [Writers -> WriterState] /\ born \in Nat /\ MaxReports \in Nat
    BY StoreAssumption DEF TypeOK, WriterState
<1>1. CASE Exit
  <2>1. /\ \A w \in Writers : writer'[w].pc = "idle"
        /\ \A s \in Senders : sender'[s].loaded = {}
      BY <1>1 DEF Exit, WriterIdle, SenderIdle
  <2> QED BY <1>1, <2>1 DEF Exit, Numbered, Busy, history
<1>2. CASE \E w \in Writers : BeginReport(w) \/ AddUserReport(w)
  <2>1. PICK w \in Writers, pc \in {"open", "add"} : TakesID(w, pc)
      BY <1>2 DEF BeginReport, AddUserReport
  <2>2. born' = born + 1 /\ UNCHANGED <<written, sends, sender>>
      BY <1>2 DEF BeginReport, AddUserReport, TakesID, storage, history
  <2>3. writer'[w].num = born + 1 /\ \A v \in Writers \ {w} : writer'[v] = writer[v]
      BY <1>state, <2>1 DEF TakesID
  <2>4. born + 1 \notin written
      BY <1>state DEF Numbered
  <2>5. \A v \in Writers : Busy(v)' => v = w \/ (v # w /\ Busy(v))
      BY <2>3 DEF Busy
  <2>6. \A v \in Writers : Busy(v) => writer[v].num \in 1..born
      BY DEF Numbered
  <2>7. \A v \in Writers : Busy(v)' => writer'[v].num \in (1..born') \ written'
      BY <1>state, <2>2, <2>3, <2>4, <2>5, <2>6 DEF Numbered
  <2>8. \A u, v \in Writers : Busy(u)' /\ Busy(v)' /\ writer'[u].num = writer'[v].num => u = v
    <3> SUFFICES ASSUME NEW u \in Writers, NEW v \in Writers, Busy(u)', Busy(v)',
                        writer'[u].num = writer'[v].num, u # v
                 PROVE  FALSE
        OBVIOUS
    <3>1. u # w /\ v # w
        BY <1>state, <2>3, <2>5, <2>6
    <3> QED BY <2>3, <2>5, <3>1 DEF Numbered
  <2>9. \A n \in written' : n <= born'
      BY <1>state, <2>2 DEF Numbered, TypeOK, Numbers
  <2> QED BY <2>2, <2>7, <2>8, <2>9 DEF Numbered
<1>3. CASE \E w \in Writers : OpenReport(w)
  <2>1. PICK w \in Writers : OpenReport(w)
      BY <1>3
  <2>2. UNCHANGED <<written, born, sends, sender>>
      BY <2>1 DEF OpenReport, history
  <2>3. \/ writer' = [writer EXCEPT ![w].pc = "write"]
        \/ writer' = [writer EXCEPT ![w] = WriterIdle]
      BY <2>1 DEF OpenReport
  <2>4. \A v \in Writers : Busy(v)' => Busy(v) /\ writer'[v].num = writer[v].num
      BY <1>state, <2>1, <2>3 DEF Busy, OpenReport, WriterIdle, WriterState
  <2> QED BY <2>2, <2>4 DEF Numbered
<1>4. CASE \E w \in Writers : CloseReport(w) \/ CloseUserReport(w)
  <2>1. PICK w \in Writers : CloseReport(w) \/ CloseUserReport(w)
      BY <1>4
  <2>2. /\ Completes(writer[w]) \/ UNCHANGED written
        /\ writer' = [writer EXCEPT ![w] = WriterIdle]
        /\ Busy(w) /\ UNCHANGED <<born, sends, sender>>
      BY <2>1 DEF CloseReport, CloseUserReport, Busy, history
  <2>3. written \subseteq written' /\ written' \subseteq written \cup {writer[w].num}
      BY <2>2 DEF Completes
  <2>4. \A v \in Writers : Busy(v)' => v # w /\ Busy(v) /\ writer'[v] = writer[v]
      BY <1>state, <2>2 DEF Busy, WriterIdle
  <2> QED BY <2>2, <2>3, <2>4 DEF Numbered
<1>5. CASE \E s \in Senders : Send(s)
  <2>1. PICK s \in Senders : Send(s)
      BY <1>5
  <2>2. /\ sends \in [Numbers -> Nat] /\ sender \in [Senders -> SenderState]
        /\ UNCHANGED <<written, born, writer>>
      BY <2>1 DEF TypeOK, SenderState, Send, storage
  <2>3. \A n \in Numbers : sends'[n] > 0 => n \in written
      BY <2>1, <2>2 DEF Send, Numbered
  <2>4. PICK behavior \in Behaviors, ok \in BOOLEAN :
           sender' = [sender EXCEPT ![s] = IF DeletesAfter(ok, behavior)
                                           THEN [sender[s] EXCEPT !.pc = "delete"] ELSE SenderIdle]
      BY <2>1 DEF Send, Step
  <2>5. \/ sender' = [sender EXCEPT ![s] = [sender[s] EXCEPT !.pc = "delete"]]
        \/ sender' = [sender EXCEPT ![s] = SenderIdle]
      BY <2>4, Zenon
  <2>6. SenderIdle.loaded = {} /\ [sender[s] EXCEPT !.pc = "delete"].loaded = sender[s].loaded
      BY <2>2 DEF SenderIdle, SenderState
  <2>7. \A t \in Senders : sender'[t].loaded \subseteq sender[t].loaded
      BY <2>2, <2>5, <2>6
  <2> QED BY <2>2, <2>3, <2>7 DEF Numbered, Busy
<1>6. CASE \E s \in Senders : Count(s) \/ List(s) \/ Read(s) \/ DeleteAll(s)
  <2>1. PICK s \in Senders : Count(s) \/ List(s) \/ Read(s) \/ DeleteAll(s)
      BY <1>6
  <2>2. sender \in [Senders -> SenderState] /\ UNCHANGED <<written, born, writer, sends>>
      BY <2>1 DEF TypeOK, SenderState, Count, List, Read, DeleteAll, Emptied, storage, history
  <2>3. \A t \in Senders : sender'[t].loaded \subseteq sender[t].loaded \cup written
      BY <2>1, SenderMoves DEF Finished
  <2> QED BY <2>2, <2>3 DEF Numbered, Busy
<1>7. CASE Launch \/ Prune \/ Initialized \/ (\E id \in IDs : DeleteByID(id)) \/ UNCHANGED vars
    BY <1>7 DEF Launch, Prune, Initialized, DeleteByID, vars, process, storage, history, Numbered, Busy
<1> QED BY <1>1, <1>2, <1>3, <1>4, <1>5, <1>6, <1>7 DEF Next

\* Every value of the store is of its type, whatever the writers, senders and exits do:
\* writers at work have numbers, because reports do.
THEOREM TypeCorrect == Spec => []TypeOK
<1> QED BY TypeInit, TypeStep, NumberedInit, NumberedStep, PTL DEF Spec

-----------------------------------------------------------------------------
(* Sending once *)

\* A report accepted in this process is in no file, or about to be deleted, and never
\* loaded again; others were accepted at most once in each earlier process.
Gone(n) == \A id \in IDs : file[id] # n
SentOnce(s) ==
    /\ \A n \in Numbers : sends[n] > exits =>
          sends[n] = exits + 1 /\ (sender[s].pc = "delete" \/ Gone(n))
    /\ Loading(s) => \A n \in sender[s].loaded : sends[n] <= exits

LEMMA SentOnceInit == ASSUME NEW s \in Senders PROVE Init => SentOnce(s)
BY DEF Init, SentOnce, Loading, SenderIdle

LEMMA SentOnceStep ==
    ASSUME NEW s, Senders = {s}, "never" \notin Behaviors
    PROVE  TypeOK /\ Numbered /\ SentOnce(s) /\ [Next]_vars => SentOnce(s)'
<1> SUFFICES ASSUME TypeOK, Numbered, SentOnce(s), [Next]_vars PROVE SentOnce(s)'
    OBVIOUS
<1>state. /\ writer \in [Writers -> WriterState] /\ sender \in [Senders -> SenderState]
          /\ file \in [IDs -> Numbers \cup {None}] /\ sends \in [Numbers -> Nat] /\ exits \in Nat
          /\ born \in Nat
    BY DEF TypeOK, WriterState, SenderState
<1>keeps. ASSUME UNCHANGED <<sends, sender, exits>>,
                 \A n \in Numbers : Gone(n) => Gone(n)' \/ n \notin written
          PROVE  SentOnce(s)'
  <2>1. \A n \in Numbers : sends[n] > exits => n \in written
      BY <1>state DEF Numbered
  <2> QED BY <1>keeps, <2>1 DEF SentOnce, Loading
<1>1. CASE Exit
  <2>1. exits' = exits + 1 /\ sends' = sends /\ sender'[s].pc = "idle"
      BY <1>1 DEF Exit, SenderIdle, history
  <2>2. \A n \in Numbers : sends[n] \in Nat /\ sends[n] <= exits + 1
      BY <1>state DEF SentOnce
  <2> QED BY <1>state, <2>1, <2>2 DEF SentOnce, Loading
<1>2. CASE \E w \in Writers : BeginReport(w) \/ CloseReport(w) \/ CloseUserReport(w)
    BY <1>2, <1>keeps DEF BeginReport, CloseReport, CloseUserReport, Gone, process, storage, history
<1>3. CASE \E w \in Writers : OpenReport(w) \/ AddUserReport(w)
  <2>1. PICK w \in Writers, id \in IDs, num \in Numbers \ written :
           file' = file \/ file' = [file EXCEPT ![id] = num]
    <3>1. PICK w \in Writers : OpenReport(w) \/ AddUserReport(w)
        BY <1>3
    <3>2. CASE OpenReport(w)
      <4>1. writer[w].id \in IDs /\ writer[w].num \in Numbers \ written
        <5>1. writer[w] \in WriterState /\ writer[w].pc = "open"
            BY <1>state, <3>2 DEF OpenReport
        <5>2. writer[w].id \in IDs /\ writer[w].num \in Numbers \cup {None}
            BY <5>1 DEF WriterState
        <5> QED BY <5>1, <5>2 DEF Numbered, Busy, Numbers, None
      <4>2. file' = file \/ file' = [file EXCEPT ![writer[w].id] = writer[w].num]
          BY <3>2 DEF OpenReport
      <4> QED BY <4>1, <4>2
    <3>3. CASE AddUserReport(w)
      <4>1. nextID \in IDs /\ born + 1 \in Numbers \ written
          BY <1>state, <3>3, StoreAssumption DEF AddUserReport, MayBegin, Numbered, TypeOK, Numbers
      <4>2. file' = [file EXCEPT ![nextID] = born + 1]
          BY <3>3 DEF AddUserReport
      <4> QED BY <4>1, <4>2
    <3> QED BY <3>1, <3>2, <3>3
  <2>2. UNCHANGED <<sends, sender, exits>>
      BY <1>3 DEF OpenReport, AddUserReport, process, history
  <2>3. \A n \in Numbers : Gone(n) => Gone(n)' \/ n \notin written
      BY <1>state, <2>1 DEF Gone
  <2> QED BY <1>keeps, <2>2, <2>3
<1>4. CASE Prune \/ (\E id \in IDs : DeleteByID(id))
  <2>1. UNCHANGED <<sends, sender, exits>>
      BY <1>4 DEF Prune, DeleteByID, process, history
  <2>2. PICK x : file' = [file EXCEPT ![x] = None]
      BY <1>4 DEF Prune, DeleteByID
  <2>3. \A n \in Numbers : Gone(n) => Gone(n)'
      BY <1>state, <2>2 DEF Gone, Numbers, None
  <2> QED BY <1>keeps, <2>1, <2>3
<1>5. CASE Launch \/ Initialized \/ UNCHANGED vars
    BY <1>5, <1>keeps DEF Launch, Initialized, Gone, vars, process, storage, history
<1>6. CASE Count(s) \/ List(s) \/ Read(s) \/ DeleteAll(s)
  <2>1. UNCHANGED <<sends, exits>>
      BY <1>6 DEF Count, List, Read, DeleteAll, process, history
  <2>2. /\ sender'[s].pc # "delete"
        /\ \/ sender'[s].loaded = {}
           \/ Loading(s) /\ sender'[s].loaded \subseteq sender[s].loaded \cup Finished
        /\ sender[s].pc = "delete" => \A id \in IDs : file'[id] = None
        /\ sender[s].pc # "delete" => file' = file
      BY <1>6, SenderMoves
  <2>3. \A n \in Numbers : sends[n] > exits => sends[n] = exits + 1 /\ Gone(n)'
      BY <2>2 DEF SentOnce, Gone, Numbers, None
  <2>4. ASSUME Loading(s), NEW n \in Finished PROVE sends[n] <= exits
    <3>1. sender[s].pc # "delete" /\ n \in Numbers /\ ~Gone(n)
        BY <2>4 DEF Loading, Finished, Gone, TypeOK
    <3> QED BY <1>state, <3>1 DEF SentOnce
  <2> QED BY <2>1, <2>2, <2>3, <2>4 DEF SentOnce, Loading
<1>7. CASE Send(s)
  <2>1. PICK behavior \in Behaviors, ok \in BOOLEAN :
           /\ sends' = [n \in Numbers |-> IF ok /\ n \in sender[s].loaded THEN sends[n] + 1 ELSE sends[n]]
           /\ Step(s, IF DeletesAfter(ok, behavior) THEN [sender[s] EXCEPT !.pc = "delete"] ELSE SenderIdle)
      BY <1>7 DEF Send
  <2>2. sender[s].pc = "send" /\ UNCHANGED <<file, exits>>
      BY <1>7 DEF Send, AtSender, process, storage
  <2>3. ok => DeletesAfter(ok, behavior)
      BY StoreAssumption DEF DeletesAfter
  <2>4. [sender[s] EXCEPT !.pc = "delete"].pc = "delete" /\ SenderIdle.pc = "idle"
      BY <1>state DEF SenderState, SenderIdle
  <2>5. /\ sender'[s].pc \in {"delete", "idle"}
        /\ ok => sender'[s].pc = "delete"
    <3>1. \/ DeletesAfter(ok, behavior) /\ sender' = [sender EXCEPT ![s] = [sender[s] EXCEPT !.pc = "delete"]]
          \/ ~DeletesAfter(ok, behavior) /\ sender' = [sender EXCEPT ![s] = SenderIdle]
        BY <2>1, Zenon DEF Step
    <3>2. CASE DeletesAfter(ok, behavior)
        BY <1>state, <2>4, <3>1, <3>2
    <3>3. CASE ~DeletesAfter(ok, behavior)
        BY <1>state, <2>3, <2>4, <3>1, <3>3
    <3> QED BY <3>2, <3>3
  <2>6. \A n \in Numbers : sends'[n] > exits => sends'[n] = exits + 1 /\ (sender'[s].pc = "delete" \/ Gone(n))
    <3> SUFFICES ASSUME NEW n \in Numbers, sends'[n] > exits
                 PROVE  sends'[n] = exits + 1 /\ (sender'[s].pc = "delete" \/ Gone(n))
        OBVIOUS
    <3>1. CASE ok /\ n \in sender[s].loaded
      <4>1. sends'[n] = sends[n] + 1 /\ sends[n] <= exits
          BY <2>1, <2>2, <3>1 DEF SentOnce, Loading
      <4> QED BY <1>state, <2>5, <3>1, <4>1
    <3>2. CASE ~(ok /\ n \in sender[s].loaded)
      <4>1. sends'[n] = sends[n]
          BY <2>1, <3>2
      <4> QED BY <2>2, <4>1 DEF SentOnce
    <3> QED BY <3>1, <3>2
  <2>7. sender'[s].pc \notin {"list", "read", "send"}
      BY <2>5
  <2> QED BY <2>2, <2>6, <2>7 DEF SentOnce, Loading, Gone
<1> QED BY <1>1, <1>2, <1>3, <1>4, <1>5, <1>6, <1>7 DEF Next

\* With one sender that deletes what it sent, a report is accepted by the sink at most
\* once in each process, whatever the recorder does and wherever a process ends.
THEOREM OncePerProcessAlways ==
    ASSUME NEW s, Senders = {s}, "never" \notin Behaviors
    PROVE  Spec => []OncePerProcess
<1>1. SentOnce(s) /\ TypeOK => OncePerProcess
  <2> SUFFICES ASSUME SentOnce(s), TypeOK, NEW n \in Numbers PROVE sends[n] <= 1 + exits
      BY DEF OncePerProcess
  <2>1. sends[n] \in Nat /\ exits \in Nat
      BY DEF TypeOK
  <2> QED BY <2>1 DEF SentOnce
<1>2. Init => SentOnce(s)
    BY SentOnceInit
<1>3. TypeOK /\ Numbered /\ SentOnce(s) /\ [Next]_vars => SentOnce(s)'
    BY SentOnceStep
<1> QED BY <1>1, <1>2, <1>3, TypeInit, TypeStep, NumberedInit, NumberedStep, PTL DEF Spec

-----------------------------------------------------------------------------
(* Files apart *)

LEMMA DivMod ==
    ASSUME NEW c \in Nat, NEW n \in Nat \ {0}
    PROVE  c = n * (c \div n) + (c % n) /\ c \div n \in Nat /\ c % n \in 0..(n - 1)
BY SMT

\* Products of a number grow by at least that number.
LEMMA Multiples ==
    ASSUME NEW n \in Nat, NEW p \in Nat, NEW q \in Nat, p < q
    PROVE  n * p \in Nat /\ n * q \in Nat /\ n * p + n <= n * q
<1>1. n * p \in Nat /\ n * q \in Nat
    BY Z3
<1>2. n * (p + 1) = n * p + n
    BY Z3
<1>3. n * (p + 1) <= n * q
    BY Z3
<1> QED BY <1>1, <1>2, <1>3

\* Launch times closer than a round of the ring have slots of their own.
LEMMA SlotsDiffer ==
    ASSUME NEW c \in Clocks, NEW d \in Clocks, LastClock - FirstClock < Slots, c # d
    PROVE  c % Slots # d % Slots
<1> SUFFICES ASSUME c % Slots = d % Slots PROVE FALSE
    OBVIOUS
<1>1. /\ Slots \in Nat \ {0} /\ c \in Nat /\ d \in Nat
      /\ c - d < Slots /\ d - c < Slots
    BY StoreAssumption DEF Clocks
<1> DEFINE p == c \div Slots
           q == d \div Slots
           r == c % Slots
<1>2. c = Slots * p + r /\ d = Slots * q + r /\ p \in Nat /\ q \in Nat /\ r \in Nat
  <2>1. c = Slots * (c \div Slots) + (c % Slots) /\ c \div Slots \in Nat
      BY <1>1, DivMod
  <2>2. d = Slots * (d \div Slots) + (d % Slots) /\ d \div Slots \in Nat /\ d % Slots \in 0..(Slots - 1)
      BY <1>1, DivMod
  <2>3. c = Slots * p + r /\ d = Slots * q + r
      BY <2>1, <2>2, Zenon
  <2>4. r \in Nat
      BY <1>1, <2>2
  <2> QED BY <2>1, <2>2, <2>3, <2>4, Zenon
<1> HIDE DEF p, q, r
<1>3. ~(p < q)
  <2> SUFFICES ASSUME p < q PROVE FALSE
      OBVIOUS
  <2>1. Slots * p \in Nat /\ Slots * q \in Nat /\ Slots * p + Slots <= Slots * q
      BY <1>1, <1>2, Multiples
  <2> QED BY <1>1, <1>2, <2>1
<1>4. ~(q < p)
  <2> SUFFICES ASSUME q < p PROVE FALSE
      OBVIOUS
  <2>1. Slots * p \in Nat /\ Slots * q \in Nat /\ Slots * q + Slots <= Slots * p
      BY <1>1, <1>2, Multiples
  <2> QED BY <1>1, <1>2, <2>1
<1>5. p = q
    BY <1>2, <1>3, <1>4
<1> QED BY <1>1, <1>2, <1>5

\* The IDs a launch may give: its slot of the ring.
Slot(time) == {id \in IDs : InitialID(time) <= id /\ id < InitialID(time) + PerSlot}

LEMMA SlotIsWhole ==
    ASSUME NEW time \in Nat
    PROVE  /\ InitialID(time) \in Nat /\ InitialID(time) \in Slot(time)
           /\ InitialID(time) + PerSlot <= Slots * PerSlot
<1>1. Slots \in Nat \ {0} /\ PerSlot \in Nat \ {0} /\ time % Slots \in 0..(Slots - 1)
    BY StoreAssumption, DivMod
<1> DEFINE slot == time % Slots
<1>2. slot \in Nat /\ Slots \in Nat /\ slot < Slots
    BY <1>1
<1> HIDE DEF slot
<1>3. PerSlot * slot \in Nat /\ PerSlot * slot + PerSlot <= PerSlot * Slots
    BY <1>1, <1>2, Multiples
<1>4. PerSlot * slot = slot * PerSlot /\ PerSlot * Slots = Slots * PerSlot
    BY <1>1, <1>2, Z3
<1>5. InitialID(time) = slot * PerSlot /\ InitialID(time) \in IDs
    BY InitialIsID DEF InitialID, slot
<1>6. InitialID(time) \in Nat /\ InitialID(time) + PerSlot <= Slots * PerSlot
    BY <1>3, <1>4, <1>5
<1> HIDE DEF InitialID
<1> QED BY <1>1, <1>5, <1>6 DEF Slot

LEMMA SlotsApart ==
    ASSUME NEW c \in Clocks, NEW d \in Clocks, LastClock - FirstClock < Slots, c # d
    PROVE  Slot(c) \cap Slot(d) = {}
<1>1. Slots \in Nat \ {0} /\ PerSlot \in Nat \ {0} /\ c \in Nat /\ d \in Nat
    BY StoreAssumption DEF Clocks
<1> DEFINE s == c % Slots
           t == d % Slots
<1>2. s \in Nat /\ t \in Nat /\ s # t
    BY <1>1, DivMod, SlotsDiffer
<1> HIDE DEF s, t
<1>3. PerSlot * s = s * PerSlot /\ PerSlot * t = t * PerSlot
    BY <1>1, <1>2, Z3
<1>4. \/ s * PerSlot + PerSlot <= t * PerSlot
      \/ t * PerSlot + PerSlot <= s * PerSlot
  <2>1. s < t \/ t < s
      BY <1>2
  <2>2. CASE s < t
    <3>1. PerSlot * s + PerSlot <= PerSlot * t
        BY <1>1, <1>2, <2>2, Multiples
    <3> QED BY <1>3, <3>1, Zenon
  <2>3. CASE t < s
    <3>1. PerSlot * t + PerSlot <= PerSlot * s
        BY <1>1, <1>2, <2>3, Multiples
    <3> QED BY <1>3, <3>1, Zenon
  <2> QED BY <2>1, <2>2, <2>3
<1>5. InitialID(c) = s * PerSlot /\ InitialID(d) = t * PerSlot
    BY DEF InitialID, s, t
<1>6. InitialID(c) \in Nat /\ InitialID(d) \in Nat /\ IDs \subseteq Nat
    BY <1>1, SlotIsWhole, RingSize DEF IDs
<1>7. InitialID(c) + PerSlot <= InitialID(d) \/ InitialID(d) + PerSlot <= InitialID(c)
    BY <1>4, <1>5
<1> SUFFICES ASSUME NEW id, id \in Slot(c), id \in Slot(d) PROVE FALSE
    OBVIOUS
<1>8. /\ id \in IDs
      /\ InitialID(c) <= id /\ id < InitialID(c) + PerSlot
      /\ InitialID(d) <= id /\ id < InitialID(d) + PerSlot
    BY Zenon DEF Slot
<1> HIDE DEF InitialID
<1> QED BY <1>1, <1>6, <1>7, <1>8

\* As long as the slot has IDs left, the successor is the next of them.
LEMMA NextInSlot ==
    ASSUME NEW time \in Nat, NEW id \in IDs, InitialID(time) <= id,
           id + 1 < InitialID(time) + PerSlot
    PROVE  NextAfter(id) = id + 1 /\ id + 1 \in Slot(time)
<1>1. /\ InitialID(time) \in Nat /\ InitialID(time) + PerSlot <= Slots * PerSlot
      /\ PerSlot \in Nat
    BY SlotIsWhole, StoreAssumption
<1> DEFINE size == Slots * PerSlot
<1>2. size \in Nat \ {0} /\ id \in Nat
    BY RingSize DEF IDs
<1>3. InitialID(time) + PerSlot <= size
    BY <1>1
<1>4. IDs = 0..(size - 1) /\ NextAfter(id) = (id + 1) % size
    BY DEF IDs, NextAfter
<1> HIDE DEF size
<1>5. id + 1 \in 0..(size - 1)
    BY <1>1, <1>2, <1>3
<1>6. (id + 1) % size = id + 1
    BY <1>2, <1>5
<1> QED BY <1>1, <1>2, <1>4, <1>5, <1>6 DEF Slot

\* A name in a slot tells the slot.
LEMMA SlotTells ==
    ASSUME NEW time \in Nat, NEW id \in Slot(time)
    PROVE  id \div PerSlot = time % Slots
<1>1. Slots \in Nat \ {0} /\ PerSlot \in Nat \ {0} /\ IDs \subseteq Nat
    BY StoreAssumption, RingSize DEF IDs
<1> DEFINE s == time % Slots
           q == id \div PerSlot
           r == id % PerSlot
<1>2. s \in Nat
    BY <1>1, DivMod
<1>3. id \in Nat /\ InitialID(time) <= id /\ id < InitialID(time) + PerSlot
    BY <1>1, Zenon DEF Slot
<1>4. id = PerSlot * q + r /\ q \in Nat /\ r \in 0..(PerSlot - 1)
    BY <1>1, <1>3, DivMod
<1>5. InitialID(time) = PerSlot * s /\ PerSlot * s \in Nat /\ PerSlot * q \in Nat
  <2>1. InitialID(time) = s * PerSlot
      BY DEF InitialID
  <2> HIDE DEF s, q
  <2>2. s * PerSlot = PerSlot * s /\ PerSlot * s \in Nat /\ PerSlot * q \in Nat
      BY <1>1, <1>2, <1>4, Z3
  <2> QED BY <2>1, <2>2
<1> HIDE DEF s, q, r, InitialID
<1>6. ~(q < s)
  <2> SUFFICES ASSUME q < s PROVE FALSE
      OBVIOUS
  <2>1. PerSlot * q + PerSlot <= PerSlot * s
      BY <1>1, <1>2, <1>4, Multiples
  <2> QED BY <1>1, <1>3, <1>4, <1>5, <2>1
<1>7. ~(s < q)
  <2> SUFFICES ASSUME s < q PROVE FALSE
      OBVIOUS
  <2>1. PerSlot * s + PerSlot <= PerSlot * q
      BY <1>1, <1>2, <1>4, Multiples
  <2> QED BY <1>1, <1>3, <1>4, <1>5, <2>1
<1>8. q = s
    BY <1>2, <1>4, <1>6, <1>7
<1> QED BY <1>8 DEF q, s

\* The IDs this launch has not given yet.
Fresh == {id \in Slot(clock) : id >= nextID}

\* Every file is in the slot of the launch that began its report, and the launch that
\* is about to begin has none.
FilesPlaced == \A id \in IDs : file[id] # None =>
    /\ file[id] <= born
    /\ begunAt[file[id]] <= clock
    /\ phase = "prune" => begunAt[file[id]] < clock
    /\ id \in Slot(begunAt[file[id]])

\* What the counter gives next is in the launch's slot, and no report of the launch has
\* it, neither in a file nor in a writer's hands.
NextPlaced == phase = "up" /\ born < MaxReports =>
    /\ nextID \in Slot(clock) /\ nextID <= InitialID(clock) + born
    /\ \A id \in Fresh : ~OfThisLaunch(id) /\ \A w \in Writers : Busy(w) => writer[w].id # id

\* What a writer that is at work has and where its report can be.
WriterPlaced(w) ==
    /\ phase = "up"
    /\ writer[w].id \in Slot(clock) /\ begunAt[writer[w].num] = clock
    /\ \A id \in IDs : file[id] = writer[w].num => id = writer[w].id
    /\ writer[w].pc = "open" => ~OfThisLaunch(writer[w].id)
    /\ writer[w].pc # "open" => file[writer[w].id] \in {None, writer[w].num}
WritersPlaced ==
    /\ \A w \in Writers : Busy(w) => WriterPlaced(w)
    /\ \A v, w \in Writers : Busy(v) /\ Busy(w) /\ writer[v].id = writer[w].id => v = w

\* Every launch uses the IDs of its slot one after the other, so its reports are apart,
\* whichever earlier launch the slot is shared with.
Placed == FilesPlaced /\ NextPlaced /\ WritersPlaced

LEMMA PlacedInit == Init => Placed
<1> SUFFICES ASSUME Init PROVE Placed
    OBVIOUS
<1>1. \A w \in Writers : ~Busy(w)
    BY DEF Init, WriterIdle, Busy
<1>2. \A id \in IDs : file[id] = None
    BY DEF Init
<1>3. phase = "prune"
    BY DEF Init
<1> QED BY <1>1, <1>2, <1>3 DEF Placed, FilesPlaced, NextPlaced, WritersPlaced

\* Files that go, and writers that become idle, leave the others in their places.
LEMMA LessStaysPlaced ==
    ASSUME TypeOK, Numbered, Placed, UNCHANGED <<phase, clock, nextID, born, begunAt>>,
           \A id \in IDs : file'[id] = file[id] \/ file'[id] = None,
           \A w \in Writers : writer'[w] = writer[w] \/ writer'[w] = WriterIdle
    PROVE  Placed'
<1>1. /\ Slot(clock)' = Slot(clock) /\ InitialID(clock)' = InitialID(clock) /\ Fresh' = Fresh
      /\ \A t : Slot(t)' = Slot(t)
    BY DEF Slot, InitialID, IDs, Fresh
<1>2. \A w \in Writers : Busy(w)' => Busy(w) /\ writer'[w] = writer[w]
    BY DEF Busy, WriterIdle
<1>3. FilesPlaced'
    BY <1>1 DEF Placed, FilesPlaced, IDs
<1>4. \A id \in IDs : OfThisLaunch(id)' => OfThisLaunch(id)
    BY DEF OfThisLaunch
<1>5. NextPlaced'
  <2> SUFFICES ASSUME phase = "up", born < MaxReports
               PROVE /\ nextID \in Slot(clock) /\ nextID <= InitialID(clock) + born
                     /\ \A id \in Fresh : ~OfThisLaunch(id)' /\ \A w \in Writers : Busy(w)' => writer'[w].id # id
      BY <1>1 DEF NextPlaced
  <2>1. /\ nextID \in Slot(clock) /\ nextID <= InitialID(clock) + born
        /\ \A id \in Fresh : ~OfThisLaunch(id) /\ \A w \in Writers : Busy(w) => writer[w].id # id
      BY DEF Placed, NextPlaced
  <2>2. Fresh \subseteq IDs
      BY DEF Fresh, Slot
  <2> QED BY <1>2, <1>4, <2>1, <2>2
<1>6. ASSUME NEW w \in Writers, Busy(w)' PROVE WriterPlaced(w)'
  <2>1. Busy(w) /\ writer'[w] = writer[w] /\ WriterPlaced(w) /\ writer[w].num \in 1..born
      BY <1>2, <1>6 DEF Placed, WritersPlaced, Numbered
  <2>2. writer[w].id \in IDs /\ writer[w].num # None
      BY <2>1 DEF WriterPlaced, Slot, None
  <2>3. \A id \in IDs : file'[id] = writer[w].num => id = writer[w].id
      BY <2>1, <2>2 DEF WriterPlaced
  <2> QED BY <1>1, <1>4, <2>1, <2>2, <2>3 DEF WriterPlaced, IDs
<1>7. \A v, w \in Writers : Busy(v)' /\ Busy(w)' /\ writer'[v].id = writer'[w].id => v = w
    BY <1>2 DEF Placed, WritersPlaced
<1> QED BY <1>3, <1>5, <1>6, <1>7 DEF Placed, WritersPlaced

\* A report that begins takes the first of the fresh IDs, and leaves the others.
LEMMA BeginStaysPlaced ==
    ASSUME TypeOK, Numbered, Placed, MaxReports <= PerSlot, NEW w \in Writers,
           NEW pc \in {"open", "add"}, MayBegin(w), TakesID(w, pc),
           UNCHANGED <<phase, clock>>,
           IF pc = "open" THEN file' = file ELSE file' = [file EXCEPT ![nextID] = born + 1]
    PROVE  Placed'
<1>1. /\ born \in Nat /\ MaxReports \in Nat /\ PerSlot \in Nat \ {0} /\ born < MaxReports
      /\ phase = "up" /\ phase' = "up" /\ clock \in Nat /\ clock \in Clocks /\ IDs \subseteq Nat
    BY StoreAssumption, RingSize DEF TypeOK, MayBegin, Clocks, IDs
<1>2. /\ born' = born + 1 /\ clock' = clock /\ nextID' = NextAfter(nextID)
      /\ InitialID(clock)' = InitialID(clock) /\ \A t : Slot(t)' = Slot(t)
    BY DEF TakesID, Slot, InitialID, IDs
<1>3. InitialID(clock) \in Nat
    BY <1>1, SlotIsWhole
<1>4. /\ nextID \in Slot(clock) /\ nextID <= InitialID(clock) + born
      /\ \A id \in Fresh : ~OfThisLaunch(id) /\ \A v \in Writers : Busy(v) => writer[v].id # id
    BY <1>1 DEF Placed, NextPlaced
<1>5. nextID \in IDs /\ nextID \in Nat /\ InitialID(clock) <= nextID /\ nextID \in Fresh
  <2>1. nextID \in IDs /\ InitialID(clock) <= nextID
      BY <1>4, Zenon DEF Slot
  <2>2. nextID \in Nat
      BY <1>1, <2>1
  <2>3. nextID >= nextID
      BY <2>2
  <2> QED BY <1>4, <2>1, <2>2, <2>3, Zenon DEF Fresh
<1>6. /\ writer'[w].pc = pc /\ writer'[w].id = nextID /\ writer'[w].num = born + 1
      /\ \A v \in Writers \ {w} : writer'[v] = writer[v]
    BY DEF TypeOK, TakesID
<1>7. \A v \in Writers : v # w => (Busy(v)' => Busy(v)) /\ writer'[v] = writer[v]
    BY <1>6 DEF Busy
<1>8. \A id \in IDs : \/ file'[id] = file[id]
                      \/ id = nextID /\ file'[id] = born + 1 /\ pc = "add"
    BY DEF TypeOK
<1>9. /\ begunAt'[born + 1] = clock
      /\ \A n \in Numbers : n <= born => begunAt'[n] = begunAt[n]
  <2>1. begunAt' = [begunAt EXCEPT ![born + 1] = clock] /\ begunAt \in [Numbers -> Clocks]
      BY DEF TakesID, TypeOK
  <2>2. born + 1 \in Numbers /\ \A n \in Numbers : n <= born => n # born + 1
      BY <1>1 DEF Numbers
  <2> QED BY <2>1, <2>2
<1>10. \A id \in IDs : file[id] # None => file[id] \in Numbers /\ file[id] <= born
    BY DEF TypeOK, Placed, FilesPlaced
<1>11. FilesPlaced'
  <2> SUFFICES ASSUME NEW id \in IDs, file'[id] # None
               PROVE  /\ file'[id] <= born + 1 /\ begunAt'[file'[id]] <= clock
                      /\ id \in Slot(begunAt'[file'[id]])
      BY <1>1, <1>2 DEF FilesPlaced, IDs
  <2>1. CASE file'[id] = file[id]
    <3>1. file[id] \in Nat /\ file[id] <= born /\ begunAt'[file[id]] = begunAt[file[id]]
        BY <1>9, <1>10, <2>1 DEF Numbers
    <3>2. begunAt[file[id]] <= clock /\ id \in Slot(begunAt[file[id]])
        BY <2>1 DEF Placed, FilesPlaced
    <3>3. file[id] <= born + 1
        BY <1>1, <3>1
    <3> QED BY <2>1, <3>1, <3>2, <3>3
  <2>2. CASE id = nextID /\ file'[id] = born + 1
    <3>1. clock <= clock /\ born + 1 <= born + 1
        BY <1>1
    <3> QED BY <1>4, <1>9, <2>2, <3>1
  <2> QED BY <1>8, <2>1, <2>2
<1>12. \A id \in IDs : OfThisLaunch(id)' => OfThisLaunch(id) \/ (id = nextID /\ pc = "add")
  <2> SUFFICES ASSUME NEW id \in IDs, OfThisLaunch(id)', ~(id = nextID /\ pc = "add")
               PROVE  OfThisLaunch(id)
      OBVIOUS
  <2>1. file'[id] = file[id]
      BY <1>8
  <2>2. begunAt'[file[id]] = begunAt[file[id]] /\ file[id] # None
      BY <1>9, <1>10, <2>1 DEF OfThisLaunch
  <2> QED BY <1>2, <2>1, <2>2 DEF OfThisLaunch
<1>13. born + 1 < MaxReports =>
         /\ nextID' \in Slot(clock) /\ nextID' <= InitialID(clock) + (born + 1)
         /\ \A id \in Slot(clock) : id >= nextID' =>
              ~OfThisLaunch(id)' /\ \A v \in Writers : Busy(v)' => writer'[v].id # id
  <2> SUFFICES ASSUME born + 1 < MaxReports
               PROVE  /\ nextID' \in Slot(clock) /\ nextID' <= InitialID(clock) + (born + 1)
                      /\ \A id \in Slot(clock) : id >= nextID' =>
                           ~OfThisLaunch(id)' /\ \A v \in Writers : Busy(v)' => writer'[v].id # id
      BY Zenon
  <2>1. nextID + 1 < InitialID(clock) + PerSlot
      BY <1>1, <1>3, <1>4, <1>5
  <2>2. nextID' = nextID + 1 /\ nextID + 1 \in Slot(clock)
      BY <1>1, <1>2, <1>5, <2>1, NextInSlot
  <2>3. nextID' <= InitialID(clock) + (born + 1)
      BY <1>1, <1>3, <1>4, <1>5, <2>2
  <2>4. ASSUME NEW id \in Slot(clock), id >= nextID'
        PROVE  ~OfThisLaunch(id)' /\ \A v \in Writers : Busy(v)' => writer'[v].id # id
    <3>1. id \in IDs /\ id \in Nat /\ id # nextID /\ id >= nextID
        BY <1>1, <1>5, <2>2, <2>4 DEF Slot
    <3>2. id \in Fresh
        BY <3>1 DEF Fresh
    <3>3. ~OfThisLaunch(id)'
        BY <1>4, <1>12, <3>1, <3>2
    <3> QED BY <1>4, <1>6, <1>7, <3>1, <3>2, <3>3
  <2> QED BY <2>2, <2>3, <2>4
<1>14. NextPlaced'
  <2>1. \A id \in Fresh' : id \in Slot(clock) /\ id >= nextID'
      BY <1>2 DEF Fresh
  <2> QED BY <1>2, <1>13, <2>1, Zenon DEF NextPlaced
<1>15. ASSUME NEW v \in Writers, Busy(v)' PROVE WriterPlaced(v)'
  <2>1. CASE v = w
    <3>1. \A id \in IDs : file'[id] = born + 1 => id = nextID
      <4>1. \A id \in IDs : file[id] # born + 1
          BY <1>1, <1>10 DEF Numbers, None
      <4> QED BY <1>8, <4>1
    <3>2. \A id \in IDs : pc = "open" /\ id = nextID => ~OfThisLaunch(id)'
        BY <1>4, <1>5, <1>12
    <3>3. pc = "add" => file'[nextID] = born + 1
        BY <1>5 DEF TypeOK
    <3>4. writer'[w].pc = "open" => ~OfThisLaunch(writer[w].id)'
        BY <1>5, <1>6, <3>2
    <3> QED BY <1>1, <1>2, <1>4, <1>6, <1>9, <2>1, <3>1, <3>3, <3>4 DEF WriterPlaced, IDs
  <2>2. CASE v # w
    <3>1. Busy(v) /\ writer'[v] = writer[v] /\ WriterPlaced(v) /\ writer[v].num \in 1..born
        BY <1>7, <1>15, <2>2 DEF Placed, WritersPlaced, Numbered
    <3>2. writer[v].id \in IDs /\ writer[v].id # nextID
        BY <1>4, <1>5, <3>1 DEF WriterPlaced, Slot
    <3>3. begunAt'[writer[v].num] = clock
        BY <1>1, <1>9, <3>1 DEF WriterPlaced, Numbers
    <3>4. \A id \in IDs : file'[id] = writer[v].num => id = writer[v].id
      <4>1. writer[v].num # born + 1
          BY <1>1, <3>1
      <4> QED BY <1>8, <3>1, <4>1 DEF WriterPlaced
    <3>5. file'[writer[v].id] = file[writer[v].id] /\ (OfThisLaunch(writer[v].id)' => OfThisLaunch(writer[v].id))
        BY <1>8, <1>12, <3>1, <3>2
    <3> QED BY <1>1, <1>2, <3>1, <3>3, <3>4, <3>5 DEF WriterPlaced, IDs
  <2> QED BY <2>1, <2>2
<1>16. \A u, v \in Writers : Busy(u)' /\ Busy(v)' /\ writer'[u].id = writer'[v].id => u = v
  <2> SUFFICES ASSUME NEW u \in Writers, NEW v \in Writers, Busy(u)', Busy(v)',
                      writer'[u].id = writer'[v].id, u # v
               PROVE  FALSE
      OBVIOUS
  <2>1. u # w /\ v # w
      BY <1>4, <1>5, <1>6, <1>7
  <2> QED BY <1>7, <2>1 DEF Placed, WritersPlaced
<1> QED BY <1>11, <1>14, <1>15, <1>16 DEF Placed, WritersPlaced

\* A report that is opened gets a file of its own, or none if another launch's report
\* has the name.
LEMMA OpenStaysPlaced ==
    ASSUME TypeOK, Numbered, Placed, NEW w \in Writers, OpenReport(w)
    PROVE  Placed'
<1>1. /\ UNCHANGED <<phase, clock, nextID, born, begunAt>> /\ Fresh' = Fresh
      /\ InitialID(clock)' = InitialID(clock) /\ \A t : Slot(t)' = Slot(t)
    BY DEF OpenReport, process, history, Slot, InitialID, IDs, Fresh
<1>2. writer[w].pc = "open" /\ Busy(w) /\ WriterPlaced(w) /\ writer[w].num \in 1..born
    BY DEF OpenReport, Busy, Placed, WritersPlaced, Numbered
<1>3. CASE ~MayCreate(writer[w].id)
  <2>1. file' = file /\ writer' = [writer EXCEPT ![w] = WriterIdle]
      BY <1>3 DEF OpenReport
  <2>2. \A v \in Writers : writer'[v] = writer[v] \/ writer'[v] = WriterIdle
      BY <2>1 DEF TypeOK
  <2> QED BY <1>1, <2>1, <2>2, LessStaysPlaced
<1>4. CASE MayCreate(writer[w].id)
  <2>1. /\ file' = [file EXCEPT ![writer[w].id] = writer[w].num]
        /\ writer' = [writer EXCEPT ![w].pc = "write"]
      BY <1>4 DEF OpenReport
  <2>2. /\ writer'[w].pc = "write" /\ writer'[w].id = writer[w].id /\ writer'[w].num = writer[w].num
        /\ \A v \in Writers \ {w} : writer'[v] = writer[v]
      BY <2>1 DEF TypeOK
  <2>3. \A v \in Writers : Busy(v)' => Busy(v) /\ writer'[v].id = writer[v].id /\ writer'[v].num = writer[v].num
      BY <1>2, <2>2 DEF Busy
  <2>4. /\ writer[w].id \in Slot(clock) /\ writer[w].id \in IDs /\ begunAt[writer[w].num] = clock
        /\ phase = "up"
      BY <1>2 DEF WriterPlaced, Slot
  <2>5. \A id \in IDs : \/ file'[id] = file[id]
                        \/ id = writer[w].id /\ file'[id] = writer[w].num
      BY <2>1 DEF TypeOK
  <2>6. clock \in Nat /\ born \in Nat
      BY StoreAssumption DEF TypeOK, Clocks
  <2>7. FilesPlaced'
    <3> SUFFICES ASSUME NEW id \in IDs, file'[id] # None
                 PROVE  /\ file'[id] <= born /\ begunAt[file'[id]] <= clock
                        /\ id \in Slot(begunAt[file'[id]])
        BY <1>1, <2>4 DEF FilesPlaced, IDs
    <3>1. CASE file'[id] = file[id]
        BY <3>1 DEF Placed, FilesPlaced
    <3>2. CASE id = writer[w].id /\ file'[id] = writer[w].num
        BY <1>2, <2>4, <2>6, <3>2
    <3> QED BY <2>5, <3>1, <3>2
  <2>8. \A id \in IDs : OfThisLaunch(id)' => OfThisLaunch(id) \/ id = writer[w].id
      BY <1>1, <2>5 DEF OfThisLaunch
  <2>9. NextPlaced'
    <3> SUFFICES ASSUME phase = "up", born < MaxReports
                 PROVE /\ nextID \in Slot(clock) /\ nextID <= InitialID(clock) + born
                       /\ \A id \in Fresh : ~OfThisLaunch(id)' /\ \A v \in Writers : Busy(v)' => writer'[v].id # id
        BY <1>1 DEF NextPlaced
    <3>1. /\ nextID \in Slot(clock) /\ nextID <= InitialID(clock) + born
          /\ \A id \in Fresh : ~OfThisLaunch(id) /\ \A v \in Writers : Busy(v) => writer[v].id # id
        BY DEF Placed, NextPlaced
    <3>2. Fresh \subseteq IDs
        BY DEF Fresh, Slot
    <3> QED BY <1>2, <2>3, <2>8, <3>1, <3>2
  <2>10. ASSUME NEW v \in Writers, Busy(v)' PROVE WriterPlaced(v)'
    <3>1. /\ Busy(v) /\ writer'[v].id = writer[v].id /\ writer'[v].num = writer[v].num
          /\ WriterPlaced(v) /\ writer[v].id \in IDs
        BY <2>3, <2>10 DEF Placed, WritersPlaced, WriterPlaced, Slot
    <3>2. v # w => writer[v].id # writer[w].id /\ writer[v].num # writer[w].num
        BY <1>2, <3>1 DEF Placed, WritersPlaced, Numbered
    <3>3. \A id \in IDs : file'[id] = writer[v].num => id = writer[v].id
        BY <2>5, <3>1, <3>2 DEF WriterPlaced
    <3>4. writer'[v].pc = "open" => ~OfThisLaunch(writer[v].id)'
      <4> SUFFICES ASSUME writer'[v].pc = "open" PROVE ~OfThisLaunch(writer[v].id)'
          OBVIOUS
      <4>1. v # w /\ writer[v].pc = "open"
          BY <2>2
      <4> QED BY <2>8, <3>1, <3>2, <4>1 DEF WriterPlaced
    <3>5. writer'[v].pc # "open" => file'[writer[v].id] \in {None, writer[v].num}
      <4>1. CASE v = w
          BY <2>5, <3>1, <4>1, <1>4 DEF MayCreate
      <4>2. CASE v # w
          BY <2>2, <2>5, <3>1, <3>2, <4>2 DEF WriterPlaced
      <4> QED BY <4>1, <4>2
    <3> QED BY <1>1, <2>4, <3>1, <3>3, <3>4, <3>5 DEF WriterPlaced, IDs
  <2>11. \A u, v \in Writers : Busy(u)' /\ Busy(v)' /\ writer'[u].id = writer'[v].id => u = v
      BY <2>3 DEF Placed, WritersPlaced
  <2> QED BY <2>7, <2>9, <2>10, <2>11 DEF Placed, WritersPlaced
<1> QED BY <1>3, <1>4

\* Between launches nobody writes: what the files hold is of earlier launches.
LEMMA QuietStaysPlaced ==
    ASSUME TypeOK, Numbered, Placed, UNCHANGED <<file, born, begunAt>>,
           phase' # "up", \A w \in Writers : ~Busy(w)', clock' \in Nat, clock' >= clock,
           phase' = "prune" => clock' > clock
    PROVE  Placed'
<1>1. /\ clock \in Nat /\ begunAt \in [Numbers -> Clocks] /\ Clocks \subseteq Nat
      /\ file \in [IDs -> Numbers \cup {None}]
    BY StoreAssumption DEF TypeOK, Clocks
<1>2. FilesPlaced'
  <2> SUFFICES ASSUME NEW id \in IDs, file[id] # None
               PROVE  /\ file[id] <= born /\ begunAt[file[id]] <= clock'
                      /\ phase' = "prune" => begunAt[file[id]] < clock'
                      /\ id \in Slot(begunAt[file[id]])
      BY DEF FilesPlaced, Slot, InitialID, IDs
  <2>1. file[id] <= born /\ begunAt[file[id]] <= clock /\ id \in Slot(begunAt[file[id]])
      BY DEF Placed, FilesPlaced
  <2>2. begunAt[file[id]] \in Nat
      BY <1>1
  <2>3. begunAt[file[id]] <= clock' /\ (phase' = "prune" => begunAt[file[id]] < clock')
      BY <1>1, <2>1, <2>2
  <2> QED BY <2>1, <2>3
<1> QED BY <1>2 DEF Placed, NextPlaced, WritersPlaced

LEMMA PlacedStep ==
    ASSUME MaxReports <= PerSlot
    PROVE  TypeOK /\ Numbered /\ Placed /\ [Next]_vars => Placed'
<1> SUFFICES ASSUME TypeOK, Numbered, Placed, [Next]_vars PROVE Placed'
    OBVIOUS
<1>file. file \in [IDs -> Numbers \cup {None}]
    BY DEF TypeOK
<1>clock. clock \in Clocks /\ clock \in Nat /\ born \in Nat
    BY StoreAssumption DEF TypeOK, Clocks
<1>1. CASE Launch
  <2>1. /\ phase = "down" /\ phase' = "prune" /\ clock' > clock /\ clock' >= clock /\ clock' \in Nat
        /\ UNCHANGED <<file, writer, born, begunAt>>
      BY <1>1, <1>clock, StoreAssumption DEF Launch, history, Clocks
  <2>2. \A w \in Writers : ~Busy(w)
      BY <2>1 DEF Placed, WritersPlaced, WriterPlaced
  <2>3. \A w \in Writers : ~Busy(w)'
      BY <2>1, <2>2 DEF Busy
  <2> QED BY <2>1, <2>3, QuietStaysPlaced
<1>2. CASE Initialized
  <2>1. /\ phase = "prune" /\ phase' = "up" /\ nextID' = InitialID(clock)
        /\ UNCHANGED <<clock, file, writer, born, begunAt>>
      BY <1>2 DEF Initialized, storage, history
  <2>2. \A w \in Writers : ~Busy(w)
      BY <2>1 DEF Placed, WritersPlaced, WriterPlaced
  <2>3. \A w \in Writers : ~Busy(w)'
      BY <2>1, <2>2 DEF Busy
  <2>4. \A id \in IDs : ~OfThisLaunch(id)'
    <3>1. \A id \in IDs : file[id] # None => begunAt[file[id]] \in Nat /\ begunAt[file[id]] < clock
        BY <1>file, <2>1, StoreAssumption DEF TypeOK, Clocks, Placed, FilesPlaced
    <3> QED BY <1>clock, <2>1, <3>1 DEF OfThisLaunch
  <2>5. InitialID(clock) \in Slot(clock) /\ InitialID(clock) <= InitialID(clock) + born
    <3>1. InitialID(clock) \in Slot(clock) /\ InitialID(clock) \in Nat
        BY <1>clock, SlotIsWhole
    <3> HIDE DEF InitialID
    <3> QED BY <1>clock, <3>1
  <2>6. Fresh' \subseteq IDs /\ Slot(clock)' = Slot(clock) /\ InitialID(clock)' = InitialID(clock)
      BY <2>1 DEF Fresh, Slot, InitialID, IDs
  <2>7. NextPlaced'
      BY <2>1, <2>3, <2>4, <2>5, <2>6 DEF NextPlaced
  <2>8. FilesPlaced'
      BY <2>1, <2>6 DEF Placed, FilesPlaced, Slot, InitialID, IDs
  <2> QED BY <2>3, <2>7, <2>8 DEF Placed, WritersPlaced
<1>3. CASE Exit
  <2>1. /\ phase' = "down" /\ \A w \in Writers : writer'[w].pc = "idle"
        /\ UNCHANGED <<clock, file, born, begunAt>>
      BY <1>3 DEF Exit, history, WriterIdle
  <2>2. (\A w \in Writers : ~Busy(w)') /\ clock' >= clock /\ clock' \in Nat
      BY <1>clock, <2>1 DEF Busy
  <2> QED BY <2>1, <2>2, QuietStaysPlaced
<1>4. CASE \E w \in Writers : BeginReport(w)
  <2>1. PICK w \in Writers : BeginReport(w)
      BY <1>4
  <2>2. /\ MayBegin(w) /\ TakesID(w, "open") /\ file' = file
        /\ UNCHANGED <<phase, clock>>
      BY <2>1 DEF BeginReport, storage
  <2> QED BY <2>2, BeginStaysPlaced
<1>5. CASE \E w \in Writers : AddUserReport(w)
  <2>1. PICK w \in Writers : AddUserReport(w)
      BY <1>5
  <2>2. /\ MayBegin(w) /\ TakesID(w, "add") /\ file' = [file EXCEPT ![nextID] = born + 1]
        /\ UNCHANGED <<phase, clock>>
      BY <2>1 DEF AddUserReport
  <2> QED BY <2>2, BeginStaysPlaced
<1>6. CASE \E w \in Writers : OpenReport(w)
    BY <1>6, OpenStaysPlaced
<1>7. CASE \E w \in Writers : CloseReport(w) \/ CloseUserReport(w)
  <2>1. PICK w \in Writers : CloseReport(w) \/ CloseUserReport(w)
      BY <1>7
  <2>2. writer' = [writer EXCEPT ![w] = WriterIdle]
        /\ UNCHANGED <<phase, clock, nextID, born, begunAt, file>>
      BY <2>1 DEF CloseReport, CloseUserReport, process, history
  <2>3. \A v \in Writers : writer'[v] = writer[v] \/ writer'[v] = WriterIdle
      BY <2>2 DEF TypeOK
  <2> QED BY <2>2, <2>3, LessStaysPlaced
<1>8. CASE \E s \in Senders : Count(s) \/ List(s) \/ Read(s) \/ Send(s) \/ DeleteAll(s)
  <2>1. UNCHANGED <<phase, clock, nextID, born, begunAt, writer>>
      BY <1>8 DEF Count, List, Read, Send, DeleteAll, process, history
  <2>2. \A id \in IDs : file'[id] = file[id] \/ file'[id] = None
      BY <1>8 DEF Count, List, Read, Send, DeleteAll, Emptied, storage
  <2> QED BY <2>1, <2>2, LessStaysPlaced
<1>9. CASE Prune \/ \E id \in IDs : DeleteByID(id)
  <2>1. UNCHANGED <<phase, clock, nextID, born, begunAt, writer>>
      BY <1>9 DEF Prune, DeleteByID, process, history
  <2>2. PICK x : file' = [file EXCEPT ![x] = None]
      BY <1>9 DEF Prune, DeleteByID
  <2>3. \A id \in IDs : file'[id] = file[id] \/ file'[id] = None
      BY <1>file, <2>2
  <2> QED BY <2>1, <2>3, LessStaysPlaced
<1>10. CASE UNCHANGED vars
  <2>1. UNCHANGED <<phase, clock, nextID, born, begunAt, writer, file>>
      BY <1>10 DEF vars, process, storage, history
  <2> QED BY <2>1, LessStaysPlaced
<1> QED BY <1>1, <1>2, <1>3, <1>4, <1>5, <1>6, <1>7, <1>8, <1>9, <1>10 DEF Next

\* As long as a launch does not use up the IDs of its slot, a name tells the slot of its
\* report's launch, a name that is taken is another launch's, and a writer writes into
\* its own file or into none: whatever the times of the launches are, also when they
\* share a slot, go around the ring or start at the ID 0, whatever is pruned, sent or
\* deleted meanwhile and wherever a process ends.
THEOREM FilesApartAlways ==
    ASSUME MaxReports <= PerSlot
    PROVE  Spec => []FilesApart
<1>1. TypeOK /\ Placed => FilesApart
  <2> SUFFICES ASSUME TypeOK, Placed PROVE OwnFile
      BY DEF FilesApart
  <2>1. \A id \in Present : id \div PerSlot = begunAt[file[id]] % Slots
    <3> SUFFICES ASSUME NEW id \in IDs, file[id] # None
                 PROVE  id \div PerSlot = begunAt[file[id]] % Slots
        BY DEF Present
    <3>1. begunAt[file[id]] \in Nat
        BY StoreAssumption DEF TypeOK, Clocks
    <3>2. id \in Slot(begunAt[file[id]])
        BY DEF Placed, FilesPlaced
    <3> QED BY <3>1, <3>2, SlotTells
  <2>2. phase = "up" /\ born < MaxReports => ~OfThisLaunch(nextID)
    <3> SUFFICES ASSUME phase = "up", born < MaxReports PROVE ~OfThisLaunch(nextID)
        OBVIOUS
    <3>1. nextID \in Slot(clock) /\ nextID \in Nat
        BY RingSize DEF Placed, NextPlaced, TypeOK, IDs
    <3>2. nextID \in Fresh
        BY <3>1 DEF Fresh
    <3> QED BY <3>2 DEF Placed, NextPlaced
  <2>3. \A w \in Writers : writer[w].pc = "open" => ~OfThisLaunch(writer[w].id)
      BY DEF Placed, WritersPlaced, WriterPlaced, Busy
  <2>4. ASSUME NEW w \in Writers, writer[w].pc \in {"write", "add"}
        PROVE  \A id \in Present : file[id] = writer[w].num <=> id = writer[w].id
    <3>1. WriterPlaced(w) /\ writer[w].pc # "open"
        BY <2>4 DEF Placed, WritersPlaced, Busy
    <3> QED BY <3>1 DEF WriterPlaced, Present
  <2> QED BY <2>1, <2>2, <2>3, <2>4 DEF OwnFile
<1>2. TypeOK /\ Numbered /\ Placed /\ [Next]_vars => Placed'
    BY PlacedStep
<1> QED BY <1>1, <1>2, PlacedInit, TypeInit, TypeStep, NumberedInit, NumberedStep, PTL DEF Spec

-----------------------------------------------------------------------------
(* Launches with slots of their own *)

\* The launches whose slot nobody has written to yet.
ToCome(d) == d > clock \/ (d = clock /\ phase = "prune")

\* A launch to come, and a counter not yet there, find no file and no writer; so a
\* writer's ID is its own, and only its report can be in the file.
Apart ==
    /\ phase # "up" => \A w \in Writers : ~Busy(w)
    /\ \A d \in Clocks : ToCome(d) => \A id \in Slot(d) : file[id] = None
    /\ phase = "up" /\ born < MaxReports =>
         /\ nextID \in Slot(clock) /\ nextID <= InitialID(clock) + born
         /\ \A id \in Fresh : file[id] = None /\ \A w \in Writers : Busy(w) => writer[w].id # id
    /\ \A w \in Writers : Busy(w) => writer[w].id \in Slot(clock)
    /\ \A w \in Writers : writer[w].pc = "open" => file[writer[w].id] = None
    /\ \A v, w \in Writers : Busy(v) /\ Busy(w) /\ writer[v].id = writer[w].id => v = w
    /\ \A id \in IDs : file[id] <= born
    /\ \A w \in Writers : Busy(w) =>
         \A id \in IDs : file[id] = writer[w].num => id = writer[w].id

\* When launches share no slot, a launch's slot holds reports of this launch only.
LEMMA ApartIs ==
    ASSUME LastClock - FirstClock < Slots, TypeOK, Placed
    PROVE  Apart
<1>types. /\ clock \in Clocks /\ begunAt \in [Numbers -> Clocks] /\ Clocks \subseteq Nat
          /\ file \in [IDs -> Numbers \cup {None}] /\ born \in Nat
    BY StoreAssumption DEF TypeOK, Clocks
<1>1. \A id \in IDs : file[id] # None =>
         /\ file[id] <= born /\ begunAt[file[id]] \in Clocks /\ begunAt[file[id]] <= clock
         /\ phase = "prune" => begunAt[file[id]] < clock
         /\ id \in Slot(begunAt[file[id]])
    BY <1>types DEF Placed, FilesPlaced
<1>2. ASSUME NEW d \in Clocks, NEW id \in Slot(d), file[id] # None
      PROVE  begunAt[file[id]] = d
  <2>1. id \in IDs
      BY DEF Slot
  <2> QED BY <1>1, <1>2, <2>1, SlotsApart
<1>3. \A d \in Clocks : ToCome(d) => \A id \in Slot(d) : file[id] = None
  <2> SUFFICES ASSUME NEW d \in Clocks, ToCome(d), NEW id \in Slot(d), file[id] # None PROVE FALSE
      OBVIOUS
  <2>1. begunAt[file[id]] = d /\ id \in IDs
      BY <1>2 DEF Slot
  <2>2. d <= clock /\ (phase = "prune" => d < clock)
      BY <1>1, <2>1
  <2>3. d \in Nat /\ clock \in Nat
      BY <1>types
  <2> QED BY <2>2, <2>3 DEF ToCome
<1>4. \A id \in Slot(clock) : ~OfThisLaunch(id) => file[id] = None
    BY <1>2, <1>types DEF OfThisLaunch
<1>5. \A w \in Writers : Busy(w) => WriterPlaced(w)
    BY DEF Placed, WritersPlaced
<1>6. phase # "up" => \A w \in Writers : ~Busy(w)
    BY <1>5 DEF WriterPlaced
<1>7. phase = "up" /\ born < MaxReports =>
         /\ nextID \in Slot(clock) /\ nextID <= InitialID(clock) + born
         /\ \A id \in Fresh : file[id] = None /\ \A w \in Writers : Busy(w) => writer[w].id # id
    BY <1>4 DEF Placed, NextPlaced, Fresh
<1>8. /\ \A w \in Writers : Busy(w) => writer[w].id \in Slot(clock)
      /\ \A w \in Writers : Busy(w) =>
           \A id \in IDs : file[id] = writer[w].num => id = writer[w].id
    BY <1>5 DEF WriterPlaced
<1>9. \A w \in Writers : writer[w].pc = "open" => file[writer[w].id] = None
    BY <1>4, <1>5 DEF WriterPlaced, Busy
<1>10. \A id \in IDs : file[id] <= born
    BY <1>1, <1>types DEF None
<1>11. \A v, w \in Writers : Busy(v) /\ Busy(w) /\ writer[v].id = writer[w].id => v = w
    BY DEF Placed, WritersPlaced
<1> QED BY <1>3, <1>6, <1>7, <1>8, <1>9, <1>10, <1>11, Zenon DEF Apart

-----------------------------------------------------------------------------
(* The box *)

\* The launches fall into one round of the ring, after its first slot.
OneRound == FirstClock % Slots > 0 /\ (FirstClock % Slots) + (LastClock - FirstClock) < Slots

\* A report has an ID as long as it is being written or in a file.
Holds(id, n) ==
    \/ file[id] = n
    \/ \E w \in Writers : Busy(w) /\ writer[w].id = id /\ writer[w].num = n

\* IDs are given in the order of the reports' numbers, and those to come are larger.
Ordered ==
    /\ \A i, j \in IDs : \A m, n \in Numbers : Holds(i, m) /\ Holds(j, n) => (i < j => m < n) /\ (i = j => m = n)
    /\ \A i \in IDs : \A m \in Numbers : Holds(i, m) =>
         /\ i > 0 /\ m <= born
         /\ phase = "up" /\ born < MaxReports => i < nextID
         /\ \A d \in Clocks : ToCome(d) => i < InitialID(d)

\* What is pruned is the oldest part of what is there.
PrunesOldest ==
    /\ victims \subseteq Visible
    /\ \A x \in Visible, id \in victims : x < id => x \in victims
    /\ phase # "prune" => victims = {}

Sent == {n \in Numbers : sends[n] > 0}
At(T) == {file[id] : id \in T}

\* What a sender counted and is still there, it will read, has read, or has sent.
KeepsCounted(s) ==
    LET r == sender[s]
    IN  /\ r.known \subseteq written
        /\ phase # "up" => r.pc = "idle"
        /\ r.pc = "list" => Visible = {} \/ Cardinality(Visible) = r.count
        /\ r.pc = "read" => r.known \cap Whole \subseteq r.loaded \cup At(r.todo)
        /\ r.pc = "send" => r.known \cap Whole \subseteq r.loaded
        /\ r.pc = "delete" => r.known \cap Whole \subseteq Sent

BoxInv == Ordered /\ PrunesOldest /\ \A s \in Senders : KeepsCounted(s)

LEMMA ClockSlot ==
    ASSUME OneRound, NEW c \in Clocks
    PROVE  /\ c % Slots = (FirstClock % Slots) + (c - FirstClock)
           /\ LastClock - FirstClock < Slots
<1>1. /\ Slots \in Nat \ {0} /\ Slots \in Nat /\ FirstClock \in Nat /\ LastClock \in Nat /\ c \in Nat
      /\ FirstClock <= c /\ c <= LastClock
    BY StoreAssumption DEF Clocks
<1> DEFINE p == FirstClock \div Slots
           f == FirstClock % Slots
           q == c \div Slots
           r == c % Slots
           e == f + (c - FirstClock)
<1>2. FirstClock = Slots * p + f /\ p \in Nat /\ f \in 0..(Slots - 1)
    BY <1>1, DivMod
<1>3. c = Slots * q + r /\ q \in Nat /\ r \in 0..(Slots - 1)
    BY <1>1, DivMod
<1>4. f > 0 /\ f + (LastClock - FirstClock) < Slots
    BY DEF OneRound
<1> HIDE DEF p, f, q, r
<1>5. e \in 0..(Slots - 1) /\ LastClock - FirstClock < Slots
    BY <1>1, <1>2, <1>4
<1>6. Slots * p \in Nat /\ Slots * q \in Nat
    BY <1>1, <1>2, <1>3, Z3
<1>7. c = Slots * p + e
    BY <1>1, <1>2, <1>6
<1> HIDE DEF e
<1>8. ~(p < q)
  <2> SUFFICES ASSUME p < q PROVE FALSE
      OBVIOUS
  <2>1. Slots * p + Slots <= Slots * q
      BY <1>1, <1>2, <1>3, Multiples
  <2> QED BY <1>1, <1>3, <1>5, <1>6, <1>7, <2>1
<1>9. ~(q < p)
  <2> SUFFICES ASSUME q < p PROVE FALSE
      OBVIOUS
  <2>1. Slots * q + Slots <= Slots * p
      BY <1>1, <1>2, <1>3, Multiples
  <2> QED BY <1>1, <1>3, <1>5, <1>6, <1>7, <2>1
<1>10. p = q
    BY <1>2, <1>3, <1>8, <1>9
<1>11. r = e
    BY <1>3, <1>5, <1>6, <1>7, <1>10
<1> QED BY <1>5, <1>11 DEF r, e, f

\* So a later launch starts above every ID of an earlier one, and none at the ID 0.
LEMMA SlotsInOrder ==
    ASSUME OneRound, NEW c \in Clocks
    PROVE  /\ InitialID(c) \in Nat /\ InitialID(c) > 0
           /\ \A d \in Clocks : c < d => InitialID(c) + PerSlot <= InitialID(d)
<1>1. Slots \in Nat \ {0} /\ PerSlot \in Nat \ {0} /\ c \in Nat /\ FirstClock \in Nat /\ FirstClock <= c
    BY StoreAssumption DEF Clocks
<1> DEFINE s == c % Slots
<1>2. s = (FirstClock % Slots) + (c - FirstClock) /\ s \in 0..(Slots - 1) /\ FirstClock % Slots \in Nat
    BY <1>1, ClockSlot, DivMod
<1>3. FirstClock % Slots > 0
    BY DEF OneRound
<1>4. s \in Nat /\ s > 0
    BY <1>1, <1>2, <1>3
<1> HIDE DEF s
<1>5. s * PerSlot \in Nat /\ s * PerSlot > 0
    BY <1>1, <1>4, Z3
<1>6. InitialID(c) = s * PerSlot
    BY DEF InitialID, s
<1>7. ASSUME NEW d \in Clocks, c < d
      PROVE  InitialID(c) + PerSlot <= InitialID(d)
  <2> DEFINE t == d % Slots
  <2>1. d \in Nat /\ t = (FirstClock % Slots) + (d - FirstClock) /\ t \in 0..(Slots - 1)
      BY <1>1, ClockSlot, DivMod DEF Clocks
  <2>2. t \in Nat /\ s < t
      BY <1>1, <1>2, <1>7, <2>1
  <2>3. InitialID(d) = t * PerSlot
      BY DEF InitialID
  <2> HIDE DEF t
  <2>4. PerSlot * s + PerSlot <= PerSlot * t
      BY <1>1, <1>4, <2>2, Multiples
  <2>5. PerSlot * s = s * PerSlot /\ PerSlot * t = t * PerSlot
      BY <1>1, <1>4, <2>2, Z3
  <2> QED BY <1>6, <2>3, <2>4, <2>5, Zenon
<1> QED BY <1>5, <1>6, <1>7

LEMMA OrderedInit == Init => Ordered
<1> SUFFICES ASSUME Init PROVE Ordered
    OBVIOUS
<1>1. \A id \in IDs : \A n \in Numbers : ~Holds(id, n)
    BY DEF Init, Holds, Busy, WriterIdle, None, Numbers
<1> QED BY <1>1, Zenon DEF Ordered

\* Order outlasts a step that adds no report.
LEMMA FewerOrdered ==
    ASSUME Ordered, born' = born, clock' >= clock,
           \A i \in IDs : \A n \in Numbers : Holds(i, n)' => Holds(i, n),
           \A d \in Clocks : ToCome(d)' => ToCome(d),
           \A i \in IDs : \A n \in Numbers :
              Holds(i, n) /\ phase' = "up" /\ born < MaxReports => i < nextID'
    PROVE  Ordered'
<1>1. \A i, j \in IDs : \A m, n \in Numbers : Holds(i, m)' /\ Holds(j, n)' => (i < j => m < n) /\ (i = j => m = n)
    BY DEF Ordered
<1>2. \A i \in IDs : \A m \in Numbers : Holds(i, m)' =>
         /\ i > 0 /\ m <= born'
         /\ phase' = "up" /\ born' < MaxReports => i < nextID'
         /\ \A d \in Clocks : ToCome(d)' => i < InitialID(d)
    BY DEF Ordered
<1> QED BY <1>1, <1>2, Zenon DEF Ordered, IDs, Numbers, Clocks, InitialID

\* Files that go, are opened or completed hold what was held before.
LEMMA HoldsFewer ==
    ASSUME TypeOK,
           \A w \in Writers : Busy(w)' => Busy(w) /\ writer'[w].id = writer[w].id /\ writer'[w].num = writer[w].num,
           \A id \in IDs : \/ file'[id] = file[id] \/ file'[id] = None
                           \/ \E w \in Writers : Busy(w) /\ writer[w].id = id /\ writer[w].num = file'[id]
    PROVE  \A i \in IDs : \A n \in Numbers : Holds(i, n)' => Holds(i, n)
<1> SUFFICES ASSUME NEW i \in IDs, NEW n \in Numbers, Holds(i, n)' PROVE Holds(i, n)
    OBVIOUS
<1>1. n # None
    BY DEF Numbers, None
<1>2. CASE file'[i] = n
    BY <1>1, <1>2, Zenon DEF Holds
<1>3. CASE \E w \in Writers : Busy(w)' /\ writer'[w].id = i /\ writer'[w].num = n
    BY <1>3, Zenon DEF Holds
<1> QED BY <1>2, <1>3, Zenon DEF Holds

\* The report that begins is the last one, and its ID the largest.
LEMMA BeginOrdered ==
    ASSUME TypeOK, Apart, Ordered, OneRound, MaxReports <= PerSlot, NEW w \in Writers,
           NEW pc \in {"open", "add"}, MayBegin(w), TakesID(w, pc),
           UNCHANGED <<phase, clock>>,
           IF pc = "open" THEN file' = file ELSE file' = [file EXCEPT ![nextID] = born + 1]
    PROVE  Ordered'
<1>1. /\ born \in Nat /\ MaxReports \in Nat /\ PerSlot \in Nat \ {0} /\ born < MaxReports
      /\ phase = "up" /\ phase' = "up" /\ clock \in Nat /\ clock \in Clocks /\ IDs \subseteq Nat
      /\ Clocks \subseteq Nat /\ born' = born + 1 /\ clock' = clock /\ nextID' = NextAfter(nextID)
    BY StoreAssumption, RingSize DEF TypeOK, MayBegin, Clocks, IDs, TakesID
<1>2. InitialID(clock) \in Nat /\ InitialID(clock) > 0
    BY <1>1, SlotsInOrder
<1>3. /\ nextID \in IDs /\ InitialID(clock) <= nextID /\ nextID < InitialID(clock) + PerSlot
      /\ nextID <= InitialID(clock) + born
  <2>1. nextID \in Slot(clock) /\ nextID <= InitialID(clock) + born
      BY <1>1, Zenon DEF Apart
  <2> QED BY <2>1, Zenon DEF Slot
<1>4. nextID \in Nat /\ nextID > 0
    BY <1>1, <1>2, <1>3
<1>5. \A i \in IDs : \A m \in Numbers : Holds(i, m)' => Holds(i, m) \/ (i = nextID /\ m = born + 1)
  <2> SUFFICES ASSUME NEW i \in IDs, NEW m \in Numbers, Holds(i, m)', ~(i = nextID /\ m = born + 1)
               PROVE  Holds(i, m)
      OBVIOUS
  <2>1. CASE file'[i] = m
    <3>1. file'[i] = file[i] \/ (i = nextID /\ file'[i] = born + 1)
        BY DEF TypeOK
    <3> QED BY <2>1, <3>1, Zenon DEF Holds
  <2>2. CASE \E v \in Writers : Busy(v)' /\ writer'[v].id = i /\ writer'[v].num = m
    <3>1. PICK v \in Writers : Busy(v)' /\ writer'[v].id = i /\ writer'[v].num = m
        BY <2>2
    <3>2. /\ writer'[w].id = nextID /\ writer'[w].num = born + 1
          /\ \A u \in Writers \ {w} : writer'[u] = writer[u]
        BY DEF TypeOK, TakesID
    <3>3. v # w /\ writer'[v] = writer[v]
        BY <3>1, <3>2
    <3> QED BY <3>1, <3>3 DEF Holds, Busy
  <2> QED BY <2>1, <2>2, Zenon DEF Holds
<1>6. \A i \in IDs : \A m \in Numbers : Holds(i, m) => i < nextID /\ m <= born /\ i > 0
    BY <1>1, Zenon DEF Ordered
<1>7. \A i, j \in IDs : \A m, n \in Numbers : Holds(i, m)' /\ Holds(j, n)' => (i < j => m < n) /\ (i = j => m = n)
  <2> SUFFICES ASSUME NEW i \in IDs, NEW j \in IDs, NEW m \in Numbers, NEW n \in Numbers,
                      Holds(i, m)', Holds(j, n)'
               PROVE  (i < j => m < n) /\ (i = j => m = n)
      OBVIOUS
  <2>0. m \in Nat /\ n \in Nat /\ i \in Nat /\ j \in Nat
      BY <1>1 DEF Numbers
  <2>1. CASE Holds(i, m) /\ Holds(j, n)
      BY <2>1, Zenon DEF Ordered
  <2>2. CASE Holds(i, m) /\ j = nextID /\ n = born + 1
    <3>1. i < nextID /\ m <= born
        BY <1>6, <2>2
    <3> QED BY <1>1, <1>4, <2>0, <2>2, <3>1
  <2>3. CASE Holds(j, n) /\ i = nextID /\ m = born + 1
    <3>1. j < nextID /\ n <= born
        BY <1>6, <2>3
    <3> QED BY <1>1, <1>4, <2>0, <2>3, <3>1
  <2>4. CASE i = nextID /\ m = born + 1 /\ j = nextID /\ n = born + 1
      BY <1>1, <1>4, <2>4
  <2> QED BY <1>5, <2>1, <2>2, <2>3, <2>4
<1>8. \A i \in IDs : \A m \in Numbers : Holds(i, m)' =>
         /\ i > 0 /\ m <= born'
         /\ phase' = "up" /\ born' < MaxReports => i < nextID'
         /\ \A d \in Clocks : ToCome(d)' => i < InitialID(d)
  <2> SUFFICES ASSUME NEW i \in IDs, NEW m \in Numbers, Holds(i, m)'
               PROVE  /\ i > 0 /\ m <= born + 1
                      /\ born + 1 < MaxReports => i < nextID'
                      /\ \A d \in Clocks : ToCome(d)' => i < InitialID(d)
      BY <1>1, Zenon
  <2>0. m \in Nat /\ i \in Nat
      BY <1>1 DEF Numbers
  <2>1. i <= nextID /\ m <= born + 1 /\ i > 0
      BY <1>1, <1>4, <1>5, <1>6, <2>0
  <2>2. born + 1 < MaxReports => nextID' = nextID + 1
    <3> SUFFICES ASSUME born + 1 < MaxReports PROVE nextID' = nextID + 1
        OBVIOUS
    <3>1. nextID + 1 < InitialID(clock) + PerSlot
        BY <1>1, <1>2, <1>3, <1>4
    <3> QED BY <1>1, <1>3, <3>1, NextInSlot
  <2>3. ASSUME NEW d \in Clocks, ToCome(d)' PROVE i < InitialID(d)
    <3>1. d > clock /\ d \in Nat
        BY <1>1, <2>3 DEF ToCome
    <3>2. clock < d
        BY <1>1, <3>1
    <3>3. InitialID(clock) + PerSlot <= InitialID(d) /\ InitialID(d) \in Nat
        BY <1>1, <3>2, SlotsInOrder
    <3> QED BY <1>1, <1>2, <1>3, <1>4, <2>0, <2>1, <3>3
  <2> QED BY <1>1, <1>4, <2>0, <2>1, <2>2, <2>3
<1> QED BY <1>7, <1>8, Zenon DEF Ordered, IDs, Numbers, Clocks, InitialID

LEMMA OrderedStep ==
    ASSUME OneRound, MaxReports <= PerSlot
    PROVE  TypeOK /\ Apart /\ Ordered /\ [Next]_vars => Ordered'
<1> SUFFICES ASSUME TypeOK, Apart, Ordered, [Next]_vars PROVE Ordered'
    OBVIOUS
<1>file. file \in [IDs -> Numbers \cup {None}] /\ writer \in [Writers -> WriterState]
    BY DEF TypeOK, WriterState
<1>nat. clock \in Nat /\ clock \in Clocks /\ Clocks \subseteq Nat
    BY StoreAssumption DEF TypeOK, Clocks
<1>same. ASSUME UNCHANGED <<phase, clock, nextID, born>>,
                \A i \in IDs : \A n \in Numbers : Holds(i, n)' => Holds(i, n)
         PROVE  Ordered'
  <2>1. clock' >= clock /\ \A d \in Clocks : ToCome(d)' => ToCome(d)
      BY <1>nat, <1>same DEF ToCome
  <2>2. \A i \in IDs : \A n \in Numbers :
           Holds(i, n) /\ phase' = "up" /\ born < MaxReports => i < nextID'
      BY <1>same, Zenon DEF Ordered
  <2> QED BY <1>same, <2>1, <2>2, FewerOrdered
<1>1. CASE Launch
  <2>1. /\ phase = "down" /\ phase' = "prune" /\ clock' > clock
        /\ UNCHANGED <<file, writer, born>>
      BY <1>1, StoreAssumption DEF Launch, history, TypeOK, Clocks
  <2>2. clock' >= clock /\ \A d \in Clocks : ToCome(d)' => ToCome(d)
      BY <2>1, <1>1, <1>nat DEF ToCome, Launch, Clocks
  <2>3. \A i \in IDs : \A n \in Numbers : Holds(i, n)' => Holds(i, n)
      BY <2>1 DEF Holds, Busy
  <2>4. \A i \in IDs : \A n \in Numbers :
           Holds(i, n) /\ phase' = "up" /\ born < MaxReports => i < nextID'
      BY <2>1
  <2> QED BY <2>1, <2>2, <2>3, <2>4, FewerOrdered
<1>2. CASE Initialized
  <2>1. /\ phase = "prune" /\ phase' = "up" /\ nextID' = InitialID(clock)
        /\ UNCHANGED <<clock, file, writer, born>>
      BY <1>2 DEF Initialized, storage, history
  <2>2. clock' >= clock /\ ToCome(clock) /\ \A d \in Clocks : ToCome(d)' => ToCome(d)
      BY <1>nat, <2>1 DEF ToCome
  <2>3. \A i \in IDs : \A n \in Numbers : Holds(i, n)' => Holds(i, n)
      BY <2>1 DEF Holds, Busy
  <2>4. \A i \in IDs : \A n \in Numbers :
           Holds(i, n) /\ phase' = "up" /\ born < MaxReports => i < nextID'
      BY <1>nat, <2>1, <2>2, Zenon DEF Ordered
  <2> QED BY <2>1, <2>2, <2>3, <2>4, FewerOrdered
<1>3. CASE Exit
  <2>1. /\ phase' = "down" /\ \A w \in Writers : writer'[w].pc = "idle"
        /\ UNCHANGED <<clock, file, born>>
      BY <1>3 DEF Exit, history, WriterIdle
  <2>2. clock' >= clock /\ \A d \in Clocks : ToCome(d)' => ToCome(d)
      BY <1>nat, <2>1 DEF ToCome
  <2>3. \A i \in IDs : \A n \in Numbers : Holds(i, n)' => Holds(i, n)
      BY <2>1 DEF Holds, Busy
  <2>4. \A i \in IDs : \A n \in Numbers :
           Holds(i, n) /\ phase' = "up" /\ born < MaxReports => i < nextID'
      BY <2>1
  <2> QED BY <2>1, <2>2, <2>3, <2>4, FewerOrdered
<1>4. CASE \E w \in Writers : BeginReport(w)
  <2>1. PICK w \in Writers : BeginReport(w)
      BY <1>4
  <2>2. /\ MayBegin(w) /\ TakesID(w, "open") /\ file' = file
        /\ UNCHANGED <<phase, clock>>
      BY <2>1 DEF BeginReport, storage
  <2> QED BY <2>2, BeginOrdered
<1>5. CASE \E w \in Writers : AddUserReport(w)
  <2>1. PICK w \in Writers : AddUserReport(w)
      BY <1>5
  <2>2. /\ MayBegin(w) /\ TakesID(w, "add") /\ file' = [file EXCEPT ![nextID] = born + 1]
        /\ UNCHANGED <<phase, clock>>
      BY <2>1 DEF AddUserReport
  <2> QED BY <2>2, BeginOrdered
<1>6. CASE \E w \in Writers : OpenReport(w)
  <2>1. PICK w \in Writers : OpenReport(w)
      BY <1>6
  <2>2. UNCHANGED <<phase, clock, nextID, born>> /\ writer[w].pc = "open" /\ Busy(w)
      BY <2>1 DEF OpenReport, process, Busy
  <2>3. /\ file' = [file EXCEPT ![writer[w].id] = writer[w].num]
        /\ writer' = [writer EXCEPT ![w].pc = "write"]
      BY <2>1, <2>2 DEF OpenReport, MayCreate, Apart
  <2>4. \A id \in IDs : \/ file'[id] = file[id]
                        \/ writer[w].id = id /\ writer[w].num = file'[id]
      BY <1>file, <2>3
  <2>5. \A v \in Writers : Busy(v)' => Busy(v) /\ writer'[v].id = writer[v].id /\ writer'[v].num = writer[v].num
      BY <1>file, <2>2, <2>3 DEF Busy, WriterState
  <2>6. \A i \in IDs : \A n \in Numbers : Holds(i, n)' => Holds(i, n)
      BY <2>2, <2>4, <2>5, HoldsFewer
  <2> QED BY <2>2, <2>6, <1>same
<1>7. CASE \E w \in Writers : CloseReport(w) \/ CloseUserReport(w)
  <2>1. PICK w \in Writers : CloseReport(w) \/ CloseUserReport(w)
      BY <1>7
  <2>2. writer' = [writer EXCEPT ![w] = WriterIdle]
        /\ UNCHANGED <<phase, clock, nextID, born, file>>
      BY <2>1 DEF CloseReport, CloseUserReport, process
  <2>3. \A v \in Writers : Busy(v)' => Busy(v) /\ writer'[v].id = writer[v].id /\ writer'[v].num = writer[v].num
      BY <1>file, <2>2 DEF Busy, WriterIdle
  <2>4. \A i \in IDs : \A n \in Numbers : Holds(i, n)' => Holds(i, n)
      BY <2>2, <2>3, HoldsFewer
  <2> QED BY <2>2, <2>4, <1>same
<1>8. CASE \E s \in Senders : Count(s) \/ List(s) \/ Read(s) \/ Send(s) \/ DeleteAll(s)
  <2>1. UNCHANGED <<phase, clock, nextID, born, writer>>
      BY <1>8 DEF Count, List, Read, Send, DeleteAll, process
  <2>2. \A id \in IDs : file'[id] = file[id] \/ file'[id] = None
      BY <1>8 DEF Count, List, Read, Send, DeleteAll, Emptied, storage
  <2>3. \A i \in IDs : \A n \in Numbers : Holds(i, n)' => Holds(i, n)
      BY <2>1, <2>2, HoldsFewer DEF Busy
  <2> QED BY <2>1, <2>3, <1>same
<1>9. CASE Prune \/ \E id \in IDs : DeleteByID(id)
  <2>1. UNCHANGED <<phase, clock, nextID, born, writer>>
      BY <1>9 DEF Prune, DeleteByID, process, history
  <2>2. PICK x : file' = [file EXCEPT ![x] = None]
      BY <1>9 DEF Prune, DeleteByID
  <2>3. \A id \in IDs : file'[id] = file[id] \/ file'[id] = None
      BY <1>file, <2>2
  <2>4. \A i \in IDs : \A n \in Numbers : Holds(i, n)' => Holds(i, n)
      BY <2>1, <2>3, HoldsFewer DEF Busy
  <2> QED BY <2>1, <2>4, <1>same
<1>10. CASE UNCHANGED vars
  <2>1. UNCHANGED <<phase, clock, nextID, born, writer, file>>
      BY <1>10 DEF vars, process, storage
  <2>2. \A i \in IDs : \A n \in Numbers : Holds(i, n)' => Holds(i, n)
      BY <2>1 DEF Holds, Busy
  <2> QED BY <2>1, <2>2, <1>same
<1> QED BY <1>1, <1>2, <1>3, <1>4, <1>5, <1>6, <1>7, <1>8, <1>9, <1>10 DEF Next

\* Nothing has the ID 0, so that what is there is seen; and numbers are of one file.
LEMMA AllVisible ==
    ASSUME Ordered, TypeOK
    PROVE  /\ Visible = Present
           /\ \A i, j \in Present : file[i] = file[j] => i = j
           /\ \A i, j \in Present : i < j => file[i] < file[j]
<1>1. \A i \in Present : i \in IDs /\ file[i] \in Numbers /\ Holds(i, file[i])
    BY DEF TypeOK, Present, Holds
<1>2. \A i \in Present : i > 0
    BY <1>1 DEF Ordered
<1>3. IDs \subseteq Nat /\ Present \subseteq IDs
    BY RingSize DEF IDs, Present
<1>4. Visible = Present
    BY <1>2, <1>3 DEF Visible
<1>5. \A i, j \in Present : i < j => file[i] < file[j]
  <2> SUFFICES ASSUME NEW i \in Present, NEW j \in Present, i < j PROVE file[i] < file[j]
      OBVIOUS
  <2>1. /\ i \in IDs /\ file[i] \in Numbers /\ Holds(i, file[i])
        /\ j \in IDs /\ file[j] \in Numbers /\ Holds(j, file[j])
      BY <1>1
  <2>2. \A m, n \in Numbers : Holds(i, m) /\ Holds(j, n) => m < n
      BY <2>1, Zenon DEF Ordered
  <2> QED BY <2>1, <2>2, Zenon
<1>6. \A i \in Present : file[i] \in Nat
    BY <1>1 DEF Numbers
<1>7. \A i, j \in Present : file[i] = file[j] => i = j
    BY <1>3, <1>5, <1>6
<1> QED BY <1>4, <1>5, <1>7

\* The oldest of some IDs is the smallest, and the first few are below the others.
LEMMA OldestIsSmallest ==
    ASSUME NEW T \in SUBSET IDs, T # {}
    PROVE  Oldest(T) \in T /\ \A x \in T : ~(x < Oldest(T))
<1>1. Oldest(T) \in T
    BY OldestIsThere
<1>2. IsFiniteSet(T)
  <2>1. IsFiniteSet(IDs)
      BY RingSize, FS_Interval DEF IDs
  <2> QED BY <2>1, FS_Subset
<1>4. Rank(T, Oldest(T)) = 0
    BY OldestIsThere
<1> DEFINE below == {x \in T : x < Oldest(T)}
<1>5. IsFiniteSet(below) /\ Cardinality(below) = 0
    BY <1>2, <1>4, FS_Subset DEF Rank
<1> HIDE DEF below
<1>6. below = {}
    BY <1>5, FS_EmptySet
<1> QED BY <1>1, <1>6 DEF below

LEMMA SmallestIsFirst ==
    ASSUME NEW T \in SUBSET IDs, NEW k \in Nat
    PROVE  \A x \in T, id \in Smallest(T, k) : x < id => x \in Smallest(T, k)
<1> SUFFICES ASSUME NEW x \in T, NEW id \in T, Rank(T, id) < k, x < id PROVE Rank(T, x) < k
    BY DEF Smallest
<1>1. IsFiniteSet(T) /\ T \subseteq Nat
  <2>1. IDs \subseteq Nat /\ IsFiniteSet(IDs)
      BY RingSize, FS_Interval DEF IDs
  <2> QED BY <2>1, FS_Subset
<1> DEFINE A == {y \in T : y < x}
           B == {y \in T : y < id}
<1>2. A \subseteq B /\ B \subseteq T
  <2>1. \A y \in T : y < x => y < id
      BY <1>1
  <2> QED BY <2>1
<1> HIDE DEF A, B
<1>3. IsFiniteSet(B) /\ IsFiniteSet(A) /\ Cardinality(A) <= Cardinality(B)
    BY <1>1, <1>2, FS_Subset
<1>4. Cardinality(A) \in Nat /\ Cardinality(B) \in Nat
    BY <1>3, FS_CardinalityType
<1>5. Rank(T, x) = Cardinality(A) /\ Rank(T, id) = Cardinality(B)
    BY DEF Rank, A, B
<1> QED BY <1>3, <1>4, <1>5

\* All of them are the first of as many.
LEMMA SmallestIsAll ==
    ASSUME NEW T \in SUBSET IDs
    PROVE  Smallest(T, Cardinality(T)) = T
<1>1. IsFiniteSet(T) /\ T \subseteq Nat
  <2>1. IDs \subseteq Nat /\ IsFiniteSet(IDs)
      BY RingSize, FS_Interval DEF IDs
  <2> QED BY <2>1, FS_Subset
<1> SUFFICES ASSUME NEW id \in T PROVE Rank(T, id) < Cardinality(T)
    BY DEF Smallest
<1> DEFINE A == {y \in T : y < id}
<1>2. A \subseteq T /\ id \notin A
    BY <1>1
<1> HIDE DEF A
<1>3. IsFiniteSet(A) /\ Cardinality(A) <= Cardinality(T) /\ (Cardinality(T) = Cardinality(A) => T = A)
    BY <1>1, <1>2, FS_Subset
<1>4. Cardinality(A) \in Nat /\ Cardinality(T) \in Nat
    BY <1>1, <1>3, FS_CardinalityType
<1>5. Rank(T, id) = Cardinality(A)
    BY DEF Rank, A
<1> QED BY <1>2, <1>3, <1>4, <1>5

LEMMA PrunesInit == Init => PrunesOldest
BY DEF Init, PrunesOldest

LEMMA PrunesStep == TypeOK /\ Apart /\ Ordered /\ PrunesOldest /\ [Next]_vars => PrunesOldest'
<1> SUFFICES ASSUME TypeOK, Apart, Ordered, PrunesOldest, [Next]_vars PROVE PrunesOldest'
    OBVIOUS
<1>none. ASSUME victims' = {} PROVE PrunesOldest'
    BY <1>none DEF PrunesOldest
<1>1. CASE Launch
  <2>1. victims' = Prunes(maxCount') /\ file' = file /\ maxCount' \in Nat /\ phase' = "prune"
      BY <1>1, StoreAssumption DEF Launch
  <2>2. Visible' = Visible /\ Visible \subseteq IDs /\ Cardinality(Visible) \in Nat
      BY <2>1, VisibleIsFinite DEF Visible, Present
  <2>3. CASE Cardinality(Visible) > maxCount'
    <3> DEFINE k == Cardinality(Visible) - maxCount'
    <3>1. k \in Nat /\ victims' = Smallest(Visible, k)
        BY <2>1, <2>2, <2>3 DEF Prunes
    <3> HIDE DEF k
    <3>2. victims' \subseteq Visible /\ \A x \in Visible, id \in victims' : x < id => x \in victims'
        BY <2>2, <3>1, SmallestIsFirst DEF Smallest
    <3> QED BY <2>1, <2>2, <3>2 DEF PrunesOldest
  <2>4. CASE ~(Cardinality(Visible) > maxCount')
      BY <1>none, <2>1, <2>4 DEF Prunes
  <2> QED BY <2>3, <2>4
<1>2. CASE Prune
  <2> DEFINE o == Oldest(victims)
  <2>1. phase = "prune" /\ phase' = "prune" /\ victims # {} /\ file' = [file EXCEPT ![o] = None] /\ victims' = victims \ {o}
      BY <1>2 DEF Prune, process
  <2> HIDE DEF o
  <2>2. Visible' = Visible \ {o}
      BY <2>1 DEF TypeOK, Visible, Present
  <2>3. /\ victims \subseteq Visible
        /\ \A x \in Visible, id \in victims : x < id => x \in victims
      BY DEF PrunesOldest
  <2>4. /\ victims' \subseteq Visible'
        /\ \A x \in Visible', id \in victims' : x < id => x \in victims'
      BY <2>1, <2>2, <2>3
  <2> QED BY <2>1, <2>4 DEF PrunesOldest
<1>3. CASE Initialized \/ Exit
  <2>1. victims' = {}
      BY <1>3 DEF Initialized, Exit, storage
  <2> QED BY <1>none, <2>1
<1>up. ASSUME phase = "up", victims' = victims PROVE PrunesOldest'
  <2>1. victims = {}
      BY <1>up DEF PrunesOldest
  <2> QED BY <1>up, <1>none, <2>1
<1>4. CASE \E w \in Writers : BeginReport(w) \/ OpenReport(w) \/ CloseReport(w) \/ AddUserReport(w) \/ CloseUserReport(w)
  <2>1. PICK w \in Writers : BeginReport(w) \/ OpenReport(w) \/ CloseReport(w) \/ AddUserReport(w) \/ CloseUserReport(w)
      BY <1>4
  <2>2. phase = "up" \/ Busy(w)
      BY <2>1 DEF BeginReport, OpenReport, CloseReport, AddUserReport, CloseUserReport, MayBegin, Busy
  <2>3. phase = "up"
      BY <2>2 DEF Apart
  <2>4. victims' = victims
      BY <2>1 DEF BeginReport, OpenReport, CloseReport, AddUserReport, CloseUserReport, storage
  <2> QED BY <1>up, <2>3, <2>4
<1>5. CASE \E s \in Senders : Count(s) \/ List(s) \/ Read(s) \/ Send(s) \/ DeleteAll(s)
  <2>1. phase = "up" /\ victims' = victims
      BY <1>5 DEF Count, List, Read, Send, DeleteAll, AtSender, storage
  <2> QED BY <1>up, <2>1
<1>6. CASE \E id \in IDs : DeleteByID(id)
  <2>1. phase = "up" /\ victims' = victims
      BY <1>6 DEF DeleteByID
  <2> QED BY <1>up, <2>1
<1>7. CASE UNCHANGED vars
  <2>1. UNCHANGED <<phase, victims, file>>
      BY <1>7 DEF vars, process, storage
  <2> QED BY <2>1 DEF PrunesOldest, Visible, Present
<1> QED BY <1>1, <1>2, <1>3, <1>4, <1>5, <1>6, <1>7 DEF Next

-----------------------------------------------------------------------------
(* What a sender counted *)

\* A sender waits, and its promise holds, while others add reports, send and complete.
LEMMA WaitKeeps ==
    ASSUME TypeOK, NEW s \in Senders, KeepsCounted(s), sender'[s] = sender[s], phase' = phase,
           Sent \subseteq Sent', written \subseteq written',
           \A id \in IDs : \/ file'[id] = file[id]
                           \/ file[id] = None /\ file'[id] \notin written /\ sender[s].pc # "list"
    PROVE  KeepsCounted(s)'
<1> DEFINE r == sender[s]
<1>1. r.todo \subseteq IDs /\ r.known \subseteq Numbers /\ None \notin Numbers
    BY DEF TypeOK, None, Numbers
<1> HIDE DEF r
<1>2. r.known \subseteq written /\ r.known \subseteq written'
    BY DEF KeepsCounted, r
<1>3. r.known \cap Whole' \subseteq r.known \cap Whole
  <2> SUFFICES ASSUME NEW n \in r.known, n \in Whole' PROVE n \in Whole
      OBVIOUS
  <2>1. PICK id \in IDs : file'[id] # None /\ file'[id] = n
      BY DEF Whole, Present
  <2>2. n \in written
      BY <1>2
  <2>3. file[id] = n
      BY <2>1, <2>2
  <2> QED BY <2>1, <2>2, <2>3 DEF Whole, Present
<1>4. At(r.todo) \cap Numbers \subseteq {file'[id] : id \in r.todo}
  <2> SUFFICES ASSUME NEW x \in r.todo, file[x] \in Numbers PROVE file'[x] = file[x]
      BY DEF At
  <2> QED BY <1>1
<1>5. r.pc = "list" => Visible' = Visible
  <2> SUFFICES ASSUME r.pc = "list" PROVE Visible' = Visible
      OBVIOUS
  <2>1. \A id \in IDs : file'[id] = file[id]
      BY DEF r
  <2> QED BY <2>1 DEF Visible, Present
<1>7. /\ r.known \subseteq written
      /\ phase # "up" => r.pc = "idle"
      /\ r.pc = "list" => Visible = {} \/ Cardinality(Visible) = r.count
      /\ r.pc = "read" => r.known \cap Whole \subseteq r.loaded \cup At(r.todo)
      /\ r.pc = "send" => r.known \cap Whole \subseteq r.loaded
      /\ r.pc = "delete" => r.known \cap Whole \subseteq Sent
    BY DEF KeepsCounted, r
<1>8. r.pc = "read" => r.known \cap Whole' \subseteq r.loaded \cup {file'[id] : id \in r.todo}
    BY <1>1, <1>3, <1>4, <1>7
<1>9. r.pc = "send" => r.known \cap Whole' \subseteq r.loaded
    BY <1>3, <1>7
<1>10. r.pc = "delete" => r.known \cap Whole' \subseteq Sent'
    BY <1>3, <1>7
<1>11. r.pc = "list" => Visible' = {} \/ Cardinality(Visible') = r.count
    BY <1>5, <1>7
<1>12. phase' # "up" => r.pc = "idle"
    BY <1>7
<1>13. sender'[s] = r
    BY DEF r
<1> HIDE DEF r
<1> QED BY <1>2, <1>8, <1>9, <1>10, <1>11, <1>12, <1>13, Zenon DEF KeepsCounted, At

\* A sender that counts reads all it counted, in whatever order the directory has it,
\* sends all it read, and deletes only what was accepted.
LEMMA OwnKeeps ==
    ASSUME TypeOK, Ordered, "always" \notin Behaviors, NEW s \in Senders, KeepsCounted(s),
           Count(s) \/ List(s) \/ Read(s) \/ Send(s) \/ DeleteAll(s)
    PROVE  KeepsCounted(s)'
<1>1. /\ sender \in [Senders -> SenderState] /\ sender[s] \in SenderState
      /\ file \in [IDs -> Numbers \cup {None}] /\ sends \in [Numbers -> Nat]
    BY DEF TypeOK, SenderState
<1>2. Visible = Present
    BY AllVisible
<1>3. Whole \subseteq At(Visible) /\ Whole \subseteq written
    BY <1>2 DEF Whole, At
<1>4. CASE Count(s)
  <2>1. /\ phase' = phase /\ file' = file /\ written' = written /\ phase = "up"
        /\ sender' = [sender EXCEPT ![s] = [pc |-> IF Visible = {} THEN "send" ELSE "list",
                                            count |-> Cardinality(Visible), todo |-> {},
                                            loaded |-> {}, known |-> Whole]]
      BY <1>4 DEF Count, AtSender, Step, process, storage
  <2>2. Whole' = Whole /\ Visible' = Visible
      BY <2>1 DEF Whole, Visible, Present
  <2>3. CASE Visible = {}
    <3>1. sender'[s].pc = "send" /\ sender'[s].known = Whole
        BY <1>1, <2>1, <2>3
    <3>2. Whole = {}
        BY <1>3, <2>3 DEF At
    <3> QED BY <2>1, <2>2, <3>1, <3>2 DEF KeepsCounted
  <2>4. CASE Visible # {}
    <3>1. sender'[s].pc = "list" /\ sender'[s].known = Whole /\ sender'[s].count = Cardinality(Visible)
        BY <1>1, <2>1, <2>4
    <3> QED BY <1>3, <2>1, <2>2, <3>1 DEF KeepsCounted
  <2> QED BY <2>3, <2>4
<1>5. CASE List(s)
  <2>1. /\ phase' = phase /\ file' = file /\ written' = written /\ phase = "up" /\ sender[s].pc = "list"
      BY <1>5 DEF List, AtSender, process, storage
  <2>2. Whole' = Whole /\ Visible' = Visible
      BY <2>1 DEF Whole, Visible, Present
  <2>3. PICK S \in SUBSET Visible, low \in 0..sender[s].count :
             /\ Cardinality(S) = IF Cardinality(Visible) < sender[s].count
                                 THEN Cardinality(Visible) ELSE sender[s].count
             /\ low <= sender[s].count - Cardinality(S) /\ low <= Cardinality(S)
             /\ Step(s, [sender[s] EXCEPT !.pc = "read", !.todo = Smallest(S, Cardinality(S) - low)])
      BY <1>5 DEF List
  <2> DEFINE T == Smallest(S, Cardinality(S) - low)
  <2>4. Whole \subseteq At(T)
    <3>1. CASE Visible = {}
        BY <1>3, <3>1 DEF At
    <3>2. CASE Visible # {}
      <4>1. Cardinality(Visible) = sender[s].count /\ Cardinality(Visible) \in Nat
          BY <2>1, <3>2, VisibleIsFinite DEF KeepsCounted
      <4>2. Cardinality(S) = Cardinality(Visible)
          BY <2>3, <4>1
      <4>3. IsFiniteSet(Visible)
        <5>1. IsFiniteSet(IDs)
            BY RingSize, FS_Interval DEF IDs
        <5> QED BY <5>1, VisibleIsFinite, FS_Subset
      <4>4. S = Visible
          BY <4>2, <4>3, FS_Subset
      <4>5. low = 0
          BY <2>3, <4>1, <4>2
      <4>6. T = Visible
        <5>1. Cardinality(S) - low = Cardinality(Visible)
            BY <4>1, <4>4, <4>5
        <5>2. Visible \in SUBSET IDs
            BY VisibleIsFinite
        <5> QED BY <4>4, <5>1, <5>2, SmallestIsAll
      <4> HIDE DEF T
      <4> QED BY <1>3, <4>6
    <3> QED BY <3>1, <3>2
  <2>5. sender' = [sender EXCEPT ![s] = [sender[s] EXCEPT !.pc = "read", !.todo = T]]
      BY <2>3 DEF Step
  <2> HIDE DEF T
  <2>6. sender'[s].pc = "read" /\ sender'[s].known = sender[s].known /\ sender'[s].todo = T
      BY <1>1, <2>5 DEF SenderState
  <2>7. At(T) = {file'[id] : id \in sender'[s].todo}
      BY <2>1, <2>6 DEF At
  <2>8. sender[s].known \subseteq written
      BY DEF KeepsCounted
  <2> QED BY <2>1, <2>2, <2>4, <2>6, <2>7, <2>8 DEF KeepsCounted, At
<1>6. CASE Read(s)
  <2>1. /\ phase' = phase /\ file' = file /\ written' = written /\ phase = "up" /\ sender[s].pc = "read"
      BY <1>6 DEF Read, AtSender, process, storage
  <2>2. Whole' = Whole
      BY <2>1 DEF Whole, Present
  <2>3. /\ sender[s].known \subseteq written
        /\ sender[s].known \cap Whole \subseteq sender[s].loaded \cup At(sender[s].todo)
      BY <2>1 DEF KeepsCounted
  <2>4. CASE sender[s].todo = {}
    <3>1. sender' = [sender EXCEPT ![s] = [sender[s] EXCEPT !.pc = "send"]]
        BY <1>6, <2>4 DEF Read, Step
    <3>2. /\ sender'[s].pc = "send" /\ sender'[s].known = sender[s].known
          /\ sender'[s].loaded = sender[s].loaded
        BY <1>1, <3>1 DEF SenderState
    <3>3. sender[s].known \cap Whole \subseteq sender[s].loaded
        BY <2>3, <2>4 DEF At
    <3> QED BY <2>1, <2>2, <2>3, <3>2, <3>3 DEF KeepsCounted
  <2>5. CASE sender[s].todo # {}
    <3> DEFINE o == Oldest(sender[s].todo)
               more == sender[s].loaded \cup Loads(o)
               rest == sender[s].todo \ {o}
    <3>1. sender' = [sender EXCEPT ![s] = [sender[s] EXCEPT !.loaded = more, !.todo = rest]]
        BY <1>6, <2>5, Zenon DEF Read, Step
    <3>2. sender[s].known \cap Whole \subseteq more \cup {file[id] : id \in rest}
        BY <1>3, <2>3 DEF At, Loads
    <3> HIDE DEF more, rest, o
    <3>3. /\ sender'[s].pc = "read" /\ sender'[s].known = sender[s].known
          /\ sender'[s].loaded = more /\ sender'[s].todo = rest
        BY <1>1, <2>1, <3>1 DEF SenderState
    <3>4. sender'[s].known \cap Whole' \subseteq sender'[s].loaded \cup {file'[id] : id \in sender'[s].todo}
        BY <2>1, <2>2, <3>2, <3>3
    <3> QED BY <2>1, <2>3, <3>3, <3>4 DEF KeepsCounted, At
  <2> QED BY <2>4, <2>5
<1>7. CASE Send(s)
  <2>1. /\ phase' = phase /\ file' = file /\ written' = written /\ phase = "up" /\ sender[s].pc = "send"
      BY <1>7 DEF Send, AtSender, process, storage
  <2>2. Whole' = Whole
      BY <2>1 DEF Whole, Present
  <2>3. /\ sender[s].known \subseteq written /\ sender[s].known \cap Whole \subseteq sender[s].loaded
        /\ sender[s].loaded \subseteq Numbers
      BY <1>1, <2>1 DEF KeepsCounted, SenderState
  <2>4. PICK behavior \in Behaviors, ok \in BOOLEAN :
             /\ sends' = [n \in Numbers |-> IF ok /\ n \in sender[s].loaded THEN sends[n] + 1 ELSE sends[n]]
             /\ Step(s, IF DeletesAfter(ok, behavior) THEN [sender[s] EXCEPT !.pc = "delete"] ELSE SenderIdle)
      BY <1>7 DEF Send
  <2>5. CASE DeletesAfter(ok, behavior)
    <3>1. ok
        BY <2>5 DEF DeletesAfter
    <3>2. sender'[s].pc = "delete" /\ sender'[s].known = sender[s].known
        BY <1>1, <2>4, <2>5 DEF Step, SenderState
    <3>3. sender[s].loaded \subseteq Sent'
        BY <1>1, <2>3, <2>4, <3>1 DEF Sent
    <3>4. sender'[s].known \cap Whole' \subseteq Sent'
        BY <2>2, <2>3, <3>2, <3>3
    <3> QED BY <2>1, <2>3, <3>2, <3>4 DEF KeepsCounted
  <2>6. CASE ~DeletesAfter(ok, behavior)
    <3>1. sender'[s] = SenderIdle
        BY <1>1, <2>4, <2>6 DEF Step
    <3> QED BY <3>1 DEF KeepsCounted, SenderIdle
  <2> QED BY <2>5, <2>6
<1>8. CASE DeleteAll(s)
  <2>1. sender'[s] = SenderIdle
      BY <1>1, <1>8 DEF DeleteAll, Step
  <2> QED BY <2>1 DEF KeepsCounted, SenderIdle
<1> QED BY <1>4, <1>5, <1>6, <1>7, <1>8

LEMMA KeepsInit == ASSUME NEW s \in Senders PROVE Init => KeepsCounted(s)
BY DEF Init, KeepsCounted, SenderIdle

LEMMA KeepsStep ==
    ASSUME OneRound, ~AddsWhileListing, ~DeletesByID, "always" \notin Behaviors, NEW s \in Senders
    PROVE  TypeOK /\ Numbered /\ Apart /\ Ordered /\ KeepsCounted(s) /\ [Next]_vars => KeepsCounted(s)'
<1> SUFFICES ASSUME TypeOK, Numbered, Apart, Ordered, KeepsCounted(s), [Next]_vars
             PROVE  KeepsCounted(s)'
    OBVIOUS
<1>0. /\ sender \in [Senders -> SenderState] /\ file \in [IDs -> Numbers \cup {None}]
      /\ sends \in [Numbers -> Nat] /\ writer \in [Writers -> WriterState]
    BY DEF TypeOK, SenderState, WriterState
<1>1. CASE Launch \/ Prune \/ Initialized
  <2>1. phase # "up" /\ sender' = sender /\ written' = written
      BY <1>1 DEF Launch, Prune, Initialized, storage
  <2>2. sender[s].pc = "idle" /\ sender[s].known \subseteq written
      BY <2>1 DEF KeepsCounted
  <2> QED BY <2>1, <2>2 DEF KeepsCounted
<1>2. CASE Exit
  <2>1. sender'[s] = SenderIdle
      BY <1>2 DEF Exit
  <2> QED BY <2>1 DEF KeepsCounted, SenderIdle
<1>3. CASE \E w \in Writers : BeginReport(w) \/ CloseReport(w) \/ CloseUserReport(w)
  <2>1. PICK w \in Writers : BeginReport(w) \/ CloseReport(w) \/ CloseUserReport(w)
      BY <1>3
  <2>2. UNCHANGED <<phase, file, sender, sends>>
      BY <2>1 DEF BeginReport, CloseReport, CloseUserReport, process, storage, history
  <2>3. written \subseteq written'
      BY <2>1 DEF BeginReport, CloseReport, CloseUserReport, Completes, storage
  <2>4. Sent \subseteq Sent'
      BY <2>2 DEF Sent
  <2> QED BY <2>2, <2>3, <2>4, WaitKeeps
<1>4. CASE \E w \in Writers : OpenReport(w)
  <2>1. PICK w \in Writers : OpenReport(w)
      BY <1>4
  <2>2. UNCHANGED <<phase, sender, sends, written>> /\ sender[s].pc # "list"
      BY <2>1 DEF OpenReport, process, history, MayAdd
  <2>3. /\ file' = [file EXCEPT ![writer[w].id] = writer[w].num]
        /\ file[writer[w].id] = None /\ Busy(w)
      BY <2>1 DEF OpenReport, MayCreate, Apart, Busy
  <2>4. writer[w].num \notin written
      BY <2>3 DEF Numbered
  <2>5. \A id \in IDs : file'[id] = file[id] \/ (file[id] = None /\ file'[id] \notin written)
      BY <1>0, <2>3, <2>4
  <2>6. Sent \subseteq Sent' /\ written \subseteq written'
      BY <2>2 DEF Sent
  <2> QED BY <2>2, <2>5, <2>6, WaitKeeps
<1>5. CASE \E w \in Writers : AddUserReport(w)
  <2>1. PICK w \in Writers : AddUserReport(w)
      BY <1>5
  <2>2. UNCHANGED <<phase, sender, sends, written>> /\ sender[s].pc # "list"
      BY <2>1 DEF AddUserReport, MayAdd, history
  <2>3. file' = [file EXCEPT ![nextID] = born + 1] /\ phase = "up" /\ born < MaxReports
      BY <2>1 DEF AddUserReport, MayBegin
  <2>4. file[nextID] = None
    <3>1. /\ nextID \in Slot(clock) /\ \A id \in Fresh : file[id] = None
        BY <2>3, Zenon DEF Apart
    <3>2. nextID \in Nat
        BY <3>1, RingSize DEF Slot, IDs
    <3>3. nextID >= nextID
        BY <3>2
    <3> QED BY <3>1, <3>3, Zenon DEF Fresh
  <2>5. born + 1 \notin written
    <3>1. born \in Nat
        BY StoreAssumption DEF TypeOK
    <3> QED BY <3>1 DEF Numbered
  <2>6. \A id \in IDs : file'[id] = file[id] \/ (file[id] = None /\ file'[id] \notin written)
      BY <1>0, <2>3, <2>4, <2>5
  <2>7. Sent \subseteq Sent' /\ written \subseteq written'
      BY <2>2 DEF Sent
  <2> QED BY <2>2, <2>6, <2>7, WaitKeeps
<1>6. CASE Count(s) \/ List(s) \/ Read(s) \/ Send(s) \/ DeleteAll(s)
    BY <1>6, OwnKeeps
<1>7. CASE \E t \in Senders \ {s} : Count(t) \/ List(t) \/ Read(t) \/ Send(t)
  <2>1. PICK t \in Senders \ {s} : Count(t) \/ List(t) \/ Read(t) \/ Send(t)
      BY <1>7
  <2>2. UNCHANGED <<phase, file, written>>
      BY <2>1 DEF Count, List, Read, Send, process, storage
  <2>3. PICK r : sender' = [sender EXCEPT ![t] = r]
    <3>1. CASE Count(t)
        BY <3>1, Zenon DEF Count, Step
    <3>2. CASE List(t)
        BY <3>2, Zenon DEF List, Step
    <3>3. CASE Read(t)
        BY <3>3, Zenon DEF Read, Step
    <3>4. CASE Send(t)
        BY <3>4, Zenon DEF Send, Step
    <3> QED BY <2>1, <3>1, <3>2, <3>3, <3>4
  <2>4. sender'[s] = sender[s]
      BY <1>0, <2>3
  <2>5. Sent \subseteq Sent'
    <3>1. \A n \in Numbers : sends'[n] = sends[n] \/ sends'[n] = sends[n] + 1
        BY <1>0, <2>1 DEF Count, List, Read, Send, history
    <3> QED BY <1>0, <3>1 DEF Sent
  <2> QED BY <2>2, <2>4, <2>5, WaitKeeps
<1>8. CASE \E t \in Senders \ {s} : DeleteAll(t)
  <2>1. PICK t \in Senders \ {s} : DeleteAll(t)
      BY <1>8
  <2>2. /\ UNCHANGED <<phase, written>> /\ \A id \in IDs : file'[id] = None
        /\ sender' = [sender EXCEPT ![t] = SenderIdle]
      BY <2>1 DEF DeleteAll, Emptied, Step, process
  <2>3. sender'[s] = sender[s] /\ Visible' = {} /\ Whole' = {}
      BY <1>0, <2>2 DEF Visible, Present, Whole
  <2> QED BY <2>2, <2>3 DEF KeepsCounted
<1>9. CASE \E id \in IDs : DeleteByID(id)
    BY <1>9 DEF DeleteByID
<1>10. CASE UNCHANGED vars
  <2>1. UNCHANGED <<phase, file, sender, sends, written>>
      BY <1>10 DEF vars, process, storage, history
  <2>2. Sent \subseteq Sent' /\ written \subseteq written'
      BY <2>1 DEF Sent
  <2> QED BY <2>1, <2>2, WaitKeeps
<1> QED BY <1>1, <1>2, <1>3, <1>4, <1>5, <1>6, <1>7, <1>8, <1>9, <1>10 DEF Next

-----------------------------------------------------------------------------
(* Every step is one of the box *)

Known == [s \in Senders |-> sender[s].known]

\* What of its four variables a step of the box changes.
LEMMA BoxSteps ==
    /\ UNCHANGED <<Whole, written, Known, Sent>> => [Box!Next]_(Box!boxVars)
    /\ (\E n \in Numbers \ written : Whole' = Whole \cup {n} /\ written' = written \cup {n})
          /\ UNCHANGED <<Known, Sent>> => [Box!Next]_(Box!boxVars)
    /\ (\E n \in Whole : (\A m \in Whole : n <= m) /\ Whole' = Whole \ {n})
          /\ UNCHANGED <<written, Known, Sent>> => [Box!Next]_(Box!boxVars)
    /\ Known' = [s \in Senders |-> {}] /\ UNCHANGED <<Whole, written, Sent>> => [Box!Next]_(Box!boxVars)
    /\ \A s \in Senders :
         /\ Known' = [Known EXCEPT ![s] = Whole] /\ UNCHANGED <<Whole, written, Sent>>
               => [Box!Next]_(Box!boxVars)
         /\ (\E S \in SUBSET written : Known[s] \cap Whole \subseteq S /\ Sent' = Sent \cup S)
               /\ Known' \in {Known, [Known EXCEPT ![s] = {}]} /\ UNCHANGED <<Whole, written>>
               => [Box!Next]_(Box!boxVars)
         /\ Known' = [Known EXCEPT ![s] = {}] /\ UNCHANGED <<Whole, written, Sent>>
               => [Box!Next]_(Box!boxVars)
         /\ Known[s] \cap Whole \subseteq Sent /\ Whole' = {} /\ Known' = [Known EXCEPT ![s] = {}]
               /\ UNCHANGED <<written, Sent>> => [Box!Next]_(Box!boxVars)
BY DEF Box!Next, Box!boxVars, Box!Put, Box!Expire, Box!Restart, Box!Count, Box!Send, Box!GiveUp, Box!Clear,
       Known, Sent

LEMMA BoxStep ==
    ASSUME OneRound, MaxReports <= PerSlot, ~DeletesByID, "always" \notin Behaviors,
           TypeOK, Numbered, Apart, Ordered, PrunesOldest, \A s \in Senders : KeepsCounted(s),
           [Next]_vars
    PROVE  [Box!Next]_(Box!boxVars)
<1>0. /\ sender \in [Senders -> SenderState] /\ file \in [IDs -> Numbers \cup {None}]
      /\ sends \in [Numbers -> Nat] /\ writer \in [Writers -> WriterState]
      /\ written \subseteq Numbers /\ WriterIdle.pc = "idle" /\ SenderIdle.known = {}
    BY DEF TypeOK, SenderState, WriterState, WriterIdle, SenderIdle
<1>idle. SenderIdle \in SenderState
    BY ZeroIsID DEF SenderIdle, SenderState
<1>same. ASSUME UNCHANGED <<file, written, sender, sends>> PROVE [Box!Next]_(Box!boxVars)
  <2>1. UNCHANGED <<Whole, written, Known, Sent>>
      BY <1>same DEF Whole, Present, Known, Sent
  <2> QED BY <2>1, BoxSteps
<1>1. CASE Launch \/ Initialized \/ UNCHANGED vars
  <2>1. UNCHANGED <<file, written, sender, sends>>
      BY <1>1 DEF Launch, Initialized, vars, storage, history
  <2> QED BY <2>1, <1>same
<1>2. CASE Prune
  <2> DEFINE o == Oldest(victims)
  <2>1. /\ victims # {} /\ file' = [file EXCEPT ![o] = None] /\ UNCHANGED <<written, sender, sends>>
      BY <1>2 DEF Prune, history
  <2>2. victims \subseteq Visible /\ Visible = Present /\ Present \subseteq IDs
      BY AllVisible DEF PrunesOldest, Present
  <2>3. o \in victims /\ \A x \in victims : ~(x < o)
    <3>1. victims \in SUBSET IDs
        BY <2>2
    <3> QED BY <2>1, <3>1, OldestIsSmallest
  <2> HIDE DEF o
  <2>4. \A j \in Present : j = o \/ o < j
    <3>1. \A j \in Present : ~(j < o)
        BY <2>2, <2>3 DEF PrunesOldest
    <3>2. IDs \subseteq Nat
        BY RingSize DEF IDs
    <3> QED BY <2>2, <2>3, <3>1, <3>2
  <2>5. o \in Present /\ file[o] \in Numbers /\ o \in IDs
      BY <1>0, <2>2, <2>3 DEF Present
  <2>6. Present' = Present \ {o} /\ \A j \in Present' : file'[j] = file[j] /\ file[j] # file[o]
    <3>1. Present' = Present \ {o} /\ \A j \in Present' : file'[j] = file[j]
        BY <1>0, <2>1, <2>5 DEF Present
    <3>2. \A i, j \in Present : file[i] = file[j] => i = j
        BY AllVisible
    <3> QED BY <2>5, <3>1, <3>2
  <2>7. Whole' = Whole \ {file[o]}
      BY <2>1, <2>5, <2>6 DEF Whole
  <2>8. UNCHANGED <<Known, Sent>>
      BY <2>1 DEF Known, Sent
  <2>9. CASE file[o] \in written
    <3>1. file[o] \in Whole
        BY <2>5, <2>9 DEF Whole
    <3>2. \A m \in Whole : file[o] <= m
      <4> SUFFICES ASSUME NEW j \in Present PROVE file[o] <= file[j]
          BY DEF Whole
      <4>1. file[o] \in Nat /\ file[j] \in Nat
          BY <1>0, <2>5 DEF Present, Numbers
      <4>2. j = o \/ file[o] < file[j]
          BY <2>4, <2>5, AllVisible
      <4> QED BY <4>1, <4>2
    <3> QED BY <2>1, <2>7, <2>8, <3>1, <3>2, BoxSteps
  <2>10. CASE file[o] \notin written
    <3>1. Whole' = Whole
        BY <2>7, <2>10 DEF Whole
    <3> QED BY <2>1, <2>8, <3>1, BoxSteps
  <2> QED BY <2>9, <2>10
<1>3. CASE Exit
  <2>1. UNCHANGED <<file, written, sends>> /\ sender' = [s \in Senders |-> SenderIdle]
      BY <1>3 DEF Exit, history
  <2>2. UNCHANGED <<Whole, written, Sent>> /\ Known' = [s \in Senders |-> {}]
      BY <1>0, <2>1 DEF Whole, Present, Known, Sent
  <2> QED BY <2>2, BoxSteps
<1>4. CASE \E w \in Writers : BeginReport(w)
  <2>1. UNCHANGED <<file, written, sender, sends>>
      BY <1>4 DEF BeginReport, storage, history
  <2> QED BY <2>1, <1>same
<1>new. ASSUME NEW id \in IDs, NEW n, file[id] = None, n \notin written, file' = [file EXCEPT ![id] = n],
               UNCHANGED <<written, sender, sends>>
        PROVE  [Box!Next]_(Box!boxVars)
  <2>1. \A j \in IDs : IF j = id THEN file'[j] = n ELSE file'[j] = file[j]
      BY <1>0, <1>new
  <2>2. Whole' = Whole
    <3>1. \A m \in written : (\E j \in IDs : file'[j] # None /\ file'[j] = m) <=> (\E j \in IDs : file[j] # None /\ file[j] = m)
        BY <1>new, <2>1
    <3> QED BY <1>new, <3>1 DEF Whole, Present
  <2>3. UNCHANGED <<written, Known, Sent>>
      BY <1>new DEF Known, Sent
  <2> QED BY <2>2, <2>3, BoxSteps
<1>5. CASE \E w \in Writers : OpenReport(w)
  <2>1. PICK w \in Writers : OpenReport(w)
      BY <1>5
  <2>2. UNCHANGED <<written, sender, sends>> /\ Busy(w)
      BY <2>1 DEF OpenReport, history, Busy
  <2>3. file' = [file EXCEPT ![writer[w].id] = writer[w].num] /\ file[writer[w].id] = None
      BY <2>1 DEF OpenReport, MayCreate, Apart
  <2>4. writer[w].num \notin written /\ writer[w].id \in IDs
      BY <1>0, <2>2 DEF Numbered, WriterState
  <2> QED BY <1>new, <2>2, <2>3, <2>4
<1>6. CASE \E w \in Writers : AddUserReport(w)
  <2>1. PICK w \in Writers : AddUserReport(w)
      BY <1>6
  <2>2. /\ UNCHANGED <<written, sender, sends>> /\ file' = [file EXCEPT ![nextID] = born + 1]
        /\ phase = "up" /\ born < MaxReports
      BY <2>1 DEF AddUserReport, MayBegin, history
  <2>3. nextID \in IDs /\ file[nextID] = None
    <3>1. nextID \in Slot(clock) /\ \A id \in Fresh : file[id] = None
        BY <2>2, Zenon DEF Apart
    <3>2. nextID \in Nat /\ nextID \in IDs
        BY <3>1, RingSize DEF Slot, IDs
    <3>3. nextID >= nextID
        BY <3>2
    <3> QED BY <3>1, <3>2, <3>3, Zenon DEF Fresh
  <2>4. born + 1 \notin written
    <3>1. born \in Nat
        BY StoreAssumption DEF TypeOK
    <3> QED BY <3>1 DEF Numbered
  <2> QED BY <1>new, <2>2, <2>3, <2>4
<1>7. CASE \E w \in Writers : CloseReport(w) \/ CloseUserReport(w)
  <2>1. PICK w \in Writers : CloseReport(w) \/ CloseUserReport(w)
      BY <1>7
  <2>2. UNCHANGED <<file, sender, sends>> /\ (Completes(writer[w]) \/ UNCHANGED written) /\ Busy(w)
      BY <2>1 DEF CloseReport, CloseUserReport, Busy, history
  <2>3. UNCHANGED <<Known, Sent>>
      BY <2>2 DEF Known, Sent
  <2>4. writer[w].num \notin written /\ writer[w].num \in Nat /\ writer[w].num # None /\ writer[w].id \in IDs
      BY <1>0, <2>2, StoreAssumption DEF Numbered, WriterState, None, TypeOK
  <2>5. CASE file[writer[w].id] = writer[w].num /\ written' # written
    <3>1. written' = written \cup {writer[w].num}
        BY <2>2, <2>5 DEF Completes
    <3>2. writer[w].num \in {file[id] : id \in Present} /\ writer[w].num \in Numbers
        BY <1>0, <2>4, <2>5 DEF Present
    <3>3. Whole' = Whole \cup {writer[w].num}
        BY <2>2, <3>1, <3>2 DEF Whole, Present
    <3> QED BY <2>3, <2>4, <3>1, <3>2, <3>3, BoxSteps
  <2>6. CASE file[writer[w].id] # writer[w].num \/ written' = written
    <3>1. UNCHANGED <<file, written, sender, sends>>
        BY <2>2, <2>6 DEF Completes
    <3> QED BY <3>1, <1>same
  <2> QED BY <2>5, <2>6
<1>8. ASSUME NEW s \in Senders, Count(s) PROVE [Box!Next]_(Box!boxVars)
  <2> DEFINE r == [pc |-> IF Visible = {} THEN "send" ELSE "list", count |-> Cardinality(Visible),
                   todo |-> {}, loaded |-> {}, known |-> Whole]
  <2>1. UNCHANGED <<file, written, sends>> /\ sender' = [sender EXCEPT ![s] = r]
      BY <1>8 DEF Count, Step, storage, history
  <2>2. r.known = Whole
      OBVIOUS
  <2> HIDE DEF r
  <2>3. Known' = [Known EXCEPT ![s] = Whole]
      BY <1>0, <2>1, <2>2 DEF Known
  <2>4. UNCHANGED <<Whole, written, Sent>>
      BY <2>1 DEF Whole, Present, Sent
  <2> QED BY <2>3, <2>4, BoxSteps
<1>9. ASSUME NEW s \in Senders, List(s) \/ Read(s) PROVE [Box!Next]_(Box!boxVars)
  <2>1. UNCHANGED <<file, written, sends>>
      BY <1>9 DEF List, Read, storage, history
  <2>2. PICK r : sender' = [sender EXCEPT ![s] = r] /\ r.known = sender[s].known
    <3>1. CASE List(s)
      <4>1. PICK T : sender' = [sender EXCEPT ![s] = [sender[s] EXCEPT !.pc = "read", !.todo = T]]
          BY <3>1 DEF List, Step
      <4>2. [sender[s] EXCEPT !.pc = "read", !.todo = T].known = sender[s].known
          BY <1>0 DEF SenderState
      <4> QED BY <4>1, <4>2
    <3>2. CASE Read(s)
      <4>1. CASE sender[s].todo = {}
        <5>1. sender' = [sender EXCEPT ![s] = [sender[s] EXCEPT !.pc = "send"]]
            BY <3>2, <4>1 DEF Read, Step
        <5>2. [sender[s] EXCEPT !.pc = "send"].known = sender[s].known
            BY <1>0 DEF SenderState
        <5> QED BY <5>1, <5>2
      <4>2. CASE sender[s].todo # {}
        <5> DEFINE more == sender[s].loaded \cup Loads(Oldest(sender[s].todo))
                   rest == sender[s].todo \ {Oldest(sender[s].todo)}
        <5>1. sender' = [sender EXCEPT ![s] = [sender[s] EXCEPT !.loaded = more, !.todo = rest]]
            BY <3>2, <4>2, Zenon DEF Read, Step
        <5> HIDE DEF more, rest
        <5>2. [sender[s] EXCEPT !.loaded = more, !.todo = rest].known = sender[s].known
            BY <1>0 DEF SenderState
        <5> QED BY <5>1, <5>2
      <4> QED BY <4>1, <4>2
    <3> QED BY <1>9, <3>1, <3>2
  <2>3. Known' = Known
      BY <1>0, <2>2 DEF Known
  <2>4. UNCHANGED <<Whole, written, Sent>>
      BY <2>1 DEF Whole, Present, Sent
  <2> QED BY <2>3, <2>4, BoxSteps
<1>10. ASSUME NEW s \in Senders, Send(s) PROVE [Box!Next]_(Box!boxVars)
  <2>1. UNCHANGED <<file, written>> /\ sender[s].pc = "send"
      BY <1>10 DEF Send, AtSender, storage
  <2>2. PICK behavior \in Behaviors, ok \in BOOLEAN :
             /\ sends' = [n \in Numbers |-> IF ok /\ n \in sender[s].loaded THEN sends[n] + 1 ELSE sends[n]]
             /\ Step(s, IF DeletesAfter(ok, behavior) THEN [sender[s] EXCEPT !.pc = "delete"] ELSE SenderIdle)
      BY <1>10 DEF Send
  <2>3. /\ sender[s].known \cap Whole \subseteq sender[s].loaded
        /\ sender[s].loaded \subseteq written /\ sender[s].loaded \subseteq Numbers
      BY <1>0, <2>1 DEF KeepsCounted, Numbered
  <2>4. UNCHANGED <<Whole, written>> /\ Known[s] = sender[s].known
      BY <2>1 DEF Whole, Present, Known
  <2>5. Known' \in {Known, [Known EXCEPT ![s] = {}]} /\ (~ok => Known' = [Known EXCEPT ![s] = {}])
    <3>1. CASE DeletesAfter(ok, behavior)
      <4>1. ok
          BY <3>1 DEF DeletesAfter
      <4>2. sender' = [sender EXCEPT ![s] = [sender[s] EXCEPT !.pc = "delete"]]
          BY <2>2, <3>1 DEF Step
      <4>3. [sender[s] EXCEPT !.pc = "delete"].known = sender[s].known
          BY <1>0 DEF SenderState
      <4>4. Known' = Known
          BY <1>0, <4>2, <4>3 DEF Known
      <4> QED BY <4>1, <4>4
    <3>2. CASE ~DeletesAfter(ok, behavior)
      <4>1. sender' = [sender EXCEPT ![s] = SenderIdle]
          BY <2>2, <3>2 DEF Step
      <4>2. Known' = [Known EXCEPT ![s] = {}]
          BY <1>0, <4>1 DEF Known
      <4> QED BY <4>2
    <3> QED BY <3>1, <3>2
  <2>6. CASE ok
    <3>1. Sent' = Sent \cup sender[s].loaded
        BY <1>0, <2>2, <2>3, <2>6 DEF Sent
    <3> QED BY <2>3, <2>4, <2>5, <3>1, BoxSteps
  <2>7. CASE ~ok
    <3>1. Sent' = Sent
        BY <1>0, <2>2, <2>7 DEF Sent
    <3> QED BY <2>4, <2>5, <2>7, <3>1, BoxSteps
  <2> QED BY <2>6, <2>7
<1>11. ASSUME NEW s \in Senders, DeleteAll(s) PROVE [Box!Next]_(Box!boxVars)
  <2>1. /\ UNCHANGED <<written, sends>> /\ sender[s].pc = "delete" /\ \A id \in IDs : file'[id] = None
        /\ sender' = [sender EXCEPT ![s] = SenderIdle]
      BY <1>11 DEF DeleteAll, Emptied, AtSender, Step, history
  <2>2. Whole' = {} /\ Sent' = Sent
      BY <2>1 DEF Whole, Present, Sent
  <2>3. Known' = [Known EXCEPT ![s] = {}] /\ Known[s] = sender[s].known
      BY <1>0, <2>1 DEF Known
  <2>4. sender[s].known \cap Whole \subseteq Sent
      BY <2>1 DEF KeepsCounted
  <2> QED BY <2>1, <2>2, <2>3, <2>4, BoxSteps
<1>12. CASE \E id \in IDs : DeleteByID(id)
    BY <1>12 DEF DeleteByID
<1> QED BY <1>1, <1>2, <1>3, <1>4, <1>5, <1>6, <1>7, <1>8, <1>9, <1>10, <1>11, <1>12 DEF Next

\* The store implements the box that its users expect, for any recording threads and
\* senders, refusals, prunings and exits: whoever deletes has sent every report it
\* counted, only the oldest reports expire, and none enters twice.  It takes launches
\* within one round of the ring, a sink that must accept before reports are deleted, no
\* deletion by ID, and no file that appears between a sender's count and its listing.
THEOREM ImplementsBox ==
    ASSUME OneRound, MaxReports <= PerSlot, ~AddsWhileListing, ~DeletesByID,
           "always" \notin Behaviors
    PROVE  Spec => IsReportBox
<1> DEFINE Kept == \A s \in Senders : KeepsCounted(s)
<1>1. LastClock - FirstClock < Slots
  <2>1. FirstClock \in Clocks
      BY StoreAssumption DEF Clocks
  <2> QED BY <2>1, ClockSlot
<1>2. Init => Box!Init
    BY DEF Init, Box!Init, Whole, Present, SenderIdle
<1>3. Init => Kept
    BY KeepsInit
<1>4. TypeOK /\ Numbered /\ Apart /\ Ordered /\ Kept /\ [Next]_vars => Kept'
    BY KeepsStep
<1>5. TypeOK /\ Numbered /\ Placed /\ [Next]_vars => Placed'
    BY PlacedStep
<1>8. TypeOK /\ Placed => Apart
    BY <1>1, ApartIs
<1>6. TypeOK /\ Apart /\ Ordered /\ [Next]_vars => Ordered'
    BY OrderedStep
<1>7. TypeOK /\ Numbered /\ Apart /\ Ordered /\ PrunesOldest /\ Kept /\ [Next]_vars => [Box!Next]_(Box!boxVars)
    BY BoxStep
<1> HIDE DEF Kept
<1> QED BY <1>2, <1>3, <1>4, <1>5, <1>6, <1>7, <1>8, TypeInit, TypeStep, NumberedInit, NumberedStep, PlacedInit,
           OrderedInit, PrunesInit, PrunesStep, PTL DEF Spec, IsReportBox, Box!Spec
-----------------------------------------------------------------------------
(* The cap *)

\* The first k of at least k IDs are at least k: a smallest k of which they are not
\* would make room for the oldest of the rest.
LEMMA SmallestAreMany ==
    ASSUME NEW S \in SUBSET IDs, NEW k \in Nat, k <= Cardinality(S)
    PROVE  k <= Cardinality(Smallest(S, k))
<1>0. IsFiniteSet(S) /\ S \subseteq Nat /\ Cardinality(S) \in Nat
  <2>1. IDs \subseteq Nat
      BY DEF IDs
  <2>2. IsFiniteSet(IDs)
      BY RingSize, FS_Interval DEF IDs
  <2> QED BY <2>1, <2>2, FS_Subset, FS_CardinalityType
<1> DEFINE size(j) == Cardinality(Smallest(S, j))
           few == {j \in Nat : j <= Cardinality(S) /\ ~(j <= size(j))}
<1>1. \A j \in Nat : /\ Smallest(S, j) \subseteq S /\ IsFiniteSet(Smallest(S, j)) /\ size(j) \in Nat
  <2> TAKE j \in Nat
  <2>1. Smallest(S, j) \subseteq S
      BY DEF Smallest
  <2>2. IsFiniteSet(Smallest(S, j))
      BY <1>0, <2>1, FS_Subset
  <2>3. size(j) \in Nat
      BY <2>2, FS_CardinalityType
  <2> QED BY <2>1, <2>2, <2>3
<1> HIDE DEF size
<1> SUFFICES ASSUME few # {} PROVE FALSE
  <2>1. ASSUME few = {} PROVE k <= size(k)
      BY <2>1
  <2> QED BY <2>1 DEF size
<1>2. PICK j \in few : \A i \in few : ~(i < j)
  <2>1. few \subseteq Nat /\ few \subseteq 0 .. Cardinality(S)
      BY <1>0
  <2>2. IsFiniteSet(0 .. Cardinality(S))
      BY <1>0, FS_Interval
  <2>3. IsFiniteSet(few)
    <3> HIDE DEF few
    <3> QED BY <2>1, <2>2, FS_Subset
  <2> HIDE DEF few
  <2> QED BY <2>1, <2>3, LeastOfFinite
<1>3. j \in Nat /\ j <= Cardinality(S) /\ size(j) < j
    BY <1>1
<1>4. j # 0
    BY <1>1, <1>3
<1> DEFINE h == j - 1
<1>5. h \in Nat /\ h < j /\ h + 1 = j /\ h <= Cardinality(S)
    BY <1>0, <1>3, <1>4
<1>6. h \notin few
    BY <1>2, <1>5
<1>7. h <= size(h)
    BY <1>5, <1>6
<1> HIDE DEF few, h
<1> DEFINE A == Smallest(S, h)
           B == Smallest(S, j)
<1>8. A \subseteq B
  <2>1. \A id \in S : Rank(S, id) \in Nat
    <3> SUFFICES ASSUME NEW id \in S PROVE Cardinality({x \in S : x < id}) \in Nat
        BY DEF Rank
    <3>1. {x \in S : x < id} \subseteq S
        OBVIOUS
    <3> QED BY <1>0, <3>1, FS_Subset, FS_CardinalityType
  <2> QED BY <1>3, <1>5, <2>1 DEF Smallest
<1>9. A \subseteq S /\ B \subseteq S /\ IsFiniteSet(A) /\ IsFiniteSet(B)
      /\ Cardinality(A) = size(h) /\ Cardinality(B) = size(j) /\ size(h) \in Nat /\ size(j) \in Nat
    BY <1>1, <1>3, <1>5 DEF size
<1>10. \A id \in S : Rank(S, id) < j => id \in B
    BY DEF Smallest
<1>11. \A id \in A : id \in S
    BY <1>9
<1> HIDE DEF A, B
<1>12. size(h) <= size(j)
    BY <1>8, <1>9, FS_Subset
<1>13. size(h) = h /\ size(j) = h
    BY <1>3, <1>5, <1>7, <1>9, <1>12
<1>14. S \ A # {}
  <2> SUFFICES ASSUME S = A PROVE FALSE
      BY <1>9
  <2> QED BY <1>3, <1>5, <1>9, <1>13
<1> DEFINE o == Oldest(S \ A)
<1>15. o \in S \ A /\ \A x \in S \ A : ~(x < o)
  <2>1. S \ A \in SUBSET IDs
      OBVIOUS
  <2> QED BY <1>14, <2>1, OldestIsSmallest
<1> HIDE DEF o
<1>16. Rank(S, o) <= size(h)
  <2> DEFINE below == {x \in S : x < o}
  <2>1. below \subseteq A
      BY <1>15
  <2>2. Rank(S, o) = Cardinality(below)
      BY DEF Rank
  <2> HIDE DEF below
  <2> QED BY <1>9, <2>1, <2>2, FS_Subset
<1>17. Rank(S, o) < j
  <2>1. Rank(S, o) \in Nat
    <3> DEFINE below == {x \in S : x < o}
    <3>1. below \subseteq S
        OBVIOUS
    <3> HIDE DEF below
    <3>2. Cardinality(below) \in Nat
        BY <1>0, <3>1, FS_Subset, FS_CardinalityType
    <3> QED BY <3>2 DEF Rank, below
  <2> QED BY <1>5, <1>13, <1>16, <2>1
<1>18. A \cup {o} \subseteq B /\ o \notin A
    BY <1>8, <1>10, <1>15, <1>17
<1>19. Cardinality(A \cup {o}) = h + 1 /\ Cardinality(A \cup {o}) <= Cardinality(B)
    BY <1>9, <1>13, <1>18, FS_AddElement, FS_Subset
<1> QED BY <1>3, <1>5, <1>9, <1>19

\* While a launch prunes, nobody else is at work, and what it leaves is under the cap.
Pruning ==
    /\ phase # "up" => \A w \in Writers : ~Busy(w)
    /\ phase = "prune" => /\ victims \subseteq Visible
                          /\ Cardinality(Visible) <= maxCount + Cardinality(victims)

LEMMA PruningInit == Init => Pruning
<1> SUFFICES ASSUME Init PROVE Pruning
    OBVIOUS
<1>1. Visible = {} /\ victims = {} /\ maxCount \in Nat
    BY StoreAssumption DEF Init, Visible, Present
<1>2. Cardinality(Visible) = 0 /\ Cardinality(victims) = 0
    BY <1>1, FS_EmptySet
<1>3. \A w \in Writers : ~Busy(w)
    BY DEF Init, Busy, WriterIdle
<1> QED BY <1>1, <1>2, <1>3 DEF Pruning

LEMMA PruningStep == TypeOK /\ Pruning /\ [Next]_vars => Pruning'
<1> SUFFICES ASSUME TypeOK, Pruning, [Next]_vars PROVE Pruning'
    OBVIOUS
<1>0. /\ writer \in [Writers -> WriterState] /\ maxCount \in Nat
      /\ Visible \subseteq IDs /\ Cardinality(Visible) \in Nat /\ IsFiniteSet(Visible)
  <2>1. IsFiniteSet(IDs)
      BY RingSize, FS_Interval DEF IDs
  <2> QED BY <2>1, StoreAssumption, VisibleIsFinite, FS_Subset DEF TypeOK, WriterState
<1>1. CASE Launch
  <2>1. /\ phase = "down" /\ victims' = Prunes(maxCount') /\ file' = file /\ maxCount' \in Nat /\ phase' = "prune"
        /\ writer' = writer
      BY <1>1, StoreAssumption DEF Launch
  <2>2. Visible' = Visible
      BY <2>1 DEF Visible, Present
  <2>3. \A w \in Writers : ~Busy(w)'
      BY <2>1 DEF Pruning, Busy
  <2>4. CASE Cardinality(Visible) > maxCount'
    <3> DEFINE k == Cardinality(Visible) - maxCount'
    <3>1. k \in Nat /\ victims' = Smallest(Visible, k) /\ k <= Cardinality(Visible)
          /\ Cardinality(Visible) = maxCount' + k
        BY <1>0, <2>1, <2>4 DEF Prunes
    <3> HIDE DEF k
    <3>2. victims' \subseteq Visible /\ k <= Cardinality(victims')
        BY <1>0, <3>1, SmallestAreMany DEF Smallest
    <3>3. Cardinality(victims') \in Nat
        BY <1>0, <3>2, FS_Subset, FS_CardinalityType
    <3>4. Cardinality(Visible) <= maxCount' + Cardinality(victims')
        BY <2>1, <3>1, <3>2, <3>3
    <3> QED BY <2>1, <2>2, <2>3, <3>2, <3>4 DEF Pruning
  <2>5. CASE ~(Cardinality(Visible) > maxCount')
    <3>1. victims' = {} /\ Cardinality(victims') = 0
        BY <2>1, <2>5, FS_EmptySet DEF Prunes
    <3>2. Cardinality(Visible) <= maxCount' + 0
        BY <1>0, <2>1, <2>5
    <3> QED BY <2>1, <2>2, <2>3, <3>1, <3>2 DEF Pruning
  <2> QED BY <2>4, <2>5
<1>2. CASE Prune
  <2> DEFINE o == Oldest(victims)
  <2>1. /\ phase = "prune" /\ phase' = "prune" /\ victims # {} /\ file' = [file EXCEPT ![o] = None]
        /\ victims' = victims \ {o} /\ UNCHANGED <<writer, maxCount>>
      BY <1>2 DEF Prune, process
  <2>2. victims \subseteq Visible /\ Cardinality(Visible) <= maxCount + Cardinality(victims)
      BY <2>1 DEF Pruning
  <2>3. o \in victims /\ o \in Visible
      BY <1>0, <2>1, <2>2, OldestIsThere
  <2> HIDE DEF o
  <2>4. Visible' = Visible \ {o}
      BY <2>1 DEF TypeOK, Visible, Present
  <2>5. IsFiniteSet(victims) /\ Cardinality(victims) \in Nat
      BY <1>0, <2>2, FS_Subset, FS_CardinalityType
  <2>6. Cardinality(Visible') = Cardinality(Visible) - 1 /\ Cardinality(victims') = Cardinality(victims) - 1
      BY <1>0, <2>1, <2>3, <2>4, <2>5, FS_RemoveElement
  <2>7. Cardinality(Visible') <= maxCount' + Cardinality(victims')
      BY <1>0, <2>1, <2>2, <2>5, <2>6
  <2>8. victims' \subseteq Visible' /\ \A w \in Writers : Busy(w)' => Busy(w)
      BY <2>1, <2>2, <2>4 DEF Busy
  <2> QED BY <2>1, <2>7, <2>8 DEF Pruning
<1>3. CASE Initialized
  <2>1. phase' = "up"
      BY <1>3 DEF Initialized
  <2> QED BY <2>1 DEF Pruning
<1>4. CASE Exit
  <2>1. phase' = "down" /\ \A w \in Writers : ~Busy(w)'
      BY <1>4 DEF Exit, Busy, WriterIdle
  <2> QED BY <2>1 DEF Pruning
<1>5. CASE \E w \in Writers : BeginReport(w) \/ OpenReport(w) \/ CloseReport(w) \/ AddUserReport(w) \/ CloseUserReport(w)
  <2>1. PICK w \in Writers : BeginReport(w) \/ OpenReport(w) \/ CloseReport(w) \/ AddUserReport(w) \/ CloseUserReport(w)
      BY <1>5
  <2>2. phase = "up" \/ Busy(w)
      BY <2>1 DEF BeginReport, OpenReport, CloseReport, AddUserReport, CloseUserReport, MayBegin, Busy
  <2>3. phase = "up" /\ phase' = phase
      BY <2>1, <2>2 DEF Pruning, BeginReport, OpenReport, CloseReport, AddUserReport, CloseUserReport, process
  <2> QED BY <2>3 DEF Pruning
<1>6. CASE \E s \in Senders : Count(s) \/ List(s) \/ Read(s) \/ Send(s) \/ DeleteAll(s)
  <2>1. phase = "up" /\ phase' = phase
      BY <1>6 DEF Count, List, Read, Send, DeleteAll, AtSender, process
  <2> QED BY <2>1 DEF Pruning
<1>7. CASE \E id \in IDs : DeleteByID(id)
  <2>1. phase = "up" /\ phase' = phase
      BY <1>7 DEF DeleteByID, process
  <2> QED BY <2>1 DEF Pruning
<1>8. CASE UNCHANGED vars
  <2>1. UNCHANGED <<phase, victims, file, writer, maxCount>>
      BY <1>8 DEF vars, process, storage
  <2> QED BY <2>1 DEF Pruning, Visible, Present, Busy
<1> QED BY <1>1, <1>2, <1>3, <1>4, <1>5, <1>6, <1>7, <1>8 DEF Next

\* However many reports a launch finds, whatever names they have, it leaves at most
\* g_maxReportCount of them before it records any.
THEOREM CappedAlways == Spec => Capped
<1>1. ASSUME TypeOK, Pruning, [Next]_vars, phase = "prune", phase' = "up"
      PROVE  Cardinality(Visible) <= maxCount
  <2>1. victims = {}
    <3>1. Initialized
        BY <1>1 DEF Next, Launch, Prune, Initialized, Exit, BeginReport, OpenReport, CloseReport, AddUserReport,
           CloseUserReport, Count, List, Read, Send, DeleteAll, DeleteByID, AtSender, MayBegin, TakesID,
           process, vars
    <3> QED BY <3>1 DEF Initialized
  <2>2. Cardinality(victims) = 0 /\ Cardinality(Visible) <= maxCount + Cardinality(victims) /\ maxCount \in Nat
      BY <1>1, <2>1, FS_EmptySet, StoreAssumption DEF Pruning, TypeOK
  <2>3. Cardinality(Visible) \in Nat
      BY VisibleIsFinite
  <2> QED BY <2>2, <2>3
<1>2. TypeOK /\ Pruning /\ [Next]_vars => [phase = "prune" /\ phase' = "up" => Cardinality(Visible) <= maxCount]_vars
    BY <1>1
<1> QED BY <1>2, TypeInit, TypeStep, NumberedInit, NumberedStep, PruningInit, PruningStep, PTL DEF Spec, Capped
=============================================================================
