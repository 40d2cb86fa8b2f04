------------------------- MODULE CrashQuiet_proofs -------------------------
(***************************************************************************)
(* Snapshots and user reports leave no trace.  While no fatal exception is *)
(* on record, a snapshot is all that can have said that one is handled; it *)
(* holds every other thread, so no report of a crash overtakes it, nobody  *)
(* else says or takes back anything meanwhile, and each suspension is that *)
(* of a frame which will undo it.  And a crash that is alone is recorded:  *)
(* one frame handles it, and where that frame is tells how far the report  *)
(* has come, which is complete before our handlers are taken away.  And    *)
(* what is recorded stays: one thread at a time renames the last report,   *)
(* and it embeds the .old file before anything stops it.                   *)
(***************************************************************************)
EXTENDS CrashMonitor_proofs

\* A fatal exception is on record by the time it is announced, and only the
\* handlers that announce one get there.
AnnouncedCaptured ==
    \A p \in Procs : \A k \in Levels(p) :
        /\ Announced(Fr(p, k)) /\ Fr(p, k).kind \in FatalKinds => Fr(p, k).event \in captured
        /\ Fr(p, k).pc = "notify" => Fr(p, k).kind \in Notifying
\* What interrupts a handler is a signal.
NestedAreSignals == \A p \in Procs : \A k \in Levels(p) : k # 1 => Fr(p, k).kind = "signal"

\* As long as no fatal exception is on record: only a snapshot can have said
\* that one is being handled, no crash inside the reporter was seen, an
\* exception thread that noted a Mach crash is about to announce it,
SnapshotSays ==
    captured = {} /\ handlingFatal =>
        \E p \in Procs : \E k \in Levels(p) : Fr(p, k).kind = "snapshot" /\ Announced(Fr(p, k))
NoneDuring == captured = {} => ~crashedDuring
MachAnnounces == captured = {} /\ machHandling => \E m \in MachThreads : OutermostAt(m, {"notify"})
\* and every suspension is that of a frame which will undo it.
CountIsExact ==
    captured = {} => \A t \in Threads : Cardinality(Holders(t)) >= suspendCount[t]

QuietInv == /\ AnnouncedCaptured /\ NestedAreSignals /\ SnapshotSays
            /\ NoneDuring /\ MachAnnounces /\ CountIsExact

\* A thread that some frame holds does not run.
LEMMA HeldStops ==
    ASSUME WriterInv, NEW r \in Procs, NEW k \in Levels(r), NEW t \in Threads, Holds(Fr(r, k), r, t)
    PROVE  ~Runnable(t)
<1>1. stack \in Stacks /\ suspendCount \in [Threads -> Nat]
    BY DEF WriterInv, TypeOK, Stacks
<1>2. k \in Nat
    BY <1>1, FrameType
<1>3. <<r, k>> \in Holders(t)
    BY <1>2 DEF Holders
<1>4. IsFiniteSet(Holders(t)) /\ Cardinality(Holders(t)) <= suspendCount[t]
    BY DEF WriterInv, HeldIsSuspended
<1>5. Cardinality(Holders(t)) \in Nat /\ Cardinality(Holders(t)) # 0
    BY <1>3, <1>4, FS_CardinalityType, FS_EmptySet
<1>6. suspendCount[t] # 0
    BY <1>1, <1>4, <1>5
<1> QED BY <1>6 DEF Runnable

\* While a snapshot is announced and no crash captured, only its own thread and
\* the handlers of the exception threads run.
LEMMA SnapshotAlone ==
    ASSUME WriterInv, QuietInv, captured = {}, handlingFatal,
           NEW p \in Procs, Runnable(p), stack[p] # <<>>
    PROVE  Top(p).kind \in {"mach", "signal"} \/ (Top(p).kind = "snapshot" /\ Announced(Top(p)))
<1>0. stack \in Stacks
    BY DEF WriterInv, TypeOK, Stacks
<1>1. PICK q \in Procs : \E j \in Levels(q) : Fr(q, j).kind = "snapshot" /\ Announced(Fr(q, j))
    BY DEF QuietInv, SnapshotSays
<1>6. PICK j \in Levels(q) : Fr(q, j).kind = "snapshot" /\ Announced(Fr(q, j))
    BY <1>1
<1>2. Len(stack[p]) \in Levels(p) /\ Top(p) = Fr(p, Len(stack[p])) /\ Len(stack[p]) \in Nat
    BY <1>0, TopAt
<1>3. CASE p \in MachThreads
    BY <1>2, <1>3 DEF WriterInv, FramesInv, MachStacks
<1>4. CASE p \in Threads /\ p # q
  <2>1. Holds(Fr(q, j), q, p)
      BY <1>6, <1>4 DEF Holds, Announced, Others, Suspending, Kinds, UserKinds
  <2> QED BY <1>4, <2>1, HeldStops
<1>5. CASE p = q
  <2>1. CASE Len(stack[p]) = 1
    <3>1. j = 1
        BY <1>5, <2>1 DEF Levels
    <3> QED BY <1>6, <1>2, <1>5, <2>1, <3>1
  <2>2. CASE Len(stack[p]) # 1
      BY <1>2, <2>2 DEF QuietInv, NestedAreSignals
  <2> QED BY <2>1, <2>2
<1> QED BY <1>3, <1>4, <1>5 DEF Procs

\* The first announcement, as long as nothing is captured, is a snapshot's, and
\* nothing else has been announced.
LEMMA NotifyFirst ==
    ASSUME WriterInv, QuietInv, captured' = {}, NEW p \in Procs, Notify(p)
    PROVE  captured = {} /\ ~handlingFatal /\ ~crashedDuring' /\ Top(p).kind = "snapshot"
<1>0. stack \in Stacks /\ stack[p] # <<>> /\ Runnable(p) /\ Top(p).pc = "notify"
    BY DEF WriterInv, TypeOK, Stacks, Notify, At
<1>1. /\ crashedDuring' = (crashedDuring \/ handlingFatal)
      /\ captured' = IF Top(p).kind \in FatalKinds THEN captured \cup {Top(p).event} ELSE captured
    BY DEF Notify
<1>2. captured = {} /\ Top(p).kind \notin FatalKinds
    BY <1>1
<1>3. ~Announced(Top(p))
    BY <1>0 DEF Announced, HandlerPCs
<1>4. ~handlingFatal
  <2>1. {"mach", "signal"} \subseteq FatalKinds
      BY DEF FatalKinds, Notifying, Kinds
  <2> QED BY <1>0, <1>2, <1>3, <2>1, SnapshotAlone
<1>5. Top(p).kind \in Notifying
    BY <1>0, TopAt DEF QuietInv, AnnouncedCaptured
<1>6. Top(p).kind = "snapshot"
    BY <1>2, <1>5 DEF FatalKinds
<1> QED BY <1>1, <1>2, <1>4, <1>6 DEF QuietInv, NoneDuring

\* A handler that nobody captured does not end monitoring, nor leave the others
\* suspended.
LEMMA PostIsQuiet ==
    ASSUME WriterInv, QuietInv, captured' = {}, NEW p \in Procs, Post(p)
    PROVE  captured = {} /\ ~EndsMonitoring(Top(p)) /\ Top(p).kind # "nsexception"
<1>0. stack \in Stacks /\ stack[p] # <<>> /\ Runnable(p) /\ Top(p).pc = "post"
    BY DEF WriterInv, TypeOK, Stacks, Post, At
<1>1. captured = {}
    BY DEF Post
<1>2. Top(p).kind \notin FatalKinds
  <2> SUFFICES ASSUME Top(p).kind \in FatalKinds PROVE FALSE
      OBVIOUS
  <2>1. Announced(Top(p))
      BY <1>0 DEF Announced, FatalKinds, HandlerPCs
  <2> QED BY <1>0, <1>1, <2>1, TopAt DEF QuietInv, AnnouncedCaptured
<1>3. {"mach", "signal", "nsexception"} \subseteq FatalKinds
    BY DEF FatalKinds, Notifying, Kinds, UserKinds
<1>4. ~EndsMonitoring(Top(p))
    BY <1>0, <1>1, <1>2, <1>3, SnapshotAlone DEF EndsMonitoring
<1> QED BY <1>1, <1>2, <1>3, <1>4

\* No exception thread is cancelled in its report before a crash is captured.
LEMMA CancelCaptured ==
    ASSUME WriterInv, QuietInv, NEW p \in Procs, CancelledAtFile(p)
    PROVE  captured # {}
<1>0. stack \in Stacks /\ stack[p] # <<>> /\ p \in MachThreads
    BY CancelShape DEF WriterInv, TypeOK, Stacks
<1>1. Top(p).pc \in HandlerPCs
    BY DEF CancelledAtFile, AtFile, At, HandlerPCs
<1>2. Len(stack[p]) \in Levels(p) /\ Top(p) = Fr(p, Len(stack[p]))
    BY <1>0, TopAt
<1>3. Top(p).kind \in {"mach", "signal"}
    BY <1>0, <1>2 DEF WriterInv, FramesInv, MachStacks
<1>4. Top(p).kind \in FatalKinds /\ Top(p).kind \in Notifying
    BY <1>3 DEF FatalKinds, Notifying, Kinds, UserKinds
<1>5. Announced(Top(p))
    BY <1>1, <1>4 DEF Announced
<1> QED BY <1>2, <1>4, <1>5 DEF QuietInv, AnnouncedCaptured

\* A program that asks for other monitors ends no exception thread then.
LEMMA MonitoringIsQuiet ==
    ASSUME WriterInv, QuietInv, captured = {}, NEW t \in Threads, Reconfigures(t), NEW q \in Procs
    PROVE  stack'[q] = stack[q]
<1>1. ~machHandling
  <2> SUFFICES ASSUME machHandling PROVE FALSE
      OBVIOUS
  <2>1. PICK m \in MachThreads : OutermostAt(m, {"notify"})
      BY DEF QuietInv, MachAnnounces
  <2>2. m \in Procs /\ 1 \in Levels(m) /\ Fr(m, 1).pc = "notify" /\ Fr(m, 1).kind = "mach"
      BY <2>1 DEF OutermostAt, Procs, WriterInv, FramesInv, MachStacks
  <2>3. Holds(Fr(m, 1), m, t)
      BY <2>1, <2>2, ConstantsAssumption DEF Holds, Others, Suspending, Kinds
  <2>4. Runnable(t)
      BY Reconfigured DEF WriterInv
  <2> QED BY <2>2, <2>3, <2>4, HeldStops
<1>2. ASSUME NEW types \in SUBSET Monitors, NEW failing, SwitchMonitors(types, t, failing, stack)
      PROVE  stack'[q] = stack[q]
  <2> DEFINE killed == IF Uninstalls(types) /\ machHandling THEN Forgotten(t) ELSE {}
  <2>1. stack' = [p \in Procs |-> IF p \in killed THEN <<>> ELSE stack[p]]
      BY <1>2 DEF SwitchMonitors
  <2>2. killed = {}
      BY <1>1
  <2> HIDE DEF killed
  <2> QED BY <2>1, <2>2
<1> QED BY <1>2, Reconfigured DEF WriterInv

\* A moving step touches its own thread's frames only.
LEMMA MovingKeepsOthers ==
    ASSUME WriterInv, QuietInv, captured' = {}, NEW p \in Procs, Moving(p)
    PROVE  OthersStay({p})
<1>0. stack \in Stacks
    BY DEF WriterInv, TypeOK, Stacks
<1>1. (\E f : stack' = WithTop(stack, p, f)) \/ stack' = Popped(stack, p)
  <2>1. CASE Enter(p)
      BY <2>1 DEF Enter
  <2>2. CASE SuspendOne(p) \/ SuspendDone(p) \/ ResumeOne(p) \/ ResumeDone(p)
      BY <2>2 DEF SuspendOne, SuspendDone, ResumeOne, ResumeDone
  <2>3. CASE Notify(p)
      BY <2>3, NotifyFirst DEF Notify, OnNotify, KeepMonitors
  <2>4. CASE SwitchMachThread(p)
      BY <2>4 DEF SwitchMachThread
  <2>5. CASE Records(p)
      BY <2>5 DEF Records, Handle, NextPath, OpenReport, WriteReport, RenameReport, RewriteReport
  <2>6. CASE Post(p)
    <3> DEFINE next == WithTop(stack, p, IF Top(p).kind \in Suspending \ {"nsexception"}
                                         THEN [Top(p) EXCEPT !.pc = "resume", !.todo = Others(p)]
                                         ELSE [Top(p) EXCEPT !.pc = "exit"])
    <3>1. IF EndsMonitoring(Top(p)) THEN Uninstall(p, next) ELSE KeepMonitors(next)
        BY <2>6 DEF Post
    <3>2. \E f : next = WithTop(stack, p, f)
        OBVIOUS
    <3> HIDE DEF next
    <3> QED BY <2>6, <3>1, <3>2, PostIsQuiet DEF KeepMonitors
  <2> QED BY <2>1, <2>2, <2>3, <2>4, <2>5, <2>6 DEF Moving
<1> QED BY <1>0, <1>1 DEF OthersStay, WithTop, Popped, Stacks

\* A frame moves to one place.
LEMMA OneMove ==
    ASSUME NEW p \in Procs, NEW g, MovesWithin(p, g), stack \in Stacks
    PROVE  ~Ends(p) /\ ~(stack' = Popped(stack, p) /\ stack[p] # <<>>) /\ \A h : MovesWithin(p, h) => h = g
<1>1. Len(stack[p]) \in Nat /\ Len(stack'[p]) = Len(stack[p])
    BY DEF Stacks, MovesWithin, Moves
<1>2. ~Ends(p)
    BY <1>1 DEF Ends, PopsAt
<1>3. ~(stack' = Popped(stack, p) /\ stack[p] # <<>>)
    BY <1>2, PopOnly DEF Ends
<1>4. \A h : MovesWithin(p, h) => Nth(stack', p, Len(stack[p])) = h
    BY DEF MovesWithin, Moves
<1> QED BY <1>2, <1>3, <1>4

\* Frames become announced by Notify and cease to be by Post.
LEMMA AnnouncedMoves ==
    ASSUME TypeOK, NEW p \in Procs, Moving(p), NEW g, MovesWithin(p, g)
    PROVE  /\ Announced(g) => Announced(Top(p)) \/ Notify(p)
           /\ Announced(Top(p)) => Announced(g) \/ Post(p)
<1>0. stack \in Stacks
    BY DEF TypeOK, Stacks
<1>1. CASE ~Notify(p) /\ ~Post(p)
    BY <1>0, <1>1, QuietMove, OneMove
<1>2. CASE Post(p)
  <2>1. FromPost(Top(p), g, p)
      BY <1>0, <1>2, PostMoves, OneMove
  <2> QED BY <1>2, <2>1 DEF FromPost, Announced, HandlerPCs
<1>3. CASE Notify(p)
  <2>1. Top(p).pc = "notify"
      BY <1>3 DEF Notify, At
  <2> QED BY <1>3, <2>1 DEF Announced, HandlerPCs
<1> QED BY <1>1, <1>2, <1>3

\* Only notifying handlers get to the announcement.
LEMMA NotifyFrom ==
    ASSUME TypeOK, NEW p \in Procs, Moving(p), NEW g, MovesWithin(p, g), g.pc = "notify"
    PROVE  g.kind \in Notifying
<1>0. stack \in Stacks /\ stack[p] # <<>> /\ g.kind = Top(p).kind
    BY MovingShape DEF MovesWithin, SameCrash
<1>1. CASE Enter(p)
  <2>1. FromEnter(Top(p), g, p)
      BY <1>0, <1>1, EnterMoves, OneMove
  <2> QED BY <1>0, <2>1 DEF FromEnter
<1>2. CASE SuspendOne(p) \/ ResumeOne(p) \/ ResumeDone(p)
  <2>1. g.pc # "notify"
    <3>1. \E h : MovesWithin(p, h) /\ h.pc # "notify"
        BY <1>2, SuspendMoves
    <3> QED BY <1>0, <3>1, OneMove
  <2> QED BY <2>1
<1>3. CASE SuspendDone(p)
  <2>1. FromSuspend(Top(p), g, p)
      BY <1>0, <1>3, SuspendMoves, OneMove
  <2> QED BY <1>0, <2>1 DEF FromSuspend
<1>4. CASE Notify(p) \/ SwitchMachThread(p)
  <2>1. \E h : MovesWithin(p, h) /\ h.pc # "notify"
      BY <1>4, NotifyMoves
  <2> QED BY <1>0, <2>1, OneMove
<1>5. CASE Records(p)
  <2>1. \E h : MovesWithin(p, h) /\ h.pc # "notify"
      BY <1>5, RecordMoves DEF Writes
  <2> QED BY <1>0, <2>1, OneMove
<1>6. CASE Post(p)
  <2>1. \E h : MovesWithin(p, h) /\ h.pc # "notify"
      BY <1>6, PostMoves DEF FromPost
  <2> QED BY <1>0, <2>1, OneMove
<1> QED BY <1>1, <1>2, <1>3, <1>4, <1>5, <1>6 DEF Moving

\* A frame that holds a thread goes on holding it, unless it resumes it or kills
\* the process.
LEMMA HoldMoves ==
    ASSUME TypeOK, SuspendsOthers, NEW p \in Procs, Moving(p), NEW g, MovesWithin(p, g),
           NEW t \in Threads, Holds(Top(p), p, t)
    PROVE  Holds(g, p, t) \/ ResumeOne(p) \/ (Post(p) /\ Top(p).kind = "nsexception")
<1>0. stack \in Stacks /\ stack[p] # <<>> /\ g.kind = Top(p).kind
    BY MovingShape DEF MovesWithin, SameCrash
<1>1. CASE Enter(p)
  <2>1. FromEnter(Top(p), g, p)
      BY <1>0, <1>1, EnterMoves, OneMove
  <2> QED BY <2>1 DEF FromEnter, Holds, HandlerPCs
<1>2. CASE SuspendOne(p)
  <2>1. PICK u \in Top(p).todo :
           Top(p).pc = "suspend" /\ g.pc = "suspend" /\ g.todo = Top(p).todo \ {u}
      BY <1>0, <1>2, SuspendMoves, OneMove
  <2> QED BY <1>0, <2>1 DEF Holds, HandlerPCs
<1>3. CASE SuspendDone(p)
  <2>1. FromSuspend(Top(p), g, p) /\ g.pc # "suspend"
      BY <1>0, <1>3, SuspendMoves, OneMove
  <2> QED BY <1>0, <2>1 DEF FromSuspend, Holds, HandlerPCs
<1>4. CASE Notify(p) \/ SwitchMachThread(p)
  <2>1. Top(p).pc \in {"notify", "switch"} /\ g.pc \in {"switch", "handle"}
      BY <1>0, <1>4, NotifyMoves, OneMove
  <2> QED BY <1>0, <2>1 DEF Holds, HandlerPCs
<1>5. CASE Records(p)
  <2>1. Writes(Top(p).pc, g.pc)
      BY <1>0, <1>5, RecordMoves, OneMove
  <2>2. g.pc \in HandlerPCs
      BY <2>1 DEF Writes, HandlerPCs
  <2> QED BY <1>0, <2>2 DEF Holds
<1>6. CASE Post(p)
  <2>1. FromPost(Top(p), g, p)
      BY <1>0, <1>6, PostMoves, OneMove
  <2> QED BY <1>0, <1>6, <2>1 DEF FromPost, Holds
<1>7. CASE ResumeOne(p)
    BY <1>7
<1>8. CASE ResumeDone(p)
  <2>1. Top(p).pc = "resume" /\ Top(p).todo = {}
      BY <1>8 DEF ResumeDone, At
  <2> QED BY <2>1 DEF Holds, HandlerPCs
<1> QED BY <1>1, <1>2, <1>3, <1>4, <1>5, <1>6, <1>7, <1>8 DEF Moving

\* What a step does to the flags.
LEMMA FlagSteps ==
    ASSUME TypeOK, [Next]_vars
    PROVE  /\ captured \subseteq captured'
           /\ \/ \E p \in Procs : Notify(p)
              \/ (handlingFatal' => handlingFatal) /\ crashedDuring' = crashedDuring
           /\ machHandling' => machHandling \/ \E p \in Procs : SuspendDone(p) /\ Top(p).kind = "mach"
<1> DEFINE Goal == /\ captured \subseteq captured'
                   /\ \/ \E p \in Procs : Notify(p)
                      \/ (handlingFatal' => handlingFatal) /\ crashedDuring' = crashedDuring
                   /\ machHandling' => machHandling \/ \E p \in Procs : SuspendDone(p) /\ Top(p).kind = "mach"
<1>1. ASSUME NEW t \in Threads, Reconfigures(t) PROVE Goal
    BY <1>1, ReconfigurationFacts
<1>2. ASSUME NEW p \in Procs, NewEvent(p) PROVE Goal
    BY <1>2 DEF NewEvent, flags
<1>3. ASSUME NEW p \in Procs, Moving(p) PROVE Goal
  <2>1. CASE Notify(p)
      BY <1>3, <2>1 DEF Notify
  <2>2. CASE Post(p)
      BY <2>2 DEF Post, HandlingAfter, TypeOK
  <2>3. CASE ~Notify(p) /\ ~Post(p)
    <3>1. UNCHANGED <<captured, handlingFatal, crashedDuring>>
        BY <1>3, <2>3, MovingShape, QuietMove
    <3>2. CASE SuspendDone(p)
        BY <3>1, <3>2 DEF SuspendDone
    <3>3. CASE ~SuspendDone(p)
      <4>1. machHandling' = machHandling
          BY <1>3, <2>3, <3>3 DEF Moving, Records, Enter, SuspendOne, SwitchMachThread,
             Handle, NextPath, OpenReport, WriteReport, RenameReport, RewriteReport,
             ResumeOne, ResumeDone, WriterStep
      <4> QED BY <3>1, <4>1
    <3> QED BY <3>2, <3>3
  <2> QED BY <2>1, <2>2, <2>3
<1>4. ASSUME NEW p \in Procs, Leaves(p) PROVE Goal
    BY <1>4, LeaveShape DEF flags
<1>5. ASSUME NEW p \in Procs, CancelledAtFile(p) PROVE Goal
    BY <1>5, CancelShape DEF flags
<1>6. ASSUME NEW m \in MachThreads, MachReceive(m) PROVE Goal
    BY <1>6 DEF MachReceive, flags
<1>7. ASSUME UNCHANGED vars PROVE Goal
    BY <1>7 DEF vars, flags
<1> HIDE DEF Goal
<1>8. \/ \E t \in Threads : Reconfigures(t)
      \/ \E p \in Procs : NewEvent(p) \/ Moving(p) \/ Leaves(p) \/ CancelledAtFile(p)
      \/ \E m \in MachThreads : MachReceive(m)
      \/ UNCHANGED vars
    BY StepCases
<1>9. Goal
    BY <1>1, <1>2, <1>3, <1>4, <1>5, <1>6, <1>7, <1>8
<1> QED BY <1>9 DEF Goal

\* Where no thread loses its frames to another one's step, a frame stays where it
\* is, moves, or had not begun or was about to leave.
LEMMA StaysInPlace ==
    ASSUME TypeOK, MachStacks, [Next]_vars, NEW q \in Procs, NEW k \in Levels(q),
           \A t \in Threads : Reconfigures(t) => stack'[q] = stack[q],
           \A p \in Procs \ {q} : Moving(p) => stack'[q] = stack[q],
           \A p \in Procs : CancelledAtFile(p) => stack'[q] = stack[q]
    PROVE  \/ k \in 1..Len(stack'[q]) /\ Fr1(q, k) = Fr(q, k)
           \/ Fr(q, k).pc \in {"enter", "exit"}
           \/ /\ Moving(q) /\ stack[q] # <<>> /\ k = Len(stack[q]) /\ Top(q) = Fr(q, k)
              /\ k \in 1..Len(stack'[q]) /\ MovesWithin(q, Fr1(q, k))
<1> DEFINE Goal == \/ k \in 1..Len(stack'[q]) /\ Fr1(q, k) = Fr(q, k)
                   \/ Fr(q, k).pc \in {"enter", "exit"}
                   \/ /\ Moving(q) /\ stack[q] # <<>> /\ k = Len(stack[q]) /\ Top(q) = Fr(q, k)
                      /\ k \in 1..Len(stack'[q]) /\ MovesWithin(q, Fr1(q, k))
<1>0. TypeOK /\ stack \in Stacks /\ k \in Nat /\ Len(stack[q]) \in Nat /\ k <= Len(stack[q]) /\ 1 <= k
  <2>1. stack \in Stacks
      BY DEF TypeOK, Stacks
  <2> QED BY <2>1, FrameType DEF Levels
<1>10. stack'[q] = stack[q] => Goal
    BY DEF Levels, Fr, Fr1, Nth
<1>1. ASSUME NEW t \in Threads, Reconfigures(t) PROVE Goal
    BY <1>1, <1>10
\* Below the innermost frame of the thread that pops or moves, nothing changes.
<1>11. ASSUME \A j \in 1..(Len(stack[q]) - 1) : Nth(stack', q, j) = Fr(q, j),
                 Len(stack'[q]) = Len(stack[q]) \/ Len(stack'[q]) = Len(stack[q]) - 1,
                 k # Len(stack[q])
          PROVE  Goal
    BY <1>0, <1>11 DEF Fr1
<1>2. ASSUME NEW p \in Procs, NewEvent(p) PROVE Goal
  <2>1. CASE stack' = stack
      BY <2>1, <1>10
  <2>2. ASSUME NEW f, Starts(p, f) PROVE Goal
    <3>1. CASE q = p
        BY <1>0, <2>2, <3>1 DEF Starts, PushesAt, Fr1, Levels
    <3>2. CASE q # p
        BY <1>10, <2>2, <3>2 DEF Starts, OthersStay
    <3> QED BY <3>1, <3>2
  <2> QED BY <1>2, <2>1, <2>2 DEF NewEvent
<1>3. ASSUME NEW p \in Procs, Moving(p) PROVE Goal
  <2>1. CASE q # p
      BY <1>3, <1>10, <2>1
  <2>2. CASE q = p
    <3>0. stack[q] # <<>> /\ Top(q) = Fr(q, Len(stack[q]))
        BY <1>0, <1>3, <2>2, MovingShape, TopAt
    <3>1. ASSUME NEW g, MovesWithin(p, g) PROVE Goal
      <4>1. /\ Len(stack'[q]) = Len(stack[q]) /\ Nth(stack', q, Len(stack[q])) = g
            /\ \A j \in 1..(Len(stack[q]) - 1) : Nth(stack', q, j) = Fr(q, j)
          BY <2>2, <3>1 DEF MovesWithin, Moves
      <4>2. CASE k = Len(stack[q])
        <5>1. k \in 1..Len(stack'[q]) /\ Fr1(q, k) = g
            BY <1>0, <4>1, <4>2 DEF Fr1
        <5> QED BY <1>3, <2>2, <3>0, <3>1, <4>2, <5>1
      <4> QED BY <1>11, <4>1, <4>2
    <3>2. CASE Top(p).pc = "enter" /\ Ends(p)
      <4>1. CASE k = Len(stack[q])
          BY <2>2, <3>0, <3>2, <4>1
      <4> QED BY <1>11, <2>2, <3>2, <4>1 DEF Ends, PopsAt
    <3> QED BY <1>0, <1>3, <3>1, <3>2, MovingShape
  <2> QED BY <2>1, <2>2
<1>4. ASSUME NEW p \in Procs, Leaves(p) PROVE Goal
  <2>0. stack[p] # <<>> /\ Top(p).pc = "exit" /\ Top(p) = Fr(p, Len(stack[p]))
      BY <1>0, <1>4, LeaveShape, TopAt
  <2>1. CASE q = p
    <3>1. CASE k = Len(stack[q])
        BY <2>0, <2>1, <3>1
    <3>2. CASE Ends(p)
        BY <1>11, <2>1, <3>1, <3>2 DEF Ends, PopsAt
    <3>3. ASSUME NEW g, Moves(p, g) PROVE Goal
        BY <1>11, <2>1, <3>1, <3>3 DEF Moves
    <3>4. ASSUME NEW v, NEW g, HandsTo(p, v, g) PROVE Goal
        BY <1>11, <2>1, <3>1, <3>4 DEF HandsTo, PopsAt
    <3> QED BY <1>0, <1>4, <3>2, <3>3, <3>4, LeaveShape
  <2>2. CASE q # p
    <3>1. CASE OthersStay({p})
        BY <1>10, <2>2, <3>1 DEF OthersStay
    <3>2. ASSUME NEW g, HandsTo(p, Top(p).subject, g) PROVE Goal
      <4>1. CASE q = Top(p).subject
          BY <1>0, <3>2, <4>1 DEF HandsTo, PushesAt, Fr1, Levels
      <4>2. CASE q # Top(p).subject
          BY <1>10, <2>2, <3>2, <4>2 DEF HandsTo, OthersStay
      <4> QED BY <4>1, <4>2
    <3> QED BY <1>0, <1>4, <3>1, <3>2, LeaveShape DEF Ends
  <2> QED BY <2>1, <2>2
<1>5. ASSUME NEW p \in Procs, CancelledAtFile(p) PROVE Goal
    BY <1>5, <1>10
<1>6. ASSUME NEW m \in MachThreads, MachReceive(m) PROVE Goal
  <2>1. m \in Procs /\ OthersStay({m})
      BY <1>0, <1>6, ReceiveShape
  <2>2. CASE q = m
    <3>1. mach[m] = "busy" /\ mach[m] = "waiting"
        BY <1>6, <2>2 DEF MachReceive, MachStacks
    <3> QED BY <3>1
  <2> QED BY <1>10, <2>1, <2>2 DEF OthersStay
<1>7. ASSUME UNCHANGED vars PROVE Goal
    BY <1>7, <1>10 DEF vars
<1> HIDE DEF Goal
<1>8. \/ \E t \in Threads : Reconfigures(t)
      \/ \E p \in Procs : NewEvent(p) \/ Moving(p) \/ Leaves(p) \/ CancelledAtFile(p)
      \/ \E m \in MachThreads : MachReceive(m)
      \/ UNCHANGED vars
    BY <1>0, StepCases
<1>9. Goal
    BY <1>1, <1>2, <1>3, <1>4, <1>5, <1>6, <1>7, <1>8
<1> QED BY <1>9 DEF Goal

\* So it is as long as nothing is captured.
LEMMA Survives ==
    ASSUME WriterInv, QuietInv, [Next]_vars, captured' = {}, NEW q \in Procs, NEW k \in Levels(q)
    PROVE  \/ k \in 1..Len(stack'[q]) /\ Fr1(q, k) = Fr(q, k)
           \/ Fr(q, k).pc \in {"enter", "exit"}
           \/ /\ Moving(q) /\ stack[q] # <<>> /\ k = Len(stack[q]) /\ Top(q) = Fr(q, k)
              /\ k \in 1..Len(stack'[q]) /\ MovesWithin(q, Fr1(q, k))
<1>1. TypeOK /\ MachStacks
    BY DEF WriterInv, FramesInv
<1>2. captured = {}
    BY <1>1, FlagSteps
<1>3. /\ \A t \in Threads : Reconfigures(t) => stack'[q] = stack[q]
      /\ \A p \in Procs \ {q} : Moving(p) => stack'[q] = stack[q]
      /\ \A p \in Procs : CancelledAtFile(p) => stack'[q] = stack[q]
    BY <1>2, MonitoringIsQuiet, MovingKeepsOthers, CancelCaptured DEF OthersStay
<1> QED BY <1>1, <1>3, StaysInPlace

LEMMA AnnouncedNext ==
    TypeOK /\ AnnouncedCaptured /\ [Next]_vars => AnnouncedCaptured'
<1> SUFFICES ASSUME TypeOK, AnnouncedCaptured, [Next]_vars PROVE AnnouncedCaptured'
    OBVIOUS
<1>0. stack \in Stacks /\ captured \subseteq captured'
    BY FlagSteps DEF TypeOK, Stacks
<1>1. ASSUME NEW q \in Procs, NEW k \in 1..Len(stack'[q])
      PROVE  /\ Announced(Fr1(q, k)) /\ Fr1(q, k).kind \in FatalKinds => Fr1(q, k).event \in captured'
             /\ Fr1(q, k).pc = "notify" => Fr1(q, k).kind \in Notifying
  <2>1. CASE k \in Levels(q) /\ Fr1(q, k) = Fr(q, k)
      BY <1>0, <2>1 DEF AnnouncedCaptured
  <2>2. CASE Fr1(q, k).pc = "enter"
      BY <2>2 DEF Announced, HandlerPCs
  <2>3. CASE /\ Moving(q) /\ k \in Levels(q) /\ Top(q) = Fr(q, k) /\ MovesWithin(q, Fr1(q, k))
    <3>1. Fr1(q, k).kind = Fr(q, k).kind /\ Fr1(q, k).event = Fr(q, k).event
        BY <2>3 DEF MovesWithin, SameCrash
    <3>2. Notify(q) => captured' = IF Top(q).kind \in FatalKinds THEN captured \cup {Top(q).event} ELSE captured
        BY DEF Notify
    <3>3. Announced(Fr1(q, k)) => Announced(Top(q)) \/ Notify(q)
        BY <2>3, AnnouncedMoves
    <3> QED BY <1>0, <2>3, <3>1, <3>2, <3>3, NotifyFrom DEF AnnouncedCaptured
  <2> QED BY <2>1, <2>2, <2>3, Origins
<1> QED BY <1>1 DEF AnnouncedCaptured, Fr1, Fr, Nth, Levels, Announced

LEMMA NestedNext == TypeOK /\ NestedAreSignals /\ [Next]_vars => NestedAreSignals'
<1> SUFFICES ASSUME TypeOK, NestedAreSignals, [Next]_vars,
                    NEW q \in Procs, NEW k \in 1..Len(stack'[q]), k # 1
             PROVE  Fr1(q, k).kind = "signal"
    BY DEF NestedAreSignals, Fr1, Fr, Nth, Levels
<1> DEFINE Goal == Fr1(q, k).kind = "signal"
<1>0. stack \in Stacks
    BY DEF TypeOK, Stacks
<1>10. k \in Levels(q) /\ Fr1(q, k) = Fr(q, k) => Goal
    BY DEF NestedAreSignals
<1>1. ASSUME NEW t \in Threads, Reconfigures(t) PROVE Goal
    BY <1>1, <1>10, ReconfigurationStays, AfterStay DEF Fr1
<1>2. ASSUME NEW p \in Procs, NewEvent(p) PROVE Goal
  <2>1. CASE stack' = stack
      BY <1>10, <2>1 DEF Fr1, Fr, Nth, Levels
  <2>2. ASSUME NEW f, Starts(p, f), stack[p] # <<>> => f.kind = "signal" PROVE Goal
    <3>1. PushesAt(p, f) /\ OthersStay({p})
        BY <2>2 DEF Starts
    <3>2. CASE q = p /\ k = Len(stack[p]) + 1 /\ Fr1(q, k) = f
      <4>1. stack[p] # <<>>
        <5>1. stack[p] = <<>> => Len(stack[p]) = 0
            OBVIOUS
        <5> QED BY <3>2, <5>1
      <4> QED BY <2>2, <3>2, <4>1
    <3> QED BY <1>0, <1>10, <3>1, <3>2, AfterPush DEF Fr1
  <2> QED BY <1>2, <2>1, <2>2 DEF NewEvent
<1>3. ASSUME NEW p \in Procs, Moving(p) PROVE Goal
  <2>1. CASE Ends(p)
      BY <1>0, <1>3, <1>10, <2>1, MovingShape, AfterEnd DEF Fr1
  <2>2. ASSUME NEW g, MovesWithin(p, g) PROVE Goal
    <3>1. /\ k \in Levels(q)
          /\ \/ q = p /\ k = Len(stack[p]) /\ Fr1(q, k) = g
             \/ Fr1(q, k) = Fr(q, k)
        BY <1>0, <1>3, <2>2, MovingShape, AfterMove DEF Fr1, MovesWithin
    <3>2. Top(p) = Fr(p, Len(stack[p])) /\ g.kind = Top(p).kind
        BY <1>0, <1>3, <2>2, MovingShape, TopAt DEF MovesWithin, SameCrash
    <3> QED BY <1>10, <3>1, <3>2 DEF NestedAreSignals
  <2> QED BY <1>3, <2>1, <2>2, MovingShape
<1>4. ASSUME NEW p \in Procs, Leaves(p) PROVE Goal
  <2>0. stack[p] # <<>> /\ Top(p) = Fr(p, Len(stack[p])) /\ Len(stack[p]) \in Levels(p)
      BY <1>0, <1>4, LeaveShape, TopAt
  <2>1. CASE Ends(p)
      BY <1>0, <1>10, <2>0, <2>1, AfterEnd DEF Fr1
  <2>2. ASSUME NEW g, Moves(p, g), g.kind = "signal" \/ Top(p).kind = "nsthrow" PROVE Goal
    <3>1. \/ q = p /\ k = Len(stack[p]) /\ Fr1(q, k) = g
          \/ k \in Levels(q) /\ Fr1(q, k) = Fr(q, k)
        BY <1>0, <2>0, <2>2, AfterMove DEF Fr1
    <3> QED BY <1>10, <2>0, <2>2, <3>1 DEF NestedAreSignals
  <2>3. ASSUME NEW g, g.kind = "signal", Top(p).subject \in Procs \ {p}, HandsTo(p, Top(p).subject, g)
        PROVE  Goal
      BY <1>0, <1>10, <2>0, <2>3, AfterHand DEF Fr1
  <2> QED BY <1>4, <2>1, <2>2, <2>3, LeaveShape
<1>5. ASSUME NEW p \in Procs, CancelledAtFile(p) PROVE Goal
    BY <1>5, <1>10, CancelShape
<1>6. ASSUME NEW m \in MachThreads, MachReceive(m) PROVE Goal
    BY <1>6, <1>10, AfterReceive DEF Fr1
<1>7. ASSUME UNCHANGED vars PROVE Goal
  <2>1. stack' = stack
      BY <1>7 DEF vars
  <2> QED BY <1>10, <2>1 DEF Fr1, Fr, Nth, Levels
<1> HIDE DEF Goal
<1>8. \/ \E t \in Threads : Reconfigures(t)
      \/ \E p \in Procs : NewEvent(p) \/ Moving(p) \/ Leaves(p) \/ CancelledAtFile(p)
      \/ \E m \in MachThreads : MachReceive(m)
      \/ UNCHANGED vars
    BY StepCases
<1>9. Goal
    BY <1>1, <1>2, <1>3, <1>4, <1>5, <1>6, <1>7, <1>8
<1> QED BY <1>9 DEF Goal

LEMMA SnapshotNext ==
    ASSUME WriterInv, QuietInv, [Next]_vars, captured' = {}
    PROVE  /\ ~crashedDuring'
           /\ handlingFatal' => \E p \in Procs : \E k \in 1..Len(stack'[p]) :
                                    Fr1(p, k).kind = "snapshot" /\ Announced(Fr1(p, k))
<1>0. TypeOK /\ stack \in Stacks
    BY DEF WriterInv, TypeOK, Stacks
<1>1. ASSUME NEW p \in Procs, Notify(p)
      PROVE  /\ ~crashedDuring'
             /\ \E q \in Procs : \E k \in 1..Len(stack'[q]) :
                    Fr1(q, k).kind = "snapshot" /\ Announced(Fr1(q, k))
  <2>1. ~crashedDuring' /\ Top(p).kind = "snapshot"
      BY <1>1, NotifyFirst
  <2>2. PICK g : MovesWithin(p, g) /\ g.pc = IF Top(p).kind = "mach" THEN "switch" ELSE "handle"
      BY <1>0, <1>1, NotifyMoves
  <2>3. g.kind = "snapshot" /\ g.pc = "handle"
      BY <2>1, <2>2 DEF MovesWithin, SameCrash
  <2>4. Announced(g)
      BY <2>3 DEF Announced, HandlerPCs, Notifying, Kinds, UserKinds
  <2>5. stack[p] # <<>> /\ Len(stack[p]) \in Nat \ {0}
      BY <1>0, <1>1, TopAt DEF Notify, At
  <2>6. Len(stack[p]) \in 1..Len(stack'[p]) /\ Fr1(p, Len(stack[p])) = g
      BY <2>2, <2>5 DEF MovesWithin, Moves, Fr1
  <2> QED BY <2>1, <2>3, <2>4, <2>6
<1>2. CASE ~\E p \in Procs : Notify(p)
  <2>1. captured = {} /\ (handlingFatal' => handlingFatal) /\ crashedDuring' = crashedDuring
      BY <1>0, <1>2, FlagSteps
  <2>2. ASSUME handlingFatal'
        PROVE  \E p \in Procs : \E k \in 1..Len(stack'[p]) :
                    Fr1(p, k).kind = "snapshot" /\ Announced(Fr1(p, k))
    <3>1. PICK q \in Procs : \E j \in Levels(q) : Fr(q, j).kind = "snapshot" /\ Announced(Fr(q, j))
        BY <2>1, <2>2 DEF QuietInv, SnapshotSays
    <3>2. PICK j \in Levels(q) : Fr(q, j).kind = "snapshot" /\ Announced(Fr(q, j))
        BY <3>1
    <3>3. Fr(q, j).pc \notin {"enter", "exit"}
        BY <3>2 DEF Announced, HandlerPCs
    <3>4. CASE j \in 1..Len(stack'[q]) /\ Fr1(q, j) = Fr(q, j)
        BY <3>2, <3>4
    <3>5. CASE /\ Moving(q) /\ Top(q) = Fr(q, j) /\ j \in 1..Len(stack'[q])
               /\ MovesWithin(q, Fr1(q, j))
      <4>1. ~Post(q)
          BY <2>2, <3>2, <3>5 DEF Post, HandlingAfter
      <4>2. Announced(Fr1(q, j)) /\ Fr1(q, j).kind = "snapshot"
          BY <1>0, <3>2, <3>5, <4>1, AnnouncedMoves DEF MovesWithin, SameCrash
      <4> QED BY <3>5, <4>2
    <3> QED BY <3>3, <3>4, <3>5, Survives
  <2> QED BY <2>1, <2>2 DEF QuietInv, NoneDuring
<1> QED BY <1>1, <1>2

LEMMA MachNotesNext ==
    ASSUME WriterInv, QuietInv, [Next]_vars, captured' = {}, machHandling'
    PROVE  \E m \in MachThreads : 1 \in 1..Len(stack'[m]) /\ Fr1(m, 1).pc = "notify"
<1>0. TypeOK /\ stack \in Stacks /\ captured = {} /\ MachThreads \subseteq Procs
  <2>1. TypeOK /\ stack \in Stacks /\ MachThreads \subseteq Procs
      BY DEF WriterInv, TypeOK, Stacks, Procs
  <2> QED BY <2>1, FlagSteps
<1>1. ASSUME NEW p \in Procs, SuspendDone(p), Top(p).kind = "mach"
      PROVE  p \in MachThreads /\ 1 \in 1..Len(stack'[p]) /\ Fr1(p, 1).pc = "notify"
  <2>1. stack[p] # <<>> /\ Moving(p)
      BY <1>1 DEF SuspendDone, At, Moving
  <2>2. Len(stack[p]) \in Levels(p) /\ Len(stack[p]) \in Nat /\ Top(p) = Fr(p, Len(stack[p]))
      BY <1>0, <2>1, TopAt
  <2>3. p \in MachThreads
      BY <1>1, <2>2 DEF WriterInv, FramesInv, ThreadStacks, Procs
  <2>4. Len(stack[p]) = 1
      BY <1>1, <2>2, <2>3 DEF WriterInv, FramesInv, MachStacks
  <2>5. PICK g : MovesWithin(p, g) /\ FromSuspend(Top(p), g, p) /\ g.pc # "suspend"
      BY <1>0, <1>1, SuspendMoves
  <2>6. g.pc = "notify"
      BY <1>1, <2>5 DEF FromSuspend, Notifying, Kinds, UserKinds
  <2>7. Len(stack'[p]) = 1 /\ Fr1(p, 1) = g
      BY <2>4, <2>5 DEF MovesWithin, Moves, Fr1
  <2> QED BY <2>3, <2>6, <2>7
<1>2. CASE machHandling
  <2>1. PICK m \in MachThreads : 1 \in Levels(m) /\ Fr(m, 1).pc = "notify"
      BY <1>0, <1>2 DEF QuietInv, MachAnnounces, OutermostAt
  <2>2. CASE 1 \in 1..Len(stack'[m]) /\ Fr1(m, 1) = Fr(m, 1)
      BY <2>1, <2>2
  <2>3. CASE Moving(m) /\ stack[m] # <<>> /\ Top(m) = Fr(m, 1)
    <3>1. Top(m).kind = "mach"
        BY <2>1, <2>3 DEF WriterInv, FramesInv, MachStacks
    <3>2. Notify(m)
        BY <2>1, <2>3 DEF Moving, Records, Enter, SuspendOne, SuspendDone, SwitchMachThread,
           Handle, NextPath, OpenReport, WriteReport, RenameReport, RewriteReport, Post,
           ResumeOne, ResumeDone, At
    <3>3. Top(m).kind = "snapshot"
        BY <1>0, <3>2, NotifyFirst
    <3> QED BY <3>1, <3>3
  <2> QED BY <1>0, <2>1, <2>2, <2>3, Survives
<1> QED BY <1>0, <1>1, <1>2, FlagSteps

\* Holders that stay, one more, or one less.
LEMMA ExactKept ==
    ASSUME NEW t \in Threads, suspendCount[t] \in Nat, IsFiniteSet(Holders(t)), IsFiniteSet(Holders1(t)),
           Cardinality(Holders(t)) >= suspendCount[t],
           \/ Holders(t) \subseteq Holders1(t) /\ suspendCount'[t] = suspendCount[t]
           \/ \E x : /\ x \notin Holders(t) /\ Holders(t) \cup {x} \subseteq Holders1(t)
                     /\ suspendCount'[t] = suspendCount[t] + 1
           \/ \E x : Holders(t) \ {x} \subseteq Holders1(t) /\ x \in Holders(t)
                     /\ suspendCount'[t] = suspendCount[t] - 1
    PROVE  Cardinality(Holders1(t)) >= suspendCount'[t]
<1> DEFINE H == Holders(t)
           H1 == Holders1(t)
<1>0. Cardinality(H) \in Nat /\ Cardinality(H1) \in Nat
    BY FS_CardinalityType
<1>1. CASE H \subseteq H1 /\ suspendCount'[t] = suspendCount[t]
  <2>1. Cardinality(H) <= Cardinality(H1)
      BY <1>1, FS_Subset
  <2>2. Cardinality(H) >= suspendCount[t] /\ suspendCount'[t] = suspendCount[t]
      BY <1>1
  <2> HIDE DEF H, H1
  <2>3. Cardinality(H1) >= suspendCount'[t]
      BY <1>0, <2>1, <2>2
  <2> QED BY <2>3 DEF H1
<1>2. ASSUME NEW x, x \notin H, H \cup {x} \subseteq H1, suspendCount'[t] = suspendCount[t] + 1
      PROVE  Cardinality(H1) >= suspendCount'[t]
  <2>1. Cardinality(H \cup {x}) = Cardinality(H) + 1 /\ IsFiniteSet(H \cup {x})
      BY <1>2, FS_AddElement
  <2>2. Cardinality(H \cup {x}) <= Cardinality(H1)
      BY <1>2, FS_Subset
  <2>3. Cardinality(H) >= suspendCount[t]
      OBVIOUS
  <2> HIDE DEF H, H1
  <2> QED BY <1>0, <1>2, <2>1, <2>2, <2>3
<1>3. ASSUME NEW x \in H, H \ {x} \subseteq H1, suspendCount'[t] = suspendCount[t] - 1
      PROVE  Cardinality(H1) >= suspendCount'[t]
  <2>1. Cardinality(H \ {x}) = Cardinality(H) - 1 /\ IsFiniteSet(H \ {x})
      BY <1>3, FS_RemoveElement
  <2>2. Cardinality(H \ {x}) <= Cardinality(H1)
      BY <1>3, FS_Subset
  <2>3. Cardinality(H) >= suspendCount[t]
      OBVIOUS
  <2> HIDE DEF H, H1
  <2> QED BY <1>0, <1>3, <2>1, <2>2, <2>3
<1> QED BY <1>1, <1>2, <1>3

LEMMA CountNext ==
    ASSUME WriterInv, QuietInv, [Next]_vars, captured' = {}, NEW t \in Threads
    PROVE  Cardinality(Holders1(t)) >= suspendCount'[t]
<1>0. TypeOK /\ SuspendsOthers /\ HeldIsSuspended /\ stack \in Stacks /\ suspendCount \in [Threads -> Nat]
      /\ captured = {}
  <2>1. TypeOK /\ SuspendsOthers /\ HeldIsSuspended /\ stack \in Stacks /\ suspendCount \in [Threads -> Nat]
      BY DEF WriterInv, TypeOK, Stacks
  <2> QED BY <2>1, FlagSteps
<1>1. /\ IsFiniteSet(Holders(t)) /\ suspendCount[t] \in Nat
      /\ Cardinality(Holders(t)) <= suspendCount[t] /\ Cardinality(Holders(t)) >= suspendCount[t]
    BY <1>0 DEF HeldIsSuspended, QuietInv, CountIsExact
<1>2. IsFiniteSet(Holders1(t))
    BY <1>0, HeldNext, HoldersPrime DEF HeldIsSuspended
<1>3. CASE ~\E p \in Procs : SuspendOne(p) \/ ResumeOne(p)
  <2>1. suspendCount' = suspendCount
      BY <1>0, <1>3, OnlyMovingSuspends
  <2>2. ASSUME NEW q \in Procs, NEW k \in Levels(q), Holds(Fr(q, k), q, t)
        PROVE  k \in 1..Len(stack'[q]) /\ Holds(Fr1(q, k), q, t)
    <3>1. Fr(q, k).pc \notin {"enter", "exit"}
        BY <2>2 DEF Holds, HandlerPCs
    <3>2. CASE k \in 1..Len(stack'[q]) /\ Fr1(q, k) = Fr(q, k)
        BY <2>2, <3>2
    <3>3. CASE Moving(q) /\ Top(q) = Fr(q, k) /\ k \in 1..Len(stack'[q]) /\ MovesWithin(q, Fr1(q, k))
      <4>1. ~(Post(q) /\ Top(q).kind = "nsexception")
          BY PostIsQuiet
      <4> QED BY <1>0, <1>3, <2>2, <3>3, <4>1, HoldMoves
    <3> QED BY <3>1, <3>2, <3>3, Survives
  <2>3. Holders(t) \subseteq Holders1(t)
      BY <2>2 DEF Holders, Holders1
  <2> QED BY <1>1, <1>2, <2>1, <2>3, ExactKept
<1>4. ASSUME NEW p \in Procs, SuspendOne(p) \/ ResumeOne(p)
      PROVE  Cardinality(Holders1(t)) >= suspendCount'[t]
  <2> DEFINE n == Len(stack[p])
  <2>0. Moving(p) /\ stack[p] # <<>> /\ OthersStay({p})
      BY <1>4, MovingKeepsOthers DEF Moving, SuspendOne, ResumeOne, At
  <2>1. n \in Levels(p) /\ n \in Nat \ {0} /\ Top(p) = Fr(p, n)
      BY <1>0, <2>0, TopAt
  <2>2. ASSUME NEW g, MovesWithin(p, g), NEW q \in Procs, NEW k \in Levels(q), <<q, k>> # <<p, n>>
        PROVE  k \in 1..Len(stack'[q]) /\ Fr1(q, k) = Fr(q, k)
    <3>1. CASE q = p
      <4>1. k \in 1..n /\ k # n
          BY <2>2, <3>1 DEF Levels
      <4>2. k \in 1..(n - 1)
        <5> HIDE DEF n
        <5> QED BY <2>1, <4>1
      <4> QED BY <2>2, <3>1, <4>1, <4>2 DEF MovesWithin, Moves, Fr1
    <3>2. CASE q # p
        BY <2>0, <2>2, <3>2 DEF OthersStay, Fr1, Fr, Nth, Levels
    <3> QED BY <3>1, <3>2
  <2>3. ASSUME NEW g, MovesWithin(p, g) PROVE n \in 1..Len(stack'[p]) /\ Fr1(p, n) = g
      BY <2>1, <2>3 DEF MovesWithin, Moves, Fr1
  <2>4. CASE SuspendOne(p)
    <3>1. PICK u \in Top(p).todo : \E g :
             /\ MovesWithin(p, g) /\ Top(p).pc = "suspend" /\ g.pc = "suspend"
             /\ g.todo = Top(p).todo \ {u} /\ u \in Threads
             /\ suspendCount' = [suspendCount EXCEPT ![u] = @ + 1]
        BY <1>0, <2>4, SuspendMoves
    <3>2. PICK g : /\ MovesWithin(p, g) /\ Top(p).pc = "suspend" /\ g.pc = "suspend"
                   /\ g.todo = Top(p).todo \ {u}
                   /\ suspendCount' = [suspendCount EXCEPT ![u] = @ + 1]
        BY <3>1
    <3>3. g.kind = Top(p).kind /\ Top(p).todo \subseteq Others(p) /\ Top(p).kind \in Suspending
        BY <1>0, <2>1, <3>2 DEF MovesWithin, SameCrash, SuspendsOthers
    <3>4. Holds(Top(p), p, t) => Holds(g, p, t)
        BY <3>2, <3>3 DEF Holds, HandlerPCs
    <3> HIDE DEF n
    <3>5. Holders(t) \subseteq Holders1(t)
      <4>1. ASSUME NEW q \in Procs, NEW k \in Levels(q), Holds(Fr(q, k), q, t)
            PROVE  k \in 1..Len(stack'[q]) /\ Holds(Fr1(q, k), q, t)
          BY <2>1, <2>2, <2>3, <3>2, <3>4, <4>1
      <4> QED BY <4>1 DEF Holders, Holders1
    <3>6. CASE t # u
      <4>1. suspendCount'[t] = suspendCount[t]
          BY <1>0, <3>2, <3>6
      <4> QED BY <1>1, <1>2, <3>5, <4>1, ExactKept
    <3>7. CASE t = u
      <4>1. suspendCount'[t] = suspendCount[t] + 1
          BY <1>0, <3>2, <3>7
      <4>2. ~Holds(Top(p), p, t) /\ Holds(g, p, t)
          BY <3>1, <3>2, <3>3, <3>7 DEF Holds, HandlerPCs
      <4>3. <<p, n>> \notin Holders(t) /\ <<p, n>> \in Holders1(t)
          BY <2>1, <2>3, <3>2, <4>2 DEF Holders, Holders1
      <4>4. Holders(t) \cup {<<p, n>>} \subseteq Holders1(t)
          BY <3>5, <4>3
      <4> QED BY <1>1, <1>2, <4>1, <4>3, <4>4, ExactKept
    <3> QED BY <3>6, <3>7
  <2>5. CASE ResumeOne(p)
    <3>1. PICK u \in Top(p).todo : \E g :
             /\ MovesWithin(p, g) /\ Top(p).pc = "resume" /\ g.pc = "resume"
             /\ g.todo = Top(p).todo \ {u} /\ u \in Threads
             /\ suspendCount' = [suspendCount EXCEPT ![u] = IF @ > 0 THEN @ - 1 ELSE 0]
        BY <1>0, <2>5, SuspendMoves
    <3>2. PICK g : /\ MovesWithin(p, g) /\ Top(p).pc = "resume" /\ g.pc = "resume"
                   /\ g.todo = Top(p).todo \ {u}
                   /\ suspendCount' = [suspendCount EXCEPT ![u] = IF @ > 0 THEN @ - 1 ELSE 0]
        BY <3>1
    <3>3. g.kind = Top(p).kind /\ Top(p).todo \subseteq Others(p) /\ Top(p).kind \in Suspending
        BY <1>0, <2>1, <3>2 DEF MovesWithin, SameCrash, SuspendsOthers
    <3> HIDE DEF n
    <3>4. Holders(t) \ {<<p, n>>} \subseteq Holders1(t)
      <4>1. ASSUME NEW q \in Procs, NEW k \in Levels(q), Holds(Fr(q, k), q, t), <<q, k>> # <<p, n>>
            PROVE  k \in 1..Len(stack'[q]) /\ Holds(Fr1(q, k), q, t)
          BY <2>2, <3>2, <4>1
      <4> QED BY <4>1 DEF Holders, Holders1
    <3>5. CASE t # u
      <4>1. suspendCount'[t] = suspendCount[t]
          BY <1>0, <3>2, <3>5
      <4>2. <<p, n>> \in Holders(t) => <<p, n>> \in Holders1(t)
        <5>1. Holds(Top(p), p, t) => Holds(g, p, t)
            BY <3>2, <3>3, <3>5 DEF Holds, HandlerPCs
        <5> QED BY <2>1, <2>3, <3>2, <5>1 DEF Holders, Holders1
      <4>3. Holders(t) \subseteq Holders1(t)
          BY <3>4, <4>2
      <4> QED BY <1>1, <1>2, <4>1, <4>3, ExactKept
    <3>6. CASE t = u
      <4>1. Holds(Top(p), p, t)
          BY <3>1, <3>2, <3>3, <3>6 DEF Holds
      <4>2. <<p, n>> \in Holders(t)
          BY <2>1, <4>1 DEF Holders
      <4>3. suspendCount[t] # 0
        <5>1. Cardinality(Holders(t)) # 0 /\ Cardinality(Holders(t)) \in Nat
            BY <1>1, <4>2, FS_CardinalityType, FS_EmptySet
        <5> QED BY <1>1, <5>1
      <4>4. suspendCount'[t] = suspendCount[t] - 1
        <5>1. suspendCount'[t] = IF suspendCount[t] > 0 THEN suspendCount[t] - 1 ELSE 0
            BY <1>0, <3>2, <3>6
        <5> QED BY <1>1, <4>3, <5>1
      <4> QED BY <1>1, <1>2, <3>4, <4>2, <4>4, ExactKept
    <3> QED BY <3>5, <3>6
  <2> QED BY <1>4, <2>4, <2>5
<1> QED BY <1>3, <1>4

\* What holds of the recorder as long as no fatal exception was announced.
LEMMA QuietNext == WriterInv /\ QuietInv /\ [Next]_vars => QuietInv'
<1> SUFFICES ASSUME WriterInv, QuietInv, [Next]_vars PROVE QuietInv'
    OBVIOUS
<1>1. AnnouncedCaptured' /\ NestedAreSignals'
    BY AnnouncedNext, NestedNext DEF QuietInv, WriterInv
<1>2. SnapshotSays' /\ NoneDuring'
  <2>1. SnapshotSays'
      BY SnapshotNext DEF SnapshotSays, Fr1, Fr, Nth, Levels, Announced
  <2>2. NoneDuring'
      BY SnapshotNext DEF NoneDuring
  <2> QED BY <2>1, <2>2
<1>3. MachAnnounces'
    BY MachNotesNext DEF MachAnnounces, OutermostAt, Fr1, Fr, Nth, Levels
<1>4. CountIsExact'
    BY CountNext, HoldersPrime DEF CountIsExact
<1> QED BY <1>1, <1>2, <1>3, <1>4 DEF QuietInv

\* What the recorder keeps as long as no fatal exception was announced.
LEMMA QuietInvariant == Spec => []QuietInv
<1>1. Init => QuietInv
  <2> SUFFICES ASSUME Init PROVE QuietInv
      OBVIOUS
  <2>0. \A p \in Procs : Levels(p) = {}
      BY EmptyAtFirst
  <2>1. AnnouncedCaptured /\ NestedAreSignals
      BY <2>0 DEF AnnouncedCaptured, NestedAreSignals
  <2>2. SnapshotSays /\ NoneDuring /\ MachAnnounces
      BY DEF Init, SnapshotSays, NoneDuring, MachAnnounces
  <2>3. CountIsExact
    <3> SUFFICES ASSUME NEW t \in Threads PROVE Cardinality(Holders(t)) >= suspendCount[t]
        BY DEF CountIsExact
    <3>1. Holders(t) = {} /\ suspendCount[t] = 0
        BY <2>0 DEF Holders, Init
    <3> QED BY <3>1, FS_EmptySet
  <2> QED BY <2>1, <2>2, <2>3 DEF QuietInv
<1> QED BY <1>1, WriterInvariant, QuietNext, PTL DEF Spec

\* Snapshots and user reports that do not terminate the program leave the
\* recorder as they found it: however many of them overlapped, once no handler
\* is active no thread is left suspended and no fatal exception is on record.
THEOREM NonFatalNeverLeavesTrace == Spec => []NonFatalLeavesNoTrace
<1>1. WriterInv /\ QuietInv => NonFatalLeavesNoTrace
  <2> SUFFICES ASSUME WriterInv, QuietInv, \A p \in Procs : stack[p] = <<>>, captured = {}
               PROVE  (\A t \in Threads : suspendCount[t] = 0) /\ ~handlingFatal /\ ~crashedDuring
      BY DEF NonFatalLeavesNoTrace, Quiet
  <2>1. \A p \in Procs : Levels(p) = {}
      BY DEF Levels
  <2>2. ASSUME NEW t \in Threads PROVE suspendCount[t] = 0
    <3>1. Holders(t) = {}
        BY <2>1 DEF Holders
    <3>2. 0 >= suspendCount[t]
        BY <3>1, FS_EmptySet DEF QuietInv, CountIsExact
    <3>3. suspendCount[t] \in Nat
        BY DEF WriterInv, TypeOK
    <3> QED BY <3>2, <3>3
  <2>3. ~handlingFatal /\ ~crashedDuring
      BY <2>1 DEF QuietInv, SnapshotSays, NoneDuring
  <2> QED BY <2>2, <2>3
<1> QED BY <1>1, WriterInvariant, QuietInvariant, PTL

\* A step of vicrabcrash_setMonitoring moves the call on.
LEMMA CallMovesOn ==
    ASSUME TypeOK, NEW t \in Threads, Reconfigures(t)
    PROVE  setting' # setting
<1>1. t \in DOMAIN setting
    BY DEF TypeOK
<1>2. CASE SetMonitoring(t)
  <2>1. PICK types \in Choices : setting' = [setting EXCEPT ![t] =
           [types |-> Masked(types, requiresAsyncSafety), next |-> 1]]
      BY <1>2 DEF SetMonitoring
  <2>2. setting'[t].next = 1 /\ setting[t].next = 0
      BY <1>1, <1>2, <2>1 DEF SetMonitoring, Idle, NoSetting
  <2> QED BY <2>2
<1>3. CASE SetEnabled(t)
  <2>1. setting'[t].next = setting[t].next + 1 /\ setting[t].next \in 1..9
      BY <1>1, <1>3 DEF SetEnabled, Visited, Order
  <2> QED BY <2>1
<1>4. CASE SetActive(t)
  <2>1. setting'[t].next = 0 /\ setting[t].next = 10
      BY <1>1, <1>4 DEF SetActive, NoSetting, Order
  <2> QED BY <2>1
<1> QED BY <1>2, <1>3, <1>4 DEF Reconfigures

\* As long as nothing fatal was announced, no handler takes a monitor away,
\* whatever snapshots and user reports of other threads it meets: not even the
\* one that finds a snapshot on record as an exception that is being handled.
THEOREM NonFatalAlwaysKeepsMonitors == Spec => NonFatalKeepsMonitors
<1> DEFINE Kept == captured' = {} /\ UNCHANGED setting =>
                      UNCHANGED <<enabled, hooked, activeMonitors, machKnown>>
<1>1. WriterInv /\ QuietInv /\ [Next]_vars => Kept
  <2> SUFFICES ASSUME WriterInv, QuietInv, [Next]_vars, captured' = {}, setting' = setting
               PROVE  UNCHANGED <<enabled, hooked, activeMonitors, machKnown>>
      OBVIOUS
  <2>0. TypeOK
      BY DEF WriterInv
  <2>1. \A t \in Threads : ~Reconfigures(t)
      BY <2>0, CallMovesOn
  <2>2. ASSUME NEW p \in Procs, NewEvent(p) PROVE UNCHANGED monitors
      BY <2>2 DEF NewEvent
  <2>3. ASSUME NEW p \in Procs, Notify(p) PROVE UNCHANGED monitors
      BY <2>3, NotifyFirst DEF Notify, OnNotify, KeepMonitors
  <2>4. ASSUME NEW p \in Procs, Post(p) PROVE UNCHANGED monitors
      BY <2>4, PostIsQuiet DEF Post, KeepMonitors
  <2>5. ASSUME NEW p \in Procs, SwitchMachThread(p)
        PROVE  UNCHANGED <<enabled, hooked, activeMonitors, machKnown>>
    <3>1. CASE p = Primary
      <4>1. stack \in Stacks /\ stack[p] # <<>> /\ Top(p).pc = "switch" /\ captured = {}
          BY <2>0, <2>5 DEF TypeOK, Stacks, SwitchMachThread, At
      <4>2. Top(p).kind \in {"mach", "signal"}
          BY <3>1, <4>1, TopAt DEF WriterInv, FramesInv, MachStacks, MachThreads
      <4>3. Top(p).kind \in FatalKinds /\ Announced(Top(p))
          BY <4>1, <4>2 DEF Announced, FatalKinds, Notifying, Kinds
      <4> QED BY <4>1, <4>3, TopAt DEF QuietInv, AnnouncedCaptured
    <3>2. CASE p # Primary
        BY <2>5, <3>2 DEF SwitchMachThread
    <3> QED BY <3>1, <3>2
  <2>6. ASSUME NEW p \in Procs, Moving(p), ~Notify(p), ~Post(p), ~SwitchMachThread(p)
        PROVE  UNCHANGED monitors
      BY <2>6 DEF Moving, Records, Enter, SuspendOne, SuspendDone,
           Handle, NextPath, OpenReport, WriteReport, RenameReport, RewriteReport,
           ResumeOne, ResumeDone, WriterStep
  <2>7. ASSUME NEW p \in Procs, Leaves(p) \/ CancelledAtFile(p) PROVE UNCHANGED monitors
      BY <2>7 DEF Leaves, Leaving, Return, Abort, Reraise, CallNSExceptionHandler, MachReply,
           CancelledAtFile
  <2>8. ASSUME NEW m \in MachThreads, MachReceive(m) PROVE UNCHANGED monitors
      BY <2>8 DEF MachReceive
  <2>9. UNCHANGED vars => UNCHANGED monitors
      BY DEF vars
  <2>10. UNCHANGED monitors => UNCHANGED <<enabled, hooked, activeMonitors, machKnown>>
      BY DEF monitors
  <2> QED BY <2>0, <2>1, <2>2, <2>3, <2>4, <2>5, <2>6, <2>7, <2>8, <2>9, <2>10, StepCases
<1> QED BY <1>1, WriterInvariant, QuietInvariant, PTL DEF Spec, NonFatalKeepsMonitors

-----------------------------------------------------------------------------
(* A crash that is alone is recorded *)

\* The report files are as installation left them; the lone event is in one,
\* and in the application state unless the program chose other monitors.
Untouched == \A r \in ReportIDs : report[r] = Absent
Noted == reconfigs = 0 /\ "appstate" \in Monitoring => crashedThisLaunch
Told == 1 \in RecordedEvents /\ Noted

\* How far the only handler frame there is has come with the first report.
BeforeFile(f) ==
    \/ f.pc \in {"enter", "suspend", "notify", "switch", "handle", "path"}
    \/ f.kind \in FatalKinds \cup {"nsthrow"} /\ captured = {}
OnItsWay(f) ==
    /\ f.pc \in {"enter", "suspend", "notify"} \/ f.kind \notin FatalKinds => captured = {}
    /\ BeforeFile(f) => Untouched
    /\ f.pc \in HandlerPCs \cup {"switch"} => f.kind # "nsthrow"
    /\ f.pc \notin {"rename", "rewrite"}
    /\ f.pc \in {"open", "write"} => f.path \in ReportIDs
    /\ f.pc = "open" => report[f.path] = Absent
    /\ f.pc = "write" => report[f.path].creator = f.event
    /\ f.pc \in {"path", "open", "write"} /\ f.kind # "snapshot" => Noted
    /\ f.pc = "post" => f.kind = "snapshot"

\* As long as it is not told, its first report is under way, or an exception
\* thread that was cancelled took it with it and the process cannot die.
Fresh ==
    /\ ~crashedDuring
    /\ events = 0 \/ port # <<>> => Untouched /\ captured = {}
    /\ reconfigs = 0 /\ "appstate" \in Monitoring => "appstate" \in enabled
    /\ \A p \in Procs : \A k \in Levels(p) : OnItsWay(Fr(p, k))
    /\ captured # {} => ~dead /\ \A p \in Procs : \A k \in Levels(p) : Announced(Fr(p, k))

\* The .old file is there only while a report embeds it.
Embedding(f) == f.pc = "rewrite" => f.path \in ReportIDs /\ report[f.path].creator = f.event
OldEmbedded ==
    /\ events = 0 \/ port # <<>> => old = Absent
    /\ old = Absent \/ \A p \in Procs : \A k \in Levels(p) : Fr(p, k).pc = "rewrite"
    /\ \A p \in Procs : \A k \in Levels(p) : Embedding(Fr(p, k))

LoneInv == events <= 1 => OldEmbedded /\ (Told \/ Fresh)

\* The same of the next state.
OnItsWay1(f) ==
    /\ f.pc \in {"enter", "suspend", "notify"} \/ f.kind \notin FatalKinds => captured' = {}
    /\ \/ f.pc \in {"enter", "suspend", "notify", "switch", "handle", "path"}
       \/ f.kind \in FatalKinds \cup {"nsthrow"} /\ captured' = {}
       => Untouched'
    /\ f.pc \in HandlerPCs \cup {"switch"} => f.kind # "nsthrow"
    /\ f.pc \notin {"rename", "rewrite"}
    /\ f.pc \in {"open", "write"} => f.path \in ReportIDs
    /\ f.pc = "open" => report'[f.path] = Absent
    /\ f.pc = "write" => report'[f.path].creator = f.event
    /\ f.pc \in {"path", "open", "write"} /\ f.kind # "snapshot" => Noted'
    /\ f.pc = "post" => f.kind = "snapshot"
LEMMA FreshPrime ==
    ASSUME ~crashedDuring',
           events' = 0 \/ port' # <<>> => Untouched' /\ captured' = {},
           reconfigs' = 0 /\ "appstate" \in Monitoring => "appstate" \in enabled',
           \A p \in Procs : \A k \in 1..Len(stack'[p]) : OnItsWay1(Fr1(p, k)),
           captured' # {} => ~dead' /\ \A p \in Procs : \A k \in 1..Len(stack'[p]) : Announced(Fr1(p, k))
    PROVE  Fresh'
BY DEF Fresh, OnItsWay, OnItsWay1, BeforeFile, Fr1, Fr, Nth, Levels, Announced
LEMMA OldPrime ==
    ASSUME events' = 0 \/ port' # <<>> => old' = Absent,
           old' = Absent \/ \A p \in Procs : \A k \in 1..Len(stack'[p]) : Fr1(p, k).pc = "rewrite",
           \A p \in Procs : \A k \in 1..Len(stack'[p]) : Fr1(p, k).pc = "rewrite" =>
              /\ Fr1(p, k).path \in ReportIDs
              /\ report'[Fr1(p, k).path].creator = Fr1(p, k).event
    PROVE  OldEmbedded'
BY DEF OldEmbedded, Embedding, Fr1, Fr, Nth, Levels

\* A lone event is in one frame, and then in no message.
LEMMA OneFrame ==
    ASSUME TypeOK, EventsApart, events <= 1, NEW p \in Procs, NEW k \in Levels(p)
    PROVE  /\ Fr(p, k).event = 1 /\ events = 1 /\ port = <<>> /\ captured \subseteq {1}
           /\ \A q \in Procs : \A j \in Levels(q) : q = p /\ j = k
<1>0. stack \in Stacks /\ port \in Seq([victim : Procs, event : Events]) /\ captured \subseteq Events
      /\ events \in Nat
    BY ConstantsAssumption DEF TypeOK, Stacks
<1>1. \A q \in Procs : \A j \in Levels(q) : Fr(q, j).event = 1 /\ events = 1
  <2> SUFFICES ASSUME NEW q \in Procs, NEW j \in Levels(q) PROVE Fr(q, j).event = 1 /\ events = 1
      OBVIOUS
  <2>1. Fr(q, j).event \in Nat \ {0}
      BY <1>0, FrameType, ConstantsAssumption DEF Frames, Events
  <2>2. Fr(q, j).event <= events
      BY DEF EventsApart
  <2> QED BY <1>0, <2>1, <2>2
<1>2. \A q \in Procs : \A j \in Levels(q) : q = p /\ j = k
    BY <1>1 DEF EventsApart
<1>3. port = <<>>
  <2> SUFFICES ASSUME port # <<>> PROVE FALSE
      OBVIOUS
  <2> DEFINE M == [victim : Procs, event : Events]
  <2>0. 1 \in 1..Len(port) /\ port[1] \in M
    <3>1. port \in Seq(M)
        BY <1>0
    <3> HIDE DEF M
    <3> QED BY <3>1
  <2>1. 1 \in 1..Len(port) /\ port[1].event \in Nat \ {0}
      BY <2>0, ConstantsAssumption DEF Events
  <2>2. port[1].event <= events /\ Fr(p, k).event # port[1].event
      BY <2>1 DEF EventsApart
  <2> QED BY <1>0, <1>1, <2>1, <2>2
<1>4. captured \subseteq {1}
  <2>1. \A e \in captured : e \in Nat \ {0} /\ e <= events
      BY <1>0, ConstantsAssumption DEF Events, EventsApart
  <2> QED BY <1>0, <2>1
<1>5. Fr(p, k).event = 1 /\ events = 1
    BY <1>1
<1> QED BY <1>2, <1>3, <1>4, <1>5

\* What holds when a lone frame takes a step.
LEMMA LoneTop ==
    ASSUME TypeOK, EventsApart, events <= 1, NEW p \in Procs, stack[p] # <<>>
    PROVE  /\ Top(p) \in Frames /\ Top(p).event = 1 /\ events = 1 /\ port = <<>> /\ captured \subseteq {1}
           /\ stack \in Stacks /\ Len(stack[p]) \in Levels(p) /\ Top(p) = Fr(p, Len(stack[p]))
           /\ \A q \in Procs : \A j \in Levels(q) : q = p /\ j = Len(stack[p]) /\ Fr(q, j) = Top(p)
<1>1. stack \in Stacks
    BY DEF TypeOK, Stacks
<1>2. Len(stack[p]) \in Levels(p) /\ Top(p) = Fr(p, Len(stack[p])) /\ Top(p) \in Frames
    BY <1>1, TopAt
<1>3. \A q \in Procs : \A j \in Levels(q) : q = p /\ j = Len(stack[p])
    BY <1>2, OneFrame
<1> QED BY <1>1, <1>2, <1>3, OneFrame
LEMMA LoneNone ==
    ASSUME TypeOK, EventsApart, events = 0 \/ port # <<>>, events <= 1
    PROVE  \A q \in Procs : \A k \in Levels(q) : FALSE
BY OneFrame
LEMMA LoneMoved ==
    ASSUME TypeOK, EventsApart, events <= 1, NEW p \in Procs, stack[p] # <<>>, NEW g, Moves(p, g)
    PROVE  \A q \in Procs : \A k \in 1..Len(stack'[q]) : Fr1(q, k) = g
BY LoneTop, AfterMove DEF Fr1
LEMMA LoneEnded ==
    ASSUME TypeOK, EventsApart, events <= 1, NEW p \in Procs, stack[p] # <<>>, Ends(p)
    PROVE  \A q \in Procs : \A k \in 1..Len(stack'[q]) : FALSE
BY LoneTop, AfterEnd

LEMMA FreshMove ==
    ASSUME TypeOK, EventsApart, Fresh, events <= 1, NEW p \in Procs, stack[p] # <<>>,
           NEW g, Moves(p, g), OnItsWay1(g), ~crashedDuring', UNCHANGED <<port, events>>, dead' = FALSE,
           reconfigs' = 0 /\ "appstate" \in Monitoring => "appstate" \in enabled',
           captured' # {} => Announced(g)
    PROVE  Fresh'
<1>1. \A q \in Procs : \A k \in 1..Len(stack'[q]) : Fr1(q, k) = g
    BY LoneMoved
<1>2. port' = <<>> /\ events' # 0
    BY LoneTop
<1> QED BY <1>1, <1>2, FreshPrime

\* Files that keep what is complete in them.
LEMMA RecordedSame ==
    ASSUME UNCHANGED <<report, old>>
    PROVE  RecordedEvents' = RecordedEvents /\ Untouched' = Untouched
BY DEF RecordedEvents, Untouched
LEMMA RecordedGrows ==
    ASSUME \A r \in ReportIDs : report[r].events \subseteq report'[r].events, old.events \subseteq old'.events
    PROVE  RecordedEvents \subseteq RecordedEvents'
BY DEF RecordedEvents

\* Only onCrash touches the files, and what is noted stays noted.
LEMMA FilesSteps ==
    ASSUME TypeOK, [Next]_vars
    PROVE  /\ UNCHANGED <<report, old>> \/ \E p \in Procs : Records(p)
           /\ Noted => Noted'
<1>0. reconfigs \in Nat /\ crashedThisLaunch \in BOOLEAN
    BY ConstantsAssumption DEF TypeOK
<1> DEFINE Goal == /\ UNCHANGED <<report, old>> \/ \E p \in Procs : Records(p)
                   /\ Noted => Noted'
<1>1. ASSUME NEW t \in Threads, Reconfigures(t) PROVE Goal
  <2>1. UNCHANGED <<report, old>> /\ reconfigs' # 0
      BY <1>1, Reconfigured DEF files
  <2> QED BY <2>1 DEF Noted
<1>2. ASSUME NEW p \in Procs, NewEvent(p) PROVE Goal
    BY <1>2 DEF NewEvent, files, Noted
<1>3. ASSUME NEW p \in Procs, Moving(p) PROVE Goal
  <2>1. UNCHANGED reconfigs
      BY <1>3, MovingShape
  <2>2. crashedThisLaunch => crashedThisLaunch'
      BY <1>0, <1>3 DEF Moving, Records, Enter, SuspendOne, SuspendDone, Notify, SwitchMachThread,
             Handle, NextPath, OpenReport, WriteReport, RenameReport, RewriteReport, Post,
             ResumeOne, ResumeDone, WriterStep
  <2>3. UNCHANGED <<report, old>> \/ Records(p)
      BY <1>3 DEF Moving, Enter, SuspendOne, SuspendDone, Notify, SwitchMachThread, Post,
             ResumeOne, ResumeDone, files
  <2> QED BY <2>1, <2>2, <2>3 DEF Noted
<1>4. ASSUME NEW p \in Procs, Leaves(p) PROVE Goal
    BY <1>4, LeaveShape DEF files, bounds, Noted
<1>5. ASSUME NEW p \in Procs, CancelledAtFile(p) PROVE Goal
    BY <1>5 DEF CancelledAtFile, files, bounds, Noted
<1>6. ASSUME NEW m \in MachThreads, MachReceive(m) PROVE Goal
    BY <1>6 DEF MachReceive, files, bounds, Noted
<1>7. CASE UNCHANGED vars
    BY <1>7 DEF vars, files, bounds, Noted
<1> QED BY <1>1, <1>2, <1>3, <1>4, <1>5, <1>6, <1>7, StepCases

\* Where a report that embeds another comes from.
LEMMA NoRewrite ==
    ASSUME TypeOK, NEW p \in Procs, Moving(p), ~Records(p)
    PROVE  Top(p).pc # "rewrite" /\ (Ends(p) \/ \E g : MovesWithin(p, g) /\ g.pc # "rewrite")
<1>0. stack \in Stacks /\ stack[p] # <<>>
    BY MovingShape
<1>1. CASE Enter(p)
    BY <1>0, <1>1, EnterMoves, PopOnly DEF FromEnter, Ends
<1>2. CASE SuspendOne(p) \/ SuspendDone(p) \/ ResumeOne(p) \/ ResumeDone(p)
    BY <1>2, SuspendMoves DEF FromSuspend
<1>3. CASE Notify(p) \/ SwitchMachThread(p)
    BY <1>3, NotifyMoves
<1>4. CASE Post(p)
    BY <1>4, PostMoves DEF FromPost
<1> QED BY <1>1, <1>2, <1>3, <1>4 DEF Moving

\* onCrash keeps what is recorded complete, where a .old file that is left over is
\* embedded first and the embedding report is the writer's own.
LEMMA RecordedStep ==
    ASSUME TypeOK, NEW p \in Procs, Records(p), Top(p).pc = "rename" => old = Absent, Embedding(Top(p))
    PROVE  RecordedEvents \subseteq RecordedEvents'
<1> DEFINE f == Top(p)
<1>0. /\ f \in Frames /\ report \in [ReportIDs -> Files] /\ old \in Files
      /\ f.pc = "rewrite" => f.path \in ReportIDs /\ report[f.path].creator = f.event
      /\ f.pc = "rename" => old = Absent
    BY MovingShape DEF Moving, TypeOK, Embedding
<1>1. CASE Handle(p) \/ NextPath(p)
    BY <1>1, RecordedSame DEF Handle, NextPath, files
<1>2. CASE OpenReport(p)
  <2>1. /\ UNCHANGED old
        /\ report' = IF report[f.path] = Absent THEN [report EXCEPT ![f.path] = CreatedBy(f.event)]
                     ELSE report
      BY <1>2 DEF OpenReport
  <2>2. \A r \in ReportIDs : report[r].events \subseteq report'[r].events
    <3> SUFFICES ASSUME NEW r \in ReportIDs PROVE report[r].events \subseteq report'[r].events
        OBVIOUS
    <3>1. CASE r = f.path /\ report[f.path] = Absent
        BY <3>1 DEF Absent
    <3>2. CASE ~(r = f.path /\ report[f.path] = Absent)
      <4>1. report'[r] = report[r]
        <5> HIDE DEF f
        <5> QED BY <1>0, <2>1, <3>2
      <4> QED BY <4>1
    <3> QED BY <3>1, <3>2
  <2> QED BY <2>1, <2>2, RecordedGrows
<1>3. CASE WriteReport(p)
  <2>1. /\ UNCHANGED old
        /\ report' = IF report[f.path].creator = f.event
                     THEN [report EXCEPT ![f.path].events = @ \cup {f.event}] ELSE report
      BY <1>3 DEF WriteReport
  <2> HIDE DEF f
  <2>2. \A r \in ReportIDs : report[r].events \subseteq report'[r].events
      BY <1>0, <2>1 DEF Files
  <2> QED BY <2>1, <2>2, RecordedGrows
<1>4. CASE RenameReport(p)
  <2>1. old = Absent
      BY <1>0, <1>4 DEF RenameReport, At
  <2>2. CASE lastPath = NoReport
      BY <1>4, <2>2, RecordedSame DEF RenameReport
  \* The .old file was not there, so that none is overwritten.
  <2>3. CASE lastPath # NoReport
    <3>1. /\ lastPath \in ReportIDs
          /\ old' = OldAfterRename /\ report' = [report EXCEPT ![lastPath] = CreatedBy(f.event)]
        BY <1>4, <2>3 DEF RenameReport, TypeOK, Paths
    <3> HIDE DEF f
    <3>2. old.events = {}
        BY <2>1 DEF Absent
    <3>3. \A r \in ReportIDs \ {lastPath} : report'[r] = report[r]
        BY <1>0, <3>1
    <3>4. report[lastPath].events \subseteq old'.events
        BY <3>1 DEF OldAfterRename, Absent
    <3>5. \A r \in ReportIDs : report[r].events \subseteq RecordedEvents'
        BY <3>3, <3>4 DEF RecordedEvents
    <3> QED BY <3>2, <3>5 DEF RecordedEvents
  <2> QED BY <2>2, <2>3
<1>5. CASE RewriteReport(p)
  <2>1. /\ old' = Absent /\ f.path \in ReportIDs
        /\ report' = [report EXCEPT ![f.path].events = @ \cup old.events]
      BY <1>0, <1>5 DEF RewriteReport, At
  <2> HIDE DEF f
  <2>2. /\ \A r \in ReportIDs : report[r].events \subseteq report'[r].events
        /\ old.events \subseteq report'[f.path].events
      BY <1>0, <2>1 DEF Files
  <2> QED BY <2>1, <2>2 DEF RecordedEvents
<1> QED BY <1>1, <1>2, <1>3, <1>4, <1>5 DEF Records

\* The .old file is new, embedded or as it was.
LEMMA OldStep ==
    ASSUME TypeOK, NEW p \in Procs, Records(p), NEW g, MovesWithin(p, g)
    PROVE  \/ old' = old /\ Top(p).pc # "rewrite" /\ g.pc # "rewrite"
           \/ old' = Absent /\ RewriteReport(p) /\ g.pc # "rewrite"
           \/ /\ RenameReport(p) /\ g.pc = "rewrite" /\ g.path \in ReportIDs
              /\ report' = [report EXCEPT ![g.path] = CreatedBy(g.event)]
<1> DEFINE f == Top(p)
<1>0. stack \in Stacks /\ stack[p] # <<>> /\ f \in Frames
    BY MovingShape DEF Moving
<1>1. Writes(f.pc, g.pc)
    BY <1>0, RecordMoves, OneMove
<1>2. CASE Handle(p) \/ NextPath(p) \/ OpenReport(p) \/ WriteReport(p)
  <2>1. f.pc \in {"handle", "path", "open", "write"} /\ UNCHANGED old
      BY <1>2 DEF Handle, NextPath, OpenReport, WriteReport, At, files
  <2> QED BY <1>1, <2>1 DEF Writes
<1>3. CASE RewriteReport(p)
    BY <1>1, <1>3 DEF RewriteReport, At, Writes
<1>4. CASE RenameReport(p)
  <2> DEFINE h == [f EXCEPT !.pc = "rewrite", !.path = lastPath]
             e == [f EXCEPT !.pc = "post"]
  <2>1. CASE lastPath = NoReport
    <3>1. UNCHANGED old /\ stack' = WithTop(stack, p, e) /\ f.pc = "rename"
        BY <1>4, <2>1 DEF RenameReport, At
    <3>2. e \in Frames /\ e.pc = "post"
        BY <1>0 DEF Frames, PCs
    <3> HIDE DEF e, f
    <3>3. Moves(p, e)
        BY <1>0, <3>1, <3>2, WithTopMoves
    <3>4. g = e
        BY <3>3 DEF MovesWithin, Moves
    <3> QED BY <3>1, <3>2, <3>4 DEF f
  <2>2. CASE lastPath # NoReport
    <3>1. /\ lastPath \in ReportIDs /\ stack' = WithTop(stack, p, h)
          /\ report' = [report EXCEPT ![lastPath] = CreatedBy(f.event)]
        BY <1>4, <2>2 DEF RenameReport, TypeOK, Paths
    <3>2. h \in Frames /\ h.pc = "rewrite" /\ h.path = lastPath /\ h.event = f.event
        BY <1>0, <3>1 DEF Frames, PCs, Paths
    <3> HIDE DEF h, f
    <3>3. Moves(p, h)
        BY <1>0, <3>1, <3>2, WithTopMoves
    <3>4. g = h
        BY <3>3 DEF MovesWithin, Moves
    <3> QED BY <1>4, <3>1, <3>2, <3>4
  <2> QED BY <2>1, <2>2
<1> QED BY <1>2, <1>3, <1>4 DEF Records

\* A report with the lone event keeps it, or the one that embeds it does.
LEMMA LoneFiles ==
    ASSUME TypeOK, EventsApart, OldEmbedded, events <= 1, NEW p \in Procs, Records(p)
    PROVE  OldEmbedded' /\ RecordedEvents \subseteq RecordedEvents'
<1>0. /\ stack[p] # <<>> /\ events = 1 /\ port = <<>> /\ UNCHANGED <<port, events>>
      /\ Embedding(Top(p)) /\ (Top(p).pc # "rewrite" => old = Absent)
      /\ report \in [ReportIDs -> Files]
  <2>1. stack[p] # <<>> /\ UNCHANGED <<port, events>>
      BY MovingShape DEF Moving
  <2>2. Len(stack[p]) \in Levels(p) /\ Top(p) = Fr(p, Len(stack[p])) /\ events = 1 /\ port = <<>>
      BY <2>1, LoneTop
  <2> QED BY <2>1, <2>2 DEF OldEmbedded, TypeOK
<1>1. RecordedEvents \subseteq RecordedEvents'
    BY <1>0, RecordedStep
<1>2. PICK g : MovesWithin(p, g)
    BY RecordMoves
<1>3. \A q \in Procs : \A k \in 1..Len(stack'[q]) : Fr1(q, k) = g
    BY <1>0, <1>2, LoneMoved DEF MovesWithin
<1>4. \/ old' = Absent /\ g.pc # "rewrite"
      \/ g.pc = "rewrite" /\ g.path \in ReportIDs /\ report' = [report EXCEPT ![g.path] = CreatedBy(g.event)]
    BY <1>0, <1>2, OldStep
<1>5. g.pc = "rewrite" => g.path \in ReportIDs /\ report'[g.path].creator = g.event
    BY <1>0, <1>4 DEF CreatedBy
<1>6. OldEmbedded'
    BY <1>0, <1>3, <1>4, <1>5, OldPrime
<1> QED BY <1>1, <1>6

\* The .old file is there only while it is being embedded.
LEMMA LoneOld ==
    ASSUME TypeOK, EventsApart, OldEmbedded, events' <= 1, [Next]_vars
    PROVE  OldEmbedded'
<1>0. events \in Nat
    BY ConstantsAssumption DEF TypeOK
<1>1. ASSUME NEW t \in Threads, Reconfigures(t) PROVE OldEmbedded'
  <2>1. StacksStay /\ UNCHANGED <<report, old, port, events>>
      BY <1>1, ReconfigurationStays, Reconfigured DEF files, kernel
  <2>2. \A q \in Procs : \A k \in 1..Len(stack'[q]) : k \in Levels(q) /\ Fr1(q, k) = Fr(q, k)
      BY <2>1, AfterStay DEF Fr1
  <2> QED BY <2>1, <2>2, OldPrime DEF OldEmbedded, Embedding
<1>2. ASSUME NEW p \in Procs, NewEvent(p) PROVE OldEmbedded'
  <2>1. events' = events + 1 /\ UNCHANGED <<report, old>>
      BY <1>2 DEF NewEvent, files
  <2>2. events = 0
      BY <1>0, <2>1
  <2>3. old' = Absent
      BY <2>1, <2>2 DEF OldEmbedded
  <2>4. \A q \in Procs : \A k \in Levels(q) : FALSE
      BY <2>2, LoneNone
  <2>5. CASE stack' = stack
    <3>1. \A q \in Procs : \A k \in 1..Len(stack'[q]) : FALSE
        BY <2>4, <2>5 DEF Levels
    <3> QED BY <2>3, <3>1, OldPrime
  <2>6. ASSUME NEW g, Starts(p, g) PROVE OldEmbedded'
    <3>0. stack \in Stacks
        BY DEF TypeOK, Stacks
    <3>1. \A q \in Procs : \A k \in 1..Len(stack'[q]) : Fr1(q, k) = g
        BY <3>0, <2>4, <2>6, AfterPush DEF Fr1, Starts
    <3>2. g.pc = "enter"
        BY <2>6 DEF Starts, FreshFrame
    <3> QED BY <2>3, <3>1, <3>2, OldPrime
  <2> QED BY <1>2, <2>5, <2>6 DEF NewEvent
<1>3. ASSUME NEW p \in Procs, Moving(p), ~Records(p) PROVE OldEmbedded'
  <2>1. stack[p] # <<>> /\ UNCHANGED <<port, events>> /\ UNCHANGED <<report, old>>
    <3>1. UNCHANGED <<report, old>>
        BY <1>3 DEF Moving, Enter, SuspendOne, SuspendDone, Notify, SwitchMachThread, Post,
             ResumeOne, ResumeDone, files
    <3> QED BY <1>3, <3>1, MovingShape
  <2>2. old' = Absent
    <3>1. Len(stack[p]) \in Levels(p) /\ Top(p) = Fr(p, Len(stack[p]))
        BY <2>1, LoneTop
    <3> QED BY <1>3, <2>1, <3>1, NoRewrite DEF OldEmbedded
  <2>3. CASE Ends(p)
    <3>1. \A q \in Procs : \A k \in 1..Len(stack'[q]) : FALSE
        BY <2>1, <2>3, LoneEnded
    <3> QED BY <2>2, <3>1, OldPrime
  <2>4. ASSUME NEW g, MovesWithin(p, g), g.pc # "rewrite" PROVE OldEmbedded'
    <3>1. \A q \in Procs : \A k \in 1..Len(stack'[q]) : Fr1(q, k) = g
        BY <2>1, <2>4, LoneMoved DEF MovesWithin
    <3> QED BY <2>2, <2>4, <3>1, OldPrime
  <2> QED BY <1>3, <2>3, <2>4, NoRewrite
<1>4. ASSUME NEW p \in Procs, Records(p) PROVE OldEmbedded'
  <2>1. UNCHANGED events
      BY <1>4, MovingShape DEF Moving
  <2> QED BY <1>4, <2>1, LoneFiles
<1>5. ASSUME NEW p \in Procs, Leaves(p) PROVE OldEmbedded'
  <2>1. stack[p] # <<>> /\ Top(p).pc = "exit" /\ UNCHANGED <<report, old, port, events>>
      BY <1>5, LeaveShape DEF files, bounds
  <2>2. old' = Absent
    <3>1. Len(stack[p]) \in Levels(p) /\ Top(p) = Fr(p, Len(stack[p]))
        BY <2>1, LoneTop
    <3> QED BY <2>1, <3>1 DEF OldEmbedded
  <2>3. CASE Ends(p)
    <3>1. \A q \in Procs : \A k \in 1..Len(stack'[q]) : FALSE
        BY <2>1, <2>3, LoneEnded
    <3> QED BY <2>2, <3>1, OldPrime
  <2>4. ASSUME NEW g, Continues(p, g), \A q \in Procs : \A k \in 1..Len(stack'[q]) : Fr1(q, k) = g
        PROVE  OldEmbedded'
    <3>1. g.pc = "enter"
        BY <2>4 DEF Continues, FreshFrame
    <3> QED BY <2>2, <2>4, <3>1, OldPrime
  <2>5. ASSUME NEW g, Continues(p, g), Moves(p, g) PROVE OldEmbedded'
      BY <2>1, <2>4, <2>5, LoneMoved
  <2>6. ASSUME NEW g, Continues(p, g), Top(p).subject \in Procs \ {p}, HandsTo(p, Top(p).subject, g)
        PROVE  OldEmbedded'
    <3>1. \A q \in Procs : \A k \in 1..Len(stack'[q]) : Fr1(q, k) = g
        BY <2>1, <2>6, LoneTop, AfterHand DEF Fr1
    <3> QED BY <2>4, <2>6, <3>1
  <2> QED BY <1>5, <2>3, <2>5, <2>6, LeaveShape
<1>6. ASSUME NEW p \in Procs, CancelledAtFile(p) PROVE OldEmbedded'
  <2>1. /\ stack[p] # <<>> /\ UNCHANGED <<report, old, port, events>>
        /\ \A q \in Procs : \A k \in 1..Len(stack'[q]) : q # p /\ k \in Levels(q)
      BY <1>6, CancelShape DEF CancelledAtFile, files
  <2>2. port' = <<>> /\ events' # 0 /\ \A q \in Procs : \A k \in 1..Len(stack'[q]) : FALSE
      BY <2>1, LoneTop
  <2> QED BY <2>2, OldPrime
<1>7. ASSUME NEW m \in MachThreads, MachReceive(m) PROVE OldEmbedded'
  <2>1. port # <<>> /\ UNCHANGED <<report, old, events>>
      BY <1>7 DEF MachReceive, files, bounds
  <2>2. old' = Absent /\ \A q \in Procs : \A k \in Levels(q) : FALSE
      BY <2>1, LoneNone DEF OldEmbedded
  <2>3. \A q \in Procs : \A k \in 1..Len(stack'[q]) : Fr1(q, k).pc = "enter"
      BY <1>7, <2>2, AfterReceive DEF Fr1, Frame
  <2> QED BY <2>2, <2>3, OldPrime
<1>8. CASE UNCHANGED vars
  <2>1. UNCHANGED <<report, old, port, events, stack>>
      BY <1>8 DEF vars, files, kernel, bounds
  <2>2. \A q \in Procs : \A k \in 1..Len(stack'[q]) : k \in Levels(q) /\ Fr1(q, k) = Fr(q, k)
      BY <2>1 DEF Fr1, Fr, Nth, Levels
  <2> QED BY <2>1, <2>2, OldPrime DEF OldEmbedded, Embedding
<1> QED BY <1>1, <1>2, <1>3, <1>4, <1>5, <1>6, <1>7, <1>8, StepCases

\* Steps of the lone frame before its report is begun, and after it is complete.
Around(p) == Enter(p) \/ SuspendOne(p) \/ SuspendDone(p) \/ SwitchMachThread(p) \/ ResumeOne(p) \/ ResumeDone(p)
LEMMA FreshAround ==
    ASSUME TypeOK, EventsApart, Fresh, events <= 1, NEW p \in Procs, Around(p)
    PROVE  Fresh'
<1> DEFINE f == Top(p)
<1>0. /\ stack \in Stacks /\ stack[p] # <<>> /\ Moving(p) /\ dead' = FALSE /\ UNCHANGED <<port, events, reconfigs>>
      /\ UNCHANGED <<report, old, captured, crashedDuring, crashedThisLaunch, enabled>>
  <2>1. Moving(p) /\ stack[p] # <<>> /\ Runnable(p)
      BY DEF Around, Moving, Enter, SuspendOne, SuspendDone, SwitchMachThread, ResumeOne, ResumeDone, At
  <2>2. stack \in Stacks /\ UNCHANGED <<port, dead, events, reconfigs>>
      BY <2>1, MovingShape
  <2>3. UNCHANGED <<report, old, captured, crashedDuring, crashedThisLaunch, enabled>>
      BY DEF Around, Enter, SuspendOne, SuspendDone, SwitchMachThread, ResumeOne, ResumeDone,
         files, flags, monitors
  <2>4. dead = FALSE
      BY <2>1 DEF Runnable, TypeOK
  <2> QED BY <2>1, <2>2, <2>3, <2>4
<1>1. /\ f.event = 1 /\ events = 1 /\ OnItsWay(f) /\ port = <<>> /\ ~crashedDuring
      /\ captured # {} => Announced(f)
      /\ reconfigs = 0 /\ "appstate" \in Monitoring => "appstate" \in enabled
    BY <1>0, LoneTop DEF Fresh
<1>2. Untouched' = Untouched /\ Noted' = Noted
  <2>1. Untouched' = Untouched
      BY <1>0, RecordedSame
  <2> QED BY <1>0, <2>1 DEF Noted
<1>3. ASSUME NEW g, MovesWithin(p, g), OnItsWay1(g), captured # {} => Announced(g)
      PROVE  Fresh'
  <2>1. Moves(p, g) /\ UNCHANGED <<port, events>> /\ dead' = FALSE /\ ~crashedDuring'
      BY <1>0, <1>1, <1>3 DEF MovesWithin
  <2>2. /\ reconfigs' = 0 /\ "appstate" \in Monitoring => "appstate" \in enabled'
        /\ captured' # {} => Announced(g)
      BY <1>0, <1>1, <1>3
  <2> HIDE DEF f
  <2> QED BY <1>0, <1>3, <2>1, <2>2, FreshMove
\* Nothing was captured and no file begun.
<1>4. ASSUME NEW g, MovesWithin(p, g), f.pc \in {"enter", "suspend"},
             g.pc \in {"suspend", "notify", "handle", "resume", "exit"}, g.pc = "handle" => g.kind # "nsthrow"
      PROVE  Fresh'
  <2>1. captured = {} /\ Untouched
      BY <1>1, <1>4 DEF OnItsWay, BeforeFile
  <2>2. OnItsWay1(g)
      BY <1>0, <1>2, <1>4, <2>1 DEF OnItsWay1, HandlerPCs
  <2> QED BY <1>3, <1>4, <2>1, <2>2
<1>5. CASE Enter(p)
  <2>1. CASE f.pc = "enter" /\ stack' = Popped(stack, p)
    <3>1. captured = {}
        BY <1>1, <2>1 DEF OnItsWay
    <3>2. Ends(p)
        BY <1>0, <2>1, PopOnly DEF Ends
    <3>3. \A q \in Procs : \A k \in 1..Len(stack'[q]) : FALSE
        BY <1>0, <1>1, <3>2, LoneEnded
    <3> QED BY <1>0, <1>1, <3>1, <3>3, FreshPrime
  <2>2. CASE \E g : MovesWithin(p, g) /\ FromEnter(f, g, p)
    <3>1. PICK g : MovesWithin(p, g) /\ FromEnter(f, g, p)
        BY <2>2
    <3>2. /\ f.pc = "enter" /\ g.pc \in {"suspend", "notify", "handle", "exit"}
          /\ g.pc = "handle" => g.kind # "nsthrow"
        BY <3>1 DEF FromEnter, MovesWithin, SameCrash, Suspending, Kinds
    <3> QED BY <1>4, <3>1, <3>2
  <2> QED BY <1>5, <2>1, <2>2, EnterMoves
<1>6. CASE SuspendOne(p)
  <2>1. PICK g : MovesWithin(p, g) /\ f.pc = "suspend" /\ g.pc = "suspend"
      BY <1>6, SuspendMoves
  <2> QED BY <1>4, <2>1
<1>7. CASE SuspendDone(p)
  <2>1. PICK g : MovesWithin(p, g) /\ g.pc # "suspend" /\ FromSuspend(f, g, p)
      BY <1>7, SuspendMoves
  <2>2. /\ f.pc = "suspend" /\ g.pc \in {"notify", "handle", "resume"}
        /\ g.pc = "handle" => g.kind # "nsthrow"
      BY <2>1 DEF FromSuspend, MovesWithin, SameCrash
  <2> QED BY <1>4, <2>1, <2>2
<1>8. CASE SwitchMachThread(p)
  <2>1. PICK g : MovesWithin(p, g) /\ f.pc = "switch" /\ g.pc = "handle"
      BY <1>8, NotifyMoves
  <2>2. g.kind = f.kind /\ g.event = f.event
      BY <2>1 DEF MovesWithin, SameCrash
  <2>3. Untouched /\ (f.kind \notin FatalKinds => captured = {}) /\ f.kind # "nsthrow"
      BY <1>1, <2>1 DEF OnItsWay, BeforeFile
  <2>4. OnItsWay1(g)
      BY <1>0, <1>2, <2>1, <2>2, <2>3 DEF OnItsWay1
  <2>5. Announced(f) => Announced(g)
      BY <2>1, <2>2 DEF Announced, HandlerPCs
  <2> QED BY <1>1, <1>3, <2>1, <2>4, <2>5
<1>9. CASE ResumeOne(p) \/ ResumeDone(p)
  <2>1. PICK g : MovesWithin(p, g) /\ f.pc = "resume" /\ g.pc \in {"resume", "exit"}
      BY <1>9, SuspendMoves
  <2>2. g.kind = f.kind /\ g.event = f.event
      BY <2>1 DEF MovesWithin, SameCrash
  <2>3. OnItsWay1(g)
      BY <1>0, <1>1, <1>2, <2>1, <2>2 DEF OnItsWay1, OnItsWay, BeforeFile, HandlerPCs
  <2>4. captured = {}
      BY <1>1, <2>1 DEF Announced, HandlerPCs
  <2> QED BY <1>3, <2>1, <2>3, <2>4
<1> QED BY <1>5, <1>6, <1>7, <1>8, <1>9 DEF Around

\* The announcement is the first one.
LEMMA FreshNotify ==
    ASSUME TypeOK, EventsApart, QuietInv, Fresh, events <= 1, NEW p \in Procs, Notify(p)
    PROVE  Fresh'
<1> DEFINE f == Top(p)
<1>0. stack \in Stacks /\ stack[p] # <<>> /\ Runnable(p) /\ f.pc = "notify" /\ dead = FALSE
    BY DEF TypeOK, Stacks, Notify, At, Runnable
<1>1. /\ f \in Frames /\ f.event = 1 /\ events = 1 /\ OnItsWay(f) /\ port = <<>> /\ ~crashedDuring
      /\ Len(stack[p]) \in Levels(p) /\ f = Fr(p, Len(stack[p]))
      /\ \A q \in Procs : \A j \in Levels(q) : Fr(q, j) = f
      /\ reconfigs = 0 /\ "appstate" \in Monitoring => "appstate" \in enabled
    BY <1>0, LoneTop DEF Fresh
<1>2. captured = {} /\ Untouched
    BY <1>0, <1>1 DEF OnItsWay, BeforeFile
<1>3. ~handlingFatal
  <2>1. ~Announced(f)
      BY <1>0 DEF Announced, HandlerPCs
  <2> QED BY <1>1, <1>2, <2>1 DEF QuietInv, SnapshotSays
<1>4. f.kind \in Notifying
    BY <1>0, <1>1 DEF QuietInv, AnnouncedCaptured
<1>5. /\ ~crashedDuring' /\ captured' = (IF f.kind \in FatalKinds THEN captured \cup {f.event} ELSE captured)
      /\ UNCHANGED <<enabled, report, old, crashedThisLaunch, port, dead, events, reconfigs>>
  <2>1. crashedDuring' = (crashedDuring \/ handlingFatal)
        /\ captured' = (IF f.kind \in FatalKinds THEN captured \cup {f.event} ELSE captured)
        /\ UNCHANGED <<crashedThisLaunch, files, kernel, bounds>>
      BY DEF Notify
  <2>2. ~crashedDuring'
      BY <1>1, <1>3, <2>1
  <2>3. UNCHANGED monitors
      BY <2>2 DEF Notify, OnNotify, KeepMonitors
  <2> QED BY <2>1, <2>2, <2>3 DEF monitors, files, kernel, bounds
<1>6. PICK g : MovesWithin(p, g) /\ g.pc = IF f.kind = "mach" THEN "switch" ELSE "handle"
    BY NotifyMoves
<1>7. g.kind = f.kind /\ g.event = f.event /\ g.pc \in {"switch", "handle"}
    BY <1>6 DEF MovesWithin, SameCrash
<1>8. Announced(g)
    BY <1>4, <1>7 DEF Announced, HandlerPCs
<1>9. Untouched' = Untouched
    BY <1>5, RecordedSame
<1>10. OnItsWay1(g)
    BY <1>2, <1>4, <1>5, <1>7, <1>9 DEF OnItsWay1, Notifying
<1>11. Moves(p, g)
    BY <1>6 DEF MovesWithin
<1>12. dead' = FALSE
    BY <1>0, <1>5
<1> HIDE DEF f
<1> QED BY <1>0, <1>1, <1>5, <1>8, <1>10, <1>11, <1>12, FreshMove

\* The steps of onCrash: the report has a name of its own and gets the event.
LEMMA FreshRecords ==
    ASSUME TypeOK, EventsApart, QuietInv, Fresh, events <= 1, NEW p \in Procs, Records(p)
    PROVE  Told' \/ Fresh'
<1> DEFINE f == Top(p)
<1>0. /\ stack \in Stacks /\ stack[p] # <<>> /\ Runnable(p)
      /\ UNCHANGED <<port, dead, events, reconfigs, captured, crashedDuring, enabled>>
  <2>1. stack \in Stacks /\ stack[p] # <<>> /\ Runnable(p)
      BY DEF TypeOK, Stacks, Records, Handle, NextPath, OpenReport, WriteReport, RenameReport,
             RewriteReport, At
  <2>2. UNCHANGED <<port, dead, events, reconfigs, captured, crashedDuring, enabled>>
      BY DEF Records, Handle, NextPath, OpenReport, WriteReport, RenameReport, RewriteReport,
             WriterStep, kernel, bounds, flags, monitors
  <2> QED BY <2>1, <2>2
<1>1. /\ f \in Frames /\ f.event = 1 /\ events = 1 /\ OnItsWay(f) /\ port = <<>> /\ ~crashedDuring
      /\ captured # {} => Announced(f)
      /\ reconfigs = 0 /\ "appstate" \in Monitoring => "appstate" \in enabled
    BY <1>0, LoneTop DEF Fresh
<1>2. dead' = FALSE /\ ~crashedDuring' /\ UNCHANGED <<port, events>>
    BY <1>0, <1>1 DEF Runnable, TypeOK
<1>3. ASSUME NEW g \in Frames, stack' = WithTop(stack, p, g), OnItsWay1(g), g.kind = f.kind,
             g.pc \in HandlerPCs, f.pc \in HandlerPCs
      PROVE  Fresh'
  <2>1. Moves(p, g)
      BY <1>0, <1>3, WithTopMoves
  <2>2. Announced(f) => Announced(g)
      BY <1>3 DEF Announced
  <2>3. /\ captured' # {} => Announced(g)
        /\ reconfigs' = 0 /\ "appstate" \in Monitoring => "appstate" \in enabled'
      BY <1>0, <1>1, <1>3, <2>2
  <2> HIDE DEF f
  <2> QED BY <1>0, <1>2, <1>3, <2>1, <2>3, FreshMove
<1>4. CASE Handle(p)
  <2> DEFINE g == [f EXCEPT !.recrash = FALSE, !.pc = "path"]
  <2>1. /\ f.pc = "handle" /\ crashedDuring = FALSE /\ UNCHANGED <<report, old>>
        /\ crashedThisLaunch' = (crashedThisLaunch \/ (f.kind # "snapshot" /\ "appstate" \in enabled))
      BY <1>1, <1>4 DEF Handle, At, files, TypeOK
  <2>2. stack' = WithTop(stack, p, g)
      BY <1>4, <2>1 DEF Handle, IsRecrash
  <2>3. g \in Frames /\ g.kind = f.kind /\ g.event = f.event /\ g.pc = "path"
      BY <1>1, <2>1 DEF Frames, PCs
  <2>4. Untouched' = Untouched
      BY <2>1, RecordedSame
  <2>5. f.kind # "snapshot" => Noted'
      BY <1>0, <1>1, <2>1 DEF Noted
  <2>6. Untouched /\ (f.kind \notin FatalKinds => captured = {}) /\ f.kind # "nsthrow"
      BY <1>1, <2>1 DEF OnItsWay, BeforeFile, HandlerPCs
  <2> HIDE DEF g
  <2>7. OnItsWay1(g)
      BY <1>0, <2>3, <2>4, <2>5, <2>6 DEF OnItsWay1
  <2> QED BY <1>3, <2>1, <2>2, <2>3, <2>5, <2>7 DEF HandlerPCs
<1>5. CASE NextPath(p)
  <2> DEFINE g == [f EXCEPT !.pc = "open", !.path = nextID]
  <2>1. /\ f.pc = "path" /\ nextID \in ReportIDs /\ stack' = WithTop(stack, p, g)
        /\ UNCHANGED <<report, old, crashedThisLaunch>>
      BY <1>5 DEF NextPath, At
  <2>2. /\ g \in Frames /\ g.kind = f.kind /\ g.event = f.event /\ g.pc = "open" /\ g.path = nextID
      BY <1>1, <2>1 DEF Frames, PCs, Paths
  <2>3. Untouched' = Untouched /\ Noted' = Noted
    <3>1. Untouched' = Untouched
        BY <2>1, RecordedSame
    <3> QED BY <1>0, <2>1, <3>1 DEF Noted
  <2>4. Untouched /\ (f.kind \notin FatalKinds => captured = {}) /\ (f.kind # "snapshot" => Noted)
        /\ f.kind # "nsthrow"
      BY <1>1, <2>1 DEF OnItsWay, BeforeFile, HandlerPCs
  <2> HIDE DEF g
  <2>5. report'[g.path] = Absent
      BY <2>1, <2>2, <2>4 DEF Untouched
  <2>6. OnItsWay1(g)
      BY <1>0, <2>1, <2>2, <2>3, <2>4, <2>5 DEF OnItsWay1
  <2> QED BY <1>3, <2>1, <2>2, <2>3, <2>6 DEF HandlerPCs
\* No report has its name, so it is not given up.
<1>6. CASE OpenReport(p)
  <2> DEFINE g == [f EXCEPT !.pc = "write"]
  <2>1. /\ f.pc = "open" /\ f.path \in ReportIDs /\ report[f.path] = Absent
        /\ f.kind # "snapshot" => Noted
        /\ f.kind \notin FatalKinds => captured = {}
        /\ f.kind \in FatalKinds \cup {"nsthrow"} /\ captured = {} => Untouched
      BY <1>1, <1>6 DEF OnItsWay, BeforeFile, OpenReport, At
  <2>2. /\ report' = [report EXCEPT ![f.path] = CreatedBy(f.event)] /\ stack' = WithTop(stack, p, g)
        /\ UNCHANGED <<old, crashedThisLaunch>>
      BY <1>6, <2>1 DEF OpenReport, WriterStep
  <2>3. g \in Frames /\ g.kind = f.kind /\ g.event = f.event /\ g.pc = "write" /\ g.path = f.path
      BY <1>1 DEF Frames, PCs
  <2>4. report'[f.path].creator = f.event
    <3>1. report \in [ReportIDs -> Files]
        BY DEF TypeOK
    <3>3. report'[f.path] = CreatedBy(f.event)
        BY <2>1, <2>2, <3>1
    <3>4. CreatedBy(f.event).creator = f.event
        BY DEF CreatedBy
    <3> HIDE DEF f
    <3> QED BY <3>3, <3>4
  <2>5. Noted' = Noted
      BY <1>0, <2>2 DEF Noted
  \* Whoever opens a report was captured, or is a report the program asked for.
  <2>6. f.kind # "nsthrow" /\ (f.kind \in FatalKinds => captured # {})
    <3>1. f.kind # "nsthrow"
        BY <1>1, <2>1 DEF OnItsWay, HandlerPCs
    <3>2. Len(stack[p]) \in Levels(p) /\ f = Fr(p, Len(stack[p]))
        BY <1>0, TopAt
    <3>3. f.kind \in FatalKinds => Announced(f)
        BY <2>1 DEF Announced, HandlerPCs, FatalKinds
    <3> QED BY <3>1, <3>2, <3>3 DEF QuietInv, AnnouncedCaptured
  <2> HIDE DEF g
  <2>7. OnItsWay1(g)
      BY <1>0, <2>1, <2>3, <2>4, <2>5, <2>6 DEF OnItsWay1
  <2> QED BY <1>3, <2>1, <2>2, <2>3, <2>5, <2>7 DEF HandlerPCs
<1>7. CASE WriteReport(p)
  <2> DEFINE g == [f EXCEPT !.pc = "post"]
  <2>1. /\ f.pc = "write" /\ f.path \in ReportIDs /\ report[f.path].creator = f.event
        /\ f.kind # "snapshot" => Noted
        /\ f.kind \notin FatalKinds => captured = {}
        /\ f.kind # "nsthrow"
      BY <1>1, <1>7 DEF OnItsWay, WriteReport, At, HandlerPCs
  <2>2. /\ report' = [report EXCEPT ![f.path].events = @ \cup {f.event}] /\ stack' = WithTop(stack, p, g)
        /\ UNCHANGED <<old, crashedThisLaunch>>
      BY <1>7, <2>1 DEF WriteReport, WriterStep
  <2>3. g \in Frames /\ g.kind = f.kind /\ g.event = f.event /\ g.pc = "post" /\ g.path = f.path
      BY <1>1 DEF Frames, PCs
  \* With that the event is told, unless a snapshot needs no telling.
  <2>4. CASE f.kind # "snapshot"
    <3>1. report \in [ReportIDs -> Files]
        BY DEF TypeOK
    <3>2. report'[f.path].events = report[f.path].events \cup {f.event}
      <4> HIDE DEF f
      <4> QED BY <2>1, <2>2, <3>1 DEF Files
    <3>3. 1 \in RecordedEvents'
        BY <1>1, <2>1, <3>2 DEF RecordedEvents
    <3>4. Noted'
        BY <1>0, <2>1, <2>2, <2>4 DEF Noted
    <3> QED BY <3>3, <3>4 DEF Told
  <2>5. CASE f.kind = "snapshot"
    <3>1. f.kind \notin FatalKinds
        BY <2>5 DEF FatalKinds
    <3> HIDE DEF g
    <3>2. OnItsWay1(g)
        BY <1>0, <2>1, <2>3, <2>5, <3>1 DEF OnItsWay1
    <3> QED BY <1>3, <2>1, <2>2, <2>3, <3>2 DEF HandlerPCs
  <2> QED BY <2>4, <2>5
<1>8. CASE RenameReport(p) \/ RewriteReport(p)
    BY <1>1, <1>8 DEF RenameReport, RewriteReport, At, OnItsWay
<1> QED BY <1>4, <1>5, <1>6, <1>7, <1>8 DEF Records

\* An event that is not told when its handling ends is a snapshot.
LEMMA FreshPost ==
    ASSUME TypeOK, EventsApart, Fresh, events <= 1, NEW p \in Procs, Post(p)
    PROVE  Fresh'
<1> DEFINE f == Top(p)
<1>0. /\ stack[p] # <<>> /\ Runnable(p) /\ f.pc = "post" /\ dead = FALSE
      /\ UNCHANGED <<report, old, crashedThisLaunch, captured, crashedDuring, port, dead, events, reconfigs>>
  <2>1. stack[p] # <<>> /\ Runnable(p) /\ f.pc = "post"
      BY DEF Post, At
  <2>2. UNCHANGED <<report, old, crashedThisLaunch, captured, crashedDuring, port, dead, events, reconfigs>>
      BY DEF Post, files, kernel, bounds
  <2> QED BY <2>1, <2>2 DEF Runnable, TypeOK
<1>1. /\ OnItsWay(f) /\ ~crashedDuring
      /\ reconfigs = 0 /\ "appstate" \in Monitoring => "appstate" \in enabled
    BY <1>0, LoneTop DEF Fresh
<1>2. f.kind = "snapshot" /\ captured = {}
    BY <1>0, <1>1 DEF OnItsWay, FatalKinds
<1>3. PICK g : MovesWithin(p, g) /\ g.pc \in {"resume", "exit"}
    BY PostMoves DEF FromPost
<1>4. g.kind = "snapshot" /\ Moves(p, g)
    BY <1>2, <1>3 DEF MovesWithin, SameCrash
<1>5. OnItsWay1(g)
    BY <1>0, <1>2, <1>3, <1>4 DEF OnItsWay1, HandlerPCs, FatalKinds
<1>6. UNCHANGED enabled
  <2> DEFINE next == WithTop(stack, p,
                       IF f.kind \in Suspending \ {"nsexception"}
                       THEN [f EXCEPT !.pc = "resume", !.todo = Others(p)]
                       ELSE [f EXCEPT !.pc = "exit"])
  <2>1. IF EndsMonitoring(f) THEN Uninstall(p, next) ELSE KeepMonitors(next)
      BY DEF Post
  <2> HIDE DEF next
  <2> QED BY <1>2, <2>1 DEF EndsMonitoring, KeepMonitors, monitors
<1> HIDE DEF f
<1> QED BY <1>0, <1>1, <1>2, <1>4, <1>5, <1>6, FreshMove

\* What leaves a handler untold was never captured, nor is there a file of it
\* when another handler takes it up.
LEMMA FreshLeaves ==
    ASSUME TypeOK, EventsApart, Fresh, events <= 1, NEW p \in Procs, Leaves(p)
    PROVE  Fresh'
<1> DEFINE f == Top(p)
<1>0. /\ stack \in Stacks /\ stack[p] # <<>> /\ f.pc = "exit" /\ Runnable(p)
      /\ UNCHANGED <<report, old, crashedThisLaunch, captured, crashedDuring, port, events, enabled, reconfigs>>
  <2>1. stack \in Stacks
      BY DEF TypeOK, Stacks
  <2> QED BY <2>1, LeaveShape DEF files, flags, bounds, monitors
<1>1. /\ OnItsWay(f) /\ events = 1 /\ ~crashedDuring /\ port = <<>>
      /\ captured # {} => Announced(f)
      /\ reconfigs = 0 /\ "appstate" \in Monitoring => "appstate" \in enabled
    BY <1>0, LoneTop DEF Fresh
<1>2. captured = {}
    BY <1>0, <1>1 DEF Announced, HandlerPCs
<1>3. Untouched' = Untouched
    BY <1>0, RecordedSame
<1>4. /\ captured' = {} /\ ~crashedDuring' /\ events' # 0 /\ port' = <<>>
      /\ reconfigs' = 0 /\ "appstate" \in Monitoring => "appstate" \in enabled'
    BY <1>0, <1>1, <1>2
<1> HIDE DEF f
<1>5. CASE Ends(p)
  <2>1. \A q \in Procs : \A k \in 1..Len(stack'[q]) : FALSE
      BY <1>0, <1>5, LoneEnded
  <2> QED BY <1>4, <2>1, FreshPrime
<1>6. ASSUME NEW g, ~Ends(p), Continues(p, g), \A q \in Procs : \A k \in 1..Len(stack'[q]) : Fr1(q, k) = g
      PROVE  Fresh'
  <2>1. g.pc = "enter"
      BY <1>6 DEF Continues, FreshFrame
  <2>2. f.kind \in FatalKinds \cup {"nsthrow"}
    <3>1. ~Return(p)
        BY <1>0, <1>6, PopOnly DEF Return, Ends
    <3> QED BY <3>1 DEF Leaves, Abort, Reraise, CallNSExceptionHandler, MachReply, Leaving, f,
               Aborting, FatalKinds, UserKinds, Kinds, Notifying
  <2>3. Untouched
      BY <1>1, <1>2, <2>2 DEF OnItsWay, BeforeFile
  <2>4. OnItsWay1(g)
      BY <1>3, <1>4, <2>1, <2>3 DEF OnItsWay1, HandlerPCs
  <2> QED BY <1>4, <1>6, <2>4, FreshPrime
<1>7. ASSUME NEW g, ~Ends(p), Continues(p, g), Moves(p, g)
      PROVE  Fresh'
    BY <1>0, <1>6, <1>7, LoneMoved
<1>8. ASSUME NEW g, ~Ends(p), Continues(p, g), f.subject \in Procs \ {p}, HandsTo(p, f.subject, g)
      PROVE  Fresh'
  <2>1. \A q \in Procs : \A k \in 1..Len(stack'[q]) : Fr1(q, k) = g
      BY <1>0, <1>8, LoneTop, AfterHand DEF Fr1
  <2> QED BY <1>6, <1>8, <2>1
<1> QED BY <1>5, <1>7, <1>8, LeaveShape DEF f

\* An exception thread that was cancelled takes its report with it; its victim
\* then waits for a reply, and the process does not die.
LEMMA FreshCancelled ==
    ASSUME TypeOK, EventsApart, Fresh, events <= 1, NEW p \in Procs, CancelledAtFile(p)
    PROVE  Fresh'
<1>1. /\ stack[p] # <<>>
      /\ UNCHANGED <<report, old, captured, crashedDuring, port, events, enabled, reconfigs, dead>>
      /\ \A q \in Procs : \A k \in 1..Len(stack'[q]) : q # p /\ k \in Levels(q)
    BY CancelShape DEF CancelledAtFile, files, flags
<1>2. /\ events = 1 /\ port = <<>> /\ \A q \in Procs : \A k \in 1..Len(stack'[q]) : FALSE
    BY <1>1, LoneTop
<1> QED BY <1>1, <1>2, FreshPrime DEF Fresh

\* The event in a message is in no file and announced by nobody.
LEMMA FreshReceive ==
    ASSUME TypeOK, EventsApart, Fresh, events <= 1, NEW m \in MachThreads, MachReceive(m)
    PROVE  Fresh'
<1>0. /\ port # <<>>
      /\ UNCHANGED <<report, old, captured, crashedDuring, events, enabled, reconfigs>>
    BY DEF MachReceive, files, flags, bounds, monitors
<1>1. \A q \in Procs : \A k \in Levels(q) : FALSE
    BY <1>0, LoneNone
<1>2. Untouched /\ captured = {} /\ Untouched' = Untouched
    BY <1>0, RecordedSame DEF Fresh
<1> DEFINE g == Frame("mach", port[1].event, port[1].victim)
<1>3. \A q \in Procs : \A k \in 1..Len(stack'[q]) : Fr1(q, k) = g
    BY <1>1, AfterReceive DEF Fr1
<1>4. g.pc = "enter"
    BY DEF Frame
<1> HIDE DEF g
<1>5. OnItsWay1(g)
    BY <1>0, <1>2, <1>4 DEF OnItsWay1, HandlerPCs
<1> QED BY <1>0, <1>2, <1>3, <1>5, FreshPrime DEF Fresh

\* The first event finds everything as installation left it.
LEMMA FreshNew ==
    ASSUME TypeOK, EventsApart, Fresh, events' <= 1, NEW p \in Procs, NewEvent(p)
    PROVE  Fresh'
<1>0. /\ stack \in Stacks /\ events \in Nat /\ events' = events + 1
      /\ UNCHANGED <<report, old, captured, crashedDuring, enabled, reconfigs>>
    BY ConstantsAssumption DEF TypeOK, Stacks, NewEvent, files, flags, monitors
<1>1. events = 0
    BY <1>0
<1>2. \A q \in Procs : \A k \in Levels(q) : FALSE
    BY <1>1, LoneNone
<1>3. Untouched /\ captured = {} /\ Untouched' = Untouched
    BY <1>0, <1>1, RecordedSame DEF Fresh
<1>4. CASE stack' = stack
  <2>1. \A q \in Procs : \A k \in 1..Len(stack'[q]) : FALSE
      BY <1>2, <1>4 DEF Levels
  <2> QED BY <1>0, <1>3, <2>1, FreshPrime DEF Fresh
<1>5. ASSUME NEW g, Starts(p, g) PROVE Fresh'
  <2>1. \A q \in Procs : \A k \in 1..Len(stack'[q]) : Fr1(q, k) = g
      BY <1>0, <1>2, <1>5, AfterPush DEF Fr1, Starts
  <2>2. g.pc = "enter"
      BY <1>5 DEF Starts, FreshFrame
  <2>3. OnItsWay1(g)
      BY <1>0, <1>3, <2>2 DEF OnItsWay1, HandlerPCs
  <2> QED BY <1>0, <1>3, <2>1, <2>3, FreshPrime DEF Fresh
<1> QED BY <1>4, <1>5 DEF NewEvent

\* Other monitors change nothing of it but what the application state says.
LEMMA FreshStays ==
    ASSUME Fresh, UNCHANGED <<report, old, captured, crashedDuring, port, dead, events>>, StacksStay, Noted => Noted',
           reconfigs' = 0 /\ "appstate" \in Monitoring => "appstate" \in enabled'
    PROVE  Fresh'
<1>1. \A q \in Procs : \A k \in 1..Len(stack'[q]) : k \in Levels(q) /\ Fr1(q, k) = Fr(q, k)
    BY AfterStay DEF Fr1
<1>2. Untouched' = Untouched
    BY RecordedSame
<1>3. \A f : OnItsWay(f) => OnItsWay1(f)
    BY <1>2 DEF OnItsWay, OnItsWay1, BeforeFile
<1> QED BY <1>1, <1>2, <1>3, FreshPrime DEF Fresh

LEMMA LoneNext == WriterInv /\ QuietInv /\ LoneInv /\ [Next]_vars => LoneInv'
<1> SUFFICES ASSUME WriterInv, QuietInv, LoneInv, [Next]_vars, events' <= 1 PROVE LoneInv'
    BY DEF LoneInv
<1>0. TypeOK /\ EventsApart
    BY DEF WriterInv
<1>1. events <= 1 /\ events \in Nat /\ reconfigs \in Nat
  <2>1. events \in Nat /\ reconfigs \in Nat
      BY <1>0, ConstantsAssumption DEF TypeOK
  <2>2. events' = events + 1 \/ events' = events
    <3>1. ASSUME NEW p \in Procs, NewEvent(p) \/ Moving(p) \/ Leaves(p) \/ CancelledAtFile(p)
          PROVE  events' = events + 1 \/ events' = events
        BY <1>0, <3>1, MovingShape, LeaveShape, CancelShape DEF NewEvent, bounds
    <3> QED BY <1>0, <3>1, StepCases, Reconfigured DEF MachReceive, bounds, vars
  <2> QED BY <2>1, <2>2
<1>2. OldEmbedded' /\ (Told \/ Fresh)
    BY <1>0, <1>1, LoneOld DEF LoneInv
<1>3. CASE Told
  <2>1. RecordedEvents \subseteq RecordedEvents'
      BY <1>0, <1>1, FilesSteps, LoneFiles, RecordedSame DEF LoneInv
  <2>2. Told'
      BY <1>0, <1>3, <2>1, FilesSteps DEF Told
  <2> QED BY <1>2, <2>2 DEF LoneInv
<1>4. CASE Fresh
  <2>1. ASSUME NEW t \in Threads, Reconfigures(t) PROVE Fresh'
    <3>1. /\ reconfigs' # 0
          /\ UNCHANGED <<report, old, captured, crashedDuring, port, dead, events>>
        BY <1>0, <2>1, Reconfigured DEF files, kernel, flags
    <3> QED BY <1>0, <1>4, <2>1, <3>1, ReconfigurationStays, FreshStays, FilesSteps
  <2>2. ASSUME NEW p \in Procs, NewEvent(p) PROVE Fresh'
      BY <1>0, <1>4, <2>2, FreshNew
  <2>3. ASSUME NEW p \in Procs, Moving(p) PROVE Told' \/ Fresh'
    <3>1. Around(p) \/ Notify(p) \/ Records(p) \/ Post(p)
        BY <2>3 DEF Moving, Around
    <3> QED BY <1>0, <1>1, <1>4, <3>1, FreshAround, FreshNotify, FreshRecords, FreshPost
  <2>4. ASSUME NEW p \in Procs, Leaves(p) PROVE Fresh'
      BY <1>0, <1>1, <1>4, <2>4, FreshLeaves
  <2>5. ASSUME NEW p \in Procs, CancelledAtFile(p) PROVE Fresh'
      BY <1>0, <1>1, <1>4, <2>5, FreshCancelled
  <2>6. ASSUME NEW m \in MachThreads, MachReceive(m) PROVE Fresh'
      BY <1>0, <1>1, <1>4, <2>6, FreshReceive
  <2>7. ASSUME UNCHANGED vars PROVE Fresh'
    <3>1. /\ UNCHANGED <<report, old, captured, crashedDuring, port, dead, events, reconfigs, enabled>>
          /\ StacksStay
        BY <2>7 DEF vars, files, flags, kernel, bounds, monitors, StacksStay
    <3>2. reconfigs' = 0 /\ "appstate" \in Monitoring => "appstate" \in enabled'
        BY <1>4, <3>1 DEF Fresh
    <3> QED BY <1>0, <1>4, <3>1, <3>2, FreshStays, FilesSteps
  <2>8. Told' \/ Fresh'
      BY <1>0, <2>1, <2>2, <2>3, <2>4, <2>5, <2>6, <2>7, StepCases
  <2> QED BY <1>2, <2>8 DEF LoneInv
<1> QED BY <1>2, <1>3, <1>4

LEMMA LoneInit == Init => LoneInv
<1> SUFFICES ASSUME Init PROVE LoneInv
    OBVIOUS
<1>1. /\ \A p \in Procs : Levels(p) = {}
      /\ captured = {} /\ ~crashedDuring
    BY EmptyAtFirst
<1>2. Untouched /\ old = Absent /\ enabled = Masked(Monitoring, FALSE)
    BY DEF Init, Untouched
<1>3. "appstate" \in Monitoring => "appstate" \in enabled
    BY <1>2 DEF Masked, DebuggerUnsafe, Hookable
<1> QED BY <1>1, <1>2, <1>3 DEF LoneInv, Fresh, OldEmbedded

\* A crash that is alone (nothing else was ever reported or faulted) is in a
\* finished report before the process dies, whichever monitors are on, failed to
\* install or are switched meanwhile; and it is noted in the application state,
\* unless the program has chosen other monitors since the installation.
THEOREM LoneCrashAlwaysRecorded ==
    Spec => [](/\ dead /\ events = 1 => captured \subseteq RecordedEvents
               /\ reconfigs = 0 => LoneCrashRecorded)
<1>1. WriterInv /\ LoneInv => /\ dead /\ events = 1 => captured \subseteq RecordedEvents
                              /\ reconfigs = 0 => LoneCrashRecorded
  <2> SUFFICES ASSUME WriterInv, LoneInv, dead, events = 1, captured # {}
               PROVE  /\ captured \subseteq RecordedEvents
                      /\ reconfigs = 0 => ("appstate" \in Monitoring => crashedThisLaunch)
      BY DEF LoneCrashRecorded
  <2>1. Told
      BY DEF LoneInv, Fresh
  <2>2. captured \subseteq {1}
    <3>1. captured \subseteq Nat \ {0} /\ \A e \in captured : e <= 1
        BY ConstantsAssumption DEF WriterInv, TypeOK, EventsApart, Events
    <3> QED BY <3>1
  <2> QED BY <2>1, <2>2 DEF Told, Noted
<1> QED BY <1>1, LoneInit, LoneNext, WriterInvariant, QuietInvariant, PTL DEF Spec

-----------------------------------------------------------------------------
(* What is recorded stays *)

\* Reports that do not suspend the others are never asked for, and the program
\* leaves the monitors as they were installed.
AllSuspend == Triggers \cap {"user", "userFatal"} = {}
Undisturbed == AllSuspend /\ reconfigs = 0

KindsSuspend == AllSuspend => \A p \in Procs : \A k \in Levels(p) : Fr(p, k).kind \in Suspending

\* Once the Mach monitor is off, an exception thread that is not cancelled is
\* past its announcement: it leaves, or reports a crash of the reporter.
NoneServes == \A m \in MachThreads : mach[m] = "none"
Late(f) == \/ f.pc \in {"resume", "exit"}
           \/ crashedDuring /\ f.pc \in HandlerPCs \cup {"switch"}
MachLate ==
    /\ hooked = {}
    /\ \A m \in MachThreads \ cancelled :
          /\ mach[m] \notin {"waiting", "suspended"}
          /\ \A k \in Levels(m) : Late(Fr(m, k))
MachEnded ==
    reconfigs = 0 =>
        /\ crashedDuring => "mach" \notin enabled
        /\ "mach" \in enabled => machKnown = MachThreads \/ NoneServes
        /\ "mach" \notin enabled => NoneServes \/ MachLate

\* The same of the next state.
Late1(f) == \/ f.pc \in {"resume", "exit"}
            \/ crashedDuring' /\ f.pc \in HandlerPCs \cup {"switch"}
MachLate1 ==
    /\ hooked' = {}
    /\ \A m \in MachThreads \ cancelled' :
          /\ mach'[m] \notin {"waiting", "suspended"}
          /\ \A k \in 1..Len(stack'[m]) : Late1(Fr1(m, k))
Ended1 ==
    /\ crashedDuring' => "mach" \notin enabled'
    /\ "mach" \in enabled' => machKnown' = MachThreads \/ \A m \in MachThreads : mach'[m] = "none"
    /\ "mach" \notin enabled' => MachLate1 \/ \A m \in MachThreads : mach'[m] = "none"
LEMMA EndedPrime == ASSUME reconfigs' = 0 => Ended1 PROVE MachEnded'
BY DEF MachEnded, NoneServes, MachLate, Late, Ended1, MachLate1, Late1, Levels, Fr, Fr1

\* Only setMonitoring counts.
LEMMA Uncounted ==
    ASSUME TypeOK, [Next]_vars, reconfigs' = 0
    PROVE  reconfigs = 0 /\ \A t \in Threads : ~Reconfigures(t)
<1>0. reconfigs \in Nat
    BY ConstantsAssumption DEF TypeOK
<1>1. \A t \in Threads : ~Reconfigures(t)
  <2> SUFFICES ASSUME NEW t \in Threads, Reconfigures(t) PROVE FALSE
      OBVIOUS
  <2> QED BY <1>0, Reconfigured
<1>2. reconfigs' = reconfigs
  <2>1. ASSUME NEW p \in Procs, NewEvent(p) PROVE reconfigs' = reconfigs
      BY <2>1 DEF NewEvent
  <2>2. ASSUME NEW p \in Procs, Moving(p) PROVE reconfigs' = reconfigs
      BY <2>2, MovingShape
  <2>3. ASSUME NEW p \in Procs, Leaves(p) PROVE reconfigs' = reconfigs
      BY <2>3, LeaveShape DEF bounds
  <2>4. ASSUME NEW p \in Procs, CancelledAtFile(p) PROVE reconfigs' = reconfigs
      BY <2>4, CancelShape
  <2>5. ASSUME NEW m \in MachThreads, MachReceive(m) PROVE reconfigs' = reconfigs
      BY <2>5 DEF MachReceive, bounds
  <2>6. ASSUME UNCHANGED vars PROVE reconfigs' = reconfigs
      BY <2>6 DEF vars, bounds
  <2> QED BY <1>1, <2>1, <2>2, <2>3, <2>4, <2>5, <2>6, StepCases
<1> QED BY <1>1, <1>2

\* What uninstalling everything leaves of the monitors and the exception threads.
AllOff(p) ==
    /\ hooked' = {} /\ "mach" \notin enabled' /\ cancelled \subseteq cancelled'
    /\ "mach" \notin enabled => cancelled' = cancelled /\ mach' = mach /\ OthersStay({p})
    /\ "mach" \in enabled => \A m \in machKnown \ {p} : Terminated(m) \/ m \in cancelled'
    /\ \A m \in MachThreads : mach'[m] = mach[m] \/ Terminated(m)
LEMMA UninstallOff ==
    ASSUME TypeOK, NEW p \in Procs, stack[p] # <<>>, NEW g \in Frames, Uninstall(p, WithTop(stack, p, g))
    PROVE  AllOff(p)
<1> DEFINE next == WithTop(stack, p, g)
           killed == IF Uninstalls({}) /\ machHandling THEN Forgotten(p) ELSE {}
<1>0. stack \in Stacks
    BY DEF TypeOK, Stacks
<1>1. hooked' = {} /\ "mach" \notin enabled' /\ ~Installs
    BY DEF Uninstall, SwitchMonitors, HookedAfter, EnabledAfter, Installs
<1>2. /\ mach' = [m \in MachThreads |-> IF m \in killed THEN "gone" ELSE mach[m]]
      /\ stack' = [q \in Procs |-> IF q \in killed THEN <<>> ELSE next[q]]
      /\ cancelled' = IF Uninstalls({}) /\ ~machHandling THEN cancelled \cup Forgotten(p) ELSE cancelled
    BY <1>1 DEF Uninstall, SwitchMonitors
<1>3. "mach" \notin enabled => ~Uninstalls({})
    BY DEF Uninstalls
<1>4. "mach" \in enabled => Uninstalls({})
    BY DEF Uninstalls
<1>5. \A q \in Procs \ {p} : next[q] = stack[q]
    BY <1>0, WithTopAt
<1>6. machKnown \subseteq MachThreads /\ MachThreads \subseteq Procs /\ mach \in [MachThreads -> {"none", "waiting", "suspended", "busy", "gone", "cancelled"}]
    BY DEF TypeOK, Procs
<1> HIDE DEF next
<1>7. "mach" \notin enabled => cancelled' = cancelled /\ mach' = mach /\ OthersStay({p})
    BY <1>2, <1>3, <1>5, <1>6 DEF OthersStay
<1>8. ASSUME "mach" \in enabled PROVE \A m \in machKnown \ {p} : Terminated(m) \/ m \in cancelled'
    BY <1>2, <1>4, <1>6, <1>8 DEF Terminated, Forgotten
<1>9. \A m \in MachThreads : mach'[m] = mach[m] \/ Terminated(m)
    BY <1>2, <1>6 DEF Terminated
<1> QED BY <1>1, <1>2, <1>7, <1>8, <1>9 DEF AllOff

\* What a moving step does to them.
MonitorsKept(p) ==
    /\ UNCHANGED <<enabled, machKnown, cancelled>> /\ hooked' \subseteq hooked /\ OthersStay({p})
    /\ \A m \in MachThreads : \/ mach'[m] = mach[m]
                              \/ mach[m] = "suspended" /\ mach'[m] = "waiting"
LEMMA MovingMonitors ==
    ASSUME TypeOK, NEW p \in Procs, Moving(p)
    PROVE  /\ AllOff(p) \/ MonitorsKept(p)
           /\ crashedDuring' => crashedDuring \/ AllOff(p)
           /\ crashedDuring => crashedDuring'
           /\ MonitorsKept(p) \/ Post(p) \/ (Notify(p) /\ crashedDuring')
<1>0. stack \in Stacks /\ stack[p] # <<>> /\ Top(p) \in Frames
    BY MovingShape
<1>1. ASSUME NEW f, stack' = WithTop(stack, p, f) \/ stack' = Popped(stack, p) PROVE OthersStay({p})
    BY <1>0, <1>1 DEF OthersStay, WithTop, Popped, Stacks
<1>2. CASE ~Notify(p) /\ ~Post(p) /\ ~SwitchMachThread(p)
  <2>1. UNCHANGED <<enabled, hooked, machKnown, cancelled, mach, crashedDuring>>
      BY <1>2 DEF Moving, Records, Enter, SuspendOne, SuspendDone,
           Handle, NextPath, OpenReport, WriteReport, RenameReport, RewriteReport,
           ResumeOne, ResumeDone, WriterStep, monitors, flags
  <2>2. OthersStay({p})
      BY <1>1, <1>2 DEF Moving, Records, Enter, SuspendOne, SuspendDone,
           Handle, NextPath, OpenReport, WriteReport, RenameReport, RewriteReport,
           ResumeOne, ResumeDone
  <2> QED BY <2>1, <2>2 DEF MonitorsKept
<1>3. CASE SwitchMachThread(p)
  <2>1. UNCHANGED <<enabled, machKnown, cancelled, crashedDuring>> /\ hooked' \subseteq hooked
        /\ \A m \in MachThreads : \/ mach'[m] = mach[m]
                                  \/ mach[m] = "suspended" /\ mach'[m] = "waiting"
      BY <1>3 DEF SwitchMachThread, flags, TypeOK
  <2>2. OthersStay({p}) /\ ~Notify(p) /\ ~Post(p)
      BY <1>1, <1>3 DEF SwitchMachThread, Notify, Post, At
  <2> QED BY <2>1, <2>2 DEF MonitorsKept
<1>4. CASE Notify(p)
  <2> DEFINE g == [Top(p) EXCEPT !.pc = IF Top(p).kind = "mach" THEN "switch" ELSE "handle"]
             next == WithTop(stack, p, g)
  <2>1. crashedDuring' = (crashedDuring \/ handlingFatal)
        /\ IF crashedDuring' THEN Uninstall(p, next) ELSE KeepMonitors(next)
      BY <1>4 DEF Notify, OnNotify
  <2>2. g \in Frames
      BY <1>0 DEF Frames, PCs
  <2> HIDE DEF g
  <2>3. CASE crashedDuring'
      BY <1>0, <1>4, <2>1, <2>2, <2>3, UninstallOff
  <2>4. CASE ~crashedDuring'
      BY <1>1, <1>4, <2>1, <2>4 DEF KeepMonitors, monitors, MonitorsKept
  <2> QED BY <2>3, <2>4
<1>5. CASE Post(p)
  <2> DEFINE g == IF Top(p).kind \in Suspending \ {"nsexception"}
                  THEN [Top(p) EXCEPT !.pc = "resume", !.todo = Others(p)]
                  ELSE [Top(p) EXCEPT !.pc = "exit"]
             next == WithTop(stack, p, g)
  <2>1. crashedDuring' = crashedDuring
        /\ IF EndsMonitoring(Top(p)) THEN Uninstall(p, next) ELSE KeepMonitors(next)
      BY <1>5 DEF Post
  <2>2. g \in Frames
    <3>1. Others(p) \in SUBSET Threads
        BY DEF Others
    <3> QED BY <1>0, <3>1 DEF Frames, PCs
  <2> HIDE DEF g
  <2>3. CASE EndsMonitoring(Top(p))
      BY <1>0, <1>5, <2>1, <2>2, <2>3, UninstallOff
  <2>4. CASE ~EndsMonitoring(Top(p))
      BY <1>1, <1>5, <2>1, <2>4 DEF KeepMonitors, monitors, MonitorsKept
  <2> QED BY <2>3, <2>4
<1> QED BY <1>2, <1>3, <1>4, <1>5

\* Without our handlers no frame is new but an application thread's first one, and
\* that of an exception thread which takes a message; and no thread gets trapped.
LEMMA OriginsUnhooked ==
    ASSUME TypeOK, [Next]_vars, hooked = {}
    PROVE  /\ trapped' \subseteq trapped
           /\ \A q \in Procs : \A k \in 1..Len(stack'[q]) :
                \/ k \in Levels(q) /\ Fr1(q, k) = Fr(q, k)
                \/ q \in Threads /\ stack[q] = <<>> /\ Fr1(q, k).pc = "enter"
                \/ q \in MachThreads /\ MachReceive(q) /\ Fr1(q, k).pc = "enter"
                \/ /\ Moving(q) /\ stack[q] # <<>> /\ k = Len(stack[q]) /\ k \in Levels(q)
                   /\ Top(q) = Fr(q, k) /\ MovesWithin(q, Fr1(q, k))
<1>0. stack \in Stacks /\ (hooked = {} => \A x : x \notin hooked)
    BY DEF TypeOK, Stacks
<1> DEFINE Same == \A q \in Procs : \A k \in 1..Len(stack'[q]) : k \in Levels(q) /\ Fr1(q, k) = Fr(q, k)
           Goal == /\ trapped' \subseteq trapped
                   /\ \A q \in Procs : \A k \in 1..Len(stack'[q]) :
                        \/ k \in Levels(q) /\ Fr1(q, k) = Fr(q, k)
                        \/ q \in Threads /\ stack[q] = <<>> /\ Fr1(q, k).pc = "enter"
                        \/ q \in MachThreads /\ MachReceive(q) /\ Fr1(q, k).pc = "enter"
                        \/ /\ Moving(q) /\ stack[q] # <<>> /\ k = Len(stack[q]) /\ k \in Levels(q)
                           /\ Top(q) = Fr(q, k) /\ MovesWithin(q, Fr1(q, k))
<1>10. stack' = stack => Same
    BY DEF Fr1, Fr, Nth, Levels
<1>1. ASSUME NEW t \in Threads, Reconfigures(t) PROVE Goal
  <2>1. trapped' = trapped
      BY <1>1, ReconfigurationFacts
  <2> QED BY <1>1, <2>1, ReconfigurationStays, AfterStay DEF Fr1
<1>2. ASSUME NEW p \in Procs, NewEvent(p) PROVE Goal
  <2>1. CASE stack' = stack
      BY <1>2, <1>0, <1>10, <2>1 DEF NewEvent
  <2>2. ASSUME NEW f, Starts(p, f), UNCHANGED trapped, stack[p] # <<>> => f.kind = "signal" PROVE Goal
    <3>1. PushesAt(p, f) /\ OthersStay({p}) /\ f.pc = "enter" /\ (f.kind = "signal" => "signal" \in hooked)
        BY <2>2 DEF Starts, FreshFrame
    <3>2. stack[p] = <<>> /\ p \in Threads
        BY <1>0, <1>2, <2>2, <3>1 DEF NewEvent
    <3> QED BY <1>0, <2>2, <3>1, <3>2, AfterPush DEF Fr1
  <2> QED BY <1>0, <1>2, <2>1, <2>2 DEF NewEvent
<1>3. ASSUME NEW p \in Procs, Moving(p) PROVE Goal
  <2>0. stack[p] # <<>> /\ trapped' = trapped
      BY <1>3, MovingShape
  <2>1. CASE Ends(p)
      BY <1>0, <2>0, <2>1, AfterEnd DEF Fr1
  <2>2. ASSUME NEW g, MovesWithin(p, g) PROVE Goal
    <3> SUFFICES ASSUME NEW q \in Procs, NEW k \in 1..Len(stack'[q])
                 PROVE  \/ k \in Levels(q) /\ Fr1(q, k) = Fr(q, k)
                        \/ /\ Moving(q) /\ stack[q] # <<>> /\ k = Len(stack[q]) /\ k \in Levels(q)
                           /\ Top(q) = Fr(q, k) /\ MovesWithin(q, Fr1(q, k))
        BY <2>0
    <3>1. /\ k \in Levels(q)
          /\ \/ q = p /\ k = Len(stack[p]) /\ Fr1(q, k) = g
             \/ Fr1(q, k) = Fr(q, k)
        BY <1>0, <2>0, <2>2, AfterMove DEF Fr1, MovesWithin
    <3>2. Top(p) = Fr(p, Len(stack[p]))
        BY <1>0, <2>0, TopAt
    <3> QED BY <1>3, <2>0, <2>2, <3>1, <3>2
  <2> QED BY <1>3, <2>1, <2>2, MovingShape
<1>4. ASSUME NEW p \in Procs, Leaves(p) PROVE Goal
  <2>0. stack[p] # <<>> /\ trapped' \subseteq trapped
      BY <1>4, LeaveShape
  <2>1. CASE Ends(p)
      BY <1>0, <2>0, <2>1, AfterEnd DEF Fr1
  <2>2. \A g : ~Continues(p, g)
      BY <1>0 DEF Continues
  <2> QED BY <1>4, <2>1, <2>2, LeaveShape
<1>5. ASSUME NEW p \in Procs, CancelledAtFile(p) PROVE Goal
    BY <1>5, CancelShape
<1>6. ASSUME NEW m \in MachThreads, MachReceive(m) PROVE Goal
  <2>1. Frame("mach", port[1].event, port[1].victim).pc = "enter" /\ trapped' = trapped
      BY <1>6 DEF Frame, MachReceive
  <2> QED BY <1>6, <2>1, AfterReceive DEF Fr1
<1>7. ASSUME UNCHANGED vars PROVE Goal
  <2>1. stack' = stack /\ trapped' = trapped
      BY <1>7 DEF vars, kernel
  <2> QED BY <1>10, <2>1
<1> HIDE DEF Goal
<1>9. Goal
    BY <1>1, <1>2, <1>3, <1>4, <1>5, <1>6, <1>7, StepCases
<1> QED BY <1>9 DEF Goal

\* Where a frame may be after a moving step.
LEMMA Successors ==
    ASSUME TypeOK, NEW p \in Procs, Moving(p), NEW g, MovesWithin(p, g)
    PROVE  /\ Top(p).pc # "exit"
           /\ Top(p).pc = "resume" => g.pc \in {"resume", "exit"}
           /\ Top(p).pc \in HandlerPCs \cup {"switch"} => g.pc \in HandlerPCs \cup {"resume", "exit"}
           /\ Post(p) => Top(p).pc = "post" /\ g.pc \in {"resume", "exit"}
           /\ Notify(p) => g.pc \in {"handle", "switch"}
           /\ Top(p).pc = "rewrite" => RewriteReport(p)
           /\ g.pc = "rename" => Handle(p) /\ crashedDuring /\ Top(p).pc = "handle"
           /\ g.pc = "rewrite" => RenameReport(p) /\ Top(p).pc = "rename"
<1>0. stack \in Stacks /\ stack[p] # <<>> /\ Top(p) \in Frames
    BY MovingShape
<1>1. CASE Enter(p)
  <2>1. FromEnter(Top(p), g, p)
      BY <1>0, <1>1, EnterMoves, OneMove
  <2>2. ~Post(p) /\ ~Notify(p) /\ ~RewriteReport(p)
      BY <2>1 DEF FromEnter, Post, Notify, RewriteReport, At
  <2> QED BY <2>1, <2>2 DEF FromEnter, HandlerPCs
<1>2. CASE SuspendOne(p) \/ SuspendDone(p)
  <2>1. Top(p).pc = "suspend" /\ g.pc \in {"suspend", "notify", "handle", "resume"}
      BY <1>0, <1>2, SuspendMoves, OneMove DEF FromSuspend
  <2>2. ~Post(p) /\ ~Notify(p)
      BY <2>1 DEF Post, Notify, At
  <2> QED BY <2>1, <2>2 DEF HandlerPCs
<1>3. CASE ResumeOne(p) \/ ResumeDone(p)
  <2>1. Top(p).pc = "resume" /\ g.pc \in {"resume", "exit"}
      BY <1>0, <1>3, SuspendMoves, OneMove
  <2>2. ~Post(p) /\ ~Notify(p)
      BY <2>1 DEF Post, Notify, At
  <2> QED BY <2>1, <2>2 DEF HandlerPCs
<1>4. CASE Notify(p) \/ SwitchMachThread(p)
  <2>1. \/ Top(p).pc = "notify" /\ g.pc \in {"switch", "handle"}
        \/ Top(p).pc = "switch" /\ g.pc = "handle" /\ ~Notify(p)
    <3>1. Notify(p) => Top(p).pc = "notify" /\ g.pc \in {"switch", "handle"}
        BY <1>0, NotifyMoves, OneMove
    <3>2. SwitchMachThread(p) => Top(p).pc = "switch" /\ g.pc = "handle"
        BY <1>0, NotifyMoves, OneMove
    <3>3. SwitchMachThread(p) => ~Notify(p)
        BY DEF SwitchMachThread, Notify, At
    <3> QED BY <1>4, <3>1, <3>2, <3>3
  <2>2. ~Post(p)
      BY <2>1 DEF Post, At
  <2> QED BY <2>1, <2>2 DEF HandlerPCs
<1>5. CASE Records(p)
  <2>1. Writes(Top(p).pc, g.pc)
      BY <1>0, <1>5, RecordMoves, OneMove
  <2>2. ~Post(p) /\ ~Notify(p)
      BY <2>1 DEF Writes, Post, Notify, At
  <2>3. Top(p).pc = "rename" => RenameReport(p)
      BY <1>5 DEF Records, Handle, NextPath, OpenReport, WriteReport, RenameReport, RewriteReport, At
  <2>4. Top(p).pc = "rewrite" => RewriteReport(p)
      BY <1>5 DEF Records, Handle, NextPath, OpenReport, WriteReport, RenameReport, RewriteReport, At
  <2>5. Top(p).pc = "handle" => Handle(p)
      BY <1>5 DEF Records, Handle, NextPath, OpenReport, WriteReport, RenameReport, RewriteReport, At
  <2>6. ASSUME Handle(p), g.pc = "rename" PROVE crashedDuring
    <3> DEFINE h == [Top(p) EXCEPT !.recrash = IsRecrash, !.pc = IF IsRecrash THEN "rename" ELSE "path"]
    <3>1. stack' = WithTop(stack, p, h)
        BY <2>6 DEF Handle
    <3>2. h \in Frames /\ (h.pc = IF crashedDuring THEN "rename" ELSE "path")
      <4>1. crashedDuring \in BOOLEAN
          BY DEF TypeOK
      <4> QED BY <1>0, <4>1 DEF Frames, PCs, IsRecrash
    <3> HIDE DEF h
    <3>3. Moves(p, h)
        BY <1>0, <3>1, <3>2, WithTopMoves
    <3>4. g = h
        BY <3>3 DEF Moves, MovesWithin
    <3> QED BY <2>6, <3>2, <3>4
  <2>7. g.pc = "rename" => Top(p).pc = "handle"
      BY <2>1 DEF Writes
  <2>8. g.pc = "rewrite" => Top(p).pc = "rename"
      BY <2>1 DEF Writes
  <2>9. /\ Top(p).pc \notin {"exit", "resume"}
        /\ g.pc \in HandlerPCs
      BY <2>1 DEF Writes, HandlerPCs
  <2> QED BY <2>2, <2>3, <2>4, <2>5, <2>6, <2>7, <2>8, <2>9
<1>6. CASE Post(p)
  <2>1. FromPost(Top(p), g, p)
      BY <1>0, <1>6, PostMoves, OneMove
  <2>2. ~Notify(p)
      BY <2>1 DEF FromPost, Notify, At
  <2> QED BY <2>1, <2>2 DEF FromPost, HandlerPCs
<1> QED BY <1>1, <1>2, <1>3, <1>4, <1>5, <1>6 DEF Moving

\* An exception thread that is late stays so.
LEMMA LateFrames ==
    ASSUME WriterInv, MachLate, [Next]_vars, crashedDuring => crashedDuring',
           NEW m \in MachThreads \ cancelled, NEW k \in 1..Len(stack'[m])
    PROVE  Late1(Fr1(m, k))
<1>0. TypeOK /\ hooked = {} /\ m \in Procs /\ m \notin Threads /\ mach[m] # "waiting"
    BY ConstantsAssumption DEF WriterInv, MachLate, Procs
<1>1. \/ k \in Levels(m) /\ Fr1(m, k) = Fr(m, k)
      \/ m \in MachThreads /\ MachReceive(m)
      \/ /\ Moving(m) /\ k \in Levels(m) /\ Top(m) = Fr(m, k) /\ MovesWithin(m, Fr1(m, k))
    BY <1>0, OriginsUnhooked
<1>2. ~MachReceive(m)
    BY <1>0 DEF MachReceive
<1>3. k \in Levels(m) /\ Late(Fr(m, k))
    BY <1>1, <1>2 DEF MachLate
<1>4. CASE Fr1(m, k) = Fr(m, k)
    BY <1>3, <1>4 DEF Late, Late1
<1>5. CASE Moving(m) /\ Top(m) = Fr(m, k) /\ MovesWithin(m, Fr1(m, k))
    BY <1>0, <1>3, <1>5, Successors DEF Late, Late1
<1> QED BY <1>1, <1>2, <1>4, <1>5

\* What a step that moves no frame does to the monitors and the exception threads.
LEMMA OtherMonitors ==
    ASSUME WriterInv, [Next]_vars, \A t \in Threads : ~Reconfigures(t), \A p \in Procs : ~Moving(p)
    PROVE  /\ UNCHANGED <<enabled, hooked, machKnown, cancelled, crashedDuring>>
           /\ \A m \in MachThreads : \/ mach'[m] = mach[m]
                                     \/ mach[m] = "busy" /\ mach'[m] \in {"gone", "cancelled"}
                                     \/ mach[m] = "waiting" /\ mach'[m] = "busy"
<1>0. TypeOK /\ FramesInv /\ VictimsApart /\ stack \in Stacks /\ mach \in [MachThreads -> {"none", "waiting", "suspended", "busy", "gone", "cancelled"}]
    BY DEF WriterInv, TypeOK, Stacks
<1>10. ASSUME NEW m \in MachThreads, stack[m] # <<>> PROVE mach[m] = "busy"
  <2>1. m \in Procs
      BY DEF Procs
  <2>2. Len(stack[m]) \in Levels(m)
      BY <1>0, <1>10, <2>1, TopAt
  <2> QED BY <1>0, <2>2 DEF FramesInv, MachStacks
<1> DEFINE Goal == /\ UNCHANGED <<enabled, hooked, machKnown, cancelled, crashedDuring>>
                   /\ \A m \in MachThreads : \/ mach'[m] = mach[m]
                                             \/ mach[m] = "busy" /\ mach'[m] \in {"gone", "cancelled"}
                                             \/ mach[m] = "waiting" /\ mach'[m] = "busy"
<1>1. ASSUME NEW p \in Procs, NewEvent(p) PROVE Goal
    BY <1>1 DEF NewEvent, monitors, flags
<1>2. ASSUME NEW p \in Procs, Leaves(p) PROVE Goal
  <2>1. UNCHANGED <<enabled, hooked, machKnown, cancelled, crashedDuring>>
      BY <1>0, <1>2, LeaveShape DEF monitors, flags
  <2>2. CASE UNCHANGED mach
      BY <2>1, <2>2
  <2>3. CASE MachReply(p) /\ mach' = [mach EXCEPT ![p] = "gone"]
    <3>1. p \in MachThreads /\ mach[p] = "busy"
      <4>1. p \in MachThreads /\ 1 \in Levels(p)
          BY <1>0, <1>2, <2>3, FramesLeft
      <4> QED BY <1>0, <4>1 DEF FramesInv, MachStacks
    <3> QED BY <1>0, <2>1, <2>3, <3>1
  <2> QED BY <1>0, <1>2, <2>2, <2>3, LeaveShape
<1>3. ASSUME NEW p \in Procs, CancelledAtFile(p) PROVE Goal
  <2>1. UNCHANGED <<enabled, hooked, machKnown, cancelled, crashedDuring>>
      BY <1>3 DEF CancelledAtFile, flags, monitors
  <2>2. stack[p] # <<>> /\ p \in MachThreads /\ mach' = [mach EXCEPT ![p] = "cancelled"]
      BY <1>0, <1>3, CancelShape
  <2> QED BY <1>0, <1>10, <2>1, <2>2
<1>4. ASSUME NEW m \in MachThreads, MachReceive(m) PROVE Goal
    BY <1>0, <1>4 DEF MachReceive, monitors, flags
<1>5. ASSUME UNCHANGED vars PROVE Goal
    BY <1>5 DEF vars, monitors, flags
<1> HIDE DEF Goal
<1>6. Goal
    BY <1>0, <1>1, <1>2, <1>3, <1>4, <1>5, StepCases
<1> QED BY <1>6 DEF Goal

\* Whoever takes the Mach monitor away cancels or ends the exception threads but
\* itself, and is past its own announcement.
LEMMA EndedByMoving ==
    ASSUME WriterInv, [Next]_vars, reconfigs = 0, MachEnded, NEW p \in Procs, Moving(p), "mach" \in enabled,
           ~MonitorsKept(p), NEW m \in MachThreads \ cancelled'
    PROVE  /\ mach'[m] \notin {"waiting", "suspended"}
           /\ \A k \in 1..Len(stack'[m]) : Late1(Fr1(m, k))
<1>0. /\ TypeOK /\ FramesInv /\ FlagsInv /\ stack \in Stacks /\ stack[p] # <<>> /\ m \in Procs
      /\ AllOff(p) /\ (Post(p) \/ (Notify(p) /\ crashedDuring')) /\ (crashedDuring => crashedDuring')
  <2>1. TypeOK /\ FramesInv /\ FlagsInv /\ stack \in Stacks /\ m \in Procs
      BY DEF WriterInv, TypeOK, Stacks, Procs
  <2> QED BY <2>1, MovingShape, MovingMonitors
<1>1. PICK g : MovesWithin(p, g)
  <2>1. ~Enter(p)
      BY <1>0 DEF Enter, Post, Notify, At
  <2> QED BY <1>0, <2>1, MovingShape
<1>2. \A k \in 1..Len(stack'[m]) :
        /\ k \in Levels(m)
        /\ \/ m = p /\ k = Len(stack[p]) /\ Fr1(m, k) = g
           \/ (m # p \/ k # Len(stack[p])) /\ Fr1(m, k) = Fr(m, k)
    BY <1>0, <1>1, AfterMove DEF Fr1, MovesWithin
<1>3. mach'[m] = mach[m] \/ Terminated(m)
    BY <1>0 DEF AllOff
<1>4. CASE Terminated(m)
    BY <1>4 DEF Terminated
<1>5. CASE NoneServes
  <2>1. \A k \in Levels(m) : FALSE
      BY <1>0, <1>5 DEF NoneServes, FramesInv, MachStacks
  <2> QED BY <1>2, <1>3, <1>4, <1>5, <2>1 DEF NoneServes
<1>6. CASE m # p /\ machKnown = MachThreads
    BY <1>0, <1>4, <1>6 DEF AllOff
<1>7. CASE m = p
  <2>1. mach[m] = "busy"
    <3>1. Len(stack[m]) \in Levels(m)
        BY <1>0, <1>7, TopAt
    <3> QED BY <1>0, <3>1 DEF FramesInv, MachStacks
  <2>2. ASSUME NEW k \in 1..Len(stack'[m]), k = Len(stack[p]) PROVE Late1(Fr1(m, k))
    <3>1. Fr1(m, k) = g
        BY <1>2, <1>7, <2>2
    <3> QED BY <1>0, <1>1, <3>1, Successors DEF Late1, HandlerPCs
  \* A frame below was announced, and so is the innermost one.
  <2>3. ASSUME NEW k \in 1..Len(stack'[m]), k # Len(stack[p]) PROVE Late1(Fr1(m, k))
    <3>1. k \in Levels(p) /\ Fr1(m, k) = Fr(p, k) /\ k < Len(stack[p]) /\ Len(stack[p]) \in Levels(p)
          /\ Top(p) = Fr(p, Len(stack[p])) /\ p \in MachThreads
      <4>1. k \in Levels(p) /\ Fr1(m, k) = Fr(p, k)
          BY <1>2, <1>7, <2>3
      <4>2. Len(stack[p]) \in Levels(p) /\ Len(stack[p]) \in Nat /\ Top(p) = Fr(p, Len(stack[p]))
          BY <1>0, TopAt
      <4>3. k < Len(stack[p])
          BY <2>3, <4>1, <4>2 DEF Levels
      <4> QED BY <1>7, <4>1, <4>2, <4>3
    <3>2. Fr(p, k).pc \in HandlerPCs
        BY <1>0, <3>1 DEF FramesInv, FaultsInHandler
    <3>3. \A j \in Levels(p) : Fr(p, j).kind \in {"mach", "signal"}
        BY <1>0, <3>1 DEF FramesInv, MachStacks
    <3>4. crashedDuring'
      <4>1. CASE Post(p)
        <5>1. Top(p).pc = "post"
            BY <1>0, <1>1, <4>1, Successors
        <5>2. Announced(Fr(p, k)) /\ Announced(Fr(p, Len(stack[p])))
            BY <3>1, <3>2, <3>3, <5>1 DEF Announced, Notifying, Kinds, UserKinds, HandlerPCs
        <5>3. crashedDuring
            BY <1>0, <3>1, <5>2 DEF FlagsInv, TwoAreRecrash
        <5> QED BY <1>0, <5>3
      <4> QED BY <1>0, <4>1
    <3> QED BY <3>1, <3>2, <3>4 DEF Late1
  <2>4. mach'[m] \notin {"waiting", "suspended"}
      BY <1>3, <1>4, <2>1
  <2> QED BY <2>2, <2>3, <2>4
<1> QED BY <1>5, <1>6, <1>7 DEF MachEnded

LEMMA EndedNext == WriterInv /\ MachEnded /\ [Next]_vars => MachEnded'
<1> SUFFICES ASSUME WriterInv, MachEnded, [Next]_vars PROVE MachEnded'
    OBVIOUS
<1> SUFFICES ASSUME reconfigs' = 0 PROVE Ended1
    BY EndedPrime
<1>0. /\ reconfigs = 0 /\ TypeOK /\ \A t \in Threads : ~Reconfigures(t)
      /\ crashedDuring => "mach" \notin enabled
      /\ "mach" \in enabled => machKnown = MachThreads \/ NoneServes
      /\ "mach" \notin enabled => NoneServes \/ MachLate
  <2>1. TypeOK
      BY DEF WriterInv
  <2>2. reconfigs = 0 /\ \A t \in Threads : ~Reconfigures(t)
      BY <2>1, Uncounted
  <2> QED BY <2>1, <2>2 DEF MachEnded
<1>1. CASE \A p \in Procs : ~Moving(p)
  <2>1. /\ UNCHANGED <<enabled, hooked, machKnown, cancelled, crashedDuring>>
        /\ \A m \in MachThreads : \/ mach'[m] = mach[m]
                                  \/ mach[m] = "busy" /\ mach'[m] \in {"gone", "cancelled"}
                                  \/ mach[m] = "waiting" /\ mach'[m] = "busy"
      BY <1>0, <1>1, OtherMonitors
  <2>2. NoneServes => \A m \in MachThreads : mach'[m] = "none"
      BY <2>1 DEF NoneServes
  <2>3. ASSUME MachLate PROVE MachLate1
    <3>1. \A m \in MachThreads \ cancelled : \A k \in 1..Len(stack'[m]) : Late1(Fr1(m, k))
        BY <2>1, <2>3, LateFrames
    <3> QED BY <2>1, <2>3, <3>1 DEF MachLate, MachLate1
  <2> QED BY <1>0, <2>1, <2>2, <2>3 DEF Ended1
<1>2. ASSUME NEW p \in Procs, Moving(p) PROVE Ended1
  <2>0. /\ AllOff(p) \/ MonitorsKept(p)
        /\ crashedDuring' => crashedDuring \/ AllOff(p)
        /\ crashedDuring => crashedDuring'
      BY <1>0, <1>2, MovingMonitors
  <2>1. CASE "mach" \notin enabled
    <3>1. /\ "mach" \notin enabled' /\ cancelled' = cancelled /\ (hooked = {} => hooked' = {})
          /\ \A m \in MachThreads : \/ mach'[m] = mach[m]
                                    \/ mach[m] = "suspended" /\ mach'[m] = "waiting"
        BY <2>0, <2>1 DEF AllOff, MonitorsKept
    <3>2. NoneServes => \A m \in MachThreads : mach'[m] = "none"
        BY <3>1 DEF NoneServes
    <3>3. ASSUME MachLate PROVE MachLate1
      <4>1. \A m \in MachThreads \ cancelled : \A k \in 1..Len(stack'[m]) : Late1(Fr1(m, k))
          BY <2>0, <3>3, LateFrames
      <4> QED BY <3>1, <3>3, <4>1 DEF MachLate, MachLate1
    <3> QED BY <1>0, <2>1, <3>1, <3>2, <3>3 DEF Ended1
  <2>2. CASE "mach" \in enabled /\ MonitorsKept(p)
    <3>1. enabled' = enabled /\ machKnown' = machKnown
          /\ (NoneServes => \A m \in MachThreads : mach'[m] = "none")
        BY <2>2 DEF MonitorsKept, NoneServes
    <3>2. ~crashedDuring'
        BY <1>0, <2>0, <2>2, <3>1 DEF AllOff
    <3> QED BY <1>0, <2>2, <3>1, <3>2 DEF Ended1
  <2>3. CASE "mach" \in enabled /\ ~MonitorsKept(p)
    <3>1. hooked' = {} /\ "mach" \notin enabled'
        BY <2>0, <2>3 DEF AllOff
    <3>2. MachLate1
        BY <1>0, <1>2, <2>3, <3>1, EndedByMoving DEF MachLate1
    <3> QED BY <3>1, <3>2 DEF Ended1
  <2> QED BY <2>1, <2>2, <2>3
<1> QED BY <1>1, <1>2


-----------------------------------------------------------------------------
(* One report of a crash in the reporter at a time *)

\* What the application threads start is what they may do, or what the faults and
\* exceptions lead to.
LEMMA StartsKind ==
    ASSUME TypeOK, NEW t \in Threads, AppStep(t), ~Reconfigures(t), NEW f, PushesAt(t, f)
    PROVE  f.kind \in Suspending \/ f.kind \in Triggers
<1>0. stack \in Stacks /\ t \in Procs /\ Len(stack[t]) \in Nat /\ events < MaxEvents
  <2>1. stack \in Stacks /\ t \in Procs
      BY DEF TypeOK, Stacks, Procs
  <2>2. stack[t] \in Seq(Frames)
      BY <2>1 DEF Stacks
  <2>3. events < MaxEvents
      BY TriggerShape
  <2> QED BY <2>1, <2>2, <2>3
<1>1. events + 1 \in Events /\ t \in Subjects /\ {"SEGV", "ABRT"} \subseteq Subjects
    BY <1>0, ConstantsAssumption DEF TypeOK, Events, Subjects, Signals
<1>2. stack' # stack
    BY <1>0 DEF PushesAt
<1>3. ASSUME NEW k \in Kinds \ {"mach"}, NEW s \in Subjects, stack' = Pushed(stack, t, Frame(k, events + 1, s))
      PROVE  f.kind = k
  <2>1. Frame(k, events + 1, s) \in Frames /\ Frame(k, events + 1, s).kind = k
      BY <1>1, NewFrameIsFresh DEF FreshFrame
  <2>2. PushesAt(t, Frame(k, events + 1, s))
      BY <1>0, <1>3, <2>1, PushOnly
  <2> QED BY <2>1, <2>2 DEF PushesAt
<1>4. {"signal", "nsexception", "nsthrow", "cpp", "snapshot", "deadlock"} \subseteq Suspending
      /\ {"signal", "nsexception", "nsthrow", "cpp", "snapshot", "deadlock"} \cup UserKinds \subseteq Kinds \ {"mach"}
    BY DEF Suspending, Kinds, UserKinds
<1>5. ASSUME NEW sig \in {"SEGV", "ABRT"}, Deliver(stack, t, events + 1, sig) PROVE f.kind = "signal"
    BY <1>1, <1>2, <1>3, <1>4, <1>5 DEF Deliver
<1>6. ASSUME NEW k \in Kinds \ {"mach"}, Enters(t, k) PROVE f.kind = k
    BY <1>1, <1>3, <1>6 DEF Enters
<1>7. ASSUME NEW ns, NoTerminateHandler(t, ns) PROVE f.kind \in {"signal", "nsexception"}
    BY <1>4, <1>5, <1>6, <1>7 DEF NoTerminateHandler
<1>8. CASE HardwareFault(t) \/ RaiseSignal(t)
    BY <1>2, <1>4, <1>5, <1>8 DEF HardwareFault, RaiseSignal, Fault
<1>9. CASE UncaughtNSException(t) \/ UncaughtCPPException(t)
    BY <1>4, <1>6, <1>7, <1>9 DEF UncaughtNSException, UncaughtCPPException
<1>10. ASSUME NEW k \in UserKinds \cup {"snapshot", "deadlock"}, Call(t, k) PROVE f.kind = k /\ k \in Triggers
  <2>1. k \in Kinds \ {"mach"}
      BY <1>4
  <2> QED BY <1>6, <1>10, <2>1 DEF Call, Trigger
<1> QED BY <1>4, <1>8, <1>9, <1>10 DEF AppStep

LEMMA KindsNext == TypeOK /\ KindsSuspend /\ [Next]_vars => KindsSuspend'
<1> SUFFICES ASSUME TypeOK, KindsSuspend, [Next]_vars, AllSuspend,
                    NEW q \in Procs, NEW k \in 1..Len(stack'[q])
             PROVE  Fr1(q, k).kind \in Suspending
    BY DEF KindsSuspend, Levels, Fr, Fr1
<1>0. stack \in Stacks /\ {"signal", "mach", "nsexception"} \subseteq Suspending
    BY DEF TypeOK, Stacks, Suspending, Kinds
<1>1. \A p \in Procs : \A j \in Levels(p) : Fr(p, j).kind \in Suspending
    BY DEF KindsSuspend
<1>2. ASSUME NEW t \in Threads, Reconfigures(t) PROVE Fr1(q, k).kind \in Suspending
    BY <1>1, <1>2, ReconfigurationStays, AfterStay DEF Fr1
<1>3. ASSUME NEW t \in Threads, AppStep(t), ~Reconfigures(t) PROVE Fr1(q, k).kind \in Suspending
  <2>1. CASE stack' = stack
      BY <1>1, <2>1 DEF Fr1, Fr, Nth, Levels
  <2>2. ASSUME NEW f, Starts(t, f) PROVE Fr1(q, k).kind \in Suspending
    <3>1. t \in Procs /\ PushesAt(t, f) /\ OthersStay({t}) /\ f \in Frames
        BY <2>2 DEF Starts, FreshFrame, Procs
    <3>2. f.kind \in Suspending
      <4>1. f.kind \in Suspending \/ f.kind \in Triggers
          BY <1>3, <3>1, StartsKind
      <4> QED BY <3>1, <4>1 DEF Frames, Suspending, AllSuspend
    <3> QED BY <1>0, <1>1, <3>1, <3>2, AfterPush DEF Fr1
  <2> QED BY <1>3, <2>1, <2>2, TriggerShape
<1>4. ASSUME NEW p \in Procs, HandlerFault(p) PROVE Fr1(q, k).kind \in Suspending
  <2>0. NewEvent(p) /\ stack[p] # <<>>
      BY <1>4, NewEventShape DEF HandlerFault, At
  <2>1. CASE stack' = stack
      BY <1>1, <2>1 DEF Fr1, Fr, Nth, Levels
  <2>2. ASSUME NEW f, Starts(p, f), f.kind = "signal" PROVE Fr1(q, k).kind \in Suspending
      BY <1>0, <1>1, <2>2, AfterPush DEF Starts, Fr1
  <2> QED BY <2>0, <2>1, <2>2 DEF NewEvent
<1>5. ASSUME NEW p \in Procs, Moving(p) PROVE Fr1(q, k).kind \in Suspending
  <2>0. stack[p] # <<>>
      BY <1>5, MovingShape
  <2>1. CASE Ends(p)
      BY <1>0, <1>1, <2>0, <2>1, AfterEnd DEF Fr1
  <2>2. ASSUME NEW g, MovesWithin(p, g) PROVE Fr1(q, k).kind \in Suspending
    <3>1. g.kind \in Suspending
        BY <1>0, <1>1, <2>0, <2>2, TopAt DEF MovesWithin, SameCrash
    <3> QED BY <1>0, <1>1, <2>0, <2>2, <3>1, AfterMove DEF Fr1, MovesWithin
  <2> QED BY <1>5, <2>1, <2>2, MovingShape
<1>6. ASSUME NEW p \in Procs, Leaves(p) PROVE Fr1(q, k).kind \in Suspending
  <2>0. stack[p] # <<>>
      BY <1>6, LeaveShape
  <2>1. CASE Ends(p)
      BY <1>0, <1>1, <2>0, <2>1, AfterEnd DEF Fr1
  <2>2. ASSUME NEW g, Continues(p, g), Moves(p, g) PROVE Fr1(q, k).kind \in Suspending
      BY <1>0, <1>1, <2>0, <2>2, AfterMove DEF Fr1, Continues
  <2>3. ASSUME NEW g, Continues(p, g), Top(p).subject \in Procs \ {p}, HandsTo(p, Top(p).subject, g)
        PROVE  Fr1(q, k).kind \in Suspending
      BY <1>0, <1>1, <2>0, <2>3, AfterHand DEF Fr1, Continues
  <2> QED BY <1>6, <2>1, <2>2, <2>3, LeaveShape
<1>7. ASSUME NEW p \in Procs, CancelledAtFile(p) PROVE Fr1(q, k).kind \in Suspending
    BY <1>1, <1>7, CancelShape
<1>8. ASSUME NEW m \in MachThreads, MachReceive(m) PROVE Fr1(q, k).kind \in Suspending
  <2>1. Frame("mach", port[1].event, port[1].victim).kind = "mach"
      BY DEF Frame
  <2> QED BY <1>0, <1>1, <1>8, <2>1, AfterReceive DEF Fr1
<1>9. ASSUME UNCHANGED vars PROVE Fr1(q, k).kind \in Suspending
  <2>1. stack' = stack
      BY <1>9 DEF vars
  <2> QED BY <1>1, <2>1 DEF Fr1, Fr, Nth, Levels
<1> QED BY <1>2, <1>3, <1>4, <1>5, <1>6, <1>7, <1>8, <1>9 DEF Next, HandlerStep, Moving, Leaves, Records

\* Who reports a crash of the reporter has seen one, at the end of its stack and not
\* trapped; the exception threads have then left or been cancelled, and no one else
\* does the same, unless it was cancelled.
Renaming(f) == f.pc \in {"rename", "rewrite"}
RenamesLast ==
    \A p \in Procs : \A k \in Levels(p) :
        Renaming(Fr(p, k)) => crashedDuring /\ k = Len(stack[p]) /\ p \notin trapped
MachLeaving == \A m \in MachThreads \ cancelled : \A k \in Levels(m) : Fr(m, k).pc \in {"resume", "exit"}
RenamesAfterMach == (\E t \in Threads : \E k \in Levels(t) : Renaming(Fr(t, k))) => MachLeaving
OneRenames ==
    \A p, q \in Procs \ cancelled : \A k \in Levels(p), j \in Levels(q) :
        Renaming(Fr(p, k)) /\ Renaming(Fr(q, j)) => p = q
RewriterLives == \A p \in Procs : \A k \in Levels(p) : Fr(p, k).pc = "rewrite" => p \notin cancelled
RenameInv == Undisturbed => RenamesLast /\ RenamesAfterMach /\ OneRenames /\ RewriterLives

\* The same of the next state.
LEMMA RenamePrime ==
    ASSUME Undisturbed' =>
             /\ \A p \in Procs : \A k \in 1..Len(stack'[p]) :
                   Renaming(Fr1(p, k)) => crashedDuring' /\ k = Len(stack'[p]) /\ p \notin trapped'
             /\ \A t \in Threads : \A k \in 1..Len(stack'[t]) : Renaming(Fr1(t, k)) =>
                   \A m \in MachThreads \ cancelled' : \A j \in 1..Len(stack'[m]) :
                       Fr1(m, j).pc \in {"resume", "exit"}
             /\ \A p, q \in Procs \ cancelled' : \A k \in 1..Len(stack'[p]), j \in 1..Len(stack'[q]) :
                   Renaming(Fr1(p, k)) /\ Renaming(Fr1(q, j)) => p = q
             /\ \A p \in Procs : \A k \in 1..Len(stack'[p]) : Fr1(p, k).pc = "rewrite" => p \notin cancelled'
    PROVE  RenameInv'
BY DEF RenameInv, RenamesLast, RenamesAfterMach, MachLeaving, OneRenames, RewriterLives,
       Renaming, Levels, Fr, Fr1

\* All that is known of an undisturbed state.
RecorderInv == WriterInv /\ MachEnded /\ KindsSuspend /\ RenameInv

\* After a crash in the reporter our handlers are gone, and so is the Mach monitor.
LEMMA AfterRecrash ==
    ASSUME RecorderInv, reconfigs = 0, crashedDuring
    PROVE  hooked = {} /\ "mach" \notin enabled /\ (NoneServes \/ MachLate)
BY DEF RecorderInv, WriterInv, FlagsInv, RecrashUnhooks, MachEnded

LEMMA CancelledKept ==
    ASSUME WriterInv, [Next]_vars, reconfigs' = 0
    PROVE  /\ cancelled \subseteq cancelled'
           /\ "mach" \notin enabled => cancelled' = cancelled
           /\ crashedDuring => crashedDuring'
<1>1. TypeOK /\ \A t \in Threads : ~Reconfigures(t)
  <2>1. TypeOK
      BY DEF WriterInv
  <2> QED BY <2>1, Uncounted
<1>2. ASSUME NEW p \in Procs, Moving(p)
      PROVE  cancelled \subseteq cancelled' /\ ("mach" \notin enabled => cancelled' = cancelled)
             /\ (crashedDuring => crashedDuring')
    BY <1>1, <1>2, MovingMonitors DEF AllOff, MonitorsKept
<1>3. CASE \A p \in Procs : ~Moving(p)
    BY <1>1, <1>3, OtherMonitors
<1> QED BY <1>2, <1>3

\* A thread of the application runs only while no other one, and no exception
\* thread, is inside a handler.
LEMMA RunsAlone ==
    ASSUME WriterInv, KindsSuspend, AllSuspend, NEW t \in Threads, Runnable(t),
           NEW q \in Procs \ {t}, NEW k \in Levels(q)
    PROVE  Fr(q, k).pc \notin HandlerPCs \cup {"notify", "switch"}
<1> SUFFICES ASSUME Fr(q, k).pc \in HandlerPCs \cup {"notify", "switch"} PROVE FALSE
    OBVIOUS
<1>1. Holds(Fr(q, k), q, t)
    BY DEF Holds, KindsSuspend, Others
<1> QED BY <1>1, HeldStops

\* A crash of the reporter that is being reported was so before, or begins to be.
LEMMA RenamedFrom ==
    ASSUME RecorderInv, Undisturbed, reconfigs' = 0, [Next]_vars,
           NEW q \in Procs, NEW k \in 1..Len(stack'[q]), Renaming(Fr1(q, k))
    PROVE  /\ crashedDuring /\ crashedDuring' /\ k \in Levels(q) /\ k = Len(stack[q])
           /\ \/ /\ Renaming(Fr(q, k))
                 /\ Fr1(q, k) = Fr(q, k) \/ (RenameReport(q) /\ MovesWithin(q, Fr1(q, k)) /\ Fr(q, k).pc = "rename")
              \/ Handle(q) /\ Fr1(q, k).pc = "rename" /\ MovesWithin(q, Fr1(q, k)) /\ Fr(q, k).pc = "handle"
           /\ q \notin trapped'
<1>0. TypeOK /\ WriterInv /\ RenamesLast /\ reconfigs = 0
    BY DEF RecorderInv, WriterInv, RenameInv, Undisturbed
<1>1. \/ k \in Levels(q) /\ Fr1(q, k) = Fr(q, k)
      \/ /\ Moving(q) /\ k = Len(stack[q]) /\ k \in Levels(q)
         /\ Top(q) = Fr(q, k) /\ MovesWithin(q, Fr1(q, k))
  <2>1. Fr1(q, k).pc # "enter"
      BY DEF Renaming
  <2> QED BY <1>0, <2>1, Origins
<1>2. CASE k \in Levels(q) /\ Fr1(q, k) = Fr(q, k)
  <2>1. Renaming(Fr(q, k)) /\ crashedDuring /\ k = Len(stack[q]) /\ q \notin trapped
      BY <1>0, <1>2 DEF RenamesLast
  <2>2. trapped' \subseteq trapped
      BY <1>0, <2>1, AfterRecrash, OriginsUnhooked
  <2> QED BY <1>0, <1>2, <2>1, <2>2, CancelledKept
<1>3. CASE Moving(q) /\ k = Len(stack[q]) /\ k \in Levels(q) /\ Top(q) = Fr(q, k) /\ MovesWithin(q, Fr1(q, k))
  <2>1. q \notin trapped'
      BY <1>0, <1>3, MovingShape DEF Runnable
  <2>2. CASE Fr1(q, k).pc = "rename"
    <3>1. Handle(q) /\ crashedDuring /\ Fr(q, k).pc = "handle"
        BY <1>0, <1>3, <2>2, Successors
    <3> QED BY <1>0, <1>3, <2>1, <2>2, <3>1, CancelledKept
  <2>3. CASE Fr1(q, k).pc = "rewrite"
    <3>1. RenameReport(q) /\ Fr(q, k).pc = "rename"
        BY <1>0, <1>3, <2>3, Successors
    <3>2. Renaming(Fr(q, k)) /\ crashedDuring
        BY <1>0, <1>3, <3>1 DEF Renaming, RenamesLast
    <3> QED BY <1>0, <1>3, <2>1, <3>1, <3>2, CancelledKept
  <2> QED BY <2>2, <2>3 DEF Renaming
<1> QED BY <1>1, <1>2, <1>3

\* It stays the innermost frame, as nothing interrupts it any more.
LEMMA RenamesLastNext ==
    ASSUME RecorderInv, Undisturbed, reconfigs' = 0, [Next]_vars, TypeOK',
           NEW q \in Procs, NEW k \in 1..Len(stack'[q]), Renaming(Fr1(q, k))
    PROVE  k = Len(stack'[q])
<1>0. TypeOK /\ WriterInv /\ reconfigs = 0 /\ stack \in Stacks
    BY DEF RecorderInv, WriterInv, Undisturbed, TypeOK, Stacks
<1>1. crashedDuring /\ k \in Levels(q) /\ k = Len(stack[q])
    BY RenamedFrom
<1>2. hooked = {}
    BY <1>0, <1>1, AfterRecrash
<1>3. Len(stack'[q]) \in Nat /\ k \in Nat /\ k <= Len(stack'[q])
  <2>1. stack'[q] \in Seq(Frames)
      BY DEF TypeOK
  <2> QED BY <2>1
<1> SUFFICES ASSUME k + 1 \in 1..Len(stack'[q]) PROVE FALSE
    BY <1>3
<1>4. k + 1 \notin Levels(q) /\ stack[q] # <<>> /\ k + 1 # Len(stack[q])
  <2>1. stack[q] \in Seq(Frames)
      BY <1>0 DEF Stacks
  <2> QED BY <1>1, <1>3, <2>1 DEF Levels
<1>5. q \in MachThreads /\ MachReceive(q)
    BY <1>0, <1>2, <1>4, OriginsUnhooked
<1>6. mach[q] = "waiting" /\ mach[q] = "busy"
    BY <1>0, <1>1, <1>5 DEF MachReceive, WriterInv, FramesInv, MachStacks
<1> QED BY <1>6

\* By the time a thread of the application reports a crash of the reporter, no
\* exception thread is inside a handler that was not cancelled, nor gets there.
LEMMA RenamesAfterNext ==
    ASSUME RecorderInv, Undisturbed, reconfigs' = 0, [Next]_vars,
           NEW t \in Threads, NEW k \in 1..Len(stack'[t]), Renaming(Fr1(t, k)),
           NEW m \in MachThreads \ cancelled', NEW j \in 1..Len(stack'[m])
    PROVE  Fr1(m, j).pc \in {"resume", "exit"}
<1>0. /\ TypeOK /\ WriterInv /\ KindsSuspend /\ AllSuspend /\ reconfigs = 0 /\ RenamesAfterMach /\ stack \in Stacks
      /\ t \in Procs /\ m \in Procs /\ m \notin Threads /\ t # m /\ m \notin cancelled
  <2>1. TypeOK /\ WriterInv /\ KindsSuspend /\ AllSuspend /\ reconfigs = 0 /\ RenamesAfterMach /\ stack \in Stacks
      BY DEF RecorderInv, WriterInv, RenameInv, Undisturbed, TypeOK, Stacks
  <2>2. t \in Procs /\ m \in Procs /\ m \notin Threads /\ t # m
      BY ConstantsAssumption DEF Procs
  <2> QED BY <2>1, <2>2, CancelledKept
<1>1. /\ crashedDuring /\ k \in Levels(t)
      /\ Renaming(Fr(t, k)) \/ Handle(t)
    BY <1>0, RenamedFrom
<1>2. hooked = {} /\ (NoneServes \/ MachLate)
    BY <1>0, <1>1, AfterRecrash
<1>3. mach[m] # "waiting"
    BY <1>0, <1>2 DEF NoneServes, MachLate
<1>4. \/ j \in Levels(m) /\ Fr1(m, j) = Fr(m, j)
      \/ Moving(m) /\ j \in Levels(m) /\ Top(m) = Fr(m, j) /\ MovesWithin(m, Fr1(m, j))
  <2>1. ~MachReceive(m)
      BY <1>3 DEF MachReceive
  <2> QED BY <1>0, <1>2, <2>1, OriginsUnhooked
<1>5. CASE Renaming(Fr(t, k))
  <2>1. Fr(m, j).pc \in {"resume", "exit"}
      BY <1>0, <1>1, <1>4, <1>5 DEF RenamesAfterMach, MachLeaving
  <2> QED BY <1>0, <1>4, <2>1, Successors
<1>6. CASE Handle(t)
  <2>1. Moving(t) /\ Runnable(t) /\ stack[t] # <<>>
      BY <1>6 DEF Moving, Records, Handle, At
  <2>2. j \in Levels(m) /\ Fr1(m, j) = Fr(m, j)
    <3>1. PICK g : MovesWithin(t, g)
        BY <1>0, <1>6, RecordMoves DEF Records
    <3> QED BY <1>0, <2>1, <3>1, AfterMove DEF MovesWithin, Fr1
  <2>3. ~NoneServes
      BY <1>0, <2>2 DEF NoneServes, WriterInv, FramesInv, MachStacks
  <2>4. Fr(m, j).pc \notin HandlerPCs \cup {"switch"}
      BY <1>0, <2>1, <2>2, RunsAlone
  <2> QED BY <1>0, <1>2, <2>2, <2>3, <2>4 DEF MachLate, Late
<1> QED BY <1>1, <1>5, <1>6

\* Both exception threads are never inside a handler.
LEMMA OneMachHandles ==
    ASSUME WriterInv, NEW m \in MachThreads, NEW n \in MachThreads, m # n,
           NEW k \in Levels(m), NEW j \in Levels(n)
    PROVE  ~(Fr(m, k).pc \in HandlerPCs /\ Fr(n, j).pc \in HandlerPCs)
<1>0. stack \in Stacks /\ FaultsInHandler /\ OneAnnounces /\ MachThreads \subseteq Procs
    BY DEF WriterInv, TypeOK, Stacks, FramesInv, MachInv, Procs
<1>1. ASSUME NEW p \in MachThreads, NEW i \in Levels(p), Fr(p, i).pc \in HandlerPCs
      PROVE  OutermostAt(p, HandlerPCs)
  <2>1. Len(stack[p]) \in Nat /\ i \in Nat /\ 1 <= i /\ i <= Len(stack[p])
      BY <1>0, <1>1, FrameType DEF Levels
  <2>2. 1 \in Levels(p) /\ (i = 1 \/ 1 < Len(stack[p]))
      BY <2>1 DEF Levels
  <2> QED BY <1>0, <1>1, <2>2 DEF OutermostAt, FaultsInHandler
<1>2. ~(OutermostAt(Primary, HandlerPCs) /\ OutermostAt(Secondary, HandlerPCs))
    BY <1>0 DEF OneAnnounces, OutermostAt
<1> QED BY <1>1, <1>2 DEF MachThreads

\* A second one does not begin.
LEMMA OneRenamesNext ==
    ASSUME RecorderInv, Undisturbed, reconfigs' = 0, [Next]_vars,
           NEW p \in Procs \ cancelled', NEW q \in Procs \ cancelled',
           NEW k \in 1..Len(stack'[p]), NEW j \in 1..Len(stack'[q]),
           Renaming(Fr1(p, k)), Renaming(Fr1(q, j))
    PROVE  p = q
<1>0. /\ TypeOK /\ WriterInv /\ KindsSuspend /\ AllSuspend /\ reconfigs = 0 /\ stack \in Stacks
      /\ OneRenames /\ RenamesAfterMach /\ p \notin cancelled /\ q \notin cancelled
  <2>1. TypeOK /\ WriterInv /\ KindsSuspend /\ AllSuspend /\ reconfigs = 0 /\ stack \in Stacks
        /\ OneRenames /\ RenamesAfterMach
      BY DEF RecorderInv, WriterInv, RenameInv, Undisturbed, TypeOK, Stacks
  <2> QED BY <2>1, CancelledKept
<1>1. ASSUME NEW a \in Procs \ cancelled, NEW b \in Procs \ cancelled, NEW i \in Levels(a), NEW l \in 1..Len(stack'[b]),
             Handle(b), Fr1(b, l).pc = "rename", MovesWithin(b, Fr1(b, l)), Renaming(Fr(a, i))
      PROVE  a = b
  <2> SUFFICES ASSUME a # b PROVE FALSE
      OBVIOUS
  <2>1. Runnable(b) /\ Top(b).pc = "handle" /\ stack[b] # <<>> /\ Len(stack[b]) \in Levels(b)
        /\ Top(b) = Fr(b, Len(stack[b])) /\ Fr(a, i).pc \in HandlerPCs
      BY <1>0, <1>1, TopAt DEF Handle, At, Renaming, HandlerPCs
  <2>2. CASE b \in Threads
      BY <1>0, <2>1, <2>2, RunsAlone
  <2>3. CASE b \in MachThreads /\ a \in Threads
      BY <1>0, <1>1, <2>1, <2>3 DEF RenamesAfterMach, MachLeaving
  <2>4. CASE b \in MachThreads /\ a \in MachThreads
    <3>1. Fr(b, Len(stack[b])).pc \in HandlerPCs
        BY <2>1 DEF HandlerPCs
    <3> QED BY <1>0, <2>1, <2>4, <3>1, OneMachHandles
  <2> QED BY <2>2, <2>3, <2>4 DEF Procs
<1>2. /\ k \in Levels(p) /\ p \in Procs
      /\ \/ Renaming(Fr(p, k))
         \/ Handle(p) /\ Fr1(p, k).pc = "rename" /\ MovesWithin(p, Fr1(p, k))
    BY RenamedFrom
<1>3. /\ j \in Levels(q) /\ q \in Procs
      /\ \/ Renaming(Fr(q, j))
         \/ Handle(q) /\ Fr1(q, j).pc = "rename" /\ MovesWithin(q, Fr1(q, j)) /\ Fr(q, j).pc = "handle"
    BY RenamedFrom
<1>4. CASE Renaming(Fr(p, k)) /\ Renaming(Fr(q, j))
    BY <1>0, <1>2, <1>3, <1>4 DEF OneRenames
<1>5. CASE Renaming(Fr(p, k)) /\ ~Renaming(Fr(q, j))
    BY <1>0, <1>1, <1>2, <1>3, <1>5
<1>6. CASE ~Renaming(Fr(p, k)) /\ Renaming(Fr(q, j))
    BY <1>0, <1>1, <1>2, <1>3, <1>6
\* Not both take this step.
<1>7. CASE ~Renaming(Fr(p, k)) /\ ~Renaming(Fr(q, j))
  <2> SUFFICES ASSUME p # q PROVE FALSE
      OBVIOUS
  <2>1. Fr1(q, j) = Fr(q, j)
    <3>1. MovesWithin(p, Fr1(p, k)) /\ stack[p] # <<>>
        BY <1>2, <1>7 DEF Handle, At
    <3> QED BY <1>0, <1>3, <3>1, AfterMove DEF MovesWithin, Fr1
  <2> QED BY <1>3, <1>7, <2>1
<1> QED BY <1>4, <1>5, <1>6, <1>7

LEMMA RenameNext == RecorderInv /\ TypeOK' /\ [Next]_vars => RenameInv'
<1> SUFFICES ASSUME RecorderInv, TypeOK', [Next]_vars, AllSuspend, reconfigs' = 0
    PROVE  /\ \A p \in Procs : \A k \in 1..Len(stack'[p]) :
                 Renaming(Fr1(p, k)) => crashedDuring' /\ k = Len(stack'[p]) /\ p \notin trapped'
           /\ \A t \in Threads : \A k \in 1..Len(stack'[t]) : Renaming(Fr1(t, k)) =>
                 \A m \in MachThreads \ cancelled' : \A j \in 1..Len(stack'[m]) :
                     Fr1(m, j).pc \in {"resume", "exit"}
           /\ \A p, q \in Procs \ cancelled' : \A k \in 1..Len(stack'[p]), j \in 1..Len(stack'[q]) :
                 Renaming(Fr1(p, k)) /\ Renaming(Fr1(q, j)) => p = q
           /\ \A p \in Procs : \A k \in 1..Len(stack'[p]) : Fr1(p, k).pc = "rewrite" => p \notin cancelled'
    BY RenamePrime DEF Undisturbed, AllSuspend
<1>0. TypeOK /\ WriterInv /\ Undisturbed /\ RewriterLives
  <2>1. TypeOK /\ WriterInv
      BY DEF RecorderInv, WriterInv
  <2>2. Undisturbed
      BY <2>1, Uncounted DEF Undisturbed
  <2> QED BY <2>1, <2>2 DEF RecorderInv, RenameInv
<1>1. \A p \in Procs : \A k \in 1..Len(stack'[p]) :
         Renaming(Fr1(p, k)) => crashedDuring' /\ k = Len(stack'[p]) /\ p \notin trapped'
    BY <1>0, RenamedFrom, RenamesLastNext
<1>2. ASSUME NEW p \in Procs, NEW k \in 1..Len(stack'[p]), Fr1(p, k).pc = "rewrite" PROVE p \notin cancelled'
  <2>1. /\ crashedDuring /\ k \in Levels(p)
        /\ Fr(p, k).pc = "rewrite" \/ RenameReport(p)
    <3>1. Renaming(Fr1(p, k))
        BY <1>2 DEF Renaming
    <3> QED BY <1>0, <1>2, <3>1, RenamedFrom
  <2>2. p \notin cancelled
      BY <1>0, <2>1 DEF RewriterLives, RenameReport
  <2>3. cancelled' = cancelled
      BY <1>0, <2>1, AfterRecrash, CancelledKept DEF Undisturbed
  <2> QED BY <2>2, <2>3
<1> QED BY <1>0, <1>1, <1>2, RenamesAfterNext, OneRenamesNext

-----------------------------------------------------------------------------
(* The .old file *)

\* A report that embeds another is the writer's own, and the .old file is there
\* only while one does.
OldInv ==
    Undisturbed =>
        /\ old = Absent \/ \E p \in Procs : \E k \in Levels(p) : Fr(p, k).pc = "rewrite"
        /\ \A p \in Procs : \A k \in Levels(p) : Embedding(Fr(p, k))

\* Who embeds the .old file is not stopped before it has done so.
LEMMA RewriterStays ==
    ASSUME RecorderInv, Undisturbed, reconfigs' = 0, [Next]_vars,
           NEW q \in Procs, NEW k \in Levels(q), Fr(q, k).pc = "rewrite"
    PROVE  \/ k \in 1..Len(stack'[q]) /\ Fr1(q, k) = Fr(q, k)
           \/ RewriteReport(q)
<1>0. /\ TypeOK /\ MachStacks /\ q \notin cancelled /\ crashedDuring /\ reconfigs = 0
      /\ \A t \in Threads : ~Reconfigures(t)
  <2>1. TypeOK /\ MachStacks /\ q \notin cancelled /\ crashedDuring /\ reconfigs = 0
      BY DEF RecorderInv, WriterInv, FramesInv, RenameInv, RenamesLast, RewriterLives, Renaming, Undisturbed
  <2> QED BY <2>1, Uncounted
<1>1. "mach" \notin enabled
    BY <1>0, AfterRecrash
<1>2. ASSUME NEW p \in Procs \ {q}, Moving(p) PROVE stack'[q] = stack[q]
  <2>1. OthersStay({p})
      BY <1>0, <1>1, <1>2, MovingMonitors DEF AllOff, MonitorsKept
  <2> QED BY <2>1 DEF OthersStay
<1>3. ASSUME NEW p \in Procs, CancelledAtFile(p) PROVE stack'[q] = stack[q]
  <2>1. OthersStay({p}) /\ p \in cancelled
      BY <1>0, <1>3, CancelShape
  <2> QED BY <1>0, <2>1 DEF OthersStay
<1>4. \/ k \in 1..Len(stack'[q]) /\ Fr1(q, k) = Fr(q, k)
      \/ Moving(q) /\ Top(q) = Fr(q, k) /\ MovesWithin(q, Fr1(q, k))
    BY <1>0, <1>2, <1>3, StaysInPlace
<1> QED BY <1>0, <1>4, Successors

\* Only one thread renames or embeds, and the .old file is its own.
LEMMA RenamerAlone ==
    ASSUME RecorderInv, Undisturbed, OldInv, NEW p \in Procs, RenameReport(p)
    PROVE  old = Absent /\ \A q \in Procs : \A k \in Levels(q) : Fr(q, k).pc # "rewrite"
<1>0. /\ stack \in Stacks /\ stack[p] # <<>> /\ Top(p).pc = "rename" /\ p \notin cancelled
      /\ OneRenames /\ RewriterLives /\ RenamesLast
    BY DEF RecorderInv, WriterInv, TypeOK, Stacks, RenameInv, RenameReport, At
<1>1. Len(stack[p]) \in Levels(p) /\ Fr(p, Len(stack[p])).pc = "rename"
    BY <1>0, TopAt
<1>2. ASSUME NEW q \in Procs, NEW k \in Levels(q), Fr(q, k).pc = "rewrite" PROVE FALSE
  <2>1. q \notin cancelled /\ k = Len(stack[q])
      BY <1>0, <1>2 DEF RewriterLives, RenamesLast, Renaming
  <2>2. q = p
      BY <1>0, <1>1, <1>2, <2>1 DEF OneRenames, Renaming
  <2> QED BY <1>1, <1>2, <2>1, <2>2
<1> QED BY <1>2 DEF OldInv

\* The same of the next state.
LEMMA OldInvPrime ==
    ASSUME Undisturbed' =>
             /\ old' = Absent \/ \E p \in Procs : \E k \in 1..Len(stack'[p]) : Fr1(p, k).pc = "rewrite"
             /\ \A p \in Procs : \A k \in 1..Len(stack'[p]) : Fr1(p, k).pc = "rewrite" =>
                   Fr1(p, k).path \in ReportIDs /\ report'[Fr1(p, k).path].creator = Fr1(p, k).event
    PROVE  OldInv'
BY DEF OldInv, Embedding, Levels, Fr, Fr1

\* What an embedding report is about.
LEMMA EmbeddingNext ==
    ASSUME RecorderInv, Undisturbed, OldInv, reconfigs' = 0, [Next]_vars,
           NEW q \in Procs, NEW k \in 1..Len(stack'[q]), Fr1(q, k).pc = "rewrite"
    PROVE  Fr1(q, k).path \in ReportIDs /\ report'[Fr1(q, k).path].creator = Fr1(q, k).event
<1>0. TypeOK /\ stack \in Stacks /\ report \in [ReportIDs -> Files] /\ reconfigs = 0
    BY DEF RecorderInv, WriterInv, TypeOK, Stacks, Undisturbed
<1>1. /\ k \in Levels(q)
      /\ \/ Fr1(q, k) = Fr(q, k)
         \/ RenameReport(q) /\ MovesWithin(q, Fr1(q, k))
    BY RenamedFrom DEF Renaming
<1>2. CASE RenameReport(q) /\ MovesWithin(q, Fr1(q, k))
  <2>1. /\ Fr1(q, k).path \in ReportIDs
        /\ report' = [report EXCEPT ![Fr1(q, k).path] = CreatedBy(Fr1(q, k).event)]
      BY <1>0, <1>2, OldStep DEF Records, RewriteReport, At
  <2> QED BY <1>0, <2>1 DEF CreatedBy
<1>3. CASE Fr1(q, k) = Fr(q, k)
  <2> DEFINE f == Fr(q, k)
  <2>1. f.path \in ReportIDs /\ report[f.path].creator = f.event /\ f.event # 0
    <3>1. f \in Frames
        BY <1>0, <1>1, FrameType
    <3> QED BY <1>1, <1>3, <3>1, ConstantsAssumption DEF OldInv, Embedding, Frames, Events
  <2> HIDE DEF f
  <2>2. ASSUME NEW p \in Procs, Records(p) PROVE report'[f.path].creator = f.event
    <3>1. CASE RenameReport(p)
        BY <1>1, <1>3, <3>1, RenamerAlone
    <3>2. CASE Handle(p) \/ NextPath(p)
        BY <2>1, <3>2 DEF Handle, NextPath, files
    <3>3. CASE OpenReport(p)
      <4>1. report[f.path] # Absent
          BY <2>1 DEF Absent
      <4>2. report'[f.path] = report[f.path]
          BY <1>0, <2>1, <3>3, <4>1 DEF OpenReport
      <4> QED BY <2>1, <4>2
    <3>4. CASE WriteReport(p)
        BY <1>0, <2>1, <3>4 DEF WriteReport, Files
    <3>5. CASE RewriteReport(p)
        BY <1>0, <2>1, <3>5 DEF RewriteReport, Files
    <3> QED BY <2>2, <3>1, <3>2, <3>3, <3>4, <3>5 DEF Records
  <2>3. report'[f.path].creator = f.event
      BY <1>0, <2>1, <2>2, FilesSteps
  <2> QED BY <1>3, <2>1, <2>3 DEF f
<1> QED BY <1>1, <1>2, <1>3

LEMMA OldNext == RecorderInv /\ OldInv /\ [Next]_vars => OldInv'
<1> SUFFICES ASSUME RecorderInv, OldInv, [Next]_vars, AllSuspend, reconfigs' = 0
    PROVE  /\ old' = Absent \/ \E p \in Procs : \E k \in 1..Len(stack'[p]) : Fr1(p, k).pc = "rewrite"
           /\ \A p \in Procs : \A k \in 1..Len(stack'[p]) : Fr1(p, k).pc = "rewrite" =>
                 Fr1(p, k).path \in ReportIDs /\ report'[Fr1(p, k).path].creator = Fr1(p, k).event
    BY OldInvPrime DEF Undisturbed, AllSuspend
<1>0. TypeOK /\ Undisturbed /\ stack \in Stacks
  <2>1. TypeOK /\ stack \in Stacks
      BY DEF RecorderInv, WriterInv, TypeOK, Stacks
  <2> QED BY <2>1, Uncounted DEF Undisturbed
<1>1. old' = Absent \/ \E p \in Procs : \E k \in 1..Len(stack'[p]) : Fr1(p, k).pc = "rewrite"
  <2> SUFFICES ASSUME old' # Absent PROVE \E p \in Procs : \E k \in 1..Len(stack'[p]) : Fr1(p, k).pc = "rewrite"
      OBVIOUS
  <2>1. ASSUME NEW p \in Procs, RewriteReport(p) PROVE FALSE
      BY <2>1 DEF RewriteReport
  <2>2. CASE old' = old
    <3>1. PICK q \in Procs : \E k \in Levels(q) : Fr(q, k).pc = "rewrite"
        BY <1>0, <2>2 DEF OldInv
    <3>2. PICK k \in Levels(q) : Fr(q, k).pc = "rewrite"
        BY <3>1
    <3> QED BY <1>0, <2>1, <3>2, RewriterStays
  <2>3. ASSUME NEW p \in Procs, Records(p) PROVE \E q \in Procs : \E k \in 1..Len(stack'[q]) : Fr1(q, k).pc = "rewrite"
    <3>1. PICK g : MovesWithin(p, g)
        BY <1>0, <2>3, RecordMoves
    <3>2. g.pc = "rewrite" \/ old' = old
        BY <1>0, <2>1, <2>3, <3>1, OldStep
    <3>3. CASE g.pc = "rewrite"
      <4>1. stack[p] # <<>>
          BY <1>0, <2>3, MovingShape DEF Moving
      <4>2. Len(stack[p]) \in 1..Len(stack'[p]) /\ Fr1(p, Len(stack[p])) = g
          BY <1>0, <3>1, <4>1, TopAt DEF MovesWithin, Moves, Fr1, Levels
      <4> QED BY <3>3, <4>2
    <3> QED BY <2>2, <3>2, <3>3
  <2> QED BY <1>0, <2>2, <2>3, FilesSteps
<1> QED BY <1>0, <1>1, EmbeddingNext

\* What is recorded stays, with every step of an undisturbed recorder.
LEMMA RecordedKept ==
    ASSUME RecorderInv, OldInv, AllSuspend, reconfigs' = 0, [Next]_vars
    PROVE  RecordedEvents \subseteq RecordedEvents'
<1>0. TypeOK /\ stack \in Stacks /\ Undisturbed
  <2>1. TypeOK /\ stack \in Stacks
      BY DEF RecorderInv, WriterInv, TypeOK, Stacks
  <2> QED BY <2>1, Uncounted DEF Undisturbed
<1>1. CASE UNCHANGED <<report, old>>
    BY <1>1, RecordedSame
<1>2. ASSUME NEW p \in Procs, Records(p) PROVE RecordedEvents \subseteq RecordedEvents'
  <2>1. Len(stack[p]) \in Levels(p) /\ Top(p) = Fr(p, Len(stack[p]))
    <3>1. stack[p] # <<>>
        BY <1>0, <1>2, MovingShape DEF Moving
    <3> QED BY <1>0, <3>1, TopAt
  <2>2. Embedding(Top(p))
      BY <1>0, <2>1 DEF OldInv
  <2>3. Top(p).pc = "rename" => old = Absent
    <3>1. Top(p).pc = "rename" => RenameReport(p)
        BY <1>2 DEF Records, Handle, NextPath, OpenReport, WriteReport, RewriteReport, At
    <3> QED BY <1>0, <3>1, RenamerAlone
  <2> QED BY <1>0, <1>2, <2>2, <2>3, RecordedStep
<1> QED BY <1>0, <1>1, <1>2, FilesSteps

LEMMA RecorderInit == Init => MachEnded /\ KindsSuspend /\ RenameInv /\ OldInv
<1> SUFFICES ASSUME Init PROVE MachEnded /\ KindsSuspend /\ RenameInv /\ OldInv
    OBVIOUS
<1>1. \A p \in Procs : Levels(p) = {}
    BY EmptyAtFirst
<1>2. MachThreads \subseteq Procs /\ Threads \subseteq Procs
    BY DEF Procs
<1>3. KindsSuspend /\ RenameInv
    BY <1>1, <1>2 DEF KindsSuspend, RenameInv, RenamesLast, RenamesAfterMach, OneRenames, RewriterLives
<1>4. OldInv
    BY <1>1 DEF OldInv, Init
<1>5. MachEnded
  <2>1. /\ ~crashedDuring
        /\ "mach" \in hooked => machKnown = MachThreads /\ "mach" \in enabled
        /\ "mach" \notin hooked => NoneServes
      BY DEF Init, NoneServes
  <2> QED BY <2>1 DEF MachEnded
<1> QED BY <1>3, <1>4, <1>5

LEMMA RecorderNext == RecorderInv /\ OldInv /\ WriterInv' /\ [Next]_vars => RecorderInv' /\ OldInv'
<1> SUFFICES ASSUME RecorderInv, OldInv, WriterInv', [Next]_vars PROVE RecorderInv' /\ OldInv'
    OBVIOUS
<1>1. WriterInv /\ TypeOK /\ TypeOK' /\ MachEnded /\ KindsSuspend
    BY DEF RecorderInv, WriterInv
<1>2. MachEnded' /\ KindsSuspend' /\ RenameInv' /\ OldInv'
    BY <1>1, EndedNext, KindsNext, RenameNext, OldNext
<1> QED BY <1>2 DEF RecorderInv

LEMMA RecorderInvariant == Spec => [](RecorderInv /\ OldInv)
<1>1. WriterInv /\ MachEnded /\ KindsSuspend /\ RenameInv => RecorderInv
    BY DEF RecorderInv
<1> QED BY <1>1, RecorderInit, RecorderNext, WriterInvariant, PTL DEF Spec

\* Once an event is recorded completely it stays recorded, in its report, in one
\* that embeds it or in the .old file about to be embedded: with every crash of the
\* reporter, on however many threads, as long as the program leaves the monitors as
\* they were installed and asks for no user report that leaves the other threads
\* running.
THEOREM RecordedAlwaysStays ==
    ASSUME Triggers \cap {"user", "userFatal"} = {}
    PROVE  /\ Spec => [][reconfigs' = 0 => RecordedEvents \subseteq RecordedEvents']_vars
           /\ MaxReconfigs = 0 => (Spec => RecordedStays)
<1>0. AllSuspend
    BY DEF AllSuspend
<1>1. RecorderInv /\ OldInv /\ [Next]_vars => [reconfigs' = 0 => RecordedEvents \subseteq RecordedEvents']_vars
    BY <1>0, RecordedKept
<1>2. Spec => [][reconfigs' = 0 => RecordedEvents \subseteq RecordedEvents']_vars
    BY <1>1, RecorderInvariant, PTL DEF Spec
<1>3. ASSUME MaxReconfigs = 0 PROVE Spec => RecordedStays
  <2>1. TypeOK' => reconfigs' = 0
      BY <1>3 DEF TypeOK
  <2>2. RecorderInv /\ OldInv /\ TypeOK' /\ [Next]_vars => [RecordedEvents \subseteq RecordedEvents']_vars
      BY <1>0, <2>1, RecordedKept
  <2> QED BY <2>2, RecorderInvariant, TypeCorrect, PTL DEF Spec, RecordedStays
<1> QED BY <1>2, <1>3
=============================================================================
