------------------------ MODULE CrashMonitor_proofs ------------------------
(***************************************************************************)
(* Type correctness of CrashMonitor and two of its safety properties; then *)
(* the handlers at work: none of them is entered again by what another     *)
(* does after a crash was recorded, and one of them writes at a time.  All *)
(* for any number of threads, crashes and changes of the monitors.         *)
(*                                                                         *)
(* The frames of a thread are counted from the outermost one, so that the  *)
(* number of a frame stays the same while others are pushed and popped.    *)
(* The second part says for every step where the frames of the next state  *)
(* come from, and where those of this state go; the invariants of the      *)
(* later parts speak about frames and are kept because of that.            *)
(***************************************************************************)
EXTENDS CrashMonitor, FiniteSetTheorems, TLAPS

Stacks == [Procs -> Seq(Frames)]
MachStates == [MachThreads -> {"none", "waiting", "suspended", "busy", "gone", "cancelled"}]

\* The innermost frame of a non-empty stack is a frame.
LEMMA TopIsFrame ==
    ASSUME NEW p \in Procs, stack \in Stacks, stack[p] # <<>>
    PROVE  Top(p) \in Frames
BY DEF Top, Stacks

\* Replacing, pushing and popping the innermost frame keeps stacks well typed.
LEMMA StackOps ==
    ASSUME NEW p, NEW stk \in Stacks, NEW f \in Frames
    PROVE  /\ stk[p] # <<>> => WithTop(stk, p, f) \in Stacks
           /\ Pushed(stk, p, f) \in Stacks
           /\ stk[p] # <<>> => Popped(stk, p) \in Stacks
<1>1. CASE p \in Procs
  <2>1. stk[p] \in Seq(Frames) BY <1>1 DEF Stacks
  <2>2. stk[p] # <<>> => Tail(stk[p]) \in Seq(Frames) BY <2>1
  <2>3. <<f>> \in Seq(Frames) OBVIOUS
  <2>4. stk[p] # <<>> => <<f>> \o Tail(stk[p]) \in Seq(Frames) BY <2>2, <2>3
  <2>5. <<f>> \o stk[p] \in Seq(Frames) BY <2>1, <2>3
  <2> QED BY <2>2, <2>4, <2>5 DEF WithTop, Pushed, Popped, Stacks
<1>2. CASE p \notin Procs
  BY <1>2 DEF WithTop, Pushed, Popped, Stacks
<1> QED BY <1>1, <1>2

\* A new handler frame is a frame.
LEMMA NewFrame ==
    ASSUME NEW k \in Kinds, NEW e \in Events, NEW s \in Subjects
    PROVE  Frame(k, e, s) \in Frames
BY DEF Frame, Frames, PCs, Paths

\* The setEnabled functions keep what it writes well typed.
LEMMA SwitchMonitorsType ==
    ASSUME TypeOK, NEW types \in SUBSET Monitors, NEW self, NEW failing,
           NEW stk \in Stacks, SwitchMonitors(types, self, failing, stk)
    PROVE  /\ enabled' \in SUBSET Monitors /\ hooked' \in SUBSET Hookable
           /\ EnabledAfter(types) \in SUBSET Monitors
           /\ mach' \in MachStates /\ machKnown' \in SUBSET MachThreads
           /\ cancelled' \in SUBSET MachThreads /\ stack' \in Stacks
<1>1. enabled' \in SUBSET Monitors /\ EnabledAfter(types) \in SUBSET Monitors
  BY DEF SwitchMonitors, EnabledAfter, TypeOK, Monitors
<1>2. hooked' \in SUBSET Hookable
  BY DEF SwitchMonitors, HookedAfter, TypeOK
<1>3. mach' \in MachStates
  BY DEF SwitchMonitors, InstalledThreads, MachStates, TypeOK
<1>4. stack' \in Stacks
  <2>1. <<>> \in Seq(Frames) OBVIOUS
  <2> QED BY <2>1 DEF SwitchMonitors, Stacks
<1>5. machKnown' \in SUBSET MachThreads /\ cancelled' \in SUBSET MachThreads
  BY DEF SwitchMonitors, Forgotten, TypeOK
<1> QED BY <1>1, <1>2, <1>3, <1>4, <1>5

\* Delivering a signal, or a hardware exception, keeps what it writes well typed.
LEMMA DeliverType ==
    ASSUME TypeOK, NEW stk \in Stacks, NEW p, NEW e \in Events, NEW sig \in Subjects,
           Deliver(stk, p, e, sig)
    PROVE  stack' \in Stacks /\ dead' \in BOOLEAN
<1>1. Frame("signal", e, sig) \in Frames BY NewFrame DEF Kinds
<1>2. Pushed(stk, p, Frame("signal", e, sig)) \in Stacks BY <1>1, StackOps
<1> QED BY <1>2 DEF Deliver, TypeOK

LEMMA FaultType ==
    ASSUME TypeOK, NEW p \in Procs, NEW e \in Events, Fault(p, e)
    PROVE  /\ stack' \in Stacks /\ dead' \in BOOLEAN
           /\ trapped' \in SUBSET Procs
           /\ port' \in Seq([victim : Procs, event : Events])
<1>0. stack \in Stacks BY DEF TypeOK, Stacks
<1>1. CASE "mach" \in hooked
  <2>1. [victim |-> p, event |-> e] \in [victim : Procs, event : Events] OBVIOUS
  <2>2. Append(port, [victim |-> p, event |-> e]) \in Seq([victim : Procs, event : Events])
    BY <2>1 DEF TypeOK
  <2> QED BY <1>0, <1>1, <2>2 DEF Fault, TypeOK
<1>2. CASE "mach" \notin hooked
  <2>1. Deliver(stack, p, e, "SEGV") /\ UNCHANGED <<trapped, port>> BY <1>2 DEF Fault
  <2>2. stack' \in Stacks /\ dead' \in BOOLEAN
    BY <1>0, <2>1, DeliverType DEF Subjects, Signals
  <2> QED BY <2>1, <2>2 DEF TypeOK
<1> QED BY <1>1, <1>2

\* The next event number exists whenever the bound lets one happen.
LEMMA NextEvent ==
    ASSUME TypeOK, events < MaxEvents
    PROVE  events + 1 \in Events /\ events + 1 \in 0..MaxEvents
BY ConstantsAssumption DEF TypeOK, Events

\* At a program point, the innermost frame may move to any other.
LEMMA MoveFrame ==
    ASSUME TypeOK, NEW p \in Procs, stack[p] # <<>>, NEW pc \in PCs, NEW todo \in SUBSET Threads
    PROVE  /\ WithTop(stack, p, [Top(p) EXCEPT !.pc = pc]) \in Stacks
           /\ WithTop(stack, p, [Top(p) EXCEPT !.todo = todo]) \in Stacks
           /\ WithTop(stack, p, [Top(p) EXCEPT !.pc = pc, !.todo = todo]) \in Stacks
           /\ Popped(stack, p) \in Stacks
<1>1. stack \in Stacks BY DEF TypeOK, Stacks
<1>2. Top(p) \in Frames BY <1>1, TopIsFrame
<1>3. /\ [Top(p) EXCEPT !.pc = pc] \in Frames
      /\ [Top(p) EXCEPT !.todo = todo] \in Frames
      /\ [Top(p) EXCEPT !.pc = pc, !.todo = todo] \in Frames
  BY <1>2 DEF Frames
<1> QED BY <1>1, <1>2, <1>3, StackOps

-----------------------------------------------------------------------------
LEMMA TypeInit == Init => TypeOK
<1> SUFFICES ASSUME NEW failing \in SUBSET AsyncSafe, Init PROVE TypeOK
  BY DEF Init
<1>1. Masked(Monitoring, FALSE) \in SUBSET Monitors
  BY ConstantsAssumption DEF Masked
<1>2. enabled \in SUBSET Monitors /\ hooked \in SUBSET Hookable /\ activeMonitors \in SUBSET Monitors
  BY <1>1 DEF Init
<1>3. mach \in MachStates /\ machKnown \in SUBSET MachThreads /\ cancelled \in SUBSET MachThreads
  BY DEF Init, InstalledThreads, MachStates
<1>4. /\ port \in Seq([victim : Procs, event : Events])
      /\ stack \in Stacks /\ suspendCount \in [Threads -> Nat]
  BY DEF Init, Stacks
<1>5. Absent \in Files BY DEF Absent, Files
<1>6. report \in [ReportIDs -> Files] /\ old \in Files BY <1>5 DEF Init
<1>7. events \in 0..MaxEvents /\ reconfigs \in 0..MaxReconfigs
  BY ConstantsAssumption DEF Init
<1>8. nextID \in Nat \ {0} /\ lastPath \in Paths BY DEF Init, Paths
<1> QED BY <1>2, <1>3, <1>4, <1>6, <1>7, <1>8 DEF Init, TypeOK, Stacks, MachStates

\* A step of vicrabcrash_setMonitoring switches one monitor, or none; it waits
\* for no exception thread to be busy before it installs the Mach monitor.
LEMMA Reconfigured ==
    ASSUME TypeOK, NEW t \in Threads, Reconfigures(t)
    PROVE  /\ stack[t] = <<>> /\ Runnable(t) /\ reconfigs \in Nat /\ reconfigs' \in Nat \ {0}
           /\ UNCHANGED <<flags, machHandling, kernel, suspendCount, crashedThisLaunch,
                          files, events, captured>>
           /\ \/ UNCHANGED <<enabled, hooked, machKnown, cancelled, mach, stack>>
              \/ \E types \in SUBSET Monitors, failing \in SUBSET AsyncSafe :
                    /\ "mach" \in types \ enabled => \A m \in MachThreads : mach[m] # "busy"
                    /\ SwitchMonitors(types, t, failing, stack)
<1>1. reconfigs \in Nat /\ (setting[t] # NoSetting => reconfigs # 0)
    BY ConstantsAssumption DEF TypeOK
<1>2. CASE SetMonitoring(t)
    BY <1>1, <1>2 DEF SetMonitoring, Idle, Free, monitors
<1>3. CASE SetEnabled(t)
  <2>1. Toggled(setting[t]) \in SUBSET Monitors
    <3>1. setting[t].next \in 1..9
        BY <1>3 DEF SetEnabled, Order
    <3>2. Order[setting[t].next] \in Monitors
        BY <3>1 DEF Order, Monitors
    <3> QED BY <3>2 DEF Toggled, TypeOK
  <2>2. setting[t] # NoSetting
      BY <1>3 DEF SetEnabled, NoSetting
  <2>3. \E types \in SUBSET Monitors, failing \in SUBSET AsyncSafe :
                    /\ "mach" \in types \ enabled => \A m \in MachThreads : mach[m] # "busy"
                    /\ SwitchMonitors(types, t, failing, stack)
      BY <1>3, <2>1 DEF SetEnabled
  <2> QED BY <1>1, <1>3, <2>2, <2>3 DEF SetEnabled, Free
<1>4. CASE SetActive(t)
  <2>1. setting[t] # NoSetting
      BY <1>4 DEF SetActive, NoSetting, Order
  <2> QED BY <1>1, <1>4, <2>1 DEF SetActive, Free
<1> QED BY <1>2, <1>3, <1>4 DEF Reconfigures

LEMMA SettingType ==
    ASSUME TypeOK, NEW t \in Threads, Reconfigures(t)
    PROVE  setting' \in [Threads -> IF reconfigs' = 0 THEN {NoSetting} ELSE Settings]
<1>1. setting \in [Threads -> Settings]
  <2>1. NoSetting \in Settings
      BY DEF NoSetting, Settings, Order
  <2> QED BY <2>1 DEF TypeOK
<1>2. reconfigs' # 0
    BY Reconfigured
<1>3. CASE SetMonitoring(t)
  <2>1. PICK types \in Choices : setting' = [setting EXCEPT ![t] =
           [types |-> Masked(types, requiresAsyncSafety), next |-> 1]]
      BY <1>3 DEF SetMonitoring
  <2>2. [types |-> Masked(types, requiresAsyncSafety), next |-> 1] \in Settings
      BY ConstantsAssumption DEF Masked, Settings, Order
  <2> QED BY <1>1, <1>2, <2>1, <2>2
<1>4. CASE SetEnabled(t)
  <2>1. Visited(setting[t]) \in Settings
    <3>1. setting[t].types \in SUBSET Monitors /\ setting[t].next \in 1..Len(Order)
        BY <1>1, <1>4 DEF SetEnabled, Settings
    <3>2. Len(Order) = 9 /\ Order[setting[t].next] \in Monitors
        BY <3>1 DEF Order, Monitors
    <3> QED BY <3>1, <3>2 DEF Visited, Settings
  <2> QED BY <1>1, <1>2, <1>4, <2>1 DEF SetEnabled
<1>5. CASE SetActive(t)
  <2>1. NoSetting \in Settings
      BY DEF NoSetting, Settings, Order
  <2> QED BY <1>1, <1>2, <1>5, <2>1 DEF SetActive
<1> QED BY <1>3, <1>4, <1>5 DEF Reconfigures

\* What an application thread does keeps the types.
LEMMA TypeApp ==
    ASSUME TypeOK, NEW t \in Threads, AppStep(t)
    PROVE  TypeOK'
<1>0. stack \in Stacks /\ t \in Procs BY DEF TypeOK, Stacks, Procs
<1>1. ASSUME NEW k, Trigger(t, k),
             stack' \in Stacks, dead' \in BOOLEAN, trapped' \in SUBSET Procs,
             port' \in Seq([victim : Procs, event : Events])
      PROVE  TypeOK'
  <2>1. events' \in 0..MaxEvents BY <1>1, NextEvent DEF Trigger
  <2> QED BY <1>1, <2>1 DEF Trigger, TypeOK, Stacks, monitors, flags, files
<1>2. ASSUME NEW k, Trigger(t, k) PROVE events + 1 \in Events
  BY <1>2, NextEvent DEF Trigger
<1>3. ASSUME NEW k, Trigger(t, k), NEW sig \in Subjects, Deliver(stack, t, events + 1, sig),
             UNCHANGED <<trapped, port>>
      PROVE  TypeOK'
  <2>1. stack' \in Stacks /\ dead' \in BOOLEAN BY <1>0, <1>2, <1>3, DeliverType
  <2> QED BY <1>1, <1>3, <2>1 DEF TypeOK
<1>4. ASSUME NEW k, NEW j \in Kinds, Trigger(t, k), Enters(t, j) PROVE TypeOK'
  <2>1. Frame(j, events + 1, t) \in Frames
    BY <1>0, <1>2, <1>4, NewFrame DEF Subjects
  <2>2. stack' \in Stacks BY <1>0, <1>4, <2>1, StackOps DEF Enters
  <2> QED BY <1>1, <1>4, <2>2 DEF Enters, kernel, TypeOK
<1>5. ASSUME NEW k, Trigger(t, k), NEW ns, NoTerminateHandler(t, ns) PROVE TypeOK'
  BY <1>3, <1>4, <1>5 DEF NoTerminateHandler, Kinds, Subjects, Signals
<1>6. CASE HardwareFault(t)
  BY <1>0, <1>1, <1>2, <1>6, FaultType DEF HardwareFault
<1>7. CASE RaiseSignal(t)
  BY <1>3, <1>7 DEF RaiseSignal, Subjects, Signals
<1>8. CASE UncaughtNSException(t)
  BY <1>4, <1>5, <1>8 DEF UncaughtNSException, Kinds
<1>9. CASE UncaughtCPPException(t)
  BY <1>4, <1>5, <1>9 DEF UncaughtCPPException, Kinds
<1>10. CASE \E k \in UserKinds \cup {"snapshot", "deadlock"} : Call(t, k)
  BY <1>4, <1>10 DEF Call, Kinds
<1>11. CASE Reconfigures(t)
  <2>1. /\ enabled' \in SUBSET Monitors /\ hooked' \in SUBSET Hookable
        /\ mach' \in MachStates /\ machKnown' \in SUBSET MachThreads
        /\ cancelled' \in SUBSET MachThreads /\ stack' \in Stacks
    <3>1. CASE UNCHANGED <<enabled, hooked, machKnown, cancelled, mach, stack>>
        BY <1>0, <3>1 DEF TypeOK, MachStates
    <3>2. ASSUME NEW types \in SUBSET Monitors, NEW failing \in SUBSET AsyncSafe,
                 SwitchMonitors(types, t, failing, stack)
          PROVE  /\ enabled' \in SUBSET Monitors /\ hooked' \in SUBSET Hookable
                 /\ mach' \in MachStates /\ machKnown' \in SUBSET MachThreads
                 /\ cancelled' \in SUBSET MachThreads /\ stack' \in Stacks
        BY <1>0, <3>2, SwitchMonitorsType
    <3> QED BY <1>11, <3>1, <3>2, Reconfigured
  <2>2. reconfigs' \in 0..MaxReconfigs /\ activeMonitors' \in SUBSET Monitors
    BY <1>11, ConstantsAssumption
    DEF Reconfigures, SetMonitoring, SetEnabled, SetActive, TypeOK, monitors, Settings, NoSetting
  <2>3. setting' \in [Threads -> IF reconfigs' = 0 THEN {NoSetting} ELSE Settings]
    BY <1>11, SettingType
  <2>4. UNCHANGED <<flags, machHandling, kernel, suspendCount, crashedThisLaunch, files, events, captured>>
    BY <1>11, Reconfigured
  <2> QED BY <2>1, <2>2, <2>3, <2>4 DEF TypeOK, Stacks, MachStates, flags, kernel, files
<1> QED BY <1>6, <1>7, <1>8, <1>9, <1>10, <1>11 DEF AppStep

\* The handler steps before onCrash.
LEMMA TypeSuspend ==
    ASSUME TypeOK, NEW p \in Procs, Enter(p) \/ SuspendOne(p) \/ SuspendDone(p)
    PROVE  TypeOK'
<1>0. stack \in Stacks /\ stack[p] # <<>>
  BY DEF TypeOK, Stacks, Enter, SuspendOne, SuspendDone, At
<1>1. Top(p) \in Frames BY <1>0, TopIsFrame
<1>2. Others(p) \in SUBSET Threads BY DEF Others
<1>3. WithTop(stack, p, AfterSuspend(Top(p), p)) \in Stacks
  BY <1>0, <1>2, MoveFrame DEF AfterSuspend, PCs
<1>4. CASE Enter(p)
  <2>1. stack' \in Stacks
    BY <1>0, <1>2, <1>3, <1>4, MoveFrame DEF Enter, PCs
  <2> QED BY <1>4, <2>1
      DEF Enter, TypeOK, Stacks, monitors, flags, kernel, files, bounds
<1>5. CASE SuspendOne(p)
  <2>1. PICK t \in Top(p).todo :
          /\ suspendCount' = [suspendCount EXCEPT ![t] = @ + 1]
          /\ stack' = WithTop(stack, p, [Top(p) EXCEPT !.todo = @ \ {t}])
    BY <1>5 DEF SuspendOne
  <2>2. Top(p).todo \ {t} \in SUBSET Threads /\ t \in Threads BY <1>1 DEF Frames
  <2>3. stack' \in Stacks
    <3>1. [Top(p) EXCEPT !.todo = @ \ {t}] = [Top(p) EXCEPT !.todo = Top(p).todo \ {t}]
      OBVIOUS
    <3> DEFINE rest == Top(p).todo \ {t}
    <3>2. stack' = WithTop(stack, p, [Top(p) EXCEPT !.todo = rest]) BY <2>1, <3>1
    <3>3. rest \in SUBSET Threads BY <2>2
    <3> HIDE DEF rest
    <3> QED BY <1>0, <3>2, <3>3, MoveFrame DEF PCs
  <2>4. suspendCount' \in [Threads -> Nat] BY <2>1, <2>2 DEF TypeOK
  <2> QED BY <1>5, <2>3, <2>4
      DEF SuspendOne, TypeOK, Stacks, monitors, flags, kernel, files, bounds
<1>6. CASE SuspendDone(p)
  <2>1. stack' \in Stacks BY <1>3, <1>6 DEF SuspendDone
  <2> QED BY <1>6, <2>1
      DEF SuspendDone, TypeOK, Stacks, monitors, flags, kernel, files, bounds
<1> QED BY <1>4, <1>5, <1>6

\* Announcing a crash, and the hand-over between the exception threads.
LEMMA TypeNotify ==
    ASSUME TypeOK, NEW p \in Procs, Notify(p) \/ SwitchMachThread(p)
    PROVE  TypeOK'
<1>0. stack \in Stacks /\ stack[p] # <<>>
  BY DEF TypeOK, Stacks, Notify, SwitchMachThread, At
<1>1. Top(p) \in Frames BY <1>0, TopIsFrame
<1>2. CASE Notify(p)
  <2> DEFINE next == WithTop(stack, p, [Top(p) EXCEPT
                       !.pc = IF Top(p).kind = "mach" THEN "switch" ELSE "handle"])
  <2>1. next \in Stacks BY <1>0, MoveFrame DEF PCs
  <2>2. OnNotify(p, next) BY <1>2 DEF Notify
  <2> HIDE DEF next
  <2>3. /\ enabled' \in SUBSET Monitors /\ hooked' \in SUBSET Hookable
        /\ activeMonitors' \in SUBSET Monitors
        /\ mach' \in MachStates /\ machKnown' \in SUBSET MachThreads
        /\ cancelled' \in SUBSET MachThreads /\ stack' \in Stacks
    <3>1. CASE crashedDuring'
      BY <2>1, <2>2, <3>1, SwitchMonitorsType DEF OnNotify, Uninstall
    <3>2. CASE ~crashedDuring'
      BY <2>1, <2>2, <3>2 DEF OnNotify, KeepMonitors, TypeOK, MachStates, monitors
    <3> QED BY <3>1, <3>2
  <2>4. captured' \in SUBSET Events BY <1>1, <1>2 DEF Notify, TypeOK, Frames
  <2>5. /\ requiresAsyncSafety' \in BOOLEAN /\ handlingFatal' \in BOOLEAN
        /\ crashedDuring' \in BOOLEAN
    BY <1>2 DEF Notify, TypeOK
  <2> QED BY <1>2, <2>3, <2>4, <2>5
      DEF Notify, TypeOK, Stacks, MachStates, kernel, files, bounds
<1>3. CASE SwitchMachThread(p)
  <2>1. stack' \in Stacks BY <1>0, <1>3, MoveFrame DEF SwitchMachThread, PCs
  <2>2. hooked' \in SUBSET Hookable /\ mach' \in MachStates
    BY <1>3 DEF SwitchMachThread, TypeOK, MachStates, MachThreads
  <2> QED BY <1>3, <2>1, <2>2
      DEF SwitchMachThread, TypeOK, Stacks, MachStates, flags, kernel, files, bounds
<1> QED BY <1>2, <1>3

\* The report files keep their type whichever writer changes one.
LEMMA FilesType ==
    ASSUME TypeOK, NEW r, NEW e \in Events
    PROVE  /\ [report EXCEPT ![r] = CreatedBy(e)] \in [ReportIDs -> Files]
           /\ [report EXCEPT ![r].events = @ \cup {e}] \in [ReportIDs -> Files]
           /\ [report EXCEPT ![r].events = @ \cup old.events] \in [ReportIDs -> Files]
<1>1. CreatedBy(e) \in Files BY DEF CreatedBy, Files, Events
<1>2. report \in [ReportIDs -> Files] /\ old \in Files BY DEF TypeOK
<1>3. ASSUME NEW more \in SUBSET Events
      PROVE  [report EXCEPT ![r].events = @ \cup more] \in [ReportIDs -> Files]
  BY <1>2 DEF Files
<1>4. old.events \in SUBSET Events /\ {e} \in SUBSET Events BY <1>2 DEF Files
<1>5. [report EXCEPT ![r] = CreatedBy(e)] \in [ReportIDs -> Files] BY <1>1, <1>2
<1> QED BY <1>3, <1>4, <1>5

\* The report writers.
LEMMA TypeWrite ==
    ASSUME TypeOK, NEW p \in Procs,
           Handle(p) \/ NextPath(p) \/ OpenReport(p) \/ WriteReport(p)
             \/ RenameReport(p) \/ RewriteReport(p) \/ CancelledAtFile(p)
    PROVE  TypeOK'
<1>0. stack \in Stacks /\ stack[p] # <<>>
  BY DEF TypeOK, Stacks, Handle, NextPath, OpenReport, WriteReport,
         RenameReport, RewriteReport, CancelledAtFile, AtFile, At
<1>1. Top(p) \in Frames BY <1>0, TopIsFrame
<1>2. \A pc \in PCs : WithTop(stack, p, [Top(p) EXCEPT !.pc = pc]) \in Stacks
  BY <1>0, MoveFrame
<1>3. ASSUME NEW pc \in PCs, NEW q \in Paths
      PROVE  WithTop(stack, p, [Top(p) EXCEPT !.pc = pc, !.path = q]) \in Stacks
  <2>1. [Top(p) EXCEPT !.pc = pc, !.path = q] \in Frames BY <1>1 DEF Frames
  <2> QED BY <1>0, <2>1, StackOps
<1>4. Top(p).event \in Events BY <1>1 DEF Frames
<1>5. Absent \in Files BY DEF Absent, Files
<1>6. ASSUME WriterStep, stack' \in Stacks, report' \in [ReportIDs -> Files], old' \in Files
      PROVE  TypeOK'
  BY <1>6 DEF WriterStep, TypeOK, Stacks, monitors, flags, kernel, files, bounds
<1>7. CASE Handle(p)
  <2>1. [Top(p) EXCEPT !.recrash = IsRecrash,
                       !.pc = IF IsRecrash THEN "rename" ELSE "path"] \in Frames
    BY <1>1 DEF Frames, IsRecrash, TypeOK, PCs
  <2>2. stack' \in Stacks BY <1>0, <1>7, <2>1, StackOps DEF Handle
  <2>3. crashedThisLaunch' \in BOOLEAN BY <1>7 DEF Handle, TypeOK
  <2> QED BY <1>7, <2>2, <2>3
      DEF Handle, TypeOK, Stacks, monitors, flags, kernel, files, bounds
<1>8. CASE NextPath(p)
  <2>1. stack' \in Stacks /\ lastPath' \in Paths
    BY <1>3, <1>8 DEF NextPath, PCs, Paths
  <2>2. nextID' \in Nat \ {0} BY <1>8 DEF NextPath, TypeOK
  <2> QED BY <1>8, <2>1, <2>2
      DEF NextPath, TypeOK, Stacks, monitors, flags, kernel, bounds
<1>9. CASE OpenReport(p)
  <2>1. stack' \in Stacks BY <1>2, <1>9 DEF OpenReport, PCs
  <2>2. \/ report' = [report EXCEPT ![Top(p).path] = CreatedBy(Top(p).event)]
        \/ report' = report
    BY <1>9 DEF OpenReport
  <2>3. [report EXCEPT ![Top(p).path] = CreatedBy(Top(p).event)] \in [ReportIDs -> Files]
    BY <1>4, FilesType, Zenon
  <2>4. report' \in [ReportIDs -> Files] BY <2>2, <2>3 DEF TypeOK
  <2> QED BY <1>6, <1>9, <2>1, <2>4 DEF OpenReport, TypeOK
<1>10. CASE WriteReport(p)
  <2>1. stack' \in Stacks BY <1>2, <1>10 DEF WriteReport, PCs
  <2>2. \/ report' = [report EXCEPT ![Top(p).path].events = @ \cup {Top(p).event}]
        \/ report' = report
    BY <1>10 DEF WriteReport
  <2>3. [report EXCEPT ![Top(p).path].events = @ \cup {Top(p).event}] \in [ReportIDs -> Files]
    BY <1>4, FilesType, Zenon
  <2>4. report' \in [ReportIDs -> Files] BY <2>2, <2>3 DEF TypeOK
  <2> QED BY <1>6, <1>10, <2>1, <2>4 DEF WriteReport, TypeOK
<1>11. CASE RenameReport(p)
  <2>1. stack' \in Stacks BY <1>2, <1>3, <1>11 DEF RenameReport, TypeOK, PCs
  <2>2. [report EXCEPT ![lastPath] = CreatedBy(Top(p).event)] \in [ReportIDs -> Files]
    BY <1>4, FilesType, Zenon
  <2>3. old' \in Files BY <1>11 DEF RenameReport, OldAfterRename, TypeOK, Paths
  <2>4. report' \in [ReportIDs -> Files] BY <1>11, <2>2 DEF RenameReport, TypeOK
  <2> QED BY <1>6, <1>11, <2>1, <2>3, <2>4 DEF RenameReport
<1>12. CASE RewriteReport(p)
  <2>1. stack' \in Stacks BY <1>2, <1>12 DEF RewriteReport, PCs
  <2>2. [report EXCEPT ![Top(p).path].events = @ \cup old.events] \in [ReportIDs -> Files]
    BY <1>4, FilesType, Zenon
  <2>3. old' \in Files BY <1>5, <1>12 DEF RewriteReport
  <2>4. report' \in [ReportIDs -> Files] BY <1>12, <2>2 DEF RewriteReport, TypeOK
  <2> QED BY <1>6, <1>12, <2>1, <2>3, <2>4 DEF RewriteReport
<1>13. CASE CancelledAtFile(p)
  <2>1. stack' \in Stacks /\ mach' \in MachStates
    BY <1>0, <1>13 DEF CancelledAtFile, Stacks, MachStates, TypeOK
  <2> QED BY <1>13, <2>1
      DEF CancelledAtFile, TypeOK, Stacks, MachStates, monitors, flags, kernel, files, bounds
<1> QED BY <1>7, <1>8, <1>9, <1>10, <1>11, <1>12, <1>13

\* What follows onCrash: the end of handling, and resuming the other threads.
LEMMA TypeResume ==
    ASSUME TypeOK, NEW p \in Procs, Post(p) \/ ResumeOne(p) \/ ResumeDone(p)
    PROVE  TypeOK'
<1>0. stack \in Stacks /\ stack[p] # <<>>
  BY DEF TypeOK, Stacks, Post, ResumeOne, ResumeDone, At
<1>1. Top(p) \in Frames BY <1>0, TopIsFrame
<1>2. Others(p) \in SUBSET Threads BY DEF Others
<1>3. CASE Post(p)
  <2> DEFINE next == WithTop(stack, p,
                       IF Top(p).kind \in Suspending \ {"nsexception"}
                       THEN [Top(p) EXCEPT !.pc = "resume", !.todo = Others(p)]
                       ELSE [Top(p) EXCEPT !.pc = "exit"])
  <2>1. next \in Stacks BY <1>0, <1>2, MoveFrame DEF PCs
  <2>2. IF EndsMonitoring(Top(p)) THEN Uninstall(p, next) ELSE KeepMonitors(next)
    BY <1>3 DEF Post
  <2> HIDE DEF next
  <2>3. /\ enabled' \in SUBSET Monitors /\ hooked' \in SUBSET Hookable
        /\ activeMonitors' \in SUBSET Monitors
        /\ mach' \in MachStates /\ machKnown' \in SUBSET MachThreads
        /\ cancelled' \in SUBSET MachThreads /\ stack' \in Stacks
    <3>1. CASE EndsMonitoring(Top(p))
      BY <2>1, <2>2, <3>1, SwitchMonitorsType DEF Uninstall
    <3>2. CASE ~EndsMonitoring(Top(p))
      BY <2>1, <2>2, <3>2 DEF KeepMonitors, TypeOK, MachStates, monitors
    <3> QED BY <3>1, <3>2
  <2>4. handlingFatal' \in BOOLEAN /\ machHandling' \in BOOLEAN
    BY <1>3 DEF Post, HandlingAfter, TypeOK
  <2> QED BY <1>3, <2>3, <2>4
      DEF Post, TypeOK, Stacks, MachStates, kernel, files, bounds
<1>4. CASE ResumeOne(p)
  <2>1. PICK t \in Top(p).todo :
          /\ suspendCount' = [suspendCount EXCEPT ![t] = IF @ > 0 THEN @ - 1 ELSE 0]
          /\ stack' = WithTop(stack, p, [Top(p) EXCEPT !.todo = @ \ {t}])
    BY <1>4 DEF ResumeOne
  <2>2. Top(p).todo \ {t} \in SUBSET Threads /\ t \in Threads BY <1>1 DEF Frames
  <2>3. stack' \in Stacks
    <3>1. [Top(p) EXCEPT !.todo = @ \ {t}] = [Top(p) EXCEPT !.todo = Top(p).todo \ {t}]
      OBVIOUS
    <3> DEFINE rest == Top(p).todo \ {t}
    <3>2. stack' = WithTop(stack, p, [Top(p) EXCEPT !.todo = rest]) BY <2>1, <3>1
    <3>3. rest \in SUBSET Threads BY <2>2
    <3> HIDE DEF rest
    <3> QED BY <1>0, <3>2, <3>3, MoveFrame DEF PCs
  <2>4. suspendCount' \in [Threads -> Nat] BY <2>1, <2>2 DEF TypeOK
  <2> QED BY <1>4, <2>3, <2>4
      DEF ResumeOne, TypeOK, Stacks, monitors, flags, kernel, files, bounds
<1>5. CASE ResumeDone(p)
  <2>1. stack' \in Stacks BY <1>0, <1>5, MoveFrame DEF ResumeDone, PCs
  <2> QED BY <1>5, <2>1
      DEF ResumeDone, TypeOK, Stacks, monitors, flags, kernel, files, bounds
<1> QED BY <1>3, <1>4, <1>5

\* Leaving a handler.
LEMMA TypeLeave ==
    ASSUME TypeOK, NEW p \in Procs,
           Return(p) \/ Abort(p) \/ Reraise(p) \/ CallNSExceptionHandler(p) \/ MachReply(p)
    PROVE  TypeOK'
<1>0. stack \in Stacks /\ stack[p] # <<>>
  BY DEF TypeOK, Stacks, Return, Abort, Reraise, CallNSExceptionHandler, MachReply, Leaving, At
<1>1. /\ Popped(stack, p) \in Stacks
      /\ Top(p).event \in Events /\ Top(p).subject \in Subjects
      /\ Signals \subseteq Subjects /\ p \in Subjects
  BY <1>0, TopIsFrame, MoveFrame DEF Frames, Subjects, PCs
<1>2. ASSUME NEW kinds, Leaving(p, kinds), stack' \in Stacks, dead' \in BOOLEAN,
             mach' \in MachStates, trapped' \in SUBSET Procs
      PROVE  TypeOK'
  BY <1>2 DEF Leaving, TypeOK, Stacks, MachStates, monitors, flags, files, bounds
<1>3. ASSUME NEW q, NEW sig \in Subjects, Deliver(Popped(stack, p), q, Top(p).event, sig)
      PROVE  stack' \in Stacks /\ dead' \in BOOLEAN
  BY <1>1, <1>3, DeliverType
<1>4. CASE Return(p) BY <1>1, <1>2, <1>4 DEF Return, TypeOK, MachStates
<1>5. CASE Abort(p) BY <1>1, <1>2, <1>3, <1>5 DEF Abort, Signals, TypeOK, MachStates
<1>6. CASE Reraise(p) BY <1>1, <1>2, <1>3, <1>6 DEF Reraise, TypeOK, MachStates
<1>7. CASE CallNSExceptionHandler(p)
  <2>1. Frame("nsexception", Top(p).event, p) \in Frames
    BY <1>1, NewFrame DEF Kinds
  <2> DEFINE called == Pushed(Popped(stack, p), p, Frame("nsexception", Top(p).event, p))
  <2>2. called \in Stacks BY <1>1, <2>1, StackOps
  <2>3. \/ stack' = called /\ UNCHANGED dead
        \/ Deliver(Popped(stack, p), p, Top(p).event, "ABRT")
    BY <1>7 DEF CallNSExceptionHandler
  <2>4. stack' \in Stacks /\ dead' \in BOOLEAN
    <3> HIDE DEF called
    <3> QED BY <1>1, <1>3, <2>2, <2>3 DEF Signals, TypeOK
  <2> QED BY <1>2, <1>7, <2>4 DEF CallNSExceptionHandler, TypeOK, MachStates
<1>8. CASE MachReply(p)
  BY <1>1, <1>2, <1>3, <1>8 DEF MachReply, Signals, TypeOK, MachStates
<1> QED BY <1>4, <1>5, <1>6, <1>7, <1>8

LEMMA TypeNext == TypeOK /\ [Next]_vars => TypeOK'
<1> SUFFICES ASSUME TypeOK, [Next]_vars PROVE TypeOK'
  OBVIOUS
<1>1. ASSUME NEW t \in Threads, AppStep(t) PROVE TypeOK'
  BY <1>1, TypeApp
<1>2. ASSUME NEW p \in Procs, HandlerStep(p) PROVE TypeOK'
  BY <1>2, TypeSuspend, TypeNotify, TypeWrite, TypeResume, TypeLeave DEF HandlerStep
<1>3. ASSUME NEW p \in Procs, HandlerFault(p) PROVE TypeOK'
  <2>1. events + 1 \in Events /\ events' \in 0..MaxEvents
    BY <1>3, NextEvent DEF HandlerFault
  <2>2. Fault(p, events + 1) BY <1>3 DEF HandlerFault
  <2>3. /\ stack' \in Stacks /\ dead' \in BOOLEAN
        /\ trapped' \in SUBSET Procs
        /\ port' \in Seq([victim : Procs, event : Events])
    BY <2>1, <2>2, FaultType
  <2> QED BY <1>3, <2>1, <2>3
      DEF HandlerFault, TypeOK, Stacks, monitors, flags, files
<1>4. ASSUME NEW m \in MachThreads, MachReceive(m) PROVE TypeOK'
  <2>1. /\ port \in Seq([victim : Procs, event : Events]) /\ port # <<>>
        /\ stack \in Stacks
    BY <1>4 DEF MachReceive, TypeOK, Stacks
  <2>2. Head(port).victim \in Procs /\ Head(port).event \in Events
    <3> DEFINE Messages == [victim : Procs, event : Events]
    <3>1. Head(port) \in Messages
      <4>1. port \in Seq(Messages) /\ port # <<>> BY <2>1
      <4> HIDE DEF Messages
      <4> QED BY <4>1
    <3> QED BY <3>1
  <2>3. port' \in Seq([victim : Procs, event : Events]) BY <1>4, <2>1 DEF MachReceive
  <2>4. Frame("mach", Head(port).event, Head(port).victim) \in Frames
    BY <2>2, NewFrame DEF Kinds, Subjects
  <2>5. <<Frame("mach", Head(port).event, Head(port).victim)>> \in Seq(Frames) BY <2>4
  <2>6. stack' \in Stacks BY <1>4, <2>1, <2>5 DEF MachReceive, Stacks
  <2>7. mach' \in MachStates BY <1>4 DEF MachReceive, TypeOK, MachStates
  <2> QED BY <1>4, <2>3, <2>6, <2>7
      DEF MachReceive, TypeOK, Stacks, MachStates, monitors, flags, files, bounds
<1>5. CASE UNCHANGED vars
  BY <1>5 DEF TypeOK, vars, monitors, flags, kernel, files, bounds
<1> QED BY <1>1, <1>2, <1>3, <1>4, <1>5 DEF Next

\* Every variable of the crash recorder keeps its type.
THEOREM TypeCorrect == Spec => []TypeOK
<1> QED BY TypeInit, TypeNext, PTL DEF Spec

-----------------------------------------------------------------------------
\* Uninstalling leaves no handler, and no monitor but the Zombie monitor.
LEMMA UninstallLeavesNothing ==
    ASSUME NEW self, NEW stk, Uninstall(self, stk)
    PROVE  hooked' = {} /\ enabled' \subseteq {"zombie"} /\ enabled' \subseteq enabled
BY DEF Uninstall, SwitchMonitors, HookedAfter, EnabledAfter

\* Only these steps write the monitors' flags or the recrash flag.
LEMMA MonitorsFrame ==
    ASSUME [Next]_vars,
           \A p \in Procs : ~Notify(p) /\ ~SwitchMachThread(p) /\ ~Post(p),
           \A t \in Threads : ~Reconfigures(t)
    PROVE  UNCHANGED <<enabled, hooked, crashedDuring>>
<1>1. ASSUME NEW t \in Threads, AppStep(t)
      PROVE  UNCHANGED <<enabled, hooked, crashedDuring>>
  BY <1>1 DEF AppStep, HardwareFault, RaiseSignal, UncaughtNSException,
              UncaughtCPPException, Call, Trigger, monitors, flags
<1>2. ASSUME NEW p \in Procs, HandlerStep(p)
      PROVE  UNCHANGED <<enabled, hooked, crashedDuring>>
  BY <1>2 DEF HandlerStep, Enter, SuspendOne, SuspendDone, Handle, NextPath, OpenReport,
              WriteReport, RenameReport, RewriteReport, CancelledAtFile, WriterStep,
              ResumeOne, ResumeDone, Return, Abort, Reraise, CallNSExceptionHandler,
              MachReply, Leaving, monitors, flags
<1>3. ASSUME NEW p \in Procs, HandlerFault(p)
      PROVE  UNCHANGED <<enabled, hooked, crashedDuring>>
  BY <1>3 DEF HandlerFault, monitors, flags
<1>4. ASSUME NEW m \in MachThreads, MachReceive(m)
      PROVE  UNCHANGED <<enabled, hooked, crashedDuring>>
  BY <1>4 DEF MachReceive, monitors, flags
<1>5. CASE UNCHANGED vars
  BY <1>5 DEF vars, monitors, flags
<1> QED BY <1>1, <1>2, <1>3, <1>4, <1>5 DEF Next

\* A crash inside the reporter takes every handler of ours out of the way for
\* the rest of the process, as long as nobody calls setMonitoring: whatever the
\* threads, however many crashes, none of our handlers runs anew after it.
THEOREM RecrashUninstallsAlways ==
    ASSUME MaxReconfigs = 0 PROVE Spec => []RecrashUninstalls
<1>1. Init => RecrashUninstalls
  BY DEF Init, RecrashUninstalls
<1>2. TypeOK /\ RecrashUninstalls /\ [Next]_vars => RecrashUninstalls'
  <2> SUFFICES ASSUME TypeOK, RecrashUninstalls, [Next]_vars PROVE RecrashUninstalls'
    OBVIOUS
  <2>1. ASSUME NEW p \in Procs, Notify(p) PROVE RecrashUninstalls'
    <3> DEFINE next == WithTop(stack, p, [Top(p) EXCEPT
                         !.pc = IF Top(p).kind = "mach" THEN "switch" ELSE "handle"])
    <3>1. OnNotify(p, next) BY <2>1 DEF Notify
    <3> HIDE DEF next
    <3> QED BY <3>1, UninstallLeavesNothing DEF OnNotify, RecrashUninstalls
  <2>2. ASSUME NEW p \in Procs, SwitchMachThread(p) PROVE RecrashUninstalls'
    BY <2>2 DEF SwitchMachThread, RecrashUninstalls, flags
  <2>3. ASSUME NEW p \in Procs, Post(p) PROVE RecrashUninstalls'
    <3>1. CASE EndsMonitoring(Top(p))
      BY <2>3, <3>1 DEF Post, EndsMonitoring, RecrashUninstalls
    <3>2. CASE ~EndsMonitoring(Top(p))
      BY <2>3, <3>2 DEF Post, KeepMonitors, RecrashUninstalls, monitors
    <3> QED BY <3>1, <3>2
  <2>4. \A t \in Threads : ~Reconfigures(t)
    BY Reconfigured, TypeNext DEF TypeOK
  <2>5. CASE \A p \in Procs : ~Notify(p) /\ ~SwitchMachThread(p) /\ ~Post(p)
    BY <2>4, <2>5, MonitorsFrame DEF RecrashUninstalls
  <2> QED BY <2>1, <2>2, <2>3, <2>5
<1> QED BY <1>1, <1>2, TypeCorrect, PTL DEF Spec

-----------------------------------------------------------------------------
(* Frames *)

\* The k-th frame of a thread, counted from the outermost one.
Nth(stk, p, k) == stk[p][Len(stk[p]) - k + 1]
Levels(p) == 1..Len(stack[p])
Fr(p, k) == Nth(stack, p, k)

\* A frame between notifyFatalExceptionCaptured and the end of handleException.
Announced(f) == f.kind \in Notifying /\ f.pc \in HandlerPCs \cup {"switch"}

LEMMA WithTopAt ==
    ASSUME NEW stk \in Stacks, NEW p \in Procs, stk[p] # <<>>, NEW f \in Frames
    PROVE  /\ Len(WithTop(stk, p, f)[p]) = Len(stk[p]) /\ Len(stk[p]) \in Nat \ {0}
           /\ Nth(WithTop(stk, p, f), p, Len(stk[p])) = f
           /\ \A k \in 1..(Len(stk[p]) - 1) : Nth(WithTop(stk, p, f), p, k) = Nth(stk, p, k)
           /\ \A q \in Procs \ {p} : WithTop(stk, p, f)[q] = stk[q]
<1>1. stk[p] \in Seq(Frames)
    BY DEF Stacks
<1>2. WithTop(stk, p, f)[p] = <<f>> \o Tail(stk[p])
    BY DEF WithTop, Stacks
<1>3. /\ Tail(stk[p]) \in Seq(Frames) /\ Len(Tail(stk[p])) = Len(stk[p]) - 1
      /\ \A i \in 1..(Len(stk[p]) - 1) : Tail(stk[p])[i] = stk[p][i + 1]
    BY <1>1
<1>4. \A q \in Procs \ {p} : WithTop(stk, p, f)[q] = stk[q]
    BY DEF WithTop, Stacks
<1> DEFINE t == Tail(stk[p])
           s == stk[p]
           w == WithTop(stk, p, f)[p]
<1>5. Len(w) = Len(s) /\ Len(s) \in Nat \ {0} /\ w[1] = f /\ \A i \in 2..Len(s) : w[i] = s[i]
  <2>1. t \in Seq(Frames) /\ Len(t) = Len(s) - 1 /\ \A i \in 1..(Len(s) - 1) : t[i] = s[i + 1]
      BY <1>3
  <2>2. w = <<f>> \o t /\ s \in Seq(Frames) /\ s # <<>>
      BY <1>1, <1>2
  <2> HIDE DEF t, s, w
  <2>3. Len(s) \in Nat \ {0} /\ Len(<<f>>) = 1 /\ <<f>> \in Seq(Frames)
      BY <2>2
  <2>4. Len(w) = Len(s) /\ w[1] = f
      BY <2>1, <2>2, <2>3
  <2>5. ASSUME NEW i \in 2..Len(s) PROVE w[i] = s[i]
    <3>1. w[i] = t[i - 1]
        BY <2>1, <2>2, <2>3
    <3>2. i - 1 \in 1..(Len(s) - 1)
        BY <2>3
    <3> QED BY <2>1, <2>3, <3>1, <3>2
  <2> QED BY <2>3, <2>4, <2>5
<1>6. w[Len(w) - Len(s) + 1] = f /\ \A k \in 1..(Len(s) - 1) : w[Len(w) - k + 1] = s[Len(s) - k + 1]
  <2> HIDE DEF t, s, w
  <2>1. Len(w) - Len(s) + 1 = 1
      BY <1>5
  <2>2. ASSUME NEW k \in 1..(Len(s) - 1) PROVE w[Len(w) - k + 1] = s[Len(s) - k + 1]
    <3>1. Len(s) - k + 1 \in 2..Len(s) /\ Len(w) - k + 1 = Len(s) - k + 1
        BY <1>5
    <3> QED BY <1>5, <3>1
  <2> QED BY <1>5, <2>1, <2>2
<1>7. Nth(WithTop(stk, p, f), p, Len(s)) = f /\ \A k \in 1..(Len(s) - 1) : Nth(WithTop(stk, p, f), p, k) = Nth(stk, p, k)
    BY <1>6, Zenon DEF Nth
<1> QED BY <1>4, <1>5, <1>7

LEMMA PushedAt ==
    ASSUME NEW stk \in Stacks, NEW p \in Procs, NEW f \in Frames
    PROVE  /\ Len(Pushed(stk, p, f)[p]) = Len(stk[p]) + 1 /\ Len(stk[p]) \in Nat
           /\ Nth(Pushed(stk, p, f), p, Len(stk[p]) + 1) = f
           /\ \A k \in 1..Len(stk[p]) : Nth(Pushed(stk, p, f), p, k) = Nth(stk, p, k)
           /\ \A q \in Procs \ {p} : Pushed(stk, p, f)[q] = stk[q]
<1>1. stk[p] \in Seq(Frames)
    BY DEF Stacks
<1>2. Pushed(stk, p, f)[p] = <<f>> \o stk[p]
    BY DEF Pushed, Stacks
<1>3. \A q \in Procs \ {p} : Pushed(stk, p, f)[q] = stk[q]
    BY DEF Pushed, Stacks
<1> DEFINE s == stk[p]
           w == Pushed(stk, p, f)[p]
<1>4. Len(w) = Len(s) + 1 /\ Len(s) \in Nat /\ w[1] = f /\ \A i \in 1..Len(s) : w[i + 1] = s[i]
  <2>1. w = <<f>> \o s /\ s \in Seq(Frames)
      BY <1>1, <1>2
  <2> HIDE DEF s, w
  <2> QED BY <2>1
<1>5. w[Len(s) + 1 - (Len(s) + 1) + 1] = f
    BY <1>4
<1>6. \A k \in 1..Len(s) : w[Len(s) + 1 - k + 1] = s[Len(s) - k + 1]
  <2> SUFFICES ASSUME NEW k \in 1..Len(s) PROVE w[Len(s) + 1 - k + 1] = s[Len(s) - k + 1]
      OBVIOUS
  <2>1. Len(s) - k + 1 \in 1..Len(s) /\ Len(s) + 1 - k + 1 = (Len(s) - k + 1) + 1
      BY <1>4
  <2> QED BY <1>4, <2>1
<1> QED BY <1>3, <1>4, <1>5, <1>6 DEF Nth

LEMMA PoppedAt ==
    ASSUME NEW stk \in Stacks, NEW p \in Procs, stk[p] # <<>>
    PROVE  /\ Len(Popped(stk, p)[p]) = Len(stk[p]) - 1 /\ Len(stk[p]) \in Nat \ {0}
           /\ \A k \in 1..(Len(stk[p]) - 1) : Nth(Popped(stk, p), p, k) = Nth(stk, p, k)
           /\ \A q \in Procs \ {p} : Popped(stk, p)[q] = stk[q]
           /\ Popped(stk, p) \in Stacks
<1>1. stk[p] \in Seq(Frames)
    BY DEF Stacks
<1>2. Popped(stk, p)[p] = Tail(stk[p])
    BY DEF Popped, Stacks
<1>3. \A q \in Procs \ {p} : Popped(stk, p)[q] = stk[q]
    BY DEF Popped, Stacks
<1>4. /\ Len(stk[p]) \in Nat \ {0}
      /\ Tail(stk[p]) \in Seq(Frames) /\ Len(Tail(stk[p])) = Len(stk[p]) - 1
      /\ \A i \in 1..(Len(stk[p]) - 1) : Tail(stk[p])[i] = stk[p][i + 1]
    BY <1>1
<1>5. Popped(stk, p) \in Stacks
    BY <1>4 DEF Popped, Stacks
<1>6. \A k \in 1..(Len(stk[p]) - 1) : Nth(Popped(stk, p), p, k) = Nth(stk, p, k)
  <2> SUFFICES ASSUME NEW k \in 1..(Len(stk[p]) - 1)
               PROVE  Tail(stk[p])[Len(stk[p]) - 1 - k + 1] = stk[p][Len(stk[p]) - k + 1]
      BY <1>2, <1>4 DEF Nth
  <2>1. Len(stk[p]) - 1 - k + 1 \in 1..(Len(stk[p]) - 1)
      BY <1>4
  <2>2. Len(stk[p]) - 1 - k + 1 + 1 = Len(stk[p]) - k + 1
      BY <1>4
  <2> QED BY <1>4, <2>1, <2>2
<1> QED BY <1>2, <1>3, <1>4, <1>5, <1>6

\* The innermost frame is the one at the last level.
LEMMA TopAt ==
    ASSUME NEW p \in Procs, stack \in Stacks, stack[p] # <<>>
    PROVE  /\ Len(stack[p]) \in Levels(p) /\ Len(stack[p]) \in Nat \ {0}
           /\ Top(p) = Fr(p, Len(stack[p])) /\ Top(p) \in Frames
<1>1. stack[p] \in Seq(Frames) /\ Len(stack[p]) \in Nat \ {0} /\ Head(stack[p]) = stack[p][1]
    BY DEF Stacks
<1> QED BY <1>1, TopIsFrame DEF Levels, Fr, Nth, Top
LEMMA FrameType ==
    ASSUME stack \in Stacks, NEW p \in Procs, NEW k \in Levels(p)
    PROVE  Fr(p, k) \in Frames /\ Len(stack[p]) \in Nat /\ k \in Nat
<1>1. stack[p] \in Seq(Frames)
    BY DEF Stacks
<1>2. Len(stack[p]) \in Nat /\ Len(stack[p]) - k + 1 \in 1..Len(stack[p])
    BY <1>1 DEF Levels
<1> QED BY <1>1, <1>2 DEF Fr, Nth, Levels

-----------------------------------------------------------------------------
(* What a step does to the stacks, frame by frame *)

\* The innermost frame of p becomes g; other exception threads may be terminated.
Terminated(q) == q \in MachThreads /\ mach'[q] = "gone" /\ stack'[q] = <<>>
Moves(p, g) ==
    /\ Len(stack'[p]) = Len(stack[p])
    /\ Nth(stack', p, Len(stack[p])) = g
    /\ \A k \in 1..(Len(stack[p]) - 1) : Nth(stack', p, k) = Fr(p, k)
    /\ \A q \in Procs \ {p} : stack'[q] = stack[q] \/ Terminated(q)

\* A frame keeps what it is about; where it goes from each point of the handlers.
SameCrash(f, g) == g.kind = f.kind /\ g.event = f.event /\ g.subject = f.subject
FromEnter(f, g, p) ==
    f.pc = "enter" /\ \/ g.pc = "suspend" /\ g.todo = Others(p) /\ f.kind \in Suspending
                      \/ g.pc = "notify" /\ f.kind \in Notifying \ Suspending
                      \/ g.pc = "handle" /\ f.kind \notin Notifying \cup Suspending
                      \/ g.pc = "exit" /\ f.kind \notin UserKinds
FromSuspend(f, g, p) ==
    f.pc = "suspend" /\ \/ g.pc = "suspend" /\ \E t \in f.todo : g.todo = f.todo \ {t}
                        \/ f.todo = {} /\ g.pc = "resume" /\ g.todo = Others(p) /\ f.kind = "nsthrow"
                        \/ f.todo = {} /\ g.pc = "notify" /\ f.kind \in Notifying
                        \/ f.todo = {} /\ g.pc = "handle" /\ f.kind \notin Notifying \cup {"nsthrow"}
Writes(a, b) ==
    \/ a = "handle" /\ b \in {"rename", "path"}
    \/ a = "path" /\ b = "open"
    \/ a = "open" /\ b \in {"write", "post"}
    \/ a = "write" /\ b = "post"
    \/ a = "rename" /\ b \in {"post", "rewrite"}
    \/ a = "rewrite" /\ b = "write"
FromPost(f, g, p) ==
    f.pc = "post" /\ \/ g.pc = "resume" /\ g.todo = Others(p) /\ f.kind \in Suspending
                     \/ g.pc = "exit" /\ f.kind \notin Suspending \ {"nsexception"}

MovesWithin(p, g) == g \in Frames /\ SameCrash(Top(p), g) /\ Moves(p, g)

LEMMA WithTopMoves ==
    ASSUME TypeOK, NEW p \in Procs, stack[p] # <<>>, NEW g \in Frames,
           stack' = WithTop(stack, p, g)
    PROVE  Moves(p, g)
<1>1. stack \in Stacks
    BY DEF TypeOK, Stacks
<1> QED BY <1>1, WithTopAt DEF Moves, Fr

\* An uninstalling step, too, moves the caller's frame.
LEMMA UninstallMoves ==
    ASSUME TypeOK, NEW p \in Procs, stack[p] # <<>>, NEW g \in Frames,
           Uninstall(p, WithTop(stack, p, g))
    PROVE  Moves(p, g)
<1> DEFINE next == WithTop(stack, p, g)
           killed == IF Uninstalls({}) /\ machHandling THEN Forgotten(p) ELSE {}
<1>1. stack \in Stacks
    BY DEF TypeOK, Stacks
<1>2. ~Installs
    BY DEF Installs, Uninstall, SwitchMonitors, HookedAfter
<1>3. /\ mach' = [m \in MachThreads |-> IF m \in killed THEN "gone" ELSE mach[m]]
      /\ stack' = [q \in Procs |-> IF q \in killed THEN <<>> ELSE next[q]]
    BY <1>2 DEF Uninstall, SwitchMonitors
<1>4. killed \subseteq MachThreads \ {p}
    BY DEF Forgotten, TypeOK
<1>5. next[p] = stack'[p] /\ \A q \in Procs \ {p} : stack'[q] = next[q] \/ Terminated(q)
  <2> HIDE DEF next, killed
  <2> QED BY <1>3, <1>4 DEF Terminated
<1>6. /\ Len(next[p]) = Len(stack[p]) /\ Nth(next, p, Len(stack[p])) = g
      /\ \A k \in 1..(Len(stack[p]) - 1) : Nth(next, p, k) = Fr(p, k)
      /\ \A q \in Procs \ {p} : next[q] = stack[q]
    BY <1>1, WithTopAt DEF Fr
<1>7. \A k : Nth(stack', p, k) = Nth(next, p, k)
  <2> HIDE DEF next
  <2> QED BY <1>5 DEF Nth
<1> HIDE DEF next
<1> QED BY <1>5, <1>6, <1>7 DEF Moves, Terminated

LEMMA MayUninstallMoves ==
    ASSUME TypeOK, NEW p \in Procs, stack[p] # <<>>, NEW g \in Frames, NEW b,
           IF b THEN Uninstall(p, WithTop(stack, p, g)) ELSE KeepMonitors(WithTop(stack, p, g))
    PROVE  Moves(p, g)
BY UninstallMoves, WithTopMoves DEF KeepMonitors

LEMMA EnterMoves ==
    ASSUME TypeOK, NEW p \in Procs, Enter(p)
    PROVE  \/ \E g : MovesWithin(p, g) /\ FromEnter(Top(p), g, p)
           \/ Top(p).pc = "enter" /\ stack' = Popped(stack, p)
<1>0. stack \in Stacks /\ stack[p] # <<>> /\ Top(p).pc = "enter"
    BY DEF TypeOK, Stacks, Enter, At
<1>1. Top(p) \in Frames
    BY <1>0, TopIsFrame
<1>2. Others(p) \in SUBSET Threads
    BY DEF Others
<1> DEFINE f == Top(p)
           a == [f EXCEPT !.pc = "suspend", !.todo = Others(p)]
           b == [f EXCEPT !.pc = IF f.kind \in Notifying THEN "notify" ELSE "handle"]
           c == [f EXCEPT !.pc = "exit"]
<1>3. a \in Frames /\ b \in Frames /\ c \in Frames
    BY <1>1, <1>2 DEF Frames, PCs
<1>4. SameCrash(f, a) /\ SameCrash(f, b) /\ SameCrash(f, c) /\ a.pc = "suspend" /\ a.todo = Others(p)
      /\ (b.pc = IF f.kind \in Notifying THEN "notify" ELSE "handle") /\ c.pc = "exit"
    BY <1>1 DEF SameCrash, Frames
<1>5. f.kind \notin Suspending => AfterSuspend(f, p) = b
    BY DEF AfterSuspend, Suspending, Kinds, UserKinds
<1>6. \/ stack' = WithTop(stack, p, a) /\ f.kind \in Suspending
      \/ stack' = WithTop(stack, p, b) /\ f.kind \notin Suspending
      \/ stack' = Popped(stack, p)
      \/ stack' = WithTop(stack, p, c) /\ f.kind \notin UserKinds
  <2> DEFINE on == MonitorOf(f.kind) \in enabled \/ f.kind \in {"cpp", "nsthrow", "deadlock"}
  <2>1. stack' = IF on /\ f.kind \in Suspending THEN WithTop(stack, p, a)
                 ELSE IF on THEN WithTop(stack, p, AfterSuspend(f, p))
                 ELSE IF f.kind \in UserKinds THEN Popped(stack, p) ELSE WithTop(stack, p, c)
      BY DEF Enter
  <2> HIDE DEF on, a, b, c
  <2> QED BY <2>1, <1>5
<1> HIDE DEF a, b, c
<1> QED BY <1>0, <1>3, <1>4, <1>6, WithTopMoves DEF MovesWithin, FromEnter

LEMMA SuspendMoves ==
    ASSUME TypeOK, NEW p \in Procs
    PROVE  /\ SuspendOne(p) => \E t \in Top(p).todo : \E g :
                 /\ MovesWithin(p, g) /\ Top(p).pc = "suspend" /\ g.pc = "suspend"
                 /\ g.todo = Top(p).todo \ {t} /\ t \in Threads
                 /\ suspendCount' = [suspendCount EXCEPT ![t] = @ + 1]
           /\ SuspendDone(p) => \E g : /\ MovesWithin(p, g) /\ g.pc # "suspend"
                                       /\ FromSuspend(Top(p), g, p)
           /\ ResumeOne(p) => \E t \in Top(p).todo : \E g :
                 /\ MovesWithin(p, g) /\ Top(p).pc = "resume" /\ g.pc = "resume"
                 /\ g.todo = Top(p).todo \ {t} /\ t \in Threads
                 /\ suspendCount' = [suspendCount EXCEPT ![t] = IF @ > 0 THEN @ - 1 ELSE 0]
           /\ ResumeDone(p) => \E g : MovesWithin(p, g) /\ Top(p).pc = "resume" /\ Top(p).todo = {} /\ g.pc = "exit"
<1> SUFFICES ASSUME SuspendOne(p) \/ SuspendDone(p) \/ ResumeOne(p) \/ ResumeDone(p)
             PROVE  /\ SuspendOne(p) => \E t \in Top(p).todo : \E g :
                          /\ MovesWithin(p, g) /\ Top(p).pc = "suspend" /\ g.pc = "suspend"
                          /\ g.todo = Top(p).todo \ {t} /\ t \in Threads
                          /\ suspendCount' = [suspendCount EXCEPT ![t] = @ + 1]
                    /\ SuspendDone(p) => \E g : /\ MovesWithin(p, g) /\ g.pc # "suspend"
                                                /\ FromSuspend(Top(p), g, p)
                    /\ ResumeOne(p) => \E t \in Top(p).todo : \E g :
                          /\ MovesWithin(p, g) /\ Top(p).pc = "resume" /\ g.pc = "resume"
                          /\ g.todo = Top(p).todo \ {t} /\ t \in Threads
                          /\ suspendCount' = [suspendCount EXCEPT ![t] = IF @ > 0 THEN @ - 1 ELSE 0]
                    /\ ResumeDone(p) => \E g : MovesWithin(p, g) /\ Top(p).pc = "resume" /\ Top(p).todo = {} /\ g.pc = "exit"
    OBVIOUS
<1>0. stack \in Stacks /\ stack[p] # <<>>
    BY DEF TypeOK, Stacks, SuspendOne, SuspendDone, ResumeOne, ResumeDone, At
<1>1. Top(p) \in Frames
    BY <1>0, TopIsFrame
<1>2. Others(p) \in SUBSET Threads
    BY DEF Others
<1>3. ASSUME NEW t \in Top(p).todo, stack' = WithTop(stack, p, [Top(p) EXCEPT !.todo = @ \ {t}])
      PROVE  \E g : /\ MovesWithin(p, g) /\ g.pc = Top(p).pc /\ g.todo = Top(p).todo \ {t}
                   /\ t \in Threads
  <2> DEFINE g == [Top(p) EXCEPT !.todo = @ \ {t}]
  <2>1. g \in Frames /\ SameCrash(Top(p), g) /\ g.pc = Top(p).pc /\ g.todo = Top(p).todo \ {t}
    <3> DEFINE f == Top(p)
               rest == f.todo \ {t}
    <3>1. g = [f EXCEPT !.todo = rest]
        OBVIOUS
    <3>2. rest \in SUBSET Threads /\ f \in Frames
        BY <1>1 DEF Frames
    <3> HIDE DEF f, rest
    <3>3. [f EXCEPT !.todo = rest] \in Frames /\ SameCrash(f, [f EXCEPT !.todo = rest])
          /\ [f EXCEPT !.todo = rest].pc = f.pc /\ [f EXCEPT !.todo = rest].todo = rest
        BY <3>2 DEF Frames, SameCrash
    <3> QED BY <3>1, <3>3 DEF f, rest
  <2>2. t \in Threads
      BY <1>1 DEF Frames
  <2>3. stack' = WithTop(stack, p, g)
      BY <1>3
  <2> HIDE DEF g
  <2> QED BY <1>0, <2>1, <2>2, <2>3, WithTopMoves DEF MovesWithin
<1>4. CASE SuspendOne(p)
  <2>1. PICK t \in Top(p).todo :
           /\ suspendCount' = [suspendCount EXCEPT ![t] = @ + 1]
           /\ stack' = WithTop(stack, p, [Top(p) EXCEPT !.todo = @ \ {t}])
      BY <1>4 DEF SuspendOne
  <2>2. Top(p).pc = "suspend" /\ ~SuspendDone(p) /\ ~ResumeOne(p) /\ ~ResumeDone(p)
      BY <1>4, <2>1 DEF SuspendOne, SuspendDone, ResumeOne, ResumeDone, At
  <2>3. PICK g : /\ MovesWithin(p, g) /\ g.pc = Top(p).pc /\ g.todo = Top(p).todo \ {t}
                 /\ t \in Threads
      BY <1>3, <2>1
  <2> QED BY <2>1, <2>2, <2>3
<1>5. CASE ResumeOne(p)
  <2>1. PICK t \in Top(p).todo :
           /\ suspendCount' = [suspendCount EXCEPT ![t] = IF @ > 0 THEN @ - 1 ELSE 0]
           /\ stack' = WithTop(stack, p, [Top(p) EXCEPT !.todo = @ \ {t}])
      BY <1>5 DEF ResumeOne
  <2>2. Top(p).pc = "resume" /\ ~SuspendDone(p) /\ ~SuspendOne(p) /\ ~ResumeDone(p)
      BY <1>5, <2>1 DEF SuspendOne, SuspendDone, ResumeOne, ResumeDone, At
  <2>3. PICK g : /\ MovesWithin(p, g) /\ g.pc = Top(p).pc /\ g.todo = Top(p).todo \ {t}
                 /\ t \in Threads
      BY <1>3, <2>1
  <2> QED BY <2>1, <2>2, <2>3
<1>6. CASE SuspendDone(p)
  <2>1. /\ Top(p).pc = "suspend" /\ Top(p).todo = {} /\ ~SuspendOne(p) /\ ~ResumeOne(p) /\ ~ResumeDone(p)
        /\ stack' = WithTop(stack, p, AfterSuspend(Top(p), p))
      BY <1>6 DEF SuspendOne, SuspendDone, ResumeOne, ResumeDone, At
  <2> DEFINE f == Top(p)
             g == AfterSuspend(f, p)
  <2>2. g \in Frames /\ SameCrash(f, g) /\ g.pc # "suspend"
        /\ (\/ g.pc = "resume" /\ g.todo = Others(p) /\ f.kind = "nsthrow"
            \/ g.pc = "notify" /\ f.kind \in Notifying
            \/ g.pc = "handle" /\ f.kind \notin Notifying \cup {"nsthrow"})
    <3>1. CASE f.kind = "nsthrow"
      <4>1. g = [f EXCEPT !.pc = "resume", !.todo = Others(p)]
          BY <3>1 DEF AfterSuspend
      <4> QED BY <1>1, <1>2, <3>1, <4>1 DEF Frames, PCs, SameCrash
    <3>2. CASE f.kind # "nsthrow"
      <4>1. g = [f EXCEPT !.pc = IF f.kind \in Notifying THEN "notify" ELSE "handle"]
          BY <3>2 DEF AfterSuspend
      <4> QED BY <1>1, <3>2, <4>1 DEF Frames, PCs, SameCrash
    <3> QED BY <3>1, <3>2
  <2> HIDE DEF g
  <2> QED BY <1>0, <2>1, <2>2, WithTopMoves DEF MovesWithin, FromSuspend, g
<1>7. CASE ResumeDone(p)
  <2>1. /\ Top(p).pc = "resume" /\ Top(p).todo = {} /\ ~SuspendOne(p) /\ ~ResumeOne(p) /\ ~SuspendDone(p)
        /\ stack' = WithTop(stack, p, [Top(p) EXCEPT !.pc = "exit"])
      BY <1>7 DEF SuspendOne, SuspendDone, ResumeOne, ResumeDone, At
  <2>2. [Top(p) EXCEPT !.pc = "exit"] \in Frames /\ SameCrash(Top(p), [Top(p) EXCEPT !.pc = "exit"])
        /\ [Top(p) EXCEPT !.pc = "exit"].pc = "exit"
      BY <1>1 DEF Frames, PCs, SameCrash
  <2> QED BY <1>0, <2>1, <2>2, WithTopMoves DEF MovesWithin
<1> QED BY <1>4, <1>5, <1>6, <1>7

LEMMA NotifyMoves ==
    ASSUME TypeOK, NEW p \in Procs
    PROVE  /\ Notify(p) => \E g : /\ MovesWithin(p, g) /\ Top(p).pc = "notify"
                                  /\ g.pc = IF Top(p).kind = "mach" THEN "switch" ELSE "handle"
           /\ SwitchMachThread(p) => \E g : MovesWithin(p, g) /\ Top(p).pc = "switch" /\ g.pc = "handle"
<1> SUFFICES ASSUME Notify(p) \/ SwitchMachThread(p)
             PROVE  \E g : /\ MovesWithin(p, g)
                          /\ \/ Notify(p) /\ Top(p).pc = "notify"
                                /\ g.pc = IF Top(p).kind = "mach" THEN "switch" ELSE "handle"
                             \/ SwitchMachThread(p) /\ Top(p).pc = "switch" /\ g.pc = "handle"
    BY DEF Notify, SwitchMachThread, At
<1>0. stack \in Stacks /\ stack[p] # <<>>
    BY DEF TypeOK, Stacks, Notify, SwitchMachThread, At
<1>1. Top(p) \in Frames
    BY <1>0, TopIsFrame
<1>2. ASSUME NEW pc \in PCs
      PROVE  /\ [Top(p) EXCEPT !.pc = pc] \in Frames /\ SameCrash(Top(p), [Top(p) EXCEPT !.pc = pc])
             /\ [Top(p) EXCEPT !.pc = pc].pc = pc
    BY <1>1 DEF Frames, SameCrash
<1>3. CASE Notify(p)
  <2> DEFINE pc == IF Top(p).kind = "mach" THEN "switch" ELSE "handle"
             g == [Top(p) EXCEPT !.pc = pc]
  <2>1. pc \in PCs /\ Top(p).pc = "notify"
      BY <1>3 DEF PCs, Notify, At
  <2>2. IF crashedDuring' THEN Uninstall(p, WithTop(stack, p, g)) ELSE KeepMonitors(WithTop(stack, p, g))
      BY <1>3 DEF Notify, OnNotify
  <2>3. g \in Frames /\ SameCrash(Top(p), g) /\ g.pc = pc
    <3> HIDE DEF pc
    <3> QED BY <1>2, <2>1
  <2> HIDE DEF g
  <2>4. Moves(p, g)
      BY <1>0, <2>2, <2>3, MayUninstallMoves
  <2> QED BY <1>3, <2>1, <2>3, <2>4 DEF MovesWithin
<1>4. CASE SwitchMachThread(p)
  <2> DEFINE g == [Top(p) EXCEPT !.pc = "handle"]
  <2>1. g \in Frames /\ SameCrash(Top(p), g) /\ g.pc = "handle"
      BY <1>2 DEF PCs
  <2>2. stack' = WithTop(stack, p, g) /\ Top(p).pc = "switch"
      BY <1>4 DEF SwitchMachThread, At
  <2> HIDE DEF g
  <2> QED BY <1>0, <1>4, <2>1, <2>2, WithTopMoves DEF MovesWithin
<1> QED BY <1>3, <1>4

\* The handler code of onCrash stays inside it, up to its end.
Records(p) == \/ Handle(p) \/ NextPath(p) \/ OpenReport(p) \/ WriteReport(p)
              \/ RenameReport(p) \/ RewriteReport(p)
LEMMA RecordMoves ==
    ASSUME TypeOK, NEW p \in Procs, Records(p)
    PROVE  \E g : MovesWithin(p, g) /\ Writes(Top(p).pc, g.pc)
<1>0. stack \in Stacks /\ stack[p] # <<>>
    BY DEF TypeOK, Stacks, Records, Handle, NextPath, OpenReport, WriteReport, RenameReport,
           RewriteReport, At
<1>1. Top(p) \in Frames
    BY <1>0, TopIsFrame
<1>2. ASSUME NEW pc \in PCs, stack' = WithTop(stack, p, [Top(p) EXCEPT !.pc = pc]),
             Writes(Top(p).pc, pc)
      PROVE  \E g : MovesWithin(p, g) /\ Writes(Top(p).pc, g.pc)
  <2> DEFINE g == [Top(p) EXCEPT !.pc = pc]
  <2>1. g \in Frames /\ SameCrash(Top(p), g) /\ g.pc = pc
      BY <1>1 DEF Frames, SameCrash
  <2>2. Writes(Top(p).pc, g.pc) /\ stack' = WithTop(stack, p, g)
      BY <1>2, <2>1
  <2> HIDE DEF g
  <2> QED BY <1>0, <2>1, <2>2, WithTopMoves DEF MovesWithin
<1>3. ASSUME NEW pc \in PCs, NEW q \in Paths,
             stack' = WithTop(stack, p, [Top(p) EXCEPT !.pc = pc, !.path = q]),
             Writes(Top(p).pc, pc)
      PROVE  \E g : MovesWithin(p, g) /\ Writes(Top(p).pc, g.pc)
  <2> DEFINE g == [Top(p) EXCEPT !.pc = pc, !.path = q]
  <2>1. g \in Frames /\ SameCrash(Top(p), g) /\ g.pc = pc
      BY <1>1 DEF Frames, SameCrash
  <2>2. Writes(Top(p).pc, g.pc) /\ stack' = WithTop(stack, p, g)
      BY <1>3, <2>1
  <2> HIDE DEF g
  <2> QED BY <1>0, <2>1, <2>2, WithTopMoves DEF MovesWithin
<1>5. CASE Handle(p)
  <2> DEFINE pc == IF IsRecrash THEN "rename" ELSE "path"
             g == [Top(p) EXCEPT !.recrash = IsRecrash, !.pc = pc]
  <2>1. Top(p).pc = "handle" /\ stack' = WithTop(stack, p, g) /\ pc \in PCs
        /\ pc \in {"rename", "path"}
      BY <1>5 DEF Handle, At, PCs
  <2>2. g \in Frames /\ SameCrash(Top(p), g) /\ g.pc = pc
    <3>1. IsRecrash \in BOOLEAN
        BY DEF IsRecrash, TypeOK
    <3> HIDE DEF pc
    <3> QED BY <1>1, <2>1, <3>1 DEF Frames, SameCrash
  <2>3. Writes(Top(p).pc, g.pc)
      BY <2>1, <2>2 DEF Writes
  <2> HIDE DEF g
  <2> QED BY <1>0, <2>1, <2>2, <2>3, WithTopMoves DEF MovesWithin
<1>6. CASE NextPath(p)
  <2>1. Top(p).pc = "path" /\ nextID \in Paths
        /\ stack' = WithTop(stack, p, [Top(p) EXCEPT !.pc = "open", !.path = nextID])
      BY <1>6 DEF NextPath, At, Paths
  <2>2. "open" \in PCs /\ Writes(Top(p).pc, "open")
      BY <2>1 DEF PCs, Writes
  <2> QED BY <1>3, <2>1, <2>2, Zenon
<1>7. CASE OpenReport(p)
  <2> DEFINE pc == IF report[Top(p).path] = Absent THEN "write" ELSE "post"
  <2>1. Top(p).pc = "open" /\ stack' = WithTop(stack, p, [Top(p) EXCEPT !.pc = pc])
        /\ pc \in {"write", "post"}
      BY <1>7 DEF OpenReport, At
  <2> HIDE DEF pc
  <2>2. pc \in PCs
      BY <2>1 DEF PCs
  <2> QED BY <1>2, <2>1, <2>2 DEF Writes
<1>8. CASE WriteReport(p)
  <2>1. Top(p).pc = "write" /\ stack' = WithTop(stack, p, [Top(p) EXCEPT !.pc = "post"])
      BY <1>8 DEF WriteReport, At
  <2> QED BY <1>2, <2>1 DEF PCs, Writes
<1>9. CASE RenameReport(p)
  <2>1. Top(p).pc = "rename" /\ lastPath \in Paths
        /\ \/ stack' = WithTop(stack, p, [Top(p) EXCEPT !.pc = "post"])
           \/ stack' = WithTop(stack, p, [Top(p) EXCEPT !.pc = "rewrite", !.path = lastPath])
      BY <1>9 DEF RenameReport, At, TypeOK
  <2>2. /\ "post" \in PCs /\ Writes(Top(p).pc, "post")
        /\ "rewrite" \in PCs /\ Writes(Top(p).pc, "rewrite")
      BY <2>1 DEF PCs, Writes
  <2>3. CASE stack' = WithTop(stack, p, [Top(p) EXCEPT !.pc = "post"])
      BY <1>2, <2>2, <2>3, Zenon
  <2>4. CASE stack' = WithTop(stack, p, [Top(p) EXCEPT !.pc = "rewrite", !.path = lastPath])
      BY <1>3, <2>1, <2>2, <2>4, Zenon
  <2> QED BY <2>1, <2>3, <2>4
<1>10. CASE RewriteReport(p)
  <2>1. Top(p).pc = "rewrite" /\ stack' = WithTop(stack, p, [Top(p) EXCEPT !.pc = "write"])
      BY <1>10 DEF RewriteReport, At
  <2> QED BY <1>2, <2>1 DEF PCs, Writes
<1> QED BY <1>5, <1>6, <1>7, <1>8, <1>9, <1>10 DEF Records

LEMMA PostMoves ==
    ASSUME TypeOK, NEW p \in Procs, Post(p)
    PROVE  \E g : MovesWithin(p, g) /\ FromPost(Top(p), g, p)
<1>0. stack \in Stacks /\ stack[p] # <<>> /\ Top(p).pc = "post"
    BY DEF TypeOK, Stacks, Post, At
<1>1. Top(p) \in Frames
    BY <1>0, TopIsFrame
<1> DEFINE f == Top(p)
           a == [f EXCEPT !.pc = "resume", !.todo = Others(p)]
           b == [f EXCEPT !.pc = "exit"]
           g == IF f.kind \in Suspending \ {"nsexception"} THEN a ELSE b
<1>2. /\ a \in Frames /\ b \in Frames /\ SameCrash(f, a) /\ SameCrash(f, b)
      /\ a.pc = "resume" /\ a.todo = Others(p) /\ b.pc = "exit"
    BY <1>1 DEF Frames, PCs, Others, SameCrash
<1>3. IF EndsMonitoring(f) THEN Uninstall(p, WithTop(stack, p, g)) ELSE KeepMonitors(WithTop(stack, p, g))
    BY DEF Post
<1> HIDE DEF a, b
<1>4. g \in Frames /\ SameCrash(f, g) /\ FromPost(f, g, p)
    BY <1>0, <1>2 DEF FromPost
<1> HIDE DEF g
<1> QED BY <1>0, <1>3, <1>4, MayUninstallMoves DEF MovesWithin

-----------------------------------------------------------------------------
(* Frames that come and go *)

PushesAt(p, f) ==
    /\ Len(stack'[p]) = Len(stack[p]) + 1
    /\ Nth(stack', p, Len(stack[p]) + 1) = f
    /\ \A k \in 1..Len(stack[p]) : Nth(stack', p, k) = Fr(p, k)
PopsAt(p) ==
    /\ Len(stack'[p]) = Len(stack[p]) - 1
    /\ \A k \in 1..(Len(stack[p]) - 1) : Nth(stack', p, k) = Fr(p, k)
OthersStay(P) == \A q \in Procs \ P : stack'[q] = stack[q]

LEMMA PopThenPush ==
    ASSUME stack \in Stacks, NEW p \in Procs, stack[p] # <<>>, NEW q \in Procs, NEW f \in Frames,
           stack' = Pushed(Popped(stack, p), q, f)
    PROVE  /\ q = p => Moves(p, f)
           /\ q # p => PopsAt(p) /\ PushesAt(q, f) /\ OthersStay({p, q})
<1> DEFINE mid == Popped(stack, p)
<1>1. /\ Len(mid[p]) = Len(stack[p]) - 1 /\ Len(stack[p]) \in Nat \ {0}
      /\ \A k \in 1..(Len(stack[p]) - 1) : Nth(mid, p, k) = Fr(p, k)
      /\ \A r \in Procs \ {p} : mid[r] = stack[r]
      /\ mid \in Stacks
    BY PoppedAt DEF Fr
<1>2. stack' = Pushed(mid, q, f)
    OBVIOUS
<1> HIDE DEF mid
<1>3. /\ Len(stack'[q]) = Len(mid[q]) + 1 /\ Len(mid[q]) \in Nat
      /\ Nth(stack', q, Len(mid[q]) + 1) = f
      /\ \A k \in 1..Len(mid[q]) : Nth(stack', q, k) = Nth(mid, q, k)
      /\ \A r \in Procs \ {q} : stack'[r] = mid[r]
    BY <1>1, <1>2, PushedAt
<1>4. CASE q = p
    BY <1>1, <1>3, <1>4 DEF Moves
<1>5. CASE q # p
  <2>1. mid[q] = stack[q] /\ stack'[p] = mid[p]
      BY <1>1, <1>3, <1>5
  <2>2. (\A k : Nth(mid, q, k) = Fr(q, k)) /\ (\A k : Nth(stack', p, k) = Nth(mid, p, k))
      BY <2>1 DEF Nth, Fr
  <2> QED BY <1>1, <1>3, <1>5, <2>1, <2>2 DEF PopsAt, PushesAt, OthersStay
<1> QED BY <1>4, <1>5

LEMMA PopOnly ==
    ASSUME stack \in Stacks, NEW p \in Procs, stack[p] # <<>>, stack' = Popped(stack, p)
    PROVE  PopsAt(p) /\ OthersStay({p})
BY PoppedAt DEF PopsAt, OthersStay, Fr

LEMMA PushOnly ==
    ASSUME stack \in Stacks, NEW p \in Procs, NEW f \in Frames, stack' = Pushed(stack, p, f)
    PROVE  PushesAt(p, f) /\ OthersStay({p})
BY PushedAt DEF PushesAt, OthersStay, Fr

\* A signal either pushes the frame of our handler or ends the process.
LEMMA DeliverShape ==
    ASSUME NEW stk, NEW p, NEW e, NEW sig, Deliver(stk, p, e, sig)
    PROVE  \/ stack' = stk /\ dead'
           \/ /\ stack' = Pushed(stk, p, Frame("signal", e, sig)) /\ "signal" \in hooked
              /\ dead' = dead
BY DEF Deliver

\* The frame that a new fault or report starts.
FreshFrame(f, e) == f \in Frames /\ f.pc = "enter" /\ f.event = e /\ f.kind # "mach"
LEMMA NewFrameIsFresh ==
    ASSUME NEW k \in Kinds \ {"mach"}, NEW e \in Events, NEW s \in Subjects
    PROVE  FreshFrame(Frame(k, e, s), e) /\ Frame(k, e, s).kind = k
           /\ Frame(k, e, s).subject = s
<1>1. Frame(k, e, s) \in Frames
    BY NewFrame
<1> QED BY <1>1 DEF Frame, FreshFrame

\* A step of an application thread, or a fault inside a handler.
Starts(p, f) == /\ PushesAt(p, f) /\ OthersStay({p}) /\ FreshFrame(f, events + 1)
                /\ f.kind \in {"signal", "nsexception"} => f.kind \in hooked
LEMMA FaultShape ==
    ASSUME TypeOK, NEW p \in Procs, events < MaxEvents, Fault(p, events + 1)
    PROVE  \/ /\ stack' = stack /\ "mach" \in hooked /\ dead' = dead
              /\ trapped' = trapped \cup {p}
              /\ port' = Append(port, [victim |-> p, event |-> events + 1])
           \/ stack' = stack /\ dead' /\ UNCHANGED <<trapped, port>>
           \/ /\ \E f : Starts(p, f) /\ f.kind = "signal" /\ UNCHANGED <<trapped, port, dead>>
<1>1. events + 1 \in Events /\ stack \in Stacks
    BY NextEvent DEF TypeOK, Stacks
<1>2. CASE "mach" \in hooked
    BY <1>2 DEF Fault
<1>3. CASE "mach" \notin hooked
  <2>1. Deliver(stack, p, events + 1, "SEGV") /\ UNCHANGED <<trapped, port>>
      BY <1>3 DEF Fault
  <2> DEFINE f == Frame("signal", events + 1, "SEGV")
  <2>2. FreshFrame(f, events + 1) /\ f.kind = "signal" /\ f \in Frames
      BY <1>1, NewFrameIsFresh, NewFrame DEF Kinds, Subjects, Signals
  <2>3. \/ stack' = stack /\ dead'
        \/ stack' = Pushed(stack, p, f) /\ "signal" \in hooked /\ dead' = dead
      BY <2>1, DeliverShape
  <2> HIDE DEF f
  <2> QED BY <1>1, <2>1, <2>2, <2>3, PushOnly DEF Starts
<1> QED BY <1>2, <1>3

LEMMA TriggerShape ==
    ASSUME TypeOK, NEW t \in Threads, AppStep(t), ~Reconfigures(t)
    PROVE  /\ Idle(t) /\ events < MaxEvents /\ events' = events + 1
           /\ UNCHANGED <<monitors, flags, machHandling, mach, suspendCount,
                          crashedThisLaunch, files, reconfigs, setting, captured>>
           /\ \/ /\ stack' = stack /\ "mach" \in hooked /\ dead' = dead
                 /\ trapped' = trapped \cup {t}
                 /\ port' = Append(port, [victim |-> t, event |-> events + 1])
              \/ stack' = stack /\ dead' /\ UNCHANGED <<trapped, port>>
              \/ \E f : Starts(t, f) /\ UNCHANGED <<trapped, port, dead>>
<1>0. stack \in Stacks /\ t \in Procs /\ t \in Subjects
    BY DEF TypeOK, Stacks, Procs, Subjects
<1>1. \E k : Trigger(t, k)
    BY DEF AppStep, HardwareFault, RaiseSignal, UncaughtNSException, UncaughtCPPException, Call
<1>2. /\ Idle(t) /\ events < MaxEvents /\ events' = events + 1
      /\ UNCHANGED <<monitors, flags, machHandling, mach, suspendCount,
                     crashedThisLaunch, files, reconfigs, setting, captured>>
    BY <1>1 DEF Trigger
<1>3. events + 1 \in Events
    BY <1>2, NextEvent
<1>4. ASSUME NEW k \in Kinds \ {"mach", "signal"}, Enters(t, k), k = "nsexception" => k \in hooked
      PROVE  \E f : Starts(t, f) /\ UNCHANGED <<trapped, port, dead>>
  <2> DEFINE f == Frame(k, events + 1, t)
  <2>1. FreshFrame(f, events + 1) /\ f.kind = k /\ f \in Frames
      BY <1>0, <1>3, NewFrameIsFresh, NewFrame
  <2>2. stack' = Pushed(stack, t, f) /\ UNCHANGED <<trapped, port, dead>>
      BY <1>4 DEF Enters, kernel
  <2> HIDE DEF f
  <2> QED BY <1>0, <1>4, <2>1, <2>2, PushOnly DEF Starts
<1>5. ASSUME Deliver(stack, t, events + 1, "ABRT"), UNCHANGED <<trapped, port>>
      PROVE  \/ stack' = stack /\ dead' /\ UNCHANGED <<trapped, port>>
             \/ \E f : Starts(t, f) /\ UNCHANGED <<trapped, port, dead>>
  <2> DEFINE f == Frame("signal", events + 1, "ABRT")
  <2>0. "signal" \in Kinds \ {"mach"} /\ "ABRT" \in Subjects
      BY DEF Kinds, Subjects, Signals
  <2>1. FreshFrame(f, events + 1) /\ f.kind = "signal" /\ f \in Frames
      BY <1>3, <2>0, NewFrameIsFresh, NewFrame
  <2>2. \/ stack' = stack /\ dead'
        \/ stack' = Pushed(stack, t, f) /\ "signal" \in hooked /\ dead' = dead
      BY <1>5, DeliverShape
  <2> HIDE DEF f
  <2> QED BY <1>0, <1>5, <2>1, <2>2, PushOnly DEF Starts
<1>6. ASSUME NEW ns, NoTerminateHandler(t, ns)
      PROVE  \/ stack' = stack /\ dead' /\ UNCHANGED <<trapped, port>>
             \/ \E f : Starts(t, f) /\ UNCHANGED <<trapped, port, dead>>
  <2>1. \/ Enters(t, "nsexception") /\ "nsexception" \in hooked
        \/ Deliver(stack, t, events + 1, "ABRT") /\ UNCHANGED <<trapped, port>>
      BY <1>6 DEF NoTerminateHandler
  <2>2. "nsexception" \in Kinds \ {"mach", "signal"}
      BY DEF Kinds
  <2> QED BY <1>4, <1>5, <2>1, <2>2
<1>7. CASE HardwareFault(t)
    BY <1>0, <1>2, <1>7, FaultShape DEF HardwareFault
<1>8. CASE RaiseSignal(t)
    BY <1>2, <1>5, <1>8 DEF RaiseSignal
<1>9. CASE UncaughtNSException(t)
    BY <1>2, <1>4, <1>6, <1>9 DEF UncaughtNSException, Kinds
<1>10. CASE UncaughtCPPException(t)
    BY <1>2, <1>4, <1>6, <1>10 DEF UncaughtCPPException, Kinds
<1>11. CASE \E k \in UserKinds \cup {"snapshot", "deadlock"} : Call(t, k)
    BY <1>2, <1>4, <1>11 DEF Call, Kinds, UserKinds
<1> QED BY <1>7, <1>8, <1>9, <1>10, <1>11 DEF AppStep

\* What a frame that ends leaves behind: nothing, a frame that takes its place
\* for the same event, or a frame of the thread it was about.
Leaves(p) == Return(p) \/ Abort(p) \/ Reraise(p) \/ CallNSExceptionHandler(p) \/ MachReply(p)
Continues(p, g) == /\ FreshFrame(g, Top(p).event) /\ dead' = dead
                   /\ g.kind \in {"signal", "nsexception"} \cap hooked
Ends(p) == PopsAt(p) /\ OthersStay({p})
HandsTo(p, v, g) == PopsAt(p) /\ PushesAt(v, g) /\ OthersStay({p, v})

LEMMA DeliverAfter ==
    ASSUME TypeOK, NEW p \in Procs, stack[p] # <<>>, NEW q \in Procs, NEW sig \in Subjects,
           Deliver(Popped(stack, p), q, Top(p).event, sig)
    PROVE  \/ Ends(p) /\ dead'
           \/ \E g : Continues(p, g) /\ g.kind = "signal" /\ (IF q = p THEN Moves(p, g) /\ OthersStay({p})
                                                            ELSE HandsTo(p, q, g))
<1> DEFINE g == Frame("signal", Top(p).event, sig)
<1>0. stack \in Stacks
    BY DEF TypeOK, Stacks
<1>1. Top(p).event \in Events
    BY <1>0, TopIsFrame DEF Frames
<1>2. "signal" \in Kinds \ {"mach"}
    BY DEF Kinds
<1>3. FreshFrame(g, Top(p).event) /\ g.kind = "signal" /\ g \in Frames
    BY <1>1, <1>2, NewFrameIsFresh, NewFrame
<1>4. \/ stack' = Popped(stack, p) /\ dead'
      \/ stack' = Pushed(Popped(stack, p), q, g) /\ "signal" \in hooked /\ dead' = dead
    BY DeliverShape
<1> HIDE DEF g
<1>5. CASE stack' = Popped(stack, p) /\ dead'
    BY <1>0, <1>5, PopOnly DEF Ends
<1>6. CASE stack' = Pushed(Popped(stack, p), q, g) /\ "signal" \in hooked /\ dead' = dead
  <2>1. Continues(p, g)
      BY <1>3, <1>6 DEF Continues
  <2>2. q # p => HandsTo(p, q, g)
      BY <1>0, <1>3, <1>6, PopThenPush DEF HandsTo
  <2>3. q = p => Moves(p, g) /\ OthersStay({p})
    <3>1. q = p => Moves(p, g)
        BY <1>0, <1>3, <1>6, PopThenPush
    <3>2. q = p => OthersStay({p})
        BY <1>0, <1>6 DEF OthersStay, Pushed, Popped, Stacks
    <3> QED BY <3>1, <3>2
  <2> QED BY <1>3, <2>1, <2>2, <2>3
<1> QED BY <1>4, <1>5, <1>6

LEMMA LeaveShape ==
    ASSUME TypeOK, NEW p \in Procs, Leaves(p)
    PROVE  /\ stack[p] # <<>> /\ Top(p).pc = "exit" /\ Runnable(p)
           /\ UNCHANGED <<monitors, flags, machHandling, suspendCount,
                          crashedThisLaunch, files, bounds, captured, port>>
           /\ \/ ~MachReply(p) /\ UNCHANGED <<mach, trapped>> /\ Top(p).kind # "mach"
              \/ /\ MachReply(p) /\ Top(p).kind = "mach" /\ trapped' = trapped \ {Top(p).subject}
                 /\ mach' = [mach EXCEPT ![p] = "gone"]
           /\ \/ Ends(p) /\ (dead' \/ Return(p) \/ (MachReply(p) /\ Top(p).subject \notin Procs))
              \/ \E g : /\ Continues(p, g) /\ Moves(p, g) /\ OthersStay({p})
                        /\ g.kind = "signal" \/ Top(p).kind = "nsthrow"
                        /\ ~MachReply(p) \/ Top(p).subject = p
              \/ \E g : /\ Continues(p, g) /\ g.kind = "signal" /\ MachReply(p)
                        /\ Top(p).subject \in Procs \ {p} /\ HandsTo(p, Top(p).subject, g)
<1>0. stack \in Stacks /\ stack[p] # <<>> /\ Top(p).pc = "exit" /\ Runnable(p)
    BY DEF TypeOK, Stacks, Leaves, Return, Abort, Reraise, CallNSExceptionHandler, MachReply,
           Leaving, At
<1>1. Top(p).event \in Events /\ Top(p).subject \in Subjects /\ "ABRT" \in Subjects
      /\ "SEGV" \in Subjects /\ p \in Subjects
    BY <1>0, TopIsFrame DEF Frames, Subjects, Signals
<1>2. /\ UNCHANGED <<monitors, flags, machHandling, suspendCount,
                     crashedThisLaunch, files, bounds, captured, port>>
      /\ \/ ~MachReply(p) /\ UNCHANGED <<mach, trapped>> /\ Top(p).kind # "mach"
         \/ /\ MachReply(p) /\ Top(p).kind = "mach" /\ trapped' = trapped \ {Top(p).subject}
            /\ mach' = [mach EXCEPT ![p] = "gone"]
  <2>1. CASE MachReply(p)
      BY <2>1 DEF MachReply, Leaving
  <2>2. CASE ~MachReply(p)
      BY <2>2 DEF Leaves, Return, Abort, Reraise, CallNSExceptionHandler, Leaving, Aborting
  <2> QED BY <2>1, <2>2
<1>3. CASE Return(p)
    BY <1>0, <1>2, <1>3, PopOnly DEF Return, Ends
<1>8. Abort(p) \/ Reraise(p) \/ CallNSExceptionHandler(p) => ~MachReply(p)
    BY DEF Abort, Reraise, CallNSExceptionHandler, MachReply, Leaving, Aborting
<1>9. ASSUME NEW sig \in Subjects, Deliver(Popped(stack, p), p, Top(p).event, sig), ~MachReply(p)
      PROVE  \/ Ends(p) /\ dead'
             \/ \E g : /\ Continues(p, g) /\ Moves(p, g) /\ OthersStay({p}) /\ g.kind = "signal"
    BY <1>0, <1>9, DeliverAfter
<1>4. CASE Abort(p)
    BY <1>0, <1>1, <1>2, <1>4, <1>8, <1>9 DEF Abort
<1>5. CASE Reraise(p)
    BY <1>0, <1>1, <1>2, <1>5, <1>8, <1>9 DEF Reraise
<1>6. CASE CallNSExceptionHandler(p)
  <2>1. CASE "nsexception" \in hooked
    <3> DEFINE g == Frame("nsexception", Top(p).event, p)
    <3>1. "nsexception" \in Kinds \ {"mach"}
        BY DEF Kinds
    <3>2. FreshFrame(g, Top(p).event) /\ g.kind = "nsexception" /\ g \in Frames
        BY <1>1, <3>1, NewFrameIsFresh, NewFrame
    <3>3. stack' = Pushed(Popped(stack, p), p, g) /\ dead' = dead
        BY <1>6, <2>1 DEF CallNSExceptionHandler
    <3> HIDE DEF g
    <3>4. Moves(p, g) /\ OthersStay({p})
      <4>1. Moves(p, g)
          BY <1>0, <3>2, <3>3, PopThenPush
      <4>2. OthersStay({p})
          BY <1>0, <3>3 DEF OthersStay, Pushed, Popped, Stacks
      <4> QED BY <4>1, <4>2
    <3>5. Continues(p, g) /\ ~MachReply(p) /\ Top(p).kind = "nsthrow"
        BY <1>6, <1>8, <2>1, <3>2, <3>3 DEF Continues, CallNSExceptionHandler, Leaving
    <3> QED BY <1>0, <1>2, <3>4, <3>5
  <2>2. CASE "nsexception" \notin hooked
    <3>1. Deliver(Popped(stack, p), p, Top(p).event, "ABRT")
        BY <1>6, <2>2 DEF CallNSExceptionHandler
    <3> QED BY <1>0, <1>1, <1>2, <1>6, <1>8, <1>9, <3>1
  <2> QED BY <2>1, <2>2
<1>7. CASE MachReply(p)
  <2>1. Deliver(Popped(stack, p), Top(p).subject, Top(p).event, "SEGV")
      BY <1>7 DEF MachReply
  <2>2. CASE Top(p).subject \in Procs
      BY <1>0, <1>1, <1>2, <1>7, <2>1, <2>2, DeliverAfter
  <2>3. CASE Top(p).subject \notin Procs
    <3>1. ASSUME NEW mid \in Stacks, NEW q, q \notin Procs, NEW f PROVE Pushed(mid, q, f) = mid
        BY <3>1 DEF Pushed, Stacks
    <3>2. stack' = Popped(stack, p)
        BY <1>0, <2>1, <2>3, <3>1, PoppedAt, DeliverShape
    <3> QED BY <1>0, <1>2, <1>7, <2>3, <3>2, PopOnly DEF Ends
  <2> QED BY <2>2, <2>3
<1> QED BY <1>3, <1>4, <1>5, <1>6, <1>7 DEF Leaves

\* A new event: a thread traps to the exception port, dies, or starts a handler.
NewEvent(p) ==
    /\ Runnable(p) /\ events < MaxEvents /\ events' = events + 1
    /\ \/ stack[p] = <<>> /\ p \in Threads
       \/ stack[p] # <<>> /\ Top(p).pc \in HandlerPCs
    /\ UNCHANGED <<monitors, flags, machHandling, mach, suspendCount,
                   crashedThisLaunch, files, reconfigs, setting, captured>>
    /\ \/ /\ stack' = stack /\ "mach" \in hooked /\ dead' = dead
          /\ trapped' = trapped \cup {p}
          /\ port' = Append(port, [victim |-> p, event |-> events + 1])
       \/ stack' = stack /\ dead' /\ UNCHANGED <<trapped, port>>
       \/ \E f : /\ Starts(p, f) /\ UNCHANGED <<trapped, port, dead>>
                 /\ stack[p] # <<>> => f.kind = "signal"

LEMMA NewEventShape ==
    ASSUME TypeOK
    PROVE  /\ \A t \in Threads : AppStep(t) /\ ~Reconfigures(t) => t \in Procs /\ NewEvent(t)
           /\ \A p \in Procs : HandlerFault(p) => NewEvent(p)
<1>1. ASSUME NEW t \in Threads, AppStep(t), ~Reconfigures(t) PROVE t \in Procs /\ NewEvent(t)
  <2>1. t \in Procs
      BY DEF Procs
  <2>2. /\ Idle(t) /\ events < MaxEvents /\ events' = events + 1
        /\ UNCHANGED <<monitors, flags, machHandling, mach, suspendCount,
                       crashedThisLaunch, files, reconfigs, setting, captured>>
      BY <1>1, TriggerShape
  <2>3. \/ /\ stack' = stack /\ "mach" \in hooked /\ dead' = dead
           /\ trapped' = trapped \cup {t}
           /\ port' = Append(port, [victim |-> t, event |-> events + 1])
        \/ stack' = stack /\ dead' /\ UNCHANGED <<trapped, port>>
        \/ \E f : Starts(t, f) /\ UNCHANGED <<trapped, port, dead>>
      BY <1>1, TriggerShape
  <2> QED BY <2>1, <2>2, <2>3 DEF NewEvent, Idle, Free
<1>2. ASSUME NEW p \in Procs, HandlerFault(p) PROVE NewEvent(p)
  <2>1. /\ events < MaxEvents /\ events' = events + 1 /\ Fault(p, events + 1)
        /\ stack[p] # <<>> /\ Top(p).pc \in HandlerPCs /\ Runnable(p)
        /\ UNCHANGED <<monitors, flags, machHandling, mach, suspendCount,
                       crashedThisLaunch, files, reconfigs, setting, captured>>
      BY <1>2 DEF HandlerFault, At
  <2> QED BY <2>1, FaultShape DEF NewEvent
<1> QED BY <1>1, <1>2

\* setMonitoring leaves the frames alone, except those of the threads it ends.
StacksStay == \A q \in Procs : stack'[q] = stack[q] \/ Terminated(q)
LEMMA ReconfigurationStays ==
    ASSUME TypeOK, NEW t \in Threads, Reconfigures(t)
    PROVE  StacksStay
<1>1. CASE UNCHANGED <<enabled, hooked, machKnown, cancelled, mach, stack>>
    BY <1>1 DEF StacksStay
<1>2. ASSUME NEW on \in SUBSET Monitors, NEW failing, SwitchMonitors(on, t, failing, stack)
      PROVE  StacksStay
  <2> DEFINE killed == IF Uninstalls(on) /\ machHandling THEN Forgotten(t) ELSE {}
  <2>2. /\ mach' = IF Installs THEN InstalledThreads
                    ELSE [m \in MachThreads |-> IF m \in killed THEN "gone" ELSE mach[m]]
        /\ stack' = [p \in Procs |-> IF p \in killed THEN <<>> ELSE stack[p]]
        /\ hooked' = HookedAfter(on, failing)
      BY <1>2 DEF SwitchMonitors
  <2>3. killed \subseteq MachThreads
      BY DEF Forgotten, TypeOK
  <2>4. Installs => killed = {}
      BY <2>2 DEF Installs, HookedAfter, Uninstalls
  <2> HIDE DEF killed
  <2> QED BY <2>2, <2>3, <2>4 DEF StacksStay, Terminated
<1> QED BY <1>1, <1>2, Reconfigured

-----------------------------------------------------------------------------
(* Where the frames of the next state come from *)

LEMMA AfterStay ==
    ASSUME StacksStay, NEW q \in Procs, NEW k \in 1..Len(stack'[q])
    PROVE  k \in Levels(q) /\ Nth(stack', q, k) = Fr(q, k) /\ stack'[q] = stack[q]
<1>1. ~Terminated(q)
    BY DEF Terminated
<1> QED BY <1>1 DEF StacksStay, Levels, Nth, Fr

LEMMA AfterMove ==
    ASSUME stack \in Stacks, NEW p \in Procs, stack[p] # <<>>, NEW g, Moves(p, g),
           NEW q \in Procs, NEW k \in 1..Len(stack'[q])
    PROVE  /\ k \in Levels(q)
           /\ \/ q = p /\ k = Len(stack[p]) /\ Nth(stack', q, k) = g
              \/ (q # p \/ k # Len(stack[p])) /\ Nth(stack', q, k) = Fr(q, k)
<1>1. CASE q = p
  <2>1. Len(stack[p]) \in Nat
      BY DEF Stacks
  <2> QED BY <1>1, <2>1 DEF Moves, Levels
<1>2. CASE q # p
  <2>1. ~Terminated(q)
      BY DEF Terminated
  <2>2. stack'[q] = stack[q]
      BY <1>2, <2>1 DEF Moves
  <2> QED BY <1>2, <2>2 DEF Nth, Fr, Levels
<1> QED BY <1>1, <1>2

LEMMA AfterPush ==
    ASSUME stack \in Stacks, NEW p \in Procs, NEW f, PushesAt(p, f), OthersStay({p}),
           NEW q \in Procs, NEW k \in 1..Len(stack'[q])
    PROVE  \/ q = p /\ k = Len(stack[p]) + 1 /\ Nth(stack', q, k) = f
           \/ k \in Levels(q) /\ Nth(stack', q, k) = Fr(q, k)
<1>1. CASE q = p
  <2>1. Len(stack[p]) \in Nat
      BY DEF Stacks
  <2> QED BY <1>1, <2>1 DEF PushesAt, Levels
<1>2. CASE q # p
  <2>2. stack'[q] = stack[q]
      BY <1>2 DEF OthersStay
  <2> QED BY <2>2 DEF Nth, Fr, Levels
<1> QED BY <1>1, <1>2

LEMMA AfterEnd ==
    ASSUME stack \in Stacks, NEW p \in Procs, stack[p] # <<>>, Ends(p),
           NEW q \in Procs, NEW k \in 1..Len(stack'[q])
    PROVE  k \in Levels(q) /\ Nth(stack', q, k) = Fr(q, k) /\ (q # p \/ k # Len(stack[p]))
<1>1. CASE q = p
  <2>1. Len(stack[p]) \in Nat
      BY DEF Stacks
  <2> QED BY <1>1, <2>1 DEF Ends, PopsAt, Levels
<1>2. CASE q # p
  <2>2. stack'[q] = stack[q]
      BY <1>2 DEF Ends, OthersStay
  <2> QED BY <1>2, <2>2 DEF Nth, Fr, Levels
<1> QED BY <1>1, <1>2

LEMMA AfterHand ==
    ASSUME stack \in Stacks, NEW p \in Procs, stack[p] # <<>>, NEW v \in Procs \ {p}, NEW g,
           HandsTo(p, v, g), NEW q \in Procs, NEW k \in 1..Len(stack'[q])
    PROVE  \/ q = v /\ k = Len(stack[v]) + 1 /\ Nth(stack', q, k) = g
           \/ k \in Levels(q) /\ Nth(stack', q, k) = Fr(q, k) /\ (q # p \/ k # Len(stack[p]))
<1>0. Len(stack[p]) \in Nat /\ Len(stack[v]) \in Nat
    BY DEF Stacks
<1>1. CASE q = p
    BY <1>0, <1>1 DEF HandsTo, PopsAt, Levels
<1>2. CASE q = v
    BY <1>0, <1>2 DEF HandsTo, PushesAt, Levels
<1>3. CASE q # p /\ q # v
  <2>2. stack'[q] = stack[q]
      BY <1>3 DEF HandsTo, OthersStay
  <2> QED BY <1>3, <2>2 DEF Nth, Fr, Levels
<1> QED BY <1>1, <1>2, <1>3

-----------------------------------------------------------------------------
(* No death loop *)

\* Whoever has announced a crash and not finished with it is on record in a flag,
AnnouncedOnRecord ==
    \A p \in Procs : \A k \in Levels(p) : Announced(Fr(p, k)) => handlingFatal \/ crashedDuring
\* and two of them at once were noticed as a crash inside the reporter,
TwoAreRecrash ==
    \A p, q \in Procs : \A k \in Levels(p), j \in Levels(q) :
        Announced(Fr(p, k)) /\ Announced(Fr(q, j)) => crashedDuring \/ (p = q /\ k = j)
\* which takes our handlers away until the program asks for them again.
RecrashUnhooks == reconfigs = 0 /\ crashedDuring => hooked = {}

\* Every frame and every waiting message is about an event of its own.
EventsApart ==
    /\ \A p \in Procs : \A k \in Levels(p) : Fr(p, k).event <= events
    /\ \A p, q \in Procs : \A k \in Levels(p), j \in Levels(q) :
          Fr(p, k).event = Fr(q, j).event => p = q /\ k = j
    /\ \A i \in 1..Len(port) :
          /\ port[i].event <= events /\ port[i].event \notin captured
          /\ \A p \in Procs : \A k \in Levels(p) : Fr(p, k).event # port[i].event
          /\ \A j \in 1..Len(port) : port[i].event = port[j].event => i = j
    /\ \A e \in captured : e <= events

\* A captured event is still being handled, or our handlers are gone.
CapturedIsLast ==
    reconfigs = 0 => \A p \in Procs : \A k \in Levels(p) :
        Fr(p, k).event \in captured =>
            hooked = {} \/ (Announced(Fr(p, k)) /\ Fr(p, k).kind \in FatalKinds)


\* The frames of the next state, in terms of the stacks only.
Fr1(p, k) == Nth(stack', p, k)
LEMMA LoopPrime ==
    ASSUME \A p \in Procs : \A k \in 1..Len(stack'[p]) :
               Announced(Fr1(p, k)) => handlingFatal' \/ crashedDuring',
           \A p, q \in Procs : \A k \in 1..Len(stack'[p]), j \in 1..Len(stack'[q]) :
               Announced(Fr1(p, k)) /\ Announced(Fr1(q, j)) => crashedDuring' \/ (p = q /\ k = j),
           reconfigs' = 0 /\ crashedDuring' => hooked' = {},
           reconfigs' = 0 => \A p \in Procs : \A k \in 1..Len(stack'[p]) :
               Fr1(p, k).event \in captured' =>
                   hooked' = {} \/ (Announced(Fr1(p, k)) /\ Fr1(p, k).kind \in FatalKinds)
    PROVE  AnnouncedOnRecord' /\ TwoAreRecrash' /\ RecrashUnhooks' /\ CapturedIsLast'
<1>1. AnnouncedOnRecord'
    BY DEF AnnouncedOnRecord, Fr1, Fr, Nth, Levels, Announced
<1>2. TwoAreRecrash'
    BY DEF TwoAreRecrash, Fr1, Fr, Nth, Levels, Announced
<1>3. RecrashUnhooks'
    BY DEF RecrashUnhooks
<1>4. CapturedIsLast'
    BY DEF CapturedIsLast, Fr1, Fr, Nth, Levels, Announced
<1> QED BY <1>1, <1>2, <1>3, <1>4
LEMMA EventsPrime ==
    ASSUME \A p \in Procs : \A k \in 1..Len(stack'[p]) : Fr1(p, k).event <= events',
           \A p, q \in Procs : \A k \in 1..Len(stack'[p]), j \in 1..Len(stack'[q]) :
               Fr1(p, k).event = Fr1(q, j).event => p = q /\ k = j,
           \A i \in 1..Len(port') :
               /\ port'[i].event <= events' /\ port'[i].event \notin captured'
               /\ \A p \in Procs : \A k \in 1..Len(stack'[p]) : Fr1(p, k).event # port'[i].event
               /\ \A j \in 1..Len(port') : port'[i].event = port'[j].event => i = j,
           \A e \in captured' : e <= events'
    PROVE  EventsApart'
BY DEF EventsApart, Fr1, Fr, Nth, Levels

\* Frames keep their events, or go; what is captured is a frame's event.
LEMMA EventsKept ==
    ASSUME TypeOK, EventsApart, UNCHANGED <<events, port>>,
           \A p \in Procs : \A k \in 1..Len(stack'[p]) : k \in Levels(p) /\ Fr1(p, k).event = Fr(p, k).event,
           \A e \in captured' \ captured : \E p \in Procs : \E k \in Levels(p) : Fr(p, k).event = e
    PROVE  EventsApart'
<1>1. \A p \in Procs : \A k \in 1..Len(stack'[p]) : Fr1(p, k).event <= events'
    BY DEF EventsApart
<1>2. \A p, q \in Procs : \A k \in 1..Len(stack'[p]), j \in 1..Len(stack'[q]) :
         Fr1(p, k).event = Fr1(q, j).event => p = q /\ k = j
    BY DEF EventsApart
<1>3. \A i \in 1..Len(port') :
         /\ port'[i].event <= events' /\ port'[i].event \notin captured'
         /\ \A p \in Procs : \A k \in 1..Len(stack'[p]) : Fr1(p, k).event # port'[i].event
         /\ \A j \in 1..Len(port') : port'[i].event = port'[j].event => i = j
    BY DEF EventsApart
<1>4. \A e \in captured' : e <= events'
    BY DEF EventsApart
<1> QED BY <1>1, <1>2, <1>3, <1>4, EventsPrime

LEMMA EventsNew ==
    ASSUME TypeOK, EventsApart, NEW p \in Procs, NewEvent(p)
    PROVE  EventsApart'
<1>0. /\ stack \in Stacks /\ events \in Nat /\ events' = events + 1 /\ captured' = captured
      /\ Len(port) \in Nat /\ port \in Seq([victim : Procs, event : Events])
    BY ConstantsAssumption DEF TypeOK, Stacks, NewEvent
<1>1. \A q \in Procs : \A k \in Levels(q) : Fr(q, k).event \in Nat /\ Fr(q, k).event # events + 1
  <2> SUFFICES ASSUME NEW q \in Procs, NEW k \in Levels(q)
               PROVE  Fr(q, k).event \in Nat /\ Fr(q, k).event # events + 1
      OBVIOUS
  <2>1. Fr(q, k).event \in Nat
      BY <1>0, FrameType DEF Frames, Events
  <2> QED BY <1>0, <2>1 DEF EventsApart
<1>2. \A i \in 1..Len(port) : port[i].event \in Nat /\ port[i].event # events + 1
  <2> SUFFICES ASSUME NEW i \in 1..Len(port) PROVE port[i].event \in Nat /\ port[i].event # events + 1
      OBVIOUS
  <2> DEFINE M == [victim : Procs, event : Events]
  <2>1. port[i] \in M
    <3>1. port \in Seq(M)
        BY <1>0
    <3> HIDE DEF M
    <3> QED BY <3>1
  <2>2. port[i].event \in Nat /\ port[i].event <= events
      BY <2>1 DEF Events, EventsApart
  <2> QED BY <1>0, <2>2
<1>3. \A e \in captured : e \in Nat /\ e # events + 1
  <2>1. captured \subseteq Nat
      BY DEF TypeOK, Events
  <2> QED BY <1>0, <2>1 DEF EventsApart
<1>4. CASE stack' = stack /\ port' = Append(port, [victim |-> p, event |-> events + 1])
  <2>1. /\ Len(port') = Len(port) + 1 /\ \A i \in 1..Len(port) : port'[i] = port[i]
        /\ port'[Len(port) + 1].event = events + 1
      BY <1>0, <1>4
  <2>2. \A i \in 1..Len(port') : i \in 1..Len(port) \/ i = Len(port) + 1
      BY <1>0, <2>1
  <2>3. \A q \in Procs : \A k \in 1..Len(stack'[q]) : k \in Levels(q) /\ Fr1(q, k) = Fr(q, k)
      BY <1>4 DEF Fr1, Fr, Levels
  <2>4. \A i \in 1..Len(port') :
         /\ port'[i].event <= events' /\ port'[i].event \notin captured'
         /\ \A q \in Procs : \A k \in 1..Len(stack'[q]) : Fr1(q, k).event # port'[i].event
         /\ \A j \in 1..Len(port') : port'[i].event = port'[j].event => i = j
    <3> SUFFICES ASSUME NEW i \in 1..Len(port')
                 PROVE  /\ port'[i].event <= events' /\ port'[i].event \notin captured'
                        /\ \A q \in Procs : \A k \in 1..Len(stack'[q]) : Fr1(q, k).event # port'[i].event
                        /\ \A j \in 1..Len(port') : port'[i].event = port'[j].event => i = j
        OBVIOUS
    <3>1. CASE i \in 1..Len(port)
      <4>1. port'[i].event = port[i].event /\ port[i].event \in Nat /\ port[i].event <= events
          BY <1>2, <2>1, <3>1 DEF EventsApart
      <4>2. port'[i].event <= events' /\ port'[i].event \notin captured'
          BY <1>0, <3>1, <4>1 DEF EventsApart
      <4>3. \A q \in Procs : \A k \in 1..Len(stack'[q]) : Fr1(q, k).event # port'[i].event
          BY <2>3, <3>1, <4>1 DEF EventsApart
      <4>4. \A j \in 1..Len(port') : port'[i].event = port'[j].event => i = j
          BY <1>2, <2>1, <2>2, <3>1, <4>1 DEF EventsApart
      <4> QED BY <4>2, <4>3, <4>4
    <3>2. CASE i = Len(port) + 1
      <4>1. port'[i].event = events + 1
          BY <2>1, <3>2
      <4> QED BY <1>0, <1>1, <1>2, <1>3, <2>1, <2>2, <2>3, <3>2, <4>1
    <3> QED BY <2>2, <3>1, <3>2
  <2>5. \A q \in Procs : \A k \in 1..Len(stack'[q]) : Fr1(q, k).event <= events'
      BY <1>0, <1>1, <2>3 DEF EventsApart
  <2>6. \A q, r \in Procs : \A k \in 1..Len(stack'[q]), j \in 1..Len(stack'[r]) :
         Fr1(q, k).event = Fr1(r, j).event => q = r /\ k = j
      BY <2>3 DEF EventsApart
  <2>7. \A e \in captured' : e <= events'
      BY <1>0, <1>3 DEF EventsApart
  <2> QED BY <2>4, <2>5, <2>6, <2>7, EventsPrime
<1>5. ASSUME port' = port,
             \A q \in Procs : \A k \in 1..Len(stack'[q]) :
                \/ k \in Levels(q) /\ Fr1(q, k) = Fr(q, k)
                \/ q = p /\ k = Len(stack[p]) + 1 /\ Fr1(q, k).event = events + 1
      PROVE  EventsApart'
  <2>1. \A q \in Procs : \A k \in 1..Len(stack'[q]) : Fr1(q, k).event <= events'
      BY <1>0, <1>1, <1>5 DEF EventsApart
  <2>2. \A q, r \in Procs : \A k \in 1..Len(stack'[q]), j \in 1..Len(stack'[r]) :
         Fr1(q, k).event = Fr1(r, j).event => q = r /\ k = j
      BY <1>1, <1>5 DEF EventsApart
  <2>3. \A i \in 1..Len(port') :
         /\ port'[i].event <= events' /\ port'[i].event \notin captured'
         /\ \A q \in Procs : \A k \in 1..Len(stack'[q]) : Fr1(q, k).event # port'[i].event
         /\ \A j \in 1..Len(port') : port'[i].event = port'[j].event => i = j
      BY <1>0, <1>2, <1>5 DEF EventsApart
  <2>4. \A e \in captured' : e <= events'
      BY <1>0, <1>3 DEF EventsApart
  <2> QED BY <2>1, <2>2, <2>3, <2>4, EventsPrime
<1>6. CASE stack' = stack /\ UNCHANGED <<trapped, port>>
  <2>1. \A q \in Procs : \A k \in 1..Len(stack'[q]) : k \in Levels(q) /\ Fr1(q, k) = Fr(q, k)
      BY <1>6 DEF Fr1, Fr, Levels
  <2> QED BY <1>5, <1>6, <2>1
<1>7. ASSUME NEW h, Starts(p, h) /\ UNCHANGED <<trapped, port, dead>> PROVE EventsApart'
  <2>1. PICK f : Starts(p, f) /\ UNCHANGED <<trapped, port, dead>>
      BY <1>7
  <2>2. \A q \in Procs : \A k \in 1..Len(stack'[q]) :
            \/ k \in Levels(q) /\ Fr1(q, k) = Fr(q, k)
            \/ q = p /\ k = Len(stack[p]) + 1 /\ Fr1(q, k).event = events + 1
      BY <1>0, <2>1, AfterPush DEF Fr1, Starts, FreshFrame
  <2> QED BY <1>5, <2>1, <2>2
<1> QED BY <1>4, <1>6, <1>7 DEF NewEvent

LEMMA EventsHanded ==
    ASSUME TypeOK, EventsApart, NEW p \in Procs, stack[p] # <<>>, NEW v \in Procs \ {p}, NEW g,
           HandsTo(p, v, g), g.event = Top(p).event, UNCHANGED <<events, port, captured>>
    PROVE  EventsApart'
<1>0. stack \in Stacks
    BY DEF TypeOK, Stacks
<1>1. Len(stack[p]) \in Levels(p) /\ Top(p) = Fr(p, Len(stack[p]))
    BY <1>0, TopAt
<1>2. \A q \in Procs : \A k \in 1..Len(stack'[q]) :
         \/ q = v /\ k = Len(stack[v]) + 1 /\ Fr1(q, k).event = Fr(p, Len(stack[p])).event
         \/ k \in Levels(q) /\ Fr1(q, k) = Fr(q, k) /\ (q # p \/ k # Len(stack[p]))
    BY <1>0, <1>1, AfterHand DEF Fr1
<1>3. \A q \in Procs : \A k \in 1..Len(stack'[q]) : Fr1(q, k).event <= events'
    BY <1>1, <1>2 DEF EventsApart
<1>4. \A q, r \in Procs : \A k \in 1..Len(stack'[q]), j \in 1..Len(stack'[r]) :
         Fr1(q, k).event = Fr1(r, j).event => q = r /\ k = j
    BY <1>1, <1>2 DEF EventsApart
<1>5. \A i \in 1..Len(port') :
         /\ port'[i].event <= events' /\ port'[i].event \notin captured'
         /\ \A q \in Procs : \A k \in 1..Len(stack'[q]) : Fr1(q, k).event # port'[i].event
         /\ \A j \in 1..Len(port') : port'[i].event = port'[j].event => i = j
    BY <1>1, <1>2 DEF EventsApart
<1>6. \A e \in captured' : e <= events'
    BY DEF EventsApart
<1> QED BY <1>3, <1>4, <1>5, <1>6, EventsPrime

\* What an exception thread takes from the port.
LEMMA ReceiveShape ==
    ASSUME TypeOK, NEW m \in MachThreads, MachReceive(m)
    PROVE  /\ m \in Procs /\ Len(port) \in Nat \ {0} /\ 1 \in 1..Len(port)
           /\ Len(port') = Len(port) - 1
           /\ \A i \in 1..(Len(port) - 1) : port'[i] = port[i + 1]
           /\ port[1] \in [victim : Procs, event : Events]
           /\ Len(stack'[m]) = 1 /\ OthersStay({m})
           /\ Nth(stack', m, 1) = Frame("mach", port[1].event, port[1].victim)
           /\ Nth(stack', m, 1) \in Frames
<1> DEFINE M == [victim : Procs, event : Events]
<1>1. port \in Seq(M) /\ port # <<>> /\ m \in Procs /\ stack \in Stacks
    BY DEF MachReceive, TypeOK, Procs, Stacks
<1>2. /\ Len(port) \in Nat \ {0} /\ 1 \in 1..Len(port) /\ port[1] \in M
      /\ Head(port) = port[1] /\ Len(Tail(port)) = Len(port) - 1
      /\ \A i \in 1..(Len(port) - 1) : Tail(port)[i] = port[i + 1]
  <2> HIDE DEF M
  <2> QED BY <1>1
<1> DEFINE f == Frame("mach", port[1].event, port[1].victim)
<1>3. stack' = [stack EXCEPT ![m] = <<f>>] /\ port' = Tail(port)
    BY <1>2 DEF MachReceive
<1>4. f \in Frames
    BY <1>2, NewFrame DEF Kinds, Subjects
<1> HIDE DEF f
<1>5. stack'[m] = <<f>> /\ OthersStay({m})
    BY <1>1, <1>3 DEF Stacks, OthersStay
<1>6. Len(<<f>>) = 1 /\ <<f>>[1 - 1 + 1] = f
    OBVIOUS
<1> QED BY <1>1, <1>2, <1>3, <1>4, <1>5, <1>6 DEF Nth, f

LEMMA AfterReceive ==
    ASSUME TypeOK, NEW m \in MachThreads, MachReceive(m),
           NEW q \in Procs, NEW k \in 1..Len(stack'[q])
    PROVE  \/ q = m /\ k = 1 /\ Nth(stack', q, k) = Frame("mach", port[1].event, port[1].victim)
           \/ q # m /\ k \in Levels(q) /\ Nth(stack', q, k) = Fr(q, k)
<1>1. CASE q = m
  <2>1. Len(stack'[m]) = 1 /\ Nth(stack', m, 1) = Frame("mach", port[1].event, port[1].victim)
      BY ReceiveShape
  <2>2. k = 1
      BY <1>1, <2>1
  <2> QED BY <1>1, <2>1, <2>2
<1>2. CASE q # m
  <2>1. stack'[q] = stack[q]
      BY <1>2, ReceiveShape DEF OthersStay
  <2> QED BY <1>2, <2>1 DEF Nth, Fr, Levels
<1> QED BY <1>1, <1>2

LEMMA EventsReceived ==
    ASSUME TypeOK, EventsApart, NEW m \in MachThreads, MachReceive(m)
    PROVE  EventsApart'
<1>0. UNCHANGED <<events, captured>>
    BY DEF MachReceive, bounds
<1> DEFINE n == Len(port)
<1>1. /\ n \in Nat \ {0} /\ 1 \in 1..n /\ Len(port') = n - 1
      /\ \A i \in 1..(n - 1) : port'[i] = port[i + 1] /\ i + 1 \in 1..n /\ i + 1 # 1
  <2>1. /\ n \in Nat \ {0} /\ Len(port') = n - 1
        /\ \A i \in 1..(n - 1) : port'[i] = port[i + 1]
      BY ReceiveShape
  <2> HIDE DEF n
  <2> QED BY <2>1
<1>2. \A q \in Procs : \A k \in 1..Len(stack'[q]) :
         \/ q = m /\ k = 1 /\ Fr1(q, k).event = port[1].event
         \/ q # m /\ k \in Levels(q) /\ Fr1(q, k) = Fr(q, k)
    BY AfterReceive DEF Fr1, Frame
<1>3. \A q \in Procs : \A k \in 1..Len(stack'[q]) : Fr1(q, k).event <= events'
    BY <1>0, <1>1, <1>2 DEF EventsApart
<1>4. \A q, r \in Procs : \A k \in 1..Len(stack'[q]), j \in 1..Len(stack'[r]) :
         Fr1(q, k).event = Fr1(r, j).event => q = r /\ k = j
    BY <1>1, <1>2 DEF EventsApart
<1>5. \A i \in 1..Len(port') :
         /\ port'[i].event <= events' /\ port'[i].event \notin captured'
         /\ \A q \in Procs : \A k \in 1..Len(stack'[q]) : Fr1(q, k).event # port'[i].event
         /\ \A j \in 1..Len(port') : port'[i].event = port'[j].event => i = j
  <2> SUFFICES ASSUME NEW i \in 1..Len(port')
               PROVE  /\ port'[i].event <= events' /\ port'[i].event \notin captured'
                      /\ \A q \in Procs : \A k \in 1..Len(stack'[q]) : Fr1(q, k).event # port'[i].event
                      /\ \A j \in 1..Len(port') : port'[i].event = port'[j].event => i = j
      OBVIOUS
  <2>1. i \in 1..(n - 1) /\ port'[i] = port[i + 1] /\ i + 1 \in 1..n /\ i + 1 # 1
      BY <1>1
  <2>2. port'[i].event <= events' /\ port'[i].event \notin captured'
      BY <1>0, <2>1 DEF EventsApart
  <2>3. \A q \in Procs : \A k \in 1..Len(stack'[q]) : Fr1(q, k).event # port'[i].event
      BY <1>1, <1>2, <2>1 DEF EventsApart
  <2>4. ASSUME NEW j \in 1..Len(port'), port'[i].event = port'[j].event PROVE i = j
    <3>1. j \in 1..(n - 1) /\ port'[j] = port[j + 1] /\ j + 1 \in 1..n
        BY <1>1
    <3>2. i + 1 = j + 1
        BY <2>1, <2>4, <3>1 DEF EventsApart
    <3> QED BY <2>1, <3>1, <3>2
  <2> QED BY <2>2, <2>3, <2>4
<1>6. \A e \in captured' : e <= events'
    BY <1>0 DEF EventsApart
<1> QED BY <1>3, <1>4, <1>5, <1>6, EventsPrime

\* The steps of a handler that leave its frame in place.
Moving(p) == \/ Enter(p) \/ SuspendOne(p) \/ SuspendDone(p) \/ Notify(p) \/ SwitchMachThread(p)
             \/ Records(p) \/ Post(p) \/ ResumeOne(p) \/ ResumeDone(p)
LEMMA StepCases ==
    ASSUME TypeOK, [Next]_vars
    PROVE  \/ \E t \in Threads : Reconfigures(t)
           \/ \E p \in Procs : NewEvent(p) \/ Moving(p) \/ Leaves(p) \/ CancelledAtFile(p)
           \/ \E m \in MachThreads : MachReceive(m)
           \/ UNCHANGED vars
BY NewEventShape DEF Next, HandlerStep, Moving, Leaves, Records

LEMMA MovingShape ==
    ASSUME TypeOK, NEW p \in Procs, Moving(p)
    PROVE  /\ stack \in Stacks /\ stack[p] # <<>> /\ Runnable(p) /\ Top(p) \in Frames
           /\ UNCHANGED <<port, trapped, dead, events, reconfigs>>
           /\ ~Notify(p) => UNCHANGED captured
           /\ \/ \E g : MovesWithin(p, g)
              \/ Enter(p) /\ Top(p).pc = "enter" /\ Ends(p)
<1>1. stack \in Stacks /\ stack[p] # <<>> /\ Runnable(p)
    BY DEF TypeOK, Stacks, Moving, Records, Enter, SuspendOne, SuspendDone, Notify, SwitchMachThread,
           Handle, NextPath, OpenReport, WriteReport, RenameReport, RewriteReport, Post,
           ResumeOne, ResumeDone, At
<1>2. UNCHANGED <<port, trapped, dead, events, reconfigs>>
    BY DEF Moving, Records, Enter, SuspendOne, SuspendDone, Notify, SwitchMachThread,
           Handle, NextPath, OpenReport, WriteReport, RenameReport, RewriteReport, Post,
           ResumeOne, ResumeDone, WriterStep, kernel, bounds
<1>3. ~Notify(p) => UNCHANGED captured
    BY DEF Moving, Records, Enter, SuspendOne, SuspendDone, SwitchMachThread,
           Handle, NextPath, OpenReport, WriteReport, RenameReport, RewriteReport, Post,
           ResumeOne, ResumeDone, WriterStep
<1>4. \/ \E g : MovesWithin(p, g)
      \/ Enter(p) /\ Top(p).pc = "enter" /\ Ends(p)
  <2>1. CASE Enter(p)
      BY <1>1, <2>1, EnterMoves, PopOnly DEF Ends
  <2>2. CASE SuspendOne(p) \/ SuspendDone(p) \/ ResumeOne(p) \/ ResumeDone(p)
      BY <2>2, SuspendMoves
  <2>3. CASE Notify(p) \/ SwitchMachThread(p)
      BY <2>3, NotifyMoves
  <2>4. CASE Records(p)
      BY <2>4, RecordMoves
  <2>5. CASE Post(p)
      BY <2>5, PostMoves
  <2> QED BY <2>1, <2>2, <2>3, <2>4, <2>5 DEF Moving
<1> QED BY <1>1, <1>2, <1>3, <1>4, TopIsFrame

LEMMA EventsNext == TypeOK /\ EventsApart /\ [Next]_vars => EventsApart'
<1> SUFFICES ASSUME TypeOK, EventsApart, [Next]_vars PROVE EventsApart'
    OBVIOUS
<1>0. stack \in Stacks
    BY DEF TypeOK, Stacks
<1>1. ASSUME NEW t \in Threads, Reconfigures(t) PROVE EventsApart'
  <2>1. StacksStay /\ UNCHANGED <<port, events, captured>>
      BY <1>1, ReconfigurationStays, Reconfigured DEF kernel
  <2>2. \A p \in Procs : \A k \in 1..Len(stack'[p]) : k \in Levels(p) /\ Fr1(p, k).event = Fr(p, k).event
      BY <2>1, AfterStay DEF Fr1
  <2> QED BY <2>1, <2>2, EventsKept
<1>2. ASSUME NEW p \in Procs, NewEvent(p) PROVE EventsApart'
    BY <1>2, EventsNew
<1>3. ASSUME NEW p \in Procs, Moving(p) PROVE EventsApart'
  <2>0. /\ stack[p] # <<>> /\ UNCHANGED <<port, events>> /\ (~Notify(p) => UNCHANGED captured)
        /\ (\E g : MovesWithin(p, g)) \/ Ends(p)
      BY <1>3, MovingShape
  <2>1. Len(stack[p]) \in Levels(p) /\ Top(p) = Fr(p, Len(stack[p]))
      BY <1>0, <2>0, TopAt
  <2>2. \A e \in captured' \ captured : \E q \in Procs : \E k \in Levels(q) : Fr(q, k).event = e
      BY <2>0, <2>1 DEF Notify
  <2>3. \A q \in Procs : \A k \in 1..Len(stack'[q]) : k \in Levels(q) /\ Fr1(q, k).event = Fr(q, k).event
    <3>1. CASE Ends(p)
        BY <1>0, <2>0, <3>1, AfterEnd DEF Fr1
    <3>2. ASSUME NEW g, MovesWithin(p, g) PROVE
             \A q \in Procs : \A k \in 1..Len(stack'[q]) : k \in Levels(q) /\ Fr1(q, k).event = Fr(q, k).event
        BY <1>0, <2>0, <2>1, <3>2, AfterMove DEF Fr1, MovesWithin, SameCrash
    <3> QED BY <2>0, <3>1, <3>2
  <2> QED BY <2>0, <2>2, <2>3, EventsKept
<1>4. ASSUME NEW p \in Procs, Leaves(p) PROVE EventsApart'
  <2>0. stack[p] # <<>> /\ UNCHANGED <<port, events, captured>>
      BY <1>4, LeaveShape DEF bounds
  <2>1. Len(stack[p]) \in Levels(p) /\ Top(p) = Fr(p, Len(stack[p]))
      BY <1>0, <2>0, TopAt
  <2>2. CASE Ends(p)
    <3>1. \A q \in Procs : \A k \in 1..Len(stack'[q]) : k \in Levels(q) /\ Fr1(q, k).event = Fr(q, k).event
        BY <1>0, <2>0, <2>2, AfterEnd DEF Fr1
    <3> QED BY <2>0, <3>1, EventsKept
  <2>3. ASSUME NEW g, Continues(p, g), Moves(p, g) PROVE EventsApart'
    <3>1. \A q \in Procs : \A k \in 1..Len(stack'[q]) : k \in Levels(q) /\ Fr1(q, k).event = Fr(q, k).event
        BY <1>0, <2>0, <2>1, <2>3, AfterMove DEF Fr1, Continues, FreshFrame
    <3> QED BY <2>0, <3>1, EventsKept
  <2>4. ASSUME NEW g, Continues(p, g), Top(p).subject \in Procs \ {p}, HandsTo(p, Top(p).subject, g)
        PROVE  EventsApart'
      BY <2>0, <2>4, EventsHanded DEF Continues, FreshFrame
  <2> QED BY <1>4, <2>2, <2>3, <2>4, LeaveShape
<1>5. ASSUME NEW p \in Procs, CancelledAtFile(p) PROVE EventsApart'
  <2>1. /\ UNCHANGED <<port, events, captured>> /\ stack'[p] = <<>>
        /\ \A q \in Procs \ {p} : stack'[q] = stack[q]
      BY <1>0, <1>5 DEF CancelledAtFile, kernel, bounds, Stacks
  <2>2. \A q \in Procs : \A k \in 1..Len(stack'[q]) : k \in Levels(q) /\ Fr1(q, k).event = Fr(q, k).event
      BY <2>1 DEF Fr1, Fr, Nth, Levels
  <2> QED BY <2>1, <2>2, EventsKept
<1>6. ASSUME NEW m \in MachThreads, MachReceive(m) PROVE EventsApart'
    BY <1>6, EventsReceived
<1>7. CASE UNCHANGED vars
    BY <1>7 DEF vars, kernel, bounds, EventsApart, Levels, Fr, Nth
<1> QED BY <1>1, <1>2, <1>3, <1>4, <1>5, <1>6, <1>7, StepCases

FlagsInv == AnnouncedOnRecord /\ TwoAreRecrash /\ RecrashUnhooks /\ CapturedIsLast

\* Frames that stay, go, or have announced nothing: the flags need not change.
LEMMA FlagsKept ==
    ASSUME FlagsInv, UNCHANGED <<handlingFatal, crashedDuring, captured>>,
           reconfigs' = 0 => reconfigs = 0 /\ hooked' \subseteq hooked,
           \A p \in Procs : \A k \in 1..Len(stack'[p]) :
              \/ /\ k \in Levels(p) /\ Fr1(p, k).event = Fr(p, k).event /\ Fr1(p, k).kind = Fr(p, k).kind
                 /\ Announced(Fr1(p, k)) => Announced(Fr(p, k))
                 /\ Announced(Fr(p, k)) => Announced(Fr1(p, k))
              \/ ~Announced(Fr1(p, k)) /\ (Fr1(p, k).event \notin captured \/ reconfigs' # 0 \/ hooked' = {})
    PROVE  FlagsInv'
<1>1. \A p \in Procs : \A k \in 1..Len(stack'[p]) : Announced(Fr1(p, k)) => handlingFatal' \/ crashedDuring'
    BY DEF FlagsInv, AnnouncedOnRecord
<1>2. \A p, q \in Procs : \A k \in 1..Len(stack'[p]), j \in 1..Len(stack'[q]) :
         Announced(Fr1(p, k)) /\ Announced(Fr1(q, j)) => crashedDuring' \/ (p = q /\ k = j)
    BY DEF FlagsInv, TwoAreRecrash
<1>3. reconfigs' = 0 /\ crashedDuring' => hooked' = {}
    BY DEF FlagsInv, RecrashUnhooks
<1>4. reconfigs' = 0 => \A p \in Procs : \A k \in 1..Len(stack'[p]) :
         Fr1(p, k).event \in captured' =>
            hooked' = {} \/ (Announced(Fr1(p, k)) /\ Fr1(p, k).kind \in FatalKinds)
    BY DEF FlagsInv, CapturedIsLast
<1> QED BY <1>1, <1>2, <1>3, <1>4, LoopPrime DEF FlagsInv

LEMMA FlagsStay ==
    ASSUME FlagsInv, UNCHANGED <<handlingFatal, crashedDuring, captured>>,
           reconfigs' = 0 => reconfigs = 0 /\ hooked' \subseteq hooked,
           \A p \in Procs : \A k \in 1..Len(stack'[p]) : k \in Levels(p) /\ Fr1(p, k) = Fr(p, k)
    PROVE  FlagsInv'
BY FlagsKept

\* A moving step that neither announces a crash nor ends its handling.
LEMMA QuietMove ==
    ASSUME TypeOK, NEW p \in Procs, Moving(p), ~Notify(p), ~Post(p)
    PROVE  /\ UNCHANGED <<handlingFatal, crashedDuring, requiresAsyncSafety>> /\ hooked' \subseteq hooked
           /\ \/ Ends(p)
              \/ \E g : /\ MovesWithin(p, g)
                        /\ Announced(g) => Announced(Top(p))
                        /\ Announced(Top(p)) => Announced(g)
<1>1. UNCHANGED <<handlingFatal, crashedDuring, requiresAsyncSafety>> /\ hooked' \subseteq hooked
    BY DEF Moving, Records, Enter, SuspendOne, SuspendDone, SwitchMachThread,
           Handle, NextPath, OpenReport, WriteReport, RenameReport, RewriteReport,
           ResumeOne, ResumeDone, WriterStep, flags, monitors
<1>2. CASE Enter(p)
  <2>1. CASE \E g : MovesWithin(p, g) /\ FromEnter(Top(p), g, p)
    <3>1. PICK g : MovesWithin(p, g) /\ FromEnter(Top(p), g, p)
        BY <2>1
    <3>2. g.kind = Top(p).kind
        BY <3>1 DEF MovesWithin, SameCrash
    <3>3. ~Announced(g) /\ ~Announced(Top(p))
        BY <3>1, <3>2 DEF FromEnter, Announced, HandlerPCs
    <3> QED BY <1>1, <3>1, <3>3
  <2>2. CASE stack' = Popped(stack, p)
      BY <1>1, <2>2, MovingShape, PopOnly DEF Ends
  <2> QED BY <1>2, <2>1, <2>2, EnterMoves, MovingShape
<1>3. CASE SuspendDone(p)
  <2>1. PICK g : MovesWithin(p, g) /\ FromSuspend(Top(p), g, p) /\ g.pc # "suspend"
      BY <1>3, SuspendMoves
  <2>2. g.kind = Top(p).kind
      BY <2>1 DEF MovesWithin, SameCrash
  <2>3. ~Announced(g) /\ ~Announced(Top(p))
      BY <2>1, <2>2 DEF FromSuspend, Announced, HandlerPCs
  <2> QED BY <1>1, <2>1, <2>3
<1>4. CASE SuspendOne(p) \/ ResumeOne(p) \/ ResumeDone(p)
  <2>1. PICK g : /\ MovesWithin(p, g) /\ Top(p).pc \in {"suspend", "resume"}
                 /\ g.pc \in {"suspend", "resume", "exit"}
      BY <1>4, SuspendMoves
  <2>2. ~Announced(g) /\ ~Announced(Top(p))
      BY <2>1 DEF Announced, HandlerPCs
  <2> QED BY <1>1, <2>1, <2>2
<1>5. CASE SwitchMachThread(p)
  <2>1. PICK g : MovesWithin(p, g) /\ Top(p).pc = "switch" /\ g.pc = "handle"
      BY <1>5, NotifyMoves
  <2>2. g.kind = Top(p).kind
      BY <2>1 DEF MovesWithin, SameCrash
  <2>3. (Announced(g) => Announced(Top(p))) /\ (Announced(Top(p)) => Announced(g))
      BY <2>1, <2>2 DEF Announced, HandlerPCs
  <2> QED BY <1>1, <2>1, <2>3
<1>6. CASE Records(p)
  <2>1. PICK g : MovesWithin(p, g) /\ Writes(Top(p).pc, g.pc)
      BY <1>6, RecordMoves
  <2>2. Top(p).pc \in HandlerPCs /\ g.pc \in HandlerPCs /\ g.kind = Top(p).kind
      BY <2>1 DEF Writes, HandlerPCs, MovesWithin, SameCrash
  <2>3. (Announced(g) => Announced(Top(p))) /\ (Announced(Top(p)) => Announced(g))
      BY <2>2 DEF Announced
  <2> QED BY <1>1, <2>1, <2>3
<1> QED BY <1>2, <1>3, <1>4, <1>5, <1>6 DEF Moving

LEMMA FlagsNotify ==
    ASSUME TypeOK, EventsApart, FlagsInv, NEW p \in Procs, Notify(p)
    PROVE  FlagsInv'
<1>1. /\ crashedDuring' = (crashedDuring \/ handlingFatal) /\ handlingFatal' = TRUE
      /\ captured' = IF Top(p).kind \in FatalKinds THEN captured \cup {Top(p).event} ELSE captured
      /\ UNCHANGED reconfigs
    BY DEF Notify, bounds
<1>2. stack \in Stacks /\ stack[p] # <<>> /\ Top(p).pc = "notify"
    BY DEF TypeOK, Stacks, Notify, At
<1>3. PICK g : MovesWithin(p, g) /\ g.pc \in {"switch", "handle"}
    BY NotifyMoves
<1>4. IF crashedDuring' THEN hooked' = {} ELSE hooked' = hooked
  <2> DEFINE next == WithTop(stack, p, [Top(p) EXCEPT
                       !.pc = IF Top(p).kind = "mach" THEN "switch" ELSE "handle"])
  <2>1. OnNotify(p, next)
      BY DEF Notify
  <2> HIDE DEF next
  <2> QED BY <2>1, UninstallLeavesNothing DEF OnNotify, KeepMonitors, monitors
<1> DEFINE n == Len(stack[p])
<1>5. n \in Levels(p) /\ Top(p) = Fr(p, n)
    BY <1>2, TopAt
<1>6. \A q \in Procs : \A k \in 1..Len(stack'[q]) :
         /\ k \in Levels(q)
         /\ \/ q = p /\ k = n /\ Fr1(q, k) = g
            \/ (q # p \/ k # n) /\ Fr1(q, k) = Fr(q, k)
    BY <1>2, <1>3, AfterMove DEF Fr1, MovesWithin
<1> HIDE DEF n
<1>7. \A q \in Procs : \A k \in 1..Len(stack'[q]) : Announced(Fr1(q, k)) => handlingFatal' \/ crashedDuring'
    BY <1>1
<1>8. \A q, r \in Procs : \A k \in 1..Len(stack'[q]), j \in 1..Len(stack'[r]) :
         Announced(Fr1(q, k)) /\ Announced(Fr1(r, j)) => crashedDuring' \/ (q = r /\ k = j)
  <2> SUFFICES ASSUME NEW q \in Procs, NEW r \in Procs,
                      NEW k \in 1..Len(stack'[q]), NEW j \in 1..Len(stack'[r]),
                      Announced(Fr1(q, k)), Announced(Fr1(r, j)), ~(q = r /\ k = j)
               PROVE  crashedDuring'
      OBVIOUS
  <2>1. CASE q = p /\ k = n
    <3>1. j \in Levels(r) /\ Announced(Fr(r, j))
        BY <1>6, <2>1
    <3> QED BY <1>1, <3>1 DEF FlagsInv, AnnouncedOnRecord
  <2>2. CASE r = p /\ j = n
    <3>1. k \in Levels(q) /\ Announced(Fr(q, k))
        BY <1>6, <2>2
    <3> QED BY <1>1, <3>1 DEF FlagsInv, AnnouncedOnRecord
  <2>3. CASE ~(q = p /\ k = n) /\ ~(r = p /\ j = n)
    <3>1. /\ k \in Levels(q) /\ Announced(Fr(q, k))
          /\ j \in Levels(r) /\ Announced(Fr(r, j))
        BY <1>6, <2>3
    <3> QED BY <1>1, <3>1 DEF FlagsInv, TwoAreRecrash
  <2> QED BY <2>1, <2>2, <2>3
<1>9. reconfigs' = 0 /\ crashedDuring' => hooked' = {}
    BY <1>4
<1>10. ASSUME reconfigs' = 0, NEW q \in Procs, NEW k \in 1..Len(stack'[q]), Fr1(q, k).event \in captured'
       PROVE  hooked' = {} \/ (Announced(Fr1(q, k)) /\ Fr1(q, k).kind \in FatalKinds)
  <2>1. CASE q = p /\ k = n
    <3>1. Fr1(q, k) = g /\ g.event = Fr(p, n).event /\ g.kind = Fr(p, n).kind
        BY <1>3, <1>5, <1>6, <2>1 DEF MovesWithin, SameCrash
    <3>2. Announced(g) \/ g.kind \notin FatalKinds
        BY <1>3 DEF Announced, HandlerPCs, FatalKinds
    <3>3. CASE Fr(p, n).kind \in FatalKinds
        BY <3>1, <3>2, <3>3
    <3>4. CASE Fr(p, n).kind \notin FatalKinds
      <4>1. Fr(p, n).event \in captured
          BY <1>1, <1>5, <1>10, <3>1, <3>4
      <4>2. hooked = {}
          BY <1>1, <1>5, <1>10, <3>4, <4>1 DEF FlagsInv, CapturedIsLast
      <4> QED BY <1>4, <4>2
    <3> QED BY <3>3, <3>4
  <2>2. CASE q # p \/ k # n
    <3>1. k \in Levels(q) /\ Fr1(q, k) = Fr(q, k)
        BY <1>6, <2>2
    <3>2. Fr(q, k).event # Fr(p, n).event
        BY <1>5, <2>2, <3>1 DEF EventsApart
    <3>3. Fr(q, k).event \in captured
        BY <1>1, <1>5, <1>10, <3>1, <3>2
    <3> QED BY <1>1, <1>4, <1>10, <3>1, <3>3 DEF FlagsInv, CapturedIsLast
  <2> QED BY <2>1, <2>2
<1> QED BY <1>7, <1>8, <1>9, <1>10, LoopPrime DEF FlagsInv

LEMMA FlagsPost ==
    ASSUME TypeOK, EventsApart, FlagsInv, NEW p \in Procs, Post(p)
    PROVE  FlagsInv'
<1>1. /\ crashedDuring' = crashedDuring /\ captured' = captured /\ UNCHANGED reconfigs
      /\ handlingFatal' = (handlingFatal /\ Top(p).kind # "snapshot")
    BY DEF Post, HandlingAfter, bounds
<1>2. stack \in Stacks /\ stack[p] # <<>> /\ Top(p).pc = "post"
    BY DEF TypeOK, Stacks, Post, At
<1>3. PICK g : MovesWithin(p, g) /\ g.pc \in {"resume", "exit"}
    BY PostMoves DEF FromPost
<1>4. IF EndsMonitoring(Top(p)) THEN hooked' = {} ELSE hooked' = hooked
  <2> DEFINE next == WithTop(stack, p,
                       IF Top(p).kind \in Suspending \ {"nsexception"}
                       THEN [Top(p) EXCEPT !.pc = "resume", !.todo = Others(p)]
                       ELSE [Top(p) EXCEPT !.pc = "exit"])
  <2>1. IF EndsMonitoring(Top(p)) THEN Uninstall(p, next) ELSE KeepMonitors(next)
      BY DEF Post
  <2> HIDE DEF next
  <2> QED BY <2>1, UninstallLeavesNothing DEF KeepMonitors, monitors
<1> DEFINE n == Len(stack[p])
<1>5. n \in Levels(p) /\ Top(p) = Fr(p, n)
    BY <1>2, TopAt
<1>6. \A q \in Procs : \A k \in 1..Len(stack'[q]) :
         /\ k \in Levels(q)
         /\ \/ q = p /\ k = n /\ Fr1(q, k) = g
            \/ (q # p \/ k # n) /\ Fr1(q, k) = Fr(q, k)
    BY <1>2, <1>3, AfterMove DEF Fr1, MovesWithin
<1>7. g.event = Top(p).event /\ g.kind = Top(p).kind /\ ~Announced(g)
    BY <1>3 DEF MovesWithin, SameCrash, Announced, HandlerPCs
<1>8. Top(p).kind \in Notifying => Announced(Top(p))
    BY <1>2 DEF Announced, HandlerPCs
<1> HIDE DEF n
<1>9. \A q \in Procs : \A k \in 1..Len(stack'[q]) : Announced(Fr1(q, k)) => handlingFatal' \/ crashedDuring'
  <2> SUFFICES ASSUME NEW q \in Procs, NEW k \in 1..Len(stack'[q]), Announced(Fr1(q, k))
               PROVE  handlingFatal' \/ crashedDuring'
      OBVIOUS
  <2>1. k \in Levels(q) /\ (q # p \/ k # n) /\ Announced(Fr(q, k))
      BY <1>6, <1>7
  <2>2. handlingFatal \/ crashedDuring
      BY <2>1 DEF FlagsInv, AnnouncedOnRecord
  <2>3. CASE Top(p).kind = "snapshot"
    <3>1. Announced(Fr(p, n))
        BY <1>5, <1>8, <2>3 DEF Notifying, Kinds
    <3>2. crashedDuring
        BY <1>5, <2>1, <3>1 DEF FlagsInv, TwoAreRecrash
    <3> QED BY <1>1, <3>2
  <2> QED BY <1>1, <2>2, <2>3
<1>10. \A q, r \in Procs : \A k \in 1..Len(stack'[q]), j \in 1..Len(stack'[r]) :
         Announced(Fr1(q, k)) /\ Announced(Fr1(r, j)) => crashedDuring' \/ (q = r /\ k = j)
    BY <1>1, <1>6, <1>7 DEF FlagsInv, TwoAreRecrash
<1>11. reconfigs' = 0 /\ crashedDuring' => hooked' = {}
    BY <1>1, <1>4 DEF FlagsInv, RecrashUnhooks
<1>12. ASSUME reconfigs' = 0, NEW q \in Procs, NEW k \in 1..Len(stack'[q]), Fr1(q, k).event \in captured'
       PROVE  hooked' = {} \/ (Announced(Fr1(q, k)) /\ Fr1(q, k).kind \in FatalKinds)
  <2>1. k \in Levels(q) /\ Fr(q, k).event \in captured
      BY <1>1, <1>5, <1>6, <1>7, <1>12
  <2>2. hooked = {} \/ (Announced(Fr(q, k)) /\ Fr(q, k).kind \in FatalKinds)
      BY <1>1, <1>12, <2>1 DEF FlagsInv, CapturedIsLast
  <2>3. CASE hooked = {}
      BY <1>4, <2>3
  <2>4. CASE q # p \/ k # n
      BY <1>4, <1>6, <2>2, <2>4
  <2>5. CASE q = p /\ k = n /\ hooked # {}
    <3>1. Top(p).kind \in FatalKinds /\ Announced(Fr(p, n))
        BY <1>5, <2>2, <2>5
    <3>2. handlingFatal \/ crashedDuring
        BY <1>5, <3>1 DEF FlagsInv, AnnouncedOnRecord
    <3>3. ~crashedDuring
        BY <1>1, <1>12, <2>5 DEF FlagsInv, RecrashUnhooks
    <3>4. EndsMonitoring(Top(p))
        BY <3>1, <3>2, <3>3 DEF EndsMonitoring, FatalKinds
    <3> QED BY <1>4, <3>4
  <2> QED BY <2>3, <2>4, <2>5
<1> QED BY <1>9, <1>10, <1>11, <1>12, LoopPrime DEF FlagsInv

LEMMA FlagsNext == TypeOK /\ EventsApart /\ FlagsInv /\ [Next]_vars => FlagsInv'
<1> SUFFICES ASSUME TypeOK, EventsApart, FlagsInv, [Next]_vars PROVE FlagsInv'
    OBVIOUS
<1>0. stack \in Stacks
    BY DEF TypeOK, Stacks
<1>1. ASSUME NEW t \in Threads, Reconfigures(t) PROVE FlagsInv'
  <2>1. /\ StacksStay /\ UNCHANGED <<handlingFatal, crashedDuring, captured>>
        /\ reconfigs' # 0
      BY <1>1, ReconfigurationStays, Reconfigured DEF flags
  <2>2. \A p \in Procs : \A k \in 1..Len(stack'[p]) : k \in Levels(p) /\ Fr1(p, k) = Fr(p, k)
      BY <2>1, AfterStay DEF Fr1
  <2> QED BY <2>1, <2>2, FlagsStay
<1>2. ASSUME NEW p \in Procs, NewEvent(p) PROVE FlagsInv'
  <2>1. UNCHANGED <<handlingFatal, crashedDuring, captured, hooked, reconfigs>>
      BY <1>2 DEF NewEvent, flags, monitors
  <2>2. CASE stack' = stack
    <3>1. \A q \in Procs : \A k \in 1..Len(stack'[q]) : k \in Levels(q) /\ Fr1(q, k) = Fr(q, k)
        BY <2>2 DEF Fr1, Fr, Nth, Levels
    <3> QED BY <2>1, <3>1, FlagsStay
  <2>3. ASSUME NEW f, Starts(p, f) PROVE FlagsInv'
    <3>1. ~Announced(f)
        BY <2>3 DEF Starts, FreshFrame, Announced, HandlerPCs
    <3>2. f.event \notin captured
      <4>1. events \in Nat /\ captured \subseteq Nat /\ f.event = events + 1
          BY <2>3, ConstantsAssumption DEF TypeOK, Events, Starts, FreshFrame
      <4> QED BY <4>1 DEF EventsApart
    <3>3. \A q \in Procs : \A k \in 1..Len(stack'[q]) :
             (k \in Levels(q) /\ Fr1(q, k) = Fr(q, k)) \/ Fr1(q, k) = f
        BY <1>0, <2>3, AfterPush DEF Fr1, Starts
    <3> QED BY <2>1, <3>1, <3>2, <3>3, FlagsKept
  <2> QED BY <1>2, <2>2, <2>3 DEF NewEvent
<1>3. ASSUME NEW p \in Procs, Moving(p) PROVE FlagsInv'
  <2>1. CASE Notify(p)
      BY <2>1, FlagsNotify
  <2>2. CASE Post(p)
      BY <2>2, FlagsPost
  <2>3. CASE ~Notify(p) /\ ~Post(p)
    <3>0. stack[p] # <<>> /\ UNCHANGED <<captured, reconfigs>>
        BY <1>3, <2>3, MovingShape
    <3>1. UNCHANGED <<handlingFatal, crashedDuring>> /\ hooked' \subseteq hooked
        BY <1>3, <2>3, QuietMove
    <3>2. CASE Ends(p)
      <4>1. \A q \in Procs : \A k \in 1..Len(stack'[q]) : k \in Levels(q) /\ Fr1(q, k) = Fr(q, k)
          BY <1>0, <3>0, <3>2, AfterEnd DEF Fr1
      <4> QED BY <3>0, <3>1, <4>1, FlagsStay
    <3>3. ASSUME NEW g, MovesWithin(p, g), Announced(g) => Announced(Top(p)),
                 Announced(Top(p)) => Announced(g)
          PROVE  FlagsInv'
      <4>1. Len(stack[p]) \in Levels(p) /\ Top(p) = Fr(p, Len(stack[p]))
          BY <1>0, <3>0, TopAt
      <4>2. g.event = Top(p).event /\ g.kind = Top(p).kind /\ Moves(p, g)
          BY <3>3 DEF MovesWithin, SameCrash
      <4>3. \A q \in Procs : \A k \in 1..Len(stack'[q]) :
               /\ k \in Levels(q) /\ Fr1(q, k).event = Fr(q, k).event /\ Fr1(q, k).kind = Fr(q, k).kind
               /\ Announced(Fr1(q, k)) => Announced(Fr(q, k))
               /\ Announced(Fr(q, k)) => Announced(Fr1(q, k))
          BY <1>0, <3>0, <3>3, <4>1, <4>2, AfterMove DEF Fr1
      <4> QED BY <3>0, <3>1, <4>3, FlagsKept
    <3> QED BY <1>3, <2>3, <3>2, <3>3, QuietMove
  <2> QED BY <2>1, <2>2, <2>3
<1>4. ASSUME NEW p \in Procs, Leaves(p) PROVE FlagsInv'
  <2>0. /\ stack[p] # <<>> /\ Top(p).pc = "exit"
        /\ UNCHANGED <<handlingFatal, crashedDuring, captured, hooked, reconfigs>>
      BY <1>4, LeaveShape DEF bounds, flags, monitors
  <2>1. Len(stack[p]) \in Levels(p) /\ Top(p) = Fr(p, Len(stack[p]))
      BY <1>0, <2>0, TopAt
  <2>2. CASE Ends(p)
    <3>1. \A q \in Procs : \A k \in 1..Len(stack'[q]) : k \in Levels(q) /\ Fr1(q, k) = Fr(q, k)
        BY <1>0, <2>0, <2>2, AfterEnd DEF Fr1
    <3> QED BY <2>0, <3>1, FlagsStay
  <2>3. ASSUME NEW g, Continues(p, g)
        PROVE  ~Announced(g) /\ (g.event \notin captured \/ reconfigs' # 0)
    <3>1. g.pc = "enter" /\ g.event = Top(p).event /\ hooked # {}
        BY <2>3 DEF Continues, FreshFrame
    <3>2. ~Announced(g) /\ ~Announced(Top(p))
        BY <2>0, <3>1 DEF Announced, HandlerPCs
    <3> QED BY <2>0, <2>1, <3>1, <3>2 DEF FlagsInv, CapturedIsLast
  <2>4. ASSUME NEW g, Continues(p, g), Moves(p, g) PROVE FlagsInv'
    <3>1. \A q \in Procs : \A k \in 1..Len(stack'[q]) :
             (k \in Levels(q) /\ Fr1(q, k) = Fr(q, k)) \/ Fr1(q, k) = g
        BY <1>0, <2>0, <2>4, AfterMove DEF Fr1
    <3> QED BY <2>0, <2>3, <2>4, <3>1, FlagsKept
  <2>5. ASSUME NEW g, Continues(p, g), Top(p).subject \in Procs \ {p}, HandsTo(p, Top(p).subject, g)
        PROVE  FlagsInv'
    <3>1. \A q \in Procs : \A k \in 1..Len(stack'[q]) :
             (k \in Levels(q) /\ Fr1(q, k) = Fr(q, k)) \/ Fr1(q, k) = g
        BY <1>0, <2>0, <2>5, AfterHand DEF Fr1
    <3> QED BY <2>0, <2>3, <2>5, <3>1, FlagsKept
  <2> QED BY <1>4, <2>2, <2>4, <2>5, LeaveShape
<1>5. ASSUME NEW p \in Procs, CancelledAtFile(p) PROVE FlagsInv'
  <2>1. /\ UNCHANGED <<handlingFatal, crashedDuring, captured, hooked, reconfigs>> /\ stack'[p] = <<>>
        /\ \A q \in Procs \ {p} : stack'[q] = stack[q]
      BY <1>0, <1>5 DEF CancelledAtFile, flags, monitors, bounds, Stacks
  <2>2. \A q \in Procs : \A k \in 1..Len(stack'[q]) : k \in Levels(q) /\ Fr1(q, k) = Fr(q, k)
      BY <2>1 DEF Fr1, Fr, Nth, Levels
  <2> QED BY <2>1, <2>2, FlagsStay
<1>6. ASSUME NEW m \in MachThreads, MachReceive(m) PROVE FlagsInv'
  <2>1. UNCHANGED <<handlingFatal, crashedDuring, captured, hooked, reconfigs>>
      BY <1>6 DEF MachReceive, flags, monitors, bounds
  <2> DEFINE f == Frame("mach", port[1].event, port[1].victim)
  <2>2. ~Announced(f) /\ f.event \notin captured
    <3>1. f.pc = "enter" /\ f.event = port[1].event
        BY DEF Frame
    <3>2. 1 \in 1..Len(port)
        BY <1>6, ReceiveShape
    <3> QED BY <3>1, <3>2 DEF Announced, HandlerPCs, EventsApart
  <2>3. \A q \in Procs : \A k \in 1..Len(stack'[q]) :
           (k \in Levels(q) /\ Fr1(q, k) = Fr(q, k)) \/ Fr1(q, k) = f
      BY <1>6, AfterReceive DEF Fr1
  <2> HIDE DEF f
  <2> QED BY <2>1, <2>2, <2>3, FlagsKept
<1>7. CASE UNCHANGED vars
  <2>1. UNCHANGED <<handlingFatal, crashedDuring, captured, hooked, reconfigs, stack>>
      BY <1>7 DEF vars, flags, monitors, bounds
  <2>2. \A q \in Procs : \A k \in 1..Len(stack'[q]) : k \in Levels(q) /\ Fr1(q, k) = Fr(q, k)
      BY <2>1 DEF Fr1, Fr, Nth, Levels
  <2> QED BY <2>1, <2>2, FlagsStay
<1> QED BY <1>1, <1>2, <1>3, <1>4, <1>5, <1>6, <1>7, StepCases

\* Nothing is on any stack at first.
LEMMA EmptyAtFirst ==
    ASSUME Init
    PROVE  /\ \A p \in Procs : stack[p] = <<>> /\ Levels(p) = {}
           /\ port = <<>> /\ Len(port) = 0 /\ captured = {} /\ ~crashedDuring /\ ~handlingFatal
<1>1. /\ \A p \in Procs : stack[p] = <<>>
      /\ port = <<>> /\ captured = {} /\ crashedDuring = FALSE /\ handlingFatal = FALSE
    BY DEF Init
<1> QED BY <1>1 DEF Levels

\* No two frames handle one event, a fatal exception that is announced is on record,
\* a second one in the same handler is known as a crash of the reporter, which takes
\* every handler out of the way: what the handlers keep of the flags they share.
THEOREM LoopInvariant == Spec => [](TypeOK /\ EventsApart /\ FlagsInv)
<1>1. Init => EventsApart /\ FlagsInv
  <2> SUFFICES ASSUME Init PROVE EventsApart /\ FlagsInv
      OBVIOUS
  <2>1. EventsApart
      BY EmptyAtFirst DEF EventsApart
  <2>2. FlagsInv
      BY EmptyAtFirst DEF FlagsInv, AnnouncedOnRecord, TwoAreRecrash, RecrashUnhooks, CapturedIsLast
  <2> QED BY <2>1, <2>2
<1> QED BY <1>1, TypeInit, TypeNext, EventsNext, FlagsNext, PTL DEF Spec

\* No death loop: whoever has recorded a fatal crash and is about to re-raise it,
\* abort or reply to the kernel finds none of our handlers in place, however many
\* threads crash at once and however often a handler crashes in its turn, unless
\* monitoring was reconfigured meanwhile.
THEOREM NeverDeathLoop == Spec => []NoDeathLoop
<1>1. TypeOK /\ EventsApart /\ FlagsInv => NoDeathLoop
  <2> SUFFICES ASSUME TypeOK, FlagsInv, NEW p \in Procs, reconfigs = 0, At(p, "exit"),
                      Top(p).kind \in FatalKinds, Top(p).event \in captured
               PROVE  hooked = {}
      BY DEF NoDeathLoop
  <2>1. stack \in Stacks /\ stack[p] # <<>> /\ Top(p).pc = "exit"
      BY DEF At, TypeOK, Stacks
  <2>2. Len(stack[p]) \in Levels(p) /\ Top(p) = Fr(p, Len(stack[p]))
      BY <2>1, TopAt
  <2>3. ~Announced(Top(p))
      BY <2>1 DEF Announced, HandlerPCs
  <2> QED BY <2>2, <2>3 DEF FlagsInv, CapturedIsLast
<1> QED BY <1>1, LoopInvariant, PTL

-----------------------------------------------------------------------------
(* One writer *)

\* Exception threads handle Mach exceptions, and faults of their own as signals;
\* only they do.
MachStacks ==
    \A m \in MachThreads :
        \A k \in Levels(m) :
            mach[m] = "busy" /\ (Fr(m, k).kind = IF k = 1 THEN "mach" ELSE "signal")
ThreadStacks == \A t \in Threads : \A k \in Levels(t) : Fr(t, k).kind # "mach"
SwitchesMach == \A p \in Procs : \A k \in Levels(p) : Fr(p, k).pc = "switch" => Fr(p, k).kind = "mach"

\* Only the code of a handler faults in its turn: a frame under another one, or
\* of a thread waiting for a reply, is at such a point.
FaultsInHandler ==
    \A p \in Procs : \A k \in Levels(p) :
        k < Len(stack[p]) \/ p \in trapped => Fr(p, k).pc \in HandlerPCs

\* Each trapped thread waits for one reply, of one message or one handler, and
\* no exception thread is ever trapped.
VictimsApart ==
    /\ trapped \cap MachThreads = {}
    /\ \A i \in 1..Len(port) : port[i].victim \in trapped
    /\ \A i, j \in 1..Len(port) : port[i].victim = port[j].victim => i = j
    /\ \A m \in MachThreads : 1 \in Levels(m) =>
          /\ Fr(m, 1).subject \in trapped
          /\ \A i \in 1..Len(port) : port[i].victim # Fr(m, 1).subject
          /\ \A n \in MachThreads :
                1 \in Levels(n) /\ Fr(n, 1).subject = Fr(m, 1).subject => m = n

\* What the globals of the Mach monitor say of its two threads.
KnownEnabled == machKnown = MachThreads => "mach" \in enabled
HookedKnown == "mach" \in hooked => machKnown = MachThreads

\* Where a thread's outermost handler is; the secondary exception thread runs
\* only once the primary one has handed the ports over, or is gone.
OutermostAt(p, pcs) == 1 \in Levels(p) /\ Fr(p, 1).pc \in pcs
Serving(m) == mach[m] \in {"waiting", "busy"}
SecondaryAfter ==
    Serving(Secondary) =>
        /\ "mach" \notin hooked
        /\ \/ mach[Primary] \in {"gone", "cancelled"}
           \/ OutermostAt(Primary, HandlerPCs \cup {"resume", "exit"})
HandedOver == OutermostAt(Primary, HandlerPCs) => "mach" \notin hooked
HandlingNoted == OutermostAt(Primary, HandlerPCs \cup {"notify", "switch"}) => machHandling

\* While both run, the recorder still knows both, so that a second crash ends
\* the other one, and only one of them gets into onCrash.
BothKnown ==
    Serving(Secondary) /\ OutermostAt(Primary, HandlerPCs) =>
        "mach" \in enabled /\ machKnown = MachThreads
OneAnnounces ==
    OutermostAt(Primary, HandlerPCs) => ~OutermostAt(Secondary, HandlerPCs \cup {"switch"})

\* The frames that have suspended t and not resumed it.
Holds(f, p, t) ==
    /\ f.kind \in Suspending /\ t \in Others(p)
    /\ \/ f.pc = "suspend" /\ t \notin f.todo
       \/ f.pc \in HandlerPCs \cup {"notify", "switch"}
       \/ f.pc = "resume" /\ t \in f.todo
Holders(t) == {pk \in Procs \X Nat : pk[2] \in Levels(pk[1]) /\ Holds(Fr(pk[1], pk[2]), pk[1], t)}
SuspendsOthers ==
    \A p \in Procs : \A k \in Levels(p) :
        Fr(p, k).pc \in {"suspend", "resume"} => Fr(p, k).todo \subseteq Others(p)
                                                 /\ Fr(p, k).kind \in Suspending
\* The kernel's count of suspensions is at least that of these frames.
HeldIsSuspended ==
    \A t \in Threads : IsFiniteSet(Holders(t)) /\ Cardinality(Holders(t)) <= suspendCount[t]

FramesInv == MachStacks /\ ThreadStacks /\ SwitchesMach /\ FaultsInHandler
LEMMA FramesPrime ==
    ASSUME \A m \in MachThreads : \A k \in 1..Len(stack'[m]) :
               mach'[m] = "busy" /\ (Fr1(m, k).kind = IF k = 1 THEN "mach" ELSE "signal"),
           \A t \in Threads : \A k \in 1..Len(stack'[t]) : Fr1(t, k).kind # "mach",
           \A p \in Procs : \A k \in 1..Len(stack'[p]) :
               /\ Fr1(p, k).pc = "switch" => Fr1(p, k).kind = "mach"
               /\ k < Len(stack'[p]) \/ p \in trapped' => Fr1(p, k).pc \in HandlerPCs
    PROVE  FramesInv'
<1>1. MachStacks'
    BY DEF MachStacks, Fr1, Fr, Nth, Levels
<1>2. ThreadStacks'
    BY DEF ThreadStacks, Fr1, Fr, Nth, Levels
<1>3. SwitchesMach'
    BY DEF SwitchesMach, Fr1, Fr, Nth, Levels
<1>4. FaultsInHandler'
    BY DEF FaultsInHandler, Fr1, Fr, Nth, Levels
<1> QED BY <1>1, <1>2, <1>3, <1>4 DEF FramesInv

\* Frames that stay where they are, or go with their thread.
LEMMA FramesStay ==
    ASSUME TypeOK, FramesInv, trapped' \subseteq trapped,
           \A m \in MachThreads : 1 \in 1..Len(stack'[m]) => mach'[m] = mach[m],
           \A p \in Procs : \A k \in 1..Len(stack'[p]) :
               /\ k \in Levels(p) /\ Fr1(p, k) = Fr(p, k)
               /\ Len(stack'[p]) \in Nat /\ Len(stack'[p]) <= Len(stack[p])
    PROVE  FramesInv'
<1>0. stack \in Stacks /\ Procs = Threads \cup MachThreads
    BY DEF TypeOK, Stacks, Procs
<1>1. ASSUME NEW m \in MachThreads, NEW k \in 1..Len(stack'[m])
      PROVE  mach'[m] = "busy" /\ (Fr1(m, k).kind = IF k = 1 THEN "mach" ELSE "signal")
  <2>1. k \in Levels(m) /\ Fr1(m, k) = Fr(m, k) /\ Len(stack'[m]) \in Nat
      BY <1>0
  <2>2. 1 \in 1..Len(stack'[m])
      BY <2>1
  <2> QED BY <2>1, <2>2 DEF FramesInv, MachStacks
<1>2. \A t \in Threads : \A k \in 1..Len(stack'[t]) : Fr1(t, k).kind # "mach"
    BY <1>0 DEF FramesInv, ThreadStacks
<1>3. ASSUME NEW p \in Procs, NEW k \in 1..Len(stack'[p])
      PROVE  /\ Fr1(p, k).pc = "switch" => Fr1(p, k).kind = "mach"
             /\ k < Len(stack'[p]) \/ p \in trapped' => Fr1(p, k).pc \in HandlerPCs
  <2>1. k \in Levels(p) /\ Fr1(p, k) = Fr(p, k) /\ Len(stack[p]) \in Nat
        /\ Len(stack'[p]) \in Nat /\ Len(stack'[p]) <= Len(stack[p])
      BY <1>0, FrameType
  <2>2. k < Len(stack'[p]) => k < Len(stack[p])
      BY <2>1
  <2> QED BY <2>1, <2>2 DEF FramesInv, SwitchesMach, FaultsInHandler
<1> QED BY <1>1, <1>2, <1>3, FramesPrime

\* What setActiveMonitors does to the Mach monitor, short of installing it.
LEMMA SetActiveFacts ==
    ASSUME TypeOK, NEW self \in Procs, NEW types \in SUBSET Monitors, NEW failing, NEW stk,
           SwitchMonitors(types, self, failing, stk), ~Installs
    PROVE  /\ "mach" \in enabled' => "mach" \in types
           /\ "mach" \in types => "mach" \in enabled'
           /\ "mach" \in hooked' => "mach" \in hooked /\ "mach" \in types
           /\ Uninstalls(types) => machKnown' = machKnown \cap {self}
           /\ ~Uninstalls(types) => machKnown' = machKnown
           /\ \A m \in MachThreads : mach'[m] \in {mach[m], "gone"}
           /\ \A m \in MachThreads : (mach'[m] = mach[m] /\ stack'[m] = stk[m]) \/ Terminated(m)
           /\ Uninstalls(types) /\ machHandling => \A m \in machKnown \ {self} : Terminated(m)
<1> DEFINE killed == IF Uninstalls(types) /\ machHandling THEN Forgotten(self) ELSE {}
<1>1. /\ mach' = [m \in MachThreads |-> IF m \in killed THEN "gone" ELSE mach[m]]
      /\ stack' = [p \in Procs |-> IF p \in killed THEN <<>> ELSE stk[p]]
    BY DEF SwitchMonitors
<1>2. MachThreads \subseteq Procs /\ machKnown \subseteq MachThreads
    BY DEF Procs, TypeOK
<1>3. \A m \in MachThreads : /\ mach'[m] \in {mach[m], "gone"}
                             /\ (mach'[m] = mach[m] /\ stack'[m] = stk[m]) \/ Terminated(m)
  <2> HIDE DEF killed
  <2> QED BY <1>1, <1>2 DEF Terminated
<1>4. Uninstalls(types) /\ machHandling => \A m \in machKnown \ {self} : Terminated(m)
  <2>1. Uninstalls(types) /\ machHandling => killed = machKnown \ {self}
      BY DEF Forgotten
  <2> HIDE DEF killed
  <2> QED BY <1>1, <1>2, <2>1 DEF Terminated
<1>5. /\ Uninstalls(types) => machKnown' = machKnown \cap {self}
      /\ ~Uninstalls(types) => machKnown' = machKnown
    BY DEF SwitchMonitors
<1>6. ("mach" \in enabled' => "mach" \in types) /\ ("mach" \in types => "mach" \in enabled')
    BY DEF SwitchMonitors, EnabledAfter
<1>7. "mach" \in hooked' => "mach" \in hooked /\ "mach" \in types
    BY DEF SwitchMonitors, HookedAfter, Installs
<1> QED BY <1>3, <1>4, <1>5, <1>6, <1>7

\* A program that asks for other monitors either installs the Mach monitor,
\* which waits for no exception thread to be busy, or does not.
LEMMA ReconfigurationFacts ==
    ASSUME TypeOK, NEW t \in Threads, Reconfigures(t)
    PROVE  /\ UNCHANGED <<machHandling, port, trapped, captured, handlingFatal, crashedDuring>>
           /\ stack[t] = <<>>
           /\ \/ /\ Installs /\ \A m \in MachThreads : mach[m] # "busy"
                 /\ mach' = InstalledThreads /\ machKnown' = MachThreads
                 /\ "mach" \in enabled' /\ "mach" \in hooked'
              \/ /\ ~Installs
                 /\ \E types \in SUBSET Monitors : \E failing :
                       SwitchMonitors(types, t, failing, stack)
              \/ ~Installs /\ UNCHANGED <<enabled, hooked, machKnown, mach, stack>>
<1>1. UNCHANGED <<machHandling, port, trapped, captured, handlingFatal, crashedDuring>> /\ stack[t] = <<>>
    BY Reconfigured DEF kernel, flags
<1>2. CASE UNCHANGED <<enabled, hooked, machKnown, cancelled, mach, stack>>
    BY <1>1, <1>2 DEF Installs
<1>3. ASSUME NEW on \in SUBSET Monitors, NEW failing \in SUBSET AsyncSafe,
             "mach" \in on \ enabled => \A m \in MachThreads : mach[m] # "busy",
             SwitchMonitors(on, t, failing, stack), Installs
      PROVE  /\ \A m \in MachThreads : mach[m] # "busy"
             /\ mach' = InstalledThreads /\ machKnown' = MachThreads
             /\ "mach" \in enabled' /\ "mach" \in hooked'
  <2>1. "mach" \in on \ enabled
      BY <1>3 DEF SwitchMonitors, HookedAfter, Installs
  <2> QED BY <1>3, <2>1 DEF SwitchMonitors, EnabledAfter, Installs
<1> QED BY <1>1, <1>2, <1>3, Reconfigured

\* An announcement or the end of a crash either uninstalls everything or
\* leaves the monitors alone.
NothingActive(p) ==
    /\ ~Installs /\ "mach" \notin hooked' /\ "mach" \notin enabled'
    /\ "mach" \in enabled => machKnown' = machKnown \cap {p}
    /\ "mach" \notin enabled => machKnown' = machKnown
    /\ \A m \in MachThreads : mach'[m] \in {mach[m], "gone"}
    /\ \A m \in MachThreads : mach'[m] = mach[m] \/ Terminated(m)
    /\ "mach" \in enabled /\ machHandling => \A m \in machKnown \ {p} : Terminated(m)
LEMMA UninstallFacts ==
    ASSUME TypeOK, NEW p \in Procs, NEW stk, Uninstall(p, stk)
    PROVE  NothingActive(p)
<1>1. SwitchMonitors({}, p, {}, stk) /\ {} \in SUBSET Monitors
    BY DEF Uninstall
<1>2. hooked' = {} /\ "mach" \notin enabled' /\ ~Installs
    BY <1>1 DEF SwitchMonitors, HookedAfter, EnabledAfter, Installs
<1>3. Uninstalls({}) => "mach" \in enabled
    BY DEF Uninstalls
<1>4. "mach" \in enabled => Uninstalls({})
    BY DEF Uninstalls
<1> QED BY <1>1, <1>2, <1>3, <1>4, SetActiveFacts DEF NothingActive
LEMMA NotifyMonitors ==
    ASSUME TypeOK, NEW p \in Procs, Notify(p) \/ Post(p)
    PROVE  NothingActive(p) \/ UNCHANGED <<enabled, hooked, machKnown, mach>>
<1>1. CASE Notify(p)
  <2> DEFINE next == WithTop(stack, p, [Top(p) EXCEPT
                       !.pc = IF Top(p).kind = "mach" THEN "switch" ELSE "handle"])
  <2>1. IF crashedDuring' THEN Uninstall(p, next) ELSE KeepMonitors(next)
      BY <1>1 DEF Notify, OnNotify
  <2> HIDE DEF next
  <2> QED BY <2>1, UninstallFacts DEF KeepMonitors, monitors
<1>2. CASE Post(p)
  <2> DEFINE next == WithTop(stack, p,
                       IF Top(p).kind \in Suspending \ {"nsexception"}
                       THEN [Top(p) EXCEPT !.pc = "resume", !.todo = Others(p)]
                       ELSE [Top(p) EXCEPT !.pc = "exit"])
  <2>1. IF EndsMonitoring(Top(p)) THEN Uninstall(p, next) ELSE KeepMonitors(next)
      BY <1>2 DEF Post
  <2> HIDE DEF next
  <2> QED BY <2>1, UninstallFacts DEF KeepMonitors, monitors
<1> QED BY <1>1, <1>2

\* A moving step changes the state of an exception thread only by ending it, or
\* by letting the secondary one wait.
LEMMA MovingMach ==
    ASSUME TypeOK, NEW p \in Procs, Moving(p)
    PROVE  /\ \A m \in MachThreads :
                 \/ mach'[m] = mach[m] \/ Terminated(m)
                 \/ SwitchMachThread(p) /\ m = Secondary /\ mach[m] = "suspended"
           /\ ~Notify(p) /\ ~Post(p) /\ ~SwitchMachThread(p) =>
                 UNCHANGED <<enabled, hooked, machKnown, mach>>
           /\ machHandling => machHandling' \/ (Post(p) /\ Top(p).kind = "mach")
           /\ SuspendDone(p) /\ Top(p).kind = "mach" => machHandling'
<1>1. CASE ~Notify(p) /\ ~Post(p) /\ ~SwitchMachThread(p)
  <2>1. UNCHANGED <<enabled, hooked, machKnown, mach>>
      BY <1>1 DEF Moving, Records, Enter, SuspendOne, SuspendDone,
           Handle, NextPath, OpenReport, WriteReport, RenameReport, RewriteReport,
           ResumeOne, ResumeDone, WriterStep, monitors
  <2>2. (machHandling' = machHandling) \/ SuspendDone(p)
      BY <1>1 DEF Moving, Records, Enter, SuspendOne, SuspendDone,
           Handle, NextPath, OpenReport, WriteReport, RenameReport, RewriteReport,
           ResumeOne, ResumeDone, WriterStep
  <2>3. SuspendDone(p) => /\ machHandling => machHandling'
                          /\ Top(p).kind = "mach" => machHandling'
      BY DEF SuspendDone
  <2> QED BY <1>1, <2>1, <2>2, <2>3
<1>2. CASE Notify(p)
  <2>1. UNCHANGED machHandling /\ ~SwitchMachThread(p) /\ ~SuspendDone(p)
      BY <1>2 DEF Notify, SwitchMachThread, SuspendDone, At
  <2> QED BY <1>2, <2>1, NotifyMonitors DEF NothingActive
<1>3. CASE Post(p)
  <2>1. machHandling' = (machHandling /\ Top(p).kind # "mach") /\ ~SwitchMachThread(p)
        /\ ~SuspendDone(p)
      BY <1>3 DEF Post, SwitchMachThread, SuspendDone, At
  <2> QED BY <1>3, <2>1, NotifyMonitors DEF NothingActive, TypeOK
<1>4. CASE SwitchMachThread(p)
    BY <1>4 DEF SwitchMachThread, SuspendDone, At, TypeOK
<1> QED BY <1>1, <1>2, <1>3, <1>4

\* What the innermost frame of a moving step may become.
LEMMA MovingTo ==
    ASSUME TypeOK, NEW p \in Procs, Moving(p), ~Ends(p)
    PROVE  \E g : MovesWithin(p, g) /\ (g.pc = "switch" => g.kind = "mach")
<1> DEFINE Goal == \E g : MovesWithin(p, g) /\ (g.pc = "switch" => g.kind = "mach")
<1>1. CASE Enter(p)
    BY <1>1, EnterMoves, MovingShape, PopOnly DEF FromEnter, Ends
<1>2. CASE SuspendOne(p) \/ SuspendDone(p) \/ ResumeOne(p) \/ ResumeDone(p)
  <2>1. \E g : MovesWithin(p, g) /\ g.pc # "switch"
      BY <1>2, SuspendMoves DEF FromSuspend
  <2> QED BY <2>1
<1>3. CASE Notify(p) \/ SwitchMachThread(p)
    BY <1>3, NotifyMoves DEF MovesWithin, SameCrash
<1>4. CASE Records(p)
    BY <1>4, RecordMoves DEF Writes
<1>5. CASE Post(p)
    BY <1>5, PostMoves DEF FromPost
<1> QED BY <1>1, <1>2, <1>3, <1>4, <1>5 DEF Moving

LEMMA FramesMoved ==
    ASSUME TypeOK, FramesInv, NEW p \in Procs, Moving(p)
    PROVE  FramesInv'
<1>0. /\ stack \in Stacks /\ stack[p] # <<>> /\ UNCHANGED trapped /\ p \notin trapped
      /\ Len(stack[p]) \in Levels(p) /\ Top(p) = Fr(p, Len(stack[p]))
      /\ Procs = Threads \cup MachThreads
    BY MovingShape, TopAt DEF Runnable, Procs
<1>1. \A m \in MachThreads : 1 \in 1..Len(stack'[m]) => mach'[m] = mach[m]
  <2> SUFFICES ASSUME NEW m \in MachThreads, 1 \in 1..Len(stack'[m]), mach'[m] # mach[m]
               PROVE  FALSE
      OBVIOUS
  <2>1. m \in Procs /\ ~Terminated(m)
      BY <1>0 DEF Terminated
  <2>2. SwitchMachThread(p) /\ m = Secondary /\ mach[m] = "suspended"
      BY <2>1, MovingMach
  <2>3. PICK g : MovesWithin(p, g)
      BY <2>2, NotifyMoves
  <2>4. 1 \in Levels(m)
      BY <1>0, <2>1, <2>3, AfterMove DEF MovesWithin
  <2> QED BY <2>2, <2>4 DEF FramesInv, MachStacks
<1>2. CASE Ends(p)
  <2>1. \A q \in Procs : \A k \in 1..Len(stack'[q]) :
           /\ k \in Levels(q) /\ Fr1(q, k) = Fr(q, k)
           /\ Len(stack'[q]) \in Nat /\ Len(stack'[q]) <= Len(stack[q])
    <3>1. \A q \in Procs : Len(stack[q]) \in Nat /\ Len(stack'[q]) \in {Len(stack[q]), Len(stack[q]) - 1}
        BY <1>0, <1>2 DEF Ends, PopsAt, OthersStay, Stacks
    <3>2. \A q \in Procs : \A k \in 1..Len(stack'[q]) : k \in Levels(q) /\ Fr1(q, k) = Fr(q, k)
        BY <1>0, <1>2, AfterEnd DEF Fr1
    <3> SUFFICES ASSUME NEW q \in Procs, NEW k \in 1..Len(stack'[q])
                 PROVE  Len(stack'[q]) \in Nat /\ Len(stack'[q]) <= Len(stack[q])
        BY <3>2
    <3> QED BY <3>1
  <2> QED BY <1>0, <1>1, <2>1, FramesStay
<1>3. CASE ~Ends(p)
  <2>1. PICK g : MovesWithin(p, g) /\ (g.pc = "switch" => g.kind = "mach")
      BY <1>3, MovingTo
  <2>2. Moves(p, g) /\ g.kind = Top(p).kind
      BY <2>1 DEF MovesWithin, SameCrash
  <2>3. \A q \in Procs : \A k \in 1..Len(stack'[q]) :
           /\ k \in Levels(q) /\ Fr1(q, k).kind = Fr(q, k).kind
           /\ \/ q = p /\ k = Len(stack[p]) /\ Fr1(q, k) = g
              \/ (q # p \/ k # Len(stack[p])) /\ Fr1(q, k) = Fr(q, k)
      BY <1>0, <2>2, AfterMove DEF Fr1
  <2>4. \A q \in Procs : \A k \in 1..Len(stack'[q]) : Len(stack'[q]) = Len(stack[q]) /\ Len(stack[q]) \in Nat
    <3> SUFFICES ASSUME NEW q \in Procs, NEW k \in 1..Len(stack'[q])
                 PROVE  Len(stack'[q]) = Len(stack[q]) /\ Len(stack[q]) \in Nat
        OBVIOUS
    <3>1. ~Terminated(q)
        BY DEF Terminated
    <3> QED BY <1>0, <2>2, <3>1 DEF Moves, Stacks
  <2>5. ASSUME NEW m \in MachThreads, NEW k \in 1..Len(stack'[m])
        PROVE  mach'[m] = "busy" /\ (Fr1(m, k).kind = IF k = 1 THEN "mach" ELSE "signal")
    <3>1. 1 \in 1..Len(stack'[m]) /\ m \in Procs
        BY <1>0, <2>4
    <3> QED BY <1>1, <2>3, <3>1 DEF FramesInv, MachStacks
  <2>6. \A t \in Threads : \A k \in 1..Len(stack'[t]) : Fr1(t, k).kind # "mach"
      BY <1>0, <2>3 DEF FramesInv, ThreadStacks
  <2>7. ASSUME NEW q \in Procs, NEW k \in 1..Len(stack'[q])
        PROVE  /\ Fr1(q, k).pc = "switch" => Fr1(q, k).kind = "mach"
               /\ k < Len(stack'[q]) \/ q \in trapped' => Fr1(q, k).pc \in HandlerPCs
    <3>1. CASE q = p /\ k = Len(stack[p]) /\ Fr1(q, k) = g
      <4>1. ~(k < Len(stack'[q])) /\ q \notin trapped'
          BY <1>0, <2>4, <3>1
      <4> QED BY <2>1, <3>1, <4>1
    <3>2. CASE Fr1(q, k) = Fr(q, k) /\ k \in Levels(q)
        BY <1>0, <2>4, <3>2 DEF FramesInv, SwitchesMach, FaultsInHandler
    <3> QED BY <2>3, <3>1, <3>2
  <2> QED BY <2>5, <2>6, <2>7, FramesPrime
<1> QED BY <1>2, <1>3

MachInv == /\ KnownEnabled /\ HookedKnown /\ SecondaryAfter /\ HandedOver
           /\ HandlingNoted /\ BothKnown /\ OneAnnounces

\* An exception thread inside a handler finds the Mach monitor unhooked.
LEMMA NeverTrapsItself ==
    ASSUME TypeOK, FramesInv, MachInv, NEW p \in MachThreads, stack[p] # <<>>,
           Top(p).pc \in HandlerPCs
    PROVE  "mach" \notin hooked
<1>1. /\ p \in Procs /\ Len(stack[p]) \in Levels(p) /\ Top(p) = Fr(p, Len(stack[p]))
      /\ Len(stack[p]) \in Nat \ {0}
    BY TopAt DEF TypeOK, Stacks, Procs
<1>2. 1 \in Levels(p)
    BY <1>1 DEF Levels
<1>3. Fr(p, 1).pc \in HandlerPCs
    BY <1>1, <1>2 DEF FramesInv, FaultsInHandler
<1>4. mach[p] = "busy"
    BY <1>2 DEF FramesInv, MachStacks
<1> QED BY <1>2, <1>3, <1>4 DEF MachInv, HandedOver, SecondaryAfter, OutermostAt, Serving, MachThreads

LEMMA FramesNew ==
    ASSUME TypeOK, FramesInv, NEW p \in Procs, NewEvent(p)
    PROVE  FramesInv'
<1>0. /\ stack \in Stacks /\ UNCHANGED mach /\ p \notin trapped /\ Procs = Threads \cup MachThreads
      /\ \A q \in Procs : Len(stack[q]) \in Nat
    BY DEF TypeOK, Stacks, NewEvent, Runnable, Procs
<1>1. \A k \in Levels(p) : Fr(p, k).pc \in HandlerPCs
  <2>1. CASE stack[p] = <<>>
      BY <2>1 DEF Levels
  <2>2. CASE stack[p] # <<>>
    <3>1. Top(p) = Fr(p, Len(stack[p])) /\ Top(p).pc \in HandlerPCs
        BY <1>0, <2>2, TopAt DEF NewEvent
    <3>2. \A k \in Levels(p) : k < Len(stack[p]) \/ k = Len(stack[p])
        BY <1>0 DEF Levels
    <3> QED BY <3>1, <3>2 DEF FramesInv, FaultsInHandler
  <2> QED BY <2>1, <2>2
<1>2. CASE stack' = stack
  <2>1. \A q \in Procs : \A k \in 1..Len(stack'[q]) : k \in Levels(q) /\ Fr1(q, k) = Fr(q, k)
      BY <1>2 DEF Levels, Fr1, Fr, Nth
  <2>2. trapped' \subseteq trapped \cup {p}
      BY <1>2 DEF NewEvent
  <2> QED BY <1>0, <1>1, <1>2, <2>1, <2>2, FramesPrime
          DEF FramesInv, MachStacks, ThreadStacks, SwitchesMach, FaultsInHandler
<1>3. ASSUME NEW f, Starts(p, f), trapped' = trapped, stack[p] # <<>> => f.kind = "signal"
      PROVE  FramesInv'
  <2>1. \A q \in Procs : \A k \in 1..Len(stack'[q]) :
           \/ q = p /\ k = Len(stack[p]) + 1 /\ Fr1(q, k) = f
           \/ k \in Levels(q) /\ Fr1(q, k) = Fr(q, k)
    <3>1. PushesAt(p, f) /\ OthersStay({p}) /\ stack \in Stacks
        BY <1>0, <1>3 DEF Starts
    <3> QED BY <3>1, AfterPush DEF Fr1
  <2>2. /\ Len(stack'[p]) = Len(stack[p]) + 1 /\ f.pc = "enter" /\ f.kind # "mach"
        /\ \A q \in Procs \ {p} : stack'[q] = stack[q]
      BY <1>3 DEF Starts, PushesAt, OthersStay, FreshFrame
  <2>3. p \in MachThreads => stack[p] # <<>> /\ mach[p] = "busy" /\ Len(stack[p]) + 1 # 1
    <3>1. p \in MachThreads => mach[p] = "busy" /\ p \notin Threads
        BY ConstantsAssumption DEF NewEvent, Runnable
    <3>2. p \in MachThreads => stack[p] # <<>>
        BY <3>1 DEF NewEvent
    <3>3. stack[p] # <<>> => Len(stack[p]) \in Nat \ {0}
        BY <1>0, TopAt
    <3> QED BY <3>1, <3>2, <3>3
  <2>4. ASSUME NEW m \in MachThreads, NEW k \in 1..Len(stack'[m])
        PROVE  mach'[m] = "busy" /\ (Fr1(m, k).kind = IF k = 1 THEN "mach" ELSE "signal")
    <3>1. CASE k \in Levels(m) /\ Fr1(m, k) = Fr(m, k)
        BY <1>0, <3>1 DEF FramesInv, MachStacks
    <3>2. CASE m = p /\ k = Len(stack[p]) + 1 /\ Fr1(m, k) = f
        BY <1>0, <1>3, <2>3, <3>2
    <3> QED BY <1>0, <2>1, <3>1, <3>2
  <2>5. \A t \in Threads : \A k \in 1..Len(stack'[t]) : Fr1(t, k).kind # "mach"
      BY <1>0, <2>1, <2>2 DEF FramesInv, ThreadStacks
  <2>6. ASSUME NEW q \in Procs, NEW k \in 1..Len(stack'[q])
        PROVE  /\ Fr1(q, k).pc = "switch" => Fr1(q, k).kind = "mach"
               /\ k < Len(stack'[q]) \/ q \in trapped' => Fr1(q, k).pc \in HandlerPCs
    <3>1. CASE q = p /\ k = Len(stack[p]) + 1 /\ Fr1(q, k) = f
        BY <1>0, <1>3, <2>2, <3>1
    <3>2. CASE q = p /\ k \in Levels(q) /\ Fr1(q, k) = Fr(q, k)
        BY <1>0, <1>1, <1>3, <3>2 DEF FramesInv, SwitchesMach
    <3>3. CASE q # p /\ k \in Levels(q) /\ Fr1(q, k) = Fr(q, k)
        BY <1>3, <2>2, <3>3 DEF FramesInv, SwitchesMach, FaultsInHandler
    <3> QED BY <2>1, <3>1, <3>2, <3>3
  <2> QED BY <2>4, <2>5, <2>6, FramesPrime
<1> QED BY <1>2, <1>3 DEF NewEvent

LEMMA FramesLeft ==
    ASSUME TypeOK, FramesInv, VictimsApart, NEW p \in Procs, Leaves(p)
    PROVE  /\ FramesInv'
           /\ MachReply(p) => /\ p \in MachThreads /\ Len(stack[p]) = 1 /\ Top(p) = Fr(p, 1)
                              /\ Top(p).subject \in trapped /\ Top(p).subject \in Threads
                              /\ 1 \in Levels(p) /\ stack'[p] = <<>>
<1>0. /\ stack \in Stacks /\ stack[p] # <<>> /\ p \notin trapped /\ Top(p).pc = "exit"
      /\ Procs = Threads \cup MachThreads /\ trapped \subseteq Procs /\ trapped' \subseteq trapped
      /\ \A q \in Procs : Len(stack[q]) \in Nat
      /\ p \in MachThreads => mach[p] = "busy"
  <2>1. stack[p] # <<>> /\ Top(p).pc = "exit" /\ Runnable(p) /\ trapped' \subseteq trapped
      BY LeaveShape
  <2> QED BY <2>1 DEF TypeOK, Stacks, Runnable, Procs
<1> DEFINE n == Len(stack[p])
<1>1. n \in Levels(p) /\ n \in Nat \ {0} /\ Top(p) = Fr(p, n)
    BY <1>0, TopAt
<1>2. MachReply(p) => /\ p \in MachThreads /\ n = 1 /\ Top(p) = Fr(p, 1)
                      /\ Top(p).subject \in trapped /\ Top(p).subject \in Threads
                      /\ 1 \in Levels(p) /\ Top(p).subject # p
  <2> HIDE DEF n
  <2> SUFFICES ASSUME MachReply(p)
               PROVE  /\ p \in MachThreads /\ n = 1 /\ Top(p) = Fr(p, 1)
                      /\ Top(p).subject \in trapped /\ Top(p).subject \in Threads
                      /\ 1 \in Levels(p) /\ Top(p).subject # p
      OBVIOUS
  <2>1. Top(p).kind = "mach"
      BY DEF MachReply, Leaving
  <2>2. p \in MachThreads
      BY <1>0, <1>1, <2>1 DEF FramesInv, ThreadStacks
  <2>3. n = 1
      BY <1>1, <2>1, <2>2 DEF FramesInv, MachStacks
  <2> QED BY <1>0, <1>1, <2>2, <2>3 DEF VictimsApart
<1>3. \A m \in MachThreads : m # p \/ ~MachReply(p) => mach'[m] = mach[m]
  <2>1. mach' = mach \/ mach' = [mach EXCEPT ![p] = "gone"]
      BY LeaveShape
  <2>2. ~MachReply(p) => mach' = mach
      BY LeaveShape
  <2> QED BY <2>1, <2>2 DEF TypeOK
<1>4. CASE Ends(p)
  <2>1. \A q \in Procs : \A k \in 1..Len(stack'[q]) : k \in Levels(q) /\ Fr1(q, k) = Fr(q, k)
      BY <1>0, <1>4, AfterEnd DEF Fr1
  <2>2. \A q \in Procs : Len(stack'[q]) \in {Len(stack[q]), Len(stack[q]) - 1} /\ Len(stack'[p]) = n - 1
      BY <1>0, <1>4 DEF Ends, PopsAt, OthersStay
  <2> HIDE DEF n
  <2>3. ASSUME NEW q \in Procs, NEW k \in 1..Len(stack'[q])
        PROVE  Len(stack'[q]) \in Nat /\ Len(stack'[q]) <= Len(stack[q])
      BY <1>0, <2>2
  <2>4. \A m \in MachThreads : 1 \in 1..Len(stack'[m]) => mach'[m] = mach[m]
      BY <1>2, <1>3, <2>2
  <2>5. FramesInv'
      BY <1>0, <2>1, <2>3, <2>4, FramesStay
  <2>6. MachReply(p) => stack'[p] = <<>>
    <3>1. MachReply(p) => Len(stack'[p]) = 0
        BY <1>2, <2>2
    <3> QED BY <1>2, <1>4, <3>1 DEF n
  <2> QED BY <1>2, <2>5, <2>6 DEF n
<1>5. ASSUME NEW g, Continues(p, g), Moves(p, g), OthersStay({p}),
             g.kind = "signal" \/ Top(p).kind = "nsthrow", ~MachReply(p) \/ Top(p).subject = p
      PROVE  FramesInv' /\ ~MachReply(p)
  <2>1. ~MachReply(p) /\ Top(p).kind # "mach"
      BY <1>2, <1>5, LeaveShape
  <2>2. \A q \in Procs : \A k \in 1..Len(stack'[q]) :
           /\ k \in Levels(q) /\ Len(stack'[q]) = Len(stack[q])
           /\ \/ q = p /\ k = n /\ Fr1(q, k) = g
              \/ Fr1(q, k) = Fr(q, k)
    <3>1. \A q \in Procs : Len(stack'[q]) = Len(stack[q])
        BY <1>5 DEF Moves, OthersStay
    <3> QED BY <1>0, <1>5, <3>1, AfterMove DEF Fr1
  <2>3. g.pc = "enter" /\ g.kind # "mach" /\ g.kind \in {"signal", "nsexception"}
      BY <1>5 DEF Continues, FreshFrame
  <2> HIDE DEF n
  <2>4. p \in MachThreads => n # 1 /\ g.kind = "signal"
      BY <1>1, <1>5, <2>1 DEF FramesInv, MachStacks
  <2>5. \A m \in MachThreads : \A k \in 1..Len(stack'[m]) :
           mach'[m] = "busy" /\ (Fr1(m, k).kind = IF k = 1 THEN "mach" ELSE "signal")
      BY <1>0, <1>3, <2>1, <2>2, <2>4 DEF FramesInv, MachStacks
  <2>6. \A t \in Threads : \A k \in 1..Len(stack'[t]) : Fr1(t, k).kind # "mach"
      BY <1>0, <2>2, <2>3 DEF FramesInv, ThreadStacks
  <2>7. ASSUME NEW q \in Procs, NEW k \in 1..Len(stack'[q])
        PROVE  /\ Fr1(q, k).pc = "switch" => Fr1(q, k).kind = "mach"
               /\ k < Len(stack'[q]) \/ q \in trapped' => Fr1(q, k).pc \in HandlerPCs
    <3>1. CASE q = p /\ k = n /\ Fr1(q, k) = g
        BY <1>0, <2>2, <2>3, <3>1 DEF n
    <3>2. CASE Fr1(q, k) = Fr(q, k)
        BY <1>0, <2>2, <3>2 DEF FramesInv, SwitchesMach, FaultsInHandler
    <3> QED BY <2>2, <3>1, <3>2
  <2> QED BY <2>1, <2>5, <2>6, <2>7, FramesPrime
<1>6. ASSUME NEW g, Continues(p, g), g.kind = "signal", MachReply(p),
             Top(p).subject \in Procs \ {p}, HandsTo(p, Top(p).subject, g)
      PROVE  FramesInv' /\ stack'[p] = <<>>
  <2> DEFINE v == Top(p).subject
  <2>0. v \in Threads /\ v # p /\ v \in trapped /\ v \in Procs /\ n = 1 /\ trapped' = trapped \ {v}
        /\ v \notin MachThreads
      BY <1>2, <1>6, ConstantsAssumption DEF MachReply
  <2>1. \A q \in Procs : \A k \in 1..Len(stack'[q]) :
           \/ q = v /\ k = Len(stack[v]) + 1 /\ Fr1(q, k) = g
           \/ k \in Levels(q) /\ Fr1(q, k) = Fr(q, k) /\ q # p
    <3>1. Len(stack'[p]) = 0
        BY <1>6, <2>0 DEF HandsTo, PopsAt
    <3> HIDE DEF v, n
    <3>2. HandsTo(p, v, g)
        BY <1>6 DEF v
    <3> QED BY <1>0, <2>0, <3>1, <3>2, AfterHand DEF Fr1
  <2>2. /\ Len(stack'[v]) = Len(stack[v]) + 1 /\ Len(stack'[p]) = n - 1
        /\ \A q \in Procs \ {p, v} : stack'[q] = stack[q]
      BY <1>6 DEF HandsTo, PopsAt, PushesAt, OthersStay
  <2>3. g.pc = "enter" /\ g.kind # "mach"
      BY <1>6 DEF Continues, FreshFrame
  <2> HIDE DEF v, n
  <2>4. \A m \in MachThreads : \A k \in 1..Len(stack'[m]) :
           mach'[m] = "busy" /\ (Fr1(m, k).kind = IF k = 1 THEN "mach" ELSE "signal")
      BY <1>0, <1>3, <2>0, <2>1 DEF FramesInv, MachStacks
  <2>5. \A t \in Threads : \A k \in 1..Len(stack'[t]) : Fr1(t, k).kind # "mach"
      BY <1>0, <2>1, <2>3 DEF FramesInv, ThreadStacks
  <2>6. ASSUME NEW q \in Procs, NEW k \in 1..Len(stack'[q])
        PROVE  /\ Fr1(q, k).pc = "switch" => Fr1(q, k).kind = "mach"
               /\ k < Len(stack'[q]) \/ q \in trapped' => Fr1(q, k).pc \in HandlerPCs
    <3>1. CASE q = v /\ k = Len(stack[v]) + 1 /\ Fr1(q, k) = g
      <4>1. ~(k < Len(stack'[q])) /\ q \notin trapped'
          BY <1>0, <2>0, <2>2, <3>1
      <4> QED BY <2>3, <3>1, <4>1
    <3>2. CASE q = v /\ k \in Levels(q) /\ Fr1(q, k) = Fr(q, k)
        BY <2>0, <3>2 DEF FramesInv, SwitchesMach, FaultsInHandler
    <3>3. CASE q # v /\ k \in Levels(q) /\ Fr1(q, k) = Fr(q, k) /\ q # p
        BY <1>0, <2>2, <3>3 DEF FramesInv, SwitchesMach, FaultsInHandler
    <3> QED BY <2>1, <3>1, <3>2, <3>3
  <2>7. FramesInv'
      BY <2>4, <2>5, <2>6, FramesPrime
  <2>8. Len(stack'[p]) = 0
      BY <2>0, <2>2
  <2> QED BY <2>7, <2>8
<1> QED BY <1>2, <1>4, <1>5, <1>6, LeaveShape

\* A cancelled thread, and one that takes a message.
LEMMA CancelShape ==
    ASSUME TypeOK, NEW p \in Procs, CancelledAtFile(p)
    PROVE  /\ stack[p] # <<>> /\ stack'[p] = <<>> /\ OthersStay({p}) /\ p \in cancelled
           /\ p \in MachThreads /\ mach' = [mach EXCEPT ![p] = "cancelled"]
           /\ UNCHANGED <<enabled, hooked, machKnown, flags, machHandling, port, trapped,
                          suspendCount, captured, events, reconfigs, dead>>
           /\ \A m \in MachThreads : mach'[m] = IF m = p THEN "cancelled" ELSE mach[m]
           /\ \A q \in Procs : \A k \in 1..Len(stack'[q]) :
                 q # p /\ k \in Levels(q) /\ Fr1(q, k) = Fr(q, k) /\ stack'[q] = stack[q]
<1>1. /\ stack[p] # <<>> /\ p \in cancelled /\ mach' = [mach EXCEPT ![p] = "cancelled"]
      /\ stack' = [stack EXCEPT ![p] = <<>>]
      /\ UNCHANGED <<enabled, hooked, machKnown, flags, machHandling, port, trapped,
                     suspendCount, captured, events, reconfigs, dead>>
    BY DEF CancelledAtFile, AtFile, At, monitors, kernel, bounds
<1>2. p \in MachThreads /\ stack \in Stacks /\ mach \in MachStates
    BY <1>1 DEF TypeOK, Stacks, MachStates
<1>3. stack'[p] = <<>> /\ OthersStay({p})
    BY <1>1, <1>2 DEF Stacks, OthersStay
<1>4. \A m \in MachThreads : mach'[m] = IF m = p THEN "cancelled" ELSE mach[m]
    BY <1>1, <1>2 DEF MachStates
<1>5. ASSUME NEW q \in Procs, NEW k \in 1..Len(stack'[q])
      PROVE  q # p /\ k \in Levels(q) /\ Fr1(q, k) = Fr(q, k) /\ stack'[q] = stack[q]
  <2>1. q # p
      BY <1>3
  <2>2. stack'[q] = stack[q]
      BY <1>3, <2>1 DEF OthersStay
  <2> QED BY <2>1, <2>2 DEF Fr1, Fr, Nth, Levels
<1> QED BY <1>1, <1>2, <1>3, <1>4, <1>5

LEMMA FramesReceived ==
    ASSUME TypeOK, FramesInv, VictimsApart, NEW m \in MachThreads, MachReceive(m)
    PROVE  FramesInv'
<1>0. /\ stack \in Stacks /\ m \notin trapped /\ UNCHANGED trapped /\ Procs = Threads \cup MachThreads
      /\ mach' = [mach EXCEPT ![m] = "busy"] /\ mach \in MachStates /\ m \notin Threads
    BY ConstantsAssumption DEF TypeOK, Stacks, Procs, MachReceive, VictimsApart, MachStates
<1>1. Len(stack'[m]) = 1 /\ \A q \in Procs \ {m} : stack'[q] = stack[q]
    BY ReceiveShape DEF OthersStay
<1> DEFINE f == Frame("mach", port[1].event, port[1].victim)
<1>2. \A q \in Procs : \A k \in 1..Len(stack'[q]) :
         \/ q = m /\ k = 1 /\ Fr1(q, k) = f
         \/ q # m /\ k \in Levels(q) /\ Fr1(q, k) = Fr(q, k)
    BY AfterReceive DEF Fr1
<1>3. f.kind = "mach" /\ f.pc = "enter"
    BY DEF Frame
<1> HIDE DEF f
<1>4. \A n \in MachThreads : mach'[n] = IF n = m THEN "busy" ELSE mach[n]
    BY <1>0 DEF MachStates
<1>5. ASSUME NEW n \in MachThreads, NEW k \in 1..Len(stack'[n])
      PROVE  mach'[n] = "busy" /\ (Fr1(n, k).kind = IF k = 1 THEN "mach" ELSE "signal")
    BY <1>0, <1>2, <1>3, <1>4 DEF FramesInv, MachStacks
<1>6. \A t \in Threads : \A k \in 1..Len(stack'[t]) : Fr1(t, k).kind # "mach"
    BY <1>0, <1>2 DEF FramesInv, ThreadStacks
<1>7. ASSUME NEW q \in Procs, NEW k \in 1..Len(stack'[q])
      PROVE  /\ Fr1(q, k).pc = "switch" => Fr1(q, k).kind = "mach"
             /\ k < Len(stack'[q]) \/ q \in trapped' => Fr1(q, k).pc \in HandlerPCs
  <2>1. CASE q = m /\ k = 1 /\ Fr1(q, k) = f
    <3>1. ~(k < Len(stack'[q]))
      <4>1. Len(stack'[q]) = 1 /\ k = 1
          BY <1>1, <2>1
      <4> QED BY <4>1
    <3>2. trapped' = trapped
        BY <1>0
    <3>3. q \notin trapped'
        BY <1>0, <2>1, <3>2
    <3> QED BY <1>3, <2>1, <3>1, <3>3
  <2>2. CASE q # m /\ k \in Levels(q) /\ Fr1(q, k) = Fr(q, k)
    <3>1. q \in trapped' => q \in trapped
        BY <1>0
    <3>2. k < Len(stack'[q]) => k < Len(stack[q])
        BY <1>1, <2>2
    <3> QED BY <2>2, <3>1, <3>2 DEF FramesInv, SwitchesMach, FaultsInHandler
  <2> QED BY <1>2, <2>1, <2>2
<1> QED BY <1>5, <1>6, <1>7, FramesPrime

\* Frames that stay in place, and what the exception threads are doing.
LEMMA FramesSame ==
    ASSUME TypeOK, FramesInv, trapped' \subseteq trapped,
           \A m \in MachThreads : 1 \in 1..Len(stack'[m]) => mach'[m] = mach[m],
           \A q \in Procs : \A k \in 1..Len(stack'[q]) : stack'[q] = stack[q]
    PROVE  FramesInv'
<1>1. ASSUME NEW q \in Procs, NEW k \in 1..Len(stack'[q])
      PROVE  /\ k \in Levels(q) /\ Fr1(q, k) = Fr(q, k)
             /\ Len(stack'[q]) \in Nat /\ Len(stack'[q]) <= Len(stack[q])
  <2>1. stack'[q] = stack[q] /\ Len(stack[q]) \in Nat
      BY DEF TypeOK
  <2> QED BY <2>1 DEF Fr1, Fr, Nth, Levels
<1> QED BY <1>1, FramesStay

LEMMA FramesNext == TypeOK /\ FramesInv /\ VictimsApart /\ [Next]_vars => FramesInv'
<1> SUFFICES ASSUME TypeOK, FramesInv, VictimsApart, [Next]_vars PROVE FramesInv'
    OBVIOUS
<1>0. stack \in Stacks /\ MachThreads \subseteq Procs
    BY DEF TypeOK, Stacks, Procs
<1>1. ASSUME NEW t \in Threads, Reconfigures(t) PROVE FramesInv'
  <2>1. \A q \in Procs : \A k \in 1..Len(stack'[q]) : stack'[q] = stack[q] /\ ~Terminated(q) /\ k \in Levels(q)
    <3>1. StacksStay
        BY <1>1, ReconfigurationStays
    <3> QED BY <3>1, AfterStay DEF Terminated
  <2>2. ASSUME NEW m \in MachThreads, 1 \in 1..Len(stack'[m]) PROVE mach'[m] = mach[m]
    <3>1. mach[m] = "busy" /\ ~Terminated(m)
        BY <1>0, <2>1, <2>2 DEF FramesInv, MachStacks
    <3>2. ~Installs
        BY <1>1, <3>1, ReconfigurationFacts
    <3>3. \/ \E types \in SUBSET Monitors : \E failing : SwitchMonitors(types, t, failing, stack)
          \/ mach' = mach
        BY <1>1, <3>2, ReconfigurationFacts
    <3>4. t \in Procs
        BY DEF Procs
    <3> QED BY <3>1, <3>2, <3>3, <3>4, SetActiveFacts
  <2>3. trapped' = trapped
      BY <1>1, ReconfigurationFacts
  <2> QED BY <2>1, <2>2, <2>3, FramesSame
<1>2. ASSUME NEW p \in Procs, NewEvent(p) PROVE FramesInv'
    BY <1>2, FramesNew
<1>3. ASSUME NEW p \in Procs, Moving(p) PROVE FramesInv'
    BY <1>3, FramesMoved
<1>4. ASSUME NEW p \in Procs, Leaves(p) PROVE FramesInv'
    BY <1>4, FramesLeft
<1>5. ASSUME NEW p \in Procs, CancelledAtFile(p) PROVE FramesInv'
  <2>1. trapped' = trapped /\ \A q \in Procs : \A k \in 1..Len(stack'[q]) : stack'[q] = stack[q] /\ q # p
      BY <1>5, CancelShape
  <2>2. \A m \in MachThreads : 1 \in 1..Len(stack'[m]) => mach'[m] = mach[m]
    <3>1. \A m \in MachThreads : m # p => mach'[m] = mach[m]
        BY <1>5, CancelShape
    <3> QED BY <1>0, <2>1, <3>1
  <2> QED BY <2>1, <2>2, FramesSame
<1>6. ASSUME NEW m \in MachThreads, MachReceive(m) PROVE FramesInv'
    BY <1>6, FramesReceived
<1>7. CASE UNCHANGED vars
  <2>1. stack' = stack /\ trapped' = trapped /\ mach' = mach
      BY <1>7 DEF vars, kernel
  <2> QED BY <2>1, FramesSame
<1> QED BY <1>1, <1>2, <1>3, <1>4, <1>5, <1>6, <1>7, StepCases

\* The messages and the exception threads of the next state.
LEMMA VictimsPrime ==
    ASSUME trapped' \cap MachThreads = {},
           \A i \in 1..Len(port') : port'[i].victim \in trapped',
           \A i, j \in 1..Len(port') : port'[i].victim = port'[j].victim => i = j,
           \A m \in MachThreads : 1 \in 1..Len(stack'[m]) =>
              /\ Fr1(m, 1).subject \in trapped'
              /\ \A i \in 1..Len(port') : port'[i].victim # Fr1(m, 1).subject
              /\ \A n \in MachThreads :
                    1 \in 1..Len(stack'[n]) /\ Fr1(n, 1).subject = Fr1(m, 1).subject => m = n
    PROVE  VictimsApart'
BY DEF VictimsApart, Fr1, Fr, Nth, Levels

LEMMA VictimsKept ==
    ASSUME VictimsApart, UNCHANGED <<port, trapped>>,
           \A m \in MachThreads : 1 \in 1..Len(stack'[m]) =>
              1 \in Levels(m) /\ Fr1(m, 1).subject = Fr(m, 1).subject
    PROVE  VictimsApart'
BY VictimsPrime DEF VictimsApart

LEMMA VictimsNew ==
    ASSUME TypeOK, FramesInv, MachInv, VictimsApart, NEW p \in Procs, NewEvent(p)
    PROVE  VictimsApart'
<1>0. /\ stack \in Stacks /\ p \notin trapped /\ MachThreads \subseteq Procs
      /\ \A q \in Procs : Len(stack[q]) \in Nat
      /\ Len(port) \in Nat /\ port \in Seq([victim : Procs, event : Events])
    BY DEF TypeOK, Stacks, NewEvent, Runnable, Procs
<1>1. p \in MachThreads => stack[p] # <<>> /\ Len(stack[p]) \in Nat \ {0}
  <2>1. p \in MachThreads => stack[p] # <<>>
      BY ConstantsAssumption DEF NewEvent
  <2> QED BY <1>0, <2>1, TopAt
<1>2. CASE stack' = stack /\ UNCHANGED <<trapped, port>>
  <2>1. \A m \in MachThreads : 1 \in 1..Len(stack'[m]) =>
           1 \in Levels(m) /\ Fr1(m, 1).subject = Fr(m, 1).subject
      BY <1>2 DEF Levels, Fr1, Fr, Nth
  <2> QED BY <1>2, <2>1, VictimsKept
<1>3. ASSUME NEW f, Starts(p, f), UNCHANGED <<trapped, port>> PROVE VictimsApart'
  <2>1. PushesAt(p, f) /\ OthersStay({p})
      BY <1>3 DEF Starts
  <2>2. \A m \in MachThreads : 1 \in 1..Len(stack'[m]) => 1 \in Levels(m) /\ Fr1(m, 1) = Fr(m, 1)
    <3> SUFFICES ASSUME NEW m \in MachThreads, 1 \in 1..Len(stack'[m])
                 PROVE  1 \in Levels(m) /\ Fr1(m, 1) = Fr(m, 1)
        OBVIOUS
    <3>1. \/ m = p /\ 1 = Len(stack[p]) + 1
          \/ 1 \in Levels(m) /\ Fr1(m, 1) = Fr(m, 1)
        BY <1>0, <2>1, AfterPush DEF Fr1
    <3>2. ~(m = p /\ 1 = Len(stack[p]) + 1)
        BY <1>1
    <3> QED BY <3>1, <3>2
  <2> QED BY <1>3, <2>2, VictimsKept
<1>4. CASE /\ stack' = stack /\ "mach" \in hooked /\ trapped' = trapped \cup {p}
           /\ port' = Append(port, [victim |-> p, event |-> events + 1])
  <2>1. p \notin MachThreads
    <3> SUFFICES ASSUME p \in MachThreads PROVE FALSE
        OBVIOUS
    <3>1. Top(p).pc \in HandlerPCs
        BY <1>1 DEF NewEvent
    <3> QED BY <1>1, <1>4, <3>1, NeverTrapsItself
  <2>2. /\ Len(port') = Len(port) + 1 /\ \A i \in 1..Len(port) : port'[i] = port[i]
        /\ port'[Len(port) + 1].victim = p
      BY <1>0, <1>4
  <2>3. \A i \in 1..Len(port') : \/ i \in 1..Len(port) /\ port'[i].victim = port[i].victim
                                 \/ i = Len(port) + 1 /\ port'[i].victim = p
      BY <1>0, <2>2
  <2>4. \A m \in MachThreads : 1 \in 1..Len(stack'[m]) => 1 \in Levels(m) /\ Fr1(m, 1) = Fr(m, 1)
      BY <1>4 DEF Levels, Fr1, Fr, Nth
  <2>5. trapped' = trapped \cup {p} /\ trapped' \cap MachThreads = {}
      BY <1>4, <2>1 DEF VictimsApart
  <2>6. \A i \in 1..Len(port') : port'[i].victim \in trapped'
      BY <2>3, <2>5 DEF VictimsApart
  <2>7. \A i, j \in 1..Len(port') : port'[i].victim = port'[j].victim => i = j
      BY <1>0, <2>3 DEF VictimsApart
  <2>8. ASSUME NEW m \in MachThreads, 1 \in 1..Len(stack'[m])
        PROVE  /\ Fr1(m, 1).subject \in trapped'
               /\ \A i \in 1..Len(port') : port'[i].victim # Fr1(m, 1).subject
               /\ \A n \in MachThreads :
                     1 \in 1..Len(stack'[n]) /\ Fr1(n, 1).subject = Fr1(m, 1).subject => m = n
      BY <1>0, <2>3, <2>4, <2>5, <2>8 DEF VictimsApart
  <2> QED BY <2>5, <2>6, <2>7, <2>8, VictimsPrime
<1> QED BY <1>2, <1>3, <1>4 DEF NewEvent

LEMMA VictimsReceived ==
    ASSUME TypeOK, VictimsApart, NEW m \in MachThreads, MachReceive(m)
    PROVE  VictimsApart'
<1> DEFINE n == Len(port)
           f == Frame("mach", port[1].event, port[1].victim)
<1>0. UNCHANGED trapped /\ MachThreads \subseteq Procs
    BY DEF MachReceive, Procs
<1>1. n \in Nat \ {0} /\ Len(port') = n - 1 /\ \A i \in 1..(n - 1) : port'[i] = port[i + 1]
    BY ReceiveShape
<1>2. \A q \in Procs : \A k \in 1..Len(stack'[q]) :
         \/ q = m /\ k = 1 /\ Fr1(q, k) = f
         \/ q # m /\ k \in Levels(q) /\ Fr1(q, k) = Fr(q, k)
    BY AfterReceive DEF Fr1
<1>3. f.subject = port[1].victim
    BY DEF Frame
<1> HIDE DEF n, f
<1>4. /\ 1 \in 1..n
      /\ \A i \in 1..Len(port') : i \in Nat /\ i + 1 \in 1..n /\ i + 1 # 1 /\ port'[i] = port[i + 1]
    BY <1>1
<1>5. \A i \in 1..n : port[i].victim \in trapped
    BY DEF VictimsApart, n
<1>6. \A i, j \in 1..n : port[i].victim = port[j].victim => i = j
    BY DEF VictimsApart, n
<1>7. \A q \in MachThreads : 1 \in Levels(q) =>
          /\ Fr(q, 1).subject \in trapped
          /\ \A i \in 1..n : port[i].victim # Fr(q, 1).subject
          /\ \A r \in MachThreads :
                1 \in Levels(r) /\ Fr(r, 1).subject = Fr(q, 1).subject => q = r
    BY DEF VictimsApart, n
<1>8. trapped' \cap MachThreads = {}
    BY <1>0 DEF VictimsApart
<1>9. \A i \in 1..Len(port') : port'[i].victim \in trapped'
    BY <1>0, <1>4, <1>5
<1>10. ASSUME NEW i \in 1..Len(port'), NEW j \in 1..Len(port'), port'[i].victim = port'[j].victim
       PROVE  i = j
  <2>1. i + 1 = j + 1
      BY <1>4, <1>6, <1>10
  <2> QED BY <1>4, <2>1
<1>11. ASSUME NEW q \in MachThreads, 1 \in 1..Len(stack'[q])
       PROVE  /\ Fr1(q, 1).subject \in trapped'
              /\ \A i \in 1..Len(port') : port'[i].victim # Fr1(q, 1).subject
              /\ \A r \in MachThreads :
                    1 \in 1..Len(stack'[r]) /\ Fr1(r, 1).subject = Fr1(q, 1).subject => q = r
  <2>1. CASE q = m
    <3>1. Fr1(q, 1).subject = port[1].victim
        BY <1>0, <1>2, <1>3, <1>11, <2>1
    <3>2. \A i \in 1..Len(port') : port'[i].victim # port[1].victim
        BY <1>4, <1>6
    <3>3. \A r \in MachThreads :
             1 \in 1..Len(stack'[r]) /\ Fr1(r, 1).subject = port[1].victim => q = r
        BY <1>0, <1>2, <1>4, <1>7, <2>1
    <3> QED BY <1>0, <1>4, <1>5, <3>1, <3>2, <3>3
  <2>2. CASE q # m
    <3>1. 1 \in Levels(q) /\ Fr1(q, 1) = Fr(q, 1)
        BY <1>0, <1>2, <1>11, <2>2
    <3>2. \A i \in 1..Len(port') : port'[i].victim # Fr(q, 1).subject
        BY <1>4, <1>7, <3>1
    <3>3. \A r \in MachThreads :
             1 \in 1..Len(stack'[r]) /\ Fr1(r, 1).subject = Fr(q, 1).subject => q = r
        BY <1>0, <1>2, <1>3, <1>4, <1>7, <3>1
    <3> QED BY <1>0, <1>7, <3>1, <3>2, <3>3
  <2> QED BY <2>1, <2>2
<1> QED BY <1>8, <1>9, <1>10, <1>11, VictimsPrime

LEMMA VictimsLeft ==
    ASSUME TypeOK, FramesInv, VictimsApart, NEW p \in Procs, Leaves(p)
    PROVE  VictimsApart'
<1>0. stack \in Stacks /\ MachThreads \subseteq Procs /\ stack[p] # <<>> /\ port' = port
    BY LeaveShape DEF TypeOK, Stacks, Procs
<1>1. Len(stack[p]) \in Levels(p) /\ Len(stack[p]) \in Nat \ {0} /\ Top(p) = Fr(p, Len(stack[p]))
    BY <1>0, TopAt
<1>2. CASE MachReply(p)
  <2>1. /\ p \in MachThreads /\ Top(p) = Fr(p, 1) /\ 1 \in Levels(p) /\ stack'[p] = <<>>
        /\ Top(p).subject \in Threads
      BY <1>2, FramesLeft
  <2>2. trapped' = trapped \ {Top(p).subject}
      BY <1>2 DEF MachReply
  <2>3. \A m \in MachThreads : 1 \in 1..Len(stack'[m]) =>
           m # p /\ 1 \in Levels(m) /\ Fr1(m, 1) = Fr(m, 1)
    <3> SUFFICES ASSUME NEW m \in MachThreads, 1 \in 1..Len(stack'[m])
                 PROVE  m # p /\ 1 \in Levels(m) /\ Fr1(m, 1) = Fr(m, 1)
        OBVIOUS
    <3>1. m # p
        BY <2>1
    <3>2. m # Top(p).subject
        BY <2>1, ConstantsAssumption
    <3>3. OthersStay({p}) \/ OthersStay({p, Top(p).subject})
        BY <1>2, <2>1, ConstantsAssumption, LeaveShape DEF Ends, HandsTo
    <3>4. stack'[m] = stack[m]
        BY <1>0, <3>1, <3>2, <3>3 DEF OthersStay
    <3> QED BY <3>1, <3>4 DEF Fr1, Fr, Nth, Levels
  <2> DEFINE v == Top(p).subject
  <2>4. v = Fr(p, 1).subject
      BY <2>1
  <2> HIDE DEF v
  <2>5. trapped' = trapped \ {v}
      BY <2>2 DEF v
  <2>6. \A i \in 1..Len(port) : port[i].victim # v
      BY <2>1, <2>4 DEF VictimsApart
  <2>7. \A m \in MachThreads : m # p /\ 1 \in Levels(m) => Fr(m, 1).subject # v
      BY <2>1, <2>4 DEF VictimsApart
  <2> QED BY <1>0, <2>3, <2>5, <2>6, <2>7, VictimsPrime DEF VictimsApart
<1>3. CASE ~MachReply(p)
  <2>1. UNCHANGED trapped /\ Top(p).kind # "mach"
      BY <1>3, LeaveShape
  <2>2. p \in MachThreads => Len(stack[p]) # 1
      BY <1>1, <2>1 DEF FramesInv, MachStacks
  <2>3. ASSUME NEW m \in MachThreads, 1 \in 1..Len(stack'[m])
        PROVE  1 \in Levels(m) /\ Fr1(m, 1).subject = Fr(m, 1).subject
    <3>1. CASE Ends(p)
        BY <1>0, <2>3, <3>1, AfterEnd DEF Fr1
    <3>2. ASSUME NEW g, Moves(p, g) PROVE 1 \in Levels(m) /\ Fr1(m, 1) = Fr(m, 1)
      <4>1. /\ 1 \in Levels(m)
            /\ \/ m = p /\ 1 = Len(stack[p])
               \/ Fr1(m, 1) = Fr(m, 1)
          BY <1>0, <2>3, <3>2, AfterMove DEF Fr1
      <4> QED BY <2>2, <4>1
    <3> QED BY <1>3, <3>1, <3>2, LeaveShape
  <2> QED BY <1>0, <2>1, <2>3, VictimsKept
<1> QED BY <1>2, <1>3

LEMMA VictimsNext == TypeOK /\ FramesInv /\ MachInv /\ VictimsApart /\ [Next]_vars => VictimsApart'
<1> SUFFICES ASSUME TypeOK, FramesInv, MachInv, VictimsApart, [Next]_vars PROVE VictimsApart'
    OBVIOUS
<1>0. stack \in Stacks /\ MachThreads \subseteq Procs
    BY DEF TypeOK, Stacks, Procs
<1>1. ASSUME NEW t \in Threads, Reconfigures(t) PROVE VictimsApart'
  <2>1. StacksStay /\ UNCHANGED <<port, trapped>>
      BY <1>1, ReconfigurationStays, ReconfigurationFacts
  <2>2. \A m \in MachThreads : 1 \in 1..Len(stack'[m]) => 1 \in Levels(m) /\ Fr1(m, 1).subject = Fr(m, 1).subject
      BY <1>0, <2>1, AfterStay DEF Fr1
  <2> QED BY <2>1, <2>2, VictimsKept
<1>2. ASSUME NEW p \in Procs, NewEvent(p) PROVE VictimsApart'
    BY <1>2, VictimsNew
<1>3. ASSUME NEW p \in Procs, Moving(p) PROVE VictimsApart'
  <2>1. UNCHANGED <<port, trapped>> /\ stack[p] # <<>>
      BY <1>3, MovingShape
  <2>2. Top(p) = Fr(p, Len(stack[p]))
      BY <1>0, <2>1, TopAt
  <2>3. ASSUME NEW m \in MachThreads, 1 \in 1..Len(stack'[m])
        PROVE  1 \in Levels(m) /\ Fr1(m, 1).subject = Fr(m, 1).subject
    <3>1. CASE Ends(p)
        BY <1>0, <2>1, <2>3, <3>1, AfterEnd DEF Fr1
    <3>2. ASSUME NEW g, MovesWithin(p, g)
          PROVE  1 \in Levels(m) /\ Fr1(m, 1).subject = Fr(m, 1).subject
        BY <1>0, <2>1, <2>2, <2>3, <3>2, AfterMove DEF Fr1, MovesWithin, SameCrash
    <3> QED BY <1>3, <3>1, <3>2, MovingShape
  <2> QED BY <2>1, <2>3, VictimsKept
<1>4. ASSUME NEW p \in Procs, Leaves(p) PROVE VictimsApart'
    BY <1>4, VictimsLeft
<1>5. ASSUME NEW p \in Procs, CancelledAtFile(p) PROVE VictimsApart'
  <2>1. UNCHANGED <<port, trapped>> /\ \A q \in Procs : \A k \in 1..Len(stack'[q]) : k \in Levels(q) /\ Fr1(q, k) = Fr(q, k)
      BY <1>5, CancelShape
  <2> QED BY <1>0, <2>1, VictimsKept
<1>6. ASSUME NEW m \in MachThreads, MachReceive(m) PROVE VictimsApart'
    BY <1>6, VictimsReceived
<1>7. CASE UNCHANGED vars
  <2>1. stack' = stack /\ UNCHANGED <<port, trapped>>
      BY <1>7 DEF vars, kernel
  <2> QED BY <2>1, VictimsKept DEF Fr1, Fr, Nth, Levels
<1> QED BY <1>1, <1>2, <1>3, <1>4, <1>5, <1>6, <1>7, StepCases

\* The outermost frames of the exception threads in the next state, and what
\* must not change about them.
Out1(m, pcs) == 1 \in 1..Len(stack'[m]) /\ Fr1(m, 1).pc \in pcs
Over(m) == mach[m] \in {"gone", "cancelled"}
Over1(m) == mach'[m] \in {"gone", "cancelled"}
BeforeEnd == HandlerPCs \cup {"resume", "exit"}
PrimaryKept ==
    /\ Out1(Primary, HandlerPCs) => OutermostAt(Primary, HandlerPCs)
    /\ Out1(Primary, HandlerPCs \cup {"notify", "switch"}) =>
          OutermostAt(Primary, HandlerPCs \cup {"notify", "switch"})
    /\ OutermostAt(Primary, BeforeEnd) => Out1(Primary, BeforeEnd) \/ Over1(Primary)
    /\ Over(Primary) => Over1(Primary)
SecondaryKept ==
    /\ Out1(Secondary, HandlerPCs \cup {"switch"}) => OutermostAt(Secondary, HandlerPCs \cup {"switch"})
    /\ mach'[Secondary] \in {"waiting", "busy"} => Serving(Secondary)
HandlingKeptNoted ==
    Out1(Primary, HandlerPCs \cup {"notify", "switch"}) => (machHandling => machHandling')

LEMMA MachPrime ==
    ASSUME machKnown' = MachThreads => "mach" \in enabled',
           "mach" \in hooked' => machKnown' = MachThreads,
           mach'[Secondary] \in {"waiting", "busy"} =>
              "mach" \notin hooked' /\ (Over1(Primary) \/ Out1(Primary, BeforeEnd)),
           Out1(Primary, HandlerPCs) => "mach" \notin hooked',
           Out1(Primary, HandlerPCs \cup {"notify", "switch"}) => machHandling',
           mach'[Secondary] \in {"waiting", "busy"} /\ Out1(Primary, HandlerPCs) =>
              "mach" \in enabled' /\ machKnown' = MachThreads,
           Out1(Primary, HandlerPCs) => ~Out1(Secondary, HandlerPCs \cup {"switch"})
    PROVE  MachInv'
<1>1. KnownEnabled' /\ HookedKnown'
    BY DEF KnownEnabled, HookedKnown
<1>2. SecondaryAfter'
    BY DEF SecondaryAfter, Serving, Over1, Out1, BeforeEnd, OutermostAt, Levels, Fr, Fr1, Nth, HandlerPCs
<1>3. HandedOver' /\ HandlingNoted'
    BY DEF HandedOver, HandlingNoted, Out1, OutermostAt, Levels, Fr, Fr1, Nth, HandlerPCs
<1>4. BothKnown'
    BY DEF BothKnown, Serving, Out1, OutermostAt, Levels, Fr, Fr1, Nth, HandlerPCs, MachThreads
<1>5. OneAnnounces'
    BY DEF OneAnnounces, Out1, OutermostAt, Levels, Fr, Fr1, Nth, HandlerPCs
<1> QED BY <1>1, <1>2, <1>3, <1>4, <1>5 DEF MachInv

LEMMA MachKept ==
    ASSUME MachInv, PrimaryKept, SecondaryKept, HandlingKeptNoted, machKnown' = machKnown,
           "mach" \in enabled => "mach" \in enabled', "mach" \in hooked' => "mach" \in hooked
    PROVE  MachInv'
<1>1. machKnown' = MachThreads => "mach" \in enabled'
    BY DEF MachInv, KnownEnabled
<1>2. "mach" \in hooked' => machKnown' = MachThreads
    BY DEF MachInv, HookedKnown
<1>3. mach'[Secondary] \in {"waiting", "busy"} =>
         "mach" \notin hooked' /\ (Over1(Primary) \/ Out1(Primary, BeforeEnd))
    BY DEF MachInv, SecondaryAfter, PrimaryKept, SecondaryKept, Over, BeforeEnd
<1>4. Out1(Primary, HandlerPCs) => "mach" \notin hooked'
    BY DEF MachInv, HandedOver, PrimaryKept
<1>5. Out1(Primary, HandlerPCs \cup {"notify", "switch"}) => machHandling'
    BY DEF MachInv, HandlingNoted, PrimaryKept, HandlingKeptNoted
<1>6. mach'[Secondary] \in {"waiting", "busy"} /\ Out1(Primary, HandlerPCs) =>
         "mach" \in enabled' /\ machKnown' = MachThreads
    BY DEF MachInv, BothKnown, PrimaryKept, SecondaryKept
<1>7. Out1(Primary, HandlerPCs) => ~Out1(Secondary, HandlerPCs \cup {"switch"})
    BY DEF MachInv, OneAnnounces, PrimaryKept, SecondaryKept
<1> QED BY <1>1, <1>2, <1>3, <1>4, <1>5, <1>6, <1>7, MachPrime

\* A step that uninstalls the Mach monitor ends the other exception thread, if
\* both were handling a crash.
LEMMA MachDown ==
    ASSUME MachInv, PrimaryKept, SecondaryKept, HandlingKeptNoted, NEW p, NothingActive(p)
    PROVE  MachInv'
<1>1. machKnown' = MachThreads => "mach" \in enabled'
  <2>1. CASE "mach" \in enabled
    <3>1. machKnown' = machKnown \cap {p}
        BY <2>1 DEF NothingActive
    <3>2. Primary # Secondary
        BY ConstantsAssumption
    <3> QED BY <3>1, <3>2 DEF MachThreads
  <2>2. CASE "mach" \notin enabled
      BY <2>2 DEF NothingActive, MachInv, KnownEnabled
  <2> QED BY <2>1, <2>2
<1>2. "mach" \notin hooked'
    BY DEF NothingActive
<1>3. mach'[Secondary] \in {"waiting", "busy"} =>
         "mach" \notin hooked' /\ (Over1(Primary) \/ Out1(Primary, BeforeEnd))
    BY <1>2 DEF MachInv, SecondaryAfter, PrimaryKept, SecondaryKept, Over, BeforeEnd
<1>4. Out1(Primary, HandlerPCs \cup {"notify", "switch"}) => machHandling'
    BY DEF MachInv, HandlingNoted, PrimaryKept, HandlingKeptNoted
<1>5. ~(mach'[Secondary] \in {"waiting", "busy"} /\ Out1(Primary, HandlerPCs))
  <2> SUFFICES ASSUME mach'[Secondary] \in {"waiting", "busy"}, Out1(Primary, HandlerPCs)
               PROVE  FALSE
      OBVIOUS
  <2>1. OutermostAt(Primary, HandlerPCs) /\ Serving(Secondary)
      BY DEF PrimaryKept, SecondaryKept
  <2>2. "mach" \in enabled /\ machKnown = MachThreads
      BY <2>1 DEF MachInv, BothKnown
  <2>3. machHandling
      BY <2>1 DEF MachInv, HandlingNoted, OutermostAt
  <2>4. Terminated(Primary) \/ Terminated(Secondary)
      BY <2>2, <2>3, ConstantsAssumption DEF NothingActive, MachThreads
  <2>5. ~Terminated(Secondary)
      BY DEF Terminated
  <2>6. Terminated(Primary) => 1 \notin 1..Len(stack'[Primary])
      BY DEF Terminated
  <2> QED BY <2>4, <2>5, <2>6 DEF Out1
<1>6. Out1(Primary, HandlerPCs) => ~Out1(Secondary, HandlerPCs \cup {"switch"})
    BY DEF MachInv, OneAnnounces, PrimaryKept, SecondaryKept
<1> QED BY <1>1, <1>2, <1>3, <1>4, <1>5, <1>6, MachPrime

LEMMA FirstOfMany ==
    ASSUME NEW n \in Nat \ {0}, n # 1, NEW l, l = n \/ l = n - 1
    PROVE  1 \in 1..(n - 1) /\ 1 \in 1..n /\ 1 \in 1..l
OBVIOUS

\* An outermost frame that stays where it is, or goes with its thread.
OutStays(m) ==
    /\ 1 \in 1..Len(stack'[m]) => 1 \in Levels(m) /\ Fr1(m, 1).pc = Fr(m, 1).pc
    /\ 1 \in Levels(m) => 1 \in 1..Len(stack'[m]) \/ Over1(m)
    /\ mach'[m] = mach[m] \/ Over1(m)
LEMMA StaysIsKept ==
    /\ OutStays(Primary) => PrimaryKept
    /\ OutStays(Secondary) => SecondaryKept
<1>1. OutStays(Primary) => PrimaryKept
    BY DEF OutStays, PrimaryKept, Out1, OutermostAt, Over, Over1, BeforeEnd
<1>2. OutStays(Secondary) => SecondaryKept
    BY DEF OutStays, SecondaryKept, Out1, OutermostAt, Over1, Serving
<1> QED BY <1>1, <1>2

LEMMA MachStay ==
    ASSUME TypeOK, MachInv, \A m \in MachThreads : OutStays(m), machHandling' = machHandling,
           UNCHANGED <<enabled, hooked, machKnown>>
    PROVE  MachInv'
<1>1. PrimaryKept /\ SecondaryKept
    BY StaysIsKept DEF MachThreads
<1>2. HandlingKeptNoted
    BY DEF HandlingKeptNoted
<1> QED BY <1>1, <1>2, MachKept

LEMMA MachNew ==
    ASSUME TypeOK, FramesInv, MachInv, NEW p \in Procs, NewEvent(p)
    PROVE  MachInv'
<1>0. /\ stack \in Stacks /\ MachThreads \subseteq Procs
      /\ \A q \in Procs : Len(stack[q]) \in Nat
      /\ UNCHANGED <<mach, machHandling, enabled, hooked, machKnown>>
    BY DEF TypeOK, Stacks, NewEvent, Procs, monitors
<1>1. p \in MachThreads => Len(stack[p]) \in Nat \ {0}
  <2>1. p \in MachThreads => stack[p] # <<>>
      BY ConstantsAssumption DEF NewEvent
  <2> QED BY <1>0, <2>1, TopAt
<1>2. \A m \in MachThreads : OutStays(m)
  <2>1. CASE stack' = stack
      BY <1>0, <2>1 DEF OutStays, Fr1, Fr, Nth, Levels
  <2>2. ASSUME NEW f, Starts(p, f), NEW m \in MachThreads PROVE OutStays(m)
    <3>1. PushesAt(p, f) /\ OthersStay({p})
        BY <2>2 DEF Starts
    <3>2. CASE m # p
      <4>1. stack'[m] = stack[m]
          BY <1>0, <3>1, <3>2 DEF OthersStay
      <4> QED BY <1>0, <4>1 DEF OutStays, Fr1, Fr, Nth, Levels
    <3>3. CASE m = p
      <4>1. 1 \in Levels(p) /\ 1 \in 1..Len(stack'[p]) /\ Nth(stack', p, 1) = Fr(p, 1)
          BY <1>1, <3>1, <3>3 DEF PushesAt, Levels
      <4> QED BY <1>0, <3>3, <4>1 DEF OutStays, Fr1
    <3> QED BY <3>2, <3>3
  <2> QED BY <2>1, <2>2 DEF NewEvent
<1> QED BY <1>0, <1>2, MachStay

LEMMA MachLeft ==
    ASSUME TypeOK, FramesInv, VictimsApart, MachInv, NEW p \in Procs, Leaves(p)
    PROVE  MachInv'
<1>0. /\ stack \in Stacks /\ MachThreads \subseteq Procs /\ stack[p] # <<>>
      /\ UNCHANGED <<machHandling, enabled, hooked, machKnown>>
      /\ \A q \in Procs : Len(stack[q]) \in Nat
  <2>1. stack[p] # <<>> /\ UNCHANGED <<machHandling, monitors>>
      BY LeaveShape
  <2> QED BY <2>1 DEF TypeOK, Stacks, Procs, monitors
<1>1. Len(stack[p]) \in Levels(p) /\ Len(stack[p]) \in Nat \ {0} /\ Top(p) = Fr(p, Len(stack[p]))
    BY <1>0, TopAt
<1>2. ASSUME NEW m \in MachThreads, m # p, stack'[m] = stack[m], mach'[m] = mach[m] PROVE OutStays(m)
    BY <1>2 DEF OutStays, Fr1, Fr, Nth, Levels
<1>3. CASE MachReply(p)
  <2>1. /\ p \in MachThreads /\ stack'[p] = <<>> /\ Top(p).subject \in Threads
      BY <1>3, FramesLeft
  <2>2. mach' = [mach EXCEPT ![p] = "gone"]
      BY <1>3 DEF MachReply
  <2>3. ASSUME NEW m \in MachThreads, m # p PROVE stack'[m] = stack[m] /\ mach'[m] = mach[m]
    <3>1. m # Top(p).subject
        BY <2>1, ConstantsAssumption
    <3>2. OthersStay({p}) \/ OthersStay({p, Top(p).subject})
        BY <1>3, <2>1, ConstantsAssumption, LeaveShape DEF Ends, HandsTo
    <3> QED BY <1>0, <2>2, <2>3, <3>1, <3>2 DEF OthersStay, TypeOK
  <2>4. OutStays(p)
    <3>1. 1 \notin 1..Len(stack'[p])
        BY <2>1
    <3>2. mach'[p] = "gone"
        BY <2>1, <2>2 DEF TypeOK
    <3> QED BY <3>1, <3>2 DEF OutStays, Over1
  <2> QED BY <1>0, <1>2, <2>3, <2>4, MachStay
<1>4. CASE ~MachReply(p)
  <2>1. mach' = mach /\ Top(p).kind # "mach"
      BY <1>4, LeaveShape
  <2>2. p \in MachThreads => Len(stack[p]) # 1 /\ Len(stack[p]) \in Nat \ {0}
      BY <1>1, <2>1 DEF FramesInv, MachStacks
  <2>3. ASSUME OthersStay({p}),
               \/ Len(stack'[p]) = Len(stack[p])
               \/ Len(stack'[p]) = Len(stack[p]) - 1,
               \A k \in 1..(Len(stack[p]) - 1) : Nth(stack', p, k) = Fr(p, k)
        PROVE  \A m \in MachThreads : OutStays(m)
    <3> SUFFICES ASSUME NEW m \in MachThreads PROVE OutStays(m)
        OBVIOUS
    <3>1. CASE m # p
        BY <1>0, <1>2, <2>1, <2>3, <3>1 DEF OthersStay
    <3>2. CASE m = p
      <4>0. Len(stack[p]) # 1 /\ Len(stack[p]) \in Nat \ {0}
          BY <2>2, <3>2
      <4>1. 1 \in 1..(Len(stack[p]) - 1) /\ 1 \in Levels(p)
          BY <4>0, FirstOfMany DEF Levels
      <4>2. 1 \in 1..Len(stack'[p]) /\ Fr1(p, 1) = Fr(p, 1)
          BY <2>2, <2>3, <3>2, <4>1 DEF Fr1
      <4> QED BY <2>1, <3>2, <4>1, <4>2 DEF OutStays
    <3> QED BY <3>1, <3>2
  <2>4. Ends(p) => \A m \in MachThreads : OutStays(m)
      BY <2>3 DEF Ends, PopsAt
  <2>5. ASSUME NEW g, Moves(p, g), OthersStay({p}) PROVE \A m \in MachThreads : OutStays(m)
      BY <2>3, <2>5 DEF Moves
  <2>6. \A m \in MachThreads : OutStays(m)
      BY <1>4, <2>4, <2>5, LeaveShape
  <2> QED BY <1>0, <2>6, MachStay
<1> QED BY <1>3, <1>4

LEMMA MachCancelled ==
    ASSUME TypeOK, MachInv, NEW p \in Procs, CancelledAtFile(p)
    PROVE  MachInv'
<1>1. UNCHANGED <<machHandling, enabled, hooked, machKnown>>
    BY CancelShape
<1>2. ASSUME NEW m \in MachThreads PROVE OutStays(m)
  <2>1. mach'[m] = IF m = p THEN "cancelled" ELSE mach[m]
      BY CancelShape
  <2>2. CASE m = p
    <3>1. 1 \notin 1..Len(stack'[m])
        BY <2>2, CancelShape
    <3> QED BY <2>1, <2>2, <3>1 DEF OutStays, Over1
  <2>3. CASE m # p
    <3>1. stack'[m] = stack[m]
        BY <2>3, CancelShape DEF OthersStay, Procs
    <3> QED BY <2>1, <2>3, <3>1 DEF OutStays, Fr1, Fr, Nth, Levels
  <2> QED BY <2>2, <2>3
<1> QED BY <1>1, <1>2, MachStay

LEMMA MachReceived ==
    ASSUME TypeOK, FramesInv, MachInv, NEW m \in MachThreads, MachReceive(m)
    PROVE  MachInv'
<1>0. /\ mach[m] = "waiting" /\ mach' = [mach EXCEPT ![m] = "busy"] /\ mach \in MachStates
      /\ UNCHANGED <<machHandling, enabled, hooked, machKnown>> /\ MachThreads \subseteq Procs
    BY DEF MachReceive, TypeOK, MachStates, monitors, Procs
<1>1. \A n \in MachThreads : mach'[n] = IF n = m THEN "busy" ELSE mach[n]
    BY <1>0 DEF MachStates
<1>2. 1 \notin Levels(m)
    BY <1>0 DEF FramesInv, MachStacks
<1>3. \A q \in MachThreads : 1 \in 1..Len(stack'[q]) =>
         \/ q = m /\ Fr1(q, 1).pc = "enter"
         \/ q # m /\ 1 \in Levels(q) /\ Fr1(q, 1) = Fr(q, 1)
  <2> SUFFICES ASSUME NEW q \in MachThreads, 1 \in 1..Len(stack'[q])
               PROVE  \/ q = m /\ Fr1(q, 1).pc = "enter"
                      \/ q # m /\ 1 \in Levels(q) /\ Fr1(q, 1) = Fr(q, 1)
      OBVIOUS
  <2>1. Frame("mach", port[1].event, port[1].victim).pc = "enter"
      BY DEF Frame
  <2> QED BY <1>0, <2>1, AfterReceive DEF Fr1
<1>4. \A q \in MachThreads \ {m} : stack'[q] = stack[q]
    BY <1>0, ReceiveShape DEF OthersStay
<1>5. PrimaryKept
  <2>1. CASE m # Primary
    <3>1. OutStays(Primary)
        BY <1>1, <1>4, <2>1 DEF OutStays, Fr1, Fr, Nth, Levels, MachThreads
    <3> QED BY <3>1, StaysIsKept
  <2>2. CASE m = Primary
    <3>1. ~Over(Primary) /\ 1 \notin Levels(Primary)
        BY <1>0, <1>2, <2>2 DEF Over
    <3>2. 1 \in 1..Len(stack'[Primary]) => Fr1(Primary, 1).pc = "enter"
        BY <1>3, <2>2
    <3> QED BY <3>1, <3>2 DEF PrimaryKept, Out1, OutermostAt, HandlerPCs
  <2> QED BY <2>1, <2>2
<1>6. SecondaryKept
  <2>1. CASE m # Secondary
    <3>1. OutStays(Secondary)
        BY <1>1, <1>4, <2>1 DEF OutStays, Fr1, Fr, Nth, Levels, MachThreads
    <3> QED BY <3>1, StaysIsKept
  <2>2. CASE m = Secondary
    <3>1. Serving(Secondary)
        BY <1>0, <2>2 DEF Serving
    <3>2. 1 \in 1..Len(stack'[Secondary]) => Fr1(Secondary, 1).pc = "enter"
        BY <1>3, <2>2
    <3> QED BY <3>1, <3>2 DEF SecondaryKept, Out1, HandlerPCs
  <2> QED BY <2>1, <2>2
<1>7. HandlingKeptNoted
    BY <1>0 DEF HandlingKeptNoted
<1> QED BY <1>0, <1>5, <1>6, <1>7, MachKept

LEMMA MachReconfigured ==
    ASSUME TypeOK, FramesInv, MachInv, NEW t \in Threads, Reconfigures(t)
    PROVE  MachInv'
<1>0. /\ machHandling' = machHandling /\ MachThreads \subseteq Procs /\ t \in Procs
    BY ReconfigurationFacts DEF Procs
<1>1. CASE Installs
  <2>1. /\ \A m \in MachThreads : mach[m] # "busy"
        /\ mach' = InstalledThreads /\ machKnown' = MachThreads /\ "mach" \in enabled'
      BY <1>1, ReconfigurationFacts
  <2>2. ASSUME NEW m \in MachThreads, 1 \in 1..Len(stack'[m]) PROVE FALSE
    <3>1. 1 \in Levels(m)
        BY <1>0, <2>2, ReconfigurationStays, AfterStay
    <3> QED BY <2>1, <3>1 DEF FramesInv, MachStacks
  <2>3. mach'[Secondary] = "suspended"
      BY <2>1, ConstantsAssumption DEF InstalledThreads, MachThreads
  <2> QED BY <2>1, <2>2, <2>3, MachPrime DEF Out1, MachThreads
<1>3. CASE UNCHANGED <<enabled, hooked, machKnown, mach, stack>> /\ ~Installs
  <2>1. \A m \in MachThreads : OutStays(m)
      BY <1>3 DEF OutStays, Over1, Fr1, Fr, Nth, Levels
  <2>2. PrimaryKept /\ SecondaryKept /\ HandlingKeptNoted
      BY <1>0, <2>1, StaysIsKept DEF MachThreads, HandlingKeptNoted
  <2> QED BY <1>3, <2>2, MachKept
<1>2. CASE ~Installs /\ \E types \in SUBSET Monitors : \E failing : SwitchMonitors(types, t, failing, stack)
  <2>1. PICK types \in SUBSET Monitors : \E failing : SwitchMonitors(types, t, failing, stack)
      BY <1>2
  <2>2. PICK failing : SwitchMonitors(types, t, failing, stack)
      BY <2>1
  <2>3. /\ "mach" \in enabled' => "mach" \in types
        /\ "mach" \in types => "mach" \in enabled'
        /\ "mach" \in hooked' => "mach" \in hooked /\ "mach" \in types
        /\ Uninstalls(types) => machKnown' = machKnown \cap {t}
        /\ ~Uninstalls(types) => machKnown' = machKnown
        /\ \A m \in MachThreads : mach'[m] \in {mach[m], "gone"}
        /\ \A m \in MachThreads : (mach'[m] = mach[m] /\ stack'[m] = stack[m]) \/ Terminated(m)
        /\ Uninstalls(types) /\ machHandling => \A m \in machKnown \ {t} : Terminated(m)
      BY <1>0, <1>2, <2>2, SetActiveFacts
  <2>4. \A m \in MachThreads : OutStays(m)
      BY <2>3 DEF Terminated, OutStays, Over1, Fr1, Fr, Nth, Levels
  <2>5. PrimaryKept /\ SecondaryKept /\ HandlingKeptNoted
      BY <1>0, <2>4, StaysIsKept DEF MachThreads, HandlingKeptNoted
  <2>6. CASE "mach" \in types
    <3>1. ~Uninstalls(types)
        BY <2>6 DEF Uninstalls
    <3> QED BY <2>3, <2>5, <2>6, <3>1, MachKept
  <2>7. CASE "mach" \notin types
    <3>1. NothingActive(t)
      <4>1. "mach" \in enabled => Uninstalls(types)
          BY <2>7 DEF Uninstalls
      <4>2. "mach" \notin enabled => ~Uninstalls(types)
          BY DEF Uninstalls
      <4>3. \A m \in MachThreads : mach'[m] = mach[m] \/ Terminated(m)
          BY <2>3
      <4> QED BY <1>2, <2>3, <2>7, <4>1, <4>2, <4>3 DEF NothingActive
    <3> QED BY <2>5, <3>1, MachDown
  <2> QED BY <2>6, <2>7
<1> QED BY <1>1, <1>2, <1>3, ReconfigurationFacts

\* A moving step leaves the outermost frames alone but for its own.
LEMMA MovingOut ==
    ASSUME TypeOK, FramesInv, NEW p \in Procs, Moving(p), NEW m \in MachThreads,
           m # p \/ Len(stack[p]) # 1, ~(SwitchMachThread(p) /\ p = Primary)
    PROVE  OutStays(m)
<1>0. stack \in Stacks /\ stack[p] # <<>> /\ m \in Procs
    BY MovingShape DEF Procs
<1>1. Len(stack[p]) \in Nat \ {0}
    BY <1>0, TopAt
<1>2. mach'[m] = mach[m] \/ Terminated(m)
  <2>1. SwitchMachThread(p) => mach' = mach
      BY DEF SwitchMachThread
  <2> QED BY <2>1, MovingMach
<1>3. CASE Terminated(m)
  <2>1. 1 \notin 1..Len(stack'[m]) /\ Over1(m)
      BY <1>3 DEF Terminated, Over1
  <2> QED BY <2>1 DEF OutStays
<1>4. CASE ~Terminated(m) /\ m # p
  <2>1. stack'[m] = stack[m]
      BY <1>0, <1>4, MovingShape DEF MovesWithin, Moves, Ends, OthersStay
  <2> QED BY <1>2, <1>4, <2>1 DEF OutStays, Fr1, Fr, Nth, Levels
<1>5. CASE ~Terminated(m) /\ m = p
  <2>1. Len(stack[p]) # 1 /\ Len(stack[p]) \in Nat \ {0}
      BY <1>1, <1>5
  <2>2. 1 \in 1..(Len(stack[p]) - 1) /\ 1 \in Levels(p)
      BY <2>1, FirstOfMany DEF Levels
  <2>3. /\ Len(stack'[p]) = Len(stack[p]) \/ Len(stack'[p]) = Len(stack[p]) - 1
        /\ \A k \in 1..(Len(stack[p]) - 1) : Nth(stack', p, k) = Fr(p, k)
      BY MovingShape DEF MovesWithin, Moves, Ends, PopsAt
  <2>4. 1 \in 1..Len(stack'[p])
      BY <2>1, <2>3, FirstOfMany
  <2> QED BY <1>2, <1>5, <2>2, <2>3, <2>4 DEF OutStays, Fr1
<1> QED BY <1>3, <1>4, <1>5

\* Only an exception thread's outermost handler handles a Mach exception.
LEMMA OutermostIsMach ==
    ASSUME TypeOK, FramesInv, NEW p \in Procs, stack[p] # <<>>
    PROVE  /\ Top(p).kind = "mach" => p \in MachThreads /\ Len(stack[p]) = 1
           /\ p \in MachThreads /\ Len(stack[p]) = 1 =>
                 /\ Top(p).kind = "mach" /\ mach[p] = "busy" /\ 1 \in Levels(p) /\ Top(p) = Fr(p, 1)
<1>1. /\ Len(stack[p]) \in Levels(p) /\ Len(stack[p]) \in Nat \ {0} /\ Top(p) = Fr(p, Len(stack[p]))
    BY TopAt DEF TypeOK, Stacks
<1>2. p \in Threads \/ p \in MachThreads
    BY DEF Procs
<1> QED BY <1>1, <1>2 DEF FramesInv, MachStacks, ThreadStacks

LEMMA MachMovedOther ==
    ASSUME TypeOK, FramesInv, MachInv, NEW p \in Procs, Moving(p),
           ~(p \in MachThreads /\ Len(stack[p]) = 1)
    PROVE  MachInv'
<1>0. stack \in Stacks /\ stack[p] # <<>>
    BY MovingShape
<1>1. Top(p).kind # "mach"
    BY <1>0, OutermostIsMach
<1>2. ~SwitchMachThread(p)
  <2>1. Top(p) = Fr(p, Len(stack[p])) /\ Len(stack[p]) \in Levels(p)
      BY <1>0, TopAt
  <2> QED BY <1>1, <2>1 DEF SwitchMachThread, At, FramesInv, SwitchesMach
<1>3. \A m \in MachThreads : OutStays(m)
    BY <1>2, MovingOut
<1>4. PrimaryKept /\ SecondaryKept
    BY <1>3, StaysIsKept DEF MachThreads
<1>5. HandlingKeptNoted
    BY <1>1, MovingMach DEF HandlingKeptNoted
<1>6. NothingActive(p) \/ UNCHANGED <<enabled, hooked, machKnown, mach>>
    BY <1>2, MovingMach, NotifyMonitors
<1> QED BY <1>4, <1>5, <1>6, MachDown, MachKept

\* The outermost handler of an exception thread moves.
LEMMA OwnOutermost ==
    ASSUME TypeOK, FramesInv, NEW p \in MachThreads, Len(stack[p]) = 1, Moving(p)
    PROVE  /\ p \in Procs /\ mach[p] = "busy" /\ Top(p) = Fr(p, 1) /\ 1 \in Levels(p)
           /\ \A g : MovesWithin(p, g) =>
                 1 \in 1..Len(stack'[p]) /\ Fr1(p, 1) = g /\ mach'[p] = "busy" /\ g.kind = "mach"
           /\ Ends(p) => 1 \notin 1..Len(stack'[p])
           /\ (\E g : MovesWithin(p, g)) \/ (Enter(p) /\ Top(p).pc = "enter" /\ Ends(p))
<1>0. p \in Procs /\ stack \in Stacks /\ stack[p] # <<>>
    BY MovingShape DEF Procs
<1>1. Top(p).kind = "mach" /\ mach[p] = "busy" /\ 1 \in Levels(p) /\ Top(p) = Fr(p, 1)
    BY <1>0, OutermostIsMach
<1>2. ASSUME NEW g, MovesWithin(p, g)
      PROVE  1 \in 1..Len(stack'[p]) /\ Fr1(p, 1) = g /\ mach'[p] = "busy" /\ g.kind = "mach"
  <2>1. Len(stack'[p]) = 1 /\ Nth(stack', p, 1) = g /\ g.kind = "mach"
      BY <1>1, <1>2 DEF MovesWithin, Moves, SameCrash
  <2>2. 1 \in 1..Len(stack'[p]) /\ stack'[p] # <<>>
    <3>1. Len(<<>>) = 0
        OBVIOUS
    <3> QED BY <2>1, <3>1
  <2> QED BY <1>0, <1>1, <2>1, <2>2, MovingMach DEF Fr1, Terminated
<1>3. Ends(p) => 1 \notin 1..Len(stack'[p])
  <2>1. Ends(p) => Len(stack'[p]) = 0
      BY DEF Ends, PopsAt
  <2> QED BY <2>1
<1> QED BY <1>0, <1>1, <1>2, <1>3, MovingShape

\* Until the primary exception thread has switched, the secondary one sleeps.
LEMMA SecondarySleeps ==
    ASSUME TypeOK, FramesInv, MachInv, mach[Primary] \notin {"gone", "cancelled"},
           ~OutermostAt(Primary, BeforeEnd)
    PROVE  ~Serving(Secondary) /\ 1 \notin Levels(Secondary)
<1>1. ~Serving(Secondary)
    BY DEF MachInv, SecondaryAfter, BeforeEnd
<1>2. 1 \in Levels(Secondary) => mach[Secondary] = "busy"
    BY DEF FramesInv, MachStacks, MachThreads
<1> QED BY <1>1, <1>2 DEF Serving

LEMMA MachMovedPrimary ==
    ASSUME TypeOK, FramesInv, MachInv, Len(stack[Primary]) = 1, Moving(Primary)
    PROVE  MachInv'
<1> DEFINE f == Fr(Primary, 1)
           HPns == HandlerPCs \cup {"notify", "switch"}
<1>0. /\ Primary \in MachThreads /\ Secondary \in MachThreads /\ Primary # Secondary
      /\ Primary \in Procs /\ mach[Primary] = "busy" /\ Top(Primary) = f /\ 1 \in Levels(Primary)
      /\ stack[Primary] # <<>> /\ f.kind = "mach"
    BY OwnOutermost, MovingShape, OutermostIsMach, ConstantsAssumption DEF MachThreads
<1>1. \A g : MovesWithin(Primary, g) =>
         1 \in 1..Len(stack'[Primary]) /\ Fr1(Primary, 1) = g /\ mach'[Primary] = "busy" /\ g.kind = "mach"
    BY <1>0, OwnOutermost
<1>2. ~SwitchMachThread(Primary) => SecondaryKept
    BY <1>0, MovingOut, StaysIsKept
<1>3. ~Over(Primary) /\ (\A g : MovesWithin(Primary, g) => ~Over1(Primary))
    BY <1>0, <1>1 DEF Over, Over1
<1>4. ~Notify(Primary) /\ ~Post(Primary) /\ ~SwitchMachThread(Primary) =>
           UNCHANGED <<enabled, hooked, machKnown, mach>>
    BY <1>0, MovingMach
<1>5. f.pc \notin BeforeEnd => ~Serving(Secondary) /\ 1 \notin Levels(Secondary)
    BY <1>0, SecondarySleeps DEF OutermostAt
\* Before the switch the secondary thread sleeps.
<1>6. ASSUME f.pc \notin BeforeEnd, ~SwitchMachThread(Primary), ~Out1(Primary, HandlerPCs),
             Out1(Primary, HPns) => machHandling',
             NothingActive(Primary) \/ UNCHANGED <<enabled, hooked, machKnown, mach>>
      PROVE  MachInv'
  <2>1. mach'[Secondary] \notin {"waiting", "busy"}
      BY <1>2, <1>5, <1>6 DEF SecondaryKept
  <2>2. machKnown' = MachThreads => "mach" \in enabled'
    <3>1. CASE NothingActive(Primary)
      <4>1. "mach" \in enabled => machKnown' = machKnown \cap {Primary}
          BY <3>1 DEF NothingActive
      <4>2. "mach" \notin enabled => machKnown' = machKnown
          BY <3>1 DEF NothingActive
      <4> QED BY <1>0, <4>1, <4>2 DEF MachInv, KnownEnabled
    <3>2. CASE UNCHANGED <<enabled, hooked, machKnown, mach>>
        BY <3>2 DEF MachInv, KnownEnabled
    <3> QED BY <1>6, <3>1, <3>2
  <2>3. "mach" \in hooked' => machKnown' = MachThreads
      BY <1>6 DEF NothingActive, MachInv, HookedKnown
  <2> QED BY <1>6, <2>1, <2>2, <2>3, MachPrime
<1>7. CASE Enter(Primary)
  <2>1. ~SwitchMachThread(Primary) /\ ~Notify(Primary) /\ ~Post(Primary) /\ f.pc = "enter"
      BY <1>0, <1>7 DEF Enter, SwitchMachThread, Notify, Post, At
  <2>2. ~Out1(Primary, HPns)
    <3>1. CASE Ends(Primary)
        BY <1>0, <3>1, OwnOutermost DEF Out1
    <3>2. CASE ~Ends(Primary)
      <4>1. PICK g : MovesWithin(Primary, g) /\ FromEnter(f, g, Primary)
        <5>1. stack \in Stacks
            BY DEF TypeOK, Stacks
        <5> QED BY <1>0, <1>7, <3>2, <5>1, EnterMoves, PopOnly DEF Ends
      <4>2. g.pc \in {"suspend", "exit"}
          BY <1>0, <4>1 DEF FromEnter, Suspending, Notifying, Kinds, UserKinds
      <4> QED BY <1>1, <4>1, <4>2 DEF Out1, HandlerPCs
    <3> QED BY <3>1, <3>2
  <2>3. ~Out1(Primary, HandlerPCs)
      BY <2>2 DEF Out1
  <2> QED BY <1>4, <1>6, <2>1, <2>2, <2>3 DEF BeforeEnd, HandlerPCs
<1>8. CASE SuspendOne(Primary)
  <2>1. ~SwitchMachThread(Primary) /\ ~Notify(Primary) /\ ~Post(Primary) /\ f.pc = "suspend"
      BY <1>0, <1>8 DEF SuspendOne, SwitchMachThread, Notify, Post, At
  <2>2. PICK g : MovesWithin(Primary, g) /\ g.pc = "suspend"
      BY <1>0, <1>8, SuspendMoves
  <2>3. ~Out1(Primary, HPns) /\ ~Out1(Primary, HandlerPCs)
      BY <1>1, <2>2 DEF Out1, HandlerPCs
  <2> QED BY <1>4, <1>6, <2>1, <2>3 DEF BeforeEnd, HandlerPCs
<1>9. CASE SuspendDone(Primary)
  <2>1. ~SwitchMachThread(Primary) /\ ~Notify(Primary) /\ ~Post(Primary) /\ f.pc = "suspend"
      BY <1>0, <1>9 DEF SuspendDone, SwitchMachThread, Notify, Post, At
  <2>2. PICK g : MovesWithin(Primary, g) /\ FromSuspend(f, g, Primary) /\ g.pc # "suspend"
      BY <1>0, <1>9, SuspendMoves
  <2>3. g.pc = "notify"
      BY <1>0, <2>2 DEF FromSuspend, Notifying, Kinds, UserKinds
  <2>4. ~Out1(Primary, HandlerPCs)
      BY <1>1, <2>2, <2>3 DEF Out1, HandlerPCs
  <2>5. machHandling'
      BY <1>0, <1>9 DEF SuspendDone
  <2> QED BY <1>4, <1>6, <2>1, <2>4, <2>5 DEF BeforeEnd, HandlerPCs
<1>10. CASE Notify(Primary)
  <2>1. ~SwitchMachThread(Primary) /\ f.pc = "notify" /\ machHandling' = machHandling
      BY <1>0, <1>10 DEF Notify, SwitchMachThread, At
  <2>2. PICK g : MovesWithin(Primary, g) /\ g.pc = "switch"
      BY <1>0, <1>10, NotifyMoves
  <2>3. ~Out1(Primary, HandlerPCs)
      BY <1>1, <2>2 DEF Out1, HandlerPCs
  <2>4. machHandling
      BY <1>0, <2>1 DEF MachInv, HandlingNoted, OutermostAt
  <2> QED BY <1>0, <1>6, <1>10, <2>1, <2>3, <2>4, NotifyMonitors DEF BeforeEnd, HandlerPCs
<1>11. CASE SwitchMachThread(Primary)
  <2>1. f.pc = "switch" /\ UNCHANGED <<enabled, machKnown, machHandling>>
      BY <1>0, <1>11 DEF SwitchMachThread, At
  <2>2. PICK g : MovesWithin(Primary, g) /\ g.pc = "handle"
      BY <1>0, <1>11, NotifyMoves
  <2>3. Out1(Primary, HandlerPCs) /\ Out1(Primary, BeforeEnd)
      BY <1>1, <2>2 DEF Out1, HandlerPCs, BeforeEnd
  <2>4. "mach" \notin hooked'
    <3>1. CASE Primary \in machKnown
        BY <1>11, <3>1 DEF SwitchMachThread
    <3>2. CASE Primary \notin machKnown
        BY <1>0, <1>11, <3>2 DEF SwitchMachThread, MachInv, HookedKnown
    <3> QED BY <3>1, <3>2
  <2>5. machHandling'
      BY <1>0, <2>1 DEF MachInv, HandlingNoted, OutermostAt
  <2>6. ~Serving(Secondary) /\ 1 \notin Levels(Secondary)
      BY <1>5, <2>1 DEF BeforeEnd, HandlerPCs
  <2>7. mach'[Secondary] \in {"waiting", "busy"} => "mach" \in enabled' /\ machKnown' = MachThreads
    <3> SUFFICES ASSUME mach'[Secondary] \in {"waiting", "busy"}
                 PROVE  "mach" \in enabled' /\ machKnown' = MachThreads
        OBVIOUS
    <3>1. Primary \in machKnown /\ Secondary \in machKnown
        BY <1>11, <2>6 DEF SwitchMachThread, Serving
    <3>2. machKnown = MachThreads
        BY <3>1 DEF MachThreads, TypeOK
    <3> QED BY <2>1, <3>2 DEF MachInv, KnownEnabled
  <2>8. ~Out1(Secondary, HandlerPCs \cup {"switch"})
    <3>1. Moves(Primary, g)
        BY <2>2 DEF MovesWithin
    <3>2. stack \in Stacks /\ Secondary \in Procs
        BY <1>0 DEF TypeOK, Stacks, Procs
    <3>3. 1 \in 1..Len(stack'[Secondary]) => 1 \in Levels(Secondary)
        BY <1>0, <3>1, <3>2, AfterMove
    <3> QED BY <2>6, <3>3 DEF Out1
  <2>9. machKnown' = MachThreads => "mach" \in enabled'
      BY <2>1 DEF MachInv, KnownEnabled
  <2> QED BY <2>3, <2>4, <2>5, <2>7, <2>8, <2>9, MachPrime
<1>12. CASE Records(Primary) \/ ResumeOne(Primary) \/ ResumeDone(Primary)
  <2>1. ~SwitchMachThread(Primary) /\ ~Notify(Primary) /\ ~Post(Primary) /\ ~SuspendDone(Primary)
      BY <1>12 DEF SwitchMachThread, Notify, Post, SuspendDone, At, Records, ResumeOne, ResumeDone,
         Handle, NextPath, OpenReport, WriteReport, RenameReport, RewriteReport
  <2>2. PICK g : /\ MovesWithin(Primary, g)
                 /\ \/ f.pc \in HandlerPCs /\ g.pc \in HandlerPCs
                    \/ g.pc \in {"resume", "exit"}
    <3>1. CASE Records(Primary)
        BY <1>0, <3>1, RecordMoves DEF Writes, HandlerPCs
    <3>2. CASE ResumeOne(Primary) \/ ResumeDone(Primary)
        BY <1>0, <3>2, SuspendMoves
    <3> QED BY <1>12, <3>1, <3>2
  <2>3. PrimaryKept
      BY <1>0, <1>1, <1>3, <2>2 DEF PrimaryKept, Out1, OutermostAt, BeforeEnd, HandlerPCs
  <2>4. HandlingKeptNoted
      BY <1>0, <2>1, MovingMach DEF HandlingKeptNoted
  <2>5. UNCHANGED <<enabled, hooked, machKnown, mach>>
      BY <1>4, <2>1
  <2> QED BY <1>2, <2>1, <2>3, <2>4, <2>5, MachKept
<1>13. CASE Post(Primary)
  <2>1. ~SwitchMachThread(Primary)
      BY <1>13 DEF SwitchMachThread, Post, At
  <2>2. PICK g : MovesWithin(Primary, g) /\ g.pc \in {"resume", "exit"}
      BY <1>0, <1>13, PostMoves DEF FromPost
  <2>3. PrimaryKept
      BY <1>0, <1>1, <1>3, <2>2 DEF PrimaryKept, Out1, OutermostAt, BeforeEnd, HandlerPCs
  <2>4. HandlingKeptNoted
      BY <1>1, <2>2 DEF HandlingKeptNoted, Out1, HandlerPCs
  <2>5. NothingActive(Primary) \/ UNCHANGED <<enabled, hooked, machKnown, mach>>
      BY <1>0, <1>13, NotifyMonitors
  <2> QED BY <1>2, <2>1, <2>3, <2>4, <2>5, MachKept, MachDown
<1> QED BY <1>7, <1>8, <1>9, <1>10, <1>11, <1>12, <1>13 DEF Moving

\* A second fatal exception takes every handler away.
LEMMA RecrashEndsAll ==
    ASSUME TypeOK, FlagsInv, NEW p \in Procs, Notify(p), NEW q \in Procs, NEW k \in Levels(q),
           Announced(Fr(q, k))
    PROVE  NothingActive(p)
<1>1. handlingFatal \/ crashedDuring
    BY DEF FlagsInv, AnnouncedOnRecord
<1>2. crashedDuring'
    BY <1>1 DEF Notify
<1> DEFINE next == WithTop(stack, p, [Top(p) EXCEPT
                       !.pc = IF Top(p).kind = "mach" THEN "switch" ELSE "handle"])
<1>3. IF crashedDuring' THEN Uninstall(p, next) ELSE KeepMonitors(next)
    BY DEF Notify, OnNotify
<1> HIDE DEF next
<1> QED BY <1>2, <1>3, UninstallFacts

LEMMA MachMovedSecondary ==
    ASSUME TypeOK, FramesInv, MachInv, FlagsInv, Len(stack[Secondary]) = 1, Moving(Secondary)
    PROVE  MachInv'
<1> DEFINE f == Fr(Secondary, 1)
<1>0. /\ Primary \in MachThreads /\ Secondary \in MachThreads /\ Primary # Secondary
      /\ Secondary \in Procs /\ mach[Secondary] = "busy" /\ Top(Secondary) = f /\ 1 \in Levels(Secondary)
      /\ stack[Secondary] # <<>> /\ f.kind = "mach" /\ Serving(Secondary)
    BY OwnOutermost, MovingShape, OutermostIsMach, ConstantsAssumption DEF MachThreads, Serving
<1>1. \A g : MovesWithin(Secondary, g) =>
         1 \in 1..Len(stack'[Secondary]) /\ Fr1(Secondary, 1) = g
    BY <1>0, OwnOutermost
<1>2. PrimaryKept /\ OutStays(Primary)
    BY <1>0, MovingOut, StaysIsKept
<1>3. NothingActive(Secondary) \/ UNCHANGED <<enabled, hooked, machKnown, mach>>
  <2>1. SwitchMachThread(Secondary) => UNCHANGED <<enabled, hooked, machKnown, mach>>
      BY <1>0 DEF SwitchMachThread
  <2> QED BY <1>0, <2>1, MovingMach, NotifyMonitors
<1>4. OutermostAt(Primary, HandlerPCs \cup {"notify", "switch"}) => OutermostAt(Primary, HandlerPCs)
  <2> SUFFICES ASSUME OutermostAt(Primary, HandlerPCs \cup {"notify", "switch"})
               PROVE  OutermostAt(Primary, HandlerPCs)
      OBVIOUS
  <2>1. mach[Primary] = "busy"
      BY <1>0 DEF OutermostAt, FramesInv, MachStacks
  <2>2. OutermostAt(Primary, BeforeEnd)
      BY <1>0, <2>1 DEF MachInv, SecondaryAfter, BeforeEnd
  <2> QED BY <2>2 DEF OutermostAt, BeforeEnd, HandlerPCs
<1>5. HandlingKeptNoted
  <2>1. CASE ~Post(Secondary)
      BY <1>0, <2>1, MovingMach DEF HandlingKeptNoted
  <2>2. CASE Post(Secondary)
    <3>1. OutermostAt(Secondary, HandlerPCs \cup {"switch"})
        BY <1>0, <2>2 DEF Post, At, OutermostAt, HandlerPCs
    <3>2. ~OutermostAt(Primary, HandlerPCs)
        BY <3>1 DEF MachInv, OneAnnounces
    <3> QED BY <1>2, <1>4, <3>2 DEF PrimaryKept, HandlingKeptNoted
  <2> QED BY <2>1, <2>2
<1>6. mach'[Secondary] \in {"waiting", "busy"} => Serving(Secondary)
    BY <1>0
<1>7. CASE ~Notify(Secondary)
  <2>1. SecondaryKept
    <3>1. CASE Ends(Secondary)
        BY <1>0, <1>6, <3>1, OwnOutermost DEF SecondaryKept, Out1
    <3>2. CASE ~Ends(Secondary)
      <4>1. PICK g : /\ MovesWithin(Secondary, g)
                     /\ g.pc \in HandlerPCs \cup {"switch"} => f.pc \in HandlerPCs \cup {"switch"}
        <5>1. CASE Enter(Secondary)
          <6>1. stack \in Stacks
              BY DEF TypeOK, Stacks
          <6>2. PICK g : MovesWithin(Secondary, g) /\ FromEnter(f, g, Secondary)
              BY <1>0, <3>2, <5>1, <6>1, EnterMoves, PopOnly DEF Ends
          <6>3. g.pc \in {"suspend", "exit"}
              BY <1>0, <6>2 DEF FromEnter, Suspending, Notifying, Kinds, UserKinds
          <6> QED BY <6>2, <6>3 DEF HandlerPCs
        <5>2. CASE SuspendDone(Secondary)
          <6>1. PICK g : MovesWithin(Secondary, g) /\ FromSuspend(f, g, Secondary) /\ g.pc # "suspend"
              BY <1>0, <5>2, SuspendMoves
          <6>2. g.pc = "notify"
              BY <1>0, <6>1 DEF FromSuspend, Notifying, Kinds, UserKinds
          <6> QED BY <6>1, <6>2 DEF HandlerPCs
        <5>3. CASE SuspendOne(Secondary) \/ ResumeOne(Secondary) \/ ResumeDone(Secondary)
            BY <1>0, <5>3, SuspendMoves DEF HandlerPCs
        <5>4. CASE SwitchMachThread(Secondary)
            BY <1>0, <5>4, NotifyMoves
        <5>5. CASE Records(Secondary)
            BY <1>0, <5>5, RecordMoves DEF Writes, HandlerPCs
        <5>6. CASE Post(Secondary)
            BY <1>0, <5>6, PostMoves DEF FromPost, HandlerPCs
        <5> QED BY <1>7, <5>1, <5>2, <5>3, <5>4, <5>5, <5>6 DEF Moving
      <4> QED BY <1>0, <1>1, <1>6, <4>1 DEF SecondaryKept, Out1, OutermostAt
    <3> QED BY <3>1, <3>2
  <2> QED BY <1>2, <1>3, <1>5, <2>1, MachKept, MachDown
<1>8. CASE Notify(Secondary) /\ ~OutermostAt(Primary, HandlerPCs)
  <2>1. ~Out1(Primary, HandlerPCs) /\ ~Out1(Primary, HandlerPCs \cup {"notify", "switch"})
      BY <1>2, <1>4, <1>8 DEF PrimaryKept
  <2>2. machKnown' = MachThreads => "mach" \in enabled'
    <3>1. CASE NothingActive(Secondary)
      <4>1. "mach" \in enabled => machKnown' = machKnown \cap {Secondary}
          BY <3>1 DEF NothingActive
      <4>2. "mach" \notin enabled => machKnown' = machKnown
          BY <3>1 DEF NothingActive
      <4> QED BY <1>0, <4>1, <4>2 DEF MachInv, KnownEnabled
    <3>2. CASE UNCHANGED <<enabled, hooked, machKnown, mach>>
        BY <3>2 DEF MachInv, KnownEnabled
    <3> QED BY <1>3, <3>1, <3>2
  <2>3. "mach" \notin hooked
      BY <1>0 DEF MachInv, SecondaryAfter
  <2>4. "mach" \notin hooked'
      BY <1>3, <2>3 DEF NothingActive
  <2>5. Over1(Primary) \/ Out1(Primary, BeforeEnd)
      BY <1>0, <1>2 DEF MachInv, SecondaryAfter, PrimaryKept, Over, BeforeEnd
  <2> QED BY <2>1, <2>2, <2>4, <2>5, MachPrime
\* The second announcement ends the primary thread.
<1>9. CASE Notify(Secondary) /\ OutermostAt(Primary, HandlerPCs)
  <2>1. Primary \in Procs /\ 1 \in Levels(Primary) /\ Announced(Fr(Primary, 1))
    <3>1. 1 \in Levels(Primary) /\ Fr(Primary, 1).pc \in HandlerPCs
        BY <1>9 DEF OutermostAt
    <3>2. Fr(Primary, 1).kind = "mach"
        BY <1>0, <3>1 DEF FramesInv, MachStacks
    <3> QED BY <1>0, <3>1, <3>2 DEF Announced, Procs, Notifying, Kinds
  <2>2. NothingActive(Secondary)
      BY <1>0, <1>9, <2>1, RecrashEndsAll
  <2>3. "mach" \in enabled /\ machKnown = MachThreads /\ machHandling
      BY <1>0, <1>9 DEF MachInv, BothKnown, HandlingNoted, OutermostAt
  <2>4. Terminated(Primary)
      BY <1>0, <2>2, <2>3 DEF NothingActive
  <2>5. 1 \notin 1..Len(stack'[Primary]) /\ Over1(Primary)
      BY <2>4 DEF Terminated, Over1
  <2>6. machKnown' # MachThreads /\ "mach" \notin hooked'
      BY <1>0, <2>2, <2>3 DEF NothingActive
  <2> QED BY <2>5, <2>6, MachPrime DEF Out1
<1> QED BY <1>7, <1>8, <1>9

LEMMA MachNext ==
    TypeOK /\ FramesInv /\ VictimsApart /\ FlagsInv /\ MachInv /\ [Next]_vars => MachInv'
<1> SUFFICES ASSUME TypeOK, FramesInv, VictimsApart, FlagsInv, MachInv, [Next]_vars PROVE MachInv'
    OBVIOUS
<1>1. ASSUME NEW p \in Procs, Moving(p) PROVE MachInv'
  <2>1. CASE ~(p \in MachThreads /\ Len(stack[p]) = 1)
      BY <1>1, <2>1, MachMovedOther
  <2>2. CASE p = Primary /\ Len(stack[p]) = 1
      BY <1>1, <2>2, MachMovedPrimary
  <2>3. CASE p = Secondary /\ Len(stack[p]) = 1
      BY <1>1, <2>3, MachMovedSecondary
  <2> QED BY <2>1, <2>2, <2>3 DEF MachThreads
<1>2. CASE UNCHANGED vars
  <2>1. UNCHANGED <<stack, mach, machHandling, enabled, hooked, machKnown>>
      BY <1>2 DEF vars, monitors
  <2>2. \A m \in MachThreads : OutStays(m)
      BY <2>1 DEF OutStays, Fr1, Fr, Nth, Levels
  <2> QED BY <2>1, <2>2, MachStay
<1> QED BY <1>1, <1>2, StepCases, MachReconfigured, MachNew, MachLeft, MachCancelled, MachReceived

\* Every frame of the next state was there, begins, or is the innermost one of
\* the thread that moved.
LEMMA Origins ==
    ASSUME TypeOK, [Next]_vars, NEW q \in Procs, NEW k \in 1..Len(stack'[q])
    PROVE  \/ k \in Levels(q) /\ Fr1(q, k) = Fr(q, k)
           \/ Fr1(q, k).pc = "enter"
           \/ /\ Moving(q) /\ stack[q] # <<>> /\ k = Len(stack[q]) /\ k \in Levels(q)
              /\ Top(q) = Fr(q, k) /\ MovesWithin(q, Fr1(q, k))
<1> DEFINE Goal == \/ k \in Levels(q) /\ Fr1(q, k) = Fr(q, k)
                   \/ Fr1(q, k).pc = "enter"
                   \/ /\ Moving(q) /\ stack[q] # <<>> /\ k = Len(stack[q]) /\ k \in Levels(q)
                      /\ Top(q) = Fr(q, k) /\ MovesWithin(q, Fr1(q, k))
<1>0. stack \in Stacks
    BY DEF TypeOK, Stacks
<1>1. ASSUME NEW t \in Threads, Reconfigures(t) PROVE Goal
    BY <1>1, ReconfigurationStays, AfterStay DEF Fr1
<1>2. ASSUME NEW p \in Procs, NewEvent(p) PROVE Goal
  <2>1. CASE stack' = stack
      BY <2>1 DEF Fr1, Fr, Nth, Levels
  <2>2. ASSUME NEW f, Starts(p, f) PROVE Goal
    <3>1. PushesAt(p, f) /\ OthersStay({p}) /\ f.pc = "enter"
        BY <2>2 DEF Starts, FreshFrame
    <3> QED BY <1>0, <3>1, AfterPush DEF Fr1
  <2> QED BY <1>2, <2>1, <2>2 DEF NewEvent
<1>3. ASSUME NEW p \in Procs, Moving(p) PROVE Goal
  <2>0. stack[p] # <<>>
      BY <1>3, MovingShape
  <2>1. CASE Ends(p)
      BY <1>0, <2>0, <2>1, AfterEnd DEF Fr1
  <2>2. ASSUME NEW g, MovesWithin(p, g) PROVE Goal
    <3>1. /\ k \in Levels(q)
          /\ \/ q = p /\ k = Len(stack[p]) /\ Fr1(q, k) = g
             \/ Fr1(q, k) = Fr(q, k)
        BY <1>0, <2>0, <2>2, AfterMove DEF Fr1, MovesWithin
    <3>2. Top(p) = Fr(p, Len(stack[p]))
        BY <1>0, <2>0, TopAt
    <3> QED BY <1>3, <2>0, <2>2, <3>1, <3>2
  <2> QED BY <1>3, <2>1, <2>2, MovingShape
<1>4. ASSUME NEW p \in Procs, Leaves(p) PROVE Goal
  <2>0. stack[p] # <<>>
      BY <1>4, LeaveShape
  <2>1. CASE Ends(p)
      BY <1>0, <2>0, <2>1, AfterEnd DEF Fr1
  <2>2. ASSUME NEW g, Continues(p, g), Moves(p, g) PROVE Goal
      BY <1>0, <2>0, <2>2, AfterMove DEF Fr1, Continues, FreshFrame
  <2>3. ASSUME NEW g, Continues(p, g), Top(p).subject \in Procs \ {p}, HandsTo(p, Top(p).subject, g)
        PROVE  Goal
      BY <1>0, <2>0, <2>3, AfterHand DEF Fr1, Continues, FreshFrame
  <2> QED BY <1>4, <2>1, <2>2, <2>3, LeaveShape
<1>5. ASSUME NEW p \in Procs, CancelledAtFile(p) PROVE Goal
    BY <1>5, CancelShape
<1>6. ASSUME NEW m \in MachThreads, MachReceive(m) PROVE Goal
  <2>1. Frame("mach", port[1].event, port[1].victim).pc = "enter"
      BY DEF Frame
  <2> QED BY <1>6, <2>1, AfterReceive DEF Fr1
<1>7. ASSUME UNCHANGED vars PROVE Goal
  <2>1. stack' = stack
      BY <1>7 DEF vars
  <2> QED BY <2>1 DEF Fr1, Fr, Nth, Levels
<1> HIDE DEF Goal
<1>8. \/ \E t \in Threads : Reconfigures(t)
      \/ \E p \in Procs : NewEvent(p) \/ Moving(p) \/ Leaves(p) \/ CancelledAtFile(p)
      \/ \E m \in MachThreads : MachReceive(m)
      \/ UNCHANGED vars
    BY StepCases
<1>9. Goal
    BY <1>1, <1>2, <1>3, <1>4, <1>5, <1>6, <1>7, <1>8
<1> QED BY <1>9 DEF Goal

\* What a moving step makes of the threads its frame has yet to suspend or resume.
LEMMA TodoMoves ==
    ASSUME TypeOK, SuspendsOthers, NEW p \in Procs, Moving(p), NEW g, MovesWithin(p, g)
    PROVE  /\ g.pc \in {"suspend", "resume"} => g.todo \subseteq Others(p) /\ g.kind \in Suspending
           /\ \A t \in Threads : Holds(g, p, t) =>
                 Holds(Top(p), p, t) \/ (SuspendOne(p) /\ t \notin g.todo /\ t \in Top(p).todo)
<1>0. stack \in Stacks /\ stack[p] # <<>>
    BY MovingShape
<1>1. Top(p) = Fr(p, Len(stack[p])) /\ Len(stack[p]) \in Levels(p) /\ Top(p) \in Frames
    BY <1>0, TopAt
<1>2. Top(p).pc \in {"suspend", "resume"} => Top(p).todo \subseteq Others(p) /\ Top(p).kind \in Suspending
    BY <1>1 DEF SuspendsOthers
<1>3. \A h : MovesWithin(p, h) => h = g
  <2>1. ASSUME NEW h, MovesWithin(p, h) PROVE Nth(stack', p, Len(stack[p])) = h
      BY <2>1 DEF MovesWithin, Moves
  <2> QED BY <2>1
<1>4. g.kind = Top(p).kind
    BY DEF MovesWithin, SameCrash
<1>5. CASE Enter(p)
  <2>1. FromEnter(Top(p), g, p)
    <3>1. ~(stack' = Popped(stack, p))
      <4> SUFFICES ASSUME stack' = Popped(stack, p) PROVE FALSE
          OBVIOUS
      <4>1. Len(stack'[p]) = Len(stack[p]) - 1 /\ Len(stack[p]) \in Nat
          BY <1>0, PoppedAt
      <4>2. Len(stack'[p]) = Len(stack[p])
          BY DEF MovesWithin, Moves
      <4> QED BY <4>1, <4>2
    <3> QED BY <1>3, <1>5, <3>1, EnterMoves
  <2> QED BY <1>4, <2>1 DEF FromEnter, Holds, HandlerPCs
<1>6. CASE SuspendOne(p)
  <2>1. PICK t \in Top(p).todo :
           Top(p).pc = "suspend" /\ g.pc = "suspend" /\ g.todo = Top(p).todo \ {t}
      BY <1>3, <1>6, SuspendMoves
  <2> QED BY <1>2, <1>4, <1>6, <2>1 DEF Holds, HandlerPCs
<1>7. CASE SuspendDone(p)
  <2>1. FromSuspend(Top(p), g, p) /\ g.pc # "suspend"
      BY <1>3, <1>7, SuspendMoves
  <2> QED BY <1>2, <1>4, <2>1 DEF FromSuspend, Holds, HandlerPCs
<1>8. CASE Notify(p) \/ SwitchMachThread(p)
  <2>1. Top(p).pc \in {"notify", "switch"} /\ g.pc \in {"switch", "handle"}
      BY <1>3, <1>8, NotifyMoves
  <2> QED BY <1>4, <2>1 DEF Holds, HandlerPCs
<1>9. CASE Records(p)
  <2>1. Writes(Top(p).pc, g.pc)
      BY <1>3, <1>9, RecordMoves
  <2>2. Top(p).pc \in HandlerPCs /\ g.pc \in HandlerPCs
      BY <2>1 DEF Writes, HandlerPCs
  <2> QED BY <1>4, <2>2 DEF Holds, HandlerPCs
<1>10. CASE Post(p)
  <2>1. FromPost(Top(p), g, p)
      BY <1>3, <1>10, PostMoves
  <2> QED BY <1>4, <2>1 DEF FromPost, Holds, HandlerPCs
<1>11. CASE ResumeOne(p)
  <2>1. PICK t \in Top(p).todo :
           Top(p).pc = "resume" /\ g.pc = "resume" /\ g.todo = Top(p).todo \ {t}
      BY <1>3, <1>11, SuspendMoves
  <2> QED BY <1>2, <1>4, <2>1 DEF Holds, HandlerPCs
<1>12. CASE ResumeDone(p)
  <2>1. g.pc = "exit"
      BY <1>3, <1>12, SuspendMoves
  <2> QED BY <2>1 DEF Holds, HandlerPCs
<1> QED BY <1>5, <1>6, <1>7, <1>8, <1>9, <1>10, <1>11, <1>12 DEF Moving

LEMMA SuspendsOthersNext == TypeOK /\ SuspendsOthers /\ [Next]_vars => SuspendsOthers'
<1> SUFFICES ASSUME TypeOK, SuspendsOthers, [Next]_vars PROVE SuspendsOthers'
    OBVIOUS
<1>1. ASSUME NEW q \in Procs, NEW k \in 1..Len(stack'[q]), Fr1(q, k).pc \in {"suspend", "resume"}
      PROVE  Fr1(q, k).todo \subseteq Others(q) /\ Fr1(q, k).kind \in Suspending
  <2>1. CASE k \in Levels(q) /\ Fr1(q, k) = Fr(q, k)
      BY <1>1, <2>1 DEF SuspendsOthers
  <2>2. CASE Moving(q) /\ MovesWithin(q, Fr1(q, k))
      BY <1>1, <2>2, TodoMoves
  <2>3. Fr1(q, k).pc # "enter"
      BY <1>1
  <2> QED BY <2>1, <2>2, <2>3, Origins
<1> QED BY <1>1 DEF SuspendsOthers, Fr1, Fr, Nth, Levels

\* The frames that hold a thread in the next state.
Holders1(t) == {pk \in Procs \X Nat :
                  pk[2] \in 1..Len(stack'[pk[1]]) /\ Holds(Fr1(pk[1], pk[2]), pk[1], t)}
LEMMA HoldersPrime == \A t : Holders(t)' = Holders1(t)
BY DEF Holders, Holders1, Levels, Fr, Fr1, Nth, Holds, Others, HandlerPCs

\* The suspend count of t has not fallen and nobody new holds t, or a new holder
\* has raised it, or it has fallen along with a holder.
CountFollows(t) ==
    \/ Holders1(t) \subseteq Holders(t) /\ suspendCount'[t] = suspendCount[t]
    \/ \E x : Holders1(t) \subseteq Holders(t) \cup {x} /\ suspendCount'[t] = suspendCount[t] + 1
    \/ \E x \in Holders(t) : /\ Holders1(t) \subseteq Holders(t) \ {x}
                             /\ suspendCount'[t] \in Nat /\ suspendCount'[t] >= suspendCount[t] - 1
LEMMA CountKept ==
    ASSUME NEW t \in Threads, suspendCount[t] \in Nat, IsFiniteSet(Holders(t)),
           Cardinality(Holders(t)) <= suspendCount[t], CountFollows(t)
    PROVE  IsFiniteSet(Holders1(t)) /\ Cardinality(Holders1(t)) <= suspendCount'[t]
<1> DEFINE H == Holders(t)
           H1 == Holders1(t)
<1>0. IsFiniteSet(H) /\ Cardinality(H) \in Nat
    BY FS_CardinalityType
<1>1. CASE H1 \subseteq H /\ suspendCount'[t] = suspendCount[t]
  <2>1. IsFiniteSet(H1) /\ Cardinality(H1) <= Cardinality(H)
      BY <1>0, <1>1, FS_Subset
  <2>2. Cardinality(H1) \in Nat
      BY <2>1, FS_CardinalityType
  <2> HIDE DEF H, H1
  <2>3. Cardinality(H1) <= suspendCount'[t]
      BY <1>0, <1>1, <2>1, <2>2 DEF H
  <2> QED BY <2>1, <2>3 DEF H1
<1>2. ASSUME NEW x, H1 \subseteq H \cup {x}, suspendCount'[t] = suspendCount[t] + 1
      PROVE  IsFiniteSet(H1) /\ Cardinality(H1) <= suspendCount'[t]
  <2>1. IsFiniteSet(H \cup {x}) /\ Cardinality(H \cup {x}) <= Cardinality(H) + 1
        /\ Cardinality(H \cup {x}) \in Nat
    <3>1. IsFiniteSet(H \cup {x}) /\ Cardinality(H \cup {x}) = IF x \in H THEN Cardinality(H) ELSE Cardinality(H) + 1
        BY <1>0, FS_AddElement
    <3> HIDE DEF H
    <3> QED BY <1>0, <3>1
  <2>2. IsFiniteSet(H1) /\ Cardinality(H1) <= Cardinality(H \cup {x})
      BY <1>2, <2>1, FS_Subset
  <2>3. Cardinality(H1) \in Nat
      BY <2>2, FS_CardinalityType
  <2>4. Cardinality(H) <= suspendCount[t]
      OBVIOUS
  <2> HIDE DEF H, H1
  <2> QED BY <1>0, <1>2, <2>1, <2>2, <2>3, <2>4
<1>3. ASSUME NEW x \in H, H1 \subseteq H \ {x}, suspendCount'[t] \in Nat,
             suspendCount'[t] >= suspendCount[t] - 1
      PROVE  IsFiniteSet(H1) /\ Cardinality(H1) <= suspendCount'[t]
  <2>1. IsFiniteSet(H \ {x}) /\ Cardinality(H \ {x}) = Cardinality(H) - 1
        /\ Cardinality(H \ {x}) \in Nat
    <3>1. IsFiniteSet(H \ {x}) /\ Cardinality(H \ {x}) = IF x \in H THEN Cardinality(H) - 1 ELSE Cardinality(H)
        BY <1>0, FS_RemoveElement
    <3>2. Cardinality(H \ {x}) \in Nat
        BY <3>1, FS_CardinalityType
    <3> HIDE DEF H
    <3> QED BY <1>3, <3>1, <3>2
  <2>2. IsFiniteSet(H1) /\ Cardinality(H1) <= Cardinality(H \ {x})
      BY <1>3, <2>1, FS_Subset
  <2>3. Cardinality(H1) \in Nat
      BY <2>2, FS_CardinalityType
  <2>4. Cardinality(H) <= suspendCount[t]
      OBVIOUS
  <2> HIDE DEF H, H1
  <2> QED BY <1>0, <1>3, <2>1, <2>2, <2>3, <2>4
<1> QED BY <1>1, <1>2, <1>3 DEF CountFollows

\* Only handlers suspend and resume.
LEMMA OnlyMovingSuspends ==
    ASSUME TypeOK, [Next]_vars
    PROVE  \/ suspendCount' = suspendCount
           \/ \E p \in Procs : Moving(p) /\ (SuspendOne(p) \/ ResumeOne(p))
<1>1. \A t \in Threads : Reconfigures(t) => suspendCount' = suspendCount
    BY Reconfigured
<1>2. \A p \in Procs : NewEvent(p) => suspendCount' = suspendCount
    BY DEF NewEvent
<1>3. \A p \in Procs : Leaves(p) => suspendCount' = suspendCount
    BY LeaveShape
<1>4. \A p \in Procs : CancelledAtFile(p) => suspendCount' = suspendCount
    BY CancelShape
<1>5. \A m \in MachThreads : MachReceive(m) => suspendCount' = suspendCount
    BY DEF MachReceive
<1>6. \A p \in Procs : Moving(p) => suspendCount' = suspendCount \/ SuspendOne(p) \/ ResumeOne(p)
    BY DEF Moving, Records, Enter, SuspendDone, Notify, SwitchMachThread,
           Handle, NextPath, OpenReport, WriteReport, RenameReport, RewriteReport, Post,
           ResumeDone, WriterStep
<1>7. UNCHANGED vars => suspendCount' = suspendCount
    BY DEF vars
<1>8. \/ \E t \in Threads : Reconfigures(t)
      \/ \E p \in Procs : NewEvent(p) \/ Moving(p) \/ Leaves(p) \/ CancelledAtFile(p)
      \/ \E m \in MachThreads : MachReceive(m)
      \/ UNCHANGED vars
    BY StepCases
<1> QED BY <1>1, <1>2, <1>3, <1>4, <1>5, <1>6, <1>7, <1>8

LEMMA HeldNext ==
    TypeOK /\ SuspendsOthers /\ HeldIsSuspended /\ [Next]_vars => HeldIsSuspended'
<1> SUFFICES ASSUME TypeOK, SuspendsOthers, HeldIsSuspended, [Next]_vars, NEW t \in Threads
             PROVE  IsFiniteSet(Holders1(t)) /\ Cardinality(Holders1(t)) <= suspendCount'[t]
    BY HoldersPrime DEF HeldIsSuspended
<1>0. stack \in Stacks /\ suspendCount \in [Threads -> Nat]
    BY DEF TypeOK, Stacks
\* Whoever holds t in the next state did before, unless it has just suspended it.
<1>2. ASSUME NEW q \in Procs, NEW k \in 1..Len(stack'[q]), Holds(Fr1(q, k), q, t)
      PROVE  \/ k \in Levels(q) /\ Holds(Fr(q, k), q, t)
             \/ /\ SuspendOne(q) /\ Moving(q) /\ k = Len(stack[q]) /\ k \in Levels(q)
                /\ t \notin Fr1(q, k).todo /\ t \in Top(q).todo /\ MovesWithin(q, Fr1(q, k))
  <2>1. CASE k \in Levels(q) /\ Fr1(q, k) = Fr(q, k)
      BY <1>2, <2>1
  <2>2. CASE /\ Moving(q) /\ stack[q] # <<>> /\ k = Len(stack[q]) /\ k \in Levels(q)
             /\ Top(q) = Fr(q, k) /\ MovesWithin(q, Fr1(q, k))
      BY <1>2, <2>2, TodoMoves
  <2>3. Fr1(q, k).pc # "enter"
      BY <1>2 DEF Holds, HandlerPCs
  <2> QED BY <2>1, <2>2, <2>3, Origins
<1>3. suspendCount[t] \in Nat /\ IsFiniteSet(Holders(t)) /\ Cardinality(Holders(t)) <= suspendCount[t]
    BY <1>0 DEF HeldIsSuspended
<1>4. CountFollows(t)
  <2>1. CASE suspendCount' = suspendCount
    <3>1. ASSUME NEW q \in Procs, SuspendOne(q) PROVE FALSE
      <4>1. PICK u \in Top(q).todo : u \in Threads /\ suspendCount' = [suspendCount EXCEPT ![u] = @ + 1]
          BY <3>1, SuspendMoves
      <4>2. suspendCount'[u] = suspendCount[u] + 1 /\ suspendCount[u] \in Nat
          BY <1>0, <4>1
      <4> QED BY <2>1, <4>2
    <3>2. Holders1(t) \subseteq Holders(t)
        BY <1>2, <3>1 DEF Holders1, Holders
    <3> QED BY <2>1, <3>2 DEF CountFollows
  <2>2. ASSUME NEW p \in Procs, Moving(p), SuspendOne(p) PROVE CountFollows(t)
    <3> DEFINE n == Len(stack[p])
    <3>0. stack[p] # <<>> /\ n \in Levels(p) /\ n \in Nat /\ Top(p) = Fr(p, n)
        BY <1>0, <2>2, MovingShape, TopAt
    <3>1. PICK u \in Top(p).todo : \E g :
             /\ MovesWithin(p, g) /\ g.todo = Top(p).todo \ {u} /\ u \in Threads
             /\ suspendCount' = [suspendCount EXCEPT ![u] = @ + 1]
        BY <2>2, SuspendMoves
    <3>2. PICK g : /\ MovesWithin(p, g) /\ g.todo = Top(p).todo \ {u}
                   /\ suspendCount' = [suspendCount EXCEPT ![u] = @ + 1]
        BY <3>1
    <3> HIDE DEF n
    <3>3. ASSUME NEW q \in Procs, NEW k \in 1..Len(stack'[q]), Holds(Fr1(q, k), q, t)
          PROVE  (k \in Levels(q) /\ Holds(Fr(q, k), q, t)) \/ (q = p /\ k = n /\ t = u)
      <4>1. CASE q # p
        <5>1. ~Terminated(q)
            BY DEF Terminated
        <5>2. stack'[q] = stack[q]
            BY <3>2, <4>1, <5>1 DEF MovesWithin, Moves
        <5> QED BY <3>3, <5>2 DEF Fr1, Fr, Nth, Levels
      <4>2. CASE q = p
        <5>1. CASE k \in Levels(q) /\ Holds(Fr(q, k), q, t)
            BY <5>1
        <5>2. CASE /\ k = Len(stack[q]) /\ k \in Levels(q)
                   /\ t \notin Fr1(q, k).todo /\ t \in Top(q).todo /\ MovesWithin(q, Fr1(q, k))
          <6>1. Fr1(q, k) = g
              BY <3>2, <4>2, <5>2 DEF MovesWithin, Moves
          <6> QED BY <3>2, <4>2, <5>2, <6>1 DEF n
        <5> QED BY <1>2, <3>3, <5>1, <5>2
      <4> QED BY <4>1, <4>2
    <3>4. CASE t # u
      <4>1. Holders1(t) \subseteq Holders(t)
          BY <3>3, <3>4 DEF Holders1, Holders
      <4> QED BY <1>0, <3>2, <3>4, <4>1 DEF CountFollows
    <3>5. CASE t = u
      <4>1. Holders1(t) \subseteq Holders(t) \cup {<<p, n>>}
          BY <3>3 DEF Holders1, Holders
      <4>2. suspendCount'[t] = suspendCount[t] + 1
          BY <1>0, <3>2, <3>5
      <4> QED BY <4>1, <4>2 DEF CountFollows
    <3> QED BY <3>4, <3>5
  <2>3. ASSUME NEW p \in Procs, Moving(p), ResumeOne(p) PROVE CountFollows(t)
    <3> DEFINE n == Len(stack[p])
    <3>0. stack[p] # <<>> /\ n \in Levels(p) /\ n \in Nat /\ Top(p) = Fr(p, n)
        BY <1>0, <2>3, MovingShape, TopAt
    <3>1. PICK u \in Top(p).todo : \E g :
             /\ MovesWithin(p, g) /\ g.todo = Top(p).todo \ {u} /\ u \in Threads
             /\ Top(p).pc = "resume" /\ g.pc = "resume"
             /\ suspendCount' = [suspendCount EXCEPT ![u] = IF @ > 0 THEN @ - 1 ELSE 0]
        BY <2>3, SuspendMoves
    <3>2. PICK g : /\ MovesWithin(p, g) /\ g.todo = Top(p).todo \ {u}
                   /\ Top(p).pc = "resume" /\ g.pc = "resume"
                   /\ suspendCount' = [suspendCount EXCEPT ![u] = IF @ > 0 THEN @ - 1 ELSE 0]
        BY <3>1
    <3>3. ~SuspendOne(p)
        BY <3>2 DEF SuspendOne, At
    <3>4. ASSUME NEW q \in Procs, NEW k \in 1..Len(stack'[q]), Holds(Fr1(q, k), q, t)
          PROVE  k \in Levels(q) /\ Holds(Fr(q, k), q, t) /\ ~(q = p /\ k = n /\ t = u)
      <4>1. CASE q # p
        <5>1. ~Terminated(q)
            BY DEF Terminated
        <5>2. stack'[q] = stack[q]
            BY <3>2, <4>1, <5>1 DEF MovesWithin, Moves
        <5> QED BY <3>4, <4>1, <5>2 DEF Fr1, Fr, Nth, Levels
      <4>2. CASE q = p
        <5>1. k \in Levels(q) /\ Holds(Fr(q, k), q, t)
            BY <1>2, <3>3, <3>4, <4>2
        <5>2. ~(k = n /\ t = u)
          <6> SUFFICES ASSUME k = n, t = u PROVE FALSE
              OBVIOUS
          <6>1. Fr1(q, k) = g
              BY <3>2, <4>2 DEF MovesWithin, Moves, Fr1
          <6> QED BY <3>2, <3>4, <6>1 DEF Holds, HandlerPCs
        <5> QED BY <5>1, <5>2
      <4> QED BY <4>1, <4>2
    <3> HIDE DEF n
    <3>5. CASE t # u
      <4>1. Holders1(t) \subseteq Holders(t)
          BY <3>4 DEF Holders1, Holders
      <4>2. suspendCount'[t] = suspendCount[t]
          BY <1>0, <3>2, <3>5
      <4> QED BY <4>1, <4>2 DEF CountFollows
    <3>6. CASE t = u
      <4>1. Holders1(t) \subseteq Holders(t) \ {<<p, n>>}
          BY <3>4, <3>6 DEF Holders1, Holders
      <4>2. <<p, n>> \in Holders(t)
        <5>1. Fr(p, n).kind \in Suspending /\ t \in Others(p) /\ t \in Fr(p, n).todo
            BY <3>0, <3>1, <3>2, <3>6 DEF SuspendsOthers
        <5> QED BY <3>0, <3>2, <5>1 DEF Holders, Holds
      <4>3. suspendCount'[t] \in Nat /\ suspendCount'[t] >= suspendCount[t] - 1
        <5>1. suspendCount'[t] = IF suspendCount[t] > 0 THEN suspendCount[t] - 1 ELSE 0
            BY <1>0, <3>2, <3>6
        <5> QED BY <1>3, <5>1
      <4> QED BY <4>1, <4>2, <4>3 DEF CountFollows
    <3> QED BY <3>5, <3>6
  <2> QED BY <2>1, <2>2, <2>3, OnlyMovingSuspends
<1> QED BY <1>3, <1>4, CountKept

\* What the handlers keep true of their frames, of the Mach monitor and of the
\* threads they suspend.
WriterInv == /\ TypeOK /\ EventsApart /\ FlagsInv /\ FramesInv /\ VictimsApart /\ MachInv
             /\ SuspendsOthers /\ HeldIsSuspended

\* What lets one handler write at a time: a frame that suspended the others holds
\* each of them by a suspension of its own until it resumes it, so a thread that
\* some frame holds takes no step.
THEOREM WriterInvariant == Spec => []WriterInv
<1>1. Init => TypeOK /\ EventsApart /\ FlagsInv
  <2> SUFFICES ASSUME Init PROVE EventsApart /\ FlagsInv
      BY TypeInit
  <2>1. EventsApart
      BY EmptyAtFirst DEF EventsApart
  <2>2. FlagsInv
      BY EmptyAtFirst DEF FlagsInv, AnnouncedOnRecord, TwoAreRecrash, RecrashUnhooks, CapturedIsLast
  <2> QED BY <2>1, <2>2
<1>2. Init => FramesInv /\ VictimsApart /\ MachInv /\ SuspendsOthers /\ HeldIsSuspended
  <2> SUFFICES ASSUME Init PROVE FramesInv /\ VictimsApart /\ MachInv /\ SuspendsOthers /\ HeldIsSuspended
      OBVIOUS
  <2>0. /\ \A p \in Procs : Levels(p) = {}
        /\ \A m \in MachThreads : Levels(m) = {}
        /\ \A t \in Threads : Levels(t) = {}
        /\ port = <<>> /\ Len(port) = 0 /\ trapped = {}
    <3>1. trapped = {}
        BY DEF Init
    <3> QED BY <3>1, EmptyAtFirst DEF Procs
  <2>1. FramesInv /\ SuspendsOthers
      BY <2>0 DEF FramesInv, MachStacks, ThreadStacks, SwitchesMach, FaultsInHandler, SuspendsOthers
  <2>2. VictimsApart
      BY <2>0 DEF VictimsApart
  <2>3. MachInv
    <3>1. /\ \A pcs : ~OutermostAt(Primary, pcs)
          /\ \A pcs : ~OutermostAt(Secondary, pcs)
        BY <2>0 DEF OutermostAt, MachThreads
    <3>2. ~Serving(Secondary)
      <4>1. mach = InstalledThreads \/ mach = [m \in MachThreads |-> "none"]
          BY DEF Init
      <4> QED BY <4>1, ConstantsAssumption DEF InstalledThreads, Serving, MachThreads
    <3>3. "mach" \in hooked => machKnown = MachThreads
        BY DEF Init
    <3>4. "mach" \notin hooked => machKnown = {}
        BY DEF Init
    <3>5. "mach" \in hooked => "mach" \in enabled
        BY DEF Init
    <3>6. MachThreads # {}
        BY DEF MachThreads
    <3> QED BY <3>1, <3>2, <3>3, <3>4, <3>5, <3>6
            DEF MachInv, KnownEnabled, HookedKnown, SecondaryAfter, HandedOver, HandlingNoted,
                BothKnown, OneAnnounces
  <2>4. HeldIsSuspended
    <3> SUFFICES ASSUME NEW t \in Threads
                 PROVE  IsFiniteSet(Holders(t)) /\ Cardinality(Holders(t)) <= suspendCount[t]
        BY DEF HeldIsSuspended
    <3>1. Holders(t) = {}
        BY <2>0 DEF Holders
    <3>2. suspendCount[t] = 0
        BY DEF Init
    <3>3. IsFiniteSet({}) /\ Cardinality({}) = 0
        BY FS_EmptySet
    <3> QED BY <3>1, <3>2, <3>3
  <2> QED BY <2>1, <2>2, <2>3, <2>4
<1>3. WriterInv /\ [Next]_vars => WriterInv'
    BY TypeNext, EventsNext, FlagsNext, FramesNext, VictimsNext, MachNext, SuspendsOthersNext, HeldNext
    DEF WriterInv
<1> QED BY <1>1, <1>2, <1>3, PTL DEF Spec, WriterInv

\* One writer at a time: while a thread that suspended the others is inside
\* onCrash no other thread is, whatever crashes, reports and reconfigurations
\* happen together, for any number of application threads.
THEOREM AlwaysOneWriter == Spec => []OneWriter
<1>1. WriterInv => OneWriter
  <2> SUFFICES ASSUME WriterInv, NEW p \in Procs, NEW q \in Procs, Writing(p), Writing(q),
                      Top(p).kind \in Suspending, p # q
               PROVE  FALSE
      BY DEF OneWriter
  <2>0. /\ stack \in Stacks /\ stack[p] # <<>> /\ stack[q] # <<>> /\ Runnable(p) /\ Runnable(q)
        /\ Top(p).pc \in HandlerPCs /\ Top(q).pc \in HandlerPCs
        /\ suspendCount \in [Threads -> Nat]
      BY DEF WriterInv, TypeOK, Stacks, Writing
  \* A handler that has suspended the others holds every one of them.
  <2>1. ASSUME NEW r \in Procs, stack[r] # <<>>, Top(r).kind \in Suspending, Top(r).pc \in HandlerPCs,
               NEW t \in Threads \ {r}
        PROVE  ~Runnable(t)
    <3>1. Len(stack[r]) \in Levels(r) /\ Len(stack[r]) \in Nat /\ Top(r) = Fr(r, Len(stack[r]))
        BY <2>0, <2>1, TopAt
    <3>2. <<r, Len(stack[r])>> \in Holders(t)
        BY <2>1, <3>1 DEF Holders, Holds, Others
    <3>3. IsFiniteSet(Holders(t)) /\ Cardinality(Holders(t)) <= suspendCount[t]
        BY DEF WriterInv, HeldIsSuspended
    <3>4. Cardinality(Holders(t)) \in Nat /\ Cardinality(Holders(t)) # 0
        BY <3>2, <3>3, FS_CardinalityType, FS_EmptySet
    <3>5. suspendCount[t] # 0
        BY <2>0, <3>3, <3>4
    <3> QED BY <3>5 DEF Runnable
  <2>2. CASE q \in Threads
      BY <2>0, <2>1, <2>2
  <2>3. CASE q \in MachThreads /\ p \in Threads
    <3>1. Len(stack[q]) \in Levels(q) /\ Top(q) = Fr(q, Len(stack[q]))
        BY <2>0, TopAt
    <3>2. Top(q).kind \in {"mach", "signal"}
        BY <2>3, <3>1 DEF WriterInv, FramesInv, MachStacks
    <3>3. Top(q).kind \in Suspending
        BY <3>2 DEF Suspending, Kinds
    <3> QED BY <2>0, <2>1, <2>3, <3>3
  <2>4. CASE q \in MachThreads /\ p \in MachThreads
    <3>1. ASSUME NEW r \in {p, q} PROVE OutermostAt(r, HandlerPCs)
      <4>1. /\ Len(stack[r]) \in Levels(r) /\ Len(stack[r]) \in Nat \ {0}
            /\ Top(r) = Fr(r, Len(stack[r])) /\ Top(r).pc \in HandlerPCs /\ r \in Procs
          BY <2>0, TopAt
      <4>2. 1 \in Levels(r)
          BY <4>1 DEF Levels
      <4>3. ASSUME NEW n \in Nat \ {0} PROVE 1 < n \/ 1 = n
          OBVIOUS
      <4>4. 1 < Len(stack[r]) \/ 1 = Len(stack[r])
          BY <4>1, <4>3, Zenon
      <4> QED BY <4>1, <4>2, <4>4 DEF OutermostAt, WriterInv, FramesInv, FaultsInHandler
    <3>2. OutermostAt(Primary, HandlerPCs) /\ OutermostAt(Secondary, HandlerPCs)
        BY <2>4, <3>1 DEF MachThreads
    <3> QED BY <3>2 DEF WriterInv, MachInv, OneAnnounces, OutermostAt
  <2> QED BY <2>2, <2>3, <2>4 DEF Procs
<1> QED BY <1>1, WriterInvariant, PTL
=============================================================================
