---------------------------- MODULE CrashMonitor ----------------------------
(***************************************************************************)
(* The in-process crash recorder: the monitors that trap a fault, the      *)
(* shared flags of VicrabCrashMonitor.c, the suspension of the other       *)
(* threads, and onCrash() of VicrabCrashC.c, which writes the report.      *)
(*                                                                         *)
(* A process of the model is a thread.  Application threads trap faults,   *)
(* are suspended and resumed; the two Mach exception threads are reserved, *)
(* hence never suspended.  Each thread has a stack of handler frames: a    *)
(* fault inside a handler pushes a second one.  Once the process dies no   *)
(* step is possible.                                                       *)
(***************************************************************************)
EXTENDS Naturals, Sequences, FiniteSets

CONSTANTS
    Threads,        \* application threads
    Primary,        \* the primary Mach exception thread
    Secondary,      \* the secondary one, created suspended
    Monitoring,     \* g_monitoring when vicrabcrash_install runs
    Choices,        \* sets a later vicrabcrash_setMonitoring may ask for
    BeingTraced,    \* vicrabcrashdebug_isBeingTraced()
    Triggers,       \* what the application threads may do
    MaxEvents,      \* bound on faults and reports
    MaxReports,     \* bound on report files of one launch
    MaxReconfigs,   \* bound on vicrabcrash_setMonitoring calls
    NoReport        \* g_lastCrashReportFilePath while it is empty

Monitors == {"mach", "signal", "nsexception", "deadlock", "zombie",
             "cpp", "user", "system", "appstate"}
Hookable == {"mach", "signal", "nsexception", "cpp"}
DebuggerUnsafe == Hookable
AsyncSafe == {"mach", "signal"}

MachThreads == {Primary, Secondary}
Procs == Threads \cup MachThreads
Events == 1..MaxEvents
ReportIDs == 1..MaxReports

\* The user monitor splits by its two flags: All = logAllThreads,
\* Fatal = terminateProgram.  "nsthrow" is CPPExceptionTerminate meeting an
\* NSException, which it leaves to the NSException monitor.
UserKinds == {"user", "userAll", "userFatal", "userFatalAll"}
Kinds == UserKinds \cup {"mach", "signal", "nsexception", "snapshot", "cpp",
                         "nsthrow", "deadlock"}
Suspending == Kinds \ {"user", "userFatal"}
Notifying == Kinds \ {"user", "userAll", "nsthrow"}
FatalKinds == Notifying \ {"snapshot"}
Aborting == {"userFatal", "userFatalAll", "deadlock", "cpp", "nsexception"}
Signals == {"SEGV", "ABRT"}

TriggerKinds == {"hardware", "raise", "throw", "cpp", "snapshot", "deadlock"} \cup UserKinds

PCs == {"enter", "suspend", "notify", "switch", "handle", "path", "open",
        "write", "rename", "rewrite", "post", "resume", "exit"}

\* Where onCrash and the code around it run: what else may fault.
HandlerPCs == {"handle", "path", "open", "write", "rename", "rewrite", "post"}

ASSUME ConstantsAssumption ==
    /\ Primary # Secondary
    /\ MachThreads \cap Threads = {}
    /\ Monitoring \subseteq Monitors
    /\ Choices \subseteq SUBSET Monitors
    /\ BeingTraced \in BOOLEAN
    /\ Triggers \subseteq TriggerKinds
    /\ MaxEvents \in Nat /\ MaxReports \in Nat /\ MaxReconfigs \in Nat
    /\ NoReport \notin ReportIDs

Paths == ReportIDs \cup {NoReport}
Subjects == Signals \cup Procs

Frames == [kind : Kinds, pc : PCs, event : Events, subject : Subjects,
           todo : SUBSET Threads, path : Paths, recrash : BOOLEAN]

\* A report file: the event whose writer created this inode, and the events
\* whose record in it is complete.
Files == [creator : Nat, events : SUBSET Events]
Absent == [creator |-> 0, events |-> {}]
CreatedBy(e) == [creator |-> e, events |-> {}]

\* g_monitors, in the order of the array.
Order == <<"mach", "signal", "nsexception", "deadlock", "zombie", "cpp",
           "user", "system", "appstate">>

\* vicrabcrashcm_setActiveMonitors in progress: the monitors asked for, masked,
\* and the index of the one to visit next; 0 outside the function.
Settings == [types : SUBSET Monitors, next : 0..(Len(Order) + 1)]
NoSetting == [types |-> {}, next |-> 0]

VARIABLES
    enabled,        \* monitors whose g_isEnabled is set
    hooked,         \* monitors whose handler the system would call
    activeMonitors, \* g_activeMonitors
    requiresAsyncSafety, handlingFatal, crashedDuring, \* g_... flags
    machHandling,   \* g_isHandlingCrash
    machKnown,      \* exception threads that g_primary/g_secondary still name
    mach,           \* state of each exception thread
    cancelled,      \* exception threads with a pthread_cancel pending
    port,           \* messages waiting at the exception port
    trapped,        \* threads blocked until their message is replied to
    suspendCount,   \* kernel suspend count of the application threads
    stack,          \* handler frames of each thread, innermost first
    crashedThisLaunch, \* set by vicrabcrashstate_notifyAppCrash
    lastPath,       \* g_lastCrashReportFilePath
    nextID,         \* next report ID of this launch
    report, old,    \* the report files, and the temporary .old file
    dead,           \* the process has terminated
    events, reconfigs, \* how many so far
    setting,        \* the vicrabcrash_setMonitoring call each thread is in
    captured        \* history: crashes announced to the monitor

flags == <<requiresAsyncSafety, handlingFatal, crashedDuring>>
monitors == <<enabled, hooked, activeMonitors, machKnown, cancelled>>
files == <<lastPath, nextID, report, old>>
kernel == <<port, trapped, dead>>
bounds == <<events, reconfigs, setting>>
vars == <<monitors, flags, machHandling, mach, kernel, suspendCount, stack,
          crashedThisLaunch, files, bounds, captured>>

TypeOK ==
    /\ enabled \in SUBSET Monitors
    /\ hooked \in SUBSET Hookable
    /\ activeMonitors \in SUBSET Monitors
    /\ requiresAsyncSafety \in BOOLEAN
    /\ handlingFatal \in BOOLEAN
    /\ crashedDuring \in BOOLEAN
    /\ machHandling \in BOOLEAN
    /\ machKnown \in SUBSET MachThreads
    /\ mach \in [MachThreads -> {"none", "waiting", "suspended", "busy", "gone", "cancelled"}]
    /\ cancelled \in SUBSET MachThreads
    /\ port \in Seq([victim : Procs, event : Events])
    /\ trapped \in SUBSET Procs
    /\ suspendCount \in [Threads -> Nat]
    /\ stack \in [Procs -> Seq(Frames)]
    /\ crashedThisLaunch \in BOOLEAN
    /\ lastPath \in Paths
    /\ nextID \in Nat \ {0}
    /\ report \in [ReportIDs -> Files]
    /\ old \in Files
    /\ dead \in BOOLEAN
    /\ events \in 0..MaxEvents
    /\ reconfigs \in 0..MaxReconfigs
    /\ setting \in [Threads -> IF reconfigs = 0 THEN {NoSetting} ELSE Settings]
    /\ captured \in SUBSET Events

-----------------------------------------------------------------------------
(* Threads and frames *)

Frame(k, e, s) == [kind |-> k, pc |-> "enter", event |-> e, subject |-> s,
                   todo |-> {}, path |-> NoReport, recrash |-> FALSE]

Top(p) == Head(stack[p])
WithTop(stk, p, f) == [stk EXCEPT ![p] = <<f>> \o Tail(@)]
Pushed(stk, p, f) == [stk EXCEPT ![p] = <<f>> \o @]
Popped(stk, p) == [stk EXCEPT ![p] = Tail(@)]
Others(p) == Threads \ {p}

\* A suspended thread, or one waiting for a Mach reply, runs nothing.
Runnable(p) == /\ ~dead
               /\ p \notin trapped
               /\ p \in Threads => suspendCount[p] = 0
               /\ p \in MachThreads => mach[p] = "busy"

At(p, pc) == Runnable(p) /\ stack[p] # <<>> /\ Top(p).pc = pc

\* Where p next opens or writes a file, a cancellation point.
AtFile(p) == \E pc \in {"open", "write", "rename", "rewrite"} : At(p, pc)
Free(t) == Runnable(t) /\ stack[t] = <<>>
Idle(t) == Free(t) /\ setting[t] = NoSetting

MonitorOf(k) == CASE k \in UserKinds -> "user"
                  [] k \in {"nsexception", "snapshot"} -> "nsexception"
                  [] k = "nsthrow" -> "cpp"
                  [] OTHER -> k

-----------------------------------------------------------------------------
(* vicrabcrashcm_setActiveMonitors and the setEnabled of each monitor *)

Masked(types, async) ==
    LET traced == IF BeingTraced THEN types \ DebuggerUnsafe ELSE types
    IN  IF async THEN traced \cap AsyncSafe ELSE traced

\* The Zombie monitor cannot be switched off.
EnabledAfter(types) == types \cup (enabled \cap {"zombie"})

\* installExceptionHandler: a thread that waits, and a suspended one.
InstalledThreads == [m \in MachThreads |-> IF m = Primary THEN "waiting" ELSE "suspended"]

\* Newly enabled monitors install their handlers, unless that fails; a
\* monitor whose installation failed still counts as enabled.
HookedEvery(types, failing) == (hooked \cap types) \cup ((types \ enabled) \ failing)

HookedAfter(types, failing) ==
    (hooked \cap types) \cup (((types \ enabled) \cap Hookable) \ failing)

\* uninstallExceptionHandler: every exception thread but the caller is
\* terminated if a Mach crash is being handled; otherwise it is cancelled,
\* which takes effect when it next opens or writes a file.
Uninstalls(types) == "mach" \in enabled /\ "mach" \notin types
Installs == "mach" \in hooked' \ hooked
ForgottenNone(self) == machKnown \ MachThreads
Forgotten(self) == machKnown \ {self}

\* The setEnabled functions.  The caller is self; stk is what its own step
\* makes of the stack.
SwitchMonitors(types, self, failing, stk) ==
    /\ enabled' = EnabledAfter(types)
    /\ hooked' = HookedAfter(types, failing)
    /\ LET killed == IF Uninstalls(types) /\ machHandling THEN Forgotten(self) ELSE {}
       IN  /\ mach' = IF Installs THEN InstalledThreads
                      ELSE [m \in MachThreads |-> IF m \in killed THEN "gone" ELSE mach[m]]
           /\ stack' = [p \in Procs |-> IF p \in killed THEN <<>> ELSE stk[p]]
    /\ cancelled' = IF Installs THEN {}
                    ELSE IF Uninstalls(types) /\ ~machHandling
                    THEN cancelled \cup Forgotten(self) ELSE cancelled
    /\ machKnown' = IF Installs THEN MachThreads
                    ELSE IF Uninstalls(types) THEN machKnown \cap {self} ELSE machKnown

\* Uninstalling everything, with which a crash ends.
Uninstall(self, stk) ==
    /\ SwitchMonitors({}, self, {}, stk)
    /\ activeMonitors' = EnabledAfter({})

KeepMonitors(stk) == stack' = stk /\ UNCHANGED <<monitors, mach>>

-----------------------------------------------------------------------------
(* Kernel: signals, Mach messages *)

InHandlerOf(stk, p, sig) ==
    \E i \in 1..Len(stk[p]) : stk[p][i].kind = "signal" /\ stk[p][i].subject = sig

\* BSD signal sig reaches p: our handler, or the default action.
Deliver(stk, p, e, sig) ==
    IF "signal" \in hooked /\ ~InHandlerOf(stk, p, sig)
    THEN /\ stack' = Pushed(stk, p, Frame("signal", e, sig))
         /\ UNCHANGED dead
    ELSE /\ stack' = stk
         /\ dead' = TRUE

\* A hardware exception in p goes to the exception port if it is ours.
Fault(p, e) ==
    IF "mach" \in hooked
    THEN /\ trapped' = trapped \cup {p}
         /\ port' = Append(port, [victim |-> p, event |-> e])
         /\ UNCHANGED <<dead, stack>>
    ELSE Deliver(stack, p, e, "SEGV") /\ UNCHANGED <<trapped, port>>

MachReceive(m) ==
    /\ ~dead /\ mach[m] = "waiting" /\ port # <<>>
    /\ mach' = [mach EXCEPT ![m] = "busy"]
    /\ stack' = [stack EXCEPT ![m] =
                   <<Frame("mach", Head(port).event, Head(port).victim)>>]
    /\ port' = Tail(port)
    /\ UNCHANGED <<monitors, flags, machHandling, trapped, dead, suspendCount,
                   crashedThisLaunch, files, bounds, captured>>

-----------------------------------------------------------------------------
(* What the application threads do *)

Trigger(t, k) ==
    /\ Idle(t) /\ k \in Triggers /\ events < MaxEvents
    /\ events' = events + 1
    /\ UNCHANGED <<monitors, flags, machHandling, mach, suspendCount,
                   crashedThisLaunch, files, reconfigs, setting, captured>>

Enters(t, k) ==
    stack' = Pushed(stack, t, Frame(k, events + 1, t)) /\ UNCHANGED kernel

HardwareFault(t) == Trigger(t, "hardware") /\ Fault(t, events + 1)
RaiseSignal(t) == /\ Trigger(t, "raise")
                  /\ Deliver(stack, t, events + 1, "ABRT")
                  /\ UNCHANGED <<trapped, port>>

\* An uncaught NSException or C++ exception ends in std::terminate, whose
\* handler is ours only while the C++ monitor is on.
NoTerminateHandler(t, ns) ==
    IF ns /\ "nsexception" \in hooked
    THEN Enters(t, "nsexception")
    ELSE Deliver(stack, t, events + 1, "ABRT") /\ UNCHANGED <<trapped, port>>
UncaughtNSException(t) ==
    /\ Trigger(t, "throw")
    /\ IF "cpp" \in hooked THEN Enters(t, "nsthrow") ELSE NoTerminateHandler(t, TRUE)
UncaughtCPPException(t) ==
    /\ Trigger(t, "cpp")
    /\ IF "cpp" \in hooked THEN Enters(t, "cpp") ELSE NoTerminateHandler(t, FALSE)

\* A snapshot, a user report, a watchdog timeout.
Call(t, k) == /\ k = "deadlock" => "deadlock" \in enabled
              /\ Trigger(t, k) /\ Enters(t, k)

\* vicrabcrash_setMonitoring after installation: the mask is computed once,
SetMonitoring(t) ==
    /\ Idle(t) /\ reconfigs < MaxReconfigs
    /\ reconfigs' = reconfigs + 1
    /\ \E types \in Choices :
         setting' = [setting EXCEPT ![t] =
                       [types |-> Masked(types, requiresAsyncSafety), next |-> 1]]
    /\ UNCHANGED <<monitors, flags, machHandling, mach, kernel, suspendCount, stack,
                   crashedThisLaunch, files, events, captured>>

\* then the monitors are switched one by one, each by its setEnabled, with
\* handlers of other threads in between.  The Mach monitor comes back only
\* once no message of the previous installation is pending.
Toggled(s) == IF Order[s.next] \in s.types THEN enabled \cup {Order[s.next]}
              ELSE enabled \ {Order[s.next]}
Visited(s) == [types |-> s.types \cup (enabled' \cap {Order[s.next]}), next |-> s.next + 1]
SetEnabled(t) ==
    /\ Free(t) /\ setting[t].next \in 1..Len(Order)
    /\ "mach" \in Toggled(setting[t]) \ enabled =>
         (\A m \in MachThreads : mach[m] # "busy") /\ port = <<>>
    /\ \E failing \in SUBSET AsyncSafe :
         SwitchMonitors(Toggled(setting[t]), t, failing, stack)
    /\ setting' = [setting EXCEPT ![t] = Visited(@)]
    /\ UNCHANGED <<activeMonitors, flags, machHandling, kernel, suspendCount,
                   crashedThisLaunch, files, events, reconfigs, captured>>

\* and g_activeMonitors becomes what isEnabled said of each.
SetActive(t) ==
    /\ Free(t) /\ setting[t].next = Len(Order) + 1
    /\ activeMonitors' = setting[t].types
    /\ setting' = [setting EXCEPT ![t] = NoSetting]
    /\ UNCHANGED <<enabled, hooked, machKnown, cancelled, flags, machHandling, mach, kernel,
                   suspendCount, stack, crashedThisLaunch, files, events, reconfigs, captured>>

Reconfigures(t) == SetMonitoring(t) \/ SetEnabled(t) \/ SetActive(t)

-----------------------------------------------------------------------------
(* The handlers, one step per observable effect *)

AfterSuspend(f, p) ==
    IF f.kind = "nsthrow" THEN [f EXCEPT !.pc = "resume", !.todo = Others(p)]
    ELSE [f EXCEPT !.pc = IF f.kind \in Notifying THEN "notify" ELSE "handle"]

\* A handler first looks at its monitor's g_isEnabled; the terminate handler
\* and the watchdog do not.  A disabled user monitor returns to its caller.
Enter(p) ==
    /\ At(p, "enter")
    /\ LET f == Top(p)
           on == MonitorOf(f.kind) \in enabled \/ f.kind \in {"cpp", "nsthrow", "deadlock"}
       IN  stack' = IF on /\ f.kind \in Suspending
                    THEN WithTop(stack, p, [f EXCEPT !.pc = "suspend", !.todo = Others(p)])
                    ELSE IF on THEN WithTop(stack, p, AfterSuspend(f, p))
                    ELSE IF f.kind \in UserKinds THEN Popped(stack, p)
                    ELSE WithTop(stack, p, [f EXCEPT !.pc = "exit"])
    /\ UNCHANGED <<monitors, flags, machHandling, mach, kernel, suspendCount,
                   crashedThisLaunch, files, bounds, captured>>

SuspendOne(p) ==
    /\ At(p, "suspend")
    /\ \E t \in Top(p).todo :
         /\ suspendCount' = [suspendCount EXCEPT ![t] = @ + 1]
         /\ stack' = WithTop(stack, p, [Top(p) EXCEPT !.todo = @ \ {t}])
    /\ UNCHANGED <<monitors, flags, machHandling, mach, kernel,
                   crashedThisLaunch, files, bounds, captured>>

SuspendDone(p) ==
    /\ At(p, "suspend") /\ Top(p).todo = {}
    /\ machHandling' = (machHandling \/ Top(p).kind = "mach")
    /\ stack' = WithTop(stack, p, AfterSuspend(Top(p), p))
    /\ UNCHANGED <<monitors, flags, mach, kernel, suspendCount,
                   crashedThisLaunch, files, bounds, captured>>

\* A second fatal exception takes every handler away before it is recorded.
OnNotifyKeep(p, next) == KeepMonitors(next)
OnNotify(p, next) == IF crashedDuring' THEN Uninstall(p, next) ELSE KeepMonitors(next)

\* vicrabcrashcm_notifyFatalExceptionCaptured
Notify(p) ==
    /\ At(p, "notify")
    /\ LET f == Top(p)
           next == WithTop(stack, p,
                     [f EXCEPT !.pc = IF f.kind = "mach" THEN "switch" ELSE "handle"])
       IN  /\ requiresAsyncSafety' = (requiresAsyncSafety \/ f.kind = "mach")
           /\ crashedDuring' = (crashedDuring \/ handlingFatal)
           /\ handlingFatal' = TRUE
           /\ OnNotify(p, next)
           /\ captured' = IF f.kind \in FatalKinds THEN captured \cup {f.event} ELSE captured
    /\ UNCHANGED <<machHandling, kernel, suspendCount, crashedThisLaunch, files, bounds>>

\* The primary exception thread gives the ports back and lets the secondary
\* one wait for messages already sent.
SwitchMachThread(p) ==
    /\ At(p, "switch")
    /\ stack' = WithTop(stack, p, [Top(p) EXCEPT !.pc = "handle"])
    /\ IF p = Primary /\ Primary \in machKnown
       THEN /\ hooked' = hooked \ {"mach"}
            /\ mach' = IF mach[Secondary] = "suspended" /\ Secondary \in machKnown
                       THEN [mach EXCEPT ![Secondary] = "waiting"] ELSE mach
       ELSE UNCHANGED <<hooked, mach>>
    /\ UNCHANGED <<enabled, activeMonitors, machKnown, cancelled, flags, machHandling, kernel,
                   suspendCount, crashedThisLaunch, files, bounds, captured>>

\* context->crashedDuringCrashHandling
IsRecrashWhenHandling == handlingFatal
IsRecrash == crashedDuring

\* vicrabcrashcm_handleException up to onCrash's choice of report.
Handle(p) ==
    /\ At(p, "handle")
    /\ LET f == Top(p)
       IN  /\ stack' = WithTop(stack, p,
                [f EXCEPT !.recrash = IsRecrash,
                          !.pc = IF IsRecrash THEN "rename" ELSE "path"])
           /\ crashedThisLaunch' = (crashedThisLaunch \/
                (f.kind # "snapshot" /\ "appstate" \in enabled))
    /\ UNCHANGED <<monitors, flags, machHandling, mach, kernel, suspendCount,
                   files, bounds, captured>>

NextPath(p) ==
    /\ At(p, "path") /\ nextID \in ReportIDs
    /\ stack' = WithTop(stack, p, [Top(p) EXCEPT !.pc = "open", !.path = nextID])
    /\ lastPath' = nextID
    /\ nextID' = nextID + 1
    /\ UNCHANGED <<monitors, flags, machHandling, mach, kernel, suspendCount,
                   crashedThisLaunch, report, old, bounds, captured>>

WriterStep == UNCHANGED <<monitors, flags, machHandling, mach, kernel, suspendCount,
                          crashedThisLaunch, lastPath, nextID, bounds, captured>>

\* vicrabcrashreport_writeStandardReport: O_EXCL, then the sections.
OpenReport(p) ==
    /\ At(p, "open") /\ p \notin cancelled
    /\ LET f == Top(p)
           fresh == report[f.path] = Absent
       IN  /\ report' = IF fresh THEN [report EXCEPT ![f.path] = CreatedBy(f.event)]
                        ELSE report
           /\ stack' = WithTop(stack, p, [f EXCEPT !.pc = IF fresh THEN "write" ELSE "post"])
    /\ WriterStep /\ UNCHANGED old

\* The rest of the report, flushed and closed.  A writer whose file was renamed
\* meanwhile completes the unlinked inode.
WriteReport(p) ==
    /\ At(p, "write") /\ p \notin cancelled
    /\ LET f == Top(p)
       IN  /\ report' = IF report[f.path].creator = f.event
                        THEN [report EXCEPT ![f.path].events = @ \cup {f.event}] ELSE report
           /\ stack' = WithTop(stack, p, [f EXCEPT !.pc = "post"])
    /\ WriterStep /\ UNCHANGED old

\* The .old file once lastPath has been renamed, if there was such a file.
OldLost == old
OldAfterRename == IF report[lastPath] = Absent THEN old ELSE report[lastPath]

\* vicrabcrashreport_writeRecrashReport: the last report becomes the .old
\* file and its path is opened anew; an empty path opens nothing.
RenameReport(p) ==
    /\ At(p, "rename") /\ p \notin cancelled
    /\ LET f == Top(p)
       IN  IF lastPath = NoReport
           THEN /\ stack' = WithTop(stack, p, [f EXCEPT !.pc = "post"])
                /\ UNCHANGED <<report, old>>
           ELSE /\ stack' = WithTop(stack, p, [f EXCEPT !.pc = "rewrite", !.path = lastPath])
                /\ old' = OldAfterRename
                /\ report' = [report EXCEPT ![lastPath] = CreatedBy(f.event)]
    /\ WriterStep

\* The .old file is embedded in the new report and flushed, then removed; the
\* crash itself comes after it.
RewriteReport(p) ==
    /\ At(p, "rewrite") /\ p \notin cancelled
    /\ LET f == Top(p)
       IN  /\ report' = IF report[f.path].creator = f.event
                        THEN [report EXCEPT ![f.path].events = @ \cup old.events] ELSE report
           /\ old' = Absent
           /\ stack' = WithTop(stack, p, [f EXCEPT !.pc = "write"])
    /\ WriterStep

\* A cancelled exception thread ends here, its frame and its victim with it.
CancelledAtFile(p) ==
    /\ AtFile(p) /\ p \in cancelled
    /\ mach' = [mach EXCEPT ![p] = "cancelled"]
    /\ stack' = [stack EXCEPT ![p] = <<>>]
    /\ UNCHANGED <<monitors, flags, machHandling, kernel, suspendCount,
                   crashedThisLaunch, files, bounds, captured>>

\* What handleException does after onCrash: a snapshot is over, a first fatal
\* exception gives way to the original handlers.
HandlingKept(f) == handlingFatal
HandlingAfter(f) == handlingFatal /\ f.kind # "snapshot"
EndsNever(f) == FALSE
EndsAnything(f) == handlingFatal /\ ~crashedDuring
EndsMonitoring(f) == f.kind # "snapshot" /\ handlingFatal /\ ~crashedDuring

\* vicrabcrashcm_handleException after onCrash.  Only NSExceptions that kill
\* the process leave the other threads suspended.
Post(p) ==
    /\ At(p, "post")
    /\ LET f == Top(p)
           resumes == f.kind \in Suspending \ {"nsexception"}
           next == WithTop(stack, p, IF resumes
                                     THEN [f EXCEPT !.pc = "resume", !.todo = Others(p)]
                                     ELSE [f EXCEPT !.pc = "exit"])
       IN  /\ handlingFatal' = HandlingAfter(f)
           /\ IF EndsMonitoring(f) THEN Uninstall(p, next) ELSE KeepMonitors(next)
           /\ machHandling' = (machHandling /\ f.kind # "mach")
    /\ UNCHANGED <<requiresAsyncSafety, crashedDuring, kernel, suspendCount,
                   crashedThisLaunch, files, bounds, captured>>

\* thread_resume fails, harmlessly, on a thread that is not suspended.
ResumeOne(p) ==
    /\ At(p, "resume")
    /\ \E t \in Top(p).todo :
         /\ suspendCount' = [suspendCount EXCEPT ![t] = IF @ > 0 THEN @ - 1 ELSE 0]
         /\ stack' = WithTop(stack, p, [Top(p) EXCEPT !.todo = @ \ {t}])
    /\ UNCHANGED <<monitors, flags, machHandling, mach, kernel,
                   crashedThisLaunch, files, bounds, captured>>

ResumeDone(p) ==
    /\ At(p, "resume") /\ Top(p).todo = {}
    /\ stack' = WithTop(stack, p, [Top(p) EXCEPT !.pc = "exit"])
    /\ UNCHANGED <<monitors, flags, machHandling, mach, kernel, suspendCount,
                   crashedThisLaunch, files, bounds, captured>>

\* Leaving a handler: return, re-raise, abort, or reply to the kernel, which
\* then turns the victim's exception into a signal.
Leaving(p, kinds) ==
    /\ At(p, "exit") /\ Top(p).kind \in kinds
    /\ UNCHANGED <<monitors, flags, machHandling, suspendCount,
                   crashedThisLaunch, files, bounds, captured, port>>

Return(p) ==
    /\ Leaving(p, {"snapshot", "user", "userAll"})
    /\ stack' = Popped(stack, p)
    /\ UNCHANGED <<mach, trapped, dead>>

Abort(p) ==
    /\ Leaving(p, Aborting)
    /\ Deliver(Popped(stack, p), p, Top(p).event, "ABRT")
    /\ UNCHANGED <<mach, trapped>>

Reraise(p) ==
    /\ Leaving(p, {"signal"})
    /\ Deliver(Popped(stack, p), p, Top(p).event, Top(p).subject)
    /\ UNCHANGED <<mach, trapped>>

CallNSExceptionHandler(p) ==
    /\ Leaving(p, {"nsthrow"})
    /\ IF "nsexception" \in hooked
       THEN /\ stack' = Pushed(Popped(stack, p), p, Frame("nsexception", Top(p).event, p))
            /\ UNCHANGED dead
       ELSE Deliver(Popped(stack, p), p, Top(p).event, "ABRT")
    /\ UNCHANGED <<mach, trapped>>

MachReplyLost(p) ==
    /\ Leaving(p, {"mach"})
    /\ mach' = [mach EXCEPT ![p] = "gone"]
    /\ stack' = Popped(stack, p)
    /\ UNCHANGED <<trapped, dead>>

MachReply(p) ==
    /\ Leaving(p, {"mach"})
    /\ mach' = [mach EXCEPT ![p] = "gone"]
    /\ trapped' = trapped \ {Top(p).subject}
    /\ Deliver(Popped(stack, p), Top(p).subject, Top(p).event, "SEGV")

\* Code of a handler, or of the user's crash callback, faults in its turn.
HandlerFault(p) ==
    /\ \E pc \in HandlerPCs : At(p, pc)
    /\ events < MaxEvents
    /\ events' = events + 1
    /\ Fault(p, events + 1)
    /\ UNCHANGED <<monitors, flags, machHandling, mach, suspendCount,
                   crashedThisLaunch, files, reconfigs, setting, captured>>

-----------------------------------------------------------------------------
\* The state vicrabcrash_install leaves, with the installations that failed.
Init ==
    \E failing \in SUBSET AsyncSafe :
      /\ enabled = Masked(Monitoring, FALSE)
      /\ hooked = (enabled \cap Hookable) \ failing
      /\ activeMonitors = enabled
      /\ requiresAsyncSafety = FALSE
      /\ handlingFatal = FALSE
      /\ crashedDuring = FALSE
      /\ machHandling = FALSE
      /\ machKnown = IF "mach" \in hooked THEN MachThreads ELSE {}
      /\ mach = IF "mach" \in hooked THEN InstalledThreads ELSE [m \in MachThreads |-> "none"]
      /\ cancelled = {}
      /\ port = <<>>
      /\ trapped = {}
      /\ suspendCount = [t \in Threads |-> 0]
      /\ stack = [p \in Procs |-> <<>>]
      /\ crashedThisLaunch = FALSE
      /\ lastPath = NoReport
      /\ nextID = 1
      /\ report = [r \in ReportIDs |-> Absent]
      /\ old = Absent
      /\ dead = FALSE
      /\ events = 0
      /\ reconfigs = 0
      /\ setting = [t \in Threads |-> NoSetting]
      /\ captured = {}

\* What the application does, and what only has to be scheduled.
AppStep(t) ==
    \/ HardwareFault(t) \/ RaiseSignal(t)
    \/ UncaughtNSException(t) \/ UncaughtCPPException(t)
    \/ \E k \in UserKinds \cup {"snapshot", "deadlock"} : Call(t, k)
    \/ Reconfigures(t)

HandlerStep(p) ==
    \/ Enter(p) \/ SuspendOne(p) \/ SuspendDone(p) \/ Notify(p)
    \/ SwitchMachThread(p) \/ Handle(p) \/ NextPath(p) \/ OpenReport(p)
    \/ WriteReport(p) \/ RenameReport(p) \/ RewriteReport(p) \/ CancelledAtFile(p) \/ Post(p)
    \/ ResumeOne(p) \/ ResumeDone(p) \/ Return(p) \/ Abort(p) \/ Reraise(p)
    \/ CallNSExceptionHandler(p) \/ MachReply(p)

Next ==
    \/ \E t \in Threads : AppStep(t)
    \/ \E p \in Procs : HandlerStep(p) \/ HandlerFault(p)
    \/ \E m \in MachThreads : MachReceive(m)

Spec == Init /\ [][Next]_vars

\* Every thread that can run is eventually scheduled.
Fairness == /\ \A p \in Procs : WF_vars(HandlerStep(p))
            /\ \A m \in MachThreads : WF_vars(MachReceive(m))
FairSpec == Spec /\ Fairness

-----------------------------------------------------------------------------
(* Properties *)

\* Frames that have begun, and not finished, suspending or resuming others.
Writing(p) == Runnable(p) /\ stack[p] # <<>> /\ Top(p).pc \in HandlerPCs

\* While a thread that suspended the others is inside onCrash, no other thread
\* can be: the reports, the flags and g_lastCrashReportFilePath need no lock.
\* This is what suspendEnvironment, the reserved exception threads and the
\* termination of the other exception thread have to achieve together.
OneWriter ==
    \A p, q \in Procs :
        Writing(p) /\ Writing(q) /\ Top(p).kind \in Suspending => p = q

\* No death loop: a thread that leaves a fatal handler, and is about to
\* re-raise, abort or reply, finds none of our handlers in place, unless the program
\* reconfigured monitoring meanwhile.
NoDeathLoop ==
    \A p \in Procs :
        reconfigs = 0 /\ At(p, "exit") /\ Top(p).kind \in FatalKinds /\ Top(p).event \in captured
            => hooked = {}

\* A crash inside the reporter takes every handler of ours out of the way, and
\* until monitoring is reconfigured none comes back.
RecrashUninstalls == crashedDuring => hooked = {} /\ enabled \subseteq {"zombie"}

\* Snapshots and user reports leave the recorder as they found it, however
\* they overlap: when no handler is active, nothing is suspended and no fatal
\* exception is on record;
Quiet == ~dead /\ trapped = {} /\ port = <<>> /\ \A p \in Procs : stack[p] = <<>>
NonFatalLeavesNoTrace ==
    Quiet /\ captured = {} => /\ \A t \in Threads : suspendCount[t] = 0
                              /\ ~handlingFatal /\ ~crashedDuring

\* and as long as nothing fatal was announced, no step of a handler takes a
\* monitor away or brings one back: only a vicrabcrash_setMonitoring does.
NonFatalKeepsMonitors ==
    [][captured' = {} /\ UNCHANGED setting =>
         UNCHANGED <<enabled, hooked, activeMonitors, machKnown>>]_vars

\* Once an event is recorded completely it stays recorded, in its report, in
\* one that embeds it or in the .old file about to be embedded.
RecordedEvents == old.events \cup UNION {report[r].events : r \in ReportIDs}
RecordedStays == [][RecordedEvents \subseteq RecordedEvents']_vars

\* A crash that is alone (nothing else was ever reported or faulted) is in a
\* finished report, and noted in the application state, before the process dies.
LoneCrashRecorded ==
    dead /\ events = 1 /\ captured # {} =>
        captured \subseteq RecordedEvents /\ ("appstate" \in Monitoring => crashedThisLaunch)

\* VicrabCrashC.h:46, "The reporter will record the next crash and then
\* terminate the program": a process in which a crash was captured, or which
\* waits for our reply to a Mach exception, terminates,
Crashing == captured # {} \/ trapped # {}
\* whatever the threads do to each other, unless an exception thread
\* that another crash had cancelled stops in the middle of its report.
HangsOnlyByCancel == Crashing ~> (dead \/ \E m \in MachThreads : mach[m] = "cancelled")

\* VicrabCrashC.h:46, "The reporter will record the next crash and then
\* terminate the program".
NextCrashRecorded ==
    dead /\ captured # {} => captured \cap RecordedEvents # {}
=============================================================================
