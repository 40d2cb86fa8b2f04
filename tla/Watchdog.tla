------------------------------ MODULE Watchdog ------------------------------
(***************************************************************************)
(* The main-thread watchdog, VicrabCrashMonitor_Deadlock.m.  A monitor is  *)
(* a thread that sleeps for the interval, asks the main queue to answer,   *)
(* and reports a deadlock when it wakes up again without an answer.        *)
(* Disabling cancels the monitor, which goes on until it has woken up;     *)
(* enabling makes a new one.                                               *)
(***************************************************************************)
EXTENDS Integers, Sequences

CONSTANTS
    MaxMonitors, \* bound on the monitors made
    MaxSettings, \* bound on the calls that change the interval
    MaxHangs     \* bound on the times the main thread hangs

ASSUME WatchdogAssumption == {MaxMonitors, MaxSettings, MaxHangs} \subseteq Nat

VARIABLES
    enabled,     \* g_isEnabled
    initialized, \* isInitialized
    mainKnown,   \* g_mainQueueThread is set
    interval,    \* g_watchdogInterval is positive
    made,        \* monitors made; the last one is g_monitor while enabled
    monitor,     \* each monitor
    mainQueue,   \* blocks dispatched to the main queue: 0 identifies, m answers monitor m
    hung,        \* the main thread runs no blocks
    hangs, settings,
    alarm        \* the monitor that reported the deadlock; 0 for none

watchdogVars == <<enabled, initialized, mainKnown, interval, made, monitor, mainQueue,
                  hung, hangs, settings, alarm>>

Ids == 1..MaxMonitors
Unmade == [at |-> "ended", runs |-> FALSE, awaiting |-> FALSE, cancelled |-> FALSE]

WatchdogTypeOK ==
    /\ enabled \in BOOLEAN /\ initialized \in BOOLEAN /\ mainKnown \in BOOLEAN
    /\ interval \in BOOLEAN /\ hung \in BOOLEAN
    /\ made \in 0..MaxMonitors /\ alarm \in 0..made
    /\ monitor \in [Ids -> [at : {"top", "sleeping", "woken", "alarmed", "ended"}, runs : BOOLEAN,
                            awaiting : BOOLEAN, cancelled : BOOLEAN]]
    /\ mainQueue \in Seq(0..made)
    /\ hangs \in 0..MaxHangs /\ settings \in 0..MaxSettings

WatchdogInit ==
    /\ enabled = FALSE /\ initialized = FALSE /\ mainKnown = FALSE /\ interval = FALSE
    /\ hung \in BOOLEAN
    /\ made = 0 /\ alarm = 0 /\ hangs = 0 /\ settings = 0
    /\ monitor = [m \in Ids |-> Unmade]
    /\ mainQueue = <<>>

Running == alarm = 0

-----------------------------------------------------------------------------
(* The application *)

\* initialize: the first time, the main queue is asked for its thread.
IdentifyIfPulsed == IF initialized \/ ~interval THEN mainQueue ELSE Append(mainQueue, 0)
Identify == IF initialized THEN mainQueue ELSE Append(mainQueue, 0)
\* setEnabled(true)
Enable ==
    /\ Running /\ ~enabled /\ made < MaxMonitors
    /\ enabled' = TRUE
    /\ initialized' = TRUE
    /\ mainQueue' = Identify
    /\ made' = made + 1
    /\ monitor' = [monitor EXCEPT ![made + 1].at = "top"]
    /\ UNCHANGED <<mainKnown, interval, hung, hangs, settings, alarm>>

Disable ==
    /\ Running /\ enabled
    /\ enabled' = FALSE
    /\ monitor' = [monitor EXCEPT ![made].cancelled = TRUE]
    /\ UNCHANGED <<initialized, mainKnown, interval, made, mainQueue, hung, hangs, settings, alarm>>

SetInterval ==
    /\ Running /\ settings < MaxSettings
    /\ settings' = settings + 1
    /\ interval' = ~interval
    /\ UNCHANGED <<enabled, initialized, mainKnown, made, monitor, mainQueue, hung, hangs, alarm>>

-----------------------------------------------------------------------------
(* The main thread *)

Hang ==
    /\ Running /\ ~hung /\ hangs < MaxHangs
    /\ hung' = TRUE /\ hangs' = hangs + 1
    /\ UNCHANGED <<enabled, initialized, mainKnown, interval, made, monitor, mainQueue, settings, alarm>>

Recover ==
    /\ Running /\ hung
    /\ hung' = FALSE
    /\ UNCHANGED <<enabled, initialized, mainKnown, interval, made, monitor, mainQueue, hangs, settings, alarm>>

\* The block of initialize, or watchdogAnswer.
Answered(m) == [monitor EXCEPT ![m].awaiting = FALSE]
RunBlock ==
    /\ Running /\ ~hung /\ mainQueue # <<>>
    /\ mainQueue' = Tail(mainQueue)
    /\ IF Head(mainQueue) = 0
       THEN mainKnown' = TRUE /\ UNCHANGED monitor
       ELSE monitor' = Answered(Head(mainQueue)) /\ UNCHANGED mainKnown
    /\ UNCHANGED <<enabled, initialized, interval, made, hung, hangs, settings, alarm>>

-----------------------------------------------------------------------------
(* runMonitor *)

\* The interval is read before the sleep.
FallAsleep(m) ==
    /\ Running /\ monitor[m].at = "top"
    /\ monitor' = [monitor EXCEPT ![m].at = "sleeping", ![m].runs = interval]
    /\ UNCHANGED <<enabled, initialized, mainKnown, interval, made, mainQueue, hung, hangs, settings, alarm>>

GoesOnRegardless(m) == IF monitor[m].runs THEN "woken" ELSE "top"
GoesOn(m) == IF monitor[m].cancelled THEN "ended" ELSE GoesOnRegardless(m)
WakeUp(m) ==
    /\ Running /\ monitor[m].at = "sleeping"
    /\ monitor' = [monitor EXCEPT ![m].at = GoesOn(m)]
    /\ UNCHANGED <<enabled, initialized, mainKnown, interval, made, mainQueue, hung, hangs, settings, alarm>>

\* awaitingResponse decides; watchdogPulse sets it before it dispatches the block.
Pulse(m) ==
    IF monitor[m].awaiting
    THEN monitor' = [monitor EXCEPT ![m].at = "alarmed"] /\ UNCHANGED mainQueue
    ELSE /\ monitor' = [monitor EXCEPT ![m].at = "top", ![m].awaiting = TRUE]
         /\ mainQueue' = Append(mainQueue, m)
Check(m) ==
    /\ Running /\ monitor[m].at = "woken"
    /\ Pulse(m)
    /\ UNCHANGED <<enabled, initialized, mainKnown, interval, made, hung, hangs, settings, alarm>>

\* handleDeadlock: suspends everything, reports g_mainQueueThread, aborts.
HandleDeadlock(m) ==
    /\ Running /\ monitor[m].at = "alarmed"
    /\ alarm' = m
    /\ UNCHANGED <<enabled, initialized, mainKnown, interval, made, monitor, mainQueue, hung, hangs, settings>>

RunMonitor(m) == FallAsleep(m) \/ WakeUp(m) \/ Check(m) \/ HandleDeadlock(m)

WatchdogNext ==
    \/ Enable \/ Disable \/ SetInterval \/ Hang \/ Recover \/ RunBlock
    \/ \E m \in Ids : RunMonitor(m)
WatchdogFairness == WF_watchdogVars(RunBlock) /\ \A m \in Ids : WF_watchdogVars(RunMonitor(m))
WatchdogSpec == WatchdogInit /\ [][WatchdogNext]_watchdogVars /\ WatchdogFairness

-----------------------------------------------------------------------------
(* Properties *)

\* The thread of the report is the main thread if the main queue ran a single block
\* since the watchdog was first enabled: its question comes before any pulse.
AlarmNamesMain ==
    \A m \in Ids : \/ mainKnown \/ monitor[m].at # "alarmed"
                   \/ mainQueue # <<>> /\ Head(mainQueue) = 0

\* One question of a monitor at a time is in the main queue, exactly while it waits
\* for the answer, however often the watchdog is switched off and on.
OneQuestionEach ==
    \A m \in Ids : LET asked == {i \in DOMAIN mainQueue : mainQueue[i] = m}
                   IN asked = {} <=> ~monitor[m].awaiting

\* A main thread that hangs for good under an enabled watchdog with a positive
\* interval is reported; timers of sleeping monitors fire and threads run.
HangReported == <>[](hung /\ enabled /\ interval) => <>(alarm # 0)
\* A cancelled monitor ends, unless the process does.
CancelledEnds == \A m \in Ids : monitor[m].cancelled ~> (monitor[m].at = "ended" \/ alarm # 0)

\* The alarm is about the main thread, and about its answer to the last question.
WatchdogSound == WatchdogTypeOK /\ AlarmNamesMain /\ OneQuestionEach

\* A hang is reported, and monitors do not outlive their watchdog.
WatchdogLive == HangReported /\ CancelledEnds
=============================================================================
