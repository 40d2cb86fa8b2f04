------------------------------ MODULE AppState ------------------------------
(***************************************************************************)
(* The application state monitor, VicrabCrashMonitor_AppState.c: how often *)
(* and for how long the application was launched, active and in the        *)
(* background since the last crash and since this launch, driven by the    *)
(* notifications VicrabCrash.m forwards, and carried from launch to launch *)
(* in a JSON file that is truncated and rewritten in place.                *)
(*                                                                         *)
(* Beside the code's counters the model keeps what they stand for: the     *)
(* time and the launches that really passed (realCrash, realLaunch).       *)
(***************************************************************************)
EXTENDS Integers

CONSTANTS
    FirstTime,       \* time of the first launch
    MaxLaunches,     \* bound on the launches
    MaxSessions,     \* bound on the sessions of a launch
    Environments     \* what the system and the application may do, with bounds

(* An environment:
     backgroundLaunch   the system also launches the application in the background
     quitsInForeground  applicationWillTerminate also comes to a foreground application
     userReports        the application also reports non-fatal exceptions
     killedInSave       the process may be killed while it saves the state
     runsOn             crashes are on another thread than the main one: when the report
                        is written the threads are resumed, and run until the process is gone
     maxTime            bound on the clock
     maxDuration        bound on what user reports add to the durations              *)
Environment == [backgroundLaunch : BOOLEAN, quitsInForeground : BOOLEAN,
                userReports : BOOLEAN, killedInSave : BOOLEAN, runsOn : BOOLEAN,
                maxTime : Nat, maxDuration : Nat]

ASSUME AppStateAssumption ==
    /\ FirstTime \in Nat /\ MaxLaunches \in Nat /\ MaxSessions \in Nat
    /\ \A e \in Environments : e \in Environment /\ FirstTime <= e.maxTime

VARIABLES
    env,        \* the environment of this run of the model
    os,         \* what the system makes of the application
    now,        \* getCurentTime
    launched,   \* launches so far
    sinceCrash, \* g_state: durations and counts since the last crash
    sinceLaunch,\* g_state: durations and sessions since this launch
    crashedLastLaunch, crashedThisLaunch,
    applicationIsActive, applicationIsInForeground,
    appStateTransitionTime,
    file,       \* the state file, as loadState will read it
    saving,     \* saveState is under way
    course,     \* "crashed" and "quits": the process ends when the save is done;
                \* "runsOn": it has crashed, and its threads run on
    interrupted,\* the crash came in the middle of the main thread's own save
    realCrash,  \* history: what happened since the last crash
    realLaunch, \* history: what happened since this launch
    realCrashed,\* history: this launch crashed, and got to save that
    realCrashedLast \* history: the previous launch crashed

flags == <<crashedLastLaunch, crashedThisLaunch, applicationIsActive,
           applicationIsInForeground, appStateTransitionTime>>
state == <<sinceCrash, sinceLaunch, flags>>
real == <<realCrash, realLaunch, realCrashed, realCrashedLast>>
vars == <<env, os, now, launched, state, file, saving, course, interrupted, real>>

SinceCrash == [active : Int, background : Int, launches : Nat, sessions : Nat]
SinceLaunch == [active : Int, background : Int, sessions : Nat]
File == [crashed : BOOLEAN, active : Int, background : Int, launches : Nat, sessions : Nat]

NoneSinceCrash == [active |-> 0, background |-> 0, launches |-> 0, sessions |-> 0]
NoneSinceLaunch == [active |-> 0, background |-> 0, sessions |-> 0]
\* No file, or one without any field: memset leaves zeros.
EmptyFile == [crashed |-> FALSE, active |-> 0, background |-> 0, launches |-> 0, sessions |-> 0]

TypeOK ==
    /\ env \in Environments
    /\ os \in {"down", "inactive", "active", "background"}
    /\ now \in FirstTime..env.maxTime
    /\ launched \in 0..MaxLaunches
    /\ sinceCrash \in SinceCrash /\ sinceLaunch \in SinceLaunch
    /\ crashedLastLaunch \in BOOLEAN /\ crashedThisLaunch \in BOOLEAN
    /\ applicationIsActive \in BOOLEAN /\ applicationIsInForeground \in BOOLEAN
    /\ appStateTransitionTime \in 0..now
    /\ file \in File
    /\ saving \in BOOLEAN /\ interrupted \in BOOLEAN
    /\ course \in {"runs", "crashed", "quits", "runsOn"}
    /\ realCrash \in SinceCrash /\ realLaunch \in SinceLaunch
    /\ realCrashed \in BOOLEAN /\ realCrashedLast \in BOOLEAN

-----------------------------------------------------------------------------
(* Saving and loading *)

\* The fields in the order saveState writes them, the first k of them: loadState
\* keeps what it has read when it meets the end of a torn file.
WrittenUnflagged(k) ==
    [EmptyFile EXCEPT !.launches = IF k >= 4 THEN sinceCrash.launches ELSE 0,
                      !.sessions = IF k >= 5 THEN sinceCrash.sessions ELSE 0]
Written(k) ==
    [crashed |-> IF k >= 1 THEN crashedThisLaunch ELSE FALSE,
     active |-> IF k >= 2 THEN sinceCrash.active ELSE 0,
     background |-> IF k >= 3 THEN sinceCrash.background ELSE 0,
     launches |-> IF k >= 4 THEN sinceCrash.launches ELSE 0,
     sessions |-> IF k >= 5 THEN sinceCrash.sessions ELSE 0]

\* The process is over when the save is done.
ending == course \in {"crashed", "quits"}
RunsOn == course = "crashed" /\ env.runsOn

Exits ==
    /\ os' = "down"
    /\ sinceCrash' = NoneSinceCrash /\ sinceLaunch' = NoneSinceLaunch
    /\ crashedLastLaunch' = FALSE /\ crashedThisLaunch' = FALSE
    /\ applicationIsActive' = FALSE /\ applicationIsInForeground' = FALSE
    /\ appStateTransitionTime' = 0
    /\ saving' = FALSE /\ course' = "runs" /\ interrupted' = FALSE

SaveDone ==
    /\ saving
    /\ file' = Written(5)
    /\ \/ ending /\ ~RunsOn /\ Exits
       \/ /\ ~ending \/ RunsOn
          /\ saving' = FALSE
          /\ course' = IF RunsOn THEN "runsOn" ELSE course
          /\ UNCHANGED <<os, state, interrupted>>
    /\ UNCHANGED <<now, launched, real>>

\* The save the crash interrupted goes on over the file of the crash.  If it was about
\* to open the file it truncates it, and writes it anew as far as the process comes.
\* Otherwise it writes on where it was: a flag it took before the crash may replace the
\* crash's, and what does not fit together ends the reading there.  (Where "false" and
\* "true" set the texts off by one and digits run together, the flag stays, and with it
\* no count is read.)
LaidOver == {Written(k) : k \in 0..5} \cup {[Written(k) EXCEPT !.crashed = FALSE] : k \in 0..5}
SaveGoesOn ==
    /\ course = "runsOn" /\ interrupted
    /\ file' \in LaidOver
    /\ interrupted' = FALSE
    /\ UNCHANGED <<os, now, launched, state, saving, course, real>>

\* The system kills the process, in the middle of a save too: before the file is
\* opened, or with only the first fields written.  It ends a process that runs on
\* after its crash wherever it is.
Torn == IF saving THEN {Written(k) : k \in 0..5} ELSE {}
Kill ==
    /\ os # "down"
    /\ saving => env.killedInSave \/ course = "runsOn"
    /\ \/ file' = file /\ realCrashed' = (course = "runsOn")
       \/ file' \in Torn /\ UNCHANGED realCrashed
    /\ Exits
    /\ UNCHANGED <<now, launched, realCrash, realLaunch, realCrashedLast>>

\* vicrabcrashstate_initialize, then vicrabcrashstate_reset when the monitor is enabled.
KeepsCounting(f) == [active |-> f.active, background |-> f.background,
                     launches |-> f.launches + 1, sessions |-> f.sessions + 1]
StartsOver(f) == [NoneSinceCrash EXCEPT !.launches = 1, !.sessions = 1]
Reset(f) == IF f.crashed THEN StartsOver(f) ELSE KeepsCounting(f)

\* One launch and one session more than happened before.
AnotherLaunch(c) == [active |-> c.active, background |-> c.background,
                     launches |-> c.launches + 1, sessions |-> c.sessions + 1]

Launch ==
    /\ os = "down" /\ launched < MaxLaunches
    /\ launched' = launched + 1
    /\ os' \in {"inactive"} \cup (IF env.backgroundLaunch THEN {"background"} ELSE {})
    /\ sinceCrash' = Reset(file)
    /\ sinceLaunch' = [NoneSinceLaunch EXCEPT !.sessions = 1]
    /\ crashedLastLaunch' = file.crashed
    /\ crashedThisLaunch' = FALSE
    /\ applicationIsActive' = FALSE
    /\ applicationIsInForeground' = TRUE
    /\ appStateTransitionTime' = 0
    /\ saving' = TRUE
    /\ realCrash' = AnotherLaunch(IF realCrashed THEN NoneSinceCrash ELSE realCrash)
    /\ realLaunch' = [NoneSinceLaunch EXCEPT !.sessions = 1]
    /\ realCrashedLast' = realCrashed
    /\ realCrashed' = FALSE
    /\ UNCHANGED <<now, file, course, interrupted>>

-----------------------------------------------------------------------------
(* Notifications, on the main thread *)

Notified == os # "down" /\ ~saving /\ ~interrupted
Elapsed == now - appStateTransitionTime
AddActive ==
    /\ sinceLaunch' = [sinceLaunch EXCEPT !.active = @ + Elapsed]
    /\ sinceCrash' = [sinceCrash EXCEPT !.active = @ + Elapsed]
AddBackground ==
    /\ sinceLaunch' = [sinceLaunch EXCEPT !.background = @ + Elapsed]
    /\ sinceCrash' = [sinceCrash EXCEPT !.background = @ + Elapsed]

NotesNoTime == appStateTransitionTime' = appStateTransitionTime
NotesTime == appStateTransitionTime' = now

BecomeActive ==
    /\ Notified /\ os = "inactive"
    /\ os' = "active"
    /\ applicationIsActive' = TRUE
    /\ NotesTime
    /\ UNCHANGED <<now, launched, sinceCrash, sinceLaunch, crashedLastLaunch, crashedThisLaunch,
                   applicationIsInForeground, file, saving, course, interrupted, real>>

ResignActive ==
    /\ Notified /\ os = "active"
    /\ os' = "inactive"
    /\ applicationIsActive' = FALSE
    /\ AddActive
    /\ UNCHANGED <<now, launched, crashedLastLaunch, crashedThisLaunch,
                   applicationIsInForeground, appStateTransitionTime, file, saving, course, interrupted, real>>

EnterBackground ==
    /\ Notified /\ os = "inactive"
    /\ os' = "background"
    /\ applicationIsInForeground' = FALSE
    /\ NotesTime
    /\ saving' = TRUE
    /\ UNCHANGED <<now, launched, sinceCrash, sinceLaunch, crashedLastLaunch, crashedThisLaunch,
                   applicationIsActive, file, course, interrupted, real>>

EnterForeground ==
    /\ Notified /\ os = "background" /\ realLaunch.sessions < MaxSessions
    /\ os' = "inactive"
    /\ applicationIsInForeground' = TRUE
    /\ sinceLaunch' = [sinceLaunch EXCEPT !.background = @ + Elapsed, !.sessions = @ + 1]
    /\ sinceCrash' = [sinceCrash EXCEPT !.background = @ + Elapsed, !.sessions = @ + 1]
    /\ realLaunch' = [realLaunch EXCEPT !.sessions = @ + 1]
    /\ realCrash' = [realCrash EXCEPT !.sessions = @ + 1]
    /\ UNCHANGED <<now, launched, crashedLastLaunch, crashedThisLaunch, applicationIsActive,
                   appStateTransitionTime, file, saving, course, interrupted, realCrashed, realCrashedLast>>

Terminate ==
    /\ Notified /\ (env.quitsInForeground \/ os = "background")
    /\ sinceCrash' = [sinceCrash EXCEPT !.background = @ + Elapsed]
    /\ saving' = TRUE /\ course' = "quits"
    /\ UNCHANGED <<os, now, launched, sinceLaunch, flags, file, interrupted, real>>

-----------------------------------------------------------------------------
(* Crashes, on any thread *)

\* vicrabcrashstate_notifyAppCrash
NotifyAppCrash ==
    /\ \/ applicationIsActive /\ AddActive
       \/ ~applicationIsActive /\ ~applicationIsInForeground /\ AddBackground
       \/ ~applicationIsActive /\ applicationIsInForeground /\ UNCHANGED <<sinceCrash, sinceLaunch>>
    /\ crashedThisLaunch' = TRUE
    /\ saving' = TRUE

\* A crash suspends the main thread, in the middle of its save as well, and saves
\* the state anew; once the report is written too the process is over, or its threads
\* run on until it is.
Crash ==
    /\ os # "down" /\ course = "runs"
    /\ NotifyAppCrash
    /\ file' \in {file} \cup Torn
    /\ course' = "crashed"
    /\ interrupted' = (saving /\ env.runsOn)
    /\ realCrashed' = TRUE
    /\ UNCHANGED <<os, now, launched, crashedLastLaunch, applicationIsActive,
                   applicationIsInForeground, appStateTransitionTime,
                   realCrash, realLaunch, realCrashedLast>>

\* onCrash does the same for a user exception, from which the program returns.
UserReport ==
    /\ env.userReports /\ Notified /\ course = "runs"
    /\ sinceCrash.active + sinceCrash.background <= env.maxDuration
    /\ NotifyAppCrash
    /\ UNCHANGED <<os, now, launched, crashedLastLaunch, applicationIsActive,
                   applicationIsInForeground, appStateTransitionTime, file, course, interrupted, real>>

Tick ==
    /\ now < env.maxTime /\ ~saving /\ course = "runs"
    /\ now' = now + 1
    /\ \/ /\ os = "active"
          /\ realCrash' = [realCrash EXCEPT !.active = @ + 1]
          /\ realLaunch' = [realLaunch EXCEPT !.active = @ + 1]
       \/ /\ os = "background"
          /\ realCrash' = [realCrash EXCEPT !.background = @ + 1]
          /\ realLaunch' = [realLaunch EXCEPT !.background = @ + 1]
       \/ /\ os \notin {"active", "background"}
          /\ UNCHANGED <<realCrash, realLaunch>>
    /\ UNCHANGED <<os, launched, state, file, saving, course, interrupted, realCrashed, realCrashedLast>>

-----------------------------------------------------------------------------
Init ==
    /\ env \in Environments
    /\ os = "down"
    /\ now = FirstTime
    /\ launched = 0
    /\ sinceCrash = NoneSinceCrash /\ sinceLaunch = NoneSinceLaunch
    /\ crashedLastLaunch = FALSE /\ crashedThisLaunch = FALSE
    /\ applicationIsActive = FALSE /\ applicationIsInForeground = FALSE
    /\ appStateTransitionTime = 0
    /\ file = EmptyFile
    /\ saving = FALSE /\ course = "runs" /\ interrupted = FALSE
    /\ realCrash = NoneSinceCrash /\ realLaunch = NoneSinceLaunch
    /\ realCrashed = FALSE /\ realCrashedLast = FALSE

Next ==
    /\ UNCHANGED env
    /\ \/ Launch \/ SaveDone \/ SaveGoesOn \/ Kill \/ Tick
       \/ BecomeActive \/ ResignActive \/ EnterBackground \/ EnterForeground \/ Terminate
       \/ Crash \/ UserReport

Spec == Init /\ [][Next]_vars

-----------------------------------------------------------------------------
(* Properties *)

Up == os # "down"

\* However often the process is killed, in the middle of a save included, and
\* whatever it reports, no launch or session is counted that did not happen: since
\* this launch always, since the last crash unless the crash may have been lost to a
\* save that went on after it.
CountsNotOverstated ==
    Up => /\ ~env.runsOn => /\ sinceCrash.launches <= realCrash.launches
                            /\ sinceCrash.sessions <= realCrash.sessions
          /\ sinceLaunch.sessions = realLaunch.sessions

\* The environment the documented counts need: saves complete, only crashes are
\* reported, nothing runs on after one, and the application is launched and quits the
\* usual way.
Usual == /\ ~env.backgroundLaunch /\ ~env.quitsInForeground /\ ~env.userReports
         /\ ~env.killedInSave /\ ~env.runsOn

\* Where saves complete, only crashes are reported and nothing runs on after one, the
\* number of launches since the last crash is exact (VicrabCrashMonitor_AppState.h:55).
LaunchesAreReal ==
    Up /\ ~env.userReports /\ ~env.killedInSave /\ ~env.runsOn =>
        sinceCrash.launches = realCrash.launches

\* Where saves complete and only crashes are reported, no launch is told of a crash of
\* the previous one that was not, whatever ran on after it; where nothing did, of every
\* crash there was.
CrashFlagIsReal ==
    Up /\ ~env.userReports /\ ~env.killedInSave =>
        /\ crashedLastLaunch => realCrashedLast
        /\ ~env.runsOn => (realCrashedLast => crashedLastLaunch)

\* VicrabCrashMonitor_AppState.h:70, "the application crashed on the previous launch",
\* of every crash that was saved and with no save cut short before it.
CrashOnPreviousLaunchKnown ==
    Up /\ ~env.userReports /\ ~env.killedInSave => (realCrashedLast => crashedLastLaunch)

\* The time active since launch is exact whenever the application is not active,
\* and the time active since the last crash, of which a kill may lose some, never
\* more than what passed (VicrabCrashMonitor_AppState.h:49, :61).
ActiveIsReal ==
    Up /\ ~saving /\ Usual =>
        /\ os # "active" => sinceLaunch.active = realLaunch.active
        /\ sinceCrash.active <= realCrash.active

\* The same of the time in the background (VicrabCrashMonitor_AppState.h:52, :64).
BackgroundIsReal ==
    Up /\ Usual => /\ os # "background" => sinceLaunch.background = realLaunch.background
                  /\ sinceCrash.background <= realCrash.background

\* Every value is of its type, and no launch or session is counted that did not happen.
CountsSound == TypeOK /\ CountsNotOverstated

\* What is told of the last crash is real: whether it was on the previous launch, and
\* how many launches ago.
LastCrashIsReal == LaunchesAreReal /\ CrashFlagIsReal

\* The times a report gives passed, in the foreground and in the background.
TimesAreReal == ActiveIsReal /\ BackgroundIsReal
=============================================================================
