------------------------------ MODULE UserData ------------------------------
(***************************************************************************)
(* What the application hands the report writer ahead of time: the user    *)
(* information as JSON text and the classes whose instances are not looked *)
(* into (VicrabCrashReport.c, the API section).  Setters run on threads of *)
(* the application; the writer takes no lock.  A crash handler suspends    *)
(* the setters anywhere; a user report reads beside them.                  *)
(*                                                                         *)
(* A block of memory is named by the call that allocated it.               *)
(***************************************************************************)
EXTENDS Integers, FiniteSets

CONSTANTS
    Setters,  \* threads that call the setters
    MaxCalls  \* bound on the calls

ASSUME UserDataAssumption == MaxCalls \in Nat

VARIABLES
    userInfo,    \* the block g_userInfoJSON shows; 0 is NULL
    classes,     \* the block restrictedClasses shows
    classCount,  \* restrictedClassesCount
    length,      \* classes in each block of classes
    freedBlocks, \* blocks that are freed, and how often
    calls,       \* calls so far
    setting,     \* what each setter is in the middle of
    copying,     \* the user information a user report is decoding
    met,         \* history: two calls that set classes overlapped
    shared       \* history: a setter was at work while the report decoded

userDataVars == <<userInfo, classes, classCount, length, freedBlocks, calls, setting, copying, met, shared>>

Blocks == 0..MaxCalls
NoSetting == [in |-> "out", block |-> 0, old |-> 0]
Setting == [in : {"out", "locked", "freed", "made", "pointed", "counted"}, block : Blocks, old : Blocks]

UserDataTypeOK ==
    /\ {userInfo, classes, calls, copying} \subseteq Blocks
    /\ classCount \in Nat /\ length \in [Blocks -> Nat] /\ freedBlocks \in [Blocks -> Nat]
    /\ setting \in [Setters -> Setting]
    /\ met \in BOOLEAN /\ shared \in BOOLEAN

UserDataInit ==
    /\ userInfo = 0 /\ classes = 0 /\ classCount = 0 /\ calls = 0 /\ copying = 0
    /\ length = [b \in Blocks |-> 0] /\ freedBlocks = [b \in Blocks |-> 0]
    /\ setting = [s \in Setters |-> NoSetting]
    /\ met = FALSE /\ shared = FALSE

Freed(b) == IF b = 0 THEN freedBlocks ELSE [freedBlocks EXCEPT ![b] = @ + 1]
At(s, steps) == setting[s].in \in steps
InfoSteps == {"locked", "freed"}
ClassSteps == {"made", "pointed", "counted"}

-----------------------------------------------------------------------------
(* vicrabcrashreport_setUserInfoJSON: the mutex keeps setters apart *)

MutexFree == \A other \in Setters : ~At(other, InfoSteps)
LockInfo(s) ==
    /\ At(s, {"out"}) /\ calls < MaxCalls
    /\ MutexFree
    /\ calls' = calls + 1
    /\ setting' = [setting EXCEPT ![s] = [in |-> "locked", block |-> calls + 1, old |-> 0]]
    /\ shared' = (shared \/ copying # 0)
    /\ UNCHANGED <<userInfo, classes, classCount, length, freedBlocks, copying, met>>

FreeInfo(s) ==
    /\ At(s, {"locked"})
    /\ freedBlocks' = Freed(userInfo)
    /\ setting' = [setting EXCEPT ![s].in = "freed"]
    /\ UNCHANGED <<userInfo, classes, classCount, length, calls, copying, met, shared>>

\* strdup may fail and the new information may be NULL: both leave NULL.
Replaced(s) == {0, setting[s].block}
ReplaceInfo(s) ==
    /\ At(s, {"freed"})
    /\ userInfo' \in Replaced(s)
    /\ setting' = [setting EXCEPT ![s] = NoSetting]
    /\ UNCHANGED <<classes, classCount, length, freedBlocks, calls, copying, met, shared>>

-----------------------------------------------------------------------------
(* vicrabcrashreport_setDoNotIntrospectClasses: no mutex *)

\* n classes; NULL and none are the same, and a malloc that fails changes nothing.
MakeClasses(s, n) ==
    /\ At(s, {"out"}) /\ calls < MaxCalls
    /\ calls' = calls + 1
    /\ setting' = [setting EXCEPT ![s] = [in |-> "made", old |-> classes,
                                          block |-> IF n = 0 THEN 0 ELSE calls + 1]]
    /\ length' = IF n = 0 THEN length ELSE [length EXCEPT ![calls + 1] = n]
    /\ met' = (met \/ \E other \in Setters : At(other, ClassSteps))
    /\ UNCHANGED <<userInfo, classes, classCount, freedBlocks, copying, shared>>

ShowClasses(s) ==
    /\ At(s, {"made"})
    /\ classes' = setting[s].block
    /\ setting' = [setting EXCEPT ![s].in = "pointed"]
    /\ UNCHANGED <<userInfo, classCount, length, freedBlocks, calls, copying, met, shared>>

OldCountOf(s) == length[setting[s].old]
CountOf(s) == length[setting[s].block]
CountClasses(s) ==
    /\ At(s, {"pointed"})
    /\ classCount' = CountOf(s)
    /\ setting' = [setting EXCEPT ![s].in = "counted"]
    /\ UNCHANGED <<userInfo, classes, length, freedBlocks, calls, copying, met, shared>>

FreeClasses(s) ==
    /\ At(s, {"counted"})
    /\ freedBlocks' = Freed(setting[s].old)
    /\ setting' = [setting EXCEPT ![s] = NoSetting]
    /\ UNCHANGED <<userInfo, classes, classCount, length, calls, copying, met, shared>>

-----------------------------------------------------------------------------
(* writeStandardReport of a user report, which runs beside the setters: it loads *)
(* the pointer once and decodes the text in place.                               *)

DecodeInfo ==
    /\ copying = 0 /\ userInfo # 0
    /\ copying' = userInfo
    /\ shared' = \E s \in Setters : At(s, InfoSteps)
    /\ UNCHANGED <<userInfo, classes, classCount, length, freedBlocks, calls, setting, met>>

EndDecoding ==
    /\ copying # 0
    /\ copying' = 0
    /\ UNCHANGED <<userInfo, classes, classCount, length, freedBlocks, calls, setting, met, shared>>

UserDataNext ==
    \/ DecodeInfo \/ EndDecoding
    \/ \E s \in Setters :
          \/ LockInfo(s) \/ FreeInfo(s) \/ ReplaceInfo(s)
          \/ ShowClasses(s) \/ CountClasses(s) \/ FreeClasses(s)
          \/ \E n \in 0..2 : MakeClasses(s, n)
UserDataSpec == UserDataInit /\ [][UserDataNext]_userDataVars

-----------------------------------------------------------------------------
(* Properties *)

\* A report decodes user information that is there, unless it strikes (or overlaps)
\* the moment between the free and the assignment of setUserInfoJSON.
UserInfoReadable ==
    /\ userInfo # 0 /\ (\A s \in Setters : ~At(s, {"freed"})) => freedBlocks[userInfo] = 0
    /\ copying # 0 /\ ~shared => freedBlocks[copying] = 0

\* isRestrictedClass stays inside the array it is shown, and the array is not freed,
\* unless a setter is between its two assignments or two setters met.
ClassesReadable ==
    classes # 0 /\ ~met /\ (\A s \in Setters : ~At(s, {"pointed"}))
        => classCount <= length[classes] /\ freedBlocks[classes] = 0

\* The user information is freed once, whoever sets it; so is each array of classes
\* unless two setters met, both of which then free the same array.
FreedOnce == \A b \in Blocks : ~met => freedBlocks[b] <= 1

\* What the application has set can be read at whatever step a report is written.
SettingsReadable == UserDataTypeOK /\ UserInfoReadable /\ ClassesReadable /\ FreedOnce
=============================================================================
