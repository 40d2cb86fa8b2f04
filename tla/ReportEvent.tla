----------------------------- MODULE ReportEvent -----------------------------
(***************************************************************************)
(* From a report to an event: the diagnosis VicrabCrashDoctor.m adds when  *)
(* a report is loaded, and the event VicrabCrashReportConverter.m makes of *)
(* the report.                                                             *)
(*                                                                         *)
(* A report has a crash section, with the system's description unless it   *)
(* was written in a crash of the crash handler (a recrash); such a report  *)
(* carries what could be saved of the first report as a section of its     *)
(* own.  Texts are what the code tells apart: a reason, a diagnosis.       *)
(***************************************************************************)
EXTENDS Naturals, Sequences, FiniteSets, TLC

Missing == "nil"
Snapshot == "VICRAB_SNAPSHOT"

NoThread == [crashed |-> FALSE, frames |-> << >>, overflow |-> FALSE, rogue |-> FALSE,
             zombie |-> FALSE, strings |-> {}, lr |-> 0]
FirstOf(S) == CHOOSE k \in S : \A j \in S : k <= j
Flagged(section) == {k \in DOMAIN section.threads : section.threads[k].crashed}

-----------------------------------------------------------------------------
(* VicrabCrashDoctor *)

\* crashedThreadReport: a minimal report has one thread, the others a list.
CrashedThread(section) ==
    IF section.crashedThread # << >> THEN section.crashedThread[1]
    ELSE IF Flagged(section) # {} THEN section.threads[FirstOf(Flagged(section))]
    ELSE NoThread

\* lastInAppStackEntry: the innermost frame of the executable.
LastInApp(thread) ==
    LET inApp == {k \in DOMAIN thread.frames : thread.frames[k].app}
    IN  IF inApp = {} THEN Missing ELSE thread.frames[FirstOf(inApp)].symbol

LastFunction(thread) == IF thread.frames = << >> THEN Missing ELSE thread.frames[1].symbol

\* The Mach exception, when there is one, speaks for the signal too.
IsInvalidAddress(section) == IF section.mach # Missing THEN section.mach = "EXC_BAD_ACCESS"
                             ELSE section.signal = "SIGSEGV"
IsMathError(section) == IF section.mach # Missing THEN section.mach = "EXC_ARITHMETIC"
                        ELSE section.signal = "SIGFPE"

\* zombieCall: the receiver is in the first argument's register, which is known for
\* the processor families the doctor knows; a processor that is not given is an ARM.
FamilyOf(cpu) == IF cpu \in {Missing, "arm64", "armv7"} THEN "Arm"
                 ELSE IF cpu \in {"i386", "x86_64"} THEN "X86" ELSE "Unknown"
IsZombieCall(thread, cpu) ==
    /\ FamilyOf(cpu) # "Unknown"
    /\ LastFunction(thread) \in {"objc_msgSend", "objc_retain"}
    /\ thread.zombie

Says(what, about) == [what |-> what, about |-> about]
NoDiagnosis == Says(Missing, Missing)

\* diagnoseCrash: the first of these that fits.
Diagnosis(section, cpu) ==
    LET thread == CrashedThread(section)
    IN  IF section.type = "deadlock" THEN Says("deadlock", LastInApp(thread))
        ELSE IF thread.overflow THEN Says("stack overflow", LastInApp(thread))
        ELSE IF section.type = "nsexception" THEN Says("exception", section.reason)
        ELSE IF thread.rogue THEN Says("memory corruption", Missing)
        ELSE IF IsMathError(section) THEN Says("math error", Missing)
        ELSE IF IsZombieCall(thread, cpu) THEN Says("zombie", LastFunction(thread))
        ELSE IF IsInvalidAddress(section)
        THEN Says(IF section.address = 0 THEN "null pointer" ELSE "garbage pointer", Missing)
        ELSE NoDiagnosis

\* doctorReport: both sections are given the diagnosis of the report's own crash.
Doctored(report) ==
    LET diagnosis == Diagnosis(report.crash, report.cpu)
    IN  [report EXCEPT !.crash.diagnosis = diagnosis,
                       !.recrash = [k \in DOMAIN @ |-> [@[k] EXCEPT !.diagnosis = diagnosis]]]

-----------------------------------------------------------------------------
(* VicrabCrashReportConverter *)

\* initWithReport: of a recrash, the crash that came first.
SectionLast(report) == report.crash
Section(report) == IF report.recrash # << >> THEN report.recrash[1] ELSE report.crash

\* Without a thread that crashed, the first thread stands for it.
CrashedIndex(section) == IF Flagged(section) = {} THEN 1 ELSE FirstOf(Flagged(section))

\* stackFramesForThreadIndex: outermost first, and of two innermost frames of one
\* function not the one that only repeats the link register.
Reversed(frames) == [k \in DOMAIN frames |-> frames[Len(frames) + 1 - k]]
RepeatsLink(thread) ==
    /\ Len(thread.frames) >= 2
    /\ thread.frames[1].symbol = thread.frames[2].symbol
    /\ thread.lr = thread.frames[2].at
Frames(thread) ==
    LET frames == Reversed(thread.frames)
    IN  IF RepeatsLink(thread)
        THEN Append(SubSeq(frames, 1, Len(frames) - 2), frames[Len(frames)])
        ELSE frames

\* threadAtIndex: the thread that crashed goes with the exception, and among the
\* threads without its stack.
Stripped(thread) == IF thread.crashed THEN << >> ELSE Frames(thread)
Threads(section) == [k \in DOMAIN section.threads |-> Stripped(section.threads[k])]
ThreadOfException(section) ==
    LET k == CrashedIndex(section)
    IN  IF k \in DOMAIN section.threads THEN <<Frames(section.threads[k])>> ELSE << >>

\* convertExceptions: what the exception is called.
Reason(section) ==
    CASE section.type \in {"nsexception", "user"}  -> section.reason
      [] section.type = "cpp_exception"            -> section.cppName
      [] section.type \in {"mach", "signal"}       -> section.type
      [] OTHER                                     -> "Unknown Exception"

\* enhanceValueFromNotableAddresses: strings the crashed thread refers to, those that
\* look like a path left out, take the place of the reason.
Notable(section) ==
    LET k == CrashedIndex(section)
    IN  IF k \in DOMAIN section.threads THEN section.threads[k].strings ELSE {}
Value(section) == IF Notable(section) # {} THEN Notable(section) ELSE {Reason(section)}

\* The diagnosis is added unless it says the value already.
Mentions(diagnosis, value) == diagnosis.what = "exception" /\ value = {diagnosis.about}
AddsDiagnosis(section) ==
    /\ section.diagnosis # NoDiagnosis
    /\ ~Mentions(section.diagnosis, Value(section))

\* -[NSString containsString:nil] throws.
CannotConvert(report) ==
    LET section == Section(report)
    IN  section.error /\ section.diagnosis # NoDiagnosis /\ Value(section) = {Missing}

\* convertReportToEvent; the release is that of the report unless the application
\* had chosen one.
Release(report, context) == IF context.release # Missing THEN context.release ELSE report.version

Event(report, context) ==
    LET section == Section(report)
    IN  [exceptions |-> IF ~section.error THEN << >>
                        ELSE <<[value |-> Value(section),
                                diagnosis |-> IF AddsDiagnosis(section) THEN section.diagnosis
                                              ELSE NoDiagnosis,
                                thread |-> ThreadOfException(section)]>>,
         threads |-> Threads(section),
         user |-> context.user,
         release |-> Release(report, context)]

\* handleConvertedEvent: how a snapshot is told from a crash.
IsSnapshot(event) ==
    /\ event.exceptions # << >>
    /\ event.exceptions[1].value = {Snapshot}
    /\ event.exceptions[1].diagnosis = NoDiagnosis
=============================================================================
