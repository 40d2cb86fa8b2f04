------------------------------- MODULE Delivery -------------------------------
(***************************************************************************)
(* From report files to stored events: sendAllReports of VicrabCrash.m,    *)
(* the installation and its sink (VicrabCrashInstallation.m and            *)
(* VicrabCrashReportSink.m) and what VicrabClient.m keeps for them: the    *)
(* context of the last launch, the threads of the last snapshot.           *)
(*                                                                         *)
(* Sending starts with the crash handler, with every report of the user    *)
(* and with every snapshot; the sink converts on a global queue, so        *)
(* several sendings overlap.  The process may end at any step.  The store  *)
(* of the reports is refined in ReportStore, the filters in FilterChain,   *)
(* what becomes of a stored event in EventQueue.                           *)
(***************************************************************************)
EXTENDS ReportEvent

CONSTANTS
    Senders,    \* concurrent sendings
    Users,      \* users the application sets
    Shapes,     \* what reports of crashes can look like
    MaxReports, MaxLaunches,
    Behaviors,  \* values of deleteBehaviorAfterSendAll
    FiltersFail,\* whether a pre-filter may fail
    AnyClient   \* whether the shared client may be missing

\* The sink takes a report for a snapshot by what its event shows.
Passes(report) ==
    LET section == Section(Doctored(report))
    IN  /\ section.error /\ Value(section) = {Snapshot}
        /\ AddsDiagnosis(section) => section.diagnosis = NoDiagnosis

IsList(s) == Len(s) \in Nat /\ s = [k \in 1..Len(s) |-> s[k]]

\* Threads and frames are lists, and writeThread flags one thread of a section at most.
WellFormed(section) ==
    /\ "threads" \in DOMAIN section
    /\ IsList(section.threads)
    /\ \A k \in DOMAIN section.threads : IsList(section.threads[k].frames)
    /\ \A j, k \in Flagged(section) : j = k

\* A release has a name, a recrash report carries the first one or nothing of it, and
\* no crash has the text of a snapshot.
ASSUME DeliveryAssumption ==
    /\ MaxReports \in Nat /\ MaxLaunches \in Nat
    /\ \A n \in 1..MaxLaunches : ToString(n) # Missing
    /\ \A shape \in Shapes :
         /\ shape.recrash = << >> \/ shape.recrash = <<shape.recrash[1]>>
         /\ WellFormed(shape.crash)
         /\ shape.recrash # << >> => WellFormed(shape.recrash[1])
         /\ ~Passes([crash |-> shape.crash, recrash |-> shape.recrash, cpu |-> shape.cpu])

VARIABLES
    launch,     \* number of the launch, 0 before the first
    up,         \* whether the process runs
    user,       \* the user set on the client
    stored,     \* what the user defaults hold: user and release
    lastContext,\* what they held when the client was made
    shared,     \* whether sharedClient is set
    disk,       \* the reports on disk, oldest first
    born,       \* reports recorded
    sender,     \* what each sending is doing
    events,     \* history: the events stored for sending
    snapshot    \* _snapshotThreads: the report they are from, 0 if none

deliveryVars == <<launch, up, user, stored, lastContext, shared, disk, born, sender, events, snapshot>>

process == <<launch, up, user, stored, lastContext, shared>>

Idle == [pc |-> "idle", own |-> 0, todo |-> << >>, loaded |-> {}, refused |-> {}, ok |-> TRUE,
         alone |-> TRUE]
IdleSenders == [s \in Senders |-> Idle]
Nothing == [user |-> Missing, release |-> Missing]

DeliveryInit ==
    /\ launch = 0 /\ up = FALSE
    /\ user = Missing /\ stored = Nothing /\ lastContext = Nothing
    /\ shared = FALSE
    /\ disk = << >> /\ born = 0
    /\ sender = IdleSenders
    /\ events = {}
    /\ snapshot = 0

-----------------------------------------------------------------------------
(* The application *)

\* initWithOptions: the context is read before this launch's options overwrite it.
RestoreContext(release) == stored
Launch ==
    /\ ~up /\ launch < MaxLaunches
    /\ launch' = launch + 1 /\ up' = TRUE
    /\ \E release \in {Missing, ToString(launch')}, missing \in {FALSE, AnyClient} :
         /\ lastContext' = RestoreContext(release)
         /\ stored' = [stored EXCEPT !.release = release]
         /\ shared' = ~missing
    /\ user' = Missing /\ snapshot' = 0
    /\ sender' = [s \in Senders |-> IF s = CHOOSE t \in Senders : TRUE
                                    THEN [Idle EXCEPT !.pc = "list"] ELSE Idle]
    /\ UNCHANGED <<disk, born, events>>

SetUser(u) ==
    /\ up /\ user # u
    /\ user' = u
    /\ stored' = [stored EXCEPT !.user = u]
    /\ UNCHANGED <<launch, up, lastContext, shared, disk, born, sender, events, snapshot>>

\* What the recorder leaves behind; `number`, `launch` and `user` are the report's history.
Recorded(kind, shape) ==
    [crash |-> shape.crash, recrash |-> shape.recrash, cpu |-> shape.cpu,
     version |-> IF shape.recrash # << >> THEN Missing ELSE ToString(launch),
     number |-> born + 1, kind |-> kind, launch |-> launch, user |-> user]

Down ==
    /\ up' = FALSE
    /\ sender' = IdleSenders
    /\ UNCHANGED <<launch, user, stored, lastContext, shared>>

Crash(shape) ==
    /\ up /\ born < MaxReports
    /\ disk' = Append(disk, Recorded("crash", shape))
    /\ born' = born + 1
    /\ Down
    /\ UNCHANGED <<events, snapshot>>

Exit ==
    /\ up /\ launch < MaxLaunches /\ Down
    /\ UNCHANGED <<disk, born, events, snapshot>>

ASection == [error |-> TRUE, type |-> "user", reason |-> "reported", cppName |-> Missing,
             mach |-> "other", signal |-> "other", address |-> 0, crashedThread |-> << >>,
             threads |-> <<[NoThread EXCEPT !.crashed = TRUE,
                              !.frames = <<[symbol |-> "main", at |-> 1, app |-> TRUE]>>]>>,
             diagnosis |-> NoDiagnosis]
Plain(reason) == [crash |-> [ASection EXCEPT !.reason = reason], recrash |-> << >>, cpu |-> "arm64"]

\* reportUserException and snapshotStacktrace: a report, then everything is sent.
Begin(s, kind, reason) ==
    /\ up /\ sender[s].pc = "idle" /\ born < MaxReports
    /\ disk' = Append(disk, Recorded(kind, Plain(reason)))
    /\ born' = born + 1
    /\ sender' = [t \in Senders |->
                    IF t = s
                    THEN [Idle EXCEPT !.pc = "list",
                                      !.own = IF kind = "snapshot" THEN born + 1 ELSE 0,
                                      !.alone = \A o \in Senders : sender[o].pc = "idle"]
                    ELSE [sender[t] EXCEPT !.alone = FALSE]]
    /\ UNCHANGED <<process, events, snapshot>>
ReportUserException(s) == Begin(s, "user", "reported")
SnapshotStacktrace(s) == Begin(s, "snapshot", Snapshot)

-----------------------------------------------------------------------------
(* Sending *)

At(s, pc) == up /\ sender[s].pc = pc
Goes(s, r) == sender' = [sender EXCEPT ![s] = r]
SetOf(seq) == {seq[k] : k \in DOMAIN seq}

\* allReports: in the order of their IDs, each with its diagnosis.
Loads == [k \in DOMAIN disk |-> Doctored(disk[k])]
List(s) ==
    /\ At(s, "list")
    /\ Goes(s, [sender[s] EXCEPT !.pc = IF disk = << >> THEN "answer" ELSE "filter",
                                 !.todo = Loads, !.loaded = {r.number : r \in SetOf(disk)}])
    /\ UNCHANGED <<process, disk, born, events, snapshot>>

\* The chain of filters: what FilterChain shows of its answers.
Filter(s) ==
    /\ At(s, "filter")
    /\ \E ok \in {TRUE, ~FiltersFail} :
         Goes(s, IF ok THEN [sender[s] EXCEPT !.pc = "sink"]
                 ELSE [sender[s] EXCEPT !.pc = "answer", !.ok = FALSE])
    /\ UNCHANGED <<process, disk, born, events, snapshot>>

\* sendEvent: what the event lacks is taken from the client.
SharedProperties(event) == [event EXCEPT !.user = IF @ = Missing THEN user ELSE @,
                                         !.release = IF @ = Missing THEN stored.release ELSE @]

\* The context a report is converted with.
ContextOfNow == stored
Context == lastContext

\* filterReports of the sink, for one report.  The client stores the event, unless the
\* application wants it not sent (shouldSendEvent) or no request can be made of it; the
\* sink takes it for sent all the same.  Without a client the report is left out;
\* a snapshot without a thread, like a report that cannot be converted, throws on
\* a queue where nobody catches.
Throws(report, event) ==
    \/ CannotConvert(report)
    \/ IsSnapshot(event) /\ event.exceptions[1].thread = << >>
RestAfterFirst(s) == [sender[s] EXCEPT !.todo = << >>, !.pc = "answer"]
Rest(s) == [sender[s] EXCEPT !.todo = Tail(@), !.pc = IF Len(sender[s].todo) = 1 THEN "answer" ELSE @]
Converts(s) ==
    /\ At(s, "sink") /\ shared
    /\ LET report == Head(sender[s].todo)
           event == Event(report, Context)
       IN  /\ ~Throws(report, event)
           /\ IF IsSnapshot(event)
              THEN /\ snapshot' = report.number
                   /\ UNCHANGED events
              ELSE /\ events' = events \cup {[report |-> report, in |-> launch,
                                              event |-> SharedProperties(event)]}
                   /\ UNCHANGED snapshot
           /\ Goes(s, Rest(s))
    /\ UNCHANGED <<process, disk, born>>

ClientRefuses(s) ==
    /\ At(s, "sink") /\ shared
    /\ LET report == Head(sender[s].todo)
           event == Event(report, Context)
       IN  /\ ~Throws(report, event) /\ ~IsSnapshot(event)
           /\ Goes(s, [Rest(s) EXCEPT !.refused = @ \cup {report.number}])
    /\ UNCHANGED <<process, disk, born, events, snapshot>>

LeavesOut(s) ==
    /\ At(s, "sink") /\ ~shared
    /\ Goes(s, Rest(s))
    /\ UNCHANGED <<process, disk, born, events, snapshot>>

SinkThrows(s) ==
    /\ At(s, "sink") /\ shared
    /\ Throws(Head(sender[s].todo), Event(Head(sender[s].todo), Context))
    /\ Down
    /\ UNCHANGED <<disk, born, events, snapshot>>

\* The completion in sendAllReportsWithCompletion deletes whatever is on disk by
\* then; the one of VicrabInstallation calls the application's unless sending failed.
Deletes(s, behavior) == behavior = "always" \/ (behavior = "success" /\ sender[s].ok)
Answers(s) ==
    /\ At(s, "answer")
    /\ \E behavior \in Behaviors : disk' = IF Deletes(s, behavior) THEN << >> ELSE disk
    /\ Goes(s, Idle)
    /\ UNCHANGED <<process, born, events, snapshot>>

Sends(s) == List(s) \/ Filter(s) \/ Converts(s) \/ ClientRefuses(s) \/ LeavesOut(s) \/ SinkThrows(s) \/ Answers(s)

DeliveryNext ==
    \/ Launch \/ Exit
    \/ \E u \in Users : SetUser(u)
    \/ \E shape \in Shapes : Crash(shape)
    \/ \E s \in Senders : ReportUserException(s) \/ SnapshotStacktrace(s) \/ Sends(s)

-----------------------------------------------------------------------------
(* Properties *)

Sent(number) == \E e \in events : e.report.number = number
Refused(s, number) == number \in sender[s].refused
Taken(report) == report.kind = "snapshot"
Answered(s) == At(s, "answer") /\ up' /\ sender'[s].pc = "idle"

\* A report leaves the disk only when its event is stored or it was a snapshot, or
\* else for one of four reasons: the client refused the event of this sending, or the
\* sending that deleted it had not listed it, was told that it failed, or had no client.
DeletedOnlyIfSent ==
    [][\A s \in Senders : Answered(s) /\ sender[s].ok /\ shared =>
         \A r \in SetOf(disk) \ SetOf(disk') :
           r.number \in sender[s].loaded => Sent(r.number) \/ Refused(s, r.number) \/ Taken(r)]_deliveryVars

\* A crash that is sent by the launch after it carries the user who was set when the
\* application crashed, whoever is set by the time it is sent.
CrashNamesItsUser ==
    \A e \in events :
      e.report.kind = "crash" /\ e.in = e.report.launch + 1 /\ e.report.user # Missing
        => e.event.user = e.report.user

\* VicrabCrashReportConverter.m:96: a crash right before an update is not counted to
\* the release after it, as long as the report is complete.
CrashNamesItsRelease ==
    \A e \in events :
      e.report.kind = "crash" /\ e.in = e.report.launch + 1 /\ e.report.recrash = << >>
        => e.event.release = ToString(e.report.launch)

\* A snapshot that no other sending overlaps is complete only when the client has
\* the threads of this snapshot and not of an earlier one.
SnapshotIsOwn ==
    [][\A s \in Senders :
         Answered(s) /\ sender[s].ok /\ sender[s].alone /\ shared /\ sender[s].own # 0
             => snapshot = sender[s].own]_deliveryVars

\* The event of a report shows all stacks, each as often as there are threads with it:
\* that of the thread that crashed with the exception, the others with their threads.
Places(event, frames) ==
    {k \in DOMAIN event.threads : event.threads[k] = frames}
      \cup {k \in {0} : event.exceptions # << >> /\ event.exceptions[1].thread = <<frames>>}
EachStackOnce ==
    \A e \in events :
      LET section == Section(e.report)
          stacks == [k \in DOMAIN section.threads |-> Frames(section.threads[k])]
      IN  section.error /\ Flagged(section) # {} =>
            \A frames \in (SetOf(stacks) \cup SetOf(e.event.threads)) \ {<< >>} :
              Cardinality(Places(e.event, frames)) = Cardinality({k \in DOMAIN stacks : stacks[k] = frames})

\* The innermost frame, where it crashed, is the last one of its stack, and no
\* function that is on the stack is lost.
InnermostLast ==
    \A e \in events : \A k \in DOMAIN Section(e.report).threads :
      LET thread == Section(e.report).threads[k]
          frames == Frames(thread)
      IN  thread.frames # << >> =>
            /\ frames[Len(frames)] = thread.frames[1]
            /\ {f.symbol : f \in SetOf(frames)} = {f.symbol : f \in SetOf(thread.frames)}

\* An event of a recrash is about the crash that came first.
ShowsFirstCrash ==
    \A e \in events :
      e.report.recrash # << >> /\ e.report.recrash[1].error
        => /\ Len(e.event.threads) = Len(e.report.recrash[1].threads)
           /\ \/ Notable(e.report.recrash[1]) # {}
              \/ e.event.exceptions[1].value = {Reason(e.report.recrash[1])}

\* An event tells whose crash it was and of what release, as of the time of the crash.
EventTellsWho == CrashNamesItsUser /\ CrashNamesItsRelease

\* An event shows the crash: all stacks, in order, of the crash that came first.
EventShowsCrash == EachStackOnce /\ InnermostLast /\ ShowsFirstCrash

\* What a sending takes off the disk has reached the client.
DeliversWhatItDeletes == DeletedOnlyIfSent /\ SnapshotIsOwn
=============================================================================
