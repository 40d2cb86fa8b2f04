----------------------------- MODULE EventQueue -----------------------------
(***************************************************************************)
(* Sending events: VicrabClient.m with its VicrabFileManager (events on    *)
(* disk) and VicrabQueueableRequestManager (an NSOperationQueue of         *)
(* requests).  Any thread sends events: it stores the event, then adds a   *)
(* request.  The session answers requests on one serial queue, where the   *)
(* completion handler of VicrabClient removes the stored event or keeps    *)
(* it, and may add a request for everything stored.                        *)
(***************************************************************************)
EXTENDS Naturals, FiniteSets

CONSTANTS
    Threads,        \* threads that send events
    MaxEvents,      \* bound on the events stored
    MaxStored,      \* maxEvents of the file manager, 10 by default
    MaxConcurrent,  \* maxConcurrentOperationCount, 3
    MaxExits,       \* bound on process exits
    MaxToggles,     \* bound on changes of the enabled property
    Outcomes        \* how a request may end: "accepted" or "refused" by the server,
                    \* rate "limited" (429), or with "none" of these, for want of a
                    \* response

Events == 1..MaxEvents
NoEvent == 0

ASSUME QueueAssumption ==
    /\ MaxEvents \in Nat /\ MaxStored \in Nat /\ MaxConcurrent \in Nat \ {0}
    /\ MaxExits \in Nat /\ MaxToggles \in Nat
    /\ Outcomes \subseteq {"accepted", "refused", "limited", "none"}

VARIABLES
    up,         \* the client exists
    enabled,
    disk,       \* events in the events folder
    requests,   \* operations of the request queue
    made,       \* how many were made since it was last empty, which numbers them
    thread,     \* what each sending thread is doing
    handler,    \* the completion handler running on the session's delegate queue
    stored,     \* events stored so far, which numbers them
    responses,  \* history: how the requests of an event ended
    called,     \* events whose completion handler was called
    lastEvent,
    exits, toggles

client == <<up, enabled>>
bounds == <<exits, toggles>>
vars == <<client, disk, requests, made, thread, handler, stored, responses, called,
          lastEvent, bounds>>

\* The session reports an HTTP response without an error whatever its status, and
\* an error without a response.
HasResponse(r) == r # "none"

Requests == [id : Nat, event : Events, again : BOOLEAN,
             st : {"waiting", "running", "answered", "handled"}, outcome : Outcomes \cup {"none"}]
ThreadIdle == [pc |-> "idle", event |-> NoEvent]
HandlerIdle == [pc |-> "idle", todo |-> {}]

TypeOK ==
    /\ up \in BOOLEAN /\ enabled \in BOOLEAN
    /\ disk \in SUBSET Events
    /\ requests \in SUBSET Requests
    /\ made \in Nat
    /\ thread \in [Threads -> [pc : {"idle", "storing", "sending", "enqueue"}, event : Events \cup {NoEvent}]]
    /\ handler \in [pc : {"idle", "check", "list", "enqueue", "finish"}, todo : SUBSET Events]
    /\ stored \in 0..MaxEvents
    /\ responses \in [Events -> SUBSET Outcomes]
    /\ called \in SUBSET Events
    /\ lastEvent \in Events \cup {NoEvent}
    /\ exits \in 0..MaxExits /\ toggles \in 0..MaxToggles

-----------------------------------------------------------------------------
(* The file manager and the request queue *)

\* handleFileManagerLimit removes the oldest files beyond maxEvents.
KeepsRecent(S) == {n \in S : \A m \in S : m < n + MaxStored}
LimitedOneMore(S) == {n \in S : Cardinality({m \in S : m > n}) <= MaxStored}
Limited(S) == {n \in S : Cardinality({m \in S : m > n}) < MaxStored}

\* The file manager is locked (@synchronized) from the writing of an event until the
\* oldest are removed; only the end of the process comes in between.
Locked == \E t \in Threads : thread[t].pc \in {"storing", "sending"}

Writes ==
    /\ ~Locked
    /\ stored < MaxEvents
    /\ stored' = stored + 1
    /\ disk' = disk \cup {stored + 1}

Request(id, event, again) ==
    [id |-> id, event |-> event, again |-> again, st |-> "waiting", outcome |-> "none"]
AddsRequestCleared(event) ==
    /\ requests' = requests \cup {Request(made + 1, NoEvent, FALSE)}
    /\ made' = made + 1
AddsRequest(event) ==
    /\ requests' = requests \cup {Request(made + 1, event, FALSE)}
    /\ made' = made + 1
\* sendAllStoredEvents adds one request per file, in the order of their names.
Position(S, n) == Cardinality({m \in S : m <= n})
AddsRequests(S) ==
    /\ requests' = requests \cup {Request(made + Position(S, n), n, TRUE) : n \in S}
    /\ made' = made + Cardinality(S)

InState(st) == {q \in requests : q.st \in st}
Becomes(q, r) == requests' = (requests \ {q}) \cup {r}

\* VicrabQueueableRequestManager isReady: "at least one operation" is the one whose
\* handler asks.
ReadyAlways == TRUE
IsReady == Cardinality(requests) <= 1

-----------------------------------------------------------------------------
(* The process *)

\* The client is made, enabled or not by its options, and sends what is stored.
Launch ==
    /\ ~up
    /\ up' = TRUE
    /\ enabled' \in (IF MaxToggles = 0 THEN {TRUE} ELSE BOOLEAN)
    /\ IF enabled' THEN AddsRequests(disk) ELSE UNCHANGED <<requests, made>>
    /\ UNCHANGED <<disk, thread, handler, stored, responses, called, lastEvent, bounds>>

\* What was stored stays stored: writes are atomic.
Exit ==
    /\ up /\ exits < MaxExits
    /\ exits' = exits + 1
    /\ up' = FALSE
    /\ requests' = {} /\ made' = 0
    /\ thread' = [t \in Threads |-> ThreadIdle]
    /\ handler' = HandlerIdle
    /\ lastEvent' = NoEvent
    /\ UNCHANGED <<enabled, disk, stored, responses, called, toggles>>

SetEnabled ==
    /\ up /\ toggles < MaxToggles
    /\ toggles' = toggles + 1
    /\ enabled' = ~enabled
    /\ UNCHANGED <<up, disk, requests, made, thread, handler, stored, responses, called,
                   lastEvent, exits>>

-----------------------------------------------------------------------------
(* Sending, on any thread *)

Idle(t) == up /\ thread[t].pc = "idle"

\* storeEvent: to be sent with the next batch.
StoreEvent(t) ==
    /\ Idle(t) /\ Writes
    /\ thread' = [thread EXCEPT ![t] = [pc |-> "storing", event |-> NoEvent]]
    /\ UNCHANGED <<client, requests, made, handler, responses, called, lastEvent, bounds>>

\* sendEvent stores the event in any case ...
SendEvent(t) ==
    /\ Idle(t) /\ Writes
    /\ thread' = [thread EXCEPT ![t] = [pc |-> "sending", event |-> stored + 1]]
    /\ UNCHANGED <<client, requests, made, handler, responses, called, lastEvent, bounds>>

Prunes(t) ==
    /\ disk' = Limited(disk)
    /\ \/ /\ thread[t].pc = "storing"
          /\ thread' = [thread EXCEPT ![t] = ThreadIdle]
       \/ /\ thread[t].pc = "sending"
          /\ thread' = [thread EXCEPT ![t].pc = "enqueue"]
    /\ UNCHANGED <<client, requests, made, handler, stored, responses, called, lastEvent, bounds>>

\* ... and leaves it there if the client is disabled.
Enqueue(t) ==
    /\ thread[t].pc = "enqueue"
    /\ IF enabled THEN AddsRequest(thread[t].event) ELSE UNCHANGED <<requests, made>>
    /\ thread' = [thread EXCEPT ![t] = ThreadIdle]
    /\ UNCHANGED <<client, disk, handler, stored, responses, called, lastEvent, bounds>>

-----------------------------------------------------------------------------
(* Requests *)

\* The operation queue starts operations in the order they were added.
StartRequest ==
    /\ Cardinality(InState({"running", "answered", "handled"})) < MaxConcurrent
    /\ \E q \in InState({"waiting"}) :
         /\ \A r \in InState({"waiting"}) : q.id <= r.id
         /\ Becomes(q, [q EXCEPT !.st = "running"])
    /\ UNCHANGED <<client, disk, made, thread, handler, stored, responses, called, lastEvent, bounds>>

\* The server answers, or the request fails or times out.
Answer(q, outcome) ==
    /\ q.st = "running"
    /\ Becomes(q, [q EXCEPT !.st = "answered", !.outcome = outcome])
    /\ responses' = [responses EXCEPT ![q.event] = @ \cup {outcome}]
    /\ UNCHANGED <<client, disk, made, thread, handler, stored, called, lastEvent, bounds>>

\* The handlers run one at a time, on the session's delegate queue.
Handles(q) ==
    /\ handler.pc = "idle" /\ q.st = "answered"
    /\ Becomes(q, [q EXCEPT !.st = "handled"])

\* setupQueueing: shouldQueueEvent
QueuesNever(outcome) == FALSE
ShouldQueueEvent(outcome) == outcome \in {"none", "limited"}
RemovesFile(event) == ~Locked /\ disk' = disk \ {event}

\* sendEvent's handler: no error means sent, and a chance to send what is stored.
HandleFirst(q) ==
    /\ Handles(q) /\ ~q.again
    /\ IF ShouldQueueEvent(q.outcome) THEN UNCHANGED disk ELSE RemovesFile(q.event)
    /\ IF HasResponse(q.outcome)
       THEN lastEvent' = q.event /\ handler' = [HandlerIdle EXCEPT !.pc = "check"]
       ELSE UNCHANGED lastEvent /\ handler' = [HandlerIdle EXCEPT !.pc = "finish"]
    /\ UNCHANGED <<client, made, thread, stored, responses, called, bounds>>

CheckReady ==
    /\ handler.pc = "check"
    /\ handler' = [handler EXCEPT !.pc = IF enabled /\ IsReady THEN "list" ELSE "finish"]
    /\ UNCHANGED <<client, disk, requests, made, thread, stored, responses, called, lastEvent, bounds>>

ListStored ==
    /\ handler.pc = "list" /\ ~Locked
    /\ handler' = [handler EXCEPT !.pc = "enqueue", !.todo = disk]
    /\ UNCHANGED <<client, disk, requests, made, thread, stored, responses, called, lastEvent, bounds>>

EnqueueStored ==
    /\ handler.pc = "enqueue"
    /\ AddsRequests(handler.todo)
    /\ handler' = [HandlerIdle EXCEPT !.pc = "finish"]
    /\ UNCHANGED <<client, disk, thread, stored, responses, called, lastEvent, bounds>>

\* sendAllStoredEvents' handler: with a response of any kind the file goes.
HandleAgain(q) ==
    /\ Handles(q) /\ q.again
    /\ IF HasResponse(q.outcome) THEN RemovesFile(q.event) ELSE UNCHANGED disk
    /\ handler' = [HandlerIdle EXCEPT !.pc = "finish"]
    /\ UNCHANGED <<client, made, thread, stored, responses, called, lastEvent, bounds>>

\* The application's completion handler, then completeOperation.
CallsOnSuccess(q) ==
    called' = IF q.again \/ ~HasResponse(q.outcome) THEN called ELSE called \cup {q.event}
Calls(q) == called' = IF q.again THEN called ELSE called \cup {q.event}
Finish ==
    /\ handler.pc = "finish"
    /\ \E q \in InState({"handled"}) : Calls(q) /\ requests' = requests \ {q}
    /\ made' = IF requests' = {} THEN 0 ELSE made
    /\ handler' = HandlerIdle
    /\ UNCHANGED <<client, disk, thread, stored, responses, lastEvent, bounds>>

-----------------------------------------------------------------------------
\* The first client finds an empty folder.
Init ==
    /\ up = FALSE /\ enabled = FALSE
    /\ disk = {}
    /\ requests = {} /\ made = 0
    /\ thread = [t \in Threads |-> ThreadIdle]
    /\ handler = HandlerIdle
    /\ stored = 0
    /\ responses = [n \in Events |-> {}]
    /\ called = {}
    /\ lastEvent = NoEvent
    /\ exits = 0 /\ toggles = 0

AnswerSome == \E q \in requests, outcome \in Outcomes : Answer(q, outcome)
HandleSome == \E q \in requests : HandleFirst(q) \/ HandleAgain(q)
HandlerStep == CheckReady \/ ListStored \/ EnqueueStored \/ Finish

Next ==
    \/ Launch \/ Exit \/ SetEnabled
    \/ \E t \in Threads : StoreEvent(t) \/ SendEvent(t) \/ Prunes(t) \/ Enqueue(t)
    \/ StartRequest \/ AnswerSome \/ HandleSome
    \/ CheckReady \/ ListStored \/ EnqueueStored \/ Finish

Spec == Init /\ [][Next]_vars

\* Threads are scheduled, the operation queue starts what it may, a request times
\* out if it is not answered, and the delegate queue runs its handlers.
Fairness ==
    /\ WF_vars(StartRequest) /\ WF_vars(AnswerSome)
    /\ WF_vars(HandleSome) /\ WF_vars(HandlerStep)
    /\ \A t \in Threads : WF_vars(Prunes(t)) /\ WF_vars(Enqueue(t))
FairSpec == Spec /\ Fairness

-----------------------------------------------------------------------------
(* Properties *)

\* Whatever the threads, the network and restarts do, an event leaves the disk only
\* when it was answered or when newer ones fill the disk.
Outbox == INSTANCE EventOutbox WITH
            put <- 1..stored,
            answered <- {n \in Events : \E r \in responses[n] : HasResponse(r)}
IsOutbox == Outbox!Spec

\* An event that is no longer on disk was answered, or as many events as the disk
\* keeps were stored after it.
NothingLost ==
    \A n \in (1..stored) \ disk : \/ \E r \in responses[n] : HasResponse(r)
                                  \/ n + MaxStored <= stored

\* The disk holds at most maxEvents events, one more while one is being stored, and one
\* more for every exit that came before the oldest were removed.
Storing == IF Locked THEN 1 ELSE 0
DiskLimited == Cardinality(disk) <= MaxStored + Storing + exits

\* A stored event is resent by one request at a time, and by its sender's at most
\* one more: isReady, read before the files are listed, keeps a second batch from
\* being added while the first is under way.
OneRetryEach ==
    \A p, q \in requests : p # q /\ p.event = q.event => p.again # q.again

\* "CompletionHandler will be called if set" (VicrabClient.h:174): unless the process
\* exits, a sent event's completion handler runs in the end.
CompletionCalled ==
    \A n \in Events : (\E t \in Threads : thread[t].event = n) ~> (n \in called \/ exits > 0)
=============================================================================
