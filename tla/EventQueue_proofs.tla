-------------------------- MODULE EventQueue_proofs --------------------------
(* For any threads, bounds and answers: EventQueue keeps its types, limits   *)
(* its disk, loses no event, resends none twice and implements EventOutbox. *)
EXTENDS EventQueue, FiniteSetTheorems, WellFoundedInduction, TLAPS

\* Every event in memory is one that was stored, and a request that was answered
\* carries an answer to its event.
Sound ==
    /\ disk \subseteq 1..stored
    /\ handler.todo \subseteq 1..stored
    /\ \A t \in Threads : thread[t].pc \in {"sending", "enqueue"} => thread[t].event \in 1..stored
    /\ \A q \in requests : q.event \in 1..stored
    /\ \A q \in requests : q.st = "answered" => q.outcome \in responses[q.event]

Inv == TypeOK /\ Sound /\ NothingLost

-----------------------------------------------------------------------------
(* Pruning the disk *)

\* An event that handleFileManagerLimit removes has maxEvents newer ones.
LEMMA PrunedIsOld ==
    ASSUME NEW s \in Nat, NEW S \in SUBSET (1..s), NEW n \in S \ Limited(S)
    PROVE  n + MaxStored <= s
<1> DEFINE T == {m \in S : m > n}
<1>1. n \in 1..s /\ T \subseteq (n + 1)..s
  <2> SUFFICES ASSUME NEW m \in T PROVE m \in (n + 1)..s OBVIOUS
  <2> QED OBVIOUS
<1>2. IsFiniteSet((n + 1)..s) /\ Cardinality((n + 1)..s) = s - n
  BY <1>1, FS_Interval
<1>3. Cardinality(T) \in Nat /\ Cardinality(T) <= s - n
  BY <1>1, <1>2, FS_Subset, FS_CardinalityType
<1>4. ~ (Cardinality(T) < MaxStored)
  BY DEF Limited
<1> QED BY <1>1, <1>3, <1>4, QueueAssumption

\* A set of stored events has an oldest one: the one with the fewest before it.
LEMMA Oldest ==
    ASSUME NEW S \in SUBSET Nat, IsFiniteSet(S), NEW T \in SUBSET S, T # {}
    PROVE  \E x \in T : \A y \in T : y >= x
<1> DEFINE UpTo(x) == {m \in S : m <= x}
           Initials == {UpTo(x) : x \in T}
<1>1. \A x \in T : UpTo(x) \in FiniteSubsetsOf(S)
  <2> SUFFICES ASSUME NEW x \in T PROVE UpTo(x) \in FiniteSubsetsOf(S) OBVIOUS
  <2>1. UpTo(x) \in SUBSET S OBVIOUS
  <2> HIDE DEF UpTo
  <2> QED BY <2>1, FS_Subset DEF FiniteSubsetsOf
<1>2. Initials \subseteq FiniteSubsetsOf(S) /\ Initials # {} BY <1>1
<1>3. PICK I \in Initials : \A J \in Initials : <<J, I>> \notin StrictSubsetOrdering(S)
  <2> HIDE DEF Initials
  <2> QED BY <1>2, FS_StrictSubsetOrderingWellFounded, WFMin
<1>4. PICK x \in T : I = UpTo(x) OBVIOUS
<1>5. ASSUME NEW y \in T, y < x PROVE FALSE
  <2> /\ x \in S /\ y \in S /\ x \in Nat /\ y \in Nat
      /\ \A m \in S : m \in Nat /\ (m <= y => m <= x) /\ ~ (x <= y) /\ x <= x
    BY <1>5
  <2>1. UpTo(y) \subseteq UpTo(x) /\ x \in UpTo(x) /\ x \notin UpTo(y) OBVIOUS
  <2>2. <<UpTo(y), UpTo(x)>> \in StrictSubsetOrdering(S)
    <3>1. UpTo(x) \in SUBSET S /\ UpTo(y) \in SUBSET S OBVIOUS
    <3> HIDE DEF UpTo
    <3> QED BY <2>1, <3>1 DEF StrictSubsetOrdering
  <2> QED BY <1>3, <1>4, <2>2
<1> QED BY <1>5

\* What it leaves is at most maxEvents events: the oldest of them and the newer.
LEMMA LimitedIsSmall ==
    ASSUME NEW S \in SUBSET Nat, IsFiniteSet(S)
    PROVE  Cardinality(Limited(S)) <= MaxStored
<1> DEFINE T == Limited(S)
<1>1. T \subseteq S /\ T \subseteq Nat BY DEF Limited
<1>2. CASE T = {}
  BY <1>2, FS_EmptySet, QueueAssumption
<1>3. CASE T # {}
  <2>1. PICK x \in T : \A y \in T : y >= x BY <1>1, <1>3, Oldest
  <2> DEFINE U == {m \in S : m > x}
  <2>2. Cardinality(U) < MaxStored
    BY <2>1 DEF Limited
  <2>3. U \in SUBSET S OBVIOUS
  <2>4. IsFiniteSet(U) /\ Cardinality(U) \in Nat
    <3> HIDE DEF U
    <3> QED BY <2>3, FS_Subset, FS_CardinalityType
  <2>5. x \notin U /\ T \subseteq U \cup {x}
    BY <1>1, <2>1
  <2>6. IsFiniteSet(U \cup {x}) /\ Cardinality(U \cup {x}) = Cardinality(U) + 1
    <3> HIDE DEF U
    <3> QED BY <2>4, <2>5, FS_AddElement
  <2>7. Cardinality(T) \in Nat /\ Cardinality(T) <= Cardinality(U) + 1
    <3> HIDE DEF U, T
    <3> QED BY <2>4, <2>5, <2>6, FS_Subset, FS_CardinalityType
  <2> HIDE DEF U, T
  <2>8. Cardinality(T) <= MaxStored BY <2>2, <2>4, <2>7, QueueAssumption
  <2> QED BY <2>8 DEF T
<1> QED BY <1>2, <1>3

\* Pruning keeps the events on disk, apart from old ones.
LEMMA PruningKeeps ==
    ASSUME TypeOK, Sound
    PROVE  /\ Limited(disk) \subseteq disk /\ Limited(disk) \in SUBSET Events
           /\ \A n \in disk \ Limited(disk) : n + MaxStored <= stored
<1>1. stored \in Nat /\ disk \in SUBSET (1..stored) /\ disk \in SUBSET Events
  BY QueueAssumption DEF TypeOK, Sound
<1>2. Limited(disk) \subseteq disk BY DEF Limited
<1> QED BY <1>1, <1>2, PrunedIsOld

-----------------------------------------------------------------------------
(* Requests *)

\* A new request is a request.
LEMMA NewRequest ==
    ASSUME NEW id \in Nat, NEW event \in Events, NEW again \in BOOLEAN
    PROVE  /\ Request(id, event, again) \in Requests
           /\ Request(id, event, again).event = event
           /\ Request(id, event, again).again = again
           /\ Request(id, event, again).st = "waiting"
BY DEF Request, Requests

\* A request that changes state keeps its event.
LEMMA Moved ==
    ASSUME NEW q \in Requests, NEW st \in {"running", "handled"}
    PROVE  /\ [q EXCEPT !.st = st] \in Requests
           /\ [q EXCEPT !.st = st].event = q.event
           /\ [q EXCEPT !.st = st].again = q.again
           /\ [q EXCEPT !.st = st].st = st
BY DEF Requests

\* So does a request that is answered.
LEMMA Answered ==
    ASSUME NEW q \in Requests, NEW outcome \in Outcomes
    PROVE  /\ [q EXCEPT !.st = "answered", !.outcome = outcome] \in Requests
           /\ [q EXCEPT !.st = "answered", !.outcome = outcome].event = q.event
           /\ [q EXCEPT !.st = "answered", !.outcome = outcome].again = q.again
           /\ [q EXCEPT !.st = "answered", !.outcome = outcome].outcome = outcome
           /\ [q EXCEPT !.st = "answered", !.outcome = outcome].st = "answered"
BY DEF Requests

\* sendAllStoredEvents adds sound requests, one of each event and numbered apart.
LEMMA AddsRequestsType ==
    ASSUME TypeOK, Sound, NEW S \in SUBSET (1..stored), AddsRequests(S)
    PROVE  /\ made' \in Nat /\ requests' \in SUBSET Requests
           /\ \A q \in requests' \ requests :
                q.event \in S /\ q.again /\ q.st = "waiting"
           /\ \A p, q \in requests' \ requests : p.event = q.event => p = q
           /\ requests \subseteq requests'
<1> DEFINE Added == {Request(made + Position(S, n), n, TRUE) : n \in S}
<1>1. stored \in Nat /\ made \in Nat /\ S \subseteq Events
  BY QueueAssumption DEF TypeOK, Events
<1>2. IsFiniteSet(S) /\ Cardinality(S) \in Nat
  <2>1. 1 \in Int /\ stored \in Int BY <1>1
  <2>2. IsFiniteSet(1..stored) BY <2>1, FS_Interval
  <2>3. IsFiniteSet(S) BY <2>2, FS_Subset
  <2> QED BY <2>3, FS_CardinalityType
<1>3. \A n \in S : Position(S, n) \in Nat
  <2> SUFFICES ASSUME NEW n \in S PROVE Position(S, n) \in Nat OBVIOUS
  <2> DEFINE T == {m \in S : m <= n}
  <2>1. T \in SUBSET S OBVIOUS
  <2> HIDE DEF T
  <2>2. Cardinality(T) \in Nat BY <1>2, <2>1, FS_Subset, FS_CardinalityType
  <2> QED BY <2>2 DEF T, Position
<1>4. made' \in Nat BY <1>1, <1>2 DEF AddsRequests
<1>5. requests' = requests \cup Added BY DEF AddsRequests
<1>6. \A n \in S : /\ Request(made + Position(S, n), n, TRUE) \in Requests
                   /\ Request(made + Position(S, n), n, TRUE).event = n
                   /\ Request(made + Position(S, n), n, TRUE).again = TRUE
                   /\ Request(made + Position(S, n), n, TRUE).st = "waiting"
  <2> SUFFICES ASSUME NEW n \in S
               PROVE  /\ Request(made + Position(S, n), n, TRUE) \in Requests
                      /\ Request(made + Position(S, n), n, TRUE).event = n
                      /\ Request(made + Position(S, n), n, TRUE).again = TRUE
                      /\ Request(made + Position(S, n), n, TRUE).st = "waiting"
    OBVIOUS
  <2>1. made + Position(S, n) \in Nat /\ n \in Events BY <1>1, <1>3
  <2> HIDE DEF Added
  <2> QED BY <2>1, NewRequest
<1>7. requests \in SUBSET Requests BY DEF TypeOK
<1>8. /\ \A q \in Added : q \in Requests /\ q.event \in S /\ q.again /\ q.st = "waiting"
      /\ \A p, q \in Added : p.event = q.event => p = q
  <2> DEFINE r(n) == Request(made + Position(S, n), n, TRUE)
  <2>1. \A n \in S : r(n) \in Requests /\ r(n).event = n /\ r(n).again /\ r(n).st = "waiting"
    BY <1>6
  <2>2. Added = {r(n) : n \in S} OBVIOUS
  <2> HIDE DEF r, Added
  <2> QED BY <2>1, <2>2
<1> HIDE DEF Added
<1> QED BY <1>4, <1>5, <1>7, <1>8

\* Adding one request.
LEMMA AddsRequestType ==
    ASSUME TypeOK, Sound, NEW event \in 1..stored, AddsRequest(event)
    PROVE  /\ made' \in Nat /\ requests' \in SUBSET Requests
           /\ \A q \in requests' \ requests :
                q.event = event /\ ~ q.again /\ q.st = "waiting"
           /\ \A p, q \in requests' \ requests : p = q
           /\ requests \subseteq requests'
<1> DEFINE r == Request(made + 1, event, FALSE)
<1>1. made + 1 \in Nat /\ event \in Events
  BY QueueAssumption DEF TypeOK, Events
<1>2. r \in Requests /\ r.event = event /\ r.again = FALSE /\ r.st = "waiting"
  BY <1>1, NewRequest
<1>3. requests' = requests \cup {r} /\ made' = made + 1 BY DEF AddsRequest
<1>4. requests \in SUBSET Requests BY DEF TypeOK
<1> HIDE DEF r
<1> QED BY <1>1, <1>2, <1>3, <1>4

-----------------------------------------------------------------------------
(* The invariant *)

\* Nothing is lost by a step that stores nothing, forgets no answer and removes
\* only answered events.
LEMMA LosesNothing ==
    ASSUME TypeOK, NothingLost, stored' = stored,
           \A n \in Events : responses[n] \subseteq responses'[n],
           \A n \in disk \ disk' : \E r \in responses[n] : HasResponse(r)
    PROVE  NothingLost'
<1> SUFFICES ASSUME NEW n \in (1..stored) \ disk'
             PROVE  \/ \E r \in responses'[n] : HasResponse(r)
                    \/ n + MaxStored <= stored
  BY DEF NothingLost
<1>1. n \in Events BY QueueAssumption DEF TypeOK, Events
<1>2. \/ \E r \in responses[n] : HasResponse(r)
      \/ n + MaxStored <= stored
  BY DEF NothingLost
<1> QED BY <1>1, <1>2

\* A client that starts, with or without requests for what is on disk, is sound.
LEMMA LaunchInv == ASSUME Inv, Launch PROVE Inv'
<1>1. disk \in SUBSET (1..stored) BY DEF Inv, Sound
<1>2. /\ made' \in Nat /\ requests' \in SUBSET Requests
      /\ \A q \in requests' \ requests : q.event \in 1..stored /\ q.st = "waiting"
  <2>1. CASE AddsRequests(disk)
    BY <1>1, <2>1, AddsRequestsType DEF Inv
  <2>2. CASE UNCHANGED <<requests, made>>
    BY <2>2 DEF Inv, TypeOK
  <2> QED BY <2>1, <2>2 DEF Launch
<1>3. TypeOK' BY <1>2 DEF Inv, TypeOK, Launch, bounds
<1>4. Sound' BY <1>2 DEF Inv, Sound, Launch, bounds
<1>5. NothingLost' BY DEF Inv, NothingLost, Launch
<1> QED BY <1>3, <1>4, <1>5 DEF Inv

\* The end of the process forgets what was in memory and nothing on disk.
LEMMA ExitInv == ASSUME Inv, Exit PROVE Inv'
<1>1. TypeOK'
  <2>1. thread' \in [Threads -> [pc : {"idle", "storing", "sending", "enqueue"}, event : Events \cup {NoEvent}]]
    BY DEF Exit, ThreadIdle
  <2>2. handler' \in [pc : {"idle", "check", "list", "enqueue", "finish"}, todo : SUBSET Events]
    BY DEF Exit, HandlerIdle
  <2>3. exits' \in 0..MaxExits BY QueueAssumption DEF Inv, TypeOK, Exit
  <2> QED BY <2>1, <2>2, <2>3 DEF Inv, TypeOK, Exit
<1>2. Sound' BY DEF Inv, Sound, Exit, ThreadIdle, HandlerIdle
<1>3. NothingLost' BY DEF Inv, NothingLost, Exit
<1> QED BY <1>1, <1>2, <1>3 DEF Inv

LEMMA SetEnabledInv == ASSUME Inv, SetEnabled PROVE Inv'
<1>1. TypeOK' BY QueueAssumption DEF Inv, TypeOK, SetEnabled
<1>2. Sound' BY DEF Inv, Sound, SetEnabled
<1>3. NothingLost' BY DEF Inv, NothingLost, SetEnabled
<1> QED BY <1>1, <1>2, <1>3 DEF Inv

\* Storing an event, to send it with the next batch or at once.
LEMMA StoreInv ==
    ASSUME Inv, NEW t \in Threads, StoreEvent(t) \/ SendEvent(t)
    PROVE  /\ Inv'
           /\ stored' = stored + 1 /\ stored + 1 \in Events \ (1..stored)
           /\ 1..stored' = (1..stored) \cup {stored + 1}
           /\ disk' = disk \cup {stored + 1}
<1>1. Writes BY DEF StoreEvent, SendEvent
<1>2. stored \in Nat /\ stored' = stored + 1 /\ stored' \in 0..MaxEvents
  BY <1>1, QueueAssumption DEF Inv, TypeOK, Writes
<1>3. /\ 1..stored' = (1..stored) \cup {stored + 1}
      /\ stored + 1 \in Events \ (1..stored) /\ stored + 1 \in 1..stored'
  BY <1>2, QueueAssumption DEF Events
<1>4. /\ disk' = disk \cup {stored + 1} /\ disk' \subseteq 1..stored' /\ disk' \in SUBSET Events
  BY <1>1, <1>3 DEF Inv, TypeOK, Sound, Writes
<1>5. /\ requests' = requests /\ made' = made /\ handler' = handler
      /\ responses' = responses /\ UNCHANGED <<up, enabled, called, lastEvent, exits, toggles>>
  BY DEF StoreEvent, SendEvent, client, bounds
<1>6. \/ thread' = [thread EXCEPT ![t] = [pc |-> "storing", event |-> NoEvent]]
      \/ thread' = [thread EXCEPT ![t] = [pc |-> "sending", event |-> stored + 1]]
  BY DEF StoreEvent, SendEvent
<1>7. /\ thread' \in [Threads -> [pc : {"idle", "storing", "sending", "enqueue"}, event : Events \cup {NoEvent}]]
      /\ \A u \in Threads : thread'[u].pc \in {"sending", "enqueue"} => thread'[u].event \in 1..stored'
  BY <1>3, <1>6 DEF Inv, TypeOK, Sound
<1>8. TypeOK' BY <1>2, <1>4, <1>5, <1>7 DEF Inv, TypeOK
<1>9. Sound' BY <1>3, <1>4, <1>5, <1>7 DEF Inv, Sound
<1>10. NothingLost'
  <2> SUFFICES ASSUME NEW n \in (1..stored') \ disk'
               PROVE  \/ \E r \in responses[n] : HasResponse(r)
                      \/ n + MaxStored <= stored'
    BY <1>5 DEF NothingLost
  <2>1. n \in (1..stored) \ disk BY <1>3, <1>4
  <2> QED BY <2>1, <1>2, <1>3, QueueAssumption DEF Inv, NothingLost
<1> QED BY <1>2, <1>3, <1>4, <1>8, <1>9, <1>10 DEF Inv

\* Removing the oldest events, and then on with the sending.
LEMMA PrunesInv ==
    ASSUME Inv, NEW t \in Threads, Prunes(t) PROVE Inv'
<1>1. /\ disk' = Limited(disk) /\ disk' \subseteq disk /\ disk' \in SUBSET Events
      /\ \A n \in disk \ disk' : n + MaxStored <= stored
  BY PruningKeeps DEF Inv, Prunes
<1>2. /\ thread' \in [Threads -> [pc : {"idle", "storing", "sending", "enqueue"}, event : Events \cup {NoEvent}]]
      /\ \A u \in Threads : thread'[u].pc \in {"sending", "enqueue"} => thread'[u].event \in 1..stored
  <2>1. CASE thread[t].pc = "storing" /\ thread' = [thread EXCEPT ![t] = ThreadIdle]
    BY <2>1 DEF Inv, TypeOK, Sound, ThreadIdle
  <2>2. CASE thread[t].pc = "sending" /\ thread' = [thread EXCEPT ![t].pc = "enqueue"]
    BY <2>2 DEF Inv, TypeOK, Sound
  <2> QED BY <2>1, <2>2 DEF Prunes
<1>3. UNCHANGED <<up, enabled, requests, made, handler, stored, responses, called, lastEvent, exits, toggles>>
  BY DEF Prunes, client, bounds
<1>4. TypeOK' BY <1>1, <1>2, <1>3 DEF Inv, TypeOK
<1>5. Sound' BY <1>1, <1>2, <1>3 DEF Inv, Sound
<1>6. NothingLost'
  <2> SUFFICES ASSUME NEW n \in (1..stored) \ disk'
               PROVE  \/ \E r \in responses[n] : HasResponse(r)
                      \/ n + MaxStored <= stored
    BY <1>3 DEF NothingLost
  <2>1. CASE n \in disk BY <1>1, <2>1
  <2>2. CASE n \notin disk BY <2>2 DEF Inv, NothingLost
  <2> QED BY <2>1, <2>2
<1> QED BY <1>4, <1>5, <1>6 DEF Inv

LEMMA EnqueueInv ==
    ASSUME Inv, NEW t \in Threads, Enqueue(t) PROVE Inv'
<1>1. thread[t].event \in 1..stored BY DEF Inv, Sound, Enqueue
<1>2. /\ made' \in Nat /\ requests' \in SUBSET Requests
      /\ \A q \in requests' \ requests : q.event \in 1..stored /\ q.st = "waiting"
  <2>1. CASE AddsRequest(thread[t].event)
    BY <1>1, <2>1, AddsRequestType DEF Inv
  <2>2. CASE UNCHANGED <<requests, made>>
    BY <2>2 DEF Inv, TypeOK
  <2> QED BY <2>1, <2>2 DEF Enqueue
<1>3. thread' \in [Threads -> [pc : {"idle", "storing", "sending", "enqueue"}, event : Events \cup {NoEvent}]]
  BY DEF Inv, TypeOK, Enqueue, ThreadIdle
<1>4. \A u \in Threads : thread'[u].pc \in {"sending", "enqueue"} => thread'[u].event \in 1..stored
  BY DEF Inv, TypeOK, Sound, Enqueue, ThreadIdle
<1>5. TypeOK' BY <1>2, <1>3 DEF Inv, TypeOK, Enqueue, client, bounds
<1>6. Sound' BY <1>2, <1>4 DEF Inv, Sound, Enqueue
<1>7. NothingLost' BY DEF Inv, NothingLost, Enqueue
<1> QED BY <1>5, <1>6, <1>7 DEF Inv

\* A request that moves on to another state, keeping its event and with an answer
\* to it if it is answered, leaves requests typed and sound.
LEMMA BecomesType ==
    ASSUME Inv, NEW q \in requests, NEW r \in Requests, r.event = q.event, Becomes(q, r)
    PROVE  /\ requests' \in SUBSET Requests
           /\ \A p \in requests' : p.event \in 1..stored
           /\ \A p \in requests' : p \in requests \/ p = r
BY DEF Inv, TypeOK, Sound, Becomes

LEMMA StartRequestInv == ASSUME Inv, StartRequest PROVE Inv'
<1>1. PICK q \in requests : Becomes(q, [q EXCEPT !.st = "running"])
  BY DEF StartRequest, InState
<1> DEFINE r == [q EXCEPT !.st = "running"]
<1>2. q \in Requests BY DEF Inv, TypeOK
<1>3. r \in Requests /\ r.event = q.event /\ r.st = "running"
  BY <1>2, Moved
<1>4. Becomes(q, r) BY <1>1
<1> HIDE DEF r
<1>5. /\ requests' \in SUBSET Requests
      /\ \A p \in requests' : p.event \in 1..stored
      /\ \A p \in requests' : p \in requests \/ p = r
  BY <1>3, <1>4, BecomesType
<1>6. TypeOK' BY <1>5 DEF Inv, TypeOK, StartRequest, client, bounds
<1>7. Sound' BY <1>3, <1>5 DEF Inv, Sound, StartRequest
<1>8. NothingLost' BY DEF Inv, NothingLost, StartRequest
<1> QED BY <1>6, <1>7, <1>8 DEF Inv

LEMMA AnswerInv ==
    ASSUME Inv, NEW q \in requests, NEW outcome \in Outcomes, Answer(q, outcome)
    PROVE  Inv'
<1> DEFINE r == [q EXCEPT !.st = "answered", !.outcome = outcome]
<1>1. q \in Requests BY DEF Inv, TypeOK
<1>2. r \in Requests /\ r.event = q.event /\ r.outcome = outcome
  BY <1>1, Answered
<1>3. Becomes(q, r) BY DEF Answer
<1> HIDE DEF r
<1>4. /\ requests' \in SUBSET Requests
      /\ \A p \in requests' : p.event \in 1..stored
      /\ \A p \in requests' : p \in requests \/ p = r
  BY <1>2, <1>3, BecomesType
<1>5. q.event \in Events BY <1>1 DEF Requests
<1>6. /\ responses' \in [Events -> SUBSET Outcomes]
      /\ \A n \in Events : responses[n] \subseteq responses'[n]
      /\ outcome \in responses'[q.event]
  <2>1. responses' = [responses EXCEPT ![q.event] = responses[q.event] \cup {outcome}]
    BY DEF Answer
  <2> QED BY <1>5, <2>1 DEF Inv, TypeOK
<1>7. TypeOK' BY <1>4, <1>6 DEF Inv, TypeOK, Answer, client, bounds
<1>8. Sound'
  <2>1. \A p \in requests' : p.st = "answered" => p.outcome \in responses'[p.event]
    <3> SUFFICES ASSUME NEW p \in requests', p.st = "answered"
                 PROVE  p.outcome \in responses'[p.event]
      OBVIOUS
    <3>1. CASE p = r BY <3>1, <1>2, <1>6
    <3>2. CASE p \in requests
      <4>1. p.event \in Events /\ p.outcome \in responses[p.event]
        BY <3>2 DEF Inv, TypeOK, Sound, Requests
      <4> QED BY <4>1, <1>6
    <3> QED BY <3>1, <3>2, <1>4
  <2> QED BY <2>1, <1>4 DEF Inv, Sound, Answer
<1>9. NothingLost' BY <1>6, LosesNothing DEF Inv, Answer
<1> QED BY <1>7, <1>8, <1>9 DEF Inv

\* Handling an answer removes the event at most when it was answered.
LEMMA HandleInv ==
    ASSUME Inv, NEW q \in requests, HandleFirst(q) \/ HandleAgain(q)
    PROVE  /\ Inv'
           /\ \/ disk' = disk
              \/ disk' = disk \ {q.event} /\ \E o \in responses[q.event] : HasResponse(o)
<1> DEFINE r == [q EXCEPT !.st = "handled"]
<1>1. q \in Requests BY DEF Inv, TypeOK
<1>2. r \in Requests /\ r.event = q.event /\ r.st = "handled"
  BY <1>1, Moved
<1>3. Becomes(q, r) /\ q.st = "answered" BY DEF HandleFirst, HandleAgain, Handles
<1> HIDE DEF r
<1>4. /\ requests' \in SUBSET Requests
      /\ \A p \in requests' : p.event \in 1..stored
      /\ \A p \in requests' : p \in requests \/ p = r
  BY <1>2, <1>3, BecomesType
<1>5. q.event \in Events /\ q.outcome \in responses[q.event]
  BY <1>1, <1>3 DEF Inv, Sound, Requests
<1>6. ~ ShouldQueueEvent(q.outcome) => HasResponse(q.outcome)
  BY DEF ShouldQueueEvent, HasResponse
<1>7. \/ disk' = disk
      \/ disk' = disk \ {q.event} /\ HasResponse(q.outcome)
  BY <1>6 DEF HandleFirst, HandleAgain, RemovesFile
<1>8. /\ \/ handler'.pc = "check" /\ lastEvent' = q.event
         \/ handler'.pc = "finish" /\ lastEvent' = lastEvent
      /\ handler' \in [pc : {"check", "finish"}, todo : {{}}]
  BY DEF HandleFirst, HandleAgain, HandlerIdle
<1>9. /\ stored' = stored /\ made' = made /\ thread' = thread
      /\ responses' = responses /\ UNCHANGED <<up, enabled, called, exits, toggles>>
  BY DEF HandleFirst, HandleAgain, client, bounds
<1>10. handler' \in [pc : {"idle", "check", "list", "enqueue", "finish"}, todo : SUBSET Events]
       /\ handler'.todo = {}
  BY <1>8
<1>11. disk' \in SUBSET Events /\ disk' \subseteq disk BY <1>7 DEF Inv, TypeOK
<1>12. lastEvent' \in Events \cup {NoEvent} BY <1>5, <1>8 DEF Inv, TypeOK
<1>13. TypeOK' BY <1>4, <1>9, <1>10, <1>11, <1>12 DEF Inv, TypeOK
<1>14. Sound' BY <1>2, <1>4, <1>9, <1>10, <1>11 DEF Inv, Sound
<1>15. NothingLost'
  <2>1. \A n \in disk \ disk' : \E o \in responses[n] : HasResponse(o)
    BY <1>5, <1>7
  <2> QED BY <2>1, <1>9, LosesNothing DEF Inv
<1> QED BY <1>5, <1>7, <1>13, <1>14, <1>15 DEF Inv

LEMMA CheckReadyInv == ASSUME Inv, CheckReady PROVE Inv'
<1>1. /\ handler' \in [pc : {"idle", "check", "list", "enqueue", "finish"}, todo : SUBSET Events]
      /\ handler'.todo = handler.todo
  BY DEF Inv, TypeOK, CheckReady
<1>2. TypeOK' BY <1>1 DEF Inv, TypeOK, CheckReady, client, bounds
<1>3. Sound' BY <1>1 DEF Inv, Sound, CheckReady
<1>4. NothingLost' BY DEF Inv, NothingLost, CheckReady
<1> QED BY <1>2, <1>3, <1>4 DEF Inv

LEMMA ListStoredInv == ASSUME Inv, ListStored PROVE Inv'
<1>1. /\ handler' \in [pc : {"idle", "check", "list", "enqueue", "finish"}, todo : SUBSET Events]
      /\ handler'.todo = disk
  BY DEF Inv, TypeOK, ListStored
<1>2. TypeOK' BY <1>1 DEF Inv, TypeOK, ListStored, client, bounds
<1>3. Sound' BY <1>1 DEF Inv, Sound, ListStored
<1>4. NothingLost' BY DEF Inv, NothingLost, ListStored
<1> QED BY <1>2, <1>3, <1>4 DEF Inv

LEMMA EnqueueStoredInv == ASSUME Inv, EnqueueStored PROVE Inv'
<1>1. handler.todo \in SUBSET (1..stored) /\ AddsRequests(handler.todo)
  BY DEF Inv, Sound, EnqueueStored
<1>2. /\ made' \in Nat /\ requests' \in SUBSET Requests
      /\ \A q \in requests' \ requests : q.event \in 1..stored /\ q.st = "waiting"
  BY <1>1, AddsRequestsType DEF Inv
<1>3. handler' = [pc |-> "finish", todo |-> {}] BY DEF EnqueueStored, HandlerIdle
<1>4. TypeOK'
  <2>1. handler' \in [pc : {"idle", "check", "list", "enqueue", "finish"}, todo : SUBSET Events]
    BY <1>3
  <2> QED BY <1>2, <2>1 DEF Inv, TypeOK, EnqueueStored, client, bounds
<1>5. Sound' BY <1>2, <1>3 DEF Inv, Sound, EnqueueStored
<1>6. NothingLost' BY DEF Inv, NothingLost, EnqueueStored
<1> QED BY <1>4, <1>5, <1>6 DEF Inv

LEMMA FinishInv == ASSUME Inv, Finish PROVE Inv'
<1>1. PICK q \in requests : Calls(q) /\ requests' = requests \ {q}
  BY DEF Finish, InState
<1>2. q.event \in Events BY DEF Inv, TypeOK, Requests
<1>3. called' \in SUBSET Events BY <1>1, <1>2 DEF Inv, TypeOK, Calls
<1>4. handler' = [pc |-> "idle", todo |-> {}] BY DEF Finish, HandlerIdle
<1>5. made' \in Nat BY DEF Inv, TypeOK, Finish
<1>6. TypeOK' BY <1>1, <1>3, <1>4, <1>5 DEF Inv, TypeOK, Finish, client, bounds
<1>7. Sound' BY <1>1, <1>4 DEF Inv, Sound, Finish
<1>8. NothingLost' BY DEF Inv, NothingLost, Finish
<1> QED BY <1>6, <1>7, <1>8 DEF Inv

LEMMA InvInit == ASSUME Init PROVE Inv
<1>1. TypeOK
  <2>1. thread \in [Threads -> [pc : {"idle", "storing", "sending", "enqueue"}, event : Events \cup {NoEvent}]]
    BY DEF Init, ThreadIdle
  <2>2. handler \in [pc : {"idle", "check", "list", "enqueue", "finish"}, todo : SUBSET Events]
    BY DEF Init, HandlerIdle
  <2>3. stored \in 0..MaxEvents /\ exits \in 0..MaxExits /\ toggles \in 0..MaxToggles
    BY QueueAssumption DEF Init
  <2> QED BY <2>1, <2>2, <2>3 DEF Init, TypeOK
<1>2. Sound BY DEF Init, Sound, ThreadIdle, HandlerIdle
<1>3. NothingLost BY DEF Init, NothingLost
<1> QED BY <1>1, <1>2, <1>3 DEF Inv

LEMMA InvNext == ASSUME Inv, [Next]_vars PROVE Inv'
<1>1. CASE Launch BY <1>1, LaunchInv
<1>2. CASE Exit BY <1>2, ExitInv
<1>3. CASE SetEnabled BY <1>3, SetEnabledInv
<1>4. CASE \E t \in Threads : StoreEvent(t) \/ SendEvent(t) \/ Prunes(t) \/ Enqueue(t)
  BY <1>4, StoreInv, PrunesInv, EnqueueInv
<1>5. CASE StartRequest BY <1>5, StartRequestInv
<1>6. CASE AnswerSome BY <1>6, AnswerInv DEF AnswerSome
<1>7. CASE HandleSome BY <1>7, HandleInv DEF HandleSome
<1>8. CASE CheckReady BY <1>8, CheckReadyInv
<1>9. CASE ListStored BY <1>9, ListStoredInv
<1>10. CASE EnqueueStored BY <1>10, EnqueueStoredInv
<1>11. CASE Finish BY <1>11, FinishInv
<1>12. CASE UNCHANGED vars
  BY <1>12 DEF Inv, TypeOK, Sound, NothingLost, vars, client, bounds
<1> QED BY <1>1, <1>2, <1>3, <1>4, <1>5, <1>6, <1>7, <1>8, <1>9, <1>10, <1>11, <1>12
       DEF Next

LEMMA InvAlways == Spec => []Inv
<1>1. Init => Inv BY InvInit
<1>2. Inv /\ [Next]_vars => Inv' BY InvNext
<1> QED BY <1>1, <1>2, PTL DEF Spec

\* Whatever threads, answers, exits and changes of enabled: every event named by a
\* request, a thread or the disk exists, and every state has its type.
THEOREM TypeCorrect == Spec => []TypeOK
<1>1. Inv => TypeOK BY DEF Inv
<1> QED BY <1>1, InvAlways, PTL

\* An event that is gone from disk was answered, or maxEvents newer ones were stored.
THEOREM NothingLostAlways == Spec => []NothingLost
<1>1. Inv => NothingLost BY DEF Inv
<1> QED BY <1>1, InvAlways, PTL

-----------------------------------------------------------------------------
(* The disk is limited *)

\* What the limit adds up to.
LEMMA StillLimited ==
    ASSUME NEW c \in Nat, NEW d \in Nat, NEW m \in Nat, NEW i \in Int, NEW j \in Int,
           NEW e \in Nat, NEW f \in Nat, c <= m + i + e, d <= c, i + e <= j + f
    PROVE  d <= m + j + f
OBVIOUS

LEMMA OneExitMore ==
    ASSUME NEW i \in {0, 1}, NEW j \in {0, 1}, NEW e \in Nat
    PROVE  i + e <= j + (e + 1) /\ e + 1 \in Nat
OBVIOUS

LEMMA NotLess ==
    ASSUME NEW i \in {0, 1}, NEW j \in {0, 1}, NEW e \in Nat, i = 0 \/ j = 1
    PROVE  i + e <= j + e
OBVIOUS

LEMMA DiskLimitedNext == ASSUME Inv, DiskLimited, [Next]_vars PROVE DiskLimited'
<1>1. /\ stored \in Nat /\ IsFiniteSet(disk) /\ disk \subseteq Nat /\ Cardinality(disk) \in Nat
      /\ exits \in Nat /\ MaxStored \in Nat
  <2>1. stored \in Nat /\ disk \in SUBSET (1..stored) /\ exits \in Nat /\ MaxStored \in Nat
    BY QueueAssumption DEF Inv, TypeOK, Sound
  <2>2. IsFiniteSet(1..stored) BY <2>1, FS_Interval
  <2>3. IsFiniteSet(disk) BY <2>1, <2>2, FS_Subset
  <2> QED BY <2>1, <2>3, FS_CardinalityType
<1>2. Storing \in {0, 1} /\ Storing' \in {0, 1} /\ (Locked => Storing = 1) /\ (~Locked => Storing = 0)
      /\ (Locked' => Storing' = 1)
  BY Zenon DEF Storing
<1>3. ASSUME NEW t \in Threads, StoreEvent(t) \/ SendEvent(t) PROVE DiskLimited'
  <2>1. disk' = disk \cup {stored + 1} /\ ~Locked /\ exits' = exits
    BY <1>3 DEF StoreEvent, SendEvent, Writes, bounds
  <2>2. Locked'
    BY <1>3 DEF StoreEvent, SendEvent, Inv, TypeOK, Locked
  <2>3. Cardinality(disk') <= Cardinality(disk) + 1
    BY <1>1, <2>1, FS_AddElement
  <2>4. IsFiniteSet(disk')
    BY <1>1, <2>1, FS_AddElement
  <2>5. Cardinality(disk') \in Nat BY <2>4, FS_CardinalityType
  <2> QED BY <1>1, <1>2, <2>1, <2>2, <2>3, <2>5 DEF DiskLimited
<1>4. ASSUME NEW t \in Threads, Prunes(t) PROVE DiskLimited'
  <2>1. disk' = Limited(disk) /\ exits' = exits BY <1>4 DEF Prunes, bounds
  <2>2. Cardinality(disk') <= MaxStored BY <1>1, <2>1, LimitedIsSmall
  <2>3. disk' \subseteq disk BY <2>1 DEF Limited
  <2>4. Cardinality(disk') \in Nat BY <1>1, <2>3, FS_Subset, FS_CardinalityType
  <2> QED BY <1>1, <1>2, <2>1, <2>2, <2>4 DEF DiskLimited
<1>5. ASSUME disk' \subseteq disk, Storing + exits <= Storing' + exits', exits' \in Nat
      PROVE  DiskLimited'
  <2>1. IsFiniteSet(disk') /\ Cardinality(disk') <= Cardinality(disk)
    BY <1>1, <1>5, FS_Subset
  <2>2. Cardinality(disk') \in Nat BY <2>1, FS_CardinalityType
  <2>3. Storing \in Int /\ Storing' \in Int BY <1>2
  <2>4. Cardinality(disk) <= MaxStored + Storing + exits BY DEF DiskLimited
  <2>5. Cardinality(disk') <= MaxStored + Storing' + exits'
    BY <1>1, <1>5, <2>1, <2>2, <2>3, <2>4, StillLimited
  <2> QED BY <2>5 DEF DiskLimited
<1>6. CASE Exit
  <2>1. disk' = disk /\ exits' = exits + 1 BY <1>6 DEF Exit
  <2>2. Storing + exits <= Storing' + exits' /\ exits' \in Nat BY <1>1, <1>2, <2>1, OneExitMore
  <2> QED BY <1>5, <2>1, <2>2
<1>7. ASSUME disk' \subseteq disk, thread' = thread, exits' = exits PROVE DiskLimited'
  <2>1. Storing' = Storing BY <1>7 DEF Storing, Locked
  <2> QED BY <1>1, <1>2, <1>5, <1>7, <2>1
<1>8. ASSUME NEW t \in Threads, Enqueue(t) PROVE DiskLimited'
  <2>1. disk' = disk /\ exits' = exits BY <1>8 DEF Enqueue, bounds
  <2>2. Locked => Locked'
    BY <1>8 DEF Enqueue, Inv, TypeOK, Locked
  <2>3. CASE Locked
    <3>1. Storing + exits <= Storing' + exits' /\ exits' \in Nat BY <1>1, <1>2, <2>1, <2>2, <2>3, NotLess
    <3> QED BY <1>5, <2>1, <3>1
  <2>4. CASE ~Locked
    <3>1. Storing + exits <= Storing' + exits' /\ exits' \in Nat BY <1>1, <1>2, <2>1, <2>4, NotLess
    <3> QED BY <1>5, <2>1, <3>1
  <2> QED BY <2>3, <2>4
<1>9. CASE HandleSome
  <2>1. \E q \in requests : HandleFirst(q) \/ HandleAgain(q) BY <1>9 DEF HandleSome
  <2> QED BY <1>7, <2>1 DEF HandleFirst, HandleAgain, RemovesFile, bounds
<1>10. CASE \/ Launch \/ SetEnabled \/ StartRequest \/ AnswerSome
            \/ CheckReady \/ ListStored \/ EnqueueStored \/ Finish \/ UNCHANGED vars
  BY <1>7, <1>10 DEF vars, Launch, SetEnabled, StartRequest, AnswerSome, Answer, CheckReady,
     ListStored, EnqueueStored, Finish, bounds
<1> QED BY <1>3, <1>4, <1>6, <1>8, <1>9, <1>10 DEF Next

\* The disk never holds more than maxEvents events, one more while one is stored, and
\* one more for every exit in the middle of storing one.
THEOREM DiskLimitedAlways == Spec => []DiskLimited
<1>1. Init => DiskLimited
  <2> SUFFICES ASSUME Init PROVE DiskLimited OBVIOUS
  <2>1. Cardinality(disk) = 0 /\ exits = 0 BY FS_EmptySet DEF Init
  <2>2. Storing \in {0, 1} BY Zenon DEF Storing
  <2> QED BY <2>1, <2>2, QueueAssumption DEF DiskLimited
<1>2. Inv /\ DiskLimited /\ [Next]_vars => DiskLimited' BY DiskLimitedNext
<1> QED BY <1>1, <1>2, InvAlways, PTL DEF Spec

-----------------------------------------------------------------------------
(* EventQueue implements EventOutbox *)

AnsweredEvents == {n \in Events : \E r \in responses[n] : HasResponse(r)}

LEMMA OutboxNext ==
    ASSUME Inv, [Next]_vars PROVE [Outbox!Next]_(Outbox!outboxVars)
<1> USE DEF Outbox!Next, Outbox!outboxVars
<1>1. CASE \E t \in Threads : StoreEvent(t) \/ SendEvent(t)
  <2>1. UNCHANGED responses
    BY <1>1 DEF StoreEvent, SendEvent
  <2>2. /\ 1..stored' = (1..stored) \cup {stored + 1} /\ stored + 1 \in Events \ (1..stored)
        /\ disk' = disk \cup {stored + 1}
    BY <1>1, StoreInv
  <2> QED BY <2>1, <2>2 DEF Outbox!Put
<1>5. CASE \E t \in Threads : Prunes(t)
  <2>1. UNCHANGED <<stored, responses>> /\ disk' = Limited(disk)
    BY <1>5 DEF Prunes
  <2>2. disk' = Outbox!Newest(disk)
    <3>1. \A S : Outbox!Cardinality(S) = Cardinality(S)
      BY DEF Outbox!Cardinality, Cardinality, Outbox!IsFiniteSet, IsFiniteSet
    <3> QED BY <2>1, <3>1 DEF Limited, Outbox!Newest
  <2> QED BY <2>1, <2>2 DEF Outbox!Displace
<1>2. CASE AnswerSome
  <2>1. PICK q \in requests, outcome \in Outcomes : Answer(q, outcome)
    BY <1>2 DEF AnswerSome
  <2>2. q.event \in 1..stored /\ q.event \in Events
    BY DEF Inv, TypeOK, Sound, Requests
  <2>3. responses' = [responses EXCEPT ![q.event] = responses[q.event] \cup {outcome}]
        /\ UNCHANGED <<disk, stored>>
    BY <2>1 DEF Answer
  <2>4. \/ AnsweredEvents' = AnsweredEvents
        \/ AnsweredEvents' = AnsweredEvents \cup {q.event}
    <3>1. \A n \in Events : responses'[n] = IF n = q.event THEN responses[n] \cup {outcome}
                                                         ELSE responses[n]
      BY <2>2, <2>3 DEF Inv, TypeOK
    <3>2. CASE HasResponse(outcome)
      BY <2>2, <3>1, <3>2 DEF AnsweredEvents
    <3>3. CASE ~ HasResponse(outcome)
      BY <2>2, <3>1, <3>3 DEF AnsweredEvents
    <3> QED BY <3>2, <3>3
  <2> QED BY <2>2, <2>3, <2>4 DEF AnsweredEvents, Outbox!Answer
<1>3. CASE HandleSome
  <2>1. PICK q \in requests : HandleFirst(q) \/ HandleAgain(q)
    BY <1>3 DEF HandleSome
  <2>2. \/ disk' = disk
        \/ disk' = disk \ {q.event} /\ \E o \in responses[q.event] : HasResponse(o)
    BY <2>1, HandleInv
  <2>3. UNCHANGED <<stored, responses>> BY <2>1 DEF HandleFirst, HandleAgain
  <2>4. q.event \in Events BY DEF Inv, TypeOK, Requests
  <2> QED BY <2>2, <2>3, <2>4 DEF Outbox!Discard
<1>4. CASE UNCHANGED <<disk, stored, responses>>
  BY <1>4
<1> QED BY <1>1, <1>2, <1>3, <1>4, <1>5
       DEF Next, vars, Launch, Exit, SetEnabled, Enqueue, StartRequest,
           CheckReady, ListStored, EnqueueStored, Finish

\* The client implements EventOutbox: no interleaving of threads, handlers, exits and
\* new clients removes an event that was neither answered nor displaced.
THEOREM ImplementsOutbox == Spec => IsOutbox
<1>1. Init => Outbox!Init
  BY DEF Init, Outbox!Init
<1>2. Inv /\ [Next]_vars => [Outbox!Next]_(Outbox!outboxVars) BY OutboxNext
<1> QED BY <1>1, <1>2, InvAlways, PTL DEF Spec, IsOutbox, Outbox!Spec

-----------------------------------------------------------------------------
(* One request resends an event *)

\* While the handler that found the queue ready lists the files and adds their
\* requests, nothing else resends; a sender's event has no request of its own yet.
Apart ==
    /\ OneRetryEach
    /\ IsFiniteSet(requests)
    /\ ~ up => /\ requests = {} /\ handler.pc = "idle"
               /\ \A t \in Threads : thread[t].pc = "idle"
    /\ handler.pc = "check" => \E q \in requests : q.st = "handled" /\ ~ q.again
    /\ handler.pc \in {"list", "enqueue"} => \A q \in requests : ~ q.again
    /\ \A t \in Threads : thread[t].pc \in {"sending", "enqueue"} =>
         /\ \A q \in requests : q.event = thread[t].event => q.again
         /\ \A u \in Threads \ {t} :
              thread[u].pc \in {"sending", "enqueue"} => thread[u].event # thread[t].event

\* sendAllStoredEvents adds finitely many requests.
LEMMA AddsRequestsFinite ==
    ASSUME Inv, IsFiniteSet(requests), NEW S \in SUBSET (1..stored), AddsRequests(S)
    PROVE  IsFiniteSet(requests')
<1> DEFINE f == [n \in S |-> Request(made + Position(S, n), n, TRUE)]
           Added == {Request(made + Position(S, n), n, TRUE) : n \in S}
<1>1. IsFiniteSet(S)
  <2>1. 1 \in Int /\ stored \in Int BY QueueAssumption DEF Inv, TypeOK
  <2>2. IsFiniteSet(1..stored) BY <2>1, FS_Interval
  <2> QED BY <2>2, FS_Subset
<1>2. f \in Surjection(S, Added) BY DEF Surjection
<1>3. IsFiniteSet(Added)
  <2> HIDE DEF f, Added
  <2> QED BY <1>1, <1>2, FS_Surjection
<1>4. requests' = requests \cup Added BY DEF AddsRequests
<1> HIDE DEF Added
<1> QED BY <1>3, <1>4, FS_Union

\* A ready queue holds one request, the one whose handler asks.
LEMMA ReadyIsOne ==
    ASSUME IsFiniteSet(requests), IsReady, NEW p \in requests, NEW q \in requests
    PROVE  p = q
<1> SUFFICES ASSUME p # q PROVE FALSE OBVIOUS
<1>1. IsFiniteSet({p}) /\ Cardinality({p}) = 1 BY FS_Singleton
<1>2. IsFiniteSet({p} \cup {q}) /\ Cardinality({p} \cup {q}) = 2
  BY <1>1, FS_AddElement
<1>3. {p} \cup {q} \in SUBSET requests OBVIOUS
<1>4. Cardinality({p} \cup {q}) <= Cardinality(requests) /\ Cardinality(requests) \in Nat
  BY <1>3, FS_Subset, FS_CardinalityType
<1> QED BY <1>2, <1>4 DEF IsReady

\* A request that only changes state keeps requests apart.
LEMMA BecomesApart ==
    ASSUME Apart, NEW q \in requests, NEW r, r.event = q.event, r.again = q.again,
           Becomes(q, r)
    PROVE  /\ OneRetryEach'
           /\ IsFiniteSet(requests')
           /\ \A p \in requests' : \E o \in requests : o.event = p.event /\ o.again = p.again
           /\ \A p \in requests \ {q} : p \in requests'
<1>1. requests' = (requests \ {q}) \cup {r} BY DEF Becomes
<1>2. IsFiniteSet(requests')
  <2>1. IsFiniteSet(requests \ {q}) BY FS_RemoveElement DEF Apart
  <2> QED BY <1>1, <2>1, FS_AddElement
<1>3. OneRetryEach'
  <2> SUFFICES ASSUME NEW o \in requests', NEW p \in requests', o # p, o.event = p.event
               PROVE  o.again # p.again
    BY DEF OneRetryEach
  <2>1. CASE o = r BY <1>1, <2>1 DEF Apart, OneRetryEach
  <2>2. CASE p = r BY <1>1, <2>2 DEF Apart, OneRetryEach
  <2>3. CASE o # r /\ p # r BY <1>1, <2>3 DEF Apart, OneRetryEach
  <2> QED BY <2>1, <2>2, <2>3
<1> QED BY <1>1, <1>2, <1>3

\* The requests for everything on disk are kept apart when nothing is being resent.
LEMMA ResendApart ==
    ASSUME Inv, Apart, NEW S \in SUBSET (1..stored), AddsRequests(S),
           \A q \in requests : ~ q.again
    PROVE  /\ OneRetryEach' /\ IsFiniteSet(requests')
           /\ \A q \in requests' : q \in requests \/ q.again
<1>1. /\ \A q \in requests' \ requests : q.again
      /\ \A p, q \in requests' \ requests : p.event = q.event => p = q
      /\ requests \subseteq requests' /\ requests' \in SUBSET Requests
  BY AddsRequestsType DEF Inv
<1>2. OneRetryEach'
  <2> SUFFICES ASSUME NEW o \in requests', NEW p \in requests', o # p, o.event = p.event
               PROVE  o.again # p.again
    BY DEF OneRetryEach
  <2>1. CASE o \in requests /\ p \in requests BY <2>1 DEF Apart, OneRetryEach
  <2>2. CASE o \notin requests /\ p \notin requests BY <1>1, <2>2
  <2>3. CASE o \in requests /\ p \notin requests
    <3>1. o.again \in BOOLEAN /\ p.again \in BOOLEAN BY <1>1 DEF Requests
    <3> QED BY <1>1, <2>3, <3>1
  <2>4. CASE o \notin requests /\ p \in requests
    <3>1. o.again \in BOOLEAN /\ p.again \in BOOLEAN BY <1>1 DEF Requests
    <3> QED BY <1>1, <2>4, <3>1
  <2> QED BY <2>1, <2>2, <2>3, <2>4
<1>3. IsFiniteSet(requests') BY AddsRequestsFinite DEF Apart
<1> QED BY <1>1, <1>2, <1>3

LEMMA LaunchApart == ASSUME Inv, Apart, Launch PROVE Apart'
<1>1. requests = {} /\ handler.pc = "idle" /\ \A t \in Threads : thread[t].pc = "idle"
  BY DEF Apart, Launch
<1>2. disk \in SUBSET (1..stored) BY DEF Inv, Sound
<1>3. /\ OneRetryEach' /\ IsFiniteSet(requests')
  <2>1. CASE AddsRequests(disk) BY <1>1, <1>2, <2>1, ResendApart
  <2>2. CASE UNCHANGED <<requests, made>> BY <2>2 DEF Apart, OneRetryEach
  <2> QED BY <2>1, <2>2 DEF Launch
<1>4. handler' = handler /\ thread' = thread /\ up'
  BY <1>1 DEF Apart, Launch
<1> QED BY <1>1, <1>3, <1>4 DEF Apart

LEMMA ExitApart == ASSUME Inv, Apart, Exit PROVE Apart'
<1>1. /\ requests' = {} /\ handler'.pc = "idle"
      /\ \A t \in Threads : thread'[t].pc = "idle"
  BY DEF Exit, HandlerIdle, ThreadIdle
<1>2. IsFiniteSet(requests') BY <1>1, FS_EmptySet
<1> QED BY <1>1, <1>2 DEF Apart, OneRetryEach

\* A new event has no request yet, and no other sender.
LEMMA StoreApart ==
    ASSUME Inv, Apart, NEW t \in Threads, StoreEvent(t) \/ SendEvent(t) PROVE Apart'
<1>1. UNCHANGED <<requests, handler, up>> /\ up BY DEF StoreEvent, SendEvent, client, Idle
<1>2. CASE StoreEvent(t)
  <2>1. \A u \in Threads : thread'[u] = IF u = t THEN [pc |-> "storing", event |-> NoEvent]
                                                 ELSE thread[u]
    BY <1>2 DEF StoreEvent, Inv, TypeOK
  <2> QED BY <1>1, <2>1 DEF Apart, OneRetryEach
<1>3. CASE SendEvent(t)
  <2>1. thread' = [thread EXCEPT ![t] = [pc |-> "sending", event |-> stored + 1]]
    BY <1>3 DEF SendEvent
  <2>2. \A u \in Threads : thread'[u] = IF u = t THEN [pc |-> "sending", event |-> stored + 1]
                                                 ELSE thread[u]
    BY <2>1 DEF Inv, TypeOK
  <2>3. /\ \A q \in requests : q.event # stored + 1
        /\ \A u \in Threads : thread[u].pc \in {"sending", "enqueue"} => thread[u].event # stored + 1
    BY QueueAssumption DEF Inv, TypeOK, Sound
  <2> QED BY <1>1, <2>2, <2>3 DEF Apart, OneRetryEach
<1> QED BY <1>2, <1>3

\* A sender that removed the oldest events goes on with its own.
LEMMA PrunesApart ==
    ASSUME Inv, Apart, NEW t \in Threads, Prunes(t) PROVE Apart'
<1>1. UNCHANGED <<requests, handler, up>> BY DEF Prunes, client
<1>2. up BY DEF Apart, Prunes
<1>3. \A u \in Threads : thread'[u].pc \in {"sending", "enqueue"} =>
        thread[u].pc \in {"sending", "enqueue"} /\ thread'[u].event = thread[u].event
  <2>1. CASE thread[t].pc = "storing" /\ thread' = [thread EXCEPT ![t] = ThreadIdle]
    BY <2>1 DEF Inv, TypeOK, ThreadIdle
  <2>2. CASE thread[t].pc = "sending" /\ thread' = [thread EXCEPT ![t].pc = "enqueue"]
    BY <2>2 DEF Inv, TypeOK
  <2> QED BY <2>1, <2>2 DEF Prunes
<1> QED BY <1>1, <1>2, <1>3 DEF Apart, OneRetryEach

\* The sender's request is the first and only one that is not a second attempt.
LEMMA EnqueueApart ==
    ASSUME Inv, Apart, NEW t \in Threads, Enqueue(t) PROVE Apart'
<1>1. /\ thread[t].pc = "enqueue" /\ thread[t].event \in 1..stored
      /\ \A q \in requests : q.event = thread[t].event => q.again
  BY DEF Inv, Sound, Apart, Enqueue
<1>2. /\ \A q \in requests' \ requests : q.event = thread[t].event /\ ~ q.again
      /\ \A p, q \in requests' \ requests : p = q
      /\ requests \subseteq requests' /\ requests' \in SUBSET Requests
  <2>1. CASE AddsRequest(thread[t].event) BY <1>1, <2>1, AddsRequestType DEF Inv
  <2>2. CASE UNCHANGED <<requests, made>> BY <2>2 DEF Inv, TypeOK
  <2> QED BY <2>1, <2>2 DEF Enqueue
<1>3. IsFiniteSet(requests')
  <2>1. IsFiniteSet(requests) BY DEF Apart
  <2>2. PICK r : requests' = requests \/ requests' = requests \cup {r}
    BY DEF Enqueue, AddsRequest
  <2> QED BY <2>1, <2>2, FS_AddElement
<1>4. OneRetryEach'
  <2> SUFFICES ASSUME NEW o \in requests', NEW p \in requests', o # p, o.event = p.event
               PROVE  o.again # p.again
    BY DEF OneRetryEach
  <2>1. CASE o \in requests /\ p \in requests BY <2>1 DEF Apart, OneRetryEach
  <2>2. CASE o \notin requests \/ p \notin requests BY <1>1, <1>2, <2>2
  <2> QED BY <2>1, <2>2
<1>5. \A u \in Threads : /\ thread'[u].pc \in {"sending", "enqueue"} => u # t
                         /\ u # t => thread'[u] = thread[u]
  BY DEF Inv, TypeOK, Enqueue, ThreadIdle
<1>6. UNCHANGED <<handler, up>> /\ up BY <1>1 DEF Apart, Enqueue, client
<1>7. \A u \in Threads : thread'[u].pc \in {"sending", "enqueue"} =>
        /\ \A q \in requests' : q.event = thread'[u].event => q.again
        /\ \A v \in Threads \ {u} :
             thread'[v].pc \in {"sending", "enqueue"} => thread'[v].event # thread'[u].event
  <2> SUFFICES ASSUME NEW u \in Threads, thread'[u].pc \in {"sending", "enqueue"}
               PROVE  /\ \A q \in requests' : q.event = thread'[u].event => q.again
                      /\ \A v \in Threads \ {u} :
                           thread'[v].pc \in {"sending", "enqueue"} => thread'[v].event # thread'[u].event
    OBVIOUS
  <2>1. u # t /\ thread'[u] = thread[u] /\ thread[u].event # thread[t].event
    BY <1>1, <1>5 DEF Apart
  <2> QED BY <1>2, <1>5, <2>1 DEF Apart
<1>8. /\ handler'.pc = "check" => \E q \in requests' : q.st = "handled" /\ ~ q.again
      /\ handler'.pc \in {"list", "enqueue"} => \A q \in requests' : ~ q.again
  BY <1>2, <1>6 DEF Apart
<1> QED BY <1>3, <1>4, <1>6, <1>7, <1>8 DEF Apart

\* Starting and answering a request.
LEMMA MoveApart ==
    ASSUME Inv, Apart, StartRequest \/ AnswerSome PROVE Apart'
<1>1. PICK q \in requests : /\ q.st \in {"waiting", "running"}
                            /\ \E r : r.event = q.event /\ r.again = q.again /\ Becomes(q, r)
  <2>1. CASE StartRequest
    <3>1. PICK q \in requests : q.st = "waiting" /\ Becomes(q, [q EXCEPT !.st = "running"])
      BY <2>1 DEF StartRequest, InState
    <3>2. q \in Requests BY DEF Inv, TypeOK
    <3>3. /\ [q EXCEPT !.st = "running"].event = q.event
          /\ [q EXCEPT !.st = "running"].again = q.again
      BY <3>2, Moved
    <3> QED BY <3>1, <3>3
  <2>2. CASE AnswerSome
    <3>1. PICK q \in requests, outcome \in Outcomes : Answer(q, outcome)
      BY <2>2 DEF AnswerSome
    <3>2. q \in Requests BY DEF Inv, TypeOK
    <3> DEFINE r == [q EXCEPT !.st = "answered", !.outcome = outcome]
    <3>3. r.event = q.event /\ r.again = q.again BY <3>2, Answered
    <3>4. q.st = "running" /\ Becomes(q, r) BY <3>1 DEF Answer
    <3> HIDE DEF r
    <3> QED BY <3>3, <3>4
  <2> QED BY <2>1, <2>2
<1>2. PICK r : r.event = q.event /\ r.again = q.again /\ Becomes(q, r) BY <1>1
<1>3. /\ OneRetryEach' /\ IsFiniteSet(requests')
      /\ \A p \in requests' : \E o \in requests : o.event = p.event /\ o.again = p.again
      /\ \A p \in requests \ {q} : p \in requests'
  BY <1>2, BecomesApart
<1>4. UNCHANGED <<handler, thread, up>> /\ up
  BY DEF Apart, StartRequest, AnswerSome, Answer, client
<1>5. handler'.pc = "check" => \E p \in requests' : p.st = "handled" /\ ~ p.again
  BY <1>1, <1>3, <1>4 DEF Apart
<1>6. handler'.pc \in {"list", "enqueue"} => \A p \in requests' : ~ p.again
  BY <1>3, <1>4 DEF Apart
<1>7. \A t \in Threads : thread'[t].pc \in {"sending", "enqueue"} =>
        /\ \A p \in requests' : p.event = thread'[t].event => p.again
        /\ \A u \in Threads \ {t} :
             thread'[u].pc \in {"sending", "enqueue"} => thread'[u].event # thread'[t].event
  BY <1>3, <1>4 DEF Apart
<1> QED BY <1>3, <1>4, <1>5, <1>6, <1>7 DEF Apart

\* The handler of a first attempt goes on to ask whether the queue is ready.
LEMMA HandleApart ==
    ASSUME Inv, Apart, NEW q \in requests, HandleFirst(q) \/ HandleAgain(q) PROVE Apart'
<1> DEFINE r == [q EXCEPT !.st = "handled"]
<1>1. q \in Requests BY DEF Inv, TypeOK
<1>2. r.event = q.event /\ r.again = q.again /\ r.st = "handled" BY <1>1, Moved
<1>3. Becomes(q, r) BY DEF HandleFirst, HandleAgain, Handles
<1> HIDE DEF r
<1>4. /\ OneRetryEach' /\ IsFiniteSet(requests')
      /\ \A p \in requests' : \E o \in requests : o.event = p.event /\ o.again = p.again
  BY <1>2, <1>3, BecomesApart
<1>5. UNCHANGED <<thread, up>> /\ up BY DEF Apart, HandleFirst, HandleAgain, client
<1>6. \/ handler'.pc = "check" /\ ~ q.again
      \/ handler'.pc = "finish"
  BY DEF HandleFirst, HandleAgain, HandlerIdle
<1>7. r \in requests' BY <1>3 DEF Becomes
<1>8. handler'.pc = "check" => \E p \in requests' : p.st = "handled" /\ ~ p.again
  BY <1>2, <1>6, <1>7
<1>9. \A t \in Threads : thread'[t].pc \in {"sending", "enqueue"} =>
        /\ \A p \in requests' : p.event = thread'[t].event => p.again
        /\ \A u \in Threads \ {t} :
             thread'[u].pc \in {"sending", "enqueue"} => thread'[u].event # thread'[t].event
  BY <1>4, <1>5 DEF Apart
<1> QED BY <1>4, <1>5, <1>6, <1>8, <1>9 DEF Apart

\* If the queue is ready, no second attempt is under way.
LEMMA CheckReadyApart == ASSUME Inv, Apart, CheckReady PROVE Apart'
<1>1. UNCHANGED <<requests, thread, up>> /\ up BY DEF Apart, CheckReady, client
<1>2. handler'.pc = IF enabled /\ IsReady THEN "list" ELSE "finish"
  BY DEF Inv, TypeOK, CheckReady
<1>3. IsReady => \A q \in requests : ~ q.again
  BY ReadyIsOne DEF Apart, CheckReady
<1>4. handler'.pc \in {"list", "enqueue"} => \A q \in requests : ~ q.again
  BY <1>2, <1>3
<1> QED BY <1>1, <1>2, <1>4 DEF Apart, OneRetryEach

LEMMA EnqueueStoredApart == ASSUME Inv, Apart, EnqueueStored PROVE Apart'
<1>1. handler.todo \in SUBSET (1..stored) /\ AddsRequests(handler.todo)
  BY DEF Inv, Sound, EnqueueStored
<1>2. \A q \in requests : ~ q.again BY DEF Apart, EnqueueStored
<1>3. /\ OneRetryEach' /\ IsFiniteSet(requests')
      /\ \A q \in requests' : q \in requests \/ q.again
  BY <1>1, <1>2, ResendApart
<1>4. UNCHANGED <<thread, up>> /\ up /\ handler'.pc = "finish"
  BY DEF Apart, EnqueueStored, client, HandlerIdle
<1>5. \A t \in Threads : thread'[t].pc \in {"sending", "enqueue"} =>
        /\ \A p \in requests' : p.event = thread'[t].event => p.again
        /\ \A u \in Threads \ {t} :
             thread'[u].pc \in {"sending", "enqueue"} => thread'[u].event # thread'[t].event
  BY <1>3, <1>4 DEF Apart
<1> QED BY <1>3, <1>4, <1>5 DEF Apart

LEMMA FinishApart == ASSUME Inv, Apart, Finish PROVE Apart'
<1>1. PICK q \in requests : requests' = requests \ {q}
  BY DEF Finish, InState
<1>2. IsFiniteSet(requests') BY <1>1, FS_RemoveElement DEF Apart
<1>3. UNCHANGED <<thread, up>> /\ up /\ handler'.pc = "idle"
  BY DEF Apart, Finish, client, HandlerIdle
<1> QED BY <1>1, <1>2, <1>3 DEF Apart, OneRetryEach

LEMMA ApartNext == ASSUME Inv, Apart, [Next]_vars PROVE Apart'
<1>1. CASE Launch BY <1>1, LaunchApart
<1>2. CASE Exit BY <1>2, ExitApart
<1>3. CASE SetEnabled BY <1>3 DEF SetEnabled, Apart, OneRetryEach
<1>4. CASE \E t \in Threads : StoreEvent(t) \/ SendEvent(t) \/ Prunes(t) \/ Enqueue(t)
  BY <1>4, StoreApart, PrunesApart, EnqueueApart
<1>5. CASE StartRequest \/ AnswerSome BY <1>5, MoveApart
<1>6. CASE HandleSome BY <1>6, HandleApart DEF HandleSome
<1>7. CASE CheckReady BY <1>7, CheckReadyApart
<1>8. CASE ListStored
  <2>1. UNCHANGED <<requests, thread, up>> /\ up /\ handler'.pc = "enqueue"
    BY <1>8 DEF Apart, Inv, TypeOK, ListStored, client
  <2> QED BY <1>8, <2>1 DEF Apart, OneRetryEach, ListStored
<1>9. CASE EnqueueStored BY <1>9, EnqueueStoredApart
<1>10. CASE Finish BY <1>10, FinishApart
<1>11. CASE UNCHANGED vars BY <1>11 DEF vars, client, Apart, OneRetryEach
<1> QED BY <1>1, <1>2, <1>3, <1>4, <1>5, <1>6, <1>7, <1>8, <1>9, <1>10, <1>11 DEF Next

\* No two requests resend one event, and no two send it for the first time: the
\* check of isReady before the files are listed is enough, whatever other threads
\* add in between.
THEOREM OneRetryAlways == Spec => []OneRetryEach
<1>1. Init => Apart
  BY FS_EmptySet DEF Init, Apart, OneRetryEach, HandlerIdle, ThreadIdle
<1>2. Inv /\ Apart /\ [Next]_vars => Apart' BY ApartNext
<1>3. Apart => OneRetryEach BY DEF Apart
<1> QED BY <1>1, <1>2, <1>3, InvAlways, PTL DEF Spec
=============================================================================
