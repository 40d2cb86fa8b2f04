---------------------------- MODULE ZombieCache ----------------------------
(***************************************************************************)
(* The cache of deallocated objects, VicrabCrashMonitor_Zombie.c.  Every   *)
(* dealloc of the application notes the object and then its class in the   *)
(* slot its address hashes to, and the last deallocated exception field by *)
(* field; no lock is taken.  A crash handler suspends the application's    *)
(* threads anywhere among these steps and looks addresses up: what it      *)
(* finds is a function of the state.                                       *)
(*                                                                         *)
(* One slot of the cache and the addresses that hash to it are modelled.   *)
(***************************************************************************)
EXTENDS Integers

CONSTANTS
    Addresses,    \* addresses that hash to the slot
    AppThreads,   \* threads of the application
    PlainClasses, \* classes that are not NSException
    Strings,      \* names and reasons of exceptions
    Nil,          \* no class, no object, no string
    MaxObjects    \* bound on the objects allocated

ASSUME ZombieCacheAssumption ==
    /\ MaxObjects \in Nat
    /\ Nil \notin Addresses \cup PlainClasses \cup Strings \cup {"NSException"}

VARIABLES
    zombieEnabled, \* g_isEnabled
    zombieHooked,  \* g_zombieCache is allocated and dealloc is replaced
    slot,          \* the slot's object and className
    lastException, \* g_lastDeallocedException
    object,        \* what is allocated at each address
    dying,         \* the dealloc each thread is in
    allocated,     \* objects allocated so far
    truth,         \* history: the class each address had when it was last deallocated
    crossed,       \* history: two deallocs were in the slot at a time
    overlapped     \* history: two exceptions were being stored at a time

zombieVars == <<zombieEnabled, zombieHooked, slot, lastException, object, dying, allocated,
                truth, crossed, overlapped>>

Classes == PlainClasses \cup {"NSException"}
NoObject == [class |-> Nil, name |-> Nil, reason |-> Nil]
Objects == [class : Classes \cup {Nil}, name : Strings \cup {Nil}, reason : Strings \cup {Nil}]
Alive(a) == object[a].class # Nil
InDealloc(t, steps) == dying[t].at \in steps
Storing(t) == InDealloc(t, {"address", "name", "reason"})

ZombieTypeOK ==
    /\ zombieEnabled \in BOOLEAN /\ zombieHooked \in BOOLEAN
    /\ slot \in [object : Addresses \cup {Nil}, class : Classes \cup {Nil}]
    /\ lastException \in [address : Addresses \cup {Nil}, name : Strings \cup {Nil},
                          reason : Strings \cup {Nil}]
    /\ object \in [Addresses -> Objects]
    /\ dying \in [AppThreads -> [at : {"out", "object", "class", "address", "name", "reason", "freed"},
                                 self : Addresses \cup {Nil}]]
    /\ allocated \in 0..MaxObjects
    /\ truth \in [Addresses -> Classes \cup {Nil}]
    /\ {crossed, overlapped} \subseteq BOOLEAN

ZombieInit ==
    /\ zombieEnabled = FALSE /\ zombieHooked = FALSE
    /\ slot = [object |-> Nil, class |-> Nil]
    /\ lastException = [address |-> Nil, name |-> Nil, reason |-> Nil]
    /\ object = [a \in Addresses |-> NoObject]
    /\ dying = [t \in AppThreads |-> [at |-> "out", self |-> Nil]]
    /\ allocated = 0
    /\ truth = [a \in Addresses |-> Nil]
    /\ crossed = FALSE /\ overlapped = FALSE

-----------------------------------------------------------------------------
(* Switching the monitor *)

\* install: a calloc that fails leaves the monitor enabled and nothing hooked.
Install ==
    \/ /\ zombieHooked' = TRUE
       /\ lastException' = [address |-> Nil, name |-> Nil, reason |-> Nil]
    \/ UNCHANGED <<zombieHooked, lastException>>

\* setEnabled: once enabled the monitor stays so; uninstall does not work.
SetZombieEnabled(enable) ==
    /\ enable # zombieEnabled
    /\ IF enable THEN zombieEnabled' = TRUE /\ Install
                 ELSE UNCHANGED <<zombieEnabled, zombieHooked, lastException>>
    /\ UNCHANGED <<slot, object, dying, allocated, truth, crossed, overlapped>>

-----------------------------------------------------------------------------
(* The application: objects come and go, addresses are used again *)

Allocate(a, o) ==
    /\ ~Alive(a) /\ allocated < MaxObjects
    /\ o.class \in Classes /\ (o.class # "NSException" => o.name = Nil /\ o.reason = Nil)
    /\ object' = [object EXCEPT ![a] = o]
    /\ allocated' = allocated + 1
    /\ UNCHANGED <<zombieEnabled, zombieHooked, slot, lastException, dying, truth, crossed, overlapped>>

\* handleDealloc, step by step: object, className, then storeException.
NoteObject(t, a) ==
    /\ InDealloc(t, {"out"}) /\ Alive(a) /\ \A u \in AppThreads : dying[u].self # a
    /\ dying' = [dying EXCEPT ![t] = [at |-> IF zombieHooked THEN "object" ELSE "freed", self |-> a]]
    /\ slot' = IF zombieHooked THEN [slot EXCEPT !.object = a] ELSE slot
    /\ crossed' = (crossed \/ (zombieHooked /\ \E u \in AppThreads : InDealloc(u, {"object"})))
    /\ UNCHANGED <<zombieEnabled, zombieHooked, lastException, object, allocated, truth, overlapped>>

StoredIfUnset(t) == IF slot.class = Nil THEN [slot EXCEPT !.class = object[dying[t].self].class] ELSE slot
Stored(t) == [slot EXCEPT !.class = object[dying[t].self].class]
NoteClass(t) ==
    /\ InDealloc(t, {"object"})
    /\ slot' = Stored(t)
    /\ dying' = [dying EXCEPT ![t].at =
                    IF object[dying[t].self].class = "NSException" THEN "class" ELSE "freed"]
    /\ UNCHANGED <<zombieEnabled, zombieHooked, lastException, object, allocated, truth, crossed, overlapped>>

\* storeException: copyStringIvar leaves the buffer alone when the string is nil,
\* not valid or empty.
CopiedString(buffer, string) == IF string = Nil THEN buffer ELSE string
NoteException(t) ==
    \E field \in {"address", "name", "reason"}, self \in {dying[t].self} :
      /\ dying[t].at = CASE field = "address" -> "class" [] field = "name" -> "address"
                         [] field = "reason" -> "name"
      /\ lastException' = [lastException EXCEPT ![field] =
                              IF field = "address" THEN self ELSE CopiedString(@, object[self][field])]
      /\ dying' = [dying EXCEPT ![t].at = IF field = "reason" THEN "freed" ELSE field]
      /\ overlapped' = (overlapped \/ \E u \in AppThreads \ {t} : Storing(u))
      /\ UNCHANGED <<zombieEnabled, zombieHooked, slot, object, allocated, truth, crossed>>

\* The original dealloc.
Free(t) ==
    /\ InDealloc(t, {"freed"})
    /\ object' = [object EXCEPT ![dying[t].self] = NoObject]
    /\ truth' = [truth EXCEPT ![dying[t].self] = object[dying[t].self].class]
    /\ dying' = [dying EXCEPT ![t] = [at |-> "out", self |-> Nil]]
    /\ UNCHANGED <<zombieEnabled, zombieHooked, slot, lastException, allocated, crossed, overlapped>>

\* vicrabcrashzombie_className
ClassName(a) == IF slot.object = a THEN slot.class ELSE Nil

ZombieNext ==
    \/ \E enable \in BOOLEAN : SetZombieEnabled(enable)
    \/ \E a \in Addresses, o \in Objects : Allocate(a, o)
    \/ \E t \in AppThreads :
          NoteClass(t) \/ NoteException(t) \/ Free(t) \/ \E a \in Addresses : NoteObject(t, a)
ZombieSpec == ZombieInit /\ [][ZombieNext]_zombieVars

-----------------------------------------------------------------------------
(* Properties *)

\* A class is found only for an address that was deallocated or is being so, and it
\* is the class of the last object there, unless a thread is suspended between the
\* two writes or two deallocs met in the slot.  (The address may be in use again:
\* the report then names a zombie where a live object is.)
ZombieNamesRight ==
    \A a \in Addresses :
       LET found == ClassName(a)
           half == crossed \/ \E t \in AppThreads : InDealloc(t, {"object"})
           leaving == \E t \in AppThreads : dying[t].self = a
       IN found # Nil /\ ~half => found = IF leaving THEN object[a].class ELSE truth[a]

\* The address, the name and the reason of the last deallocated exception are those
\* of one exception; see README, Disagreements, for the ones without a reason.
ExceptionWhole ==
    \A t \in AppThreads, a \in Addresses :
       /\ dying[t] = [at |-> "freed", self |-> a] /\ lastException.address = a /\ ~overlapped
       /\ object[a].name # Nil /\ object[a].reason # Nil /\ (\A u \in AppThreads \ {t} : ~Storing(u))
       => lastException.name = object[a].name /\ lastException.reason = object[a].reason

\* What a report tells of deallocated objects and of the last exception is true.
ZombieTold == ZombieTypeOK /\ ZombieNamesRight /\ ExceptionWhole
=============================================================================
