--------------------------- MODULE MCCrashReport ---------------------------
(***************************************************************************)
(* What goes into a crash report, for TLC: four inputs that other threads  *)
(* change while the process lives, and what the recorder reads once it     *)
(* runs: memory, the threads, their backtraces, and the objects.  They     *)
(* share no state: a behaviour takes one of them through its steps and     *)
(* leaves the others as they are at first.                                 *)
(***************************************************************************)
EXTENDS ThreadCache, ZombieCache, UserData, Watchdog, MemoryCopy, StackWalk,
        Introspection

(* What there is to walk *)
Symbol(value, name) == [value |-> value, name |-> name, stripped |-> FALSE]
MCImages ==
    <<[name |-> "app", from |-> 10, to |-> 20, based |-> TRUE,
       symbols |-> <<Symbol(14, "g"), Symbol(0, "extern"), Symbol(10, "f"), Symbol(14, "alias")>>],
      [name |-> "lib", from |-> 20, to |-> 24, based |-> TRUE,
       symbols |-> <<Symbol(22, "h")>>],
      [name |-> "stripped", from |-> 24, to |-> 28, based |-> TRUE,
       symbols |-> <<[Symbol(24, "header") EXCEPT !.stripped = TRUE]>>],
      [name |-> "bare", from |-> 28, to |-> 32, based |-> FALSE,
       symbols |-> <<Symbol(28, "lost")>>]>>

\* Return addresses: none, the start of another function, of another image, in an
\* image whose symbols cannot be found; with tags above and below the address.
MCAddressSpan == 32
Code == {0, 14, 20, 31, MCAddressSpan + 15}
Memories == UNION {[S -> [previous : 0..2, return_address : Code]] : S \in SUBSET {1, 2}}
Unset == [kind |-> "unset", pc |-> 14, lr |-> 0, fp |-> 0, memory |-> << >>,
          addresses |-> << >>, skipped |-> 0]
MCWalks ==
    {Unset}
    \cup {[Unset EXCEPT !.kind = "context", !.pc = pc, !.lr = lr, !.fp = fp, !.memory = memory]
            : pc \in {0, 12}, lr \in {0, MCAddressSpan + 27}, fp \in 0..2, memory \in Memories}
    \cup {[Unset EXCEPT !.kind = "backtrace", !.addresses = addresses, !.skipped = skipped]
            : addresses \in {<< >>, <<14, MCAddressSpan + 22, 20>>, <<14, 1>>, <<26, 0, 11>>}, skipped \in 0..1}

(* What is reported: two threads of the application, and the one of an exception or
   the watchdog, of which two fit in a context. *)
Reported(how, thread, handler) ==
    [arch : {"x86_64", "x86", "arm64", "arm"}, how : {how}, report : {"standard", "minimal"},
     badAccess : IF how = "mach" THEN BOOLEAN ELSE {FALSE}, thread : {thread}, handler : {handler},
     listed : {<<"t1", "t2", "own">>, <<"t2", "own", "t1">>, <<"own", "t1">>}]
MCCapture == [arch |-> "arm64", how |-> "signal", report |-> "standard", badAccess |-> FALSE,
              thread |-> "t1", handler |-> "t1", listed |-> <<"t1", "t2", "own">>]
MCCaptures == Reported("signal", "t1", "t1") \cup Reported("mach", "t1", "own")
              \cup Reported("exception", "t1", "t1") \cup Reported("deadlock", "t1", "own")

(* What there is to look at *)
MCClassType == [name \in ValidNames |->
    CASE name = "CFString" -> "string" [] name = "CFArray" -> "CFArray" [] OTHER -> "unknown"]

Behind(name, ivars) == [name |-> name, meta |-> FALSE, root |-> FALSE, ivars |-> ivars]
Latin(units, memory) == [unicode |-> FALSE, explicit |-> FALSE, length |-> units, memory |-> memory]
Wide(units, memory) == [Latin(units, memory) EXCEPT !.unicode = TRUE, !.explicit = TRUE]
\* An object of a class below a root; each word of it that looks like a class.
Cell(isa, superclass, ro) ==
    [isa |-> isa, superclass |-> superclass, ro |-> ro, text |-> Latin(0, << >>), store |-> "inside"]
Sample == [heap |-> [object |-> Cell("class", "base", Behind("Thing", Null)),
                     class |-> Cell("class", "base", Behind("Thing", Null)),
                     base |-> Cell("base", "wild", [Behind("NSObject", Null) EXCEPT !.root = TRUE])],
           word |-> "object", restricts |-> {}]
MCNames == ValidNames \cup {Null, Unreadable}
MCIvars == {Null, Unreadable} \cup UNION {[1..n -> BOOLEAN] : n \in 0..2}
MCLooks ==
    {[Sample EXCEPT !.heap.class.ro = Behind(name, ivars), !.restricts = restricts]
        : name \in MCNames, ivars \in MCIvars, restricts \in {{}, {"Thing"}}}
    \cup {[Sample EXCEPT !.heap.object.isa = isa, !.heap.object.ro = ro, !.word = word]
        : isa \in {"object", "class", "base", "wild"},
          ro \in {Unreadable, Behind(Null, Null), Behind("Thing", Null)},
          word \in {"object", "class", "base", "wild", Null} \cup Tagged}
    \cup {[Sample EXCEPT !.word = word, !.restricts = {"Thing"}] : word \in Tagged}
    \cup {[Sample EXCEPT !.heap.class.superclass = superclass, !.heap.class.ro.meta = meta,
                         !.heap.object.superclass = "base", !.heap.base.ro = ro]
        : superclass \in {"object", "class", "base", "wild"}, meta \in BOOLEAN,
          ro \in {Unreadable, Behind("NSBlock", Null)}
                \cup {[Behind(name, Null) EXCEPT !.root = TRUE] : name \in {"NSObject", "NSBlock", Unreadable}}}
    \cup {[Sample EXCEPT !.heap.class.ro.name = "CFArray", !.heap.object.store = store]
        : store \in {"inside", "elsewhere", Unreadable}}
    \cup {[Sample EXCEPT !.heap.class.ro.name = "CFString", !.heap.object.text = string]
        : string \in {Latin(units, memory) : units \in 0..TextSize + 1,
                                              memory \in {<< >>, [i \in 1..TextSize |-> 1]}}
                     \cup {Wide(units, memory) : units \in 0..3,
                              memory \in UNION {[1..n -> {1, 3, LeadHalf, TailHalf}] : n \in 0..3}}}

-----------------------------------------------------------------------------
VARIABLE part  \* what a behaviour is about
vars == <<part, cacheVars, zombieVars, userDataVars, watchdogVars, memoryVars, contextVars, walkVars,
          introspectionVars>>

\* A part that a behaviour is not about starts in one way.
Init ==
    /\ part \in {"threads", "zombies", "user", "watchdog", "memory", "contexts", "walk", "objects"}
    /\ part # "watchdog" => hung = FALSE
    /\ part # "memory" => readable = {} /\ asked = 0 /\ stage = "copy"
    /\ CacheInit /\ ZombieInit /\ UserDataInit /\ WatchdogInit
    /\ MemoryInit
    /\ IF part = "contexts" THEN ContextInit ELSE capture = MCCapture /\ ContextStart
    /\ IF part = "walk" THEN WalkInit ELSE walk = Unset /\ WalkStart
    /\ IF part = "objects" THEN IntrospectionInit ELSE look = Sample /\ IntrospectionStart

Next ==
    /\ UNCHANGED part
    /\ \/ /\ part = "threads" /\ CacheNext
          /\ UNCHANGED <<zombieVars, userDataVars, watchdogVars, memoryVars, contextVars, walkVars,
                         introspectionVars>>
       \/ /\ part = "zombies" /\ ZombieNext
          /\ UNCHANGED <<cacheVars, userDataVars, watchdogVars, memoryVars, contextVars, walkVars,
                         introspectionVars>>
       \/ /\ part = "user" /\ UserDataNext
          /\ UNCHANGED <<cacheVars, zombieVars, watchdogVars, memoryVars, contextVars, walkVars,
                         introspectionVars>>
       \/ /\ part = "watchdog" /\ WatchdogNext
          /\ UNCHANGED <<cacheVars, zombieVars, userDataVars, memoryVars, contextVars, walkVars,
                         introspectionVars>>
       \/ /\ part = "memory" /\ MemoryNext
          /\ UNCHANGED <<cacheVars, zombieVars, userDataVars, watchdogVars, contextVars, walkVars,
                         introspectionVars>>
       \/ /\ part = "contexts" /\ ContextNext
          /\ UNCHANGED <<cacheVars, zombieVars, userDataVars, watchdogVars, memoryVars, walkVars,
                         introspectionVars>>
       \/ /\ part = "walk" /\ Advance
          /\ UNCHANGED <<cacheVars, zombieVars, userDataVars, watchdogVars, memoryVars,
                         contextVars, introspectionVars>>
       \/ /\ part = "objects" /\ IntrospectionNext
          /\ UNCHANGED <<cacheVars, zombieVars, userDataVars, watchdogVars, memoryVars, contextVars,
                         walkVars>>

\* Only the watchdog's liveness is stated: its actions are the fair ones.
FairSpec == Init /\ [][Next]_vars /\ WatchdogFairness
=============================================================================
