--------------------------- MODULE MachineContext ---------------------------
(***************************************************************************)
(* The threads of a crash report: the context that a handler takes of the  *)
(* thread it reports (VicrabCrashMachineContext.c), the registers in it on *)
(* each architecture (VicrabCrashCPU_*.c), and the entries that            *)
(* writeAllThreads makes of it and of the other threads.                   *)
(*                                                                         *)
(* The value of a register is a pair: the thread and the field of its      *)
(* state that was read.  A field that nobody filled in is 0.               *)
(***************************************************************************)
EXTENDS Integers, Sequences, FiniteSets

CONSTANTS
    Captures,      \* what is reported, see below
    ContextThreads \* length of allThreads

(* A capture is a record:
     arch     the architecture
     how      "signal": on the thread itself, with the registers of the kernel
              "mach": on an exception thread
              "exception": a call of the thread itself (NSException, C++, user)
              "deadlock": on the thread of the watchdog
     badAccess  of a Mach exception: EXC_BAD_ACCESS
     report   "standard", or "minimal" for a crash in the writer
     thread, handler  the thread that is reported, and the one that does it
     listed   the threads of the process, as task_threads gives them         *)
Nobody == "nobody"
ThreadsOf(c) == {c.thread, c.handler} \cup {c.listed[i] : i \in DOMAIN c.listed}
ASSUME MachineContextAssumption ==
    /\ ContextThreads \in Nat \ {0}
    /\ \A c \in Captures :
         /\ c.arch \in {"x86_64", "x86", "arm64", "arm"}
         /\ c.how \in {"signal", "mach", "exception", "deadlock"}
         /\ c.how = "signal" => c.handler = c.thread
         /\ c.report \in {"standard", "minimal"}
         /\ c.listed \in Seq(ThreadsOf(c)) /\ Nobody \notin ThreadsOf(c)
         /\ \A i, j \in DOMAIN c.listed : c.listed[i] = c.listed[j] => i = j

VARIABLES
    capture, \* what is reported
    context, \* offendingMachineContext, and the address of the fault
    entries  \* the entries of the report that are written

contextVars == <<capture, context, entries>>

-----------------------------------------------------------------------------
(* Registers *)

NoField == "none"
X86Exceptions == <<"trapno", "err", "faultvaddr">>

NamesX86_64 ==
    <<"rax", "rbx", "rcx", "rdx", "rdi", "rsi", "rbp", "rsp", "r8", "r9", "r10", "r11",
      "r12", "r13", "r14", "r15", "rip", "rflags", "cs", "fs", "gs">>
X86_64 ==
    [names |-> NamesX86_64, exceptionNames |-> X86Exceptions,
     values |-> <<"rax", "rbx", "rcx", "rdx", "rdi", "rsi", "rbp", "rsp", "r8", "r9", "r10", "r11",
                  "r12", "r13", "r14", "r15", "rip", "rflags", "cs", "fs", "gs">>,
     exceptionValues |-> X86Exceptions,
     framePointer |-> "rbp", stackPointer |-> "rsp", instructionAddress |-> "rip",
     linkRegister |-> NoField, faultAddress |-> "faultvaddr"]

X86_32 ==
    [names |-> <<"eax", "ebx", "ecx", "edx", "edi", "esi", "ebp", "esp", "ss", "eflags", "eip",
                 "cs", "ds", "es", "fs", "gs">>,
     exceptionNames |-> X86Exceptions,
     values |-> <<"eax", "ebx", "ecx", "edx", "edi", "esi", "ebp", "esp", "ss", "eflags", "eip",
                  "cs", "ds", "es", "fs", "gs">>,
     exceptionValues |-> X86Exceptions,
     framePointer |-> "ebp", stackPointer |-> "esp", instructionAddress |-> "eip",
     linkRegister |-> NoField, faultAddress |-> "faultvaddr"]

Array64 == <<"x0", "x1", "x2", "x3", "x4", "x5", "x6", "x7", "x8", "x9", "x10", "x11", "x12", "x13",
             "x14", "x15", "x16", "x17", "x18", "x19", "x20", "x21", "x22", "x23", "x24", "x25",
             "x26", "x27", "x28">>
\* __x has 29 elements: its index 29 is the field behind it, __fp.
ARM64 ==
    [names |-> Array64 \o <<"x29", "fp", "lr", "sp", "pc", "cpsr">>,
     exceptionNames |-> <<"exception", "esr", "far">>,
     values |-> Array64 \o <<"fp">> \o <<"fp", "lr", "sp", "pc", "cpsr">>,
     exceptionValues |-> <<"exception", "esr", "far">>,
     framePointer |-> "fp", stackPointer |-> "sp", instructionAddress |-> "pc",
     linkRegister |-> "lr", faultAddress |-> "far"]

Array32 == <<"r0", "r1", "r2", "r3", "r4", "r5", "r6", "r7", "r8", "r9", "r10", "r11">>
ARM ==
    [names |-> Array32 \o <<"ip", "sp", "lr", "pc", "cpsr">>,
     exceptionNames |-> <<"exception", "fsr", "far">>,
     values |-> Array32 \o <<"r12">> \o <<"sp", "lr", "pc", "cpsr">>,
     exceptionValues |-> <<"exception", "fsr", "far">>,
     framePointer |-> "r7", stackPointer |-> "sp", instructionAddress |-> "pc",
     linkRegister |-> "lr", faultAddress |-> "far"]

CPU == CASE capture.arch = "x86_64" -> X86_64 [] capture.arch = "x86" -> X86_32
         [] capture.arch = "arm64" -> ARM64 [] capture.arch = "arm" -> ARM

-----------------------------------------------------------------------------
(* Contexts *)

Zero == <<>>
ValueOf(owner, field) == IF owner = Nobody \/ field = NoField THEN Zero ELSE <<owner, field>>
\* A field of __ss, and one of __es.
StateValue(c, field) == ValueOf(c.state, field)
ExceptionValue(c, field) == ValueOf(c.exceptions, field)

CanHaveCPUState(c) == ~c.isCurrentThread \/ c.isSignalContext
WithoutSignals(c) == ~c.isCurrentThread
HasValidExceptionRegisters(c) == CanHaveCPUState(c) /\ c.isCrashedContext

\* getThreadList: the list is cut at the end of the array.
ThreadList == SubSeq(capture.listed, 1, IF Len(capture.listed) < ContextThreads THEN Len(capture.listed)
                                        ELSE ContextThreads)

\* vicrabcrashcpu_i_fillState: the kernel may refuse either state.
Filled(thread) == {thread, Nobody}

\* vicrabcrashmc_getContextForThread, on the thread of the handler; the list only
\* for a context of a crash.
ContextsForThread(thread, crashed) ==
    LET current == thread = capture.handler
    IN  [thisThread : {thread}, isCurrentThread : {current}, isCrashedContext : {crashed},
         isSignalContext : {FALSE},
         state : IF current THEN {Nobody} ELSE Filled(thread),
         exceptions : IF current THEN {Nobody} ELSE Filled(thread),
         allThreads : {IF crashed THEN ThreadList ELSE <<>>}, fault : {Zero}]

\* vicrabcrashmc_getContextForSignal leaves isCurrentThread as it finds it.
ContextsForSignal ==
    [thisThread : {capture.handler}, isCurrentThread : BOOLEAN, isCrashedContext : {TRUE},
     isSignalContext : {TRUE}, state : {capture.thread}, exceptions : {capture.thread},
     allThreads : {ThreadList}, fault : {Zero}]

\* handleExceptions: where the Mach exception happened.
WithFault(c) ==
    [c EXCEPT !.fault = IF capture.badAccess THEN ExceptionValue(c, CPU.faultAddress)
                        ELSE StateValue(c, CPU.instructionAddress)]

NotTaken == [thisThread |-> Nobody, allThreads |-> <<>>]
ContextStart == context = NotTaken /\ entries = <<>>
ContextInit == capture \in Captures /\ ContextStart

TakeContext ==
    /\ context = NotTaken
    /\ \/ capture.how = "signal" /\ context' \in ContextsForSignal
       \/ capture.how = "mach" /\ context' \in {WithFault(c) : c \in ContextsForThread(capture.thread, TRUE)}
       \/ capture.how = "exception" /\ context' \in ContextsForThread(capture.thread, TRUE)
       \/ capture.how = "deadlock" /\ context' \in ContextsForThread(capture.thread, FALSE)
    /\ UNCHANGED <<capture, entries>>

-----------------------------------------------------------------------------
(* The entries of a report *)

\* What a cursor for a context starts with (vicrabcrashsc_initWithMachineContext).
CursorStart(c) ==
    [pc |-> StateValue(c, CPU.instructionAddress), lr |-> StateValue(c, CPU.linkRegister),
     fp |-> StateValue(c, CPU.framePointer)]
\* A cursor over the addresses that came with the exception.
OfException == [pc |-> Zero, lr |-> Zero, fp |-> Zero]

\* getStackCursor: the thread that is reported has the cursor of its handler.
BacktraceStart(c) ==
    IF c.thisThread = context.thisThread /\ capture.how = "exception" THEN OfException
    ELSE CursorStart(c)

BasicRegisters(c) == [i \in DOMAIN CPU.names |-> [name |-> CPU.names[i], value |-> StateValue(c, CPU.values[i])]]
ExceptionRegisters(c) ==
    [i \in DOMAIN CPU.exceptionNames |->
        [name |-> CPU.exceptionNames[i], value |-> ExceptionValue(c, CPU.exceptionValues[i])]]

\* writeThread; writeStackContents writes nothing when the stack pointer is 0.
ThreadEntry(c, threadIndex) ==
    [thread |-> c.thisThread, index |-> threadIndex, backtrace |-> BacktraceStart(c),
     registers |-> IF CanHaveCPUState(c) THEN BasicRegisters(c) ELSE <<>>,
     exceptions |-> IF HasValidExceptionRegisters(c) THEN ExceptionRegisters(c) ELSE <<>>,
     crashed |-> c.isCrashedContext, current_thread |-> c.thisThread = capture.handler,
     stack |-> c.isCrashedContext /\ StateValue(c, CPU.stackPointer) # Zero]

\* One turn of writeAllThreads' loop.
WriteThread ==
    /\ capture.report = "standard" /\ context # NotTaken
    /\ LET i == Len(entries)
       IN  /\ i < Len(context.allThreads)
           /\ LET thread == context.allThreads[i + 1]
              IN  \E c \in IF thread = context.thisThread THEN {context} ELSE ContextsForThread(thread, FALSE) :
                      entries' = Append(entries, ThreadEntry(c, i))
    /\ UNCHANGED <<capture, context>>

\* vicrabcrashmc_indexOfThread: -1 when the thread is not in the list.
IndexOfThread(thread) ==
    LET at == {i \in DOMAIN context.allThreads : context.allThreads[i] = thread}
    IN  IF at = {} THEN -1 ELSE (CHOOSE i \in at : \A j \in at : i <= j) - 1
\* writeRecrashReport
WriteCrashedThread ==
    /\ capture.report = "minimal" /\ context # NotTaken /\ entries = <<>>
    /\ entries' = <<ThreadEntry(context, IndexOfThread(context.thisThread))>>
    /\ UNCHANGED <<capture, context>>

ContextNext == TakeContext \/ WriteThread \/ WriteCrashedThread

-----------------------------------------------------------------------------
(* Properties *)

\* The field a name stands for: the frame pointer of arm64 is its register 29, the
\* scratch register of arm its register 12.
Meaning(name) == CASE capture.arch = "arm64" /\ name = "x29" -> "fp"
                   [] capture.arch = "arm" /\ name = "ip" -> "r12"
                   [] OTHER -> name
TrueOf(thread, told) ==
    \/ \A k \in DOMAIN told : told[k].value = <<thread, Meaning(told[k].name)>>
    \/ /\ capture.how # "signal" \/ thread # capture.thread
       /\ \A k \in DOMAIN told : told[k].value = Zero
Shown(e, name) == \E k \in DOMAIN e.registers : e.registers[k] = [name |-> name, value |-> <<e.thread, name>>]

\* Registers are those of the thread whose entry it is, each under its own name, or
\* all 0 where the kernel refused them; only a thread that is in the middle of our
\* own code has none, for they would be the handler's.
RegistersTrue(e) ==
    /\ TrueOf(e.thread, e.registers) /\ TrueOf(e.thread, e.exceptions)
    /\ e.registers = <<>> <=> e.thread = capture.handler /\ capture.how # "signal"
    /\ e.exceptions # <<>> <=> e.crashed /\ e.registers # <<>>
\* The backtrace begins where the instruction pointer shown is, and not without one.
BacktraceBelongs(e) ==
    e.backtrace.pc # Zero =>
        /\ \E name \in {"rip", "eip", "pc"} : e.backtrace.pc = <<e.thread, name>> /\ Shown(e, name)
        /\ e.backtrace.fp[1] = e.thread /\ Shown(e, e.backtrace.fp[2])
        /\ e.backtrace.lr # Zero => Shown(e, "lr")
\* One entry is the crash's, whenever its thread is among those that fit in the
\* list; a deadlock has none.
CrashShown ==
    LET crashed == {i \in DOMAIN entries : entries[i].crashed}
        written == context # NotTaken /\ Len(entries) >= Len(context.allThreads)
    IN  /\ \A i \in crashed : entries[i].thread = capture.thread
        /\ Cardinality(crashed) <= 1
        /\ written /\ capture.how # "deadlock" /\ capture.report = "standard"
           /\ capture.thread \in {ThreadList[i] : i \in DOMAIN ThreadList} => crashed # {}
\* An index is the place of the thread in the kernel's list.
IndexesTrue ==
    \A i \in DOMAIN entries :
        LET e == entries[i]
        IN  /\ e.index >= 0 => capture.listed[e.index + 1] = e.thread
            /\ e.index < 0 => capture.report = "minimal"
            /\ capture.report = "standard" => e.index = i - 1
\* A bad access is located where the memory was, any other Mach exception where the
\* instruction was.
FaultTrue ==
    context # NotTaken /\ context.fault # Zero =>
        /\ context.fault[1] = capture.thread
        /\ context.fault[2] \in IF capture.badAccess THEN {"far", "faultvaddr"} ELSE {"rip", "eip", "pc"}

\* What a report says of the threads is true of them.
EntriesTrue ==
    /\ \A i \in DOMAIN entries : /\ RegistersTrue(entries[i]) /\ BacktraceBelongs(entries[i])
                                 /\ entries[i].current_thread = (entries[i].thread = capture.handler)
    /\ CrashShown /\ IndexesTrue /\ FaultTrue
=============================================================================
