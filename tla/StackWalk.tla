------------------------------ MODULE StackWalk ------------------------------
(***************************************************************************)
(* The backtrace of a thread: a cursor (VicrabCrashStackCursor*.c) walks   *)
(* the registers and the frames of a stack that a crash may have ruined,   *)
(* or an array of addresses, and each address is given the image and the   *)
(* function it lies in (VicrabCrashSymbolicator.c,                         *)
(* VicrabCrashDynamicLinker.c), until writeBacktrace has them all.         *)
(*                                                                         *)
(* Code addresses and frames are numbers; 0 is NULL.  What a thread's      *)
(* registers are on each architecture, and which thread a cursor is given, *)
(* is MachineContext's; here they are values.  On arm64 a code address may *)
(* carry a tag above its low bits.                                         *)
(***************************************************************************)
EXTENDS MachineContext

CONSTANTS
    Walks,        \* what there is to walk: stacks and arrays, see below
    Images,       \* the images of the process, in the order in which they were loaded
    maxStackDepth, \* of a cursor for a machine context
    AddressSpan,  \* code addresses below their tags: 2^36 on arm64
    InstructionSize \* what instructions are aligned to: 2 on armv7, 4 on arm64, else 1

(* A walk is a record:
     kind     "context", "backtrace", or "unset" for a cursor nobody filled in
     pc, lr, fp  the registers; memory: the readable frames, each with the
                 previous one and a return address
     addresses, skipped  the array and how many of its entries are left out

   An image is a record:
     name; from, to   the addresses of its segments
     based            whether the base of its symbols is not NULL: it has the segment
                      they are found with, or a slide, which is added before the
                      base is compared
     symbols          a sequence of [value, name, stripped], read at the base; an
                      external symbol has the value 0                          *)
ASSUME WalkAssumption ==
    /\ {maxStackDepth, AddressSpan, InstructionSize} \subseteq Nat \ {0}
    /\ \A w \in Walks : /\ {w.pc, w.lr, w.skipped} \subseteq Nat /\ w.addresses \in Seq(Nat)
                        /\ \A f \in DOMAIN w.memory : w.memory[f].return_address \in Nat
    /\ Images \in Seq({Images[i] : i \in DOMAIN Images})
    /\ \A i \in DOMAIN Images :
         /\ Images[i].name # "none"
         /\ \A j \in DOMAIN Images : Images[i].name = Images[j].name => i = j
         /\ LET symbols == Images[i].symbols
            IN  symbols \in Seq({symbols[k] : k \in DOMAIN symbols})

NULL == 0

VARIABLES
    walk,                 \* what is walked
    currentDepth, hasGivenUp, \* state of the cursor
    frame,                \* currentFrame of the cursor: previous and return_address
    seen,                 \* registers the cursor has passed: "pc", "lr", "fp"
    trace,                \* the entries writeBacktrace has written
    ended                 \* advanceCursor returned false

walkVars == <<walk, currentDepth, hasGivenUp, frame, seen, trace, ended>>

NoFrame == [previous |-> NULL, return_address |-> 0]

-----------------------------------------------------------------------------
(* Symbolication *)

Covers(image, address) == image.from <= address /\ address < image.to
IndexesCovering(address) == {i \in DOMAIN Images : Covers(Images[i], address)}

\* Of the symbols at or below the address the nearest one, of equals the last.
Candidates(image, address) ==
    {k \in DOMAIN image.symbols : image.symbols[k].value \in 1..address}
Nearest(image, address) ==
    CHOOSE k \in Candidates(image, address) : \A j \in Candidates(image, address) :
        \/ image.symbols[j].value < image.symbols[k].value
        \/ image.symbols[j].value = image.symbols[k].value /\ j <= k

NoSymbol == [image |-> "none", function |-> "none", at |-> 0]
\* vicrabcrashdl_dladdr
Dladdr(address) ==
    LET i == CHOOSE i \in IndexesCovering(address) :
               \A j \in IndexesCovering(address) : i <= j
        image == Images[i]
        symbol == image.symbols[Nearest(image, address)]
    IN  IF IndexesCovering(address) = {} \/ ~image.based THEN NoSymbol
        ELSE IF Candidates(image, address) = {} THEN [NoSymbol EXCEPT !.image = image.name]
        ELSE [image |-> image.name, at |-> symbol.value,
              function |-> IF symbol.stripped THEN "none" ELSE symbol.name]

\* A return address is the one after the call, perhaps in the next function; its low
\* bits may be a tag (Thumb, on armv7).
Detagged(address) == (address \div InstructionSize) * InstructionSize
CallInstruction(address) == Detagged(address) - 1
Entry(address) == [address |-> address, symbol |-> Dladdr(CallInstruction(address))]

-----------------------------------------------------------------------------
(* The cursors *)

WalkStart ==
    /\ currentDepth = 0 /\ hasGivenUp = FALSE
    /\ frame = NoFrame
    /\ seen = {}
    /\ trace = << >>
    /\ ended = FALSE
WalkInit == walk \in Walks /\ WalkStart

\* vicrabcrashcpu_normaliseInstructionPointer
Normalised(address) == address % AddressSpan

Writes(address) ==
    /\ trace' = Append(trace, Entry(Normalised(address)))
    /\ currentDepth' = currentDepth + 1
    /\ UNCHANGED <<hasGivenUp, ended>>

Stops ==
    /\ ended' = TRUE
    /\ UNCHANGED <<currentDepth, trace>>

\* The depth is checked before anything is read: a stack that is just as deep as
\* allowed is given up like a deeper one.
OneEarlier == currentDepth >= maxStackDepth - 1
AtLimit == currentDepth >= maxStackDepth
GivesUp ==
    /\ AtLimit
    /\ hasGivenUp' = TRUE
    /\ Stops
    /\ UNCHANGED <<frame, seen>>

InstructionAddress ==
    /\ ~AtLimit /\ "pc" \notin seen
    /\ IF walk.pc = 0 THEN Stops /\ UNCHANGED <<hasGivenUp, seen>>
       ELSE Writes(walk.pc) /\ seen' = {"pc"}
    /\ UNCHANGED frame

LinkRegister ==
    /\ ~AtLimit /\ seen = {"pc"} /\ walk.lr # 0
    /\ Writes(walk.lr)
    /\ seen' = {"pc", "lr"}
    /\ UNCHANGED frame

\* The frame the last one points to, the frame pointer's first.  A frame that
\* cannot be read ends the walk, and so does one that holds a 0: the frame with
\* no previous one is not in the trace.
PreviousOfFP == IF "fp" \in seen THEN frame.previous ELSE walk.fp
NextFrame ==
    /\ ~AtLimit
    /\ seen # {} /\ (seen = {"pc"} => walk.lr = 0)
    /\ LET previous == PreviousOfFP
       IN  \/ /\ previous \notin DOMAIN walk.memory
              /\ Stops
              /\ UNCHANGED <<frame, hasGivenUp>>
           \/ /\ previous \in DOMAIN walk.memory
              /\ frame' = walk.memory[previous]
              /\ IF frame'.previous = NULL \/ frame'.return_address = 0
                 THEN Stops /\ UNCHANGED hasGivenUp
                 ELSE Writes(frame'.return_address)
    /\ seen' = seen \cup {"fp"}

\* The array ends early at an entry of 0 or 1.
NextAddress ==
    /\ LET index == currentDepth + walk.skipped + 1
       IN  IF index \in DOMAIN walk.addresses /\ walk.addresses[index] > 1
           THEN Writes(walk.addresses[index])
           ELSE Stops /\ UNCHANGED hasGivenUp
    /\ UNCHANGED <<frame, seen>>

\* One turn of writeBacktrace's loop.
Advance ==
    /\ ~ended
    /\ \/ /\ walk.kind = "context"
          /\ GivesUp \/ InstructionAddress \/ LinkRegister \/ NextFrame
       \/ walk.kind = "backtrace" /\ NextAddress
       \/ walk.kind = "unset" /\ Stops /\ UNCHANGED <<frame, seen, hasGivenUp>>
    /\ UNCHANGED walk

WalkSpec == WalkInit /\ [][Advance]_walkVars

-----------------------------------------------------------------------------
(* Properties *)

\* The stack itself: the frames from the frame pointer on, as many as hold a
\* previous frame and a return address.
FrameAt[n \in 0..maxStackDepth] ==
    IF n = 0 THEN walk.fp
    ELSE IF FrameAt[n - 1] \in DOMAIN walk.memory THEN walk.memory[FrameAt[n - 1]].previous
    ELSE NULL
Sound(n) ==
    /\ FrameAt[n] \in DOMAIN walk.memory
    /\ NULL \notin {walk.memory[FrameAt[n]].previous, walk.memory[FrameAt[n]].return_address}
RegisterAddresses == (IF walk.pc = 0 THEN << >> ELSE <<walk.pc>>) \o (IF walk.lr = 0 THEN << >> ELSE <<walk.lr>>)
Returns ==
    LET ruined == {n \in 0..maxStackDepth : ~Sound(n)}
        sound == IF ruined = {} THEN maxStackDepth
                 ELSE CHOOSE n \in ruined : \A m \in ruined : n <= m
    IN  [n \in 1..sound |-> walk.memory[FrameAt[n - 1]].return_address]
Stack ==
    LET all == IF walk.pc = 0 THEN << >> ELSE RegisterAddresses \o Returns
    IN  SubSeq(all, 1, IF Len(all) < maxStackDepth THEN Len(all) ELSE maxStackDepth)

\* A backtrace is the stack, innermost call first, without gaps and tags, up to the first
\* frame that is ruined: frames that form a ring are written up to the limit.
TraceIsStack ==
    walk.kind = "context" =>
        /\ Len(trace) <= Len(Stack)
        /\ \A k \in DOMAIN trace : trace[k].address = Stack[k] % AddressSpan
        /\ ended => Len(trace) = Len(Stack)

\* A stack is called overflown if its trace is full, and only then: a ruined stack
\* ends its trace, and is not taken for an overflow.
OverflowIsDeep ==
    ended => hasGivenUp = (walk.kind = "context" /\ Len(trace) = maxStackDepth)

\* A caller is named after the function that holds the call, also when the call is
\* its last instruction and the return address, tag or not, that of the next function.
SymbolsOf(name) ==
    UNION {{image.symbols[k].value : k \in DOMAIN image.symbols} : image \in {Images[i] : i \in {j \in DOMAIN Images : Images[j].name = name}}}
CallersNamed ==
    \A k \in DOMAIN trace :
      LET e == trace[k]
          before == {v \in SymbolsOf(e.symbol.image) : v \in 1..(Detagged(e.address) - 1)}
      IN  IF before = {} THEN e.symbol.at = 0
          ELSE e.symbol.at \in before /\ \A v \in before : v <= e.symbol.at

\* A backtrace is the calls of its thread, each with the function that made it.
BacktraceIsStack == TraceIsStack /\ OverflowIsDeep /\ CallersNamed

\* What a report says of a thread is true of it: its registers, its place in the
\* list, where its backtrace begins, and the calls in it.
ThreadsTold == EntriesTrue /\ BacktraceIsStack
=============================================================================
