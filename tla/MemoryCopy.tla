----------------------------- MODULE MemoryCopy -----------------------------
(***************************************************************************)
(* Reading memory that may not be there (VicrabCrashMemory.c): a crash     *)
(* handler copies through vm_read_overwrite, which copies everything or    *)
(* fails.  copyMaxPossible finds out by halving how much can be copied;    *)
(* maxReadableBytes first goes over whole test buffers.                    *)
(*                                                                         *)
(* Bytes are numbered from the first one that is asked for.                *)
(***************************************************************************)
EXTENDS Integers

CONSTANTS
    Memory,  \* bound on the bytes that can be readable
    Asked,   \* the byte counts callers ask for
    Buffer   \* size of g_memoryTestBuffer

ASSUME MemoryAssumption ==
    /\ Memory \in Nat /\ Buffer \in Nat \ {0}
    /\ Asked \subseteq Nat

VARIABLES
    readable,   \* the bytes that can be read
    asked,      \* the byte count the caller passed
    bytesRemaining, \* of maxReadableBytes
    stage,       \* "chunks", "copy", "halve", "done"
    copyEnd,      \* the end of what copyMaxPossible is to copy
    pSrc, pSrcEnd, pSrcMax

memoryVars == <<readable, asked, bytesRemaining, stage, copyEnd, pSrc, pSrcEnd, pSrcMax>>

Bytes == 0..(Memory - 1)

\* copySafely
Copies(from, to) == \A b \in from..(to - 1) : b \in readable

\* isMemoryReadable never moves on from its first byte: what lies beyond the test
\* buffer is taken to be as the bytes before it.
IsMemoryReadable(from, count) ==
    count >= 0 /\ Copies(from, from + (IF count > Buffer THEN Buffer ELSE count))

MemoryInit ==
    /\ readable \in SUBSET Bytes
    /\ asked \in Asked
    /\ bytesRemaining = asked
    /\ pSrc = 0
    /\ \/ stage = "copy" /\ copyEnd = asked
       \/ stage = "chunks" /\ copyEnd = Buffer
    /\ pSrcEnd = copyEnd /\ pSrcMax = copyEnd

\* The loop of maxReadableBytes.  What is left is then copied to the test buffer,
\* as much as fits there and not as much as was asked for.
ReadChunk ==
    /\ stage = "chunks"
    /\ IF bytesRemaining > Buffer /\ IsMemoryReadable(pSrc, Buffer)
       THEN /\ pSrc' = pSrc + Buffer
            /\ bytesRemaining' = bytesRemaining - Buffer
            /\ UNCHANGED stage
       ELSE /\ stage' = "copy"
            /\ UNCHANGED <<pSrc, bytesRemaining>>
    /\ copyEnd' = pSrc' + Buffer
    /\ pSrcEnd' = copyEnd' /\ pSrcMax' = copyEnd'
    /\ UNCHANGED <<readable, asked>>

\* copyMaxPossible: nothing if the first byte cannot be read.
StartCopy ==
    /\ stage = "copy"
    /\ IF ~Copies(pSrc, pSrc + 1)
       THEN stage' = "done" /\ UNCHANGED pSrc
       ELSE IF copyEnd - pSrc <= 1
       THEN stage' = "done" /\ pSrc' = copyEnd
       ELSE stage' = "halve" /\ UNCHANGED pSrc
    /\ UNCHANGED <<readable, asked, bytesRemaining, copyEnd, pSrcEnd, pSrcMax>>

\* One turn of its loop: after a success half of what is left up to pSrcMax is
\* next, after a failure half of what failed.
CopyLength == pSrcEnd - pSrc
HalfOf(n) == n \div 2
HalfOfLast(from) == from + HalfOf(pSrcEnd - from)
HalfOfRest(from) == from + HalfOf(pSrcMax - from)
Halve ==
    /\ stage = "halve"
    /\ \/ /\ CopyLength > 0 /\ Copies(pSrc, pSrcEnd)
          /\ pSrc' = pSrcEnd
          /\ pSrcEnd' = HalfOfRest(pSrcEnd)
          /\ UNCHANGED <<stage, pSrcMax>>
       \/ /\ CopyLength > 1 /\ ~Copies(pSrc, pSrcEnd)
          /\ pSrcMax' = pSrcEnd
          /\ pSrcEnd' = pSrc + HalfOf(CopyLength)
          /\ UNCHANGED <<stage, pSrc>>
       \/ /\ CopyLength <= 1
          /\ CopyLength = 1 => ~Copies(pSrc, pSrcEnd)
          /\ stage' = "done"
          /\ UNCHANGED <<pSrc, pSrcEnd, pSrcMax>>
    /\ UNCHANGED <<readable, asked, bytesRemaining, copyEnd>>

MemoryNext == ReadChunk \/ StartCopy \/ Halve

MemorySpec == MemoryInit /\ [][MemoryNext]_memoryVars

-----------------------------------------------------------------------------
(* Properties *)

\* What is copied, or counted as readable, is readable from the first byte to the
\* last, and the copy stops only at its end or at a byte that cannot be read:
\* halving never gives up a byte that could have been copied.
LongestPrefix ==
    stage = "done" =>
        /\ Copies(0, pSrc)
        /\ pSrc < copyEnd => pSrc \notin readable
=============================================================================
