---------------------------- MODULE FileBuffers ----------------------------
(***************************************************************************)
(* The buffered writer and reader of VicrabCrashFileUtils.c: the report is *)
(* written through the first, chunk by chunk, while write may take less    *)
(* than it is given or fail; the console log is read through the second,   *)
(* line by line, into the report (addTextLinesFromFile).  A byte is its    *)
(* position in what is written or read.                                    *)
(***************************************************************************)
EXTENDS Integers, Sequences, SequencesExt, FiniteSets

CONSTANTS
    WriteBuffer, \* length of the buffer given to the writer
    ReadBuffer,  \* bufferLength of the reader, one less than the buffer given to it
    LineBuffer,  \* length of the buffer a line is read into
    MaxBytes,    \* bound on what is written
    MaxFailures, \* bound on the writes that fail
    MaxFile      \* bound on the size of the log

ASSUME FileBuffersAssumption ==
    /\ {WriteBuffer, ReadBuffer, LineBuffer} \subseteq Nat \ {0}
    /\ {MaxBytes, MaxFailures, MaxFile} \subseteq Nat

VARIABLES
    writer,   \* the bytes in the buffer of the writer; position is their number
    disk,     \* the report on disk
    given,    \* bytes the encoder has handed over
    failures, \* writes that failed
    overrun   \* memcpy went past the end of the buffer

writerVars == <<writer, disk, given, failures, overrun>>

VARIABLES
    log,      \* the size of the log and the positions of its line ends
    reader,   \* [start, end, bytes] of the reader, "at" the offset in the log
    piece,    \* what the current call has read
    pieces    \* what the calls so far have read

readerVars == <<log, reader, piece, pieces>>

-----------------------------------------------------------------------------
(* The writer *)

Bytes(from, count) == [i \in 1..count |-> from + i]

\* vicrabcrashfu_writeBytesToFD: all of it, or a first part and an error.
Written(bytes) == {[ok |-> TRUE, bytes |-> bytes]} \cup
    {[ok |-> FALSE, bytes |-> SubSeq(bytes, 1, n)] : n \in IF failures < MaxFailures THEN 0..Len(bytes) ELSE {}}

WriterInit == writer = <<>> /\ disk = <<>> /\ given = 0 /\ failures = 0 /\ overrun = FALSE

\* The chunk is at the end of the buffer, whatever its flush did before.
IsFull(length) == length > WriteBuffer - Len(writer)

\* vicrabcrashfu_writeBufferedWriter: the outcome of the flush is not looked at.
Write(length) ==
    \E flush \in IF IsFull(length) /\ writer # <<>> THEN Written(writer) ELSE {[ok |-> TRUE, bytes |-> <<>>]} :
    \E direct \in IF length > WriteBuffer THEN Written(Bytes(given, length)) ELSE {[ok |-> TRUE, bytes |-> <<>>]} :
        LET left == IF flush.ok /\ IsFull(length) THEN <<>> ELSE writer IN
        /\ ~overrun /\ given + length <= MaxBytes
        /\ disk' = disk \o flush.bytes \o direct.bytes
        /\ writer' = IF length > WriteBuffer THEN left ELSE left \o Bytes(given, length)
        /\ overrun' = (Len(writer') > WriteBuffer)
        /\ given' = given + length
        /\ failures' = failures + (IF flush.ok THEN 0 ELSE 1) + (IF direct.ok THEN 0 ELSE 1)

\* vicrabcrashfu_flushBufferedWriter, on its own or from closeBufferedWriter
Flush ==
    \E flush \in Written(writer) :
        /\ ~overrun /\ writer # <<>>
        /\ disk' = disk \o flush.bytes
        /\ writer' = IF flush.ok THEN <<>> ELSE writer
        /\ failures' = IF flush.ok THEN failures ELSE failures + 1
        /\ UNCHANGED <<given, overrun>>

WriterNext == (\E length \in 1..(WriteBuffer + 1) : Write(length)) \/ Flush

-----------------------------------------------------------------------------
(* The reader *)

Least(a, b) == IF a < b THEN a ELSE b

\* fillReadBuffer: what is left moves to the front, the rest is read from the file.
FilledOverlapping(r) ==
    LET count == Least(log.size - r.at, ReadBuffer)
    IN [start |-> 0, end |-> count, bytes |-> Bytes(r.at, count),
        at |-> IF count = ReadBuffer THEN r.at + count - 1 ELSE r.at + count]
Filled(r) ==
    LET kept == SubSeq(r.bytes, r.start + 1, r.end)
        room == ReadBuffer - Len(kept)
        count == Least(log.size - r.at, room)
    IN [start |-> 0, end |-> Len(kept) + count, bytes |-> kept \o Bytes(r.at, count), at |-> r.at + count]

ReaderInit ==
    /\ log \in {[size |-> s, ends |-> e] : s \in 0..MaxFile, e \in SUBSET (1..MaxFile)}
    /\ log.ends \subseteq 1..log.size
    /\ reader = Filled([start |-> 0, end |-> 0, bytes |-> <<>>, at |-> 0])
    /\ piece = <<>> /\ pieces = <<>>

\* How far the next line end is in the buffer, 0 when it is not there.
ToLineEnd == LET here == {n \in 1..(reader.end - reader.start) : reader.bytes[reader.start + n] \in log.ends}
             IN IF here = {} THEN 0 ELSE CHOOSE n \in here : \A m \in here : n <= m
\* One turn of the loop of vicrabcrashfu_readBufferedReaderUntilChar.
LongestCopy == Least(reader.end - reader.start, LineBuffer - Len(piece))
CopyCount == IF ToLineEnd = 0 THEN LongestCopy ELSE Least(LongestCopy, ToLineEnd)
ReadOn ==
    LET copied == piece \o SubSeq(reader.bytes, reader.start + 1, reader.start + CopyCount)
        moved == [reader EXCEPT !.start = @ + CopyCount]
        full == Len(copied) >= LineBuffer
        next == IF ToLineEnd > 0 \/ full THEN moved ELSE Filled(moved)
        returns == ToLineEnd > 0 \/ full \/ next.start = next.end
    IN /\ reader' = next
       /\ piece' = IF returns THEN <<>> ELSE copied
       /\ pieces' = IF returns /\ copied # <<>> THEN Append(pieces, copied) ELSE pieces
       /\ ~(returns /\ copied = <<>>)
       /\ UNCHANGED log

ReaderNext == ReadOn

-----------------------------------------------------------------------------
(* Properties *)

\* Until a write fails, the disk and the buffer together hold what the encoder gave,
\* in order: at whatever byte the process dies, the file is a first part of the
\* report, and no copy goes past the end of the buffer
\* (vicrabcrashfu_writeBufferedWriter, flushBufferedWriter).
DiskIsPrefix == failures = 0 => disk \o writer = Bytes(0, given) /\ ~overrun

\* The calls give the log in order, each piece of it once: what a call reads begins
\* where the one before ended.
ReadUpTo(i) == IF i = 0 THEN 0 ELSE Last(pieces[i])
ReadInOrder ==
    /\ \A i \in 1..Len(pieces) : pieces[i] # <<>> /\ pieces[i] = Bytes(ReadUpTo(i - 1), Len(pieces[i]))
    /\ piece = Bytes(ReadUpTo(Len(pieces)), Len(piece))

\* Each line that fits the line buffer is one element of the report, when those before
\* it fit too.
LinesWhole ==
    LET edges == {0, log.size} \cup log.ends
    IN (\A a, b \in edges : a < b /\ log.ends \cap (a + 1)..(b - 1) = {} => b - a <= LineBuffer)
       => \A i \in 1..Len(pieces) : {Head(pieces[i]) - 1, Last(pieces[i])} \subseteq edges

\* Through the buffers go the bytes that were given, in order, none twice.
BuffersFaithful == DiskIsPrefix /\ ReadInOrder /\ LinesWhole
=============================================================================
