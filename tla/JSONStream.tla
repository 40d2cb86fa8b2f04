----------------------------- MODULE JSONStream -----------------------------
(***************************************************************************)
(* The JSON codec, VicrabCrashJSONCodec.c, and the three consumers of its  *)
(* decoder: the copy of a report or of the user information into another   *)
(* report (addJSONFromFile, addJSONElement), the report fixer              *)
(* (VicrabCrashReportFixer.c) and the Objective-C decoder                  *)
(* (VicrabCrashJSONCodecObjC.m).                                           *)
(*                                                                         *)
(* Text is a sequence of cells: a cell is a character of JSON's own, one   *)
(* character of a name, string or number, or a whole literal or line       *)
(* break.  A name or a string is told by its length, a number too.  The    *)
(* buffers have the lengths of the constants instead of 1000 for the file, *)
(* 100, 2500 for names and 500, 5000, 7500 for strings: which one it is    *)
(* depends on the consumer.                                                *)
(***************************************************************************)
EXTENDS Integers, Sequences, SequencesExt, FiniteSets

CONSTANTS
    MaxEvents,    \* bound on the elements of a document
    MaxLevel,     \* bound on its depth
    Names,        \* lengths of names
    Strings,      \* lengths of strings
    Digits,       \* digits of a number
    FileBuffer,   \* fileBuffer of addJSONFromFile
    StringBuffer, \* stringBufferLength of the consumer
    NameBuffer,   \* nameBufferLength of the consumer
    FixerDepth,   \* MAX_DEPTH of the fixer
    Consumers     \* what is done with the document

ASSUME JSONStreamAssumption ==
    /\ {MaxEvents, MaxLevel, Digits, FileBuffer, StringBuffer, NameBuffer, FixerDepth} \subseteq Nat \ {0}
    /\ Names \subseteq Nat \ {0} /\ Strings \subseteq Nat
    /\ Consumers \subseteq {"file", "element", "fixer", "objc"}

VARIABLES
    consumer, \* what decodes
    phase,    \* "encode", "decode" or "done"
    source,   \* the encoder that writes the document
    made,     \* the elements it was given
    file,     \* what there is of the document
    input,    \* the decode context: buffer and pointer, and the file behind it
    open,     \* containers the decoder is in, innermost last
    follows,  \* an element of the innermost container has just been decoded
    dest,     \* the encoder, or the containers, the consumer fills
    seen,     \* the elements it was called with
    result    \* of the decoding

streamVars == <<consumer, phase, source, made, file, input, open, follows, dest, seen, result>>

NoName == -1
Event(kind, name, value) == [kind |-> kind, name |-> name, value |-> value]
EndOf == Event("end", NoName, 0)
Kinds == {"object", "array"}
Repeat(cell, n) == [i \in 1..n |-> cell]

-----------------------------------------------------------------------------
(* The encoder *)

NewEncoder == [kinds |-> <<>>, first |-> TRUE, pretty |-> TRUE, out |-> <<>>, room |-> -1, result |-> "ok"]
Level(e) == Len(e.kinds)
InObject(e) == Level(e) > 0 /\ Last(e.kinds) = "object"

\* addJSONData: a sink with room for so many cells refuses what does not fit.
Put(e, cells) ==
    CASE e.result # "ok" -> e
      [] e.result = "ok" /\ e.room >= 0 /\ Len(cells) > e.room -> [e EXCEPT !.result = "too long"]
      [] OTHER -> [e EXCEPT !.out = @ \o cells, !.room = IF @ < 0 THEN @ ELSE @ - Len(cells)]

Quoted(n) == <<"q">> \o Repeat("x", n) \o <<"q">>

\* vicrabcrashjson_beginElement: comma, line break, name.
Comma(e) == IF e.first THEN [e EXCEPT !.first = FALSE] ELSE Put(e, <<",">>)
LineBreak(e) == IF e.pretty /\ Level(e) > 0 THEN Put(e, <<"w">>) ELSE e
Named(e, name) ==
    CASE ~InObject(e) \/ e.result # "ok" -> e
      [] InObject(e) /\ name = NoName /\ e.result = "ok" -> [e EXCEPT !.result = "invalid data"]
      [] OTHER -> Put(e, Quoted(name) \o <<":">>)
BeginElement(e, name) == Named(LineBreak(Comma(e)), name)

\* The cells of a value that is not a container.
Text(kind, value) == CASE kind = "string" -> Quoted(value)
                       [] kind = "int" -> Repeat("1", value)
                       [] OTHER -> <<kind>>
AddElement(e, kind, name, value) == Put(BeginElement(e, name), Text(kind, value))

Opening(kind) == IF kind = "object" THEN <<"{">> ELSE <<"[">>
Closing(kind) == IF kind = "object" THEN <<"}">> ELSE <<"]">>
\* vicrabcrashjson_beginObject and beginArray
BeginContainer(e, kind, name) ==
    LET b == BeginElement(e, name)
    IN IF b.result # "ok" THEN b
       ELSE Put([b EXCEPT !.kinds = Append(@, kind), !.first = TRUE], Opening(kind))

EndContainer(e) ==
    IF Level(e) = 0 THEN e
    ELSE LET up == [e EXCEPT !.kinds = Front(@)]
             broken == IF e.first \/ ~e.pretty THEN up ELSE Put(up, <<"w">>)
         IN Put([broken EXCEPT !.first = FALSE], Closing(Last(e.kinds)))

\* vicrabcrashjson_endEncode; the loop of addJSONFromFile, down to a level
EndDownTo(e, level) == FoldLeft(LAMBDA f, i : EndContainer(f), e, [i \in 1..(Level(e) - level) |-> i])

Encoded(e, event) ==
    CASE event.kind \in Kinds -> BeginContainer(e, event.kind, event.name)
      [] event.kind = "end" -> EndContainer(e)
      [] OTHER -> AddElement(e, event.kind, event.name, event.value)

-----------------------------------------------------------------------------
(* The decoder: decodeElement up to the next callback, on a buffer *)

Stops(why) == [event |-> EndOf, at |-> 0, ends |-> 0, why |-> why]
Yields(event, at, ends) == [event |-> event, at |-> at, ends |-> ends, why |-> "ok"]

\* The first place from p on whose cell is not one of the given ones.
Past(b, p, cells) ==
    CHOOSE q \in p..(Len(b) + 1) : /\ q <= Len(b) => b[q] \notin cells
                                   /\ \A r \in p..(q - 1) : b[r] \in cells
SkipWhitespace(b, p) == IF p > Len(b) THEN p ELSE Past(b, p, {"w"})
\* decodeString: where the string that starts at p ends, or why it does not.
ClosingQuote(b, p) ==
    IF \E q \in (p + 1)..Len(b) : b[q] = "q"
    THEN CHOOSE q \in (p + 1)..Len(b) : b[q] = "q" /\ \A r \in (p + 1)..(q - 1) : b[r] # "q"
    ELSE 0
WhyNoString(b, p, limit) ==
    CASE b[p] # "q" -> "invalid character"
      [] b[p] = "q" /\ ClosingQuote(b, p) = 0 -> "incomplete"
      [] b[p] = "q" /\ ClosingQuote(b, p) - p - 1 >= limit -> "too long"
      [] OTHER -> "ok"

\* decodeElement on one value.  A number is over at the first cell that is not a
\* digit, so one is looked at beyond it.
Value(b, start, name) ==
    LET p == SkipWhitespace(b, start) IN
    CASE p > Len(b) -> Stops("incomplete")
      [] p <= Len(b) /\ b[p] \in {"{", "["} ->
            Yields(Event(IF b[p] = "{" THEN "object" ELSE "array", name, 0), p + 1, p)
      [] p <= Len(b) /\ b[p] \in {"bool", "null"} -> Yields(Event(b[p], name, 0), p + 1, p)
      [] p <= Len(b) /\ b[p] = "1" ->
            LET q == Past(b, p, {"1"})
            IN IF q > Len(b) THEN Stops("incomplete") ELSE Yields(Event("int", name, q - p), q, q)
      [] p <= Len(b) /\ b[p] = "q" ->
            LET why == WhyNoString(b, p, StringBuffer)
                q == ClosingQuote(b, p)
            IN IF why = "ok" THEN Yields(Event("string", name, q - p - 1), q + 1, q) ELSE Stops(why)
      [] OTHER -> Stops("invalid character")

\* A member of an object: its name, the colon, its value.
Member(b, p) ==
    LET why == WhyNoString(b, p, NameBuffer)
        q == ClosingQuote(b, p)
        colon == SkipWhitespace(b, q + 1)
    IN CASE why # "ok" -> Stops(why)
         [] why = "ok" /\ colon > Len(b) -> Stops("incomplete")
         [] why = "ok" /\ colon <= Len(b) /\ b[colon] # ":" -> Stops("invalid character")
         [] OTHER -> Value(b, colon + 1, q - p - 1)

\* The loop in a container: past the comma, which may be missing, to the end of the
\* container or its next element.
PastComma(b, start) ==
    LET p == SkipWhitespace(b, start) IN IF p <= Len(b) /\ b[p] = "," THEN p + 1 ELSE p
NextElement(b, start, rootName) ==
    LET p == SkipWhitespace(b, IF follows THEN PastComma(b, start) ELSE start) IN
    CASE open = <<>> -> Value(b, start, rootName)
      [] open # <<>> /\ p > Len(b) -> Stops("incomplete")
      [] open # <<>> /\ p <= Len(b) /\ <<b[p]>> = Closing(Last(open)) -> Yields(EndOf, p + 1, p)
      [] OTHER -> IF Last(open) = "array" THEN Value(b, p, NoName) ELSE Member(b, p)

\* updateDecoder_readFile: when less than half of the buffer is left it is moved to
\* the front and the rest read from the file.  The end of the buffer stays where it
\* was: after a short read old cells follow what was read ("valid" tells how many are new).
RefillSkipping(in, text) ==
    IF in.eof \/ Len(in.buffer) - in.ptr + 1 >= Len(in.buffer) \div 2 THEN in
    ELSE LET fresh == SubSeq(text, in.read + 1, IF in.read + Len(in.buffer) < Len(text)
                                                THEN in.read + Len(in.buffer) ELSE Len(text))
         IN [buffer |-> fresh \o SubSeq(in.buffer, Len(fresh) + 1, Len(in.buffer)), ptr |-> 1,
             read |-> in.read + Len(fresh), eof |-> Len(fresh) < Len(in.buffer), valid |-> Len(fresh)]
Refill(in, text) ==
    LET left == Len(in.buffer) - in.ptr + 1
        fill == Len(in.buffer) - left
        read == SubSeq(text, in.read + 1, IF in.read + fill < Len(text) THEN in.read + fill ELSE Len(text))
        moved == SubSeq(in.buffer, in.ptr, Len(in.buffer)) \o read
        kept == left - (Len(in.buffer) - in.valid)
    IN IF in.eof \/ left >= Len(in.buffer) \div 2 THEN in
       ELSE [buffer |-> moved \o SubSeq(in.buffer, Len(moved) + 1, Len(in.buffer)),
             ptr |-> 1, read |-> in.read + Len(read), eof |-> Len(read) < fill,
             valid |-> kept + Len(read)]

-----------------------------------------------------------------------------
(* Writing a document, and what is left of it *)

\* The writer and the fixer break lines; the user information is encoded without breaks
\* (setUserInfo:, VicrabCrash.m), a report added by a caller is as the caller has it.
Pretty(for) == CASE for \in {"file", "objc"} -> {TRUE} [] for = "element" -> {FALSE} [] for = "fixer" -> BOOLEAN

NoInput == [buffer |-> <<>>, ptr |-> 1, read |-> 0, eof |-> FALSE, valid |-> 0]

StreamInit ==
    /\ consumer \in Consumers
    /\ phase = "encode"
    /\ source \in {[NewEncoder EXCEPT !.pretty = pretty] : pretty \in Pretty(consumer)}
    /\ made = <<>>
    /\ file = <<>> /\ input = NoInput
    /\ open = <<>> /\ follows = FALSE
    /\ dest = NewEncoder /\ seen = <<>> /\ result = "ok"

\* A document is one container, as a report and the user information are.  It has one
\* name or string at most that is long (the decoder goes no further than the first it
\* has no room for).
TooLong(event) == event.name >= NameBuffer \/ (event.kind = "string" /\ event.value >= StringBuffer)
IsLong(event) == TooLong(event) \/ (event.kind = "string" /\ 2 * event.value >= StringBuffer)
Encode(event) ==
    /\ phase = "encode" /\ Len(made) < MaxEvents
    /\ made = <<>> => event.kind \in Kinds
    /\ made # <<>> => Level(source) > 0
    /\ event.kind \in Kinds => Level(source) < MaxLevel
    /\ event.kind # "end" => ((event.name # NoName) <=> InObject(source))
    /\ IsLong(event) => \A i \in 1..Len(made) : ~IsLong(made[i])
    /\ source' = Encoded(source, event)
    /\ made' = Append(made, event)
    /\ UNCHANGED <<consumer, phase, file, input, open, follows, dest, seen, result>>

\* The buffer is at its end, so that the load by hand fills it.
FileInput == [buffer |-> Repeat("0", FileBuffer), ptr |-> FileBuffer + 1, read |-> 0, eof |-> FALSE,
              valid |-> FileBuffer]
\* The report the copy goes to has been opened, and written to or not.
InReport == [NewEncoder EXCEPT !.kinds = <<"object">>, !.first = FALSE, !.out = <<"{", "q", "x", "q", ":", "bool">>]
NewCodec == [containers |-> <<>>, stack |-> <<>>, result |-> "ok"]
NewDest(length) ==
    CASE consumer \in {"file", "element"} -> InReport
      [] consumer = "fixer" -> [NewEncoder EXCEPT !.room = (length * 3) \div 2]
      [] consumer = "objc" -> NewCodec

\* The writer finishes the document, and the next launch decodes it; or a crash or a
\* kill leaves any first part of it, which ends in the last element begun.
Decode(cells) ==
    /\ phase = "encode" /\ made # <<>>
    /\ phase' = "decode"
    /\ file' = cells
    /\ input' = IF consumer = "file" THEN Refill(FileInput, cells)
                ELSE [NoInput EXCEPT !.buffer = cells, !.valid = Len(cells)]
    /\ dest' = NewDest(Len(cells))
    /\ UNCHANGED <<consumer, source, made, open, follows, seen, result>>

-----------------------------------------------------------------------------
(* The consumers: what a callback does *)

\* addJSONFromFile_on...: the containers of the report itself stay open when the last
\* container is to stay open.
ClosesLast == consumer = "file"
Copied(event) ==
    IF event.kind = "end" /\ ~ClosesLast /\ Level(dest) <= 2 THEN dest ELSE Encoded(dest, event)

\* The fixer: the path of names it is in, the dates it rewrites as strings twice as
\* long.  The path is NULL beyond its end, which no timestamp reaches.
DatePaths == {<<NoName, 1, 2>>, <<NoName, 3, 1, 2>>}
Path == [i \in 1..Len(open) |-> LET begun == SelectSeq([j \in 1..Len(seen) |-> j],
                                    LAMBDA j : /\ seen[j].kind \in Kinds
                                               /\ Cardinality({k \in 1..j : seen[k].kind \in Kinds})
                                                  - Cardinality({k \in 1..j : seen[k].kind = "end"}) = i)
                                IN seen[Last(begun)].name]
ShouldFixDate(name) == Append(Path, name) \in DatePaths
FixedAtAnyDepth(event) ==
    Encoded(dest, IF event.kind = "int" /\ ShouldFixDate(event.name)
                  THEN Event("string", event.name, 2 * event.value) ELSE event)
Fixed(event) ==
    CASE event.kind = "int" /\ ShouldFixDate(event.name) ->
            Encoded(dest, Event("string", event.name, 2 * event.value))
      [] event.kind \in Kinds /\ Len(open) >= FixerDepth -> [Encoded(dest, event) EXCEPT !.result = "too long"]
      [] OTHER -> Encoded(dest, event)

Within(items, event) == IF event.name = NoName THEN items
                        ELSE SelectSeq(items, LAMBDA item : item.name # event.name)
Added(codec, event) ==
    IF codec.stack = <<>> THEN [codec EXCEPT !.result = "invalid data"]
    ELSE [codec EXCEPT !.containers[Last(codec.stack)] = Append(Within(@, event), event)]
Built(codec, event) ==
    CASE event.kind \in Kinds ->
            LET id == Len(codec.containers) + 1
                held == IF id = 1 THEN codec ELSE Added(codec, Event(event.kind, event.name, id))
            IN IF held.result # "ok" THEN held
               ELSE [held EXCEPT !.containers = Append(@, <<>>), !.stack = Append(@, id)]
      [] event.kind = "end" -> IF codec.stack = <<>> THEN [codec EXCEPT !.result = "invalid data"]
                               ELSE [codec EXCEPT !.stack = Front(@)]
      [] OTHER -> Added(codec, event)

Consumed(event) ==
    CASE consumer \in {"file", "element"} -> Copied(event)
      [] consumer = "fixer" -> Fixed(event)
      [] consumer = "objc" -> Built(dest, event)

\* The name the copy has in the report; a report of its own has none.
RootName == IF consumer \in {"file", "element"} THEN 1 ELSE NoName

\* One callback.
Callback ==
    LET next == NextElement(input.buffer, input.ptr, RootName) IN
    /\ phase = "decode" /\ result = "ok"
    /\ next.why = "ok"
    /\ seen' = Append(seen, next.event)
    /\ dest' = Consumed(next.event)
    /\ open' = CASE next.event.kind \in Kinds -> Append(open, next.event.kind)
                 [] next.event.kind = "end" -> Front(open)
                 [] OTHER -> open
    /\ follows' = (next.event.kind \notin Kinds)
    /\ input' = IF consumer = "file" THEN Refill([input EXCEPT !.ptr = next.at], file)
                ELSE [input EXCEPT !.ptr = next.at]
    /\ phase' = IF open' = <<>> \/ dest'.result # "ok" THEN "done" ELSE "decode"
    /\ result' = dest'.result
    /\ UNCHANGED <<consumer, source, made, file>>

\* The decoder meets an error: no callback, the function returns.
Fail ==
    LET next == NextElement(input.buffer, input.ptr, RootName) IN
    /\ phase = "decode" /\ result = "ok"
    /\ next.why # "ok"
    /\ result' = next.why
    /\ phase' = "done"
    /\ UNCHANGED <<consumer, source, made, file, input, open, follows, dest, seen>>

\* What is done with the outcome: the copy closes what the file left open.
Closed == IF consumer = "file" THEN EndDownTo(dest, 1) ELSE dest

Before == FoldLeft(Encoded, [NewEncoder EXCEPT !.pretty = source.pretty], SubSeq(made, 1, Len(made) - 1))
StreamNext ==
    \/ \E kind \in {"object", "array", "end", "int", "string", "bool"},
          name \in Names \cup {NoName}, value \in Strings \cup {0, Digits} :
          /\ value \in (CASE kind = "string" -> Strings [] kind = "int" -> {Digits} [] OTHER -> {0})
          /\ kind = "end" => name = NoName
          /\ Encode(Event(kind, name, value))
    \/ Decode(EndDownTo(source, 0).out)
    \/ /\ consumer # "element"
       /\ \E length \in Len(Before.out)..Len(source.out) : Decode(SubSeq(source.out, 1, length))
    \/ Callback \/ Fail
StreamSpec == StreamInit /\ [][StreamNext]_streamVars

-----------------------------------------------------------------------------
(* Properties *)

\* What JSON is, told apart from the encoder: the containers that are open after the
\* cells, and what the last cell calls for.
Grammar == [open |-> <<>>, after |-> "value", quoted |-> FALSE, valid |-> TRUE]
Read1(g, cell) ==
    LET top == IF g.open = <<>> THEN "none" ELSE Last(g.open)
        named == top = "object" /\ g.after \in {"first", "comma"}
    IN CASE cell = "w" \/ (g.quoted /\ cell = "x") -> g
         [] cell = "q" -> IF g.quoted
                          THEN [g EXCEPT !.quoted = FALSE, !.after = IF named THEN "name" ELSE "end"]
                          ELSE [g EXCEPT !.quoted = TRUE,
                                         !.valid = @ /\ g.after \in {"value", "first", "comma"}]
         [] cell = ":" -> [g EXCEPT !.after = "value", !.valid = @ /\ g.after = "name"]
         [] cell = "," -> [g EXCEPT !.after = IF top = "object" THEN "comma" ELSE "value",
                                    !.valid = @ /\ g.after \in {"end", "number"} /\ top # "none"]
         [] cell = "1" -> [g EXCEPT !.after = "number",
                                    !.valid = @ /\ ~named /\ g.after \in {"value", "first", "number"}]
         [] cell \in {"bool", "null"} -> [g EXCEPT !.after = "end",
                                    !.valid = @ /\ ~named /\ g.after \in {"value", "first"}]
         [] cell \in {"{", "["} -> [g EXCEPT !.open = Append(@, IF cell = "{" THEN "object" ELSE "array"),
                                    !.after = "first",
                                    !.valid = @ /\ ~named /\ g.after \in {"value", "first"}]
         [] cell \in {"}", "]"} -> [g EXCEPT !.open = IF @ = <<>> THEN @ ELSE Front(@), !.after = "end",
                                    !.valid = @ /\ <<cell>> = Closing(top) /\ g.after \in {"first", "end", "number"}]
         [] OTHER -> [g EXCEPT !.valid = FALSE]
Grammatical(cells) == FoldLeft(Read1, Grammar, cells)

Complete == file = EndDownTo(source, 0).out
Document == [made EXCEPT ![1].name = RootName] \o [i \in 1..Level(source) |-> EndOf]

\* What the encoder puts in a report is JSON, whatever the document that is copied
\* into it is: the copy of a file leaves the report at the level it began at, that of the
\* user information one level in, or as deep as it came before it met what it has no room
\* for (vicrabcrashjson_addJSONFromFile, addJSONElement).
CopyIsJSON ==
    phase = "done" /\ consumer \in {"file", "element"} =>
        LET g == Grammatical(Closed.out) IN
        /\ g.valid /\ ~g.quoted
        /\ g.open = <<"object">> \o (CASE consumer = "file" -> <<>>
                                       [] consumer = "element" /\ result = "ok" -> <<made[1].kind>>
                                       [] consumer = "element" /\ result # "ok" -> open)

\* A complete document is copied whole when it has room for each element: names and
\* strings shorter than their buffers, and, from a file, together no longer than half of
\* the file's, which the refill keeps before every callback.  When it is not, the copy
\* ends at an element without room, and says so.
Chunk(event) == Len(Text(event.kind, event.value)) + event.name + 6
HasRoom(event) == /\ ~TooLong(event)
                  /\ consumer = "file" /\ event.kind \notin Kinds \cup {"end"} => Chunk(event) <= FileBuffer \div 2
CopyIsWhole ==
    phase = "done" /\ consumer \in {"file", "element"} /\ Complete =>
        IF result = "ok" THEN seen = Document /\ \A i \in 1..Len(Document) : ~TooLong(Document[i])
        ELSE Len(seen) < Len(Document) /\ ~HasRoom(Document[Len(seen) + 1])

\* Of a file that ends early the copy holds its first elements and nothing else, as
\* long as the decoder has only looked at cells the file put in the buffer.
OnlyFileCells == input.ptr <= input.valid \/ (input.ptr = input.valid + 1 /\ Last(seen).kind # "int")
NothingInvented ==
    phase # "encode" /\ seen # <<>> => (OnlyFileCells => IsPrefix(seen, Document))

\* How deep the document is after its first i elements, and the containers around the
\* k-th of them.
DepthAfter(events, i) == Cardinality({k \in 1..i : events[k].kind \in Kinds})
                         - Cardinality({k \in 1..i : events[k].kind = "end"})
Around(events, k) == {j \in 1..(k - 1) : /\ events[j].kind \in Kinds
                                         /\ \A l \in j..(k - 1) : DepthAfter(events, l) >= DepthAfter(events, j)}

\* The fixer gives the whole report with its dates rewritten, or nothing: it drops the
\* report of a writer that did not get to the end, one deeper than its path, one with a
\* name or a string longer than its buffers, and one that grows by more than a half.
IsDate(events, k) == /\ events[k].kind = "int" /\ events[k].name = 2
                     /\ Cardinality(Around(events, k)) = 2
                     /\ \E j \in Around(events, k) : events[j].name = 1
WithDates(events) == [k \in 1..Len(events) |-> IF IsDate(events, k)
                                              THEN Event("string", 2, 2 * events[k].value) ELSE events[k]]
FixedWholly ==
    phase = "done" /\ consumer = "fixer" =>
        LET whole == FoldLeft(Encoded, NewEncoder, WithDates(Document)).out IN
        /\ (result = "ok") <=> /\ Complete
                              /\ \A i \in 1..Len(Document) :
                                    DepthAfter(Document, i) <= FixerDepth /\ ~TooLong(Document[i])
                              /\ Len(whole) <= (Len(file) * 3) \div 2
        /\ result = "ok" => dest.out = whole

\* The Objective-C decoder nests what it is told as the document does; of two values
\* of a name the later stays (onElement, onBeginContainer, onEndContainer).
Begun(n) == CHOOSE j \in 1..Len(seen) :
                seen[j].kind \in Kinds /\ Cardinality({k \in 1..j : seen[k].kind \in Kinds}) = n
Children(j) == {k \in (j + 1)..Len(seen) : /\ seen[k].kind # "end" /\ j \in Around(seen, k)
                                           /\ DepthAfter(seen, k - 1) = DepthAfter(seen, j)}
NestedAsRead ==
    phase # "encode" /\ consumer = "objc" =>
        \A n \in 1..Len(dest.containers) :
            LET children == Children(Begun(n))
                lasting == {k \in children : \A l \in children : l > k /\ seen[k].name # NoName
                                                                 => seen[l].name # seen[k].name}
            IN /\ Len(dest.containers[n]) = Cardinality(lasting)
               /\ \A k \in lasting : seen[k].kind \notin Kinds
                     => \E i \in 1..Len(dest.containers[n]) : dest.containers[n][i] = seen[k]

\* A document that goes into a report arrives there: whole, or as much of it as there was
\* or the copy has room for, and the report around it stays one.
CopiedFaithfully == CopyIsJSON /\ CopyIsWhole /\ NothingInvented

=============================================================================
