------------------------- MODULE ReportFile_proofs -------------------------
(***************************************************************************)
(* A report on its way to the file, for every size of the buffers and of   *)
(* what is written, every object in memory and every limit: the buffers    *)
(* pass on what they are given, and a report written to its end is whole.  *)
(***************************************************************************)
EXTENDS ReportWriter, FileBuffers, FiniteSetTheorems, WellFoundedInduction, TLAPS

-----------------------------------------------------------------------------
(* Calls the functions of the writer make, but for those a report makes once: to the *)
(* files, and for the user information                                              *)

OnlyOnce == {"rename", "open", "copy", "flush", "remove", "user"}
Quiet(calls) == \E S : calls \in Seq(S) /\ \A c \in S : c.op \notin OnlyOnce

LEMMA QuietBy ==
    ASSUME NEW calls, NEW S, calls \in Seq(S), \A c \in S : c.op \notin OnlyOnce
    PROVE  Quiet(calls)
<1> SUFFICES \E T : calls \in Seq(T) /\ \A c \in T : c.op \notin OnlyOnce
    BY DEF Quiet
<1> WITNESS S
<1> QED OBVIOUS
LEMMA QuietNone == Quiet(<<>>)
<1> DEFINE S == {}
<1>1. <<>> \in Seq(S) /\ \A c \in S : c.op \notin OnlyOnce
    OBVIOUS
<1> HIDE DEF S
<1> QED BY <1>1, QuietBy
LEMMA QuietOne == ASSUME NEW c, c.op \notin OnlyOnce PROVE Quiet(<<c>>)
<1> DEFINE S == {c}
<1>1. <<c>> \in Seq(S) /\ \A d \in S : d.op \notin OnlyOnce
    OBVIOUS
<1> HIDE DEF S
<1> QED BY <1>1, QuietBy
LEMMA QuietBoth == ASSUME NEW s, NEW t, Quiet(s), Quiet(t) PROVE Quiet(s \o t)
<1>1. PICK S : s \in Seq(S) /\ \A c \in S : c.op \notin OnlyOnce
    BY DEF Quiet
<1>2. PICK T : t \in Seq(T) /\ \A c \in T : c.op \notin OnlyOnce
    BY DEF Quiet
<1>3. s \in Seq(S \cup T) /\ t \in Seq(S \cup T)
    BY <1>1, <1>2
<1>4. s \o t \in Seq(S \cup T)
    BY <1>3
<1> QED BY <1>1, <1>2, <1>4, QuietBy
LEMMA QuietTail == ASSUME NEW s, Quiet(s), s # <<>> PROVE Quiet(Tail(s)) /\ Head(s).op \notin OnlyOnce
<1>1. PICK S : s \in Seq(S) /\ \A c \in S : c.op \notin OnlyOnce
    BY DEF Quiet
<1>2. Tail(s) \in Seq(S) /\ Head(s) \in S
    BY <1>1
<1> QED BY <1>1, <1>2, QuietBy
LEMMA QuietEach ==
    ASSUME NEW n \in Nat, NEW calls, calls = [i \in 1..n |-> calls[i]],
           \A i \in 1..n : calls[i].op \notin OnlyOnce
    PROVE  Quiet(calls)
<1> DEFINE S == {calls[i] : i \in 1..n}
<1>1. calls \in [1..n -> S]
  <2>1. \A i \in 1..n : calls[i] \in S
      OBVIOUS
  <2> HIDE DEF S
  <2> QED BY <2>1
<1>2. calls \in Seq(S)
  <2> HIDE DEF S
  <2> QED BY <1>1
<1>3. \A c \in S : c.op \notin OnlyOnce
    OBVIOUS
<1> QED BY <1>2, <1>3, QuietBy
LEMMA QuietObject ==
    ASSUME NEW key, NEW calls, Quiet(calls)
    PROVE  Quiet(Object(key, calls)) /\ Quiet(Array(key, calls))
<1>1. Quiet(<<Begin(key)>>) /\ Quiet(<<BeginArray(key)>>) /\ Quiet(<<End(key)>>)
    BY QuietOne DEF Begin, BeginArray, End, OnlyOnce
<1>2. Quiet(calls \o <<End(key)>>)
    BY <1>1, QuietBoth
<1> QED BY <1>1, <1>2, QuietBoth DEF Object, Array
LEMMA QuietTwo == ASSUME NEW c, NEW d, c.op \notin OnlyOnce, d.op \notin OnlyOnce PROVE Quiet(<<c, d>>)
<1> DEFINE S == {c, d}
<1>1. <<c, d>> \in Seq(S) /\ \A b \in S : b.op \notin OnlyOnce
    OBVIOUS
<1> HIDE DEF S
<1> QED BY <1>1, QuietBy
LEMMA OpOf ==
    /\ \A keys : Add(keys).op \notin OnlyOnce
    /\ \A key : /\ Begin(key).op \notin OnlyOnce /\ BeginArray(key).op \notin OnlyOnce
                 /\ BeginMemory(key).op \notin OnlyOnce /\ End(key).op \notin OnlyOnce
    /\ \A f, key : CallTo(f, key).op = f
BY DEF Add, Begin, BeginArray, BeginMemory, End, CallTo, OnlyOnce
LEMMA QuietAdd == \A keys : Quiet(<<Add(keys)>>)
BY OpOf, QuietOne
LEMMA QuietCall == ASSUME NEW f, NEW key, f \notin OnlyOnce PROVE Quiet(<<CallTo(f, key)>>)
BY OpOf, QuietOne
LEMMA QuietSeveral ==
    ASSUME NEW call, call.op \notin OnlyOnce, NEW calls \in Several(call)
    PROVE  Quiet(calls)
<1>1. PICK n \in 0..MaxElements : calls = Times(call, n)
    BY DEF Several
<1>2. n \in Nat /\ calls = [i \in 1..n |-> call]
    BY <1>1, ReportWriterAssumption DEF Times
<1> HIDE <1>1
<1>3. calls = [i \in 1..n |-> calls[i]] /\ \A i \in 1..n : calls[i].op \notin OnlyOnce
    BY <1>2
<1> QED BY <1>2, <1>3, QuietEach

\* What looks at the memory calls itself, and adds elements.
LEMMA MemoryQuiet ==
    ASSUME NEW key, NEW left, NEW calls \in MemoryContents(key, left)
    PROVE  Quiet(calls)
<1>1. PICK zombie \in {Add({"address"}), Add({"address", "last_deallocated_obj"})},
           inside \in ObjCObject(left) \cup NotAnObject : calls = MemoryObject(key, <<zombie>> \o inside)
    BY DEF MemoryContents
<1>2. ASSUME NEW in \in NotAnObject PROVE Quiet(in)
    BY <1>2, QuietAdd DEF NotAnObject
<1>3. ASSUME NEW in \in ObjectElements(left) PROVE Quiet(in)
    BY <1>3, QuietAdd, QuietNone, QuietCall DEF ObjectElements, OnlyOnce
<1>4. ASSUME NEW in \in ObjCObject(left) PROVE Quiet(in)
  <2>1. \/ \E i \in NotAnObject : in = <<Add({"type", "class"})>> \o i
        \/ \E i \in ObjectElements(left) : in = <<Add({"type", "class"})>> \o i
      BY <1>4 DEF ObjCObject, Unrestricted, Restricted
  <2> QED BY <1>2, <1>3, <2>1, QuietAdd, QuietBoth
<1>5. Quiet(<<zombie>>) /\ Quiet(inside)
    BY <1>1, <1>2, <1>4, QuietAdd
<1>6. Quiet(<<zombie>> \o inside) /\ Quiet(<<BeginMemory(key)>>) /\ Quiet(<<End(key)>>)
    BY <1>5, OpOf, QuietOne, QuietBoth DEF OnlyOnce
<1> QED BY <1>1, <1>6, QuietBoth DEF MemoryObject
LEMMA IvarsQuiet ==
    ASSUME NEW key, NEW ivars \in SUBSET Ivars, NEW pointers \in SUBSET ivars
    PROVE  Quiet(UnknownObjectContents(key, ivars, pointers))
<1> DEFINE calls == [i \in 1..Cardinality(pointers) |-> CallTo("memory", SetToSeq(pointers)[i])]
<1>1. Cardinality(pointers) \in Nat
    BY ReportWriterAssumption, FS_Subset, FS_CardinalityType
<1>2. \A i \in 1..Cardinality(pointers) : calls[i].op \notin OnlyOnce
    BY OpOf DEF OnlyOnce
<1>3. calls = [i \in 1..Cardinality(pointers) |-> calls[i]]
    OBVIOUS
<1>4. UnknownObjectContents(key, ivars, pointers) = Object(key, <<Add(ivars \ pointers)>> \o calls)
    BY DEF UnknownObjectContents
<1> HIDE DEF calls
<1>5. Quiet(calls)
    BY <1>1, <1>2, <1>3, QuietEach
<1> QED BY <1>4, <1>5, QuietAdd, QuietBoth, QuietObject

\* So does what lists threads, images and the error.
LEMMA SearchesQuiet ==
    ASSUME NEW key, NEW found \in SUBSET Notable
    PROVE  Quiet(Object(key, [i \in 1..Cardinality(found) |-> CallTo("search", SetToSeq(found)[i])]))
<1> DEFINE calls == [i \in 1..Cardinality(found) |-> CallTo("search", SetToSeq(found)[i])]
<1>1. Cardinality(found) \in Nat
    BY ReportWriterAssumption, FS_Subset, FS_CardinalityType
<1>2. \A i \in 1..Cardinality(found) : calls[i].op \notin OnlyOnce
    BY OpOf DEF OnlyOnce
<1>3. calls = [i \in 1..Cardinality(found) |-> calls[i]]
    OBVIOUS
<1> HIDE DEF calls
<1>4. Quiet(calls)
    BY <1>1, <1>2, <1>3, QuietEach
<1>5. Quiet(Object(key, calls))
    BY <1>4, QuietObject
<1> QED BY <1>5 DEF calls
LEMMA ReferencedQuiet == ASSUME NEW key, NEW calls \in Referenced(key) PROVE Quiet(calls)
BY QuietNone, QuietCall DEF Referenced, OnlyOnce
LEMMA ThreadQuiet == ASSUME NEW key, NEW calls \in Thread(key) PROVE Quiet(calls)
<1> DEFINE crash == {<<>>, <<CallTo("stack", "stack")>>}
                    \cup (IF setup.introspects /\ report = "standard"
                          THEN {<<CallTo("stack", "stack"), CallTo("notable", "notable_addresses")>>} ELSE {})
           before == <<CallTo("backtrace", "backtrace")>>
           crashed == <<Add({"crashed", "current_thread"})>>
           registered == {<<>>, <<CallTo("registers", "registers")>>}
<1>1. PICK registers \in registered, names \in MayAdd({"name", "dispatch_queue"}), inside \in crash :
         calls = Object(key, before \o registers \o <<Add({"index"}), names>> \o crashed \o inside)
  <2>1. Thread(key) = {Object(key, before \o registers \o <<Add({"index"}), names>> \o crashed \o inside) :
                          registers \in registered, names \in MayAdd({"name", "dispatch_queue"}), inside \in crash}
      BY DEF Thread
  <2> HIDE DEF before, crashed, crash, registered
  <2> QED BY <2>1
<1>2. Quiet(before) /\ Quiet(registers) /\ Quiet(crashed)
    BY QuietCall, QuietAdd, QuietNone DEF OnlyOnce
<1>3. Quiet(<<Add({"index"}), names>>)
    BY OpOf, QuietTwo DEF MayAdd
<1>4. Quiet(inside)
  <2>1. \/ inside \in {<<>>, <<CallTo("stack", "stack")>>}
        \/ inside = <<CallTo("stack", "stack"), CallTo("notable", "notable_addresses")>>
      OBVIOUS
  <2> HIDE DEF crash
  <2> QED BY <2>1, OpOf, QuietNone, QuietCall, QuietTwo DEF OnlyOnce
<1> HIDE DEF before, crashed, crash
<1>5. Quiet(before \o registers \o <<Add({"index"}), names>>)
    BY <1>2, <1>3, QuietBoth
<1>6. Quiet(before \o registers \o <<Add({"index"}), names>> \o crashed \o inside)
    BY <1>2, <1>4, <1>5, QuietBoth
<1> QED BY <1>1, <1>6, QuietObject
LEMMA ErrorQuiet == ASSUME NEW key, NEW calls \in Error(key) PROVE Quiet(calls)
<1>1. PICK mach \in MayAdd({"exception_name", "code_name"}), signal \in MayAdd({"name", "code_name"}),
           reason \in MayAdd({"reason"}), specific \in Specific :
         calls = Object(key, Object("mach", <<Add({"exception", "code", "subcode"}), mach>>)
                 \o Object("signal", <<Add({"signal", "code"}), signal>>)
                 \o <<Add({"address"}), reason, Add({"type"})>> \o specific)
    BY DEF Error
<1>2. /\ Quiet(Object("mach", <<Add({"exception", "code", "subcode"}), mach>>))
      /\ Quiet(Object("signal", <<Add({"signal", "code"}), signal>>))
    BY OpOf, QuietTwo, QuietObject DEF MayAdd
<1>3. Quiet(<<Add({"address"}), reason, Add({"type"})>>)
  <2> DEFINE S == {Add({"address"}), reason, Add({"type"})}
  <2>1. <<Add({"address"}), reason, Add({"type"})>> \in Seq(S)
      OBVIOUS
  <2>2. \A c \in S : c.op \notin OnlyOnce
      BY OpOf DEF MayAdd
  <2> HIDE DEF S
  <2> QED BY <2>1, <2>2, QuietBy
<1>4. Quiet(specific)
  <2>1. CASE specific \in {<<>>, Object("cpp_exception", <<Add({"name"})>>)}
      BY <2>1, QuietNone, QuietAdd, QuietObject
  <2>2. ASSUME NEW object \in Referenced("referenced_object"),
               specific = Object("nsexception", <<Add({"name", "userInfo"})>> \o object)
        PROVE  Quiet(specific)
      BY <2>2, ReferencedQuiet, QuietAdd, QuietBoth, QuietObject
  <2>3. ASSUME NEW about \in MayAdd({"language", "line_of_code"}), NEW trace \in CustomTrace,
               specific = Object("user_reported", <<Add({"name"}), about>> \o trace)
        PROVE  Quiet(specific)
    <3>1. Quiet(<<Add({"name"}), about>>)
        BY OpOf, QuietTwo DEF MayAdd
    <3>2. Quiet(Object("backtrace", <<Add({"error", "json_data"})>>)) /\ Quiet(<<Begin("backtrace"), End("backtrace")>>)
        BY OpOf, QuietAdd, QuietTwo, QuietObject
    <3>3. Quiet(trace)
        BY <3>2, QuietNone, QuietAdd, QuietBoth DEF CustomTrace
    <3> QED BY <2>3, <3>1, <3>3, QuietBoth, QuietObject
  <2> DEFINE Plainly == {<<>>, Object("cpp_exception", <<Add({"name"})>>)}
             NSException == {Object("nsexception", <<Add({"name", "userInfo"})>> \o object) :
                                object \in Referenced("referenced_object")}
             Reported == {Object("user_reported", <<Add({"name"}), about>> \o trace) :
                             about \in MayAdd({"language", "line_of_code"}), trace \in CustomTrace}
  <2>4. CASE specific \in NSException
      BY <2>2, <2>4
  <2>5. CASE specific \in Reported
    <3>1. PICK about \in MayAdd({"language", "line_of_code"}), trace \in CustomTrace :
             specific = Object("user_reported", <<Add({"name"}), about>> \o trace)
        BY <2>5
    <3> QED BY <2>3, <3>1
  <2>6. Specific = Plainly \cup NSException \cup Reported
      BY DEF Specific
  <2> HIDE DEF Plainly, NSException, Reported
  <2>7. specific \in Plainly \cup NSException \cup Reported
      BY <2>6
  <2> QED BY <2>1, <2>4, <2>5, <2>7 DEF Plainly
<1> HIDE <1>1
<1> DEFINE a == Object("mach", <<Add({"exception", "code", "subcode"}), mach>>)
           b == Object("signal", <<Add({"signal", "code"}), signal>>)
           c == <<Add({"address"}), reason, Add({"type"})>>
<1>5. calls = Object(key, a \o b \o c \o specific) /\ Quiet(a) /\ Quiet(b) /\ Quiet(c)
    BY <1>1, <1>2, <1>3
<1> HIDE DEF a, b, c
<1>6. Quiet(a \o b \o c)
    BY <1>5, QuietBoth
<1> QED BY <1>4, <1>5, <1>6, QuietBoth, QuietObject

\* And the sections.
LEMMA PlainQuiet ==
    ASSUME NEW key, NEW op \in Plain, NEW calls \in Functions(op, key)
    PROVE  Quiet(calls)
<1>1. ASSUME op = "info" PROVE Quiet(calls)
  <2>1. calls \in ReportInfo(key)
      BY <1>1 DEF Functions
  <2> QED BY <2>1, QuietAdd, QuietObject DEF ReportInfo
<1>2. ASSUME op = "images" PROVE Quiet(calls)
  <2>1. calls \in BinaryImages(key)
      BY <1>2 DEF Functions
  <2>2. PICK images \in Several(CallTo("image", NoKey)) : calls = Array(key, images)
      BY <2>1 DEF BinaryImages
  <2>3. CallTo("image", NoKey).op \notin OnlyOnce
      BY OpOf DEF OnlyOnce
  <2>4. Quiet(images)
      BY <2>3, QuietSeveral
  <2> QED BY <2>2, <2>4, QuietObject
<1>3. ASSUME op = "image" PROVE Quiet(calls)
  <2>1. calls \in Image(key)
      BY <1>3 DEF Functions
  <2> QED BY <2>1, QuietNone, QuietAdd, QuietObject DEF Image
<1>4. ASSUME op = "process" PROVE Quiet(calls)
  <2>1. calls \in ProcessState(key)
      BY <1>4 DEF Functions
  <2>2. CASE calls = Object(key, <<>>)
      BY <2>2, QuietNone, QuietObject
  <2>3. ASSUME NEW object \in Referenced("referenced_object"),
               calls = Object(key, Object("last_dealloced_nsexception", <<Add({"address", "name", "reason"})>> \o object))
        PROVE  Quiet(calls)
    <3>1. Quiet(<<Add({"address", "name", "reason"})>> \o object)
        BY ReferencedQuiet, QuietAdd, QuietBoth
    <3> QED BY <2>3, <3>1, QuietObject
  <2> QED BY <2>1, <2>2, <2>3 DEF ProcessState
<1>5. ASSUME op = "system" PROVE Quiet(calls)
  <2>1. calls \in SystemInfo(key)
      BY <1>5 DEF Functions
  <2> DEFINE a == <<Add(SystemKeys)>>
             b == Object("memory", <<Add({"size", "usable", "free"})>>)
             c == Object("application_stats", <<Add(AppStatsKeys)>>)
  <2>2. calls = Object(key, a \o b \o c)
      BY <2>1 DEF SystemInfo
  <2>3. Quiet(a) /\ Quiet(b) /\ Quiet(c)
      BY QuietAdd, QuietObject
  <2> HIDE DEF a, b, c
  <2>4. Quiet(a \o b \o c)
      BY <2>3, QuietBoth
  <2> QED BY <2>2, <2>4, QuietObject
<1>6. ASSUME op = "error" PROVE Quiet(calls)
  <2>1. calls \in Error(key)
      BY <1>6 DEF Functions
  <2> QED BY <2>1, ErrorQuiet
<1>7. ASSUME op = "threads" PROVE Quiet(calls)
  <2>1. calls \in AllThreads(key)
      BY <1>7 DEF Functions
  <2>2. PICK threads \in Several(CallTo("thread", NoKey)) : calls = Array(key, threads)
      BY <2>1 DEF AllThreads
  <2>3. CallTo("thread", NoKey).op \notin OnlyOnce
      BY OpOf DEF OnlyOnce
  <2>4. Quiet(threads)
      BY <2>3, QuietSeveral
  <2> QED BY <2>2, <2>4, QuietObject
<1>8. ASSUME op = "thread" PROVE Quiet(calls)
  <2>1. calls \in Thread(key)
      BY <1>8 DEF Functions
  <2> QED BY <2>1, ThreadQuiet
<1>9. ASSUME op = "backtrace" PROVE Quiet(calls)
  <2>1. calls \in Backtrace(key)
      BY <1>9 DEF Functions
  <2>2. PICK frames \in Several(CallTo("frame", NoKey)) :
           calls = Object(key, Array("contents", frames) \o <<Add({"skipped"})>>)
      BY <2>1 DEF Backtrace
  <2>3. CallTo("frame", NoKey).op \notin OnlyOnce
      BY OpOf DEF OnlyOnce
  <2>4. Quiet(Array("contents", frames))
      BY <2>3, QuietSeveral, QuietObject
  <2>5. Quiet(Array("contents", frames) \o <<Add({"skipped"})>>)
      BY <2>4, QuietAdd, QuietBoth
  <2> QED BY <2>2, <2>5, QuietObject
<1>10. ASSUME op = "frame" PROVE Quiet(calls)
  <2>1. calls \in Frame
      BY <1>10 DEF Functions
  <2>2. CASE calls = Object(NoKey, <<Add({"instruction_addr"})>>)
      BY <2>2, QuietAdd, QuietObject
  <2>3. ASSUME NEW names \in MayAdd({"object_name", "symbol_name"}),
               calls = Object(NoKey, <<Add(SymbolKeys), names>>)
        PROVE  Quiet(calls)
    <3>1. Quiet(<<Add(SymbolKeys), names>>)
        BY OpOf, QuietTwo DEF MayAdd
    <3> QED BY <2>3, <3>1, QuietObject
  <2> QED BY <2>1, <2>2, <2>3 DEF Frame
<1>11. ASSUME op = "registers" PROVE Quiet(calls)
  <2>1. calls \in Registers(key)
      BY <1>11 DEF Functions
  <2> DEFINE a == Object("basic", <<Add(Notable)>>)
             b == Object("exception", <<Add({"exception"})>>)
  <2>2. Quiet(a) /\ Quiet(b)
      BY QuietAdd, QuietObject
  <2>3. calls = Object(key, a) \/ calls = Object(key, a \o b)
      BY <2>1 DEF Registers
  <2> HIDE DEF a, b
  <2> QED BY <2>2, <2>3, QuietBoth, QuietObject
<1>12. ASSUME op = "stack" PROVE Quiet(calls)
  <2>1. calls \in StackContents(key)
      BY <1>12 DEF Functions
  <2> DEFINE dump == Add({"grow_direction", "dump_start", "dump_end", "stack_pointer", "overflow"})
  <2>2. \A keys : Quiet(<<dump, Add(keys)>>)
      BY OpOf, QuietTwo
  <2>3. calls = <<>> \/ \E contents : calls = Object(key, <<dump, Add({contents})>>)
      BY <2>1 DEF StackContents
  <2> HIDE DEF dump
  <2> QED BY <2>2, <2>3, QuietNone, QuietObject
<1>13. ASSUME op = "notable" PROVE Quiet(calls)
  <2>1. calls \in NotableAddresses(key)
      BY <1>13 DEF Functions
  <2>2. PICK found \in SUBSET Notable :
           calls = Object(key, [i \in 1..Cardinality(found) |-> CallTo("search", SetToSeq(found)[i])])
      BY <2>1 DEF NotableAddresses
  <2>3. Quiet(Object(key, [i \in 1..Cardinality(found) |-> CallTo("search", SetToSeq(found)[i])]))
      BY SearchesQuiet
  <2> QED BY <2>2, <2>3
<1>14. ASSUME op = "debug" PROVE Quiet(calls)
  <2>1. calls \in DebugInfo(key)
      BY <1>14 DEF Functions
  <2> QED BY <2>1, QuietNone, QuietObject DEF DebugInfo
<1> QED BY <1>1, <1>2, <1>3, <1>4, <1>5, <1>6, <1>7, <1>8, <1>9, <1>10, <1>11, <1>12, <1>13, <1>14 DEF Plain
LEMMA UserQuiet == ASSUME NEW json \in UserJSON PROVE Quiet(UserSection(json) \o UserClosed)
<1>1. Quiet(UserError)
    BY QuietAdd, QuietObject DEF UserError
<1>2. Quiet(<<Begin("user"), Begin("cut")>>) /\ Quiet(<<Begin("user")>>) /\ Quiet(UserClosed)
    BY OpOf, QuietOne, QuietTwo DEF UserClosed
<1>3. json \in {"none", "object", "scalar", "invalid", "cut"}
    BY ReportWriterAssumption
<1>4. Quiet(UserSection(json))
    BY <1>1, <1>2, <1>3, QuietAdd, QuietBoth DEF UserSection
<1> QED BY <1>2, <1>4, QuietBoth
-----------------------------------------------------------------------------
(* The first report *)

\* What is left of Embedded, in front of calls that leave the files alone.
ToRemove(rest) == <<CallTo("remove", NoKey)>> \o rest
ToFlush(rest) == <<CallTo("flush", NoKey)>> \o ToRemove(rest)
ToCopy(rest, left) == <<CopyOf(left)>> \o ToFlush(rest)
ToRoot(rest, left) == <<Begin("root")>> \o ToCopy(rest, left)
ToOpen(rest, left) == <<CallTo("open", NoKey)>> \o ToRoot(rest, left)
ToRename(rest, left) == <<CallTo("rename", NoKey)>> \o ToOpen(rest, left)
Sequence(s) == \E S : s \in Seq(S)

LEMMA SequenceBy == ASSUME NEW s, NEW S, s \in Seq(S) PROVE Sequence(s)
<1> SUFFICES \E T : s \in Seq(T)
    BY DEF Sequence
<1> WITNESS S
<1> QED OBVIOUS
LEMMA SequenceQuiet == ASSUME NEW s, Quiet(s) PROVE Sequence(s)
<1>1. PICK S : s \in Seq(S)
    BY DEF Quiet
<1> QED BY <1>1, SequenceBy
LEMMA InFront ==
    ASSUME NEW c, NEW s, Sequence(s)
    PROVE  /\ Sequence(<<c>> \o s) /\ <<c>> \o s # <<>>
           /\ Head(<<c>> \o s) = c /\ Tail(<<c>> \o s) = s
<1>1. PICK S : s \in Seq(S)
    BY DEF Sequence
<1> DEFINE T == S \cup {c}
<1>2. s \in Seq(T) /\ c \in T
    BY <1>1
<1> HIDE DEF T
<1>3. <<c>> \in Seq(T) /\ Len(<<c>>) = 1 /\ <<c>>[1] = c
    BY <1>2
<1>4. <<c>> \o s \in Seq(T) /\ Len(<<c>> \o s) = 1 + Len(s)
    BY <1>2, <1>3
<1>5. <<c>> \o s # <<>> /\ Head(<<c>> \o s) = c
    BY <1>2, <1>3, <1>4
<1>6. Tail(<<c>> \o s) = s
    BY <1>2, <1>3, <1>4
<1> QED BY <1>4, <1>5, <1>6, SequenceBy
LEMMA FrontTwo ==
    ASSUME NEW c, NEW d, NEW s, Sequence(s)
    PROVE  <<c, d>> \o s = <<c>> \o (<<d>> \o s)
<1>1. PICK S : s \in Seq(S)
    BY DEF Sequence
<1> DEFINE T == S \cup {c, d}
<1>2. s \in Seq(T) /\ <<c>> \in Seq(T) /\ <<d>> \in Seq(T) /\ <<c, d>> \in Seq(T)
    BY <1>1
<1> HIDE DEF T
<1>3. <<c, d>> = <<c>> \o <<d>>
  <2> DEFINE u == <<c>> \o <<d>>
             v == <<c, d>>
  <2>1. Len(u) = 2 /\ Len(v) = 2 /\ u \in Seq(T) /\ v \in Seq(T)
      BY <1>2
  <2>2. u[1] = c /\ u[2] = d /\ v[1] = c /\ v[2] = d
      BY <1>2
  <2> HIDE DEF u, v
  <2>3. \A i \in 1..2 : u[i] = v[i]
      BY <2>2
  <2>4. u = v
      BY <2>1, <2>3
  <2> QED BY <2>4 DEF u, v
<1> QED BY <1>2, <1>3
LEMMA Assoc ==
    ASSUME NEW r, NEW s, NEW t, Sequence(r), Sequence(s), Sequence(t)
    PROVE  (r \o s) \o t = r \o (s \o t)
<1>1. PICK R : r \in Seq(R)
    BY DEF Sequence
<1>2. PICK S : s \in Seq(S)
    BY DEF Sequence
<1>3. PICK T : t \in Seq(T)
    BY DEF Sequence
<1> DEFINE U == R \cup S \cup T
           left == (r \o s) \o t
           right == r \o (s \o t)
<1>4. r \in Seq(U) /\ s \in Seq(U) /\ t \in Seq(U)
    BY <1>1, <1>2, <1>3
<1> HIDE DEF U
<1>5. /\ r \o s \in Seq(U) /\ s \o t \in Seq(U)
      /\ Len(r \o s) = Len(r) + Len(s) /\ Len(s \o t) = Len(s) + Len(t)
      /\ Len(r) \in Nat /\ Len(s) \in Nat /\ Len(t) \in Nat
    BY <1>4
<1>6. /\ left \in Seq(U) /\ right \in Seq(U)
      /\ Len(left) = Len(r) + Len(s) + Len(t) /\ Len(right) = Len(r) + Len(s) + Len(t)
    BY <1>4, <1>5
<1>7. ASSUME NEW i \in 1..(Len(r) + Len(s) + Len(t)) PROVE left[i] = right[i]
  <2>1. CASE i <= Len(r)
    <3>1. left[i] = (r \o s)[i]
        BY <1>4, <1>5, <2>1
    <3>2. (r \o s)[i] = r[i] /\ right[i] = r[i]
        BY <1>4, <1>5, <2>1
    <3> QED BY <3>1, <3>2
  <2>2. CASE i > Len(r) /\ i <= Len(r) + Len(s)
    <3>1. left[i] = (r \o s)[i]
        BY <1>4, <1>5, <2>2
    <3>2. (r \o s)[i] = s[i - Len(r)]
        BY <1>4, <1>5, <2>2
    <3>3. right[i] = (s \o t)[i - Len(r)]
        BY <1>4, <1>5, <2>2
    <3>4. i - Len(r) \in 1..Len(s)
        BY <1>5, <2>2
    <3>5. (s \o t)[i - Len(r)] = s[i - Len(r)]
        BY <1>4, <1>5, <3>4
    <3> QED BY <3>1, <3>2, <3>3, <3>5
  <2>3. CASE i > Len(r) + Len(s)
    <3>1. left[i] = t[i - (Len(r) + Len(s))]
        BY <1>4, <1>5, <2>3
    <3>2. right[i] = (s \o t)[i - Len(r)]
        BY <1>4, <1>5, <2>3
    <3>3. i - Len(r) \in (Len(s) + 1)..(Len(s) + Len(t))
        BY <1>5, <2>3
    <3>4. (s \o t)[i - Len(r)] = t[(i - Len(r)) - Len(s)]
        BY <1>4, <1>5, <3>3
    <3>5. (i - Len(r)) - Len(s) = i - (Len(r) + Len(s))
        BY <1>5
    <3> QED BY <3>1, <3>2, <3>4, <3>5
  <2> QED BY <1>5, <2>1, <2>2, <2>3
<1> HIDE DEF left, right
<1>8. left = right
    BY <1>5, <1>6, <1>7
<1> QED BY <1>8 DEF left, right
\* \o under a name: the provers take it as it stands.
Join(s, t) == s \o t
LEMMA Joined ==
    ASSUME NEW s, NEW t, Sequence(s), Sequence(t) PROVE Sequence(Join(s, t))
<1>1. PICK S : s \in Seq(S)
    BY DEF Sequence
<1>2. PICK T : t \in Seq(T)
    BY DEF Sequence
<1>3. s \o t \in Seq(S \cup T)
    BY <1>1, <1>2
<1> QED BY <1>3, SequenceBy DEF Join
LEMMA JoinAssoc ==
    ASSUME NEW r, NEW s, NEW t, Sequence(r), Sequence(s), Sequence(t)
    PROVE  Join(Join(r, s), t) = Join(r, Join(s, t))
BY Assoc DEF Join
LEMMA Lists ==
    /\ Sequence(<<>>)
    /\ \A c : Sequence(<<c>>)
    /\ \A c, d : Sequence(<<c, d>>)
<1>1. Sequence(<<>>)
  <2>1. <<>> \in Seq({})
      OBVIOUS
  <2> QED BY <2>1, SequenceBy
<1>2. ASSUME NEW c PROVE Sequence(<<c>>)
  <2>1. <<c>> \in Seq({c})
      OBVIOUS
  <2> QED BY <2>1, SequenceBy
<1>3. ASSUME NEW c, NEW d PROVE Sequence(<<c, d>>)
  <2> DEFINE S == {c, d}
  <2>1. <<c, d>> \in Seq(S)
      OBVIOUS
  <2> HIDE DEF S
  <2> QED BY <2>1, SequenceBy
<1> QED BY <1>1, <1>2, <1>3

LEMMA FrontOfJoin ==
    ASSUME NEW s, NEW t, Sequence(s), Sequence(t), s # <<>>
    PROVE  Join(s, t) # <<>> /\ Head(Join(s, t)) = Head(s) /\ Tail(Join(s, t)) = Join(Tail(s), t)
<1>1. PICK S : s \in Seq(S)
    BY DEF Sequence
<1>2. /\ s = <<Head(s)>> \o Tail(s) /\ Sequence(Tail(s))
  <2>1. Tail(s) \in Seq(S) /\ Head(s) \in S
      BY <1>1
  <2>2. s = <<Head(s)>> \o Tail(s)
      BY <1>1
  <2> QED BY <2>1, <2>2, SequenceBy
<1> DEFINE h == Head(s)
           r == Tail(s)
<1>3. Sequence(r) /\ Join(s, t) = Join(<<h>>, Join(r, t))
  <2> HIDE DEF h, r
  <2>1. s = Join(<<h>>, r) /\ Sequence(r)
      BY <1>2 DEF h, r, Join
  <2> QED BY <2>1, Lists, JoinAssoc
<1> HIDE DEF h, r
<1>4. Sequence(Join(r, t))
    BY <1>3, Joined
<1>5. /\ Join(<<h>>, Join(r, t)) # <<>> /\ Head(Join(<<h>>, Join(r, t))) = h
      /\ Tail(Join(<<h>>, Join(r, t))) = Join(r, t)
    BY <1>4, InFront DEF Join
<1> QED BY <1>3, <1>5 DEF h, r

\* A standard report asks for the user information once, close to its end.
UserTail == <<CallTo("debug", "debug"), End("root"), CallTo("close", NoKey)>>
UserAndTail == <<CallTo("user", "user")>> \o UserTail
Awaits(calls) == \E before : Quiet(before) /\ calls = Join(before, UserAndTail)

LEMMA UserTailQuiet == Quiet(UserTail)
<1>1. /\ UserTail = <<CallTo("debug", "debug"), End("root")>> \o <<CallTo("close", NoKey)>>
      /\ Quiet(<<CallTo("debug", "debug"), End("root")>>) /\ Quiet(<<CallTo("close", NoKey)>>)
    BY OpOf, QuietOne, QuietTwo DEF OnlyOnce, UserTail
<1> QED BY <1>1, QuietBoth
LEMMA AwaitsOnward ==
    ASSUME NEW calls, Quiet(calls), NEW rest, Awaits(rest) PROVE Awaits(Join(calls, rest))
<1>1. PICK before : Quiet(before) /\ rest = Join(before, UserAndTail)
    BY DEF Awaits
<1>2. Sequence(calls) /\ Sequence(before) /\ Sequence(UserAndTail)
    BY <1>1, SequenceQuiet, UserTailQuiet, InFront DEF UserAndTail
<1>3. Join(calls, rest) = Join(Join(calls, before), UserAndTail)
    BY <1>1, <1>2, JoinAssoc
<1>4. Quiet(Join(calls, before))
    BY <1>1, QuietBoth DEF Join
<1> QED BY <1>3, <1>4 DEF Awaits
BeforeUser ==
    Join(<<CallTo("info", "report"), CallTo("images", "binary_images"), CallTo("process", "process"),
           CallTo("system", "system")>>,
         Object("crash", <<CallTo("error", "error"), CallTo("threads", "threads")>>))
LEMMA StandardParts ==
    /\ Quiet(BeforeUser)
    /\ StandardReport = Join(Join(<<Begin("root")>>, BeforeUser), UserAndTail)
    /\ UserTail = Join(<<CallTo("debug", "debug")>>, Join(<<End("root")>>, <<CallTo("close", NoKey)>>))
<1> DEFINE a == <<CallTo("info", "report"), CallTo("images", "binary_images"), CallTo("process", "process"),
                  CallTo("system", "system")>>
           b == Object("crash", <<CallTo("error", "error"), CallTo("threads", "threads")>>)
           c == <<CallTo("user", "user")>>
           d == <<CallTo("debug", "debug")>>
           e == <<CallTo("close", NoKey)>>
           r == <<Begin("root")>>
           x == <<End("root")>>
           f == Join(r, Join(a, b))
<1>1. Quiet(a)
  <2>1. a = <<CallTo("info", "report"), CallTo("images", "binary_images")>>
            \o <<CallTo("process", "process"), CallTo("system", "system")>>
      OBVIOUS
  <2>2. /\ Quiet(<<CallTo("info", "report"), CallTo("images", "binary_images")>>)
        /\ Quiet(<<CallTo("process", "process"), CallTo("system", "system")>>)
      BY OpOf, QuietTwo DEF OnlyOnce
  <2> HIDE DEF a
  <2> QED BY <2>1, <2>2, QuietBoth
<1>2. Quiet(b)
    BY OpOf, QuietTwo, QuietObject DEF OnlyOnce
<1>3. Quiet(r)
    BY OpOf, QuietOne
<1>4. StandardReport = Join(Join(Join(r, Join(Join(Join(a, b), c), d)), x), e)
    BY DEF StandardReport, UpToUser, Object, Join
<1>5. Sequence(c) /\ Sequence(d) /\ Sequence(e) /\ Sequence(x) /\ Sequence(Join(d, Join(x, e)))
    BY Lists, Joined
<1>6. UserAndTail = Join(c, Join(d, Join(x, e))) /\ UserTail = Join(d, Join(x, e)) /\ BeforeUser = Join(a, b)
  <2>1. UserTail = d \o (x \o e)
      BY DEF UserTail
  <2> QED BY <2>1 DEF UserAndTail, Join, BeforeUser
<1> HIDE DEF a, b, c, d, e, r, x
<1>7. Sequence(a) /\ Sequence(b) /\ Sequence(r) /\ Sequence(Join(a, b)) /\ Sequence(f)
    BY <1>1, <1>2, <1>3, SequenceQuiet, Joined
<1>8. StandardReport = Join(f, UserAndTail)
  <2>1. Join(r, Join(Join(Join(a, b), c), d)) = Join(f, Join(c, d))
    <3>1. Join(Join(Join(a, b), c), d) = Join(Join(a, b), Join(c, d))
        BY <1>5, <1>7, JoinAssoc
    <3> QED BY <1>5, <1>7, <3>1, Joined, JoinAssoc
  <2>2. Join(Join(f, Join(c, d)), x) = Join(f, Join(c, Join(d, x)))
    <3>1. Join(Join(f, Join(c, d)), x) = Join(f, Join(Join(c, d), x))
        BY <1>5, <1>7, Joined, JoinAssoc
    <3> QED BY <1>5, <3>1, JoinAssoc
  <2>3. Join(Join(f, Join(c, Join(d, x))), e) = Join(f, Join(c, Join(d, Join(x, e))))
    <3>1. Sequence(Join(d, x)) /\ Sequence(Join(c, Join(d, x)))
        BY <1>5, Joined
    <3>2. Join(Join(f, Join(c, Join(d, x))), e) = Join(f, Join(Join(c, Join(d, x)), e))
        BY <1>5, <1>7, <3>1, JoinAssoc
    <3>3. Join(Join(c, Join(d, x)), e) = Join(c, Join(Join(d, x), e))
        BY <1>5, <3>1, JoinAssoc
    <3>4. Join(Join(d, x), e) = Join(d, Join(x, e))
        BY <1>5, JoinAssoc
    <3> QED BY <3>2, <3>3, <3>4
  <2> QED BY <1>4, <1>6, <2>1, <2>2, <2>3
<1>9. Quiet(Join(a, b))
    BY <1>1, <1>2, QuietBoth DEF Join
<1> QED BY <1>6, <1>8, <1>9 DEF d, e, r, x, f
LEMMA StandardAwaits == Awaits(StandardReport)
<1>1. Quiet(<<Begin("root")>>)
    BY OpOf, QuietOne
<1>2. Quiet(Join(<<Begin("root")>>, BeforeUser))
    BY <1>1, StandardParts, QuietBoth DEF Join
<1> QED BY <1>2, StandardParts DEF Awaits

AfterEmbedded ==
    Join(Join(<<CallTo("info", "report")>>,
              Object("crash", <<CallTo("error", "error"), CallTo("thread", "crashed_thread")>>)),
         <<End("root"), CallTo("close", NoKey)>>)
LEMMA RecrashParts ==
    ASSUME NEW left
    PROVE  Quiet(AfterEmbedded) /\ RecrashReport(left) = ToRename(AfterEmbedded, left)
<1> DEFINE a == <<CallTo("info", "report")>>
           b == Object("crash", <<CallTo("error", "error"), CallTo("thread", "crashed_thread")>>)
           c == <<End("root"), CallTo("close", NoKey)>>
           rest == Join(Join(a, b), c)
           m1 == <<CallTo("rename", NoKey), CallTo("open", NoKey)>>
           m2 == <<Begin("root"), CopyOf(left)>>
           m3 == <<CallTo("flush", NoKey), CallTo("remove", NoKey)>>
<1>1. Quiet(a) /\ Quiet(b) /\ Quiet(c)
    BY OpOf, QuietOne, QuietTwo, QuietObject DEF OnlyOnce
<1>2. Embedded(left) = Join(Join(m1, m2), m3)
    BY DEF Embedded, Join
<1>3. Sequence(m1) /\ Sequence(m2) /\ Sequence(m3)
    BY Lists
<1>4. RecrashReport(left) = Join(Join(Join(Embedded(left), a), b), c)
    BY DEF RecrashReport, Join
<1>0. AfterEmbedded = rest
    BY DEF AfterEmbedded
<1> HIDE DEF a, b, c, m1, m2, m3
<1>5. Quiet(rest)
  <2>1. Quiet(a \o b)
      BY <1>1, QuietBoth
  <2> QED BY <1>1, <2>1, QuietBoth DEF Join
<1> HIDE DEF rest
<1>6. Sequence(a) /\ Sequence(b) /\ Sequence(c) /\ Sequence(rest)
    BY <1>1, <1>5, SequenceQuiet
<1>7. Sequence(Join(m3, rest)) /\ Sequence(Join(m2, Join(m3, rest))) /\ Sequence(Embedded(left))
    BY <1>2, <1>3, <1>6, Joined
<1>8. RecrashReport(left) = Join(Embedded(left), rest)
  <2>1. Join(Join(Embedded(left), a), b) = Join(Embedded(left), Join(a, b))
      BY <1>6, <1>7, JoinAssoc
  <2>2. Join(Join(Embedded(left), Join(a, b)), c) = Join(Embedded(left), Join(Join(a, b), c))
      BY <1>6, <1>7, Joined, JoinAssoc
  <2> QED BY <1>4, <2>1, <2>2 DEF rest
<1>9. Join(Embedded(left), rest) = Join(m1, Join(m2, Join(m3, rest)))
  <2>1. Join(Join(Join(m1, m2), m3), rest) = Join(Join(m1, m2), Join(m3, rest))
      BY <1>3, <1>6, Joined, JoinAssoc
  <2>2. Join(Join(m1, m2), Join(m3, rest)) = Join(m1, Join(m2, Join(m3, rest)))
      BY <1>3, <1>7, JoinAssoc
  <2> QED BY <1>2, <2>1, <2>2
<1>10. RecrashReport(left) = ToRename(rest, left)
  <2>1. Join(m3, rest) = ToFlush(rest)
      BY <1>6, FrontTwo DEF m3, Join, ToFlush, ToRemove
  <2>2. Join(m2, ToFlush(rest)) = ToRoot(rest, left)
      BY <1>7, <2>1, FrontTwo DEF m2, Join, ToRoot, ToCopy
  <2>3. Join(m1, ToRoot(rest, left)) = ToRename(rest, left)
      BY <1>7, <2>1, <2>2, FrontTwo DEF m1, Join, ToRename, ToOpen
  <2> QED BY <1>8, <1>9, <2>1, <2>2, <2>3
<1> QED BY <1>0, <1>5, <1>10

\* The files are renamed, opened, copied, flushed and removed in this order.
Keeping ==
    \/ Quiet(todo)
    \/ \E rest, left : /\ Quiet(rest)
                      /\ todo \in {ToRename(rest, left), ToOpen(rest, left), ToRoot(rest, left), ToCopy(rest, left),
                                   ToFlush(rest), ToRemove(rest)}
KeptInv ==
    /\ report \in {"standard", "recrash"}
    /\ report = "standard" => Quiet(todo) \/ (Awaits(todo) /\ setup.json = "none")
    /\ report = "recrash" => Keeping

LEMMA KeptStart == ReportInit => KeptInv
BY StandardAwaits DEF ReportInit, KeptInv

\* The parts of todo, each with what follows it.
LEMMA ToParts ==
    ASSUME NEW rest, NEW left, Quiet(rest)
    PROVE  /\ ToRename(rest, left) # <<>> /\ Head(ToRename(rest, left)).op = "rename" /\ Tail(ToRename(rest, left)) = ToOpen(rest, left)
           /\ ToOpen(rest, left) # <<>> /\ Head(ToOpen(rest, left)).op = "open" /\ Tail(ToOpen(rest, left)) = ToRoot(rest, left)
           /\ ToRoot(rest, left) # <<>> /\ Head(ToRoot(rest, left)).op = "begin" /\ Tail(ToRoot(rest, left)) = ToCopy(rest, left)
           /\ ToCopy(rest, left) # <<>> /\ Head(ToCopy(rest, left)).op = "copy" /\ Tail(ToCopy(rest, left)) = ToFlush(rest)
           /\ ToFlush(rest) # <<>> /\ Head(ToFlush(rest)).op = "flush" /\ Tail(ToFlush(rest)) = ToRemove(rest)
           /\ ToRemove(rest) # <<>> /\ Head(ToRemove(rest)).op = "remove" /\ Tail(ToRemove(rest)) = rest
<1>1. Sequence(rest)
    BY SequenceQuiet
<1>2. Sequence(ToRemove(rest))
    BY <1>1, InFront DEF ToRemove
<1>3. Sequence(ToFlush(rest))
    BY <1>2, InFront DEF ToFlush
<1>4. Sequence(ToCopy(rest, left))
    BY <1>3, InFront DEF ToCopy
<1>5. Sequence(ToRoot(rest, left))
    BY <1>4, InFront DEF ToRoot
<1>6. Sequence(ToOpen(rest, left))
    BY <1>5, InFront DEF ToOpen
<1>7. CallTo("rename", NoKey).op = "rename" /\ CallTo("open", NoKey).op = "open" /\ Begin("root").op = "begin"
      /\ CopyOf(left).op = "copy" /\ CallTo("flush", NoKey).op = "flush"
      /\ CallTo("remove", NoKey).op = "remove"
    BY DEF CallTo, Begin, CopyOf
<1>8. ToRemove(rest) # <<>> /\ Head(ToRemove(rest)).op = "remove" /\ Tail(ToRemove(rest)) = rest
    BY <1>1, <1>7, InFront DEF ToRemove
<1>9. ToFlush(rest) # <<>> /\ Head(ToFlush(rest)).op = "flush" /\ Tail(ToFlush(rest)) = ToRemove(rest)
    BY <1>2, <1>7, InFront DEF ToFlush
<1>10. ToCopy(rest, left) # <<>> /\ Head(ToCopy(rest, left)).op = "copy" /\ Tail(ToCopy(rest, left)) = ToFlush(rest)
    BY <1>3, <1>7, InFront DEF ToCopy
<1>11. ToRoot(rest, left) # <<>> /\ Head(ToRoot(rest, left)).op = "begin" /\ Tail(ToRoot(rest, left)) = ToCopy(rest, left)
    BY <1>4, <1>7, InFront DEF ToRoot
<1>12. ToOpen(rest, left) # <<>> /\ Head(ToOpen(rest, left)).op = "open" /\ Tail(ToOpen(rest, left)) = ToRoot(rest, left)
    BY <1>5, <1>7, InFront DEF ToOpen
<1>13. ToRename(rest, left) # <<>> /\ Head(ToRename(rest, left)).op = "rename" /\ Tail(ToRename(rest, left)) = ToOpen(rest, left)
    BY <1>6, <1>7, InFront DEF ToRename
<1> QED BY <1>8, <1>9, <1>10, <1>11, <1>12, <1>13

\* A call of a function leaves the files alone, and so do those it makes.
LEMMA FunctionStep ==
    ASSUME Sequence(Rest), Head(todo).op \notin OnlyOnce, ReportStep
    PROVE  /\ UNCHANGED <<copy, report, setup>>
           /\ \E calls : Quiet(calls) /\ todo' = Join(calls, Rest)
<1>1. todo # <<>> /\ Step(Head(todo).op, Head(todo).key)
    BY DEF ReportStep
<1> DEFINE op == Head(todo).op
           key == Head(todo).key
           Goal == /\ UNCHANGED <<copy, report, setup>>
                   /\ \E calls : Quiet(calls) /\ todo' = Join(calls, Rest)
<1>2. op \notin OnlyOnce
    OBVIOUS
<1> SUFFICES Goal
    OBVIOUS
<1> HIDE DEF op, key
<1>3. ASSUME NEW sequences, Calls(sequences), \A s \in sequences : Quiet(s)
      PROVE  Goal
    BY <1>3 DEF Calls, Join
<1>4. ASSUME todo' = Rest, UNCHANGED <<copy, report, setup>> PROVE Goal
  <2>1. <<>> \o Rest = Rest
    <3>1. PICK S : Rest \in Seq(S)
        BY DEF Sequence
    <3> HIDE DEF Rest
    <3> QED BY <3>1
  <2>2. todo' = Join(<<>>, Rest)
      BY <1>4, <2>1 DEF Join
  <2>3. \E calls : Quiet(calls) /\ todo' = Join(calls, Rest)
    <3> WITNESS <<>>
    <3> QED BY <2>2, QuietNone
  <2> QED BY <1>4, <2>3
<1> HIDE DEF Goal
<1>5. CASE AddElements(Head(todo).keys)
    BY <1>4, <1>5 DEF AddElements
<1>6. CASE OpenContainer(op, key) \/ CloseContainer(key)
    BY <1>4, <1>6 DEF OpenContainer, CloseContainer
<1>7. CASE op \in Plain /\ Calls(Functions(op, key))
    BY <1>3, <1>7, PlainQuiet
<1>8. CASE Search
  <2>1. Quiet(<<CallTo("memory", Head(todo).key)>>)
      BY QuietCall DEF OnlyOnce
  <2>2. Calls({<<CallTo("memory", Head(todo).key)>>})
      BY <1>8 DEF Search
  <2> QED BY <1>3, <2>1, <2>2
<1>9. CASE WriteMemory(key)
  <2>1. Calls(MemoryContents(key, Lowered(1)))
      BY <1>9 DEF WriteMemory
  <2> QED BY <1>3, <2>1, MemoryQuiet
<1>10. CASE WriteIvars(key)
  <2>1. CASE Calls({Object(key, <<Add({"tagged_payload"})>>)})
    <3>1. Quiet(Object(key, <<Add({"tagged_payload"})>>))
        BY QuietAdd, QuietObject
    <3> QED BY <1>3, <2>1, <3>1
  <2>2. ASSUME NEW ivars \in SUBSET Ivars, Calls({UnknownObjectContents(key, ivars, p) : p \in SUBSET ivars})
        PROVE  Goal
    <3> DEFINE sequences == {UnknownObjectContents(key, ivars, p) : p \in SUBSET ivars}
    <3>1. \A s \in sequences : Quiet(s)
        BY IvarsQuiet
    <3>2. Calls(sequences)
        BY <2>2
    <3> HIDE DEF sequences
    <3> QED BY <1>3, <3>1, <3>2
  <2> QED BY <1>10, <2>1, <2>2 DEF WriteIvars
<1>11. CASE Close
    BY <1>4, <1>11 DEF Close
<1> QED BY <1>1, <1>2, <1>5, <1>6, <1>7, <1>8, <1>9, <1>10, <1>11 DEF Step, OnlyOnce, op, key

\* What is quiet stays so.
LEMMA QuietStep ==
    ASSUME Quiet(todo), ReportStep
    PROVE  Quiet(todo') /\ UNCHANGED <<copy, report, setup>>
<1>1. todo # <<>>
    BY DEF ReportStep
<1>2. Quiet(Rest) /\ Head(todo).op \notin OnlyOnce
    BY <1>1, QuietTail DEF Rest
<1> QED BY <1>2, FunctionStep, SequenceQuiet, QuietBoth DEF Join

\* The user information is asked for when everything before it is written.
LEMMA AwaitsStep ==
    ASSUME Awaits(todo), ReportStep
    PROVE  \/ Head(todo).op = "user" /\ Rest = UserTail /\ WriteUser
           \/ Head(todo).op \notin OnlyOnce /\ Awaits(todo') /\ UNCHANGED <<copy, report, setup>>
<1>1. PICK before : Quiet(before) /\ todo = Join(before, UserAndTail)
    BY DEF Awaits
<1>2. /\ Sequence(UserTail) /\ Sequence(UserAndTail) /\ UserAndTail # <<>>
      /\ Head(UserAndTail).op = "user" /\ Tail(UserAndTail) = UserTail
    BY UserTailQuiet, SequenceQuiet, InFront, OpOf DEF UserAndTail
<1>3. CASE before = <<>>
  <2>1. todo = UserAndTail
    <3>1. PICK S : UserAndTail \in Seq(S)
        BY <1>2 DEF Sequence
    <3> QED BY <1>1, <1>3, <3>1 DEF Join
  <2> QED BY <1>2, <2>1 DEF ReportStep, Step, Plain, Rest
<1>4. CASE before # <<>>
  <2>1. Head(todo) = Head(before) /\ Tail(todo) = Join(Tail(before), UserAndTail)
    <3>1. Sequence(before)
        BY <1>1, SequenceQuiet
    <3> QED BY <1>1, <1>2, <1>4, <3>1, FrontOfJoin
  <2>2. Quiet(Tail(before)) /\ Head(before).op \notin OnlyOnce
      BY <1>1, <1>4, QuietTail
  <2>3. Awaits(Rest)
      BY <2>1, <2>2 DEF Awaits, Rest
  <2>4. Sequence(Rest)
      BY <1>2, <2>1, <2>2, SequenceQuiet, Joined DEF Rest
  <2> QED BY <2>1, <2>2, <2>3, <2>4, FunctionStep, AwaitsOnward
<1> QED BY <1>3, <1>4

\* What is left of Embedded is done in its order.
LEMMA EmbeddedStep ==
    ASSUME ReportStep, NEW rest, NEW left, Quiet(rest), report = "recrash",
           todo \in {ToRename(rest, left), ToOpen(rest, left), ToRoot(rest, left), ToCopy(rest, left),
                    ToFlush(rest), ToRemove(rest)}
    PROVE  KeptInv'
<1> DEFINE op == Head(todo).op
<1>1. todo # <<>> /\ Step(op, Head(todo).key)
    BY DEF ReportStep
<1> USE ToParts
<1> SUFFICES report' = "recrash" /\ Keeping'
    BY DEF KeptInv
<1>2. CASE todo = ToRename(rest, left)
  <2>1. RenameOld
      BY <1>1, <1>2 DEF Step, Plain
  <2>2. todo' = ToOpen(rest, left) /\ report' = report
      BY <1>2, <2>1 DEF RenameOld, FileStep, Rest
  <2> QED BY <2>2 DEF Keeping
<1>3. CASE todo = ToOpen(rest, left)
  <2>1. Open
      BY <1>1, <1>3 DEF Step, Plain
  <2>2. todo' \in {<<>>, ToRoot(rest, left)} /\ report' = report
      BY <1>3, <2>1 DEF Open, FileStep, Rest
  <2> QED BY <2>2, QuietNone DEF Keeping
<1>4. CASE todo = ToRoot(rest, left)
  <2>1. OpenContainer(op, Head(todo).key)
      BY <1>1, <1>4 DEF Step, Plain
  <2>2. todo' = ToCopy(rest, left) /\ report' = report
      BY <1>4, <2>1 DEF OpenContainer, Rest
  <2> QED BY <2>2 DEF Keeping
<1>5. CASE todo = ToCopy(rest, left)
  <2>1. Copy(Head(todo).keys)
      BY <1>1, <1>5 DEF Step, Plain
  <2>2. todo' = ToFlush(rest) /\ report' = report
      BY <1>5, <2>1 DEF Copy, Rest
  <2> QED BY <2>2 DEF Keeping
<1>6. CASE todo = ToFlush(rest)
  <2>1. FlushCopy
      BY <1>1, <1>6 DEF Step, Plain
  <2>2. todo' = ToRemove(rest) /\ report' = report
      BY <1>6, <2>1 DEF FlushCopy, FileStep, Rest
  <2> QED BY <2>2 DEF Keeping
<1>7. CASE todo = ToRemove(rest)
  <2>1. RemoveOld
      BY <1>1, <1>7 DEF Step, Plain
  <2>2. todo' = rest /\ report' = report
      BY <1>7, <2>1 DEF RemoveOld, FileStep, Rest
  <2> QED BY <2>2 DEF Keeping
<1> QED BY <1>2, <1>3, <1>4, <1>5, <1>6, <1>7

LEMMA KeptStep == KeptInv /\ [ReportNext]_reportVars => KeptInv'
<1> SUFFICES ASSUME KeptInv, [ReportNext]_reportVars PROVE KeptInv'
    OBVIOUS
<1>1. CASE ReportStep
  <2>1. CASE Quiet(todo)
    <3>1. Quiet(todo') /\ UNCHANGED <<copy, report, setup>>
        BY <1>1, <2>1, QuietStep
    <3>2. Keeping'
        BY <3>1 DEF Keeping
    <3> QED BY <3>1, <3>2 DEF KeptInv
  <2>2. CASE ~Quiet(todo) /\ report = "standard"
    <3>1. Awaits(todo) /\ setup.json = "none"
        BY <2>2 DEF KeptInv
    <3>2. CASE Rest = UserTail /\ WriteUser
      <4>1. PICK json \in UserJSON : todo' = Join(UserSection(json) \o UserClosed, UserTail)
          BY <3>2 DEF WriteUser, Join
      <4>2. Quiet(todo')
          BY <4>1, UserQuiet, UserTailQuiet, QuietBoth DEF Join
      <4>3. report' = "standard"
          BY <2>2, <3>2 DEF KeptInv, WriteUser
      <4> QED BY <4>2, <4>3 DEF KeptInv
    <3>3. CASE Awaits(todo') /\ UNCHANGED <<copy, report, setup>>
        BY <2>2, <3>1, <3>3 DEF KeptInv
    <3> QED BY <1>1, <3>1, <3>2, <3>3, AwaitsStep
  <2>3. CASE ~Quiet(todo) /\ report = "recrash"
    <3>1. PICK rest, left : /\ Quiet(rest)
                            /\ todo \in {ToRename(rest, left), ToOpen(rest, left), ToRoot(rest, left),
                                         ToCopy(rest, left), ToFlush(rest), ToRemove(rest)}
        BY <2>3 DEF KeptInv, Keeping
    <3> QED BY <1>1, <2>3, <3>1, EmbeddedStep
  <2> QED BY <2>1, <2>2, <2>3 DEF KeptInv
<1>2. CASE Fault
  <2>1. PICK left \in OnDisk : todo' = RecrashReport(left)
      BY <1>2 DEF Fault
  <2>2. Quiet(AfterEmbedded) /\ todo' = ToRename(AfterEmbedded, left) /\ report' = "recrash"
      BY <1>2, <2>1, RecrashParts DEF Fault
  <2> QED BY <2>2 DEF KeptInv, Keeping
<1>3. CASE UNCHANGED reportVars
    BY <1>3 DEF reportVars, KeptInv, Keeping, Awaits
<1> QED BY <1>1, <1>2, <1>3 DEF ReportNext

-----------------------------------------------------------------------------
(* Bytes *)

LEMMA BytesAre ==
    ASSUME NEW from \in Nat, NEW count \in Nat
    PROVE  /\ Bytes(from, count) \in Seq(Nat) /\ Len(Bytes(from, count)) = count
           /\ \A i \in 1..count : Bytes(from, count)[i] = from + i
BY DEF Bytes
LEMMA NoBytes == \A from : Bytes(from, 0) = <<>>
BY DEF Bytes
LEMMA SameSeq ==
    ASSUME NEW S, NEW s \in Seq(S), NEW t \in Seq(S), Len(s) = Len(t), \A i \in 1..Len(s) : s[i] = t[i]
    PROVE  s = t
OBVIOUS
LEMMA IsBytes ==
    ASSUME NEW from \in Nat, NEW s \in Seq(Nat), \A i \in 1..Len(s) : s[i] = from + i
    PROVE  s = Bytes(from, Len(s))
<1> DEFINE b == Bytes(from, Len(s))
<1>1. Len(s) \in Nat
    OBVIOUS
<1>2. b \in Seq(Nat) /\ Len(b) = Len(s) /\ \A i \in 1..Len(s) : b[i] = from + i
    BY <1>1, BytesAre
<1> HIDE DEF b
<1>3. s = b
    BY <1>2, SameSeq
<1> QED BY <1>3 DEF b
LEMMA BytesJoin ==
    ASSUME NEW from \in Nat, NEW n \in Nat, NEW m \in Nat
    PROVE  Bytes(from, n) \o Bytes(from + n, m) = Bytes(from, n + m)
<1> DEFINE a == Bytes(from, n)
           b == Bytes(from + n, m)
           c == a \o b
<1>1. a \in Seq(Nat) /\ Len(a) = n /\ \A i \in 1..n : a[i] = from + i
    BY BytesAre
<1>2. b \in Seq(Nat) /\ Len(b) = m /\ \A i \in 1..m : b[i] = (from + n) + i
  <2>1. from + n \in Nat
      OBVIOUS
  <2> QED BY <2>1, BytesAre
<1> HIDE DEF a, b
<1>3. c \in Seq(Nat) /\ Len(c) = n + m
  <2>1. a \in Seq(Nat) /\ b \in Seq(Nat)
      BY <1>1, <1>2
  <2>2. a \o b \in Seq(Nat) /\ Len(a \o b) = Len(a) + Len(b)
      BY <2>1
  <2> QED BY <1>1, <1>2, <2>2
<1>4. \A i \in 1..(n + m) : c[i] = from + i
  <2> SUFFICES ASSUME NEW i \in 1..(n + m) PROVE c[i] = from + i
      OBVIOUS
  <2>1. CASE i <= n
      BY <1>1, <1>2, <2>1
  <2>2. CASE i > n
    <3>1. c[i] = b[i - n] /\ i - n \in 1..m
        BY <1>1, <1>2, <2>2
    <3>2. b[i - n] = (from + n) + (i - n)
        BY <1>2, <3>1
    <3> QED BY <3>1, <3>2
  <2> HIDE DEF c
  <2> QED BY <2>1, <2>2
<1> HIDE DEF c
<1>5. c = Bytes(from, n + m)
    BY <1>3, <1>4, IsBytes
<1> QED BY <1>5 DEF a, b, c
LEMMA BytesPart ==
    ASSUME NEW from \in Nat, NEW n \in Nat, NEW a \in 0..n, NEW b \in a..n
    PROVE  SubSeq(Bytes(from, n), a + 1, b) = Bytes(from + a, b - a)
<1> DEFINE s == Bytes(from, n)
           t == SubSeq(s, a + 1, b)
<1>1. s \in Seq(Nat) /\ Len(s) = n /\ \A i \in 1..n : s[i] = from + i
    BY BytesAre
<1> HIDE DEF s
<1>2. t \in Seq(Nat) /\ Len(t) = b - a /\ \A i \in 1..(b - a) : t[i] = s[a + i]
    BY <1>1
<1>3. \A i \in 1..(b - a) : t[i] = (from + a) + i
    BY <1>1, <1>2
<1> HIDE DEF t
<1>4. from + a \in Nat
    OBVIOUS
<1>5. t = Bytes(from + a, b - a)
    BY <1>2, <1>3, <1>4, IsBytes
<1> QED BY <1>5 DEF s, t

-----------------------------------------------------------------------------
(* The writer *)

\* As long as no write fails: what was given is on the disk, then in the buffer.
WrittenInv ==
    /\ given \in Nat /\ failures \in Nat
    /\ failures = 0 => \E n \in 0..given : /\ disk = Bytes(0, n) /\ writer = Bytes(n, given - n)
                                           /\ given - n <= WriteBuffer
    /\ failures = 0 => ~overrun

LEMMA WrittenMeans == WrittenInv => DiskIsPrefix
<1> SUFFICES ASSUME WrittenInv, failures = 0 PROVE disk \o writer = Bytes(0, given) /\ ~overrun
    BY DEF DiskIsPrefix
<1>1. PICK n \in 0..given : disk = Bytes(0, n) /\ writer = Bytes(n, given - n)
    BY DEF WrittenInv
<1>2. given \in Nat /\ n \in Nat /\ given - n \in Nat
    BY DEF WrittenInv
<1>3. Bytes(0, n) \o Bytes(0 + n, given - n) = Bytes(0, n + (given - n))
    BY <1>2, BytesJoin
<1>4. 0 + n = n /\ n + (given - n) = given
    BY <1>2
<1> QED BY <1>1, <1>3, <1>4 DEF WrittenInv
LEMMA WrittenStart == WriterInit => WrittenInv
<1> SUFFICES ASSUME WriterInit PROVE WrittenInv
    OBVIOUS
<1>1. 0 \in 0..given /\ disk = Bytes(0, 0) /\ writer = Bytes(0, given - 0) /\ given - 0 <= WriteBuffer
    BY NoBytes, FileBuffersAssumption DEF WriterInit
<1> QED BY <1>1 DEF WriterInit, WrittenInv
\* A flush that goes well leaves the whole on the disk.
LEMMA Flushed ==
    ASSUME NEW n \in Nat, NEW m \in Nat, NEW s, s = Bytes(n, m)
    PROVE  Bytes(0, n) \o s = Bytes(0, n + m)
<1>1. Bytes(0, n) \o Bytes(0 + n, m) = Bytes(0, n + m)
    BY BytesJoin
<1>2. 0 + n = n
    OBVIOUS
<1> QED BY <1>1, <1>2
LEMMA WriteStep == ASSUME WrittenInv, NEW length \in Nat, Write(length) PROVE WrittenInv'
<1> DEFINE none == [ok |-> TRUE, bytes |-> <<>>]
           left(f) == IF f.ok /\ IsFull(length) THEN <<>> ELSE writer
<1>1. PICK flush \in IF IsFull(length) /\ writer # <<>> THEN Written(writer) ELSE {none},
           direct \in IF length > WriteBuffer THEN Written(Bytes(given, length)) ELSE {none} :
         /\ disk' = disk \o flush.bytes \o direct.bytes
         /\ writer' = IF length > WriteBuffer THEN left(flush) ELSE left(flush) \o Bytes(given, length)
         /\ overrun' = (Len(writer') > WriteBuffer)
         /\ given' = given + length
         /\ failures' = failures + (IF flush.ok THEN 0 ELSE 1) + (IF direct.ok THEN 0 ELSE 1)
    BY DEF Write
<1>2. given \in Nat /\ failures \in Nat /\ WriteBuffer \in Nat
    BY FileBuffersAssumption DEF WrittenInv
<1>3. given' \in Nat /\ failures' \in Nat
    BY <1>1, <1>2
<1>4. ASSUME failures' = 0
      PROVE  /\ \E n \in 0..given' : /\ disk' = Bytes(0, n) /\ writer' = Bytes(n, given' - n)
                                     /\ given' - n <= WriteBuffer
             /\ ~overrun'
  <2>1. failures = 0 /\ flush.ok /\ direct.ok
      BY <1>1, <1>2, <1>4
  <2>2. PICK n \in 0..given : disk = Bytes(0, n) /\ writer = Bytes(n, given - n) /\ given - n <= WriteBuffer
      BY <2>1 DEF WrittenInv
  <2>3. n \in Nat /\ given - n \in Nat /\ n + (given - n) = given
      BY <1>2, <2>2
  <2>4. Len(writer) = given - n /\ writer \in Seq(Nat) /\ disk \in Seq(Nat)
      BY <2>2, <2>3, BytesAre
  <2>5. flush.bytes = IF IsFull(length) THEN writer ELSE <<>>
      BY <1>1, <2>1 DEF Written
  <2>6. direct.bytes = IF length > WriteBuffer THEN Bytes(given, length) ELSE <<>>
      BY <1>1, <2>1 DEF Written
  <2>7. disk \o <<>> = disk /\ disk \o writer \in Seq(Nat) /\ (disk \o writer) \o <<>> = disk \o writer
      BY <2>4
  <2>8. disk \o writer = Bytes(0, given)
      BY <2>2, <2>3, Flushed
  <2>9. CASE ~IsFull(length)
    <3>1. length <= WriteBuffer - (given - n) /\ ~(length > WriteBuffer)
        BY <1>2, <2>3, <2>4, <2>9 DEF IsFull
    <3>2. disk' = (disk \o <<>>) \o <<>>
        BY <1>1, <2>5, <2>6, <2>9, <3>1
    <3>3. disk' = disk
        BY <2>7, <3>2
    <3>4. writer' = writer \o Bytes(given, length)
        BY <1>1, <2>9, <3>1
    <3>5. Bytes(n, given - n) \o Bytes(n + (given - n), length) = Bytes(n, (given - n) + length)
        BY <2>3, BytesJoin
    <3>6. writer' = Bytes(n, given' - n) /\ given' - n \in Nat /\ given' - n <= WriteBuffer /\ n \in 0..given'
      <4>1. (given - n) + length = given' - n
          BY <1>1, <1>2, <2>3
      <4>2. given' - n \in Nat /\ given' - n <= WriteBuffer /\ n \in 0..given'
          BY <1>1, <1>2, <2>3, <3>1
      <4> QED BY <2>2, <2>3, <3>4, <3>5, <4>1, <4>2
    <3>7. Len(writer') = given' - n
        BY <2>3, <3>6, BytesAre
    <3>8. ~overrun'
      <4>1. ~(Len(writer') > WriteBuffer)
          BY <1>2, <3>6, <3>7
      <4> QED BY <1>1, <4>1
    <3> QED BY <2>2, <3>3, <3>6, <3>8
  <2>10. CASE IsFull(length) /\ length > WriteBuffer
    <3>1. disk' = (disk \o writer) \o Bytes(given, length) /\ writer' = <<>>
        BY <1>1, <2>1, <2>5, <2>6, <2>10
    <3>2. disk' = Bytes(0, given')
      <4>1. Bytes(0, given) \o Bytes(given, length) = Bytes(0, given + length)
          BY <1>2, Flushed
      <4> QED BY <1>1, <2>8, <3>1, <4>1
    <3>3. writer' = Bytes(given', given' - given') /\ given' \in 0..given' /\ given' - given' <= WriteBuffer
      <4>1. \A g \in Nat : g - g = 0 /\ g \in 0..g
          OBVIOUS
      <4>2. given' - given' = 0 /\ given' \in 0..given'
          BY <1>3, <4>1
      <4>3. writer' = Bytes(given', given' - given')
          BY <3>1, <4>2, NoBytes
      <4> QED BY <1>2, <4>2, <4>3
    <3>4. ~overrun'
      <4>1. ~(Len(writer') > WriteBuffer)
          BY <1>2, <3>1
      <4> QED BY <1>1, <4>1
    <3> QED BY <3>2, <3>3, <3>4
  <2>11. CASE IsFull(length) /\ ~(length > WriteBuffer)
    <3>1. disk' = (disk \o writer) \o <<>> /\ writer' = <<>> \o Bytes(given, length)
        BY <1>1, <2>1, <2>5, <2>6, <2>11
    <3>2. disk' = Bytes(0, given)
        BY <2>7, <2>8, <3>1
    <3>3. Bytes(given, length) \in Seq(Nat) /\ Len(Bytes(given, length)) = length
        BY <1>2, BytesAre
    <3>4. writer' = Bytes(given, length)
        BY <3>1, <3>3
    <3>5. given' - given = length /\ given \in 0..given' /\ length <= WriteBuffer
        BY <1>1, <1>2, <2>11
    <3>6. writer' = Bytes(given, given' - given) /\ given' - given <= WriteBuffer
        BY <3>4, <3>5
    <3>7. ~overrun'
      <4>1. ~(Len(writer') > WriteBuffer)
          BY <1>2, <3>3, <3>4, <3>5
      <4> QED BY <1>1, <4>1
    <3> QED BY <3>2, <3>5, <3>6, <3>7
  <2> QED BY <2>9, <2>10, <2>11
<1> QED BY <1>3, <1>4 DEF WrittenInv
LEMMA FlushStep == ASSUME WrittenInv, Flush PROVE WrittenInv'
<1>1. PICK flush \in Written(writer) :
         /\ disk' = disk \o flush.bytes
         /\ writer' = IF flush.ok THEN <<>> ELSE writer
         /\ failures' = IF flush.ok THEN failures ELSE failures + 1
         /\ UNCHANGED <<given, overrun>>
    BY DEF Flush
<1>2. given \in Nat /\ failures \in Nat /\ WriteBuffer \in Nat
    BY FileBuffersAssumption DEF WrittenInv
<1>3. given' \in Nat /\ failures' \in Nat
    BY <1>1, <1>2
<1>4. ASSUME failures' = 0
      PROVE  /\ \E n \in 0..given' : /\ disk' = Bytes(0, n) /\ writer' = Bytes(n, given' - n)
                                     /\ given' - n <= WriteBuffer
             /\ ~overrun'
  <2>1. failures = 0 /\ flush.ok
      BY <1>1, <1>2, <1>4
  <2>2. flush.bytes = writer
      BY <2>1 DEF Written
  <2>3. disk' = Bytes(0, given)
      BY <1>1, <2>1, <2>2, WrittenMeans DEF DiskIsPrefix
  <2>4. writer' = Bytes(given, given' - given) /\ given' - given <= WriteBuffer /\ given \in 0..given'
    <3>1. given' - given = 0
        BY <1>1, <1>2
    <3> QED BY <1>1, <1>2, <2>1, <3>1, NoBytes
  <2> QED BY <1>1, <2>1, <2>3, <2>4 DEF WrittenInv
<1> QED BY <1>3, <1>4 DEF WrittenInv
LEMMA WrittenStep == WrittenInv /\ [WriterNext]_writerVars => WrittenInv'
<1> SUFFICES ASSUME WrittenInv, [WriterNext]_writerVars PROVE WrittenInv'
    OBVIOUS
<1>1. ASSUME NEW length \in 1..(WriteBuffer + 1), Write(length) PROVE WrittenInv'
    BY <1>1, WriteStep, FileBuffersAssumption
<1>2. CASE Flush
    BY <1>2, FlushStep
<1>3. CASE UNCHANGED writerVars
    BY <1>3 DEF writerVars, WrittenInv
<1> QED BY <1>1, <1>2, <1>3 DEF WriterNext

-----------------------------------------------------------------------------
(* The reader *)

\* A finite set of numbers has a least one: strict inclusion of what is below is well
\* founded.
LEMMA LeastOfFinite ==
    ASSUME NEW F, F \subseteq Nat, IsFiniteSet(F), F # {}
    PROVE  \E x \in F : \A y \in F : x <= y
<1> DEFINE below(x) == {y \in F : y < x}
           lower == {below(x) : x \in F}
<1>1. lower \subseteq FiniteSubsetsOf(F) /\ lower # {}
  <2>1. \A x \in F : below(x) \in SUBSET F
      OBVIOUS
  <2> HIDE DEF below
  <2>2. \A x \in F : below(x) \in FiniteSubsetsOf(F)
      BY <2>1, FS_Subset DEF FiniteSubsetsOf
  <2> QED BY <2>2
<1>2. PICK L \in lower : \A J \in lower : <<J, L>> \notin StrictSubsetOrdering(F)
  <2> HIDE DEF lower
  <2> QED BY <1>1, FS_StrictSubsetOrderingWellFounded, WFMin
<1>3. PICK x \in F : L = below(x)
    OBVIOUS
<1>4. \A y \in F : ~(y < x)
  <2> SUFFICES ASSUME NEW y \in F, y < x PROVE FALSE
      OBVIOUS
  <2>1. (\A z \in F : z < y => z < x) /\ ~(y < y)
      OBVIOUS
  <2>2. below(y) \subseteq below(x) /\ y \in below(x) /\ y \notin below(y)
      BY <2>1
  <2>3. below(y) \in SUBSET F /\ below(x) \in SUBSET F /\ below(y) \in lower
      OBVIOUS
  <2> HIDE DEF below, lower
  <2>4. <<below(y), below(x)>> \in StrictSubsetOrdering(F)
      BY <2>2, <2>3 DEF StrictSubsetOrdering
  <2> QED BY <1>2, <1>3, <2>3, <2>4
<1> QED BY <1>4

\* Where the reader is in the log, and where the call began.
Position == reader.at - reader.end + reader.start
LineStart == Position - Len(piece)
Readers == [start : Nat, end : Nat, bytes : Seq(Nat), at : Nat]

BufferOf(r) ==
    /\ r \in Readers
    /\ r.start <= r.end /\ r.end <= r.at /\ r.at <= log.size /\ r.end <= ReadBuffer
    /\ r.bytes = Bytes(r.at - r.end, r.end)
BufferInv ==
    /\ log \in [size : Nat, ends : SUBSET Nat] /\ log.ends \subseteq 1..log.size
    /\ BufferOf(reader)
PieceInv ==
    /\ piece \in Seq(Nat) /\ Len(piece) < LineBuffer /\ Len(piece) <= Position
    /\ piece = Bytes(LineStart, Len(piece))
    /\ pieces \in Seq(Seq(Nat))
    /\ \A i \in 1..Len(pieces) : pieces[i] # <<>> /\ pieces[i] = Bytes(ReadUpTo(i - 1), Len(pieces[i]))
    /\ ReadUpTo(Len(pieces)) = LineStart
    /\ \A i \in 0..Len(pieces) : ReadUpTo(i) \in Nat

\* Every line fits the line buffer; then each call begins at an edge, and has met no
\* line end before it returns.
Edges == {0, log.size} \cup log.ends
LinesFit == \A a, b \in Edges : a < b /\ log.ends \cap (a + 1)..(b - 1) = {} => b - a <= LineBuffer
LineInv ==
    LinesFit => /\ \A i \in 0..Len(pieces) : ReadUpTo(i) \in Edges
                /\ \A p \in (LineStart + 1)..Position : p \notin log.ends
ReadInv == BufferInv /\ PieceInv /\ LineInv

LEMMA BytesHead ==
    ASSUME NEW from \in Nat, NEW n \in Nat \ {0}
    PROVE  Head(Bytes(from, n)) - 1 = from /\ Bytes(from, n) # <<>>
<1> DEFINE s == Bytes(from, n)
<1>1. s \in Seq(Nat) /\ Len(s) = n /\ s[1] = from + 1
    BY BytesAre
<1> HIDE DEF s
<1>2. Head(s) = s[1] /\ s # <<>>
    BY <1>1
<1> QED BY <1>1, <1>2 DEF s
LEMMA LeastIs ==
    ASSUME NEW a \in Nat, NEW b \in Nat
    PROVE  /\ Least(a, b) \in Nat /\ Least(a, b) <= a /\ Least(a, b) <= b
           /\ Least(a, b) \in {a, b}
BY DEF Least

LEMMA ReadMeans == ReadInv => ReadInOrder /\ LinesWhole
<1> SUFFICES ASSUME ReadInv PROVE ReadInOrder /\ LinesWhole
    OBVIOUS
<1> USE DEF ReadInv
<1>1. ReadInOrder
    BY DEF PieceInv, ReadInOrder
<1>2. ASSUME LinesFit, NEW i \in 1..Len(pieces)
      PROVE  Head(pieces[i]) - 1 \in Edges /\ Last(pieces[i]) \in Edges
  <2>1. Len(pieces) \in Nat /\ i \in 0..Len(pieces) /\ i - 1 \in 0..Len(pieces) /\ i # 0 /\ pieces[i] \in Seq(Nat)
      BY DEF PieceInv
  <2>2. ReadUpTo(i) = Last(pieces[i])
      BY <2>1 DEF ReadUpTo
  <2>3. pieces[i] # <<>> /\ pieces[i] = Bytes(ReadUpTo(i - 1), Len(pieces[i])) /\ ReadUpTo(i - 1) \in Nat
      BY <2>1 DEF PieceInv
  <2>4. Len(pieces[i]) \in Nat /\ Len(pieces[i]) # 0
      BY <2>1, <2>3
  <2>5. Len(pieces[i]) \in Nat \ {0}
      BY <2>4
  <2>6. Head(pieces[i]) - 1 = ReadUpTo(i - 1)
      BY <2>3, <2>5, BytesHead
  <2> QED BY <1>2, <2>1, <2>2, <2>6 DEF LineInv
<1>3. LinesWhole
    BY <1>2 DEF LinesWhole, LinesFit, Edges
<1> QED BY <1>1, <1>3

\* fillReadBuffer keeps what is left, and the place in the log.
LEMMA Fills ==
    ASSUME log.size \in Nat, NEW r, BufferOf(r)
    PROVE  /\ BufferOf(Filled(r))
           /\ Filled(r).at - Filled(r).end + Filled(r).start = r.at - r.end + r.start
           /\ Filled(r).start = Filled(r).end => r.at - r.end + r.start = log.size
<1> DEFINE kept == SubSeq(r.bytes, r.start + 1, r.end)
           room == ReadBuffer - Len(kept)
           count == Least(log.size - r.at, room)
           full == kept \o Bytes(r.at, count)
<1>1. /\ r.start \in Nat /\ r.end \in Nat /\ r.at \in Nat /\ ReadBuffer \in Nat \ {0}
      /\ r.start <= r.end /\ r.end <= r.at /\ r.at <= log.size /\ r.end <= ReadBuffer
      /\ r.bytes = Bytes(r.at - r.end, r.end)
    BY FileBuffersAssumption DEF BufferOf, Readers
<1>2. Filled(r) = [start |-> 0, end |-> Len(kept) + count, bytes |-> full, at |-> r.at + count]
    BY DEF Filled
<1> DEFINE base == r.at - r.end
           n == r.end - r.start
<1>3. kept = Bytes(base + r.start, n)
  <2>1. base \in Nat /\ r.start \in 0..r.end /\ r.end \in r.start..r.end
      BY <1>1
  <2>2. r.bytes = Bytes(base, r.end) /\ r.end \in Nat
      BY <1>1
  <2> HIDE DEF base
  <2>3. SubSeq(Bytes(base, r.end), r.start + 1, r.end) = Bytes(base + r.start, r.end - r.start)
      BY <2>1, <2>2, BytesPart
  <2> QED BY <2>2, <2>3
<1>4. base \in Nat /\ n \in Nat /\ base + r.start \in Nat /\ (base + r.start) + n = r.at /\ n <= r.end
    BY <1>1
<1> HIDE DEF kept, base, n
<1>5. Len(kept) = n
    BY <1>3, <1>4, BytesAre
<1>6. count \in Nat /\ count <= log.size - r.at /\ count <= ReadBuffer - n
      /\ (count = 0 => r.at = log.size \/ n = ReadBuffer)
  <2>1. room = ReadBuffer - n /\ room \in Nat /\ log.size - r.at \in Nat
    <3>1. room = ReadBuffer - n
        BY <1>5
    <3>2. n <= ReadBuffer
        BY <1>1, <1>4
    <3> HIDE DEF room
    <3> QED BY <1>1, <1>4, <3>1, <3>2
  <2> HIDE DEF room
  <2>2. count \in Nat /\ count <= log.size - r.at /\ count <= room /\ count \in {log.size - r.at, room}
      BY <2>1, LeastIs
  <2> HIDE DEF count
  <2> QED BY <1>1, <1>4, <2>1, <2>2
<1> HIDE DEF count
<1>7. full = Bytes(base + r.start, n + count)
  <2>1. Bytes(base + r.start, n) \o Bytes((base + r.start) + n, count) = Bytes(base + r.start, n + count)
      BY <1>4, <1>6, BytesJoin
  <2> QED BY <1>3, <1>4, <2>1
<1>8. n + count \in Nat /\ r.at + count \in Nat /\ (r.at + count) - (n + count) = base + r.start
    BY <1>1, <1>4, <1>6
<1> HIDE DEF full
<1>9. full \in Seq(Nat)
    BY <1>4, <1>7, <1>8, BytesAre
<1> DEFINE f == Filled(r)
<1>10. f.start = 0 /\ f.end = n + count /\ f.bytes = full /\ f.at = r.at + count /\ f \in Readers
    BY <1>2, <1>5, <1>8, <1>9 DEF Readers
<1> HIDE DEF f
<1>11. f.at - f.end + f.start = base + r.start
    BY <1>1, <1>4, <1>6, <1>8, <1>10
<1>12. f.end <= ReadBuffer /\ f.start <= f.end /\ f.end <= f.at /\ f.at <= log.size
    BY <1>1, <1>4, <1>6, <1>10
<1>13. f.bytes = Bytes(f.at - f.end, f.end)
    BY <1>7, <1>8, <1>10
<1>14. ASSUME f.start = f.end PROVE base + r.start = log.size
  <2>1. n = 0 /\ count = 0
      BY <1>4, <1>6, <1>10, <1>14
  <2>2. r.at = log.size
      BY <1>1, <1>6, <2>1
  <2> QED BY <1>4, <2>1, <2>2
<1>15. base + r.start = r.at - r.end + r.start
    BY DEF base
<1> QED BY <1>10, <1>11, <1>12, <1>13, <1>14, <1>15 DEF f, BufferOf
LEMMA ReadStart == ReaderInit => ReadInv
<1> SUFFICES ASSUME ReaderInit PROVE ReadInv
    OBVIOUS
<1> DEFINE r == [start |-> 0, end |-> 0, bytes |-> <<>>, at |-> 0]
<1>1. log \in [size : Nat, ends : SUBSET Nat] /\ log.ends \subseteq 1..log.size
  <2>1. log.size \in 0..MaxFile /\ log.ends \in SUBSET (1..MaxFile) /\ log = [size |-> log.size, ends |-> log.ends]
      BY DEF ReaderInit
  <2>2. MaxFile \in Nat
      BY FileBuffersAssumption
  <2>3. log.size \in Nat /\ log.ends \in SUBSET Nat
      BY <2>1, <2>2
  <2> QED BY <2>1, <2>3 DEF ReaderInit
<1>2. BufferOf(r)
    BY <1>1, NoBytes, FileBuffersAssumption DEF BufferOf, Readers
<1>3. BufferOf(reader) /\ Position = 0
    BY <1>1, <1>2, Fills DEF ReaderInit, Position
<1>4. piece = <<>> /\ pieces = <<>> /\ Len(piece) = 0 /\ Len(pieces) = 0
    BY DEF ReaderInit
<1>5. LineStart = 0
  <2>1. LineStart = 0 - 0
      BY <1>3, <1>4 DEF LineStart
  <2> QED BY <2>1
<1>6. ReadUpTo(0) = 0
    BY DEF ReadUpTo
<1>7. PieceInv
    BY <1>3, <1>4, <1>5, <1>6, NoBytes, FileBuffersAssumption DEF PieceInv
<1>8. LineInv
    BY <1>3, <1>4, <1>5, <1>6 DEF LineInv, Edges
<1> QED BY <1>1, <1>3, <1>7, <1>8 DEF ReadInv, BufferInv

\* The next line end in the buffer.
LEMMA LineEndIs ==
    ASSUME BufferInv
    PROVE  /\ ToLineEnd \in 0..(reader.end - reader.start)
           /\ ToLineEnd = 0 => \A p \in 1..(reader.end - reader.start) : Position + p \notin log.ends
           /\ ToLineEnd > 0 => /\ Position + ToLineEnd \in log.ends
                               /\ \A p \in 1..(ToLineEnd - 1) : Position + p \notin log.ends
<1> DEFINE left == reader.end - reader.start
           here == {n \in 1..left : reader.bytes[reader.start + n] \in log.ends}
           next == CHOOSE n \in here : \A m \in here : n <= m
<1>1. /\ reader.start \in Nat /\ reader.end \in Nat /\ reader.at \in Nat /\ left \in Nat
      /\ reader.start <= reader.end /\ reader.end <= reader.at
      /\ reader.bytes = Bytes(reader.at - reader.end, reader.end)
    BY DEF BufferInv, BufferOf, Readers
<1>2. \A p \in 1..left : reader.bytes[reader.start + p] = Position + p
  <2> SUFFICES ASSUME NEW p \in 1..left PROVE reader.bytes[reader.start + p] = Position + p
      OBVIOUS
  <2> DEFINE base == reader.at - reader.end
  <2>1. base \in Nat /\ reader.start + p \in 1..reader.end /\ base + (reader.start + p) = Position + p
      BY <1>1 DEF Position
  <2>2. reader.bytes = Bytes(base, reader.end) /\ reader.end \in Nat
      BY <1>1
  <2> HIDE DEF base
  <2>3. \A i \in 1..reader.end : Bytes(base, reader.end)[i] = base + i
      BY <2>1, <2>2, BytesAre
  <2> QED BY <2>1, <2>2, <2>3
<1>3. ToLineEnd = IF here = {} THEN 0 ELSE next
    BY DEF ToLineEnd
<1>4. CASE here = {}
  <2>1. \A p \in 1..left : Position + p \notin log.ends
      BY <1>2, <1>4
  <2>2. ToLineEnd = 0
      BY <1>3, <1>4
  <2> QED BY <1>1, <2>1, <2>2
<1>5. CASE here # {}
  <2>1. here \subseteq Nat /\ IsFiniteSet(here)
    <3>1. IsFiniteSet(1..left)
      <4> HIDE DEF left
      <4> QED BY <1>1, FS_Interval
    <3>2. here \in SUBSET (1..left)
        OBVIOUS
    <3> HIDE DEF here, left
    <3>3. IsFiniteSet(here)
        BY <3>1, <3>2, FS_Subset
    <3> QED BY <1>1, <3>2, <3>3
  <2>2. \E n \in here : \A m \in here : n <= m
    <3> HIDE DEF here
    <3> QED BY <1>5, <2>1, LeastOfFinite
  <2>3. next \in here /\ \A m \in here : next <= m
    <3> HIDE DEF here
    <3> QED BY <2>2
  <2>4. ToLineEnd = next
      BY <1>3, <1>5
  <2> HIDE DEF next
  <2>5. next \in 1..left /\ Position + next \in log.ends
      BY <1>2, <2>3
  <2>6. \A p \in 1..(next - 1) : Position + p \notin log.ends
    <3> SUFFICES ASSUME NEW p \in 1..(next - 1), Position + p \in log.ends PROVE FALSE
        OBVIOUS
    <3>1. p \in 1..left /\ ~(next <= p)
        BY <1>1, <2>5
    <3>2. p \in here
        BY <1>2, <3>1
    <3> QED BY <2>3, <3>1, <3>2
  <2>7. next \in 0..left /\ next # 0
      BY <1>1, <2>5
  <2> QED BY <2>4, <2>5, <2>6, <2>7
<1> QED BY <1>4, <1>5

\* What a turn of the loop copies, and where it leaves the reader.
Copied == piece \o SubSeq(reader.bytes, reader.start + 1, reader.start + CopyCount)
Moved == [reader EXCEPT !.start = @ + CopyCount]
LEMMA CopyIs ==
    ASSUME BufferInv, PieceInv
    PROVE  /\ CopyCount \in Nat /\ CopyCount <= reader.end - reader.start
           /\ CopyCount <= LineBuffer - Len(piece)
           /\ ToLineEnd = 0 => CopyCount \in {reader.end - reader.start, LineBuffer - Len(piece)}
           /\ ToLineEnd # 0 => CopyCount <= ToLineEnd
           /\ ToLineEnd # 0 /\ ToLineEnd <= LineBuffer - Len(piece) => CopyCount = ToLineEnd
<1> DEFINE a == reader.end - reader.start
           b == LineBuffer - Len(piece)
<1>1. a \in Nat
    BY DEF BufferInv, BufferOf, Readers
<1>2. b \in Nat
    BY FileBuffersAssumption DEF PieceInv
<1>3. ToLineEnd \in 0..a
    BY LineEndIs
<1>4. LongestCopy = Least(a, b)
    BY DEF LongestCopy
<1> HIDE DEF a, b
<1>5. LongestCopy \in Nat /\ LongestCopy <= a /\ LongestCopy <= b /\ LongestCopy \in {a, b}
    BY <1>1, <1>2, <1>4, LeastIs
<1>6. CASE ToLineEnd = 0
    BY <1>5, <1>6 DEF CopyCount, a, b
<1>7. CASE ToLineEnd # 0
  <2>1. CopyCount = Least(LongestCopy, ToLineEnd) /\ ToLineEnd \in Nat
      BY <1>1, <1>3, <1>7 DEF CopyCount
  <2>2. CopyCount \in Nat /\ CopyCount <= LongestCopy /\ CopyCount <= ToLineEnd /\ CopyCount \in {LongestCopy, ToLineEnd}
      BY <1>5, <2>1, LeastIs
  <2>3. ASSUME ToLineEnd <= b PROVE CopyCount = ToLineEnd
    <3>1. ToLineEnd <= LongestCopy
        BY <1>1, <1>2, <1>3, <1>5, <2>3
    <3> QED BY <1>5, <2>1, <2>2, <3>1
  <2>4. CopyCount <= a /\ CopyCount <= b
      BY <1>1, <1>2, <1>5, <2>2
  <2> QED BY <1>7, <2>2, <2>3, <2>4 DEF a, b
<1> QED BY <1>6, <1>7
LEMMA CopiedIs ==
    ASSUME BufferInv, PieceInv
    PROVE  /\ Position \in Nat /\ LineStart \in Nat /\ Position = LineStart + Len(piece)
           /\ Copied = Bytes(LineStart, Len(piece) + CopyCount) /\ Len(piece) + CopyCount \in Nat
           /\ Len(Copied) = Len(piece) + CopyCount /\ Copied \in Seq(Nat)
           /\ BufferOf(Moved) /\ Moved.at - Moved.end + Moved.start = Position + CopyCount
           /\ Position + CopyCount <= log.size
<1> DEFINE s == reader.start
           base == reader.at - reader.end
           c == CopyCount
           n == Len(piece)
<1>1. /\ s \in Nat /\ reader.end \in Nat /\ reader.at \in Nat /\ reader.bytes \in Seq(Nat) /\ reader \in Readers
      /\ s <= reader.end /\ reader.end <= reader.at /\ reader.at <= log.size /\ reader.end <= ReadBuffer
      /\ reader.bytes = Bytes(base, reader.end) /\ log.size \in Nat
    BY DEF BufferInv, BufferOf, Readers
<1>2. c \in Nat /\ c <= reader.end - s
    BY CopyIs
<1>3. n \in Nat /\ n <= Position
    BY DEF PieceInv
<1>4. base \in Nat /\ Position = base + s
    BY <1>1 DEF Position
<1>5. SubSeq(reader.bytes, s + 1, s + c) = Bytes(Position, c)
  <2>1. s \in 0..reader.end /\ s + c \in s..reader.end /\ (s + c) - s = c
      BY <1>1, <1>2
  <2> HIDE DEF s, c, base
  <2>2. SubSeq(Bytes(base, reader.end), s + 1, s + c) = Bytes(base + s, (s + c) - s)
      BY <1>1, <1>4, <2>1, BytesPart
  <2> QED BY <1>1, <1>4, <2>1, <2>2
<1>6. Position \in Nat /\ LineStart \in Nat /\ Position = LineStart + n
    BY <1>1, <1>3, <1>4 DEF LineStart
<1>7. piece = Bytes(LineStart, n)
    BY DEF PieceInv
<1>8. Copied = Bytes(LineStart, n + c)
  <2>1. Copied = piece \o SubSeq(reader.bytes, s + 1, s + c)
      BY DEF Copied
  <2> HIDE DEF s, c, n, base
  <2>2. Bytes(LineStart, n) \o Bytes(LineStart + n, c) = Bytes(LineStart, n + c)
      BY <1>2, <1>3, <1>6, BytesJoin
  <2> QED BY <1>5, <1>6, <1>7, <2>1, <2>2
<1>9. n + c \in Nat
    BY <1>2, <1>3
<1>10. Len(Copied) = n + c /\ Copied \in Seq(Nat)
    BY <1>6, <1>8, <1>9, BytesAre
<1>11. s + c \in Nat /\ s + c <= reader.end
    BY <1>1, <1>2
<1> DEFINE m == Moved
<1>12. m = [reader EXCEPT !.start = s + c]
    BY DEF Moved
<1> HIDE DEF m, s, c, base, n
<1>13. m.start = s + c /\ m.end = reader.end /\ m.bytes = reader.bytes /\ m.at = reader.at /\ m \in Readers
    BY <1>1, <1>11, <1>12 DEF Readers
<1>14. m.bytes = Bytes(m.at - m.end, m.end)
    BY <1>1, <1>13 DEF base
<1>15. BufferOf(m)
    BY <1>1, <1>11, <1>13, <1>14 DEF BufferOf
<1>16. m.at - m.end + m.start = Position + c /\ Position + c <= log.size
  <2>1. m.at - m.end + m.start = base + (s + c) /\ base + reader.end = reader.at
      BY <1>1, <1>2, <1>13 DEF base
  <2>2. base + (s + c) = Position + c
      BY <1>1, <1>2, <1>4
  <2>3. base + (s + c) <= base + reader.end
      BY <1>1, <1>4, <1>11
  <2> QED BY <1>1, <1>2, <1>4, <2>1, <2>2, <2>3
<1> QED BY <1>6, <1>8, <1>9, <1>10, <1>15, <1>16 DEF m, n, c

\* What a turn of the loop does to the state.
Full == Len(Copied) >= LineBuffer
Returns(next) == ToLineEnd > 0 \/ Full \/ next.start = next.end
LEMMA TurnIs ==
    ASSUME ReadInv, ReadOn
    PROVE  /\ log' = log /\ BufferInv'
           /\ Position' = Position + CopyCount
           /\ \/ /\ Returns(reader') /\ piece' = <<>> /\ Copied # <<>> /\ pieces' = Append(pieces, Copied)
              \/ /\ ~Returns(reader') /\ piece' = Copied /\ pieces' = pieces
           /\ ToLineEnd = 0 /\ ~Full /\ reader'.start = reader'.end => Position + CopyCount = log.size
<1> DEFINE next == IF ToLineEnd > 0 \/ Full THEN Moved ELSE Filled(Moved)
           returns == ToLineEnd > 0 \/ Full \/ next.start = next.end
<1>1. /\ reader' = next /\ log' = log
      /\ piece' = IF returns THEN <<>> ELSE Copied
      /\ pieces' = IF returns /\ Copied # <<>> THEN Append(pieces, Copied) ELSE pieces
      /\ ~(returns /\ Copied = <<>>)
    BY DEF ReadOn, Copied, Moved, Full
<1>2. BufferOf(Moved) /\ Moved.at - Moved.end + Moved.start = Position + CopyCount /\ log.size \in Nat
    BY CopiedIs DEF ReadInv, BufferInv
<1>3. /\ BufferOf(Filled(Moved))
      /\ Filled(Moved).at - Filled(Moved).end + Filled(Moved).start = Position + CopyCount
      /\ Filled(Moved).start = Filled(Moved).end => Position + CopyCount = log.size
    BY <1>2, Fills
<1>4. /\ BufferOf(next) /\ next.at - next.end + next.start = Position + CopyCount
      /\ ToLineEnd = 0 /\ ~Full /\ next.start = next.end => Position + CopyCount = log.size
  <2>1. CASE ToLineEnd > 0 \/ Full
    <3>1. ~(ToLineEnd = 0 /\ ~Full)
        BY <2>1
    <3> QED BY <1>2, <2>1, <3>1
  <2>2. CASE ~(ToLineEnd > 0 \/ Full)
      BY <1>3, <2>2
  <2> QED BY <2>1, <2>2
<1>5. returns <=> Returns(reader')
    BY <1>1 DEF Returns
<1> HIDE DEF next, returns
<1>6. Position' = Position + CopyCount
    BY <1>1, <1>4 DEF Position
<1>7. BufferInv'
  <2>1. BufferOf(reader')
      BY <1>1, <1>4
  <2>2. BufferOf(reader)'
      BY <1>1, <2>1 DEF BufferOf
  <2> QED BY <1>1, <2>2 DEF ReadInv, BufferInv
<1>8. \/ /\ Returns(reader') /\ piece' = <<>> /\ Copied # <<>> /\ pieces' = Append(pieces, Copied)
      \/ /\ ~Returns(reader') /\ piece' = Copied /\ pieces' = pieces
    BY <1>1, <1>5
<1> QED BY <1>1, <1>4, <1>6, <1>7, <1>8
LEMMA PieceStep ==
    ASSUME ReadInv, ReadOn
    PROVE  /\ PieceInv'
           /\ Returns(reader') =>
                /\ LineStart' = Position' /\ Len(pieces') = Len(pieces) + 1
                /\ \A i \in 0..Len(pieces) : ReadUpTo(i)' = ReadUpTo(i)
                /\ ReadUpTo(Len(pieces))' = Position'
           /\ ~Returns(reader') => LineStart' = LineStart /\ pieces' = pieces
<1> DEFINE n == Len(piece)
           c == CopyCount
<1>0. PICK k \in Nat : k = Len(pieces)
    BY DEF ReadInv, PieceInv
<1>1. /\ piece \in Seq(Nat) /\ n < LineBuffer /\ n <= Position /\ pieces \in Seq(Seq(Nat))
      /\ \A i \in 1..k : pieces[i] # <<>> /\ pieces[i] = Bytes(ReadUpTo(i - 1), Len(pieces[i]))
      /\ ReadUpTo(k) = LineStart /\ \A i \in 0..k : ReadUpTo(i) \in Nat
    BY <1>0 DEF ReadInv, PieceInv
<1>2. /\ Position \in Nat /\ LineStart \in Nat /\ Position = LineStart + n
      /\ Copied = Bytes(LineStart, n + c) /\ n + c \in Nat /\ Len(Copied) = n + c /\ Copied \in Seq(Nat)
    BY CopiedIs DEF ReadInv
<1>3. n \in Nat /\ c \in Nat /\ k \in Nat /\ LineBuffer \in Nat \ {0}
    BY <1>1, CopyIs, FileBuffersAssumption DEF ReadInv
<1>4. Position' = LineStart + (n + c)
    BY <1>2, <1>3, TurnIs
<1> HIDE DEF n, c
<1>5. CASE Returns(reader')
  <2>1. piece' = <<>> /\ Copied # <<>> /\ pieces' = Append(pieces, Copied)
      BY <1>5, TurnIs
  <2>2. Len(piece') = 0 /\ piece' \in Seq(Nat)
      BY <2>1
  <2>3. LineStart' = Position' /\ Position' \in Nat
    <3>1. LineStart' = Position' - Len(piece')
        BY DEF LineStart
    <3>2. Position' \in Nat
        BY <1>2, <1>4
    <3>3. \A x \in Nat : x - 0 = x
        OBVIOUS
    <3>4. LineStart' = Position' - 0
        BY <2>2, <3>1
    <3> QED BY <3>2, <3>3, <3>4
  <2>4. /\ pieces' \in Seq(Seq(Nat)) /\ Len(pieces') = k + 1 /\ pieces'[k + 1] = Copied
        /\ \A i \in 1..k : pieces'[i] = pieces[i]
    <3> DEFINE S == Seq(Nat)
    <3>1. pieces \in Seq(S) /\ Copied \in S /\ pieces' = Append(pieces, Copied) /\ Len(pieces) = k
        BY <1>0, <1>1, <1>2, <2>1
    <3> HIDE DEF S
    <3>2. pieces' \in Seq(S) /\ Len(pieces') = k + 1 /\ pieces'[k + 1] = Copied
        BY <3>1
    <3>3. \A i \in 1..k : pieces'[i] = pieces[i]
        BY <3>1
    <3> QED BY <3>2, <3>3 DEF S
  <2>5. \A i \in 0..k : ReadUpTo(i)' = ReadUpTo(i)
    <3> SUFFICES ASSUME NEW i \in 0..k PROVE ReadUpTo(i)' = ReadUpTo(i)
        OBVIOUS
    <3>1. CASE i = 0
        BY <3>1 DEF ReadUpTo
    <3>2. CASE i # 0
      <4>1. i \in 1..k
          BY <1>3, <3>2
      <4>2. pieces'[i] = pieces[i]
          BY <2>4, <4>1
      <4>3. ReadUpTo(i)' = Last(pieces'[i]) /\ ReadUpTo(i) = Last(pieces[i])
          BY <3>2 DEF ReadUpTo
      <4> QED BY <4>2, <4>3
    <3> QED BY <3>1, <3>2
  <2>6. n + c \in Nat \ {0}
      BY <1>2, <1>3, <2>1, NoBytes
  <2>7. ReadUpTo(k + 1)' = Position'
    <3>1. ReadUpTo(k + 1)' = Last(Copied)
      <4>1. k + 1 # 0
          BY <1>3
      <4> QED BY <2>4, <4>1 DEF ReadUpTo
    <3>2. Last(Copied) = Copied[n + c]
        BY <1>2 DEF Last
    <3>3. Copied[n + c] = LineStart + (n + c)
      <4>1. n + c \in 1..(n + c)
          BY <2>6
      <4>2. Bytes(LineStart, n + c)[n + c] = LineStart + (n + c)
          BY <1>2, <4>1, BytesAre
      <4> QED BY <1>2, <4>2
    <3> QED BY <1>4, <3>1, <3>2, <3>3
  <2>8. ASSUME NEW i \in 1..(k + 1)
        PROVE  pieces'[i] # <<>> /\ pieces'[i] = Bytes(ReadUpTo(i - 1)', Len(pieces'[i]))
    <3>1. CASE i = k + 1
      <4>1. i - 1 = k /\ k \in 0..k
          BY <1>3, <3>1
      <4>2. ReadUpTo(i - 1)' = LineStart
          BY <1>1, <2>5, <4>1
      <4> QED BY <1>2, <2>1, <2>4, <3>1, <4>2
    <3>2. CASE i # k + 1
      <4>1. i \in 1..k /\ i - 1 \in 0..k
          BY <1>3, <3>2
      <4>2. ReadUpTo(i - 1)' = ReadUpTo(i - 1) /\ pieces'[i] = pieces[i]
          BY <2>4, <2>5, <4>1
      <4> QED BY <1>1, <4>1, <4>2
    <3> QED BY <3>1, <3>2
  <2>9. \A i \in 0..(k + 1) : ReadUpTo(i)' \in Nat
    <3> SUFFICES ASSUME NEW i \in 0..(k + 1) PROVE ReadUpTo(i)' \in Nat
        OBVIOUS
    <3>1. CASE i = k + 1
        BY <2>3, <2>7, <3>1
    <3>2. CASE i # k + 1
      <4>1. i \in 0..k
          BY <1>3, <3>2
      <4> QED BY <1>1, <2>5, <4>1
    <3> QED BY <3>1, <3>2
  <2>10. piece' = Bytes(LineStart', Len(piece'))
      BY <2>1, <2>2, NoBytes
  <2>11. Len(piece') < LineBuffer /\ Len(piece') <= Position'
      BY <1>3, <2>2, <2>3
  <2>12. PieceInv'
      BY <2>2, <2>3, <2>4, <2>7, <2>8, <2>9, <2>10, <2>11 DEF PieceInv
  <2> QED BY <1>0, <1>3, <1>5, <2>3, <2>4, <2>5, <2>7, <2>12
<1>6. CASE ~Returns(reader')
  <2>1. piece' = Copied /\ pieces' = pieces /\ ~Full
      BY <1>6, TurnIs DEF Returns
  <2>2. n + c < LineBuffer
      BY <1>2, <1>3, <2>1 DEF Full
  <2>3. Len(piece') = n + c
      BY <1>2, <2>1
  <2>4. LineStart' = LineStart
    <3>1. LineStart' = Position' - Len(piece')
        BY DEF LineStart
    <3> QED BY <1>2, <1>3, <1>4, <2>3, <3>1
  <2>5. \A i \in 0..k : ReadUpTo(i)' = ReadUpTo(i)
      BY <2>1 DEF ReadUpTo
  <2>6. Len(piece') <= Position' /\ piece' = Bytes(LineStart', Len(piece'))
      BY <1>2, <1>3, <1>4, <2>1, <2>3, <2>4
  <2>7. ASSUME NEW i \in 1..k
        PROVE  pieces'[i] # <<>> /\ pieces'[i] = Bytes(ReadUpTo(i - 1)', Len(pieces'[i]))
    <3>1. i - 1 \in 0..k
        BY <1>3
    <3> QED BY <1>1, <2>1, <2>5, <3>1
  <2>8. Len(pieces') = k /\ ReadUpTo(k)' = LineStart' /\ \A i \in 0..k : ReadUpTo(i)' \in Nat
    <3>1. k \in 0..k
        BY <1>3
    <3> QED BY <1>0, <1>1, <2>1, <2>4, <2>5, <3>1
  <2>9. PieceInv'
      BY <1>1, <1>2, <2>1, <2>2, <2>3, <2>6, <2>7, <2>8 DEF PieceInv
  <2> QED BY <1>6, <2>1, <2>4, <2>9
<1> QED BY <1>5, <1>6

\* A call that began at an edge returns at the next one.
LEMMA ReturnsAtEdge ==
    ASSUME ReadInv, ReadOn, LinesFit
    PROVE  /\ LineStart \in Edges
           /\ ToLineEnd = 0 => \A p \in (LineStart + 1)..(Position + CopyCount) : p \notin log.ends
           /\ Returns(reader') => Position + CopyCount \in Edges
<1> DEFINE n == Len(piece)
           c == CopyCount
           d == ToLineEnd
           E == LineStart
<1>1. /\ E \in Nat /\ Position = E + n /\ n \in Nat /\ Len(Copied) = n + c /\ Position + c <= log.size
      /\ log.size \in Nat /\ log.ends \subseteq 1..log.size /\ n < LineBuffer
    BY CopiedIs DEF ReadInv, BufferInv, PieceInv
<1>2. /\ c \in Nat /\ d \in Nat /\ LineBuffer \in Nat \ {0}
      /\ c <= LineBuffer - n /\ c <= reader.end - reader.start
      /\ d # 0 /\ d <= LineBuffer - n => c = d
  <2>1. reader.start \in Nat /\ reader.end \in Nat /\ d \in 0..(reader.end - reader.start)
      BY LineEndIs DEF ReadInv, BufferInv, BufferOf, Readers
  <2>2. d \in Nat
      BY <2>1
  <2> QED BY <2>2, CopyIs, FileBuffersAssumption DEF ReadInv
<1>3. E \in Edges /\ \A p \in (E + 1)..Position : p \notin log.ends
  <2>1. Len(pieces) \in 0..Len(pieces) /\ ReadUpTo(Len(pieces)) = E
      BY DEF ReadInv, PieceInv
  <2> QED BY <2>1 DEF ReadInv, LineInv
<1>4. /\ d = 0 => \A p \in 1..c : Position + p \notin log.ends
      /\ d > 0 => Position + d \in log.ends /\ \A p \in 1..(d - 1) : Position + p \notin log.ends
  <2>1. \A p \in 1..c : p \in 1..(reader.end - reader.start)
    <3>1. reader.start \in Nat /\ reader.end \in Nat
        BY DEF ReadInv, BufferInv, BufferOf, Readers
    <3> QED BY <1>2, <3>1
  <2> QED BY <2>1, LineEndIs DEF ReadInv
<1> HIDE DEF n, c, d, E
<1>5. ASSUME NEW m \in Nat, \A p \in 1..m : Position + p \notin log.ends
      PROVE  \A p \in (E + 1)..(Position + m) : p \notin log.ends
  <2> SUFFICES ASSUME NEW p \in (E + 1)..(Position + m) PROVE p \notin log.ends
      OBVIOUS
  <2>1. CASE p <= Position
    <3>1. p \in (E + 1)..Position
        BY <1>1, <2>1
    <3> QED BY <1>3, <3>1
  <2>2. CASE ~(p <= Position)
    <3>1. p - Position \in 1..m /\ Position + (p - Position) = p
        BY <1>1, <2>2
    <3> QED BY <1>5, <3>1
  <2> QED BY <2>1, <2>2
<1>6. d = 0 => \A p \in (E + 1)..(Position + c) : p \notin log.ends
    BY <1>2, <1>4, <1>5
<1>7. ASSUME d > 0 PROVE Position + c \in Edges
  <2> DEFINE q == Position + d
  <2>1. q \in log.ends /\ q \in Nat /\ E < q /\ q - E = n + d
    <3>1. q = E + (n + d) /\ n + d \in Nat \ {0}
        BY <1>1, <1>2, <1>7
    <3>2. q \in log.ends
        BY <1>4, <1>7
    <3> DEFINE m == n + d
    <3> HIDE DEF q, m
    <3>3. q = E + m /\ m \in Nat \ {0} /\ E \in Nat
        BY <1>1, <3>1 DEF m
    <3>4. q \in Nat /\ E < q /\ q - E = m
        BY <3>3
    <3> QED BY <3>2, <3>4 DEF m
  <2>2. d - 1 \in Nat /\ Position + (d - 1) = q - 1
      BY <1>1, <1>2, <1>7
  <2>3. \A p \in (E + 1)..(q - 1) : p \notin log.ends
      BY <1>4, <1>5, <1>7, <2>2
  <2> HIDE DEF q
  <2>4. q - E <= LineBuffer
      BY <1>3, <2>1, <2>3 DEF LinesFit, Edges
  <2>5. d <= LineBuffer - n
      BY <1>1, <1>2, <2>1, <2>4
  <2>6. c = d
      BY <1>2, <1>7, <2>5
  <2> QED BY <2>1, <2>6 DEF q, Edges
<1>8. ASSUME d = 0, Full PROVE Position + c \in Edges
  <2>1. Position + c = E + LineBuffer
      BY <1>1, <1>2, <1>8 DEF Full
  <2> DEFINE F == {p \in log.ends : p > E} \cup {log.size}
  <2>2. F \subseteq 1..log.size /\ F \subseteq Nat /\ log.size > E /\ F # {}
      BY <1>1, <1>2, <2>1
  <2>3. IsFiniteSet(1..log.size)
    <3>1. 1 \in Int /\ log.size \in Int
        BY <1>1
    <3> QED BY <3>1, FS_Interval
  <2>4. F \subseteq Edges /\ \A p \in F : p > E
      BY <2>2 DEF Edges
  <2>5. \A p \in log.ends : p > E => p \in F
      OBVIOUS
  <2>6. log.size \in F
      OBVIOUS
  <2>7. \A p \in F : p \in log.ends \/ p = log.size
      OBVIOUS
  <2> HIDE DEF F
  <2>8. IsFiniteSet(F)
      BY <2>2, <2>3, FS_Subset
  <2>9. PICK x \in F : \A y \in F : x <= y
      BY <2>2, <2>8, LeastOfFinite
  <2>10. x \in Nat /\ x > E /\ x \in Edges
      BY <2>2, <2>4
  <2>11. \A p \in (E + 1)..(x - 1) : p \notin log.ends
    <3> SUFFICES ASSUME NEW p \in (E + 1)..(x - 1), p \in log.ends PROVE FALSE
        OBVIOUS
    <3>1. p > E /\ ~(x <= p)
        BY <1>1, <2>10
    <3> QED BY <2>5, <2>9, <3>1
  <2>12. x - E <= LineBuffer
      BY <1>1, <1>3, <2>10, <2>11 DEF LinesFit
  <2>13. x <= Position + c
      BY <1>1, <1>2, <2>1, <2>10, <2>12
  <2>14. x \notin log.ends
    <3>1. x \in (E + 1)..(Position + c)
        BY <1>1, <1>2, <2>10, <2>13
    <3> QED BY <1>6, <1>8, <3>1
  <2>15. Position + c = log.size
      BY <1>1, <1>2, <2>7, <2>10, <2>13, <2>14
  <2> QED BY <2>15 DEF Edges
<1>9. ASSUME d = 0, ~Full, reader'.start = reader'.end PROVE Position + c \in Edges
    BY <1>9, TurnIs DEF Edges, c, d
<1>10. Returns(reader') => Position + c \in Edges
  <2>1. d = 0 \/ d > 0
      BY <1>2
  <2> QED BY <1>7, <1>8, <1>9, <2>1 DEF Returns, d
<1> QED BY <1>3, <1>6, <1>10 DEF c, d, E
LEMMA LineStep == ASSUME ReadInv, ReadOn PROVE LineInv'
<1>1. log' = log /\ (LinesFit' <=> LinesFit) /\ Edges' = Edges
    BY TurnIs DEF LinesFit, Edges
<1> SUFFICES ASSUME LinesFit
             PROVE  /\ (\A i \in 0..Len(pieces) : ReadUpTo(i) \in Edges)'
                    /\ (\A p \in (LineStart + 1)..Position : p \notin log.ends)'
    BY <1>1 DEF LineInv
<1>2. \A i \in 0..Len(pieces) : ReadUpTo(i) \in Edges
    BY DEF ReadInv, LineInv
<1>3. PICK k \in Nat : k = Len(pieces)
    BY DEF ReadInv, PieceInv
<1>4. Position' \in Nat /\ Position' = Position + CopyCount
  <2>1. Position \in Nat /\ CopyCount \in Nat
      BY CopiedIs, CopyIs DEF ReadInv
  <2> QED BY <2>1, TurnIs
<1>5. CASE Returns(reader')
  <2>1. /\ LineStart' = Position' /\ Len(pieces') = k + 1
        /\ \A i \in 0..k : ReadUpTo(i)' = ReadUpTo(i)
        /\ ReadUpTo(k + 1)' = Position'
    <3>1. /\ LineStart' = Position' /\ Len(pieces') = k + 1
          /\ \A i \in 0..k : ReadUpTo(i)' = ReadUpTo(i)
          /\ ReadUpTo(Len(pieces))' = Position'
        BY <1>3, <1>5, PieceStep
    <3>2. ReadUpTo(Len(pieces))' = ReadUpTo(k + 1)'
        BY <3>1 DEF ReadUpTo
    <3> QED BY <3>1, <3>2
  <2>2. Position' \in Edges
      BY <1>4, <1>5, ReturnsAtEdge
  <2>3. \A i \in 0..(k + 1) : ReadUpTo(i)' \in Edges
    <3> SUFFICES ASSUME NEW i \in 0..(k + 1) PROVE ReadUpTo(i)' \in Edges
        OBVIOUS
    <3>1. CASE i = k + 1
        BY <2>1, <2>2, <3>1
    <3>2. CASE i # k + 1
      <4>1. i \in 0..k
          BY <3>2
      <4> QED BY <1>2, <1>3, <2>1, <4>1
    <3> QED BY <3>1, <3>2
  <2>4. \A x \in Nat : (x + 1)..x = {}
      OBVIOUS
  <2>5. (LineStart' + 1)..Position' = {}
      BY <1>4, <2>1, <2>4
  <2> QED BY <1>1, <2>1, <2>3, <2>5
<1>6. CASE ~Returns(reader')
  <2>1. LineStart' = LineStart /\ pieces' = pieces
      BY <1>6, PieceStep
  <2>2. ToLineEnd = 0
    <3>1. ToLineEnd \in Nat /\ ~(ToLineEnd > 0)
        BY <1>6, LineEndIs DEF Returns, ReadInv, BufferInv, BufferOf, Readers
    <3> QED BY <3>1
  <2>3. \A p \in (LineStart' + 1)..Position' : p \notin log'.ends
      BY <1>1, <1>4, <2>1, <2>2, ReturnsAtEdge
  <2>4. \A i \in 0..Len(pieces') : ReadUpTo(i)' \in Edges'
      BY <1>1, <1>2, <2>1 DEF ReadUpTo
  <2> QED BY <2>3, <2>4
<1> QED BY <1>5, <1>6
LEMMA ReadStep == ReadInv /\ [ReaderNext]_readerVars => ReadInv'
<1> SUFFICES ASSUME ReadInv, [ReaderNext]_readerVars PROVE ReadInv'
    OBVIOUS
<1>1. CASE ReadOn
    BY <1>1, TurnIs, PieceStep, LineStep DEF ReadInv
<1>2. CASE UNCHANGED readerVars
  <2>1. log' = log /\ reader' = reader /\ piece' = piece /\ pieces' = pieces
      BY <1>2 DEF readerVars
  <2> QED BY <2>1 DEF ReadInv, BufferInv, BufferOf, PieceInv, LineInv, LinesFit, Edges, LineStart, Position, ReadUpTo
<1> QED BY <1>1, <1>2 DEF ReaderNext

\* Whatever the sizes of the buffers, the report and the log: until a write fails, the
\* disk and the buffer hold what was given, and no copy leaves the buffer; the reader
\* gives the log in order, a line that fits in one piece.
THEOREM BuffersAlwaysFaithful ==
    WriterInit /\ ReaderInit /\ [][WriterNext]_writerVars /\ [][ReaderNext]_readerVars => []BuffersFaithful
<1>1. WrittenInv /\ ReadInv => BuffersFaithful
    BY WrittenMeans, ReadMeans DEF BuffersFaithful
<1> QED BY <1>1, WrittenStart, WrittenStep, ReadStart, ReadStep, PTL

-----------------------------------------------------------------------------
(* Where a call may be made, and what there is after it.  A state here is   *)
(* what is open, below it what cannot be closed; how many objects of memory *)
(* that is nested in; the most the limit can be; the sections so far; and   *)
(* what the setup forgives: "ends" that are not its own, "names" twice.     *)

IsState(s) ==
    /\ s.depth \in Nat /\ s.nested \in Int /\ s.limit \in Int
    /\ s.at[0].by = NoKey /\ s.at[0].kind = "beginArray"
TopOf(s) == s.at[s.depth]
IsRoot(s) == s.depth = 1 /\ s.at[1].by = "root"

\* What may be done in t may be done in s.
Within(s, t) ==
    /\ s.depth = t.depth /\ s.nested = t.nested /\ s.sections = t.sections
    /\ s.limit <= t.limit /\ t.lenient \subseteq s.lenient
    /\ \A d \in 0..s.depth : /\ s.at[d].by = t.at[d].by /\ s.at[d].kind = t.at[d].kind
                             /\ s.at[d].keys \subseteq t.at[d].keys

Limited(s, most) ==
    [depth |-> s.depth, nested |-> s.nested, limit |-> most, lenient |-> s.lenient, sections |-> s.sections, at |-> s.at]
More(s, keys) ==
    [depth |-> s.depth, nested |-> s.nested, limit |-> s.limit, lenient |-> s.lenient,
     sections |-> IF IsRoot(s) THEN s.sections \cup keys ELSE s.sections,
     at |-> [d \in Nat |-> IF d = s.depth THEN [by |-> s.at[d].by, kind |-> s.at[d].kind, keys |-> s.at[d].keys \cup keys]
                           ELSE s.at[d]]]
One(kind) == IF kind = "beginMemory" THEN 1 ELSE 0
Pushed(s, key, kind) ==
    [depth |-> s.depth + 1, nested |-> s.nested + One(kind), limit |-> s.limit, lenient |-> s.lenient,
     sections |-> More(s, {key}).sections,
     at |-> [d \in Nat |-> IF d = s.depth + 1 THEN [by |-> key, kind |-> kind, keys |-> {}] ELSE More(s, {key}).at[d]]]
Popped(s) ==
    IF s.depth = 0 THEN s
    ELSE [depth |-> s.depth - 1, nested |-> s.nested - One(TopOf(s).kind), limit |-> s.limit, lenient |-> s.lenient,
          sections |-> s.sections, at |-> s.at]
Closed(s) ==
    [depth |-> 0, nested |-> 0, limit |-> s.limit, lenient |-> s.lenient, sections |-> s.sections, at |-> s.at]

LEMMA WithinRefl == ASSUME NEW s, IsState(s) PROVE Within(s, s)
BY DEF Within, IsState
LEMMA WithinTrans ==
    ASSUME NEW r, NEW s, NEW t, IsState(r), IsState(s), IsState(t), Within(r, s), Within(s, t) PROVE Within(r, t)
BY DEF Within, IsState
\* What these make of a state, in each of its fields.
IsMore(m, s, keys) ==
    /\ IsState(m) /\ m.depth = s.depth /\ m.nested = s.nested /\ m.limit = s.limit /\ m.lenient = s.lenient
    /\ m.sections = IF IsRoot(s) THEN s.sections \cup keys ELSE s.sections
    /\ \A d \in Nat : /\ m.at[d].by = s.at[d].by /\ m.at[d].kind = s.at[d].kind
                      /\ m.at[d].keys = IF d = s.depth THEN s.at[d].keys \cup keys ELSE s.at[d].keys
IsPushed(p, s, m, key, kind) ==
    /\ IsState(p) /\ p.depth = s.depth + 1 /\ p.nested = s.nested + One(kind)
    /\ p.limit = s.limit /\ p.lenient = s.lenient /\ p.sections = m.sections
    /\ p.at[s.depth + 1] = [by |-> key, kind |-> kind, keys |-> {}]
    /\ \A d \in 0..s.depth : p.at[d] = m.at[d]
IsPopped(p, s) ==
    /\ IsState(p) /\ p.depth = IF s.depth = 0 THEN 0 ELSE s.depth - 1
    /\ p.nested = IF s.depth = 0 THEN s.nested ELSE s.nested - One(TopOf(s).kind)
    /\ p.limit = s.limit /\ p.lenient = s.lenient /\ p.sections = s.sections /\ p.at = s.at

LEMMA MoreIs == ASSUME NEW s, NEW keys, IsState(s) PROVE IsMore(More(s, keys), s, keys)
BY DEF IsState, More, IsMore
LEMMA Numbers ==
    ASSUME NEW s, IsState(s)
    PROVE  s.depth \in Nat /\ s.nested \in Int /\ s.limit \in Int /\ \A kind : One(kind) \in {0, 1}
BY DEF IsState, One
LEMMA PushedIs ==
    ASSUME NEW s, NEW key, NEW kind, IsState(s)
    PROVE  IsPushed(Pushed(s, key, kind), s, More(s, {key}), key, kind)
<1> DEFINE p == Pushed(s, key, kind)
           m == More(s, {key})
<1>1. IsMore(m, s, {key})
    BY MoreIs
<1>2. s.depth \in Nat /\ s.nested \in Int /\ s.limit \in Int /\ One(kind) \in Int
    BY Numbers
<1>3. /\ p.depth = s.depth + 1 /\ p.nested = s.nested + One(kind)
      /\ p.limit = s.limit /\ p.lenient = s.lenient /\ p.sections = m.sections
    BY DEF Pushed
<1>4. \A d \in Nat : p.at[d] = IF d = s.depth + 1 THEN [by |-> key, kind |-> kind, keys |-> {}] ELSE m.at[d]
    BY DEF Pushed
<1> HIDE DEF p, m
<1>5. p.at[s.depth + 1] = [by |-> key, kind |-> kind, keys |-> {}]
    BY <1>2, <1>4
<1>6. \A d \in 0..s.depth : p.at[d] = m.at[d]
    BY <1>2, <1>4
<1>7. IsState(p)
    BY <1>1, <1>2, <1>3, <1>6 DEF IsState, IsMore
<1>8. IsPushed(p, s, m, key, kind)
    BY <1>3, <1>5, <1>6, <1>7 DEF IsPushed
<1> QED BY <1>8 DEF p, m
LEMMA PoppedIs == ASSUME NEW s, IsState(s) PROVE IsPopped(Popped(s), s)
BY DEF IsState, Popped, One, IsPopped
LEMMA TopsAre ==
    ASSUME NEW s, NEW t, IsState(s), IsState(t), Within(s, t)
    PROVE  /\ IsRoot(s) = IsRoot(t) /\ TopOf(s).by = TopOf(t).by /\ TopOf(s).kind = TopOf(t).kind
           /\ TopOf(s).keys \subseteq TopOf(t).keys
BY DEF Within, IsRoot, IsState, TopOf
LEMMA WithinBy ==
    ASSUME NEW s, NEW t, IsState(s), s.depth = t.depth, s.nested = t.nested, s.sections = t.sections,
           s.limit <= t.limit, t.lenient \subseteq s.lenient,
           \A d \in 0..s.depth : /\ s.at[d].by = t.at[d].by /\ s.at[d].kind = t.at[d].kind
                                 /\ s.at[d].keys \subseteq t.at[d].keys
    PROVE  Within(s, t)
BY DEF Within
LEMMA MoreWithin ==
    ASSUME NEW s, NEW t, NEW A, NEW B, IsState(s), IsState(t), Within(s, t), A \subseteq B, A = B \/ ~IsRoot(s)
    PROVE  Within(More(s, A), More(t, B))
<1> DEFINE m == More(s, A)
           n == More(t, B)
<1>1. IsRoot(s) = IsRoot(t)
    BY TopsAre
<1>2. IsMore(m, s, A)
    BY MoreIs
<1>3. IsMore(n, t, B)
    BY MoreIs
<1>4. s.depth \in Nat
    BY Numbers
<1> HIDE DEF m, n
<1> SUFFICES Within(m, n)
    BY DEF m, n
<1>5. m.sections = n.sections
    BY <1>1, <1>2, <1>3 DEF Within, IsMore
<1>6. ASSUME NEW d \in 0..s.depth
      PROVE  m.at[d].by = n.at[d].by /\ m.at[d].kind = n.at[d].kind /\ m.at[d].keys \subseteq n.at[d].keys
  <2>1. d \in Nat /\ s.depth = t.depth
      BY <1>4 DEF Within, IsMore
  <2>2. s.at[d].by = t.at[d].by /\ s.at[d].kind = t.at[d].kind /\ s.at[d].keys \subseteq t.at[d].keys
      BY DEF Within
  <2> QED BY <1>2, <1>3, <2>1, <2>2 DEF IsMore
<1>7. m.depth = n.depth /\ m.nested = n.nested /\ m.limit <= n.limit /\ n.lenient \subseteq m.lenient
    BY <1>2, <1>3 DEF Within, IsMore
<1> QED BY <1>2, <1>5, <1>6, <1>7, WithinBy DEF IsMore
LEMMA MoreTwice ==
    ASSUME NEW s, NEW A, NEW B, IsState(s)
    PROVE  Within(More(More(s, A), B), More(s, A \cup B)) /\ IsRoot(More(s, A)) = IsRoot(s)
<1> DEFINE m == More(s, A)
           n == More(m, B)
           u == More(s, A \cup B)
<1>1. s.depth \in Nat /\ s.limit \in Int
    BY Numbers
<1>2. IsMore(m, s, A)
    BY MoreIs
<1>3. IsMore(u, s, A \cup B)
    BY MoreIs
<1> HIDE DEF m, u
<1>4. IsRoot(m) = IsRoot(s)
    BY <1>1, <1>2 DEF IsRoot, IsMore
<1>5. IsMore(n, m, B)
  <2>1. IsState(m)
      BY <1>2 DEF IsMore
  <2> QED BY <2>1, MoreIs
<1> HIDE DEF n
<1>6. n.sections = u.sections
    BY <1>2, <1>3, <1>4, <1>5 DEF IsMore
<1>7. ASSUME NEW d \in 0..n.depth
      PROVE  n.at[d].by = u.at[d].by /\ n.at[d].kind = u.at[d].kind /\ n.at[d].keys \subseteq u.at[d].keys
  <2>1. d \in Nat
      BY <1>1, <1>2, <1>5 DEF IsMore
  <2>2. /\ m.at[d].by = s.at[d].by /\ m.at[d].kind = s.at[d].kind
        /\ m.at[d].keys = IF d = s.depth THEN s.at[d].keys \cup A ELSE s.at[d].keys
      BY <1>2, <2>1 DEF IsMore
  <2>3. /\ u.at[d].by = s.at[d].by /\ u.at[d].kind = s.at[d].kind
        /\ u.at[d].keys = IF d = s.depth THEN s.at[d].keys \cup (A \cup B) ELSE s.at[d].keys
      BY <1>3, <2>1 DEF IsMore
  <2>4. /\ n.at[d].by = m.at[d].by /\ n.at[d].kind = m.at[d].kind
        /\ n.at[d].keys = IF d = s.depth THEN m.at[d].keys \cup B ELSE m.at[d].keys
      BY <1>2, <1>5, <2>1 DEF IsMore
  <2> QED BY <2>2, <2>3, <2>4
<1>8. Within(n, u)
    BY <1>1, <1>2, <1>3, <1>5, <1>6, <1>7, WithinBy DEF IsMore
<1> QED BY <1>4, <1>8 DEF m, n, u
LEMMA PushedWithin ==
    ASSUME NEW s, NEW t, NEW key, NEW kind, IsState(s), IsState(t), Within(s, t)
    PROVE  Within(Pushed(s, key, kind), Pushed(t, key, kind))
<1> DEFINE p == Pushed(s, key, kind)
           q == Pushed(t, key, kind)
           m == More(s, {key})
           n == More(t, {key})
<1>1. Within(m, n) /\ IsMore(m, s, {key})
    BY MoreWithin, MoreIs
<1>2. s.depth = t.depth /\ s.depth \in Nat /\ One(kind) \in Int
    BY Numbers DEF Within
<1>3. IsPushed(p, s, m, key, kind)
    BY PushedIs
<1>4. IsPushed(q, t, n, key, kind)
    BY PushedIs
<1> HIDE DEF p, q, m, n
<1>5. ASSUME NEW d \in 0..p.depth
      PROVE  p.at[d].by = q.at[d].by /\ p.at[d].kind = q.at[d].kind /\ p.at[d].keys \subseteq q.at[d].keys
  <2>1. d = s.depth + 1 \/ d \in 0..s.depth
      BY <1>2, <1>3 DEF IsMore, IsPushed
  <2>2. CASE d = s.depth + 1
    <3>1. p.at[d] = q.at[d]
        BY <1>2, <1>3, <1>4, <2>2 DEF IsMore, IsPushed
    <3> QED BY <3>1
  <2>3. CASE d \in 0..s.depth
    <3>1. p.at[d] = m.at[d] /\ q.at[d] = n.at[d]
        BY <1>2, <1>3, <1>4, <2>3 DEF IsMore, IsPushed
    <3>2. m.at[d].by = n.at[d].by /\ m.at[d].kind = n.at[d].kind /\ m.at[d].keys \subseteq n.at[d].keys
        BY <1>1, <2>3 DEF Within, IsMore, IsPushed
    <3> QED BY <3>1, <3>2
  <2> QED BY <2>1, <2>2, <2>3
<1>6. Within(p, q)
    BY <1>1, <1>2, <1>3, <1>4, <1>5, WithinBy DEF Within, IsMore, IsPushed
<1> QED BY <1>6 DEF p, q
LEMMA PoppedWithin ==
    ASSUME NEW s, NEW t, IsState(s), IsState(t), Within(s, t) PROVE Within(Popped(s), Popped(t))
<1> DEFINE p == Popped(s)
           q == Popped(t)
<1>1. s.depth = t.depth /\ s.depth \in Nat /\ TopOf(s).kind = TopOf(t).kind
    BY Numbers, TopsAre DEF Within
<1>2. IsPopped(p, s)
    BY PoppedIs
<1>3. IsPopped(q, t)
    BY PoppedIs
<1> HIDE DEF p, q
<1>4. 0..p.depth \subseteq 0..s.depth
    BY <1>1, <1>2 DEF IsPopped
<1>5. Within(p, q)
    BY <1>1, <1>2, <1>3, <1>4, WithinBy DEF Within, IsPopped
<1> QED BY <1>5 DEF p, q
LEMMA PushedPopped ==
    ASSUME NEW s, NEW key, NEW kind, NEW keys, IsState(s), key # "root" \/ s.depth > 0
    PROVE  Within(Popped(More(Pushed(s, key, kind), keys)), More(s, {key}))
<1> DEFINE p == Pushed(s, key, kind)
           q == More(p, keys)
           r == Popped(q)
           m == More(s, {key})
<1>1. s.depth \in Nat /\ s.nested \in Int /\ s.limit \in Int /\ One(kind) \in Int
    BY Numbers
<1>2. IsPushed(p, s, m, key, kind)
    BY PushedIs
<1>3. IsMore(m, s, {key})
    BY MoreIs
<1> HIDE DEF p, m
<1>4. ~IsRoot(p)
    BY <1>1, <1>2 DEF IsRoot, IsPushed
<1>5. IsMore(q, p, keys)
  <2>1. IsState(p)
      BY <1>2 DEF IsPushed
  <2> QED BY <2>1, MoreIs
<1> HIDE DEF q
<1>6. /\ IsState(r) /\ r.depth = s.depth /\ r.nested = s.nested
      /\ r.limit = s.limit /\ r.lenient = s.lenient /\ r.sections = m.sections /\ r.at = q.at
  <2>1. TopOf(q).kind = kind
    <3>0. p.depth = s.depth + 1 /\ q.depth = p.depth /\ \A d \in Nat : q.at[d].kind = p.at[d].kind
        BY <1>2, <1>5 DEF IsMore, IsPushed
    <3>1. q.depth = s.depth + 1 /\ q.depth \in Nat /\ \A d \in Nat : q.at[d].kind = p.at[d].kind
        BY <1>1, <3>0
    <3>2. q.at[q.depth].kind = p.at[q.depth].kind
        BY <3>1
    <3> QED BY <1>2, <3>1, <3>2 DEF TopOf, IsPushed
  <2>2. q.depth # 0 /\ q.depth - 1 = s.depth /\ q.nested - One(kind) = s.nested
      BY <1>1, <1>2, <1>5 DEF IsMore, IsPushed, IsPopped
  <2>3. IsState(q)
      BY <1>5 DEF IsMore
  <2>4. IsPopped(r, q)
      BY <2>3, PoppedIs
  <2> HIDE DEF r
  <2> QED BY <1>2, <1>4, <1>5, <2>1, <2>2, <2>4 DEF IsMore, IsPushed, IsPopped
<1> HIDE DEF r
<1>7. ASSUME NEW d \in 0..r.depth
      PROVE  r.at[d].by = m.at[d].by /\ r.at[d].kind = m.at[d].kind /\ r.at[d].keys \subseteq m.at[d].keys
  <2>1. d \in Nat /\ d # p.depth /\ d \in 0..s.depth
      BY <1>1, <1>2, <1>6 DEF IsMore, IsPushed, IsPopped
  <2>2. p.at[d] = m.at[d]
      BY <1>2, <2>1 DEF IsMore, IsPushed, IsPopped
  <2> QED BY <1>5, <1>6, <2>1, <2>2 DEF IsMore, IsPushed, IsPopped
<1>8. Within(r, m)
    BY <1>1, <1>3, <1>6, <1>7, WithinBy DEF IsMore, IsPushed, IsPopped
<1> QED BY <1>8 DEF r, q, p, m
Free(s) == "names" \in s.lenient \/ TopOf(s).by = "user_reported"
Fresh(s, keys) ==
    TopOf(s).kind = "beginArray" \/ (NoKey \notin keys /\ (Free(s) \/ keys \cap TopOf(s).keys = {}))
Room(s) == s.nested + 1 <= SearchDepth

Begins == {"begin", "beginArray", "beginMemory"}
OfFiles == {"rename", "open", "flush", "remove"}
After(call, s) ==
    CASE call.op \in {"add", "copy"} -> More(s, call.keys)
      [] call.op \in Begins -> Pushed(s, call.key, call.op)
      [] call.op = "end" -> Popped(s)
      [] call.op \in {"memory", "ivars", "user"} -> More(s, {call.key})
      [] call.op \in Plain \cup {"search"} -> Limited(More(s, {call.key}), SearchDepth)
      [] call.op = "close" -> Closed(s)
      [] OTHER -> s
May(call, s) ==
    /\ call.op \in {"add", "copy"} => Fresh(s, call.keys)
    /\ call.op \notin OfFiles \cup {"add", "copy", "end", "close"} => Fresh(s, {call.key})
    /\ call.op = "end" => "ends" \in s.lenient \/ (s.depth > 0 /\ TopOf(s).by = call.key)
    /\ call.op \in {"memory", "ivars"} => Room(s) /\ s.nested + s.limit <= SearchDepth
    /\ call.op = "beginMemory" => Room(s)
    /\ call.op \in Plain \cup {"search", "user"} => s.nested = 0
    /\ call.op \in (Plain \ {"debug"}) \cup {"search", "memory", "ivars"} => s.depth > 0
    /\ call.op = "debug" => call.key = "debug"
    /\ call.op \in {"image", "stack"} => ~IsRoot(s)
    /\ call.op \in {"frame", "image"} => call.key = NoKey
    /\ call.op = "user" => IsRoot(s) /\ Fresh(s, {"user", "callback"}) /\ call.key = "user"
    /\ call.op = "open" => s.depth = 0 /\ s.sections = {}

LEMMA LimitedIs ==
    ASSUME NEW s, NEW most \in Int, IsState(s)
    PROVE  IsState(Limited(s, most)) /\ \A t : Within(s, t) => Within(Limited(s, most), Limited(t, most))
BY DEF IsState, Limited, Within
LEMMA ClosedIs ==
    ASSUME NEW s, IsState(s)
    PROVE  IsState(Closed(s)) /\ \A t : IsState(t) /\ Within(s, t) => Within(Closed(s), Closed(t))
<1>1. IsState(Closed(s))
    BY DEF IsState, Closed
<1>2. ASSUME NEW t, IsState(t), Within(s, t) PROVE Within(Closed(s), Closed(t))
    BY <1>2 DEF IsState, Closed, Within
<1> QED BY <1>1, <1>2
LEMMA FreshWithin ==
    ASSUME NEW s, NEW t, NEW keys, IsState(s), IsState(t), Within(s, t), Fresh(t, keys)
    PROVE  Fresh(s, keys)
<1>1. /\ TopOf(s).by = TopOf(t).by /\ TopOf(s).kind = TopOf(t).kind /\ TopOf(s).keys \subseteq TopOf(t).keys
      /\ t.lenient \subseteq s.lenient
    BY TopsAre DEF Within
<1> QED BY <1>1 DEF Fresh, Free
LEMMA MayWithin ==
    ASSUME NEW s, NEW t, NEW call, IsState(s), IsState(t), Within(s, t), May(call, t)
    PROVE  May(call, s)
<1>1. /\ TopOf(s).by = TopOf(t).by /\ IsRoot(s) = IsRoot(t)
      /\ s.depth = t.depth /\ s.nested = t.nested /\ s.limit <= t.limit /\ s.sections = t.sections
      /\ t.lenient \subseteq s.lenient
    BY TopsAre DEF Within
<1>2. s.nested \in Int /\ s.limit \in Int /\ t.limit \in Int /\ SearchDepth \in Int
    BY Numbers, ReportWriterAssumption
<1>3. \A keys : Fresh(t, keys) => Fresh(s, keys)
    BY FreshWithin
<1>4. s.nested + t.limit <= SearchDepth => s.nested + s.limit <= SearchDepth
    BY <1>1, <1>2
<1>5. Room(t) => Room(s)
    BY <1>1 DEF Room
<1>6. "ends" \in t.lenient => "ends" \in s.lenient
    BY <1>1
<1> QED BY <1>1, <1>3, <1>4, <1>5, <1>6 DEF May
LEMMA AfterOf ==
    ASSUME NEW call, NEW s
    PROVE  /\ call.op \in {"add", "copy"} => After(call, s) = More(s, call.keys)
           /\ call.op \in Begins => After(call, s) = Pushed(s, call.key, call.op)
           /\ call.op = "end" => After(call, s) = Popped(s)
           /\ call.op \in {"memory", "ivars", "user"} => After(call, s) = More(s, {call.key})
           /\ call.op \in Plain \cup {"search"} => After(call, s) = Limited(More(s, {call.key}), SearchDepth)
           /\ call.op = "close" => After(call, s) = Closed(s)
           /\ call.op \in OfFiles => After(call, s) = s
<1> DEFINE add == More(s, call.keys)
           pushed == Pushed(s, call.key, call.op)
           popped == Popped(s)
           more == More(s, {call.key})
           limited == Limited(more, SearchDepth)
           closed == Closed(s)
<1>1. After(call, s) =
        CASE call.op \in {"add", "copy"} -> add
          [] call.op \in Begins -> pushed
          [] call.op = "end" -> popped
          [] call.op \in {"memory", "ivars", "user"} -> more
          [] call.op \in Plain \cup {"search"} -> limited
          [] call.op = "close" -> closed
          [] OTHER -> s
    BY DEF After
<1> HIDE DEF add, pushed, popped, more, limited, closed
<1>2. /\ call.op \in {"add", "copy"} => After(call, s) = add
      /\ call.op \in Begins => After(call, s) = pushed
      /\ call.op = "end" => After(call, s) = popped
      /\ call.op \in {"memory", "ivars", "user"} => After(call, s) = more
      /\ call.op \in Plain \cup {"search"} => After(call, s) = limited
      /\ call.op = "close" => After(call, s) = closed
      /\ call.op \in OfFiles => After(call, s) = s
    BY <1>1 DEF Begins, Plain, OfFiles
<1> QED BY <1>2 DEF add, pushed, popped, more, limited, closed
LEMMA AfterIs == ASSUME NEW s, NEW call, IsState(s) PROVE IsState(After(call, s))
<1>1. \A keys : IsState(More(s, keys))
    BY MoreIs DEF IsMore
<1>2. \A keys : IsState(Limited(More(s, keys), SearchDepth))
    BY <1>1, LimitedIs, ReportWriterAssumption
<1>3. IsState(Popped(s)) /\ IsState(Closed(s))
    BY PoppedIs, ClosedIs DEF IsPopped
<1>4. \A key, kind : IsState(Pushed(s, key, kind))
    BY PushedIs DEF IsPushed
<1> QED BY <1>1, <1>2, <1>3, <1>4 DEF After
LEMMA AfterWithin ==
    ASSUME NEW s, NEW t, NEW call, IsState(s), IsState(t), Within(s, t)
    PROVE  Within(After(call, s), After(call, t))
<1>1. \A keys : Within(More(s, keys), More(t, keys)) /\ IsState(More(s, keys))
    BY MoreWithin, MoreIs DEF IsMore
<1>2. \A keys : Within(Limited(More(s, keys), SearchDepth), Limited(More(t, keys), SearchDepth))
    BY <1>1, LimitedIs, ReportWriterAssumption
<1>3. Within(Popped(s), Popped(t)) /\ Within(Closed(s), Closed(t))
    BY PoppedWithin, ClosedIs
<1>4. \A key, kind : Within(Pushed(s, key, kind), Pushed(t, key, kind))
    BY PushedWithin
<1> QED BY <1>1, <1>2, <1>3, <1>4 DEF After

-----------------------------------------------------------------------------
(* From state to state by calls                                             *)

\* A function may leave less than its call promises.
Path(r, calls, s, t) ==
    /\ \A k \in 0..Len(calls) : IsState(r[k])
    /\ Within(s, r[0]) /\ Within(r[Len(calls)], t)
    /\ \A k \in 1..Len(calls) : May(calls[k], r[k - 1]) /\ Within(After(calls[k], r[k - 1]), r[k])
Goes(calls, s, t) == \E r : Path(r, calls, s, t)

LEMMA GoesBy == ASSUME NEW r, NEW calls, NEW s, NEW t, Path(r, calls, s, t) PROVE Goes(calls, s, t)
<1> SUFFICES \E p : Path(p, calls, s, t)
    BY DEF Goes
<1> WITNESS r
<1> QED OBVIOUS
LEMMA LengthOf == ASSUME NEW s, Sequence(s) PROVE Len(s) \in Nat
<1>1. PICK S : s \in Seq(S)
    BY DEF Sequence
<1> QED BY <1>1
LEMMA GoesNone == ASSUME NEW s, NEW t, IsState(s), Within(s, t) PROVE Goes(<<>>, s, t)
<1> DEFINE r == [k \in Nat |-> s]
<1>1. r[0] = s /\ Len(<<>>) = 0
    OBVIOUS
<1> HIDE DEF r
<1>2. Within(s, s)
    BY WithinRefl
<1>3. \A k \in 0..Len(<<>>) : k = 0
    BY <1>1
<1>4. 1..Len(<<>>) = {}
    BY <1>1
<1>5. Path(r, <<>>, s, t)
    BY <1>1, <1>2, <1>3, <1>4 DEF Path
<1> QED BY <1>5, GoesBy
LEMMA GoesFrom ==
    ASSUME NEW calls, Sequence(calls), NEW s, NEW t, NEW u, NEW v, IsState(s), IsState(t), IsState(u), IsState(v),
           Within(s, t), Goes(calls, t, u), Within(u, v)
    PROVE  Goes(calls, s, v)
<1>1. PICK r : Path(r, calls, t, u)
    BY DEF Goes
<1>2. 0 \in 0..Len(calls) /\ Len(calls) \in 0..Len(calls)
    BY LengthOf
<1>3. Within(s, r[0])
    BY <1>1, <1>2, WithinTrans DEF Path
<1>4. Within(r[Len(calls)], v)
    BY <1>1, <1>2, WithinTrans DEF Path
<1>5. Path(r, calls, s, v)
    BY <1>1, <1>3, <1>4 DEF Path
<1> QED BY <1>5, GoesBy
LEMMA GoesOne ==
    ASSUME NEW call, NEW s, IsState(s), May(call, s) PROVE Goes(<<call>>, s, After(call, s))
<1> DEFINE r == [k \in Nat |-> IF k = 0 THEN s ELSE After(call, s)]
           c == <<call>>
           a == After(call, s)
<1>1. r[0] = s /\ r[1] = a /\ Len(c) = 1 /\ c[1] = call
    OBVIOUS
<1>2. IsState(a)
    BY AfterIs
<1>3. Within(s, s) /\ Within(a, a)
    BY <1>2, WithinRefl
<1> HIDE DEF r, c
<1>4. \A k \in 0..Len(c) : k = 0 \/ k = 1
    BY <1>1
<1>5. \A k \in 1..Len(c) : k = 1 /\ k - 1 = 0
    BY <1>1
<1>6. Path(r, c, s, a)
  <2>1. \A k \in 1..Len(c) : May(c[k], r[k - 1]) /\ Within(After(c[k], r[k - 1]), r[k])
    <3> SUFFICES ASSUME NEW k \in 1..Len(c) PROVE May(c[k], r[k - 1]) /\ Within(After(c[k], r[k - 1]), r[k])
        OBVIOUS
    <3>1. c[k] = call /\ r[k - 1] = s /\ r[k] = a
        BY <1>1, <1>5
    <3> QED BY <1>3, <3>1
  <2>2. \A k \in 0..Len(c) : IsState(r[k])
      BY <1>1, <1>2, <1>4
  <2> QED BY <1>1, <1>3, <2>1, <2>2 DEF Path
<1> QED BY <1>6, GoesBy DEF c
LEMMA GoesBoth ==
    ASSUME NEW c, NEW d, Sequence(c), Sequence(d), NEW s, NEW t, NEW u, IsState(s), IsState(t), IsState(u),
           Goes(c, s, t), Goes(d, t, u)
    PROVE  Goes(Join(c, d), s, u)
<1>1. PICK p : Path(p, c, s, t)
    BY DEF Goes
<1>2. PICK q : Path(q, d, t, u)
    BY DEF Goes
<1> DEFINE m == Len(c)
           n == Len(d)
           b == Join(c, d)
           r == [k \in Nat |-> IF k <= m THEN p[k] ELSE q[k - m]]
<1>3. m \in Nat /\ n \in Nat
    BY LengthOf
<1>4. Len(b) = m + n /\ (\A k \in 1..m : b[k] = c[k]) /\ (\A k \in (m + 1)..(m + n) : b[k] = d[k - m])
  <2>1. PICK S : c \in Seq(S)
      BY DEF Sequence
  <2>2. PICK T : d \in Seq(T)
      BY DEF Sequence
  <2> DEFINE U == S \cup T
  <2>3. c \in Seq(U) /\ d \in Seq(U)
      BY <2>1, <2>2
  <2> HIDE DEF U
  <2> QED BY <2>3 DEF Join
<1>5. \A k \in 0..m : r[k] = p[k]
    BY <1>3
<1>6. \A k \in (m + 1)..(m + n) : r[k] = q[k - m]
    BY <1>3
<1> HIDE DEF r, b, m, n
<1>7. \A k \in 0..m : IsState(p[k])
    BY <1>1 DEF Path, m
<1>8. \A k \in 0..n : IsState(q[k])
    BY <1>2 DEF Path, n
<1>9. ASSUME NEW k \in 0..(m + n) PROVE IsState(r[k])
  <2>1. CASE k <= m
      BY <1>3, <1>5, <1>7, <2>1
  <2>2. CASE k > m
    <3>1. k \in (m + 1)..(m + n) /\ k - m \in 0..n
        BY <1>3, <2>2
    <3> QED BY <1>6, <1>8, <3>1
  <2> QED BY <1>3, <2>1, <2>2
<1>10. Within(p[m], q[0])
  <2>1. Within(p[m], t) /\ Within(t, q[0]) /\ IsState(p[m]) /\ IsState(q[0])
      BY <1>1, <1>2, <1>3, <1>7, <1>8 DEF Path, m
  <2> QED BY <2>1, WithinTrans
<1>11. ASSUME NEW k \in 1..(m + n) PROVE May(b[k], r[k - 1]) /\ Within(After(b[k], r[k - 1]), r[k])
  <2>1. CASE k <= m
    <3>1. k \in 1..m /\ k - 1 \in 0..m /\ k \in 0..m
        BY <1>3, <2>1
    <3>2. b[k] = c[k] /\ r[k - 1] = p[k - 1] /\ r[k] = p[k]
        BY <1>4, <1>5, <3>1
    <3>3. May(c[k], p[k - 1]) /\ Within(After(c[k], p[k - 1]), p[k])
        BY <1>1, <3>1 DEF Path, m
    <3> QED BY <3>2, <3>3
  <2>2. CASE k > m
    <3> DEFINE j == k - m
    <3>1. j \in 1..n /\ k \in (m + 1)..(m + n) /\ j - 1 \in 0..n /\ j \in 0..n
        BY <1>3, <2>2
    <3>2. b[k] = d[j] /\ r[k] = q[j]
        BY <1>4, <1>6, <3>1
    <3>3. May(d[j], q[j - 1]) /\ Within(After(d[j], q[j - 1]), q[j])
      <4>1. \A i \in 1..n : May(d[i], q[i - 1]) /\ Within(After(d[i], q[i - 1]), q[i])
          BY <1>2 DEF Path, n
      <4> HIDE DEF j
      <4> QED BY <3>1, <4>1
    <3>4. CASE j = 1
      <4>1. k - 1 = m /\ m \in 0..m /\ j - 1 = 0
          BY <1>3, <3>4
      <4>2. r[k - 1] = p[m] /\ IsState(p[m]) /\ IsState(q[0]) /\ IsState(q[j])
          BY <1>5, <1>7, <1>8, <3>1, <4>1
      <4>3. May(d[j], q[0]) /\ Within(After(d[j], q[0]), q[j])
          BY <3>3, <4>1
      <4> HIDE DEF j
      <4>4. May(d[j], p[m])
          BY <1>10, <4>2, <4>3, MayWithin
      <4>5. Within(After(d[j], p[m]), After(d[j], q[0]))
          BY <1>10, <4>2, AfterWithin
      <4>6. IsState(After(d[j], p[m])) /\ IsState(After(d[j], q[0]))
          BY <4>2, AfterIs
      <4>7. Within(After(d[j], p[m]), q[j])
          BY <4>2, <4>3, <4>5, <4>6, WithinTrans
      <4> QED BY <3>2, <4>2, <4>4, <4>7
    <3>5. CASE j # 1
      <4>1. k - 1 \in (m + 1)..(m + n) /\ (k - 1) - m = j - 1
          BY <1>3, <3>1, <3>5
      <4>2. r[k - 1] = q[j - 1]
          BY <1>6, <4>1
      <4> QED BY <3>2, <3>3, <4>2
    <3> QED BY <3>4, <3>5
  <2> QED BY <1>3, <2>1, <2>2
<1>12. Within(s, r[0]) /\ Within(r[m + n], u)
  <2>1. Within(s, p[0]) /\ r[0] = p[0]
      BY <1>1, <1>3, <1>5 DEF Path
  <2>2. CASE n = 0
    <3>1. r[m + n] = p[m] /\ Within(q[0], u) /\ IsState(p[m]) /\ IsState(q[0])
        BY <1>2, <1>3, <1>5, <1>7, <1>8, <2>2 DEF Path, n
    <3> QED BY <1>10, <2>1, <3>1, WithinTrans
  <2>3. CASE n # 0
    <3>1. m + n \in (m + 1)..(m + n) /\ (m + n) - m = n
        BY <1>3, <2>3
    <3>2. r[m + n] = q[n] /\ Within(q[n], u)
        BY <1>2, <1>6, <3>1 DEF Path, n
    <3> QED BY <2>1, <3>2
  <2> QED BY <2>2, <2>3
<1>13. Path(r, b, s, u)
    BY <1>4, <1>9, <1>11, <1>12 DEF Path
<1> QED BY <1>13, GoesBy DEF b
LEMMA GoesFirst ==
    ASSUME NEW calls, Sequence(calls), calls # <<>>, NEW s, NEW t, IsState(s), IsState(t), Goes(calls, s, t)
    PROVE  /\ May(Head(calls), s)
           /\ Goes(Tail(calls), After(Head(calls), s), t)
<1>1. PICK r : Path(r, calls, s, t)
    BY DEF Goes
<1> DEFINE c == Head(calls)
           d == Tail(calls)
           n == Len(calls)
           a == After(c, s)
           q == [k \in Nat |-> r[k + 1]]
<1>2. /\ n \in Nat \ {0} /\ c = calls[1] /\ Len(d) = n - 1 /\ \A k \in 1..(n - 1) : d[k] = calls[k + 1]
  <2>1. PICK S : calls \in Seq(S)
      BY DEF Sequence
  <2> QED BY <2>1
<1>3. /\ IsState(r[0]) /\ IsState(r[1]) /\ Within(s, r[0]) /\ May(c, r[0]) /\ Within(After(c, r[0]), r[1])
  <2>1. 0 \in 0..n /\ 1 \in 0..n /\ 1 \in 1..n /\ 1 - 1 = 0
      BY <1>2
  <2>2. May(calls[1], r[1 - 1]) /\ Within(After(calls[1], r[1 - 1]), r[1])
      BY <1>1, <2>1 DEF Path
  <2>3. May(c, r[0]) /\ Within(After(c, r[0]), r[1])
      BY <1>2, <2>1, <2>2
  <2> QED BY <1>1, <2>1, <2>3 DEF Path
<1> HIDE DEF c, d, n
<1>4. May(c, s)
    BY <1>3, MayWithin
<1>5. Within(a, r[1])
  <2>1. Within(a, After(c, r[0]))
      BY <1>3, AfterWithin
  <2>2. IsState(a) /\ IsState(After(c, r[0]))
      BY <1>3, AfterIs
  <2> QED BY <1>3, <2>1, <2>2, WithinTrans
<1> HIDE DEF a
<1>6. \A k \in Nat : q[k] = r[k + 1]
    OBVIOUS
<1> HIDE DEF q
<1>7. \A k \in 0..(n - 1) : IsState(q[k])
    BY <1>1, <1>2, <1>6 DEF Path, n
<1>8. ASSUME NEW k \in 1..(n - 1) PROVE May(d[k], q[k - 1]) /\ Within(After(d[k], q[k - 1]), q[k])
  <2>1. k + 1 \in 1..n /\ k \in Nat /\ k - 1 \in Nat /\ (k - 1) + 1 = k /\ (k + 1) - 1 = k
      BY <1>2
  <2>2. q[k - 1] = r[k] /\ q[k] = r[k + 1]
      BY <1>6, <2>1
  <2>3. May(calls[k + 1], r[(k + 1) - 1]) /\ Within(After(calls[k + 1], r[(k + 1) - 1]), r[k + 1])
      BY <1>1, <2>1 DEF Path, n
  <2> QED BY <1>2, <2>1, <2>2, <2>3
<1>9. Within(a, q[0]) /\ Within(q[n - 1], t)
  <2>1. q[0] = r[1] /\ q[n - 1] = r[n]
      BY <1>2, <1>6
  <2> QED BY <1>1, <1>5, <2>1 DEF Path, n
<1>10. Path(q, d, a, t)
    BY <1>2, <1>7, <1>8, <1>9 DEF Path
<1>11. Goes(d, a, t)
    BY <1>10, GoesBy
<1> QED BY <1>4, <1>11 DEF a, c, d

-----------------------------------------------------------------------------
(* What a function adds to the container it is called in.  The mode h says  *)
(* where that is, whether names may come twice there, and whether memory is *)
(* looked at: not yet ("none"), for the last time, or with "more" to come.  *)

Suits(s, h) ==
    /\ s.limit <= SearchDepth
    /\ h.place \in {"below", "inside"} => s.depth > 0
    /\ h.place = "inside" => ~IsRoot(s)
    /\ h.names = "free" => Free(s)
    /\ h.memory = "none" => s.nested = 0
    /\ h.memory = "more" => Room(s) /\ s.nested + s.limit <= SearchDepth
Left(s, keys, h) == IF h.memory = "none" THEN Limited(More(s, keys), SearchDepth) ELSE More(s, keys)
Adds(calls, keys, h) ==
    /\ Sequence(calls)
    /\ \A s : IsState(s) /\ Suits(s, h) /\ Fresh(s, keys) => Goes(calls, s, Left(s, keys, h))
Mode(place, names, memory) == [place |-> place, names |-> names, memory |-> memory]

IsLeft(m, s, keys, h) ==
    /\ IsState(m) /\ m.depth = s.depth /\ m.nested = s.nested /\ m.lenient = s.lenient
    /\ m.limit = IF h.memory = "none" THEN SearchDepth ELSE s.limit
    /\ m.sections = IF IsRoot(s) THEN s.sections \cup keys ELSE s.sections
    /\ \A d \in Nat : /\ m.at[d].by = s.at[d].by /\ m.at[d].kind = s.at[d].kind
                      /\ m.at[d].keys = IF d = s.depth THEN s.at[d].keys \cup keys ELSE s.at[d].keys
LEMMA LeftIs == ASSUME NEW s, NEW keys, NEW h, IsState(s) PROVE IsLeft(Left(s, keys, h), s, keys, h)
<1> DEFINE m == More(s, keys)
<1>1. IsMore(m, s, keys)
    BY MoreIs
<1>2. IsState(m)
    BY <1>1 DEF IsMore
<1>3. IsState(Limited(m, SearchDepth))
    BY <1>2, LimitedIs, ReportWriterAssumption
<1> HIDE DEF m
<1>4. CASE h.memory = "none"
  <2>1. IsLeft(Limited(m, SearchDepth), s, keys, h)
      BY <1>1, <1>3, <1>4 DEF IsLeft, IsMore, Limited
  <2> QED BY <1>4, <2>1 DEF Left, m
<1>5. CASE h.memory # "none"
  <2>1. IsLeft(m, s, keys, h)
      BY <1>1, <1>5 DEF IsLeft, IsMore
  <2> QED BY <1>5, <2>1 DEF Left, m
<1> QED BY <1>4, <1>5
LEMMA TopOfLeft ==
    ASSUME NEW s, NEW m, NEW keys, NEW h, IsState(s), IsLeft(m, s, keys, h)
    PROVE  /\ IsState(m) /\ TopOf(m).by = TopOf(s).by /\ TopOf(m).kind = TopOf(s).kind
           /\ TopOf(m).keys = TopOf(s).keys \cup keys /\ IsRoot(m) = IsRoot(s)
<1>1. s.depth \in Nat /\ m.depth = s.depth
    BY Numbers DEF IsLeft
<1>2. \A d \in Nat : /\ m.at[d].by = s.at[d].by /\ m.at[d].kind = s.at[d].kind
                     /\ m.at[d].keys = IF d = s.depth THEN s.at[d].keys \cup keys ELSE s.at[d].keys
    BY DEF IsLeft
<1>3. IsRoot(m) = IsRoot(s)
    BY <1>1, <1>2 DEF IsRoot
<1>4. IsState(m)
    BY DEF IsLeft
<1> QED BY <1>1, <1>2, <1>3, <1>4 DEF TopOf
LEMMA SuitsLeft ==
    ASSUME NEW s, NEW m, NEW keys, NEW h, IsState(s), IsLeft(m, s, keys, h), Suits(s, h) PROVE Suits(m, h)
<1>1. TopOf(m).by = TopOf(s).by /\ IsRoot(m) = IsRoot(s)
    BY TopOfLeft
<1>2. /\ m.depth = s.depth /\ m.nested = s.nested /\ m.lenient = s.lenient
      /\ m.limit = IF h.memory = "none" THEN SearchDepth ELSE s.limit
    BY DEF IsLeft
<1>3. SearchDepth <= SearchDepth
    BY ReportWriterAssumption
<1>4. m.limit <= SearchDepth
    BY <1>2, <1>3 DEF Suits
<1> QED BY <1>1, <1>2, <1>4 DEF Suits, Free, Room
LEMMA FreshLeft ==
    ASSUME NEW s, NEW m, NEW A, NEW B, NEW h, IsState(s), IsLeft(m, s, A, h), Suits(s, h), Fresh(s, A \cup B),
           A \cap B = {} \/ h.names = "free"
    PROVE  Fresh(m, B)
<1>0. TopOf(m).by = TopOf(s).by /\ TopOf(m).kind = TopOf(s).kind /\ TopOf(m).keys = TopOf(s).keys \cup A
    BY TopOfLeft
<1>1. /\ TopOf(m).by = TopOf(s).by /\ TopOf(m).kind = TopOf(s).kind /\ TopOf(m).keys = TopOf(s).keys \cup A
      /\ m.lenient = s.lenient
    BY <1>0 DEF IsLeft
<1> QED BY <1>1 DEF Fresh, Free, Suits
LEMMA LeftTwice ==
    ASSUME NEW s, NEW A, NEW B, NEW h, IsState(s)
    PROVE  Within(Left(Left(s, A, h), B, h), Left(s, A \cup B, h))
<1> DEFINE m == Left(s, A, h)
           n == Left(m, B, h)
           u == Left(s, A \cup B, h)
<1>1. s.depth \in Nat /\ s.limit \in Int /\ SearchDepth \in Int
    BY Numbers, ReportWriterAssumption
<1>2. IsLeft(m, s, A, h)
    BY LeftIs
<1>3. IsLeft(u, s, A \cup B, h)
    BY LeftIs
<1> HIDE DEF m, u
<1>4. IsRoot(m) = IsRoot(s) /\ IsState(m)
    BY <1>2, TopOfLeft
<1>5. IsLeft(n, m, B, h)
    BY <1>4, LeftIs
<1> HIDE DEF n
<1>6. n.sections = u.sections
    BY <1>2, <1>3, <1>4, <1>5 DEF IsLeft
<1>7. ASSUME NEW d \in 0..n.depth
      PROVE  n.at[d].by = u.at[d].by /\ n.at[d].kind = u.at[d].kind /\ n.at[d].keys \subseteq u.at[d].keys
  <2>1. d \in Nat
      BY <1>1, <1>2, <1>5 DEF IsLeft
  <2>2. /\ m.at[d].by = s.at[d].by /\ m.at[d].kind = s.at[d].kind
        /\ m.at[d].keys = IF d = s.depth THEN s.at[d].keys \cup A ELSE s.at[d].keys
      BY <1>2, <2>1 DEF IsLeft
  <2>3. /\ u.at[d].by = s.at[d].by /\ u.at[d].kind = s.at[d].kind
        /\ u.at[d].keys = IF d = s.depth THEN s.at[d].keys \cup (A \cup B) ELSE s.at[d].keys
      BY <1>3, <2>1 DEF IsLeft
  <2>4. /\ n.at[d].by = m.at[d].by /\ n.at[d].kind = m.at[d].kind
        /\ n.at[d].keys = IF d = s.depth THEN m.at[d].keys \cup B ELSE m.at[d].keys
      BY <1>2, <1>5, <2>1 DEF IsLeft
  <2> QED BY <2>2, <2>3, <2>4
<1>8. n.limit = u.limit /\ u.limit \in Int
    BY <1>1, <1>2, <1>3, <1>5 DEF IsLeft
<1>9. IsState(n) /\ n.depth = u.depth /\ n.nested = u.nested /\ n.limit <= u.limit /\ u.lenient \subseteq n.lenient
    BY <1>2, <1>3, <1>5, <1>8 DEF IsLeft
<1>10. Within(n, u)
    BY <1>6, <1>7, <1>9, WithinBy
<1> QED BY <1>10 DEF m, n, u
LEMMA LeftWithin ==
    ASSUME NEW s, NEW A, NEW B, NEW h, IsState(s), s.limit <= SearchDepth, A \subseteq B, A = B \/ ~IsRoot(s)
    PROVE  /\ Within(Left(s, A, h), Left(s, B, h)) /\ Within(More(s, A), Left(s, B, h))
<1>1. Within(More(s, A), More(s, B))
    BY MoreWithin, WithinRefl
<1>2. IsMore(More(s, A), s, A) /\ IsMore(More(s, B), s, B)
    BY MoreIs
<1>3. IsState(More(s, A)) /\ IsState(More(s, B)) /\ More(s, A).limit = s.limit
    BY <1>2 DEF IsMore
<1>4. Within(Limited(More(s, A), SearchDepth), Limited(More(s, B), SearchDepth))
    BY <1>1, <1>3, LimitedIs, ReportWriterAssumption
<1>5. Within(More(s, A), Limited(More(s, B), SearchDepth))
    BY <1>1, <1>3 DEF Within, Limited
<1> QED BY <1>1, <1>4, <1>5 DEF Left
LEMMA StaysWithin ==
    ASSUME NEW s, NEW keys, NEW h, IsState(s), s.limit <= SearchDepth, ~IsRoot(s)
    PROVE  Within(s, Left(s, keys, h))
<1> DEFINE m == Left(s, keys, h)
<1>1. IsLeft(m, s, keys, h)
    BY LeftIs
<1>2. s.depth \in Nat /\ s.limit \in Int /\ SearchDepth \in Int
    BY Numbers, ReportWriterAssumption
<1> HIDE DEF m
<1>3. ASSUME NEW d \in 0..s.depth
      PROVE  s.at[d].by = m.at[d].by /\ s.at[d].kind = m.at[d].kind /\ s.at[d].keys \subseteq m.at[d].keys
  <2>1. d \in Nat
      BY <1>2
  <2> QED BY <1>1, <2>1 DEF IsLeft
<1>4. s.depth = m.depth /\ s.nested = m.nested /\ s.sections = m.sections /\ s.limit <= m.limit /\ m.lenient \subseteq s.lenient
    BY <1>1, <1>2 DEF IsLeft
<1>5. Within(s, m)
    BY <1>3, <1>4, WithinBy
<1> QED BY <1>5 DEF m

LEMMA StatesAre ==
    ASSUME NEW s, NEW keys, NEW h, NEW call, IsState(s) PROVE IsState(Left(s, keys, h)) /\ IsState(After(call, s))
<1>1. IsLeft(Left(s, keys, h), s, keys, h)
    BY LeftIs
<1>2. IsState(Left(s, keys, h))
    BY <1>1 DEF IsLeft
<1> QED BY <1>2, AfterIs
LEMMA AddsBy ==
    ASSUME NEW calls, Sequence(calls), NEW keys, NEW h,
           \A s : IsState(s) /\ Suits(s, h) /\ Fresh(s, keys) => Goes(calls, s, Left(s, keys, h))
    PROVE  Adds(calls, keys, h)
BY DEF Adds
LEMMA AddsNone == ASSUME NEW keys, NEW h, h.place = "inside" PROVE Adds(<<>>, keys, h)
<1>1. ASSUME NEW s, IsState(s), Suits(s, h) PROVE Goes(<<>>, s, Left(s, keys, h))
  <2>1. Within(s, Left(s, keys, h))
      BY <1>1, StaysWithin DEF Suits
  <2> QED BY <1>1, <2>1, GoesNone
<1> QED BY <1>1, Lists, AddsBy
LEMMA AddsMore ==
    ASSUME NEW calls, NEW A, NEW B, NEW h, Adds(calls, A, h), A \subseteq B, h.place = "inside"
    PROVE  Adds(calls, B, h)
<1>1. Sequence(calls)
    BY DEF Adds
<1>2. ASSUME NEW s, IsState(s), Suits(s, h), Fresh(s, B) PROVE Goes(calls, s, Left(s, B, h))
  <2>1. Fresh(s, A)
      BY <1>2 DEF Fresh
  <2>2. Goes(calls, s, Left(s, A, h))
      BY <1>2, <2>1 DEF Adds
  <2>3. Within(Left(s, A, h), Left(s, B, h)) /\ Within(s, s)
      BY <1>2, LeftWithin, WithinRefl DEF Suits
  <2>4. IsState(Left(s, A, h)) /\ IsState(Left(s, B, h))
      BY <1>2, LeftIs DEF IsLeft
  <2> QED BY <1>1, <1>2, <2>2, <2>3, <2>4, GoesFrom
<1> QED BY <1>1, <1>2, AddsBy
LEMMA AddsBoth ==
    ASSUME NEW c, NEW d, NEW A, NEW B, NEW h, Adds(c, A, h), Adds(d, B, h), A \cap B = {} \/ h.names = "free"
    PROVE  Adds(Join(c, d), A \cup B, h)
<1>1. Sequence(c) /\ Sequence(d) /\ Sequence(Join(c, d))
    BY Joined DEF Adds
<1>2. ASSUME NEW s, IsState(s), Suits(s, h), Fresh(s, A \cup B) PROVE Goes(Join(c, d), s, Left(s, A \cup B, h))
  <2> DEFINE m == Left(s, A, h)
             n == Left(m, B, h)
             u == Left(s, A \cup B, h)
  <2>1. IsLeft(m, s, A, h) /\ IsState(u)
      BY <1>2, LeftIs, StatesAre
  <2>2. IsState(m)
      BY <2>1 DEF IsLeft
  <2>3. IsState(n)
      BY <2>2, StatesAre
  <2>4. Within(n, u) /\ Within(m, m)
      BY <1>2, <2>2, LeftTwice, WithinRefl
  <2>5. Fresh(s, A)
      BY <1>2 DEF Fresh
  <2>6. Goes(c, s, m)
      BY <1>2, <2>5 DEF Adds
  <2> HIDE DEF m
  <2>7. Fresh(m, B) /\ Suits(m, h)
      BY <1>2, <2>1, FreshLeft, SuitsLeft
  <2>8. Goes(d, m, n)
      BY <2>2, <2>7 DEF Adds
  <2> HIDE DEF n, u
  <2>9. Goes(d, m, u)
      BY <1>1, <2>1, <2>2, <2>3, <2>4, <2>8, GoesFrom
  <2>10. Goes(Join(c, d), s, u)
      BY <1>1, <1>2, <2>1, <2>2, <2>6, <2>9, GoesBoth
  <2> QED BY <2>10 DEF u
<1> QED BY <1>1, <1>2, AddsBy
Takes(call, keys, h) ==
    \A s : IsState(s) /\ Suits(s, h) /\ Fresh(s, keys) => May(call, s) /\ Within(After(call, s), Left(s, keys, h))
LEMMA AddsOne == ASSUME NEW call, NEW keys, NEW h, Takes(call, keys, h) PROVE Adds(<<call>>, keys, h)
<1>1. ASSUME NEW s, IsState(s), Suits(s, h), Fresh(s, keys) PROVE Goes(<<call>>, s, Left(s, keys, h))
  <2>1. May(call, s) /\ Within(After(call, s), Left(s, keys, h))
      BY <1>1 DEF Takes
  <2>2. Goes(<<call>>, s, After(call, s)) /\ Within(s, s)
      BY <1>1, <2>1, GoesOne, WithinRefl
  <2>3. IsState(After(call, s)) /\ IsState(Left(s, keys, h))
      BY <1>1, StatesAre
  <2> QED BY <1>1, <2>1, <2>2, <2>3, Lists, GoesFrom
<1> QED BY <1>1, Lists, AddsBy
LEMMA AddsElements == \A keys, h : Adds(<<Add(keys)>>, keys, h)
<1> SUFFICES ASSUME NEW keys, NEW h PROVE Adds(<<Add(keys)>>, keys, h)
    OBVIOUS
<1> DEFINE call == Add(keys)
<1>1. call.op = "add" /\ call.keys = keys
    BY DEF Add
<1> HIDE DEF call
<1>2. ASSUME NEW s, IsState(s), Suits(s, h), Fresh(s, keys) PROVE May(call, s) /\ Within(After(call, s), Left(s, keys, h))
  <2>1. May(call, s)
      BY <1>1, <1>2 DEF May, Plain, OfFiles
  <2>2. After(call, s) = More(s, keys)
      BY <1>1, AfterOf
  <2>3. Within(More(s, keys), Left(s, keys, h))
      BY <1>2, LeftWithin DEF Suits
  <2> QED BY <2>1, <2>2, <2>3
<1>3. Takes(call, keys, h)
    BY <1>2 DEF Takes
<1>4. Adds(<<call>>, keys, h)
    BY <1>3, AddsOne
<1> QED BY <1>4 DEF call
LEMMA TakesCall ==
    ASSUME NEW op, NEW key, NEW h, h.memory = "none",
           \/ op = "debug" /\ key = "debug"
           \/ h.place \in {"below", "inside"} /\ op \in (Plain \ {"debug", "frame", "image", "stack"}) \cup {"search"}
           \/ h.place = "inside" /\ op = "stack"
           \/ h.place = "inside" /\ op \in {"frame", "image"} /\ key = NoKey
    PROVE  Takes(CallTo(op, key), {key}, h)
<1> DEFINE call == CallTo(op, key)
<1>1. call.op = op /\ call.key = key
    BY DEF CallTo
<1> HIDE DEF call
<1>2. ASSUME NEW s, IsState(s), Suits(s, h), Fresh(s, {key}) PROVE May(call, s) /\ Within(After(call, s), Left(s, {key}, h))
  <2>1. op \in Plain \cup {"search"}
      BY DEF Plain
  <2>2. May(call, s)
      BY <1>1, <1>2, <2>1 DEF May, Plain, OfFiles, Suits
  <2>3. After(call, s) = Left(s, {key}, h)
      BY <1>1, <2>1, AfterOf DEF Left
  <2>4. Within(Left(s, {key}, h), Left(s, {key}, h))
      BY <1>2, LeftWithin DEF Suits
  <2> QED BY <2>2, <2>3, <2>4
<1>3. Takes(call, {key}, h)
    BY <1>2 DEF Takes
<1> QED BY <1>3 DEF call
LEMMA TakesLook ==
    ASSUME NEW op \in {"memory", "ivars"}, NEW key, NEW h, h.memory = "more", h.place = "inside"
    PROVE  Takes(CallTo(op, key), {key}, h)
<1> DEFINE call == CallTo(op, key)
<1>1. call.op = op /\ call.key = key
    BY DEF CallTo
<1> HIDE DEF call
<1>2. ASSUME NEW s, IsState(s), Suits(s, h), Fresh(s, {key}) PROVE May(call, s) /\ Within(After(call, s), Left(s, {key}, h))
  <2>1. May(call, s)
      BY <1>1, <1>2 DEF May, Plain, OfFiles, Suits
  <2>2. After(call, s) = More(s, {key})
      BY <1>1, AfterOf
  <2>3. Within(More(s, {key}), Left(s, {key}, h))
      BY <1>2, LeftWithin DEF Suits
  <2> QED BY <2>1, <2>2, <2>3
<1>3. Takes(call, {key}, h)
    BY <1>2 DEF Takes
<1> QED BY <1>3 DEF call

LEMMA PoppedLimited ==
    ASSUME NEW s, NEW most \in Int, IsState(s) PROVE Within(Popped(Limited(s, most)), Limited(Popped(s), most))
<1> DEFINE p == Popped(Limited(s, most))
           q == Limited(Popped(s), most)
<1>1. IsState(Limited(s, most)) /\ IsState(Popped(s))
    BY LimitedIs, PoppedIs DEF IsPopped
<1>2. IsState(q) /\ Within(q, q)
    BY <1>1, LimitedIs, WithinRefl
<1>3. p = q
    BY DEF Popped, Limited, TopOf
<1> QED BY <1>2, <1>3
\* A container closes what it began, whatever is in it.
LEMMA ContainerGoes ==
    ASSUME NEW call, call.op \in Begins, NEW calls, NEW keys, NEW h, Adds(calls, keys, h),
           call.op = "beginArray" \/ NoKey \notin keys,
           NEW s, IsState(s), May(call, s), Suits(Pushed(s, call.key, call.op), h), call.key # "root" \/ s.depth > 0,
           s.limit <= SearchDepth
    PROVE  /\ Goes(Join(Join(<<call>>, calls), <<End(call.key)>>), s, Left(s, {call.key}, h))
           /\ Sequence(Join(Join(<<call>>, calls), <<End(call.key)>>))
<1> DEFINE key == call.key
           p == Pushed(s, key, call.op)
           q == Left(p, keys, h)
           r == Popped(q)
           m == More(s, {key})
           u == Left(s, {key}, h)
           e == End(key)
           b == <<call>>
           x == <<e>>
<1>1. Sequence(b) /\ Sequence(x) /\ Sequence(calls) /\ Sequence(Join(b, calls)) /\ Sequence(Join(Join(b, calls), x))
    BY Lists, Joined DEF Adds
<1>2. IsPushed(p, s, m, key, call.op)
    BY PushedIs
<1>3. IsState(p) /\ s.depth \in Nat
    BY <1>2, Numbers DEF IsPushed
<1>4. Goes(b, s, p)
  <2>1. After(call, s) = p
      BY AfterOf
  <2>2. Goes(<<call>>, s, After(call, s))
      BY GoesOne
  <2> QED BY <2>1, <2>2
<1>5. Fresh(p, keys)
  <2>1. TopOf(p).kind = call.op /\ TopOf(p).keys = {}
      BY <1>2 DEF IsPushed, TopOf
  <2> QED BY <2>1 DEF Fresh
<1>6. Goes(calls, p, q)
    BY <1>3, <1>5 DEF Adds
<1>7. IsLeft(q, p, keys, h) /\ IsState(u)
    BY <1>3, LeftIs, StatesAre
<1>8. IsState(q) /\ TopOf(q).by = key /\ q.depth > 0
  <2>1. IsState(q) /\ TopOf(q).by = TopOf(p).by
      BY <1>3, <1>7, TopOfLeft
  <2>2. TopOf(p).by = key /\ p.depth = s.depth + 1 /\ q.depth = p.depth
      BY <1>2, <1>7 DEF IsPushed, TopOf, IsLeft
  <2> QED BY <1>3, <2>1, <2>2
<1>9. Goes(x, q, r)
  <2>1. e.op = "end" /\ e.key = key
      BY DEF End
  <2> HIDE DEF e, q
  <2>2. May(e, q)
      BY <1>8, <2>1 DEF May, Plain, OfFiles
  <2>3. After(e, q) = r
      BY <2>1, AfterOf
  <2>4. Goes(<<e>>, q, After(e, q))
      BY <1>8, <2>2, GoesOne
  <2> QED BY <2>3, <2>4
<1>10. Within(Popped(More(p, keys)), m)
    BY PushedPopped
<1>11. IsState(m) /\ IsState(More(p, keys)) /\ IsState(Popped(More(p, keys))) /\ IsState(r)
  <2>1. IsState(m) /\ IsState(More(p, keys))
      BY <1>3, MoreIs DEF IsMore
  <2>2. IsState(r)
      BY <1>8, PoppedIs DEF IsPopped
  <2> QED BY <2>1, <2>2, PoppedIs DEF IsPopped
<1>12. Within(r, u)
  <2>1. CASE h.memory # "none"
      BY <1>10, <2>1 DEF Left
  <2>2. CASE h.memory = "none"
    <3>1. r = Popped(Limited(More(p, keys), SearchDepth)) /\ u = Limited(m, SearchDepth)
        BY <2>2 DEF Left
    <3>2. SearchDepth \in Int
        BY ReportWriterAssumption
    <3>3. Within(Popped(Limited(More(p, keys), SearchDepth)), Limited(Popped(More(p, keys)), SearchDepth))
        BY <1>11, <3>2, PoppedLimited
    <3>4. Within(Limited(Popped(More(p, keys)), SearchDepth), Limited(m, SearchDepth))
        BY <1>10, <1>11, <3>2, LimitedIs
    <3>5. IsState(Limited(Popped(More(p, keys)), SearchDepth))
        BY <1>11, <3>2, LimitedIs
    <3> QED BY <1>7, <1>11, <3>1, <3>3, <3>4, <3>5, WithinTrans
  <2> QED BY <2>1, <2>2
<1> HIDE DEF p, q, r, m, u, b, x, e
<1>13. Goes(Join(b, calls), s, q)
    BY <1>1, <1>3, <1>4, <1>6, <1>8, GoesBoth
<1>14. Goes(Join(Join(b, calls), x), s, r)
    BY <1>1, <1>8, <1>9, <1>11, <1>13, GoesBoth
<1>15. Within(s, s)
    BY WithinRefl
<1>16. Goes(Join(Join(b, calls), x), s, u)
    BY <1>1, <1>7, <1>11, <1>12, <1>14, <1>15, GoesFrom
<1> QED BY <1>1, <1>16 DEF b, x, e, u

\* A container in one that is no memory, and under what mode its elements are written.
Inside(names) == Mode("inside", names, "none")
LEMMA ContainerAdds ==
    ASSUME NEW call, call.op \in {"begin", "beginArray"}, NEW calls, NEW keys, NEW names,
           Adds(calls, keys, Inside(names)), names = "free" => call.key = "user_reported",
           call.op = "beginArray" \/ NoKey \notin keys,
           NEW h, h.memory = "none", call.key # "root" \/ h.place \in {"below", "inside"}
    PROVE  Adds(Join(Join(<<call>>, calls), <<End(call.key)>>), {call.key}, h)
<1> DEFINE body == Join(Join(<<call>>, calls), <<End(call.key)>>)
           i == Inside(names)
<1>0. call.op \in Begins /\ call.op # "beginMemory"
    BY DEF Begins
<1>1. Sequence(body)
  <2>1. Sequence(<<call>>) /\ Sequence(calls) /\ Sequence(<<End(call.key)>>)
      BY Lists DEF Adds
  <2> QED BY <2>1, Joined
<1>2. i.place = "inside" /\ i.names = names /\ i.memory = "none"
    BY DEF Inside, Mode
<1>3. ASSUME NEW s, IsState(s), Suits(s, h), Fresh(s, {call.key}) PROVE Goes(body, s, Left(s, {call.key}, h))
  <2>1. May(call, s)
      BY <1>0, <1>3 DEF May, Plain, OfFiles
  <2>2. s.limit <= SearchDepth /\ s.nested = 0 /\ (call.key # "root" \/ s.depth > 0)
      BY <1>3 DEF Suits
  <2> DEFINE p == Pushed(s, call.key, call.op)
             m == More(s, {call.key})
  <2>3. IsPushed(p, s, m, call.key, call.op) /\ s.depth \in Nat
      BY <1>3, PushedIs, Numbers
  <2> HIDE DEF p, m
  <2>4. Suits(p, i)
    <3>1. p.limit <= SearchDepth /\ p.depth > 0 /\ p.nested = 0
        BY <1>0, <2>2, <2>3 DEF IsPushed, One
    <3>2. ~IsRoot(p)
        BY <2>2, <2>3 DEF IsPushed, IsRoot
    <3>3. names = "free" => TopOf(p).by = "user_reported"
        BY <2>3 DEF IsPushed, TopOf
    <3> HIDE DEF i
    <3> QED BY <1>2, <3>1, <3>2, <3>3 DEF Suits, Free
  <2>5. Goes(body, s, Left(s, {call.key}, i))
    <3> HIDE DEF i
    <3> QED BY <1>0, <1>3, <2>1, <2>2, <2>4, ContainerGoes DEF p, i
  <2>6. Left(s, {call.key}, i) = Left(s, {call.key}, h)
      BY <1>2 DEF Left
  <2> QED BY <2>5, <2>6
<1> HIDE DEF body
<1>4. Adds(body, {call.key}, h)
    BY <1>1, <1>3, AddsBy
<1> QED BY <1>4 DEF body
LEMMA ObjectAdds ==
    ASSUME NEW key, NEW calls, NEW keys, NEW names, Adds(calls, keys, Inside(names)), NoKey \notin keys,
           names = "free" => key = "user_reported",
           NEW h, h.memory = "none", key # "root" \/ h.place \in {"below", "inside"}
    PROVE  Adds(Object(key, calls), {key}, h)
<1> DEFINE call == Begin(key)
<1>1. call.op = "begin" /\ call.key = key
    BY DEF Begin
<1>2. Object(key, calls) = Join(Join(<<call>>, calls), <<End(call.key)>>)
    BY <1>1 DEF Object, Join
<1> HIDE DEF call
<1>3. Adds(Join(Join(<<call>>, calls), <<End(call.key)>>), {call.key}, h)
    BY <1>1, ContainerAdds
<1> QED BY <1>1, <1>2, <1>3
LEMMA ArrayAdds ==
    ASSUME NEW key, NEW calls, NEW keys, Adds(calls, keys, Inside("own")),
           NEW h, h.memory = "none", key # "root" \/ h.place \in {"below", "inside"}
    PROVE  Adds(Array(key, calls), {key}, h)
<1> DEFINE call == BeginArray(key)
<1>1. call.op = "beginArray" /\ call.key = key
    BY DEF BeginArray
<1>2. Array(key, calls) = Join(Join(<<call>>, calls), <<End(call.key)>>)
    BY <1>1 DEF Array, Join
<1> HIDE DEF call
<1>3. Adds(Join(Join(<<call>>, calls), <<End(call.key)>>), {call.key}, h)
    BY <1>1, ContainerAdds
<1> QED BY <1>1, <1>2, <1>3
LEMMA Two == \A c, d : <<c, d>> = Join(<<c>>, <<d>>)
<1> SUFFICES ASSUME NEW c, NEW d PROVE <<c, d>> = Join(<<c>>, <<d>>)
    OBVIOUS
<1>1. <<c, d>> \o <<>> = <<c>> \o (<<d>> \o <<>>)
    BY Lists, FrontTwo
<1>2. <<d>> \o <<>> = <<d>> /\ <<c, d>> \o <<>> = <<c, d>>
    OBVIOUS
<1> QED BY <1>1, <1>2 DEF Join
LEMMA AddsTwo ==
    ASSUME NEW c, NEW d, NEW A, NEW B, NEW h, Adds(<<c>>, A, h), Adds(<<d>>, B, h), A \cap B = {} \/ h.names = "free"
    PROVE  Adds(<<c, d>>, A \cup B, h)
<1>1. Adds(Join(<<c>>, <<d>>), A \cup B, h)
    BY AddsBoth
<1> QED BY <1>1, Two
\* Calls to a function, each under a name of its own, or in an array.
NamesOf(f, n) == {f[i] : i \in 1..n}
EachTaken(calls, f, n, h) ==
    /\ n \in Nat /\ calls = [i \in 1..n |-> calls[i]] /\ h.place = "inside"
    /\ \A i \in 1..n : Takes(calls[i], {f[i]}, h)
    /\ \/ \A i, j \in 1..n : f[i] = f[j] => i = j
       \/ \A i \in 1..n : f[i] = NoKey
LEMMA AddsEach ==
    ASSUME NEW n, NEW calls, NEW f, NEW h, EachTaken(calls, f, n, h) PROVE Adds(calls, NamesOf(f, n), h)
<1> DEFINE K(k) == NamesOf(f, k)
           all == K(n)
<1>0. /\ n \in Nat /\ calls = [i \in 1..n |-> calls[i]] /\ h.place = "inside"
      /\ \A i \in 1..n : Takes(calls[i], {f[i]}, h)
      /\ \/ \A i, j \in 1..n : f[i] = f[j] => i = j
         \/ \A i \in 1..n : f[i] = NoKey
    BY DEF EachTaken
<1>1. Len(calls) = n /\ Sequence(calls)
  <2> DEFINE S == {calls[i] : i \in 1..n}
  <2>1. calls \in [1..n -> S]
    <3>1. \A i \in 1..n : calls[i] \in S
        OBVIOUS
    <3> HIDE DEF S
    <3> QED BY <1>0, <3>1
  <2> HIDE DEF S
  <2>2. calls \in Seq(S) /\ Len(calls) = n
      BY <1>0, <2>1
  <2> QED BY <2>2, SequenceBy
<1>2. \A k \in 1..n : K(k) = K(k - 1) \cup {f[k]} /\ K(k) \subseteq all
  <2> SUFFICES ASSUME NEW k \in 1..n PROVE K(k) = K(k - 1) \cup {f[k]} /\ K(k) \subseteq all
      OBVIOUS
  <2>1. 1..k = (1..(k - 1)) \cup {k} /\ 1..k \subseteq 1..n
      BY <1>0
  <2> QED BY <2>1 DEF NamesOf
<1>3. K(0) = {} /\ (n = 0 => all = {})
    BY DEF NamesOf
<1>4. ASSUME NEW s, IsState(s), Suits(s, h), Fresh(s, all) PROVE Goes(calls, s, Left(s, all, h))
  <2> DEFINE r == [k \in Nat |-> IF k = 0 THEN s ELSE Left(s, K(k), h)]
  <2>1. r[0] = s /\ \A k \in Nat : k # 0 => r[k] = Left(s, K(k), h)
      OBVIOUS
  <2> HIDE DEF r
  <2>2. \A keys : IsState(Left(s, keys, h))
      BY <1>4, StatesAre
  <2>3. ASSUME NEW k \in 0..n PROVE IsState(r[k])
    <3>1. k = 0 \/ r[k] = Left(s, K(k), h)
        BY <2>1, <1>0
    <3> HIDE DEF K
    <3> QED BY <1>4, <2>1, <2>2, <3>1
  <2>4. ASSUME NEW k \in 1..n PROVE May(calls[k], r[k - 1]) /\ Within(After(calls[k], r[k - 1]), r[k])
    <3> DEFINE m == r[k - 1]
               c == calls[k]
    <3>1. Takes(c, {f[k]}, h)
        BY <1>0
    <3>2. Fresh(s, K(k))
        BY <1>2, <1>4 DEF Fresh
    <3>3. k - 1 \in Nat /\ k - 1 \in 0..n /\ k \in Nat /\ k # 0
        BY <1>0
    <3>4. r[k] = Left(s, K(k), h)
        BY <2>1, <3>3
    <3>5. CASE k = 1
      <4>1. m = s /\ K(k) = {f[k]}
          BY <1>2, <1>3, <2>1, <3>5
      <4>2. May(c, s) /\ Within(After(c, s), Left(s, {f[k]}, h))
          BY <1>4, <3>1, <3>2, <4>1 DEF Takes
      <4> QED BY <3>4, <4>1, <4>2
    <3>6. CASE k # 1
      <4> DEFINE A == K(k - 1)
                 B == {f[k]}
                 q == Left(s, A, h)
      <4>1. m = q /\ K(k) = A \cup B
        <5>1. K(k) = A \cup B
            BY <1>2
        <5>2. k - 1 # 0
            BY <3>3, <3>6
        <5> HIDE DEF K
        <5> QED BY <2>1, <3>3, <5>1, <5>2
      <4>2. IsLeft(q, s, A, h)
          BY <1>4, LeftIs
      <4>3. IsState(q) /\ Suits(q, h)
          BY <1>4, <2>2, <4>2, SuitsLeft
      <4>4. Fresh(q, B)
        <5>1. CASE \A i, j \in 1..n : f[i] = f[j] => i = j
          <6>1. A \cap B = {}
            <7> SUFFICES ASSUME NEW i \in 1..(k - 1), f[i] = f[k] PROVE FALSE
                BY DEF NamesOf
            <7>1. i \in 1..n /\ i # k
                BY <1>0
            <7> QED BY <5>1, <7>1
          <6> HIDE DEF q, A, B, K
          <6> QED BY <1>4, <3>2, <4>1, <4>2, <6>1, FreshLeft
        <5>2. CASE \A i \in 1..n : f[i] = NoKey
          <6>1. NoKey \in K(k)
              BY <1>2, <5>2
          <6>2. TopOf(s).kind = "beginArray"
              BY <3>2, <6>1 DEF Fresh
          <6> HIDE DEF q, A, B, K
          <6>3. TopOf(q).kind = TopOf(s).kind
              BY <1>4, <4>2, TopOfLeft
          <6> QED BY <6>2, <6>3 DEF Fresh
        <5> QED BY <1>0, <5>1, <5>2
      <4>5. Within(Left(q, B, h), Left(s, A \cup B, h))
          BY <1>4, LeftTwice
      <4> HIDE DEF q, A, B, K
      <4>6. May(c, q) /\ Within(After(c, q), Left(q, B, h))
          BY <3>1, <4>3, <4>4 DEF Takes, B
      <4>7. IsState(After(c, q)) /\ IsState(Left(q, B, h)) /\ IsState(Left(s, A \cup B, h))
          BY <2>2, <4>3, StatesAre
      <4>8. Within(After(c, q), Left(s, A \cup B, h))
          BY <4>5, <4>6, <4>7, WithinTrans
      <4> QED BY <3>4, <4>1, <4>6, <4>8
    <3> QED BY <3>5, <3>6
  <2>5. Within(s, r[0])
      BY <1>4, <2>1, WithinRefl
  <2>6. Within(r[n], Left(s, all, h))
    <3>1. CASE n = 0
      <4>1. Within(s, Left(s, all, h))
          BY <1>0, <1>4, StaysWithin DEF Suits
      <4> QED BY <2>1, <3>1, <4>1
    <3>2. CASE n # 0
      <4>1. r[n] = Left(s, all, h)
          BY <1>0, <2>1, <3>2
      <4> QED BY <2>2, <4>1, WithinRefl
    <3> QED BY <3>1, <3>2
  <2> HIDE DEF all, K
  <2>7. Path(r, calls, s, Left(s, all, h))
      BY <1>1, <2>3, <2>4, <2>5, <2>6 DEF Path
  <2> QED BY <2>7, GoesBy
<1> HIDE DEF all, K
<1>5. Adds(calls, all, h)
    BY <1>1, <1>4, AddsBy
<1> QED BY <1>5 DEF all, K
LEMMA SeveralAdd ==
    ASSUME NEW call, NEW calls \in Several(call), NEW h, h.place = "inside", Takes(call, {NoKey}, h)
    PROVE  \E keys : Adds(calls, keys, h)
<1>1. PICK n \in 0..MaxElements : calls = Times(call, n)
    BY DEF Several
<1>2. n \in Nat
    BY <1>1, ReportWriterAssumption
<1> DEFINE f == [i \in 1..n |-> NoKey]
<1>3. calls = [i \in 1..n |-> call]
    BY <1>1 DEF Times
<1>4. /\ calls = [i \in 1..n |-> calls[i]]
      /\ \A i \in 1..n : f[i] = NoKey /\ Takes(calls[i], {f[i]}, h)
    BY <1>3
<1> HIDE DEF f
<1>5. EachTaken(calls, f, n, h)
    BY <1>2, <1>4 DEF EachTaken
<1>6. Adds(calls, NamesOf(f, n), h)
    BY <1>5, AddsEach
<1> QED BY <1>6
LEMMA SetToSeqIs ==
    ASSUME NEW S, IsFiniteSet(S)
    PROVE  /\ Cardinality(S) \in Nat
           /\ \A i \in 1..Cardinality(S) : SetToSeq(S)[i] \in S
           /\ \A i, j \in 1..Cardinality(S) : SetToSeq(S)[i] = SetToSeq(S)[j] => i = j
<1>1. Cardinality(S) \in Nat /\ ExistsBijection(1..Cardinality(S), S)
    BY FS_CardinalityType
<1>2. \E f \in [1..Cardinality(S) -> S] : IsInjective(f)
    BY <1>1 DEF ExistsBijection, Bijection, Injection
<1>3. SetToSeq(S) \in [1..Cardinality(S) -> S] /\ IsInjective(SetToSeq(S))
    BY <1>2 DEF SetToSeq
<1> QED BY <1>1, <1>3 DEF IsInjective
LEMMA EachOfAdds ==
    ASSUME NEW S, IsFiniteSet(S), NEW op, NEW h, h.place = "inside", \A key \in S : Takes(CallTo(op, key), {key}, h)
    PROVE  Adds([i \in 1..Cardinality(S) |-> CallTo(op, SetToSeq(S)[i])], S, h)
<1> DEFINE n == Cardinality(S)
           f == SetToSeq(S)
           calls == [i \in 1..n |-> CallTo(op, f[i])]
<1>1. n \in Nat /\ (\A i \in 1..n : f[i] \in S) /\ \A i, j \in 1..n : f[i] = f[j] => i = j
    BY SetToSeqIs
<1>2. calls = [i \in 1..n |-> calls[i]] /\ \A i \in 1..n : calls[i] = CallTo(op, f[i])
    OBVIOUS
<1> HIDE DEF n, f, calls
<1>3. \A i \in 1..n : Takes(calls[i], {f[i]}, h)
    BY <1>1, <1>2
<1>4. EachTaken(calls, f, n, h)
    BY <1>1, <1>2, <1>3 DEF EachTaken
<1>5. Adds(calls, NamesOf(f, n), h) /\ NamesOf(f, n) \subseteq S
    BY <1>1, <1>4, AddsEach DEF NamesOf
<1>6. Adds(calls, S, h)
    BY <1>5, AddsMore
<1> QED BY <1>6 DEF n, f, calls

-----------------------------------------------------------------------------
(* The functions: each adds what it was called for, and nothing else        *)

Below(h) == h.memory = "none" /\ h.place \in {"below", "inside"}
LEMMA InsideIs ==
    \A names : /\ Below(Inside(names)) /\ Inside(names).place = "inside" /\ Inside(names).memory = "none"
               /\ Inside(names).names = names
BY DEF Below, Inside, Mode
LEMMA AddsSome == ASSUME NEW keys, NEW call \in MayAdd(keys), NEW h, h.place = "inside" PROVE Adds(<<call>>, keys, h)
<1>1. PICK chosen \in SUBSET keys : call = Add(chosen)
    BY DEF MayAdd
<1>2. Adds(<<Add(chosen)>>, chosen, h)
    BY AddsElements
<1> QED BY <1>1, <1>2, AddsMore
LEMMA AddsAndSome ==
    ASSUME NEW A, NEW B, A \cap B = {}, NEW call \in MayAdd(B), NEW h, h.place = "inside"
    PROVE  Adds(<<Add(A), call>>, A \cup B, h)
<1>1. Adds(<<Add(A)>>, A, h) /\ Adds(<<call>>, B, h)
    BY AddsElements, AddsSome
<1> QED BY <1>1, AddsTwo
LEMMA CallAdds ==
    ASSUME NEW op \in (Plain \ {"debug", "frame", "image", "stack"}) \cup {"search"}, NEW key, NEW h, Below(h)
    PROVE  Adds(<<CallTo(op, key)>>, {key}, h)
<1>1. Takes(CallTo(op, key), {key}, h)
    BY TakesCall DEF Below
<1> QED BY <1>1, AddsOne
LEMMA ElementsAdd ==
    ASSUME NEW key, NEW keys, NoKey \notin keys, NEW h, Below(h) PROVE Adds(Object(key, <<Add(keys)>>), {key}, h)
<1>1. Adds(<<Add(keys)>>, keys, Inside("own"))
    BY AddsElements
<1> QED BY <1>1, ObjectAdds DEF Below
LEMMA NothingAdds == ASSUME NEW key, NEW h, Below(h) PROVE Adds(Object(key, <<>>), {key}, h)
<1>1. Adds(<<>>, {}, Inside("own"))
    BY InsideIs, AddsNone
<1> QED BY <1>1, ObjectAdds DEF Below
LEMMA CallsAdd ==
    ASSUME NEW key, NEW op, NEW calls \in Several(CallTo(op, NoKey)), NEW h, Below(h),
           op \in Plain \ {"debug", "stack"}
    PROVE  Adds(Array(key, calls), {key}, h)
<1>1. Takes(CallTo(op, NoKey), {NoKey}, Inside("own"))
    BY InsideIs, TakesCall DEF Below
<1>2. \E keys : Adds(calls, keys, Inside("own"))
    BY <1>1, InsideIs, SeveralAdd
<1> QED BY <1>2, ArrayAdds DEF Below

LEMMA InfoAdds == ASSUME NEW key, NEW calls \in ReportInfo(key), NEW h, Below(h) PROVE Adds(calls, {key}, h)
<1> DEFINE keys == {"version", "id", "process_name", "timestamp", "type"}
<1>1. calls = Object(key, <<Add(keys)>>) /\ NoKey \notin keys
    BY DEF ReportInfo, NoKey
<1> HIDE DEF keys
<1> QED BY <1>1, ElementsAdd
LEMMA ImagesAdd == ASSUME NEW key, NEW calls \in BinaryImages(key), NEW h, Below(h) PROVE Adds(calls, {key}, h)
<1>1. PICK images \in Several(CallTo("image", NoKey)) : calls = Array(key, images)
    BY DEF BinaryImages
<1>2. "image" \in Plain \ {"debug", "stack"}
    BY DEF Plain
<1> QED BY <1>1, <1>2, CallsAdd
LEMMA ImageAdds ==
    ASSUME NEW key, NEW calls \in Image(key), NEW h, Below(h), h.place = "inside" PROVE Adds(calls, {key}, h)
<1>1. NoKey \notin ImageKeys
    BY DEF ImageKeys, NoKey
<1> QED BY <1>1, AddsNone, ElementsAdd DEF Image
LEMMA ReferencedAdds ==
    ASSUME NEW key, NEW calls \in Referenced(key), NEW h, Below(h), h.place = "inside" PROVE Adds(calls, {key}, h)
<1>1. Adds(<<CallTo("search", key)>>, {key}, h)
    BY CallAdds
<1> QED BY <1>1, AddsNone DEF Referenced
LEMMA AndReferencedAdds ==
    ASSUME NEW key, NEW keys, keys \cap {"referenced_object"} = {}, NoKey \notin keys,
           NEW calls \in Referenced("referenced_object"), NEW h, Below(h)
    PROVE  Adds(Object(key, <<Add(keys)>> \o calls), {key}, h)
<1> DEFINE i == Inside("own")
           r == "referenced_object"
<1>1. Adds(<<Add(keys)>>, keys, i) /\ Adds(calls, {r}, i)
    BY AddsElements, ReferencedAdds, InsideIs
<1>2. NoKey \notin keys \cup {r}
    BY DEF NoKey
<1> HIDE DEF r
<1>3. Adds(Join(<<Add(keys)>>, calls), keys \cup {r}, i)
    BY <1>1, AddsBoth DEF r
<1>4. Adds(Object(key, Join(<<Add(keys)>>, calls)), {key}, h)
    BY <1>2, <1>3, ObjectAdds DEF Below
<1> QED BY <1>4 DEF Join
LEMMA ProcessAdds == ASSUME NEW key, NEW calls \in ProcessState(key), NEW h, Below(h) PROVE Adds(calls, {key}, h)
<1>1. CASE calls = Object(key, <<>>)
    BY <1>1, NothingAdds
<1> DEFINE keys == {"address", "name", "reason"}
           e == "last_dealloced_nsexception"
<1>2. ASSUME NEW object \in Referenced("referenced_object"), calls = Object(key, Object(e, <<Add(keys)>> \o object))
      PROVE  Adds(calls, {key}, h)
  <2>1. keys \cap {"referenced_object"} = {} /\ NoKey \notin keys /\ NoKey \notin {e}
      BY DEF NoKey
  <2> HIDE DEF keys, e
  <2>2. Adds(Object(e, <<Add(keys)>> \o object), {e}, Inside("own"))
      BY <2>1, AndReferencedAdds, InsideIs
  <2> QED BY <1>2, <2>1, <2>2, ObjectAdds DEF Below
<1> QED BY <1>1, <1>2 DEF ProcessState
LEMMA SystemAdds == ASSUME NEW key, NEW calls \in SystemInfo(key), NEW h, Below(h) PROVE Adds(calls, {key}, h)
<1> DEFINE i == Inside("own")
           m == {"size", "usable", "free"}
           a == <<Add(SystemKeys)>>
           b == Object("memory", <<Add(m)>>)
           c == Object("application_stats", <<Add(AppStatsKeys)>>)
           M == {"memory"}
           S == {"application_stats"}
<1>1. calls = Object(key, Join(Join(a, b), c))
    BY DEF SystemInfo, Join
<1>2. NoKey \notin m /\ NoKey \notin AppStatsKeys
    BY DEF NoKey, AppStatsKeys
<1>3. Adds(a, SystemKeys, i) /\ Adds(b, M, i) /\ Adds(c, S, i)
    BY <1>2, AddsElements, ElementsAdd, InsideIs
<1>4. SystemKeys \cap M = {} /\ (SystemKeys \cup M) \cap S = {} /\ NoKey \notin (SystemKeys \cup M) \cup S
    BY DEF SystemKeys, NoKey
<1> HIDE DEF i, m, a, b, c, M, S
<1>5. Adds(Join(a, b), SystemKeys \cup M, i)
    BY <1>3, <1>4, AddsBoth
<1>6. Adds(Join(Join(a, b), c), (SystemKeys \cup M) \cup S, i)
    BY <1>3, <1>4, <1>5, AddsBoth
<1> QED BY <1>1, <1>4, <1>6, ObjectAdds DEF Below, i
LEMMA ThreadsAdd == ASSUME NEW key, NEW calls \in AllThreads(key), NEW h, Below(h) PROVE Adds(calls, {key}, h)
<1>1. PICK threads \in Several(CallTo("thread", NoKey)) : calls = Array(key, threads)
    BY DEF AllThreads
<1>2. "thread" \in Plain \ {"debug", "stack"}
    BY DEF Plain
<1> QED BY <1>1, <1>2, CallsAdd
LEMMA BacktraceAdds == ASSUME NEW key, NEW calls \in Backtrace(key), NEW h, Below(h) PROVE Adds(calls, {key}, h)
<1> DEFINE i == Inside("own")
           b == <<Add({"skipped"})>>
<1>1. PICK frames \in Several(CallTo("frame", NoKey)) : calls = Object(key, Join(Array("contents", frames), b))
    BY DEF Backtrace, Join
<1>2. "frame" \in Plain \ {"debug", "stack"}
    BY DEF Plain
<1>3. Adds(Array("contents", frames), {"contents"}, i)
    BY <1>2, CallsAdd, InsideIs
<1>4. Adds(b, {"skipped"}, i)
    BY AddsElements
<1>5. {"contents"} \cap {"skipped"} = {} /\ NoKey \notin {"contents"} \cup {"skipped"}
    BY DEF NoKey
<1> HIDE DEF b, i
<1>6. Adds(Join(Array("contents", frames), b), {"contents"} \cup {"skipped"}, i)
    BY <1>3, <1>4, <1>5, AddsBoth
<1> QED BY <1>1, <1>5, <1>6, ObjectAdds DEF Below, i
LEMMA FrameAdds == ASSUME NEW calls \in Frame, NEW h, Below(h) PROVE Adds(calls, {NoKey}, h)
<1> DEFINE i == Inside("own")
           address == {"instruction_addr"}
           B == {"object_name", "symbol_name"}
<1>1. calls = Object(NoKey, <<Add(address)>>) \/ \E names \in MayAdd(B) : calls = Object(NoKey, <<Add(SymbolKeys), names>>)
    BY DEF Frame
<1>2. NoKey \notin address /\ NoKey \notin SymbolKeys \cup B /\ SymbolKeys \cap B = {}
    BY DEF NoKey, SymbolKeys
<1> HIDE DEF address, B
<1>3. CASE calls = Object(NoKey, <<Add(address)>>)
    BY <1>2, <1>3, ElementsAdd
<1>4. ASSUME NEW names \in MayAdd(B), calls = Object(NoKey, <<Add(SymbolKeys), names>>) PROVE Adds(calls, {NoKey}, h)
  <2>1. Adds(<<Add(SymbolKeys), names>>, SymbolKeys \cup B, i)
      BY <1>2, AddsAndSome, InsideIs
  <2> QED BY <1>2, <1>4, <2>1, ObjectAdds DEF Below
<1> QED BY <1>1, <1>3, <1>4
LEMMA RegistersAdd == ASSUME NEW key, NEW calls \in Registers(key), NEW h, Below(h) PROVE Adds(calls, {key}, h)
<1> DEFINE i == Inside("own")
           a == Object("basic", <<Add(Notable)>>)
           e == {"exception"}
           b == Object("exception", <<Add(e)>>)
           A == {"basic"}
<1>1. calls = Object(key, a) \/ calls = Object(key, Join(a, b))
    BY DEF Registers, Join
<1>2. NoKey \notin Notable /\ NoKey \notin A /\ NoKey \notin A \cup e /\ A \cap e = {} /\ NoKey \notin e
  <2>1. NoKey \notin Notable
      BY ReportWriterAssumption
  <2> QED BY <2>1 DEF NoKey
<1>3. Adds(a, A, i) /\ Adds(b, e, i)
    BY <1>2, ElementsAdd, InsideIs
<1> HIDE DEF a, b, e, A, i
<1>4. Adds(Join(a, b), A \cup e, i)
    BY <1>2, <1>3, AddsBoth
<1> QED BY <1>1, <1>2, <1>3, <1>4, ObjectAdds DEF Below, i
LEMMA StackAdds ==
    ASSUME NEW key, NEW calls \in StackContents(key), NEW h, Below(h), h.place = "inside" PROVE Adds(calls, {key}, h)
<1> DEFINE i == Inside("own")
           dump == {"grow_direction", "dump_start", "dump_end", "stack_pointer", "overflow"}
<1>1. calls = <<>> \/ \E contents \in {"contents", "error"} : calls = Object(key, <<Add(dump), Add({contents})>>)
    BY DEF StackContents
<1>2. \A contents \in {"contents", "error"} : dump \cap {contents} = {} /\ NoKey \notin dump \cup {contents}
    BY DEF NoKey
<1> HIDE DEF dump
<1>3. ASSUME NEW contents \in {"contents", "error"}, calls = Object(key, <<Add(dump), Add({contents})>>)
      PROVE  Adds(calls, {key}, h)
  <2>1. Adds(<<Add(dump)>>, dump, i) /\ Adds(<<Add({contents})>>, {contents}, i)
      BY AddsElements
  <2>2. Adds(<<Add(dump), Add({contents})>>, dump \cup {contents}, i)
      BY <1>2, <2>1, AddsTwo
  <2> QED BY <1>2, <1>3, <2>2, ObjectAdds DEF Below
<1> QED BY <1>1, <1>3, AddsNone
LEMMA NotableAdds == ASSUME NEW key, NEW calls \in NotableAddresses(key), NEW h, Below(h) PROVE Adds(calls, {key}, h)
<1>1. PICK found \in SUBSET Notable :
         calls = Object(key, [i \in 1..Cardinality(found) |-> CallTo("search", SetToSeq(found)[i])])
    BY DEF NotableAddresses
<1>2. IsFiniteSet(found) /\ NoKey \notin found
    BY <1>1, ReportWriterAssumption, FS_Subset
<1>3. \A k \in found : Takes(CallTo("search", k), {k}, Inside("own"))
    BY InsideIs, TakesCall
<1>4. Adds([i \in 1..Cardinality(found) |-> CallTo("search", SetToSeq(found)[i])], found, Inside("own"))
    BY <1>2, <1>3, EachOfAdds, InsideIs
<1> QED BY <1>1, <1>2, <1>4, ObjectAdds DEF Below
LEMMA DebugAdds ==
    ASSUME NEW calls \in DebugInfo("debug"), NEW h, h.memory = "none" PROVE Adds(calls, {"debug"}, h)
<1> DEFINE i == Inside("own")
           a == Array("console_log", <<>>)
           L == {"console_log"}
           key == "debug"
<1>1. calls = Object(key, <<>>) \/ calls = Object(key, a)
    BY DEF DebugInfo
<1>2. NoKey \notin L /\ NoKey \notin {} /\ key # "root" /\ "console_log" # "root"
    BY DEF NoKey
<1>3. Adds(<<>>, {}, i)
    BY InsideIs, AddsNone
<1>4. Adds(a, L, i)
    BY <1>2, <1>3, ArrayAdds, InsideIs
<1> HIDE DEF a, L, key
<1> QED BY <1>1, <1>2, <1>3, <1>4, ObjectAdds DEF key
LEMMA ThreadAdds == ASSUME NEW key, NEW calls \in Thread(key), NEW h, Below(h) PROVE Adds(calls, {key}, h)
<1> DEFINE i == Inside("own")
           crash == {<<>>, <<CallTo("stack", "stack")>>}
                    \cup (IF setup.introspects /\ report = "standard"
                          THEN {<<CallTo("stack", "stack"), CallTo("notable", "notable_addresses")>>} ELSE {})
           before == <<CallTo("backtrace", "backtrace")>>
           crashed == <<Add({"crashed", "current_thread"})>>
           registered == {<<>>, <<CallTo("registers", "registers")>>}
           N == {"name", "dispatch_queue"}
<1>1. PICK registers \in registered, names \in MayAdd(N), inside \in crash :
         calls = Object(key, before \o registers \o <<Add({"index"}), names>> \o crashed \o inside)
  <2>1. Thread(key) = {Object(key, before \o registers \o <<Add({"index"}), names>> \o crashed \o inside) :
                          registers \in registered, names \in MayAdd(N), inside \in crash}
      BY DEF Thread
  <2> HIDE DEF before, crashed, crash, registered, N
  <2> QED BY <2>1
<1> DEFINE A == {"backtrace"}
           B == {"registers"}
           C == {"index"} \cup N
           D == {"crashed", "current_thread"}
           E == {"stack"} \cup {"notable_addresses"}
           named == <<Add({"index"}), names>>
<1>2. /\ A \cap B = {} /\ (A \cup B) \cap C = {} /\ ((A \cup B) \cup C) \cap D = {}
      /\ (((A \cup B) \cup C) \cup D) \cap E = {} /\ NoKey \notin (((A \cup B) \cup C) \cup D) \cup E
      /\ {"index"} \cap N = {} /\ {"stack"} \cap {"notable_addresses"} = {} /\ {"stack"} \subseteq E
    BY DEF NoKey
<1>3. {"backtrace", "registers", "notable"} \subseteq (Plain \ {"debug", "frame", "image", "stack"}) \cup {"search"}
    BY DEF Plain
<1>4. Adds(before, A, i)
    BY <1>3, CallAdds, InsideIs
<1>5. Adds(registers, B, i)
  <2>1. Adds(<<CallTo("registers", "registers")>>, B, i)
      BY <1>3, CallAdds, InsideIs
  <2>2. Adds(<<>>, B, i)
      BY AddsNone, InsideIs
  <2> HIDE DEF B, i
  <2> QED BY <2>1, <2>2
<1>6. Adds(named, C, i)
  <2> HIDE DEF N
  <2> QED BY <1>2, AddsAndSome, InsideIs
<1>7. Adds(crashed, D, i)
    BY AddsElements
<1>8. Adds(inside, E, i)
  <2>1. Takes(CallTo("stack", "stack"), {"stack"}, i)
      BY TakesCall, InsideIs
  <2>2. Adds(<<CallTo("stack", "stack")>>, {"stack"}, i)
      BY <2>1, AddsOne
  <2>3. Adds(<<CallTo("notable", "notable_addresses")>>, {"notable_addresses"}, i)
      BY <1>3, CallAdds, InsideIs
  <2>4. Adds(<<CallTo("stack", "stack"), CallTo("notable", "notable_addresses")>>, E, i)
      BY <1>2, <2>2, <2>3, AddsTwo
  <2>5. Adds(<<CallTo("stack", "stack")>>, E, i)
      BY <1>2, <2>2, AddsMore, InsideIs
  <2>6. Adds(<<>>, E, i)
      BY AddsNone, InsideIs
  <2> HIDE DEF E, i
  <2> QED BY <2>4, <2>5, <2>6
<1> DEFINE body == Join(Join(Join(Join(before, registers), named), crashed), inside)
<1>9. calls = Object(key, body)
    BY <1>1 DEF Join
<1> HIDE DEF A, B, C, D, E, before, named, crashed, i, crash, registered, N
<1>10. Adds(Join(before, registers), A \cup B, i)
    BY <1>2, <1>4, <1>5, AddsBoth
<1>11. Adds(Join(Join(before, registers), named), (A \cup B) \cup C, i)
    BY <1>2, <1>6, <1>10, AddsBoth
<1>12. Adds(Join(Join(Join(before, registers), named), crashed), ((A \cup B) \cup C) \cup D, i)
    BY <1>2, <1>7, <1>11, AddsBoth
<1>13. Adds(body, (((A \cup B) \cup C) \cup D) \cup E, i)
    BY <1>2, <1>8, <1>12, AddsBoth
<1> HIDE DEF body
<1> QED BY <1>2, <1>9, <1>13, ObjectAdds DEF Below, i
\* The trace of a user report may write its container twice: it is the caller's.
LEMMA TraceAdds == ASSUME NEW trace \in CustomTrace PROVE Adds(trace, {"backtrace"}, Inside("free"))
<1> DEFINE i == Inside("free")
           b == "backtrace"
           e == {"error", "json_data"}
           x == Object(b, <<Add(e)>>)
           y == <<Begin(b), End(b)>>
<1>1. trace \in {<<>>, <<Add({b})>>} \/ trace = Join(<<>>, x) \/ trace = Join(y, x)
    BY DEF CustomTrace, Join
<1>2. NoKey \notin e
    BY DEF NoKey
<1>3. y = Object(b, <<>>)
  <2>1. Object(b, <<>>) = <<Begin(b)>> \o <<End(b)>>
      BY DEF Object
  <2> QED BY <2>1, Two DEF Join
<1>4. Adds(x, {b}, i) /\ Adds(y, {b}, i) /\ Adds(<<>>, {b}, i) /\ Adds(<<Add({b})>>, {b}, i)
  <2> HIDE DEF e, y
  <2> QED BY <1>2, <1>3, ElementsAdd, NothingAdds, AddsNone, AddsElements, InsideIs
<1> HIDE DEF x, y, e, b, i
<1>5. Adds(Join(<<>>, x), {b} \cup {b}, i) /\ Adds(Join(y, x), {b} \cup {b}, i)
    BY <1>4, AddsBoth, InsideIs DEF i
<1> QED BY <1>1, <1>4, <1>5 DEF i, b
Specifics == {"cpp_exception", "nsexception", "user_reported"}
LEMMA SpecificAdds == ASSUME NEW specific \in Specific PROVE Adds(specific, Specifics, Inside("own"))
<1> DEFINE i == Inside("own")
           N == {"name"}
           U == {"name", "userInfo"}
           about == {"language", "line_of_code"}
           x == "cpp_exception"
           y == "nsexception"
           z == "user_reported"
           Plainly == {<<>>, Object(x, <<Add(N)>>)}
           NSException == {Object(y, <<Add(U)>> \o object) : object \in Referenced("referenced_object")}
           Reported == {Object(z, <<Add(N), some>> \o trace) : some \in MayAdd(about), trace \in CustomTrace}
<1>1. specific \in Plainly \cup NSException \cup Reported
    BY DEF Specific
<1>2. /\ NoKey \notin N /\ NoKey \notin U /\ U \cap {"referenced_object"} = {} /\ N \cap about = {}
      /\ (N \cup about) \cap {"backtrace"} = {} /\ NoKey \notin (N \cup about) \cup {"backtrace"}
    BY DEF NoKey
<1>3. {x} \subseteq Specifics /\ {y} \subseteq Specifics /\ {z} \subseteq Specifics /\ z = "user_reported"
    BY DEF Specifics
<1>4. \A calls, key : key \in {x, y, z} /\ Adds(calls, {key}, i) => Adds(calls, Specifics, i)
  <2> SUFFICES ASSUME NEW calls, NEW key \in {x, y, z}, Adds(calls, {key}, i) PROVE Adds(calls, Specifics, i)
      OBVIOUS
  <2>1. {key} \subseteq Specifics
      BY <1>3
  <2> QED BY <2>1, AddsMore, InsideIs
<1> HIDE DEF N, U, about, x, y, z
<1>5. CASE specific \in Plainly
  <2>1. Adds(Object(x, <<Add(N)>>), {x}, i)
      BY <1>2, ElementsAdd, InsideIs
  <2>2. Adds(<<>>, Specifics, i)
      BY AddsNone, InsideIs
  <2> QED BY <1>4, <1>5, <2>1, <2>2
<1>6. CASE specific \in NSException
  <2>1. PICK object \in Referenced("referenced_object") : specific = Object(y, <<Add(U)>> \o object)
      BY <1>6
  <2>2. Adds(Object(y, <<Add(U)>> \o object), {y}, i)
      BY <1>2, AndReferencedAdds, InsideIs
  <2> QED BY <1>4, <2>1, <2>2
<1>7. CASE specific \in Reported
  <2>1. PICK some \in MayAdd(about), trace \in CustomTrace : specific = Object(z, <<Add(N), some>> \o trace)
      BY <1>7
  <2> DEFINE f == Inside("free")
             a == <<Add(N), some>>
  <2>2. Adds(a, N \cup about, f)
      BY <1>2, AddsAndSome, InsideIs
  <2>3. Adds(trace, {"backtrace"}, f)
      BY TraceAdds
  <2> HIDE DEF a, f
  <2>4. Adds(Join(a, trace), (N \cup about) \cup {"backtrace"}, f)
      BY <1>2, <2>2, <2>3, AddsBoth
  <2>5. Adds(Object(z, Join(a, trace)), {z}, i)
      BY <1>2, <1>3, <2>4, ObjectAdds, InsideIs DEF Below, f
  <2>6. specific = Object(z, Join(a, trace))
      BY <2>1 DEF a, Join
  <2> QED BY <1>4, <2>5, <2>6
<1> HIDE DEF Plainly, NSException, Reported
<1> QED BY <1>1, <1>5, <1>6, <1>7
LEMMA ErrorAdds == ASSUME NEW key, NEW calls \in Error(key), NEW h, Below(h) PROVE Adds(calls, {key}, h)
<1> DEFINE i == Inside("own")
           M == {"exception", "code", "subcode"}
           m == {"exception_name", "code_name"}
           G == {"signal", "code"}
           g == {"name", "code_name"}
           R == {"reason"}
<1>1. PICK mach \in MayAdd(m), signal \in MayAdd(g), reason \in MayAdd(R), specific \in Specific :
         calls = Object(key, Object("mach", <<Add(M), mach>>)
                 \o Object("signal", <<Add(G), signal>>)
                 \o <<Add({"address"}), reason, Add({"type"})>> \o specific)
  <2> DEFINE body(mach, signal, reason, specific) ==
                 Object(key, Object("mach", <<Add(M), mach>>)
                 \o Object("signal", <<Add(G), signal>>)
                 \o <<Add({"address"}), reason, Add({"type"})>> \o specific)
  <2>1. Error(key) = {body(mach, signal, reason, specific) :
                        mach \in MayAdd(m), signal \in MayAdd(g), reason \in MayAdd(R), specific \in Specific}
      BY DEF Error
  <2> HIDE DEF body, M, m, G, g, R
  <2>2. PICK mach \in MayAdd(m), signal \in MayAdd(g), reason \in MayAdd(R), specific \in Specific :
           calls = body(mach, signal, reason, specific)
      BY <2>1
  <2> QED BY <2>2 DEF body
<1> DEFINE A == {"mach"}
           B == {"signal"}
           C == {"address"} \cup R
           T == {"type"}
           a == Object("mach", <<Add(M), mach>>)
           b == Object("signal", <<Add(G), signal>>)
           c == <<Add({"address"}), reason>>
           t == <<Add(T)>>
<1>2. M \cap m = {} /\ G \cap g = {} /\ NoKey \notin M \cup m /\ NoKey \notin G \cup g /\ {"address"} \cap R = {}
    BY DEF NoKey
<1>3. /\ A \cap B = {} /\ (A \cup B) \cap (C \cup T) = {} /\ C \cap T = {} /\ ((A \cup B) \cup (C \cup T)) \cap Specifics = {}
      /\ NoKey \notin ((A \cup B) \cup (C \cup T)) \cup Specifics
    BY DEF Specifics, NoKey
<1>4. Adds(a, A, i)
  <2> HIDE DEF M, m
  <2>1. Adds(<<Add(M), mach>>, M \cup m, i)
      BY <1>2, AddsAndSome, InsideIs
  <2> QED BY <1>2, <2>1, ObjectAdds, InsideIs DEF Below
<1>5. Adds(b, B, i)
  <2> HIDE DEF G, g
  <2>1. Adds(<<Add(G), signal>>, G \cup g, i)
      BY <1>2, AddsAndSome, InsideIs
  <2> QED BY <1>2, <2>1, ObjectAdds, InsideIs DEF Below
<1>6. Adds(c, C, i) /\ Adds(t, T, i)
  <2> HIDE DEF R
  <2> QED BY <1>2, AddsAndSome, AddsElements, InsideIs
<1>7. <<Add({"address"}), reason, Add({"type"})>> = Join(c, t)
    BY DEF Join
<1>8. calls = Object(key, Join(Join(Join(a, b), Join(c, t)), specific))
    BY <1>1, <1>7 DEF Join
<1>9. Adds(specific, Specifics, i)
    BY SpecificAdds
<1> HIDE DEF A, B, C, T, a, b, c, t, i, M, m, G, g, R
<1>10. Adds(Join(a, b), A \cup B, i) /\ Adds(Join(c, t), C \cup T, i)
    BY <1>3, <1>4, <1>5, <1>6, AddsBoth
<1>11. Adds(Join(Join(a, b), Join(c, t)), (A \cup B) \cup (C \cup T), i)
    BY <1>3, <1>10, AddsBoth
<1>12. Adds(Join(Join(Join(a, b), Join(c, t)), specific), ((A \cup B) \cup (C \cup T)) \cup Specifics, i)
    BY <1>3, <1>9, <1>11, AddsBoth
<1> QED BY <1>3, <1>8, <1>12, ObjectAdds DEF Below, i

\* From where a function is called to what its call leaves.
LEMMA PlainGoes ==
    ASSUME NEW op \in Plain, NEW key, NEW calls \in Functions(op, key), NEW s, IsState(s), s.limit <= SearchDepth,
           May(CallTo(op, key), s)
    PROVE  Goes(calls, s, After(CallTo(op, key), s)) /\ Sequence(calls)
<1> DEFINE call == CallTo(op, key)
           anywhere == Mode("any", "own", "none")
           below == Mode("below", "own", "none")
           inside == Mode("inside", "own", "none")
<1>1. call.op = op /\ call.key = key
    BY DEF CallTo
<1> HIDE DEF call
<1>2. /\ Fresh(s, {key}) /\ s.nested = 0 /\ (op # "debug" => s.depth > 0) /\ (op = "debug" => key = "debug")
      /\ op \in {"image", "stack"} => ~IsRoot(s)
      /\ op \in {"frame", "image"} => key = NoKey
    BY <1>1 DEF May, Plain, OfFiles, call
<1>3. /\ \A h \in {anywhere, below, inside} : h.memory = "none" /\ h.names = "own"
      /\ anywhere.place = "any" /\ below.place = "below" /\ inside.place = "inside"
    BY DEF Mode
<1> HIDE DEF anywhere, below, inside
<1>4. Below(below) /\ Below(inside)
    BY <1>3 DEF Below
<1>5. /\ Suits(s, anywhere) /\ (op # "debug" => Suits(s, below)) /\ (op \in {"image", "stack"} => Suits(s, inside))
    BY <1>2, <1>3 DEF Suits
<1>6. After(call, s) = Limited(More(s, {key}), SearchDepth)
    BY <1>1, AfterOf
<1>7. \A h \in {anywhere, below, inside} : Adds(calls, {key}, h) /\ Suits(s, h) => Goes(calls, s, After(call, s)) /\ Sequence(calls)
  <2> SUFFICES ASSUME NEW h \in {anywhere, below, inside}, Adds(calls, {key}, h), Suits(s, h)
               PROVE  Goes(calls, s, After(call, s)) /\ Sequence(calls)
      OBVIOUS
  <2>1. Left(s, {key}, h) = After(call, s)
      BY <1>3, <1>6 DEF Left
  <2> QED BY <1>2, <2>1 DEF Adds
<1> SUFFICES Goes(calls, s, After(call, s)) /\ Sequence(calls)
    BY DEF call
<1> DEFINE Goal == Goes(calls, s, After(call, s)) /\ Sequence(calls)
<1> SUFFICES Goal
    OBVIOUS
<1>8. (op # "debug" /\ Adds(calls, {key}, below)) \/ (op \in {"image", "stack"} /\ Adds(calls, {key}, inside))
      \/ Adds(calls, {key}, anywhere) => Goal
    BY <1>5, <1>7
<1> HIDE DEF Goal
<1>9. ASSUME op = "info" PROVE Goal
  <2>1. calls \in ReportInfo(key)
      BY <1>9 DEF Functions
  <2> QED BY <1>4, <1>8, <1>9, <2>1, InfoAdds
<1>10. ASSUME op = "images" PROVE Goal
  <2>1. calls \in BinaryImages(key)
      BY <1>10 DEF Functions
  <2> QED BY <1>4, <1>8, <1>10, <2>1, ImagesAdd
<1>11. ASSUME op = "image" PROVE Goal
  <2>1. calls \in Image(key)
      BY <1>11 DEF Functions
  <2> QED BY <1>3, <1>4, <1>8, <1>11, <2>1, ImageAdds
<1>12. ASSUME op = "process" PROVE Goal
  <2>1. calls \in ProcessState(key)
      BY <1>12 DEF Functions
  <2> QED BY <1>4, <1>8, <1>12, <2>1, ProcessAdds
<1>13. ASSUME op = "system" PROVE Goal
  <2>1. calls \in SystemInfo(key)
      BY <1>13 DEF Functions
  <2> QED BY <1>4, <1>8, <1>13, <2>1, SystemAdds
<1>14. ASSUME op = "error" PROVE Goal
  <2>1. calls \in Error(key)
      BY <1>14 DEF Functions
  <2> QED BY <1>4, <1>8, <1>14, <2>1, ErrorAdds
<1>15. ASSUME op = "threads" PROVE Goal
  <2>1. calls \in AllThreads(key)
      BY <1>15 DEF Functions
  <2> QED BY <1>4, <1>8, <1>15, <2>1, ThreadsAdd
<1>16. ASSUME op = "thread" PROVE Goal
  <2>1. calls \in Thread(key)
      BY <1>16 DEF Functions
  <2> QED BY <1>4, <1>8, <1>16, <2>1, ThreadAdds
<1>17. ASSUME op = "backtrace" PROVE Goal
  <2>1. calls \in Backtrace(key)
      BY <1>17 DEF Functions
  <2> QED BY <1>4, <1>8, <1>17, <2>1, BacktraceAdds
<1>18. ASSUME op = "frame" PROVE Goal
  <2>1. calls \in Frame /\ key = NoKey
      BY <1>2, <1>18 DEF Functions
  <2> QED BY <1>4, <1>8, <1>18, <2>1, FrameAdds
<1>19. ASSUME op = "registers" PROVE Goal
  <2>1. calls \in Registers(key)
      BY <1>19 DEF Functions
  <2> QED BY <1>4, <1>8, <1>19, <2>1, RegistersAdd
<1>20. ASSUME op = "stack" PROVE Goal
  <2>1. calls \in StackContents(key)
      BY <1>20 DEF Functions
  <2> QED BY <1>3, <1>4, <1>8, <1>20, <2>1, StackAdds
<1>21. ASSUME op = "notable" PROVE Goal
  <2>1. calls \in NotableAddresses(key)
      BY <1>21 DEF Functions
  <2> QED BY <1>4, <1>8, <1>21, <2>1, NotableAdds
<1>22. ASSUME op = "debug" PROVE Goal
  <2>1. calls \in DebugInfo("debug") /\ key = "debug"
      BY <1>2, <1>22 DEF Functions
  <2> QED BY <1>3, <1>8, <2>1, DebugAdds
<1> QED BY <1>9, <1>10, <1>11, <1>12, <1>13, <1>14, <1>15, <1>16, <1>17, <1>18, <1>19, <1>20, <1>21, <1>22 DEF Plain

-----------------------------------------------------------------------------
(* Memory, within the limit                                                 *)

LEMMA LimitedKeeps ==
    ASSUME NEW s, NEW most \in Int, IsState(s)
    PROVE  /\ IsState(Limited(s, most)) /\ Limited(s, most).limit = most
           /\ Limited(s, most).depth = s.depth /\ Limited(s, most).nested = s.nested
           /\ Limited(s, most).lenient = s.lenient /\ TopOf(Limited(s, most)) = TopOf(s)
           /\ \A keys : Fresh(s, keys) => Fresh(Limited(s, most), keys)
           /\ most <= s.limit => Within(Limited(s, most), s)
<1> DEFINE m == Limited(s, most)
<1>1. /\ m.limit = most /\ m.depth = s.depth /\ m.nested = s.nested /\ m.lenient = s.lenient /\ TopOf(m) = TopOf(s)
    BY DEF Limited, TopOf
<1>2. IsState(m)
    BY LimitedIs
<1>3. \A keys : Fresh(s, keys) => Fresh(m, keys)
  <2> HIDE DEF m
  <2> QED BY <1>1 DEF Fresh, Free
<1>4. most <= s.limit => Within(m, s)
    BY DEF Within, Limited, IsState
<1> QED BY <1>1, <1>2, <1>3, <1>4
MemoryKeys == {"type", "class", "value", "first_object", "ivars"}
LEMMA ContentsAdd ==
    ASSUME NEW left, NEW inside \in ObjCObject(left) \cup NotAnObject, NEW h, h.place = "inside",
           setup.restricts => h.names = "free", left > 0 => h.memory = "more"
    PROVE  Adds(inside, MemoryKeys, h)
<1> DEFINE T == {"type"}
           V == {"type", "value"}
           C == {"type", "class"}
           E == {"value", "first_object", "ivars"}
           class == <<Add(C)>>
<1>1. /\ T \subseteq MemoryKeys /\ V \subseteq MemoryKeys /\ C \cap E = {} /\ C \cup E \subseteq MemoryKeys
      /\ C \cup V \subseteq MemoryKeys /\ C \cup T \subseteq MemoryKeys
      /\ {"value"} \subseteq E /\ {"first_object"} \subseteq E /\ {"ivars"} \subseteq E
    BY DEF MemoryKeys
<1>2. \A some \in NotAnObject : \E keys \in {T, V} : Adds(some, keys, h)
    BY AddsElements DEF NotAnObject
<1>3. Adds(class, C, h)
    BY AddsElements
<1>4. ASSUME NEW some \in NotAnObject PROVE Adds(some, MemoryKeys, h)
  <2> HIDE DEF T, V
  <2> QED BY <1>1, <1>2, <1>4, AddsMore
<1>5. ASSUME NEW some \in ObjectElements(left) PROVE Adds(Join(class, some), MemoryKeys, h)
  <2>1. Adds(<<>>, E, h)
      BY AddsNone
  <2>2. Adds(<<Add({"value"})>>, E, h)
      BY <1>1, AddsElements, AddsMore
  <2>3. ASSUME left > 0, NEW op \in {"memory", "ivars"}, NEW key, {key} \subseteq E PROVE Adds(<<CallTo(op, key)>>, E, h)
    <3>1. Takes(CallTo(op, key), {key}, h)
        BY <2>3, TakesLook
    <3>2. Adds(<<CallTo(op, key)>>, {key}, h)
        BY <3>1, AddsOne
    <3> HIDE DEF E
    <3> QED BY <2>3, <3>2, AddsMore
  <2>4. Adds(some, E, h)
    <3>1. \/ some = <<>> \/ some = <<Add({"value"})>>
          \/ left > 0 /\ (some = <<CallTo("memory", "first_object")>> \/ some = <<CallTo("ivars", "ivars")>>)
        BY <1>5 DEF ObjectElements
    <3> HIDE DEF E
    <3> QED BY <1>1, <2>1, <2>2, <2>3, <3>1
  <2> HIDE DEF class, C, E
  <2>5. Adds(Join(class, some), C \cup E, h)
      BY <1>1, <1>3, <2>4, AddsBoth
  <2> QED BY <1>1, <2>5, AddsMore
<1>6. ASSUME setup.restricts, NEW some \in NotAnObject PROVE Adds(Join(class, some), MemoryKeys, h)
  <2>1. PICK keys \in {T, V} : Adds(some, keys, h)
      BY <1>2, <1>6
  <2>2. C \cup keys \subseteq MemoryKeys
      BY <1>1, <2>1
  <2> HIDE DEF class, C, T, V
  <2>3. Adds(Join(class, some), C \cup keys, h)
      BY <1>3, <1>6, <2>1, AddsBoth
  <2> QED BY <2>2, <2>3, AddsMore
<1>7. \/ inside \in NotAnObject
      \/ \E some \in ObjectElements(left) : inside = Join(class, some)
      \/ setup.restricts /\ \E some \in NotAnObject : inside = Join(class, some)
    BY DEF ObjCObject, Unrestricted, Restricted, Join
<1> HIDE DEF class
<1> QED BY <1>4, <1>5, <1>6, <1>7
LEMMA MemoryGoes ==
    ASSUME NEW s, IsState(s), s.limit <= SearchDepth, setup.restricts => "names" \in s.lenient,
           NEW key, May(CallTo("memory", key), s),
           NEW left, left = s.limit - 1, NEW calls \in MemoryContents(key, left)
    PROVE  Goes(calls, Limited(s, left), After(CallTo("memory", key), s)) /\ Sequence(calls)
<1> DEFINE look == CallTo("memory", key)
           q == Limited(s, left)
           names == IF setup.restricts THEN "free" ELSE "own"
           h == Mode("inside", names, IF left > 0 THEN "more" ELSE "last")
           call == BeginMemory(key)
           Z == {"address", "last_deallocated_obj"}
<1>1. /\ Fresh(s, {key}) /\ s.nested + 1 <= SearchDepth /\ s.nested + s.limit <= SearchDepth /\ s.depth > 0
  <2>1. look.op = "memory" /\ look.key = key
      BY DEF CallTo
  <2> HIDE DEF look
  <2> QED BY <2>1 DEF May, Plain, OfFiles, Room, look
<1>2. s.depth \in Nat /\ s.nested \in Int /\ s.limit \in Int /\ SearchDepth \in Int /\ left \in Int
    BY Numbers, ReportWriterAssumption
<1>3. /\ IsState(q) /\ q.limit = left /\ q.depth = s.depth /\ q.nested = s.nested /\ q.lenient = s.lenient
      /\ Fresh(q, {key}) /\ Within(q, s)
  <2>1. left <= s.limit
      BY <1>2
  <2> QED BY <1>1, <1>2, <2>1, LimitedKeeps
<1>4. PICK zombie \in {Add({"address"}), Add(Z)}, inside \in ObjCObject(left) \cup NotAnObject :
         calls = MemoryObject(key, <<zombie>> \o inside)
    BY DEF MemoryContents
<1>5. h.place = "inside" /\ h.names = names /\ h.memory = IF left > 0 THEN "more" ELSE "last"
    BY DEF Mode
<1> HIDE DEF h
<1>6. Adds(<<zombie>>, Z, h)
  <2>1. {"address"} \subseteq Z
      OBVIOUS
  <2> HIDE DEF Z
  <2> QED BY <1>4, <1>5, <2>1, AddsElements, AddsMore
<1>7. Adds(inside, MemoryKeys, h)
    BY <1>5, ContentsAdd
<1>8. Z \cap MemoryKeys = {} /\ NoKey \notin Z \cup MemoryKeys
    BY DEF MemoryKeys, NoKey
<1> DEFINE body == Join(<<zombie>>, inside)
<1> HIDE DEF Z
<1>9. Adds(body, Z \cup MemoryKeys, h)
    BY <1>6, <1>7, <1>8, AddsBoth
<1>10. call.op = "beginMemory" /\ call.key = key /\ call.op \in Begins
    BY DEF BeginMemory, Begins
<1>11. calls = Join(Join(<<call>>, body), <<End(key)>>)
    BY <1>4 DEF MemoryObject, Join
<1> HIDE DEF body, call, q
<1>12. May(call, q)
    BY <1>1, <1>3, <1>10 DEF May, Plain, OfFiles, Room
<1> DEFINE p == Pushed(q, key, "beginMemory")
           m == More(q, {key})
<1>13. IsPushed(p, q, m, key, "beginMemory")
    BY <1>3, PushedIs
<1> HIDE DEF p, m
<1>14. p.depth = s.depth + 1 /\ p.nested = s.nested + 1 /\ p.limit = left /\ p.lenient = s.lenient
    BY <1>3, <1>13 DEF IsPushed, One
<1>15. Suits(p, h)
  <2>1. p.depth > 0 /\ ~IsRoot(p) /\ p.limit <= SearchDepth
    <3>1. p.depth > 1 /\ p.limit <= SearchDepth
        BY <1>1, <1>2, <1>14
    <3> QED BY <1>2, <1>14, <3>1 DEF IsRoot
  <2>2. h.names = "free" => Free(p)
      BY <1>5, <1>14 DEF Free
  <2>3. h.memory # "none"
      BY <1>5
  <2>4. h.memory = "more" => Room(p) /\ p.nested + p.limit <= SearchDepth
    <3>1. h.memory = "more" => left > 0
        BY <1>5
    <3>2. left > 0 => (s.nested + 1) + 1 <= SearchDepth
        BY <1>1, <1>2
    <3>3. (s.nested + 1) + left = s.nested + s.limit
        BY <1>2
    <3> QED BY <1>1, <1>14, <3>1, <3>2, <3>3 DEF Room
  <2> QED BY <1>5, <2>1, <2>2, <2>3, <2>4 DEF Suits
<1>16. q.limit <= SearchDepth /\ q.depth > 0
    BY <1>1, <1>2, <1>3
<1>17. /\ Goes(Join(Join(<<call>>, body), <<End(call.key)>>), q, Left(q, {call.key}, h))
       /\ Sequence(Join(Join(<<call>>, body), <<End(call.key)>>))
    BY <1>3, <1>8, <1>9, <1>10, <1>12, <1>15, <1>16, ContainerGoes DEF p
<1>18. Left(q, {key}, h) = m
    BY <1>5 DEF Left, m
<1>19. Goes(calls, q, m) /\ Sequence(calls)
    BY <1>10, <1>11, <1>17, <1>18
<1> DEFINE u == More(s, {key})
<1>20. Within(m, u) /\ IsState(m) /\ IsState(u) /\ Within(q, q)
  <2>1. IsMore(m, q, {key}) /\ IsMore(u, s, {key})
      BY <1>3, MoreIs DEF m
  <2>2. IsState(m) /\ IsState(u)
      BY <2>1 DEF IsMore
  <2> QED BY <1>3, <2>2, MoreWithin, WithinRefl DEF m
<1>21. After(look, s) = u
  <2>1. look.op = "memory" /\ look.key = key
      BY DEF CallTo
  <2> HIDE DEF look
  <2> QED BY <2>1, AfterOf
<1> HIDE DEF u
<1>22. Goes(calls, q, u)
    BY <1>3, <1>19, <1>20, GoesFrom
<1> QED BY <1>19, <1>21, <1>22 DEF q
LEMMA IvarsGoes ==
    ASSUME NEW s, IsState(s), s.limit <= SearchDepth, NEW key, May(CallTo("ivars", key), s),
           NEW left \in Int, left <= s.limit, NEW calls,
           \/ calls = Object(key, <<Add({"tagged_payload"})>>)
           \/ \E ivars \in SUBSET Ivars : \E pointers \in SUBSET ivars : calls = UnknownObjectContents(key, ivars, pointers)
    PROVE  Goes(calls, Limited(s, left), After(CallTo("ivars", key), s)) /\ Sequence(calls)
<1> DEFINE look == CallTo("ivars", key)
           q == Limited(s, left)
           h == Mode("inside", "own", "more")
           call == Begin(key)
<1>1. /\ Fresh(s, {key}) /\ s.nested + 1 <= SearchDepth /\ s.nested + s.limit <= SearchDepth /\ s.depth > 0
  <2>1. look.op = "ivars" /\ look.key = key
      BY DEF CallTo
  <2> HIDE DEF look
  <2> QED BY <2>1 DEF May, Plain, OfFiles, Room, look
<1>2. s.depth \in Nat /\ s.nested \in Int /\ s.limit \in Int /\ SearchDepth \in Int
    BY Numbers, ReportWriterAssumption
<1>3. /\ IsState(q) /\ q.limit = left /\ q.depth = s.depth /\ q.nested = s.nested /\ q.lenient = s.lenient
      /\ Fresh(q, {key}) /\ Within(q, s)
    BY <1>1, <1>2, LimitedKeeps
<1>4. h.place = "inside" /\ h.names = "own" /\ h.memory = "more"
    BY DEF Mode
<1> HIDE DEF h
<1>5. \E keys, body : Adds(body, keys, h) /\ NoKey \notin keys /\ calls = Object(key, body)
  <2>1. CASE calls = Object(key, <<Add({"tagged_payload"})>>)
    <3>1. NoKey \notin {"tagged_payload"}
        BY DEF NoKey
    <3>2. Adds(<<Add({"tagged_payload"})>>, {"tagged_payload"}, h)
        BY AddsElements
    <3> QED BY <2>1, <3>1, <3>2
  <2>2. ASSUME NEW ivars \in SUBSET Ivars, NEW pointers \in SUBSET ivars, calls = UnknownObjectContents(key, ivars, pointers)
        PROVE  \E keys, body : Adds(body, keys, h) /\ NoKey \notin keys /\ calls = Object(key, body)
    <3> DEFINE a == <<Add(ivars \ pointers)>>
               b == [i \in 1..Cardinality(pointers) |-> CallTo("memory", SetToSeq(pointers)[i])]
               K == (ivars \ pointers) \cup pointers
    <3>1. IsFiniteSet(pointers) /\ NoKey \notin K
        BY ReportWriterAssumption, FS_Subset
    <3>2. \A k \in pointers : Takes(CallTo("memory", k), {k}, h)
        BY <1>4, TakesLook
    <3>3. Adds(b, pointers, h)
        BY <1>4, <3>1, <3>2, EachOfAdds
    <3>4. Adds(a, ivars \ pointers, h)
        BY AddsElements
    <3>5. calls = Object(key, Join(a, b))
        BY <2>2 DEF UnknownObjectContents, Join
    <3> HIDE DEF a, b
    <3>6. Adds(Join(a, b), K, h)
        BY <3>3, <3>4, AddsBoth
    <3> QED BY <3>1, <3>5, <3>6
  <2> QED BY <2>1, <2>2
<1>6. PICK keys, body : Adds(body, keys, h) /\ NoKey \notin keys /\ calls = Object(key, body)
    BY <1>5
<1>7. call.op = "begin" /\ call.key = key /\ call.op \in Begins
    BY DEF Begin, Begins
<1>8. calls = Join(Join(<<call>>, body), <<End(key)>>)
    BY <1>6 DEF Object, Join
<1> HIDE DEF call, q
<1>9. May(call, q)
    BY <1>1, <1>3, <1>7 DEF May, Plain, OfFiles
<1> DEFINE p == Pushed(q, key, "begin")
           m == More(q, {key})
<1>10. IsPushed(p, q, m, key, "begin")
    BY <1>3, PushedIs
<1> HIDE DEF p, m
<1>11. p.depth = s.depth + 1 /\ p.nested = s.nested /\ p.limit = left
  <2>1. p.depth = s.depth + 1 /\ p.nested = s.nested + 0 /\ p.limit = left
      BY <1>3, <1>10 DEF IsPushed, One
  <2> QED BY <1>2, <2>1
<1>12. Suits(p, h)
  <2>1. p.depth > 0 /\ ~IsRoot(p) /\ p.limit <= SearchDepth
    <3>1. p.depth > 1 /\ p.limit <= SearchDepth
        BY <1>1, <1>2, <1>11
    <3> QED BY <1>2, <1>11, <3>1 DEF IsRoot
  <2>2. p.nested + p.limit <= SearchDepth
      BY <1>1, <1>2, <1>11
  <2> QED BY <1>1, <1>4, <1>11, <2>1, <2>2 DEF Suits, Room
<1>13. q.limit <= SearchDepth /\ q.depth > 0
    BY <1>1, <1>2, <1>3
<1>14. /\ Goes(Join(Join(<<call>>, body), <<End(call.key)>>), q, Left(q, {call.key}, h))
       /\ Sequence(Join(Join(<<call>>, body), <<End(call.key)>>))
    BY <1>3, <1>6, <1>7, <1>9, <1>12, <1>13, ContainerGoes DEF p
<1>15. Left(q, {key}, h) = m
    BY <1>4 DEF Left, m
<1>16. Goes(calls, q, m) /\ Sequence(calls)
    BY <1>7, <1>8, <1>14, <1>15
<1> DEFINE u == More(s, {key})
<1>17. Within(m, u) /\ IsState(m) /\ IsState(u) /\ Within(q, q)
  <2>1. IsMore(m, q, {key}) /\ IsMore(u, s, {key})
      BY <1>3, MoreIs DEF m
  <2>2. IsState(m) /\ IsState(u)
      BY <2>1 DEF IsMore
  <2> QED BY <1>3, <2>2, MoreWithin, WithinRefl DEF m
<1>18. After(look, s) = u
  <2>1. look.op = "ivars" /\ look.key = key
      BY DEF CallTo
  <2> HIDE DEF look
  <2> QED BY <2>1, AfterOf
<1> HIDE DEF u
<1>19. Goes(calls, q, u)
    BY <1>3, <1>16, <1>17, GoesFrom
<1> QED BY <1>16, <1>18, <1>19 DEF q
LEMMA SearchGoes ==
    ASSUME NEW s, IsState(s), NEW key, May(CallTo("search", key), s)
    PROVE  Goes(<<CallTo("memory", key)>>, Limited(s, SearchDepth), After(CallTo("search", key), s))
<1> DEFINE search == CallTo("search", key)
           look == CallTo("memory", key)
           q == Limited(s, SearchDepth)
<1>1. search.op = "search" /\ search.key = key /\ look.op = "memory" /\ look.key = key
    BY DEF CallTo
<1> SUFFICES Goes(<<look>>, q, After(search, s))
    OBVIOUS
<1> HIDE DEF search, look
<1>2. SearchDepth \in Nat \ {0}
    BY ReportWriterAssumption
<1>3. Fresh(s, {key}) /\ s.nested = 0 /\ s.depth > 0
    BY <1>1 DEF May, Plain, OfFiles, search
<1>4. IsState(q) /\ q.limit = SearchDepth /\ q.depth = s.depth /\ q.nested = s.nested /\ Fresh(q, {key})
    BY <1>2, <1>3, LimitedKeeps
<1>5. After(search, s) = Limited(More(s, {key}), SearchDepth)
    BY <1>1, AfterOf
<1>6. Limited(More(s, {key}), SearchDepth) = More(q, {key})
    BY DEF Limited, More, IsRoot
<1> HIDE DEF q
<1>7. May(look, q)
    BY <1>1, <1>2, <1>3, <1>4 DEF May, Plain, OfFiles, Room
<1>8. After(look, q) = More(q, {key})
    BY <1>1, AfterOf
<1>9. Goes(<<look>>, q, After(look, q))
    BY <1>4, <1>7, GoesOne
<1> QED BY <1>5, <1>6, <1>8, <1>9

-----------------------------------------------------------------------------
(* The state of the writer                                                  *)

Ground == [by |-> NoKey, kind |-> "beginArray", keys |-> {}]
AreOpen(cs) ==
    /\ Sequence(cs)
    /\ \A i \in 1..Len(cs) : cs[i] = [by |-> cs[i].by, kind |-> cs[i].kind, keys |-> cs[i].keys]
MemoryIn(cs) == {i \in 1..Len(cs) : cs[i].kind = "beginMemory"}
StateOf(cs, most, names, lenient) ==
    [depth |-> Len(cs), nested |-> Cardinality(MemoryIn(cs)), limit |-> most, lenient |-> lenient, sections |-> names,
     at |-> [d \in Nat |-> IF d \in 1..Len(cs) THEN cs[d] ELSE Ground]]

LEMMA MemoryInIs ==
    ASSUME NEW cs, Sequence(cs)
    PROVE  /\ Len(cs) \in Nat /\ IsFiniteSet(MemoryIn(cs)) /\ Cardinality(MemoryIn(cs)) \in Nat
           /\ MemoryIn(cs) \subseteq 1..Len(cs)
<1>1. Len(cs) \in Nat
    BY LengthOf
<1>2. MemoryIn(cs) \subseteq 1..Len(cs)
    BY DEF MemoryIn
<1>3. IsFiniteSet(1..Len(cs))
  <2>1. 1 \in Int /\ Len(cs) \in Int
      BY <1>1
  <2> QED BY <2>1, FS_Interval
<1>4. IsFiniteSet(MemoryIn(cs))
    BY <1>2, <1>3, FS_Subset
<1> QED BY <1>1, <1>2, <1>4, FS_CardinalityType
IsStateOf(s, cs, most, names, lenient) ==
    /\ IsState(s) /\ s.depth = Len(cs) /\ s.nested = Cardinality(MemoryIn(cs)) /\ s.limit = most /\ s.lenient = lenient
    /\ s.sections = names /\ \A d \in Nat : s.at[d] = IF d \in 1..Len(cs) THEN cs[d] ELSE Ground
LEMMA StateOfIs ==
    ASSUME NEW cs, AreOpen(cs), NEW most \in Int, NEW names, NEW lenient
    PROVE  IsStateOf(StateOf(cs, most, names, lenient), cs, most, names, lenient)
<1> DEFINE s == StateOf(cs, most, names, lenient)
<1>1. Len(cs) \in Nat /\ Cardinality(MemoryIn(cs)) \in Nat
    BY MemoryInIs DEF AreOpen
<1>2. /\ s.depth = Len(cs) /\ s.nested = Cardinality(MemoryIn(cs)) /\ s.limit = most /\ s.lenient = lenient
      /\ s.sections = names /\ \A d \in Nat : s.at[d] = IF d \in 1..Len(cs) THEN cs[d] ELSE Ground
    BY DEF StateOf
<1> HIDE DEF s
<1>3. s.at[0] = Ground
    BY <1>1, <1>2
<1>4. IsState(s)
    BY <1>1, <1>2, <1>3 DEF IsState, Ground
<1>5. IsStateOf(s, cs, most, names, lenient)
    BY <1>2, <1>4 DEF IsStateOf
<1> QED BY <1>5 DEF s
\* Containers that differ in the keys of the innermost.
Keyed(cs, ds, keys) ==
    /\ AreOpen(ds) /\ Len(ds) = Len(cs)
    /\ \A i \in 1..Len(cs) : /\ ds[i].by = cs[i].by /\ ds[i].kind = cs[i].kind
                             /\ ds[i].keys = IF i = Len(cs) THEN cs[i].keys \cup keys ELSE cs[i].keys
IsChanged(ds, cs, n, x) == Sequence(ds) /\ Len(ds) = Len(cs) /\ \A i \in 1..Len(cs) : ds[i] = IF i = n THEN x ELSE cs[i]
LEMMA ChangedIs ==
    ASSUME NEW S, NEW cs \in Seq(S), NEW n \in 1..Len(cs), NEW x, NEW ds, ds = [cs EXCEPT ![n] = x]
    PROVE  IsChanged(ds, cs, n, x)
<1> DEFINE T == S \cup {x}
           k == Len(cs)
<1>1. k \in Nat /\ cs \in [1..k -> T] /\ x \in T
    OBVIOUS
<1> HIDE DEF T, k
<1>2. ds \in [1..k -> T] /\ \A i \in 1..k : ds[i] = IF i = n THEN x ELSE cs[i]
    BY <1>1
<1>3. ds \in Seq(T) /\ Len(ds) = k
    BY <1>1, <1>2
<1> QED BY <1>2, <1>3, SequenceBy DEF k, IsChanged
LEMMA FieldIs ==
    ASSUME NEW c, NEW keys, c = [by |-> c.by, kind |-> c.kind, keys |-> c.keys]
    PROVE  [c EXCEPT !.keys = keys] = [by |-> c.by, kind |-> c.kind, keys |-> keys]
<1>1. PICK a, b, k : c = [by |-> a, kind |-> b, keys |-> k] /\ c.by = a /\ c.kind = b
    OBVIOUS
<1>2. [[by |-> a, kind |-> b, keys |-> k] EXCEPT !.keys = keys] = [by |-> a, kind |-> b, keys |-> keys]
    OBVIOUS
<1> HIDE <1>1
<1>3. [c EXCEPT !.keys = keys] = [[by |-> a, kind |-> b, keys |-> k] EXCEPT !.keys = keys]
    BY <1>1, Zenon
<1>4. c.by = a /\ c.kind = b
    BY <1>1
<1> QED BY <1>2, <1>3, <1>4
LEMMA KeyedIs ==
    ASSUME NEW cs, AreOpen(cs), NEW keys, NEW ds,
           ds = IF cs = <<>> THEN cs ELSE [cs EXCEPT ![Len(cs)].keys = @ \cup keys]
    PROVE  Keyed(cs, ds, keys)
<1>0. PICK S : cs \in Seq(S)
    BY DEF AreOpen, Sequence
<1>1. Len(cs) \in Nat
    BY <1>0
<1>2. CASE cs = <<>>
  <2>1. ds = cs /\ 1..Len(cs) = {}
      BY <1>1, <1>2
  <2> QED BY <2>1 DEF Keyed, AreOpen
<1>3. CASE cs # <<>>
  <2> DEFINE n == Len(cs)
             c == cs[n]
             x == [by |-> c.by, kind |-> c.kind, keys |-> c.keys \cup keys]
  <2>1. n \in 1..n
      BY <1>0, <1>3
  <2>2. c = [by |-> c.by, kind |-> c.kind, keys |-> c.keys]
      BY <2>1 DEF AreOpen
  <2>3. [c EXCEPT !.keys = @ \cup keys] = x
      BY <2>2, FieldIs, Zenon
  <2> HIDE DEF x
  <2>4. ds = [cs EXCEPT ![n] = x]
      BY <1>3, <2>3
  <2>5. IsChanged(ds, cs, n, x)
      BY <1>0, <2>1, <2>4, ChangedIs
  <2>6. Len(ds) = n /\ \A i \in 1..n : ds[i] = IF i = n THEN x ELSE cs[i]
      BY <2>5 DEF IsChanged
  <2>7. Sequence(ds)
      BY <2>5 DEF IsChanged
  <2>8. x.by = c.by /\ x.kind = c.kind /\ x.keys = c.keys \cup keys /\ x = [by |-> x.by, kind |-> x.kind, keys |-> x.keys]
      BY DEF x
  <2>9. ASSUME NEW i \in 1..n
        PROVE  /\ ds[i].by = cs[i].by /\ ds[i].kind = cs[i].kind
               /\ ds[i].keys = IF i = n THEN cs[i].keys \cup keys ELSE cs[i].keys
               /\ ds[i] = [by |-> ds[i].by, kind |-> ds[i].kind, keys |-> ds[i].keys]
    <3>1. CASE i = n
        BY <2>6, <2>8, <3>1
    <3>2. CASE i # n
      <4>1. ds[i] = cs[i]
          BY <2>6, <3>2
      <4> QED BY <3>2, <4>1 DEF AreOpen
    <3> QED BY <3>1, <3>2
  <2> QED BY <2>6, <2>7, <2>9 DEF Keyed, AreOpen
<1> QED BY <1>2, <1>3
LEMMA KeyedMemory == ASSUME NEW cs, NEW ds, NEW keys, Keyed(cs, ds, keys) PROVE MemoryIn(ds) = MemoryIn(cs)
BY DEF Keyed, MemoryIn
LEMMA KeyedWithin ==
    ASSUME NEW cs, AreOpen(cs), NEW ds, NEW keys, Keyed(cs, ds, keys), NEW most \in Int, NEW names, NEW lenient, NEW s, NEW t,
           IsStateOf(s, cs, most, names, lenient),
           IsStateOf(t, ds, most, IF IsRoot(s) THEN names \cup keys ELSE names, lenient)
    PROVE  Within(t, More(s, keys))
<1> DEFINE m == More(s, keys)
<1>1. IsMore(m, s, keys) /\ IsState(s) /\ IsState(t)
    BY MoreIs DEF IsStateOf
<1>2. Len(cs) \in Nat /\ Len(ds) = Len(cs) /\ MemoryIn(ds) = MemoryIn(cs)
    BY MemoryInIs, KeyedMemory DEF Keyed, AreOpen
<1> HIDE DEF m
<1>3. /\ t.depth = m.depth /\ t.nested = m.nested /\ t.sections = m.sections
      /\ t.limit <= m.limit /\ m.lenient = t.lenient
    BY <1>1, <1>2 DEF IsStateOf, IsMore
<1>4. ASSUME NEW d \in 0..t.depth
      PROVE  t.at[d].by = m.at[d].by /\ t.at[d].kind = m.at[d].kind /\ t.at[d].keys \subseteq m.at[d].keys
  <2>1. t.depth = Len(cs) /\ s.depth = Len(cs) /\ d \in Nat
      BY <1>2 DEF IsStateOf
  <2>2. m.at[d].by = s.at[d].by /\ m.at[d].kind = s.at[d].kind /\ m.at[d].keys = IF d = s.depth THEN s.at[d].keys \cup keys ELSE s.at[d].keys
      BY <1>1, <2>1 DEF IsMore
  <2>3. CASE d = 0
    <3>1. t.at[d] = Ground /\ s.at[d] = Ground
        BY <1>2, <2>1, <2>3 DEF IsStateOf
    <3> QED BY <2>2, <3>1 DEF Ground
  <2>4. CASE d # 0
    <3>1. d \in 1..Len(cs)
        BY <1>2, <2>1, <2>4
    <3>2. t.at[d] = ds[d] /\ s.at[d] = cs[d]
        BY <1>2, <2>1, <3>1 DEF IsStateOf
    <3>3. ds[d].by = cs[d].by /\ ds[d].kind = cs[d].kind /\ ds[d].keys = IF d = Len(cs) THEN cs[d].keys \cup keys ELSE cs[d].keys
        BY <3>1 DEF Keyed
    <3> QED BY <2>1, <2>2, <2>4, <3>2, <3>3
  <2> QED BY <2>3, <2>4
<1>5. Within(t, m)
    BY <1>1, <1>3, <1>4, WithinBy
<1> QED BY <1>5 DEF m
IsAppended(es, cs, key, kind) ==
    /\ AreOpen(es) /\ Len(es) = Len(cs) + 1 /\ (\A i \in 1..Len(cs) : es[i] = cs[i])
    /\ es[Len(cs) + 1] = [by |-> key, kind |-> kind, keys |-> {}]
    /\ Cardinality(MemoryIn(es)) = Cardinality(MemoryIn(cs)) + One(kind)
LEMMA AppendIs ==
    ASSUME NEW cs, AreOpen(cs), NEW key, NEW kind, NEW es, es = Append(cs, [by |-> key, kind |-> kind, keys |-> {}])
    PROVE  IsAppended(es, cs, key, kind)
<1> DEFINE c == [by |-> key, kind |-> kind, keys |-> {}]
           n == Len(cs)
<1>0. PICK S : cs \in Seq(S)
    BY DEF AreOpen, Sequence
<1> DEFINE T == S \cup {c}
<1>1. c = [by |-> c.by, kind |-> c.kind, keys |-> c.keys] /\ c.kind = kind
    OBVIOUS
<1>2. cs \in Seq(T) /\ c \in T /\ es = Append(cs, c)
    BY <1>0
<1> HIDE DEF T, c
<1>3. n \in Nat /\ es \in Seq(T) /\ Len(es) = n + 1 /\ (\A i \in 1..n : es[i] = cs[i]) /\ es[n + 1] = c
    BY <1>2
<1> HIDE DEF n
<1>4. AreOpen(es)
  <2>1. Sequence(es)
      BY <1>3, SequenceBy
  <2>2. ASSUME NEW i \in 1..(n + 1) PROVE es[i] = [by |-> es[i].by, kind |-> es[i].kind, keys |-> es[i].keys]
    <3>1. CASE i = n + 1
        BY <1>1, <1>3, <3>1
    <3>2. CASE i # n + 1
      <4>1. i \in 1..n
          BY <1>3, <3>2
      <4> QED BY <1>3, <4>1 DEF AreOpen, n
    <3> QED BY <3>1, <3>2
  <2> QED BY <1>3, <2>1, <2>2 DEF AreOpen
<1>5. Cardinality(MemoryIn(es)) = Cardinality(MemoryIn(cs)) + One(kind)
  <2>1. IsFiniteSet(MemoryIn(cs)) /\ Cardinality(MemoryIn(cs)) \in Nat /\ MemoryIn(cs) \subseteq 1..n
      BY MemoryInIs DEF AreOpen, n
  <2>2. CASE kind = "beginMemory"
    <3>1. MemoryIn(es) = MemoryIn(cs) \cup {n + 1}
      <4>1. ASSUME NEW i \in 1..(n + 1) PROVE es[i].kind = "beginMemory" <=> (i \in MemoryIn(cs) \/ i = n + 1)
        <5>1. CASE i = n + 1
            BY <1>1, <1>3, <2>2, <5>1
        <5>2. CASE i # n + 1
          <6>1. i \in 1..n
              BY <1>3, <5>2
          <6> QED BY <1>3, <5>2, <6>1 DEF MemoryIn, n
        <5> QED BY <5>1, <5>2
      <4>2. MemoryIn(es) = {i \in 1..(n + 1) : es[i].kind = "beginMemory"}
          BY <1>3 DEF MemoryIn
      <4>3. n + 1 \in 1..(n + 1) /\ MemoryIn(cs) \subseteq 1..(n + 1)
          BY <1>3, <2>1
      <4> QED BY <4>1, <4>2, <4>3
    <3>2. n + 1 \notin MemoryIn(cs)
        BY <1>3, <2>1
    <3>3. Cardinality(MemoryIn(cs) \cup {n + 1}) = Cardinality(MemoryIn(cs)) + 1
        BY <2>1, <3>2, FS_AddElement
    <3> QED BY <2>2, <3>1, <3>3 DEF One
  <2>3. CASE kind # "beginMemory"
    <3>1. MemoryIn(es) = MemoryIn(cs)
      <4>1. ASSUME NEW i \in 1..(n + 1) PROVE es[i].kind = "beginMemory" <=> i \in MemoryIn(cs)
        <5>1. CASE i = n + 1
            BY <1>1, <1>3, <2>1, <2>3, <5>1
        <5>2. CASE i # n + 1
          <6>1. i \in 1..n
              BY <1>3, <5>2
          <6> QED BY <1>3, <6>1 DEF MemoryIn, n
        <5> QED BY <5>1, <5>2
      <4>2. MemoryIn(es) = {i \in 1..(n + 1) : es[i].kind = "beginMemory"}
          BY <1>3 DEF MemoryIn
      <4>3. MemoryIn(cs) \subseteq 1..(n + 1)
          BY <1>3, <2>1
      <4> QED BY <4>1, <4>2, <4>3
    <3> QED BY <2>1, <2>3, <3>1 DEF One
  <2> QED BY <2>2, <2>3
<1> QED BY <1>3, <1>4, <1>5 DEF n, c, IsAppended
LEMMA FrontIs ==
    ASSUME NEW es, AreOpen(es), es # <<>>, NEW cs, cs = Front(es)
    PROVE  /\ AreOpen(cs) /\ Len(es) = Len(cs) + 1 /\ (\A i \in 1..Len(cs) : cs[i] = es[i])
           /\ Cardinality(MemoryIn(es)) = Cardinality(MemoryIn(cs)) + One(es[Len(es)].kind)
<1> DEFINE n == Len(es) - 1
           c == es[n + 1]
<1>0. PICK S : es \in Seq(S)
    BY DEF AreOpen, Sequence
<1>1. n \in Nat /\ Len(es) = n + 1
    BY <1>0
<1>2. cs = SubSeq(es, 1, n)
    BY DEF Front
<1> HIDE DEF n
<1>3. cs \in Seq(S) /\ Len(cs) = n /\ \A i \in 1..n : cs[i] = es[i]
    BY <1>0, <1>1, <1>2
<1>4. c = [by |-> c.by, kind |-> c.kind, keys |-> c.keys]
  <2>1. n + 1 \in 1..Len(es)
      BY <1>1
  <2> QED BY <2>1 DEF AreOpen
<1>5. AreOpen(cs)
  <2>1. Sequence(cs)
      BY <1>3, SequenceBy
  <2>2. \A i \in 1..n : cs[i] = [by |-> cs[i].by, kind |-> cs[i].kind, keys |-> cs[i].keys]
    <3>1. \A i \in 1..n : i \in 1..Len(es)
        BY <1>1
    <3> QED BY <1>3, <3>1 DEF AreOpen
  <2> QED BY <1>3, <2>1, <2>2 DEF AreOpen
<1>6. Cardinality(MemoryIn(es)) = Cardinality(MemoryIn(cs)) + One(c.kind)
  <2>1. IsFiniteSet(MemoryIn(cs)) /\ Cardinality(MemoryIn(cs)) \in Nat /\ MemoryIn(cs) \subseteq 1..n
      BY <1>3, <1>5, MemoryInIs DEF AreOpen
  <2>2. MemoryIn(es) = {i \in 1..(n + 1) : es[i].kind = "beginMemory"}
      BY <1>1 DEF MemoryIn
  <2>3. MemoryIn(cs) = {i \in 1..n : es[i].kind = "beginMemory"}
      BY <1>3 DEF MemoryIn
  <2>4. 1..(n + 1) = (1..n) \cup {n + 1} /\ n + 1 \notin 1..n
      BY <1>1
  <2>5. CASE c.kind = "beginMemory"
    <3>1. MemoryIn(es) = MemoryIn(cs) \cup {n + 1} /\ n + 1 \notin MemoryIn(cs)
        BY <2>1, <2>2, <2>3, <2>4, <2>5
    <3>2. Cardinality(MemoryIn(cs) \cup {n + 1}) = Cardinality(MemoryIn(cs)) + 1
        BY <2>1, <3>1, FS_AddElement
    <3> QED BY <2>5, <3>1, <3>2 DEF One
  <2>6. CASE c.kind # "beginMemory"
    <3>1. MemoryIn(es) = MemoryIn(cs)
        BY <2>2, <2>3, <2>4, <2>6
    <3> QED BY <2>1, <2>6, <3>1 DEF One
  <2> QED BY <2>5, <2>6
<1> QED BY <1>1, <1>3, <1>5, <1>6
LEMMA PushedFrom ==
    ASSUME NEW cs, AreOpen(cs), NEW ds, NEW key, NEW kind, Keyed(cs, ds, {key}), NEW es,
           es = Append(ds, [by |-> key, kind |-> kind, keys |-> {}]),
           NEW most \in Int, NEW names, NEW lenient, NEW s, NEW t, IsStateOf(s, cs, most, names, lenient),
           IsStateOf(t, es, most, IF IsRoot(s) THEN names \cup {key} ELSE names, lenient)
    PROVE  Within(t, Pushed(s, key, kind))
<1> DEFINE c == [by |-> key, kind |-> kind, keys |-> {}]
           m == More(s, {key})
           p == Pushed(s, key, kind)
           all == IF IsRoot(s) THEN names \cup {key} ELSE names
           d == StateOf(ds, most, all, lenient)
           n == Len(cs)
<1>1. AreOpen(ds) /\ Len(ds) = n
    BY DEF Keyed
<1>2. IsStateOf(d, ds, most, all, lenient)
    BY <1>1, StateOfIs
<1>3. IsState(s) /\ IsState(t) /\ IsMore(m, s, {key}) /\ IsPushed(p, s, m, key, kind)
    BY MoreIs, PushedIs DEF IsStateOf
<1>4. n \in Nat /\ MemoryIn(ds) = MemoryIn(cs)
    BY MemoryInIs, KeyedMemory DEF AreOpen
<1> HIDE DEF d, p, m
<1>5. Within(d, m)
    BY <1>2, KeyedWithin DEF m
<1> HIDE DEF all, c
<1>6. /\ Len(es) = n + 1 /\ (\A i \in 1..n : es[i] = ds[i]) /\ es[n + 1] = c
      /\ Cardinality(MemoryIn(es)) = Cardinality(MemoryIn(cs)) + One(kind)
  <2>1. IsAppended(es, ds, key, kind)
      BY <1>1, AppendIs
  <2> QED BY <1>1, <1>4, <2>1 DEF IsAppended, c
<1> HIDE DEF n
<1>7. t.depth = n + 1 /\ s.depth = n /\ d.depth = n /\ p.depth = n + 1
    BY <1>1, <1>2, <1>3, <1>6 DEF IsStateOf, IsPushed, n
<1>8. /\ t.nested = p.nested /\ t.sections = p.sections
      /\ t.limit <= p.limit /\ p.lenient \subseteq t.lenient
  <2>1. t.nested = p.nested
      BY <1>3, <1>6 DEF IsStateOf, IsPushed
  <2>2. t.sections = all /\ m.sections = all
      BY <1>3 DEF IsStateOf, IsMore, all
  <2>3. t.limit = p.limit /\ p.lenient = t.lenient /\ t.limit \in Int
      BY <1>3 DEF IsStateOf, IsPushed
  <2> QED BY <1>3, <2>1, <2>2, <2>3 DEF IsPushed
<1>9. \A k \in Nat : t.at[k] = IF k \in 1..(n + 1) THEN es[k] ELSE Ground
    BY <1>6 DEF IsStateOf
<1>10. \A k \in Nat : d.at[k] = IF k \in 1..n THEN ds[k] ELSE Ground
    BY <1>1, <1>2 DEF IsStateOf
<1>11. ASSUME NEW k \in 0..t.depth
       PROVE  t.at[k].by = p.at[k].by /\ t.at[k].kind = p.at[k].kind /\ t.at[k].keys \subseteq p.at[k].keys
  <2>1. CASE k = n + 1
    <3>0. n + 1 \in 1..(n + 1) /\ n + 1 \in Nat
        BY <1>4
    <3>1. t.at[k] = c /\ p.at[k] = c
      <4>1. t.at[n + 1] = c
          BY <1>6, <1>9, <3>0
      <4>2. p.at[s.depth + 1] = c
          BY <1>3 DEF IsPushed, c
      <4> QED BY <1>7, <2>1, <4>1, <4>2
    <3> QED BY <3>1
  <2>2. CASE k # n + 1
    <3>1. k \in 0..n /\ k \in Nat
        BY <1>4, <1>7, <2>2
    <3>2. t.at[k] = d.at[k]
      <4>1. CASE k \in 1..n
        <5>1. k \in 1..(n + 1)
            BY <1>4, <4>1
        <5> QED BY <1>6, <1>9, <1>10, <3>1, <4>1, <5>1
      <4>2. CASE k \notin 1..n
        <5>1. k \notin 1..(n + 1)
            BY <1>4, <2>2, <4>2, <3>1
        <5> QED BY <1>9, <1>10, <3>1, <4>2, <5>1
      <4> QED BY <4>1, <4>2
    <3>3. p.at[k] = m.at[k]
        BY <1>3, <1>7, <3>1 DEF IsPushed
    <3>4. d.at[k].by = m.at[k].by /\ d.at[k].kind = m.at[k].kind /\ d.at[k].keys \subseteq m.at[k].keys
        BY <1>5, <1>7, <3>1 DEF Within
    <3> QED BY <3>2, <3>3, <3>4
  <2> QED BY <2>1, <2>2
<1>12. t.depth = p.depth
    BY <1>7
<1>13. Within(t, p)
    BY <1>3, <1>8, <1>11, <1>12, WithinBy
<1> QED BY <1>13 DEF p
LEMMA PoppedFrom ==
    ASSUME NEW es, AreOpen(es), NEW cs, cs = IF es = <<>> THEN es ELSE Front(es),
           NEW most \in Int, NEW names, NEW lenient, NEW s, NEW t,
           IsStateOf(s, es, most, names, lenient), IsStateOf(t, cs, most, names, lenient)
    PROVE  Within(t, Popped(s))
<1> DEFINE p == Popped(s)
           n == Len(cs)
<1>1. IsState(s) /\ IsState(t) /\ IsPopped(p, s)
    BY PoppedIs DEF IsStateOf
<1>2. Len(es) \in Nat
    BY MemoryInIs DEF AreOpen
<1> HIDE DEF p
<1>3. CASE es = <<>>
  <2>1. cs = es /\ Len(es) = 0
      BY <1>3
  <2>2. s.depth = 0 /\ t.depth = 0 /\ t.nested = s.nested /\ t.at[0] = s.at[0]
      BY <2>1 DEF IsStateOf
  <2>3. \A k \in 0..t.depth : t.at[k] = p.at[k]
      BY <1>1, <2>2 DEF IsPopped
  <2>4. t.depth = p.depth /\ t.nested = p.nested /\ t.sections = p.sections /\ t.limit <= p.limit /\ p.lenient \subseteq t.lenient
      BY <1>1, <2>2 DEF IsPopped, IsStateOf
  <2>5. Within(t, p)
      BY <1>1, <2>3, <2>4, WithinBy
  <2> QED BY <2>5 DEF p
<1>4. CASE es # <<>>
  <2>1. cs = Front(es)
      BY <1>4
  <2>2. /\ AreOpen(cs) /\ Len(es) = n + 1 /\ (\A i \in 1..n : cs[i] = es[i])
        /\ Cardinality(MemoryIn(es)) = Cardinality(MemoryIn(cs)) + One(es[Len(es)].kind)
      BY <1>4, <2>1, FrontIs
  <2>3. n \in Nat /\ Cardinality(MemoryIn(cs)) \in Nat
      BY <2>2, MemoryInIs DEF AreOpen
  <2> HIDE DEF n
  <2>4. s.depth = n + 1 /\ t.depth = n /\ p.depth = n
      BY <1>1, <2>2, <2>3 DEF IsStateOf, IsPopped, n
  <2>5. \A k \in Nat : /\ s.at[k] = IF k \in 1..(n + 1) THEN es[k] ELSE Ground
                       /\ t.at[k] = IF k \in 1..n THEN cs[k] ELSE Ground
      BY <2>2 DEF IsStateOf, n
  <2>6. TopOf(s).kind = es[n + 1].kind
    <3>1. n + 1 \in 1..(n + 1) /\ n + 1 \in Nat
        BY <2>3
    <3> QED BY <2>4, <2>5, <3>1 DEF TopOf
  <2>7. t.nested = p.nested
    <3>1. p.nested = s.nested - One(es[n + 1].kind) /\ t.nested = Cardinality(MemoryIn(cs))
        BY <1>1, <2>3, <2>4, <2>6 DEF IsPopped, IsStateOf
    <3>2. s.nested = Cardinality(MemoryIn(cs)) + One(es[n + 1].kind) /\ One(es[n + 1].kind) \in {0, 1}
        BY <2>2 DEF IsStateOf, One
    <3> QED BY <2>3, <3>1, <3>2
  <2>8. ASSUME NEW k \in 0..t.depth PROVE t.at[k] = p.at[k]
    <3>1. k \in Nat /\ (k \in 1..n => k \in 1..(n + 1)) /\ (k \notin 1..n => k \notin 1..(n + 1))
        BY <2>3, <2>4
    <3>2. t.at[k] = s.at[k]
        BY <2>2, <2>5, <3>1 DEF n
    <3> QED BY <1>1, <3>2 DEF IsPopped
  <2>9. t.depth = p.depth /\ t.sections = p.sections /\ t.limit <= p.limit /\ p.lenient \subseteq t.lenient
      BY <1>1, <2>4 DEF IsPopped, IsStateOf
  <2>10. Within(t, p)
      BY <1>1, <2>7, <2>8, <2>9, WithinBy
  <2> QED BY <2>10 DEF p
<1> QED BY <1>3, <1>4

-----------------------------------------------------------------------------
(* The invariant: what is left to do can be done, and ends with every section *)

Lenient == (IF setup.json \notin {"none", "object"} THEN {"ends"} ELSE {})
           \cup (IF setup.restricts \/ setup.json \in {"cut", "invalid"} THEN {"names"} ELSE {})
Actual == StateOf(containers, limit, sections, Lenient)
Finals == IF report = "standard" THEN {{"report", "binary_images", "process", "system", "crash", "user", "debug"}}
          ELSE {{}, SecondSections}
Ends(calls, s, json, finals) ==
    /\ Sequence(calls)
    /\ \E t : IsState(t) /\ Goes(calls, s, t) /\ (json \in {"none", "object"} => t.sections \in finals)
WholeInv ==
    /\ AreOpen(containers) /\ limit \in Int /\ limit <= SearchDepth
    /\ setup \in [json : UserJSON \cup {"none"}, restricts : BOOLEAN, introspects : BOOLEAN, left : OnDisk]
    /\ Ends(todo, Actual, setup.json, Finals)
    /\ ClosesItsOwn /\ NamedOnce /\ DepthBounded

LEMMA EndsBy ==
    ASSUME NEW calls, Sequence(calls), NEW s, NEW t, IsState(t), Goes(calls, s, t), NEW json, NEW finals,
           json \in {"none", "object"} => t.sections \in finals
    PROVE  Ends(calls, s, json, finals)
<1> SUFFICES \E u : IsState(u) /\ Goes(calls, s, u) /\ (json \in {"none", "object"} => u.sections \in finals)
    BY DEF Ends
<1> WITNESS t
<1> QED OBVIOUS
LEMMA EndsAfter ==
    ASSUME NEW c, Sequence(c), NEW d, NEW s, NEW t, IsState(s), IsState(t), Goes(c, s, t), NEW json, NEW finals,
           Ends(d, t, json, finals)
    PROVE  Ends(Join(c, d), s, json, finals)
<1>1. PICK u : IsState(u) /\ Goes(d, t, u) /\ (json \in {"none", "object"} => u.sections \in finals)
    BY DEF Ends
<1>2. Sequence(d) /\ Sequence(Join(c, d))
    BY Joined DEF Ends
<1>3. Goes(Join(c, d), s, u)
    BY <1>1, <1>2, GoesBoth
<1> QED BY <1>1, <1>2, <1>3, EndsBy
LEMMA EndsCall ==
    ASSUME NEW c, NEW d, NEW s, IsState(s), May(c, s), NEW json, NEW finals, Ends(d, After(c, s), json, finals)
    PROVE  Ends(Join(<<c>>, d), s, json, finals)
BY Lists, AfterIs, GoesOne, EndsAfter
LEMMA EndsNow ==
    ASSUME NEW s, IsState(s), NEW json, NEW finals
    PROVE  Ends(<<>>, s, json, finals) <=> (json \in {"none", "object"} => s.sections \in finals)
<1>1. ASSUME json \in {"none", "object"} => s.sections \in finals PROVE Ends(<<>>, s, json, finals)
  <2>1. Goes(<<>>, s, s)
      BY WithinRefl, GoesNone
  <2> QED BY <1>1, <2>1, Lists, EndsBy
<1>2. ASSUME Ends(<<>>, s, json, finals), json \in {"none", "object"} PROVE s.sections \in finals
  <2>1. PICK t : IsState(t) /\ Goes(<<>>, s, t) /\ t.sections \in finals
      BY <1>2 DEF Ends
  <2>2. PICK r : Path(r, <<>>, s, t)
      BY <2>1 DEF Goes
  <2>3. Len(<<>>) = 0
      OBVIOUS
  <2>4. Within(s, r[0]) /\ Within(r[0], t)
      BY <2>2, <2>3 DEF Path
  <2> QED BY <2>1, <2>4 DEF Within
<1> QED BY <1>1, <1>2
LEMMA EndsOnward ==
    ASSUME NEW calls, calls # <<>>, NEW s, IsState(s), NEW json, NEW finals, Ends(calls, s, json, finals)
    PROVE  May(Head(calls), s) /\ Ends(Tail(calls), After(Head(calls), s), json, finals)
<1>1. PICK t : IsState(t) /\ Goes(calls, s, t) /\ (json \in {"none", "object"} => t.sections \in finals)
    BY DEF Ends
<1>2. Sequence(calls)
    BY DEF Ends
<1>3. May(Head(calls), s) /\ Goes(Tail(calls), After(Head(calls), s), t)
    BY <1>1, <1>2, GoesFirst
<1>4. Sequence(Tail(calls))
  <2>1. PICK S : calls \in Seq(S)
      BY <1>2 DEF Sequence
  <2>2. Tail(calls) \in Seq(S)
      BY <2>1
  <2> QED BY <2>2, SequenceBy
<1> QED BY <1>1, <1>3, <1>4, EndsBy

LEMMA ActualIs ==
    ASSUME AreOpen(containers), limit \in Int
    PROVE  /\ IsStateOf(Actual, containers, limit, sections, Lenient) /\ IsState(Actual)
           /\ Top = TopOf(Actual) /\ Nested = Actual.nested
           /\ \A keys : InRoot(keys) = IF IsRoot(Actual) THEN sections \cup keys ELSE sections
<1> DEFINE a == Actual
           n == Len(containers)
<1>1. IsStateOf(a, containers, limit, sections, Lenient)
    BY StateOfIs DEF Actual
<1> HIDE DEF a
<1>2. PICK S : containers \in Seq(S)
    BY DEF AreOpen, Sequence
<1>3. n \in Nat /\ DOMAIN containers = 1..n /\ (containers = <<>> <=> n = 0)
    BY <1>2
<1> HIDE DEF n
<1>4. a.depth = n /\ \A d \in Nat : a.at[d] = IF d \in 1..n THEN containers[d] ELSE Ground
    BY <1>1 DEF IsStateOf, n
<1>5. Top = a.at[n]
  <2>1. CASE n = 0
    <3>1. Top = Ground
        BY <1>3, <2>1 DEF Top, Ground
    <3>2. a.at[n] = Ground
        BY <1>3, <1>4, <2>1
    <3> QED BY <3>1, <3>2
  <2>2. CASE n # 0
    <3>1. Top = containers[n]
        BY <1>3, <2>2 DEF Top, Last, n
    <3> QED BY <1>3, <1>4, <2>2, <3>1
  <2> QED BY <2>1, <2>2
<1>6. Nested = a.nested
    BY <1>1, <1>3 DEF Nested, IsStateOf, MemoryIn, n
<1>7. \A keys : InRoot(keys) = IF IsRoot(a) THEN sections \cup keys ELSE sections
    BY <1>4, <1>5 DEF InRoot, IsRoot, n
<1>8. Top = TopOf(a) /\ IsState(a)
    BY <1>1, <1>4, <1>5 DEF TopOf, IsStateOf
<1> QED BY <1>1, <1>6, <1>7, <1>8 DEF a
LEMMA NamesStay ==
    ASSUME AreOpen(containers), limit \in Int, ClosesItsOwn, NamedOnce, NEW keys, Fresh(Actual, keys),
           broken' = WrongNames(keys), setup' = setup
    PROVE  ClosesItsOwn' /\ NamedOnce'
<1>1. /\ Top.kind = "beginArray"
      \/ (NoKey \notin keys /\ ("names" \in Lenient \/ Top.by = "user_reported" \/ keys \cap Top.keys = {}))
    BY ActualIs DEF Fresh, Free, IsStateOf
<1>2. ASSUME NEW wrong \in broken', wrong \notin broken
      PROVE  wrong[1] = "twice" /\ (setup.restricts \/ wrong[2] = "user_reported" \/ setup.json \in {"cut", "invalid"})
  <2>1. wrong = <<"twice", Top.by>> /\ ("names" \in Lenient \/ Top.by = "user_reported")
      BY <1>1, <1>2 DEF WrongNames
  <2>2. "names" \in Lenient => setup.restricts \/ setup.json \in {"cut", "invalid"}
      BY DEF Lenient
  <2> QED BY <2>1, <2>2
<1>3. ClosesItsOwn'
    BY <1>2 DEF ClosesItsOwn
<1> QED BY <1>2, <1>3 DEF NamedOnce

-----------------------------------------------------------------------------
(* What a call does is what the judgement says of it                        *)

LEMMA SameCall ==
    ASSUME NEW c, NEW d, c.op = d.op, c.key = d.key, c.op \notin {"add", "copy"}, NEW s
    PROVE  After(c, s) = After(d, s) /\ (May(c, s) <=> May(d, s))
<1>1. After(c, s) = After(d, s)
    BY DEF After
<1>2. May(c, s) <=> May(d, s)
    BY DEF May
<1> QED BY <1>1, <1>2
LEMMA Ahead ==
    ASSUME WholeInv, todo # <<>>
    PROVE  /\ IsState(Actual) /\ IsState(After(Head(todo), Actual)) /\ Sequence(Rest)
           /\ May(Head(todo), Actual) /\ Ends(Rest, After(Head(todo), Actual), setup.json, Finals)
<1>1. IsState(Actual) /\ Ends(todo, Actual, setup.json, Finals)
    BY ActualIs DEF WholeInv
<1>2. May(Head(todo), Actual) /\ Ends(Rest, After(Head(todo), Actual), setup.json, Finals)
    BY <1>1, EndsOnward DEF Rest
<1>3. Sequence(Rest)
    BY <1>2 DEF Ends
<1> QED BY <1>1, <1>2, <1>3, AfterIs
LEMMA JoinNone == ASSUME NEW s, Sequence(s) PROVE Join(<<>>, s) = s
<1>1. PICK S : s \in Seq(S)
    BY DEF Sequence
<1> QED BY <1>1 DEF Join
LEMMA Does ==
    ASSUME WholeInv, todo # <<>>, UNCHANGED <<report, setup>>,
           AreOpen(containers'), limit' \in Int, limit' <= SearchDepth,
           NEW calls, Sequence(calls), todo' = Join(calls, Rest), Goes(calls, Actual', After(Head(todo), Actual)),
           ClosesItsOwn', NamedOnce', DepthBounded'
    PROVE  WholeInv'
<1> DEFINE a == After(Head(todo), Actual)
           b == Actual'
<1>1. IsState(a) /\ Ends(Rest, a, setup.json, Finals)
    BY Ahead
<1>2. IsState(b)
  <2>1. b = StateOf(containers', limit', sections', Lenient')
      BY DEF Actual
  <2>2. IsStateOf(StateOf(containers', limit', sections', Lenient'), containers', limit', sections', Lenient')
      BY StateOfIs
  <2> QED BY <2>1, <2>2 DEF IsStateOf
<1>3. Goes(calls, b, a)
    OBVIOUS
<1> HIDE DEF a, b
<1>4. Ends(Join(calls, Rest), b, setup.json, Finals)
    BY <1>1, <1>2, <1>3, EndsAfter
<1>5. Finals' = Finals /\ setup'.json = setup.json
    BY DEF Finals, SecondSections
<1>6. Ends(todo', b, setup'.json, Finals')
    BY <1>4, <1>5
<1> QED BY <1>6 DEF WholeInv, b
\* A call that is done at once.
LEMMA DoesOne ==
    ASSUME WholeInv, todo # <<>>, UNCHANGED <<report, setup>>, todo' = Rest,
           AreOpen(containers'), limit' \in Int, limit' <= SearchDepth, Within(Actual', After(Head(todo), Actual)),
           ClosesItsOwn', NamedOnce', DepthBounded'
    PROVE  WholeInv'
<1> DEFINE a == After(Head(todo), Actual)
           b == Actual'
<1>1. Sequence(Rest) /\ Sequence(<<>>)
    BY Ahead, Lists
<1>2. IsState(b)
  <2>1. b = StateOf(containers', limit', sections', Lenient')
      BY DEF Actual
  <2>2. IsStateOf(StateOf(containers', limit', sections', Lenient'), containers', limit', sections', Lenient')
      BY StateOfIs
  <2> QED BY <2>1, <2>2 DEF IsStateOf
<1>3. Within(b, a)
    OBVIOUS
<1> HIDE DEF a, b
<1>4. Goes(<<>>, b, a)
    BY <1>2, <1>3, GoesNone
<1>5. Join(<<>>, Rest) = Rest
    BY <1>1, JoinNone
<1> QED BY <1>1, <1>4, <1>5, Does DEF a, b
\* Memory is nested no deeper than the state after the call.
LEMMA NestedBy ==
    ASSUME AreOpen(containers'), NEW t, Within(Actual', t), t.nested <= SearchDepth
    PROVE  DepthBounded'
<1> DEFINE s == StateOf(containers', limit', sections', Lenient')
<1>1. s = Actual' /\ s.nested = Cardinality(MemoryIn(containers'))
    BY DEF Actual, StateOf
<1>2. PICK S : containers' \in Seq(S)
    BY DEF AreOpen, Sequence
<1>3. DOMAIN containers' = 1..Len(containers')
    BY <1>2
<1>4. Nested' = Cardinality(MemoryIn(containers'))
    BY <1>3 DEF Nested, MemoryIn
<1> HIDE DEF s
<1> QED BY <1>1, <1>4 DEF DepthBounded, Within
LEMMA NestedNow == ASSUME WholeInv PROVE Actual.nested \in Int /\ Actual.nested <= SearchDepth
<1>1. Nested = Actual.nested /\ IsState(Actual) /\ Nested <= SearchDepth
    BY ActualIs DEF WholeInv, DepthBounded
<1> QED BY <1>1, Numbers
LEMMA WithKeysIs == ASSUME AreOpen(containers), NEW keys PROVE Keyed(containers, WithKeys(keys), keys)
BY KeyedIs DEF WithKeys
LEMMA AddsKeys ==
    ASSUME WholeInv, todo # <<>>, NEW keys, UNCHANGED <<report, limit, setup>>,
           containers' = WithKeys(keys), sections' = InRoot(keys), broken' = WrongNames(keys), todo' = Rest,
           Fresh(Actual, keys), After(Head(todo), Actual) = More(Actual, keys)
    PROVE  WholeInv'
<1> DEFINE a == Actual
           b == Actual'
           m == More(a, keys)
<1>1. AreOpen(containers) /\ limit \in Int /\ limit <= SearchDepth /\ ClosesItsOwn /\ NamedOnce
    BY DEF WholeInv
<1>2. Keyed(containers, containers', keys) /\ AreOpen(containers')
    BY <1>1, WithKeysIs DEF Keyed
<1>3. IsStateOf(a, containers, limit, sections, Lenient) /\ IsMore(m, a, keys)
    BY <1>1, ActualIs, MoreIs
<1>4. IsStateOf(b, containers', limit, IF IsRoot(a) THEN sections \cup keys ELSE sections, Lenient)
  <2>1. b = StateOf(containers', limit, sections', Lenient)
      BY DEF Actual, Lenient
  <2>2. sections' = IF IsRoot(a) THEN sections \cup keys ELSE sections
      BY <1>1, ActualIs
  <2> QED BY <1>1, <1>2, <2>1, <2>2, StateOfIs
<1>5. ClosesItsOwn' /\ NamedOnce'
    BY <1>1, NamesStay
<1>6. a.nested <= SearchDepth
    BY NestedNow
<1> HIDE DEF a, b
<1>7. Within(b, m)
    BY <1>1, <1>2, <1>3, <1>4, KeyedWithin
<1> HIDE DEF m
<1>8. m.nested <= SearchDepth
    BY <1>3, <1>6 DEF IsMore
<1>9. DepthBounded'
    BY <1>2, <1>7, <1>8, NestedBy DEF b
<1>10. Within(Actual', After(Head(todo), Actual)) /\ limit' \in Int /\ limit' <= SearchDepth
    BY <1>1, <1>7 DEF a, b, m
<1> QED BY <1>2, <1>5, <1>9, <1>10, DoesOne
LEMMA AddStep == ASSUME WholeInv, todo # <<>>, Head(todo).op = "add", AddElements(Head(todo).keys) PROVE WholeInv'
<1>1. May(Head(todo), Actual)
    BY Ahead
<1>2. Fresh(Actual, Head(todo).keys)
    BY <1>1 DEF May
<1>3. After(Head(todo), Actual) = More(Actual, Head(todo).keys)
    BY AfterOf
<1> QED BY <1>2, <1>3, AddsKeys DEF AddElements
LEMMA CopyStep ==
    ASSUME WholeInv, todo # <<>>, Head(todo).op = "copy", Copy(Head(todo).keys)
    PROVE  WholeInv'
<1>1. May(Head(todo), Actual)
    BY Ahead
<1>2. Fresh(Actual, Head(todo).keys)
    BY <1>1 DEF May
<1>3. After(Head(todo), Actual) = More(Actual, Head(todo).keys)
    BY AfterOf
<1> QED BY <1>2, <1>3, AddsKeys DEF Copy
LEMMA OpenStep ==
    ASSUME WholeInv, todo # <<>>, Head(todo).op \in Begins, OpenContainer(Head(todo).op, Head(todo).key)
    PROVE  WholeInv'
<1> DEFINE a == Actual
           b == Actual'
           op == Head(todo).op
           key == Head(todo).key
           ds == WithKeys({key})
           m == More(a, {key})
           p == Pushed(a, key, op)
<1>1. AreOpen(containers) /\ limit \in Int /\ limit <= SearchDepth /\ ClosesItsOwn /\ NamedOnce
    BY DEF WholeInv
<1>2. Fresh(a, {key}) /\ (op = "beginMemory" => a.nested + 1 <= SearchDepth)
  <2>1. May(Head(todo), a)
      BY Ahead
  <2> HIDE DEF a
  <2> QED BY <2>1 DEF May, OfFiles, Begins, Room
<1>3. /\ containers' = Append(ds, [by |-> key, kind |-> op, keys |-> {}]) /\ sections' = InRoot({key})
      /\ broken' = WrongNames({key}) /\ todo' = Rest /\ UNCHANGED <<report, limit, setup>>
    BY DEF OpenContainer
<1>4. Keyed(containers, ds, {key}) /\ AreOpen(ds)
    BY <1>1, WithKeysIs DEF Keyed
<1>5. IsStateOf(a, containers, limit, sections, Lenient) /\ IsState(a)
    BY <1>1, ActualIs
<1>6. After(Head(todo), a) = p
    BY AfterOf
<1> HIDE DEF ds
<1>7. AreOpen(containers')
  <2>1. IsAppended(containers', ds, key, op)
      BY <1>3, <1>4, AppendIs
  <2> QED BY <2>1 DEF IsAppended
<1>8. IsStateOf(b, containers', limit, IF IsRoot(a) THEN sections \cup {key} ELSE sections, Lenient)
  <2>1. b = StateOf(containers', limit, sections', Lenient)
      BY <1>3 DEF Actual, Lenient
  <2>2. sections' = IF IsRoot(a) THEN sections \cup {key} ELSE sections
      BY <1>1, <1>3, ActualIs
  <2> QED BY <1>1, <1>7, <2>1, <2>2, StateOfIs
<1>9. ClosesItsOwn' /\ NamedOnce'
    BY <1>1, <1>2, <1>3, NamesStay
<1>10. a.nested <= SearchDepth /\ a.nested \in Int
    BY NestedNow
<1>11. IsPushed(p, a, m, key, op)
    BY <1>5, PushedIs
<1> HIDE DEF a, b, op, key, p, m
<1>12. Within(b, p)
    BY <1>1, <1>3, <1>4, <1>5, <1>8, PushedFrom DEF p
<1>13. p.nested <= SearchDepth
    BY <1>2, <1>10, <1>11 DEF IsPushed, One
<1>14. DepthBounded'
    BY <1>7, <1>12, <1>13, NestedBy DEF b
<1>15. Within(Actual', After(Head(todo), Actual)) /\ limit' \in Int /\ limit' <= SearchDepth
    BY <1>1, <1>3, <1>6, <1>12 DEF a, b
<1> QED BY <1>3, <1>7, <1>9, <1>14, <1>15, DoesOne
LEMMA EndStep == ASSUME WholeInv, todo # <<>>, Head(todo).op = "end", CloseContainer(Head(todo).key) PROVE WholeInv'
<1> DEFINE a == Actual
           b == Actual'
           key == Head(todo).key
           p == Popped(a)
<1>1. AreOpen(containers) /\ limit \in Int /\ limit <= SearchDepth /\ ClosesItsOwn /\ NamedOnce
    BY DEF WholeInv
<1>2. "ends" \in Lenient \/ (a.depth > 0 /\ TopOf(a).by = key)
  <2>1. May(Head(todo), a)
      BY Ahead
  <2>2. a.lenient = Lenient
      BY <1>1, ActualIs DEF IsStateOf
  <2> HIDE DEF a
  <2> QED BY <2>1, <2>2 DEF May
<1>3. /\ containers' = IF containers = <<>> THEN containers ELSE Front(containers)
      /\ broken' = IF containers # <<>> /\ Top.by = key THEN broken ELSE broken \cup {<<"notItsOwn", key>>}
      /\ todo' = Rest /\ UNCHANGED <<report, limit, setup, sections>>
    BY DEF CloseContainer
<1>4. IsStateOf(a, containers, limit, sections, Lenient) /\ IsState(a) /\ Top = TopOf(a)
    BY <1>1, ActualIs
<1>5. After(Head(todo), a) = p
    BY AfterOf
<1>6. AreOpen(containers')
  <2>1. CASE containers = <<>>
      BY <1>1, <1>3, <2>1
  <2>2. CASE containers # <<>>
    <3>1. containers' = Front(containers)
        BY <1>3, <2>2
    <3> QED BY <1>1, <2>2, <3>1, FrontIs
  <2> QED BY <2>1, <2>2
<1>7. IsStateOf(b, containers', limit, sections, Lenient)
  <2>1. b = StateOf(containers', limit, sections, Lenient)
      BY <1>3 DEF Actual, Lenient
  <2> QED BY <1>1, <1>6, <2>1, StateOfIs
<1>8. a.nested <= SearchDepth /\ a.nested \in Int
    BY NestedNow
<1>9. IsPopped(p, a)
    BY <1>4, PoppedIs
<1> HIDE DEF a, b, key, p
<1>10. ClosesItsOwn' /\ NamedOnce'
  <2>1. (containers # <<>> /\ Top.by = key) \/ setup.json \notin {"none", "object"}
    <3>1. a.depth > 0 => containers # <<>>
        BY <1>4 DEF IsStateOf
    <3> QED BY <1>2, <1>4, <3>1 DEF Lenient
  <2>2. \A wrong \in broken' : wrong \in broken \/ (setup.json \notin {"none", "object"} /\ wrong[1] = "notItsOwn")
      BY <1>3, <2>1
  <2>3. ClosesItsOwn'
      BY <1>1, <1>3, <2>2 DEF ClosesItsOwn
  <2> QED BY <1>1, <1>3, <2>2, <2>3 DEF NamedOnce
<1>11. Within(b, p)
    BY <1>1, <1>3, <1>4, <1>7, PoppedFrom DEF p
<1>12. p.nested <= SearchDepth
  <2>1. p.nested \in {a.nested, a.nested - 1}
      BY <1>8, <1>9 DEF IsPopped, One
  <2> QED BY <1>8, <2>1, ReportWriterAssumption
<1>13. DepthBounded'
    BY <1>6, <1>11, <1>12, NestedBy DEF b
<1>14. Within(Actual', After(Head(todo), Actual)) /\ limit' \in Int /\ limit' <= SearchDepth
    BY <1>1, <1>3, <1>5, <1>11 DEF a, b
<1> QED BY <1>3, <1>6, <1>10, <1>13, <1>14, DoesOne
\* A function puts calls in front, and may change the limit for them.
LEMMA DoesCalls ==
    ASSUME WholeInv, todo # <<>>, NEW sequences, Calls(sequences), limit' \in Int, limit' <= SearchDepth,
           \A calls \in sequences : Goes(calls, Limited(Actual, limit'), After(Head(todo), Actual)) /\ Sequence(calls)
    PROVE  WholeInv'
<1>1. PICK calls \in sequences : todo' = Join(calls, Rest)
    BY DEF Calls, Join
<1>2. UNCHANGED <<report, containers, sections, broken, setup>>
    BY DEF Calls
<1>3. Actual' = Limited(Actual, limit')
    BY <1>2 DEF Actual, Lenient, StateOf, Limited
<1>4. AreOpen(containers') /\ ClosesItsOwn' /\ NamedOnce' /\ DepthBounded'
    BY <1>2 DEF WholeInv, ClosesItsOwn, NamedOnce, DepthBounded, Nested
<1> QED BY <1>1, <1>2, <1>3, <1>4, Does
LEMMA Looked ==
    ASSUME WholeInv, todo # <<>>, Head(todo).op \notin {"add", "copy"}
    PROVE  /\ IsState(Actual) /\ Actual.limit = limit /\ limit \in Int /\ limit <= SearchDepth
           /\ setup.restricts => "names" \in Actual.lenient
           /\ May(CallTo(Head(todo).op, Head(todo).key), Actual)
           /\ After(CallTo(Head(todo).op, Head(todo).key), Actual) = After(Head(todo), Actual)
<1> DEFINE call == CallTo(Head(todo).op, Head(todo).key)
<1>1. call.op = Head(todo).op /\ call.key = Head(todo).key
    BY DEF CallTo
<1> HIDE DEF call
<1>2. May(Head(todo), Actual)
    BY Ahead
<1>3. May(call, Actual) /\ After(call, Actual) = After(Head(todo), Actual)
    BY <1>1, <1>2, SameCall
<1>4. AreOpen(containers) /\ limit \in Int /\ limit <= SearchDepth
    BY DEF WholeInv
<1>5. IsStateOf(Actual, containers, limit, sections, Lenient) /\ IsState(Actual)
    BY <1>4, ActualIs
<1>6. Actual.limit = limit /\ (setup.restricts => "names" \in Actual.lenient)
    BY <1>5 DEF IsStateOf, Lenient
<1> QED BY <1>3, <1>4, <1>5, <1>6 DEF call
LEMMA PlainStep ==
    ASSUME WholeInv, todo # <<>>, NEW op \in Plain, NEW key, Head(todo).op = op, Head(todo).key = key,
           Calls(Functions(op, key)), UNCHANGED limit
    PROVE  WholeInv'
<1>1. op \notin {"add", "copy"}
    BY DEF Plain
<1> DEFINE a == Actual
<1>2. /\ IsState(a) /\ a.limit = limit /\ limit \in Int /\ limit <= SearchDepth /\ May(CallTo(op, key), a)
      /\ After(CallTo(op, key), a) = After(Head(todo), a)
    BY <1>1, Looked
<1>3. Limited(a, limit') = a
    BY DEF Actual, StateOf, Limited
<1> HIDE DEF a
<1>4. ASSUME NEW calls \in Functions(op, key)
      PROVE  Goes(calls, Limited(a, limit'), After(Head(todo), a)) /\ Sequence(calls)
  <2>1. Goes(calls, a, After(CallTo(op, key), a)) /\ Sequence(calls)
      BY <1>2, PlainGoes
  <2> QED BY <1>2, <1>3, <2>1
<1>5. \A calls \in Functions(op, key) : Goes(calls, Limited(Actual, limit'), After(Head(todo), Actual)) /\ Sequence(calls)
    BY <1>4 DEF a
<1> QED BY <1>2, <1>5, DoesCalls
LEMMA SearchStep == ASSUME WholeInv, todo # <<>>, Head(todo).op = "search", Search PROVE WholeInv'
<1> DEFINE key == Head(todo).key
           a == Actual
           calls == <<CallTo("memory", key)>>
           sequences == {calls}
<1>1. /\ IsState(a) /\ May(CallTo("search", key), a) /\ After(CallTo("search", key), a) = After(Head(todo), a)
    BY Looked
<1>2. limit' = SearchDepth /\ limit' \in Int /\ limit' <= SearchDepth /\ Calls(sequences)
    BY ReportWriterAssumption DEF Search
<1> HIDE DEF a, key
<1>3. Goes(calls, Limited(a, limit'), After(Head(todo), a)) /\ Sequence(calls)
    BY <1>1, <1>2, SearchGoes, Lists
<1> HIDE DEF calls
<1>4. \A c \in sequences : Goes(c, Limited(Actual, limit'), After(Head(todo), Actual)) /\ Sequence(c)
    BY <1>3 DEF a
<1> HIDE DEF sequences
<1> QED BY <1>2, <1>4, DoesCalls
LEMMA MemoryStep ==
    ASSUME WholeInv, todo # <<>>, Head(todo).op = "memory", WriteMemory(Head(todo).key) PROVE WholeInv'
<1> DEFINE key == Head(todo).key
           a == Actual
           left == limit - 1
           sequences == MemoryContents(key, left)
<1>1. /\ IsState(a) /\ a.limit = limit /\ limit \in Int /\ limit <= SearchDepth /\ (setup.restricts => "names" \in a.lenient)
      /\ May(CallTo("memory", key), a) /\ After(CallTo("memory", key), a) = After(Head(todo), a)
    BY Looked
<1>2. limit' = left /\ Calls(sequences)
    BY DEF WriteMemory, Lowered
<1>3. limit' \in Int /\ limit' <= SearchDepth
    BY <1>1, <1>2, ReportWriterAssumption
<1> HIDE DEF a, key
<1>4. ASSUME NEW calls \in sequences PROVE Goes(calls, Limited(a, limit'), After(Head(todo), a)) /\ Sequence(calls)
  <2>1. left = a.limit - 1 /\ a.limit <= SearchDepth
      BY <1>1
  <2> HIDE DEF left
  <2>2. Goes(calls, Limited(a, left), After(CallTo("memory", key), a)) /\ Sequence(calls)
      BY <1>1, <2>1, MemoryGoes
  <2> QED BY <1>1, <1>2, <2>2
<1> HIDE DEF sequences
<1>5. \A c \in sequences : Goes(c, Limited(Actual, limit'), After(Head(todo), Actual)) /\ Sequence(c)
    BY <1>4 DEF a
<1> QED BY <1>2, <1>3, <1>5, DoesCalls
LEMMA IvarsStep ==
    ASSUME WholeInv, todo # <<>>, Head(todo).op = "ivars", WriteIvars(Head(todo).key) PROVE WholeInv'
<1> DEFINE key == Head(todo).key
           a == Actual
<1>1. /\ IsState(a) /\ a.limit = limit /\ limit \in Int /\ limit <= SearchDepth
      /\ May(CallTo("ivars", key), a) /\ After(CallTo("ivars", key), a) = After(Head(todo), a)
    BY Looked
<1> HIDE DEF a, key
<1>2. ASSUME NEW sequences, Calls(sequences), limit' \in Int, limit' <= limit,
             \A calls \in sequences :
                 \/ calls = Object(key, <<Add({"tagged_payload"})>>)
                 \/ \E ivars \in SUBSET Ivars : \E pointers \in SUBSET ivars : calls = UnknownObjectContents(key, ivars, pointers)
      PROVE  WholeInv'
  <2>1. ASSUME NEW calls \in sequences PROVE Goes(calls, Limited(a, limit'), After(Head(todo), a)) /\ Sequence(calls)
    <3>1. a.limit <= SearchDepth /\ limit' <= a.limit
        BY <1>1, <1>2
    <3>2. Goes(calls, Limited(a, limit'), After(CallTo("ivars", key), a)) /\ Sequence(calls)
        BY <1>1, <1>2, <3>1, IvarsGoes
    <3> QED BY <1>1, <3>2
  <2>2. \A c \in sequences : Goes(c, Limited(Actual, limit'), After(Head(todo), Actual)) /\ Sequence(c)
      BY <2>1 DEF a
  <2>3. limit' <= SearchDepth
      BY <1>1, <1>2, ReportWriterAssumption
  <2> QED BY <1>2, <2>2, <2>3, DoesCalls
<1>3. CASE Calls({Object(key, <<Add({"tagged_payload"})>>)}) /\ limit' = Lowered(1)
  <2>1. limit' \in Int /\ limit' <= limit
      BY <1>1, <1>3 DEF Lowered
  <2> QED BY <1>2, <1>3, <2>1
<1>4. ASSUME NEW ivars \in SUBSET Ivars, limit' = Lowered(1 + Cardinality(ivars)),
             Calls({UnknownObjectContents(key, ivars, p) : p \in SUBSET ivars})
      PROVE  WholeInv'
  <2> DEFINE sequences == {UnknownObjectContents(key, ivars, p) : p \in SUBSET ivars}
  <2>1. Cardinality(ivars) \in Nat
    <3>1. IsFiniteSet(ivars)
        BY ReportWriterAssumption, FS_Subset
    <3> QED BY <3>1, FS_CardinalityType
  <2>2. limit' \in Int /\ limit' <= limit
      BY <1>1, <1>4, <2>1 DEF Lowered
  <2>3. \A calls \in sequences : \E pointers \in SUBSET ivars : calls = UnknownObjectContents(key, ivars, pointers)
      OBVIOUS
  <2>4. Calls(sequences)
      BY <1>4
  <2> HIDE DEF sequences
  <2> QED BY <1>2, <2>2, <2>3, <2>4
<1> QED BY <1>3, <1>4 DEF WriteIvars, key
LEMMA FilesStep ==
    ASSUME WholeInv, todo # <<>>, Head(todo).op \in OfFiles, todo' = Rest,
           UNCHANGED <<report, containers, limit, sections, broken, setup>>
    PROVE  WholeInv'
<1>1. After(Head(todo), Actual) = Actual
    BY AfterOf
<1>2. Actual' = Actual /\ IsState(Actual)
    BY Ahead DEF Actual, Lenient
<1>3. Within(Actual', After(Head(todo), Actual))
    BY <1>1, <1>2, WithinRefl
<1>4. /\ AreOpen(containers') /\ limit' \in Int /\ limit' <= SearchDepth
      /\ ClosesItsOwn' /\ NamedOnce' /\ DepthBounded'
    BY DEF WholeInv, ClosesItsOwn, NamedOnce, DepthBounded, Nested
<1> QED BY <1>3, <1>4, DoesOne
\* A second report that cannot be opened has no section.
LEMMA UnopenedStep ==
    ASSUME WholeInv, todo # <<>>, report = "recrash", Head(todo).op = "open", todo' = <<>>,
           UNCHANGED <<report, containers, limit, sections, broken, setup>>
    PROVE  WholeInv'
<1>1. Actual' = Actual /\ IsState(Actual) /\ Finals' = Finals /\ May(Head(todo), Actual)
    BY Ahead DEF Actual, Lenient, Finals, SecondSections
<1>2. Actual.sections = {} /\ {} \in Finals
    BY <1>1 DEF May, Finals
<1>3. Ends(<<>>, Actual, setup.json, Finals)
    BY <1>1, <1>2, EndsNow
<1>4. Ends(todo', Actual', setup'.json, Finals')
    BY <1>1, <1>3
<1>5. /\ AreOpen(containers') /\ limit' \in Int /\ limit' <= SearchDepth
      /\ setup' \in [json : UserJSON \cup {"none"}, restricts : BOOLEAN, introspects : BOOLEAN, left : OnDisk]
      /\ ClosesItsOwn' /\ NamedOnce' /\ DepthBounded'
    BY DEF WholeInv, ClosesItsOwn, NamedOnce, DepthBounded, Nested
<1> QED BY <1>4, <1>5 DEF WholeInv
LEMMA CloseStep == ASSUME WholeInv, todo # <<>>, Head(todo).op = "close", Close PROVE WholeInv'
<1> DEFINE a == Actual
           b == Actual'
           c == Closed(a)
           none == <<>>
<1>1. /\ containers' = none /\ todo' = Rest /\ UNCHANGED <<report, limit, sections, broken, setup>>
    BY DEF Close
<1>2. limit \in Int /\ limit <= SearchDepth /\ AreOpen(containers) /\ ClosesItsOwn /\ NamedOnce
    BY DEF WholeInv
<1>3. IsStateOf(a, containers, limit, sections, Lenient) /\ IsState(a)
    BY <1>2, ActualIs
<1>4. AreOpen(none) /\ MemoryIn(none) = {} /\ Len(none) = 0
  <2>1. Len(<<>>) = 0 /\ 1..0 = {}
      OBVIOUS
  <2> QED BY <2>1, Lists DEF AreOpen, MemoryIn
<1>5. IsStateOf(b, none, limit, sections, Lenient)
  <2>1. b = StateOf(none, limit, sections, Lenient)
      BY <1>1 DEF Actual, Lenient
  <2> QED BY <1>2, <1>4, <2>1, StateOfIs
<1>6. After(Head(todo), a) = c
    BY AfterOf
<1>7. /\ c.depth = 0 /\ c.nested = 0 /\ c.limit = a.limit /\ c.lenient = a.lenient /\ c.sections = a.sections
      /\ c.at = a.at
    BY DEF Closed
<1> HIDE DEF a, b, c, none
<1>8. /\ b.depth = 0 /\ b.nested = 0 /\ b.at[0] = Ground
    BY <1>4, <1>5, FS_EmptySet DEF IsStateOf
<1>9. ASSUME NEW d \in 0..b.depth
      PROVE  b.at[d].by = c.at[d].by /\ b.at[d].kind = c.at[d].kind /\ b.at[d].keys \subseteq c.at[d].keys
  <2>1. d = 0 /\ a.at[0].by = NoKey /\ a.at[0].kind = "beginArray"
      BY <1>3, <1>8 DEF IsState
  <2> QED BY <1>7, <1>8, <2>1 DEF Ground
<1>10. Within(b, c)
  <2>1. b.depth = c.depth /\ b.nested = c.nested /\ b.sections = c.sections /\ b.limit <= c.limit /\ c.lenient \subseteq b.lenient
      BY <1>2, <1>3, <1>5, <1>7, <1>8 DEF IsStateOf
  <2>2. IsState(b)
      BY <1>5 DEF IsStateOf
  <2> QED BY <1>9, <2>1, <2>2, WithinBy
<1>11. c.nested <= SearchDepth
    BY <1>7, ReportWriterAssumption
<1>12. AreOpen(containers')
    BY <1>1, <1>4
<1>13. DepthBounded'
    BY <1>10, <1>11, <1>12, NestedBy DEF b
<1>14. ClosesItsOwn' /\ NamedOnce'
    BY <1>1, <1>2 DEF ClosesItsOwn, NamedOnce
<1>15. Within(Actual', After(Head(todo), Actual)) /\ limit' \in Int /\ limit' <= SearchDepth
    BY <1>1, <1>2, <1>6, <1>10 DEF a, b
<1> QED BY <1>1, <1>12, <1>13, <1>14, <1>15, DoesOne

-----------------------------------------------------------------------------
(* The user information                                                     *)

UserCallback == <<Add({"callback"})>>
UserEnd == <<End("user")>>
LEMMA UserLists ==
    /\ Sequence(UserCallback) /\ Sequence(UserEnd) /\ Sequence(UserTail) /\ Sequence(UserError)
    /\ UserClosed = Join(UserCallback, UserEnd)
    /\ UserSection("none") = <<Begin("user")>> /\ UserSection("object") = <<Begin("user")>>
    /\ UserSection("scalar") = <<Add({"user"})>> /\ UserSection("invalid") = UserError
    /\ UserSection("cut") = Join(<<Begin("user"), Begin("cut")>>, UserError)
<1>1. Sequence(UserCallback) /\ Sequence(UserEnd)
    BY Lists DEF UserCallback, UserEnd
<1>2. Sequence(UserTail)
    BY UserTailQuiet, SequenceQuiet
<1>3. Sequence(UserError)
    BY QuietAdd, QuietObject, SequenceQuiet DEF UserError
<1>4. UserClosed = Join(UserCallback, UserEnd)
    BY Two DEF UserClosed, UserCallback, UserEnd
<1>5. /\ UserSection("none") = <<Begin("user")>> /\ UserSection("object") = <<Begin("user")>>
      /\ UserSection("scalar") = <<Add({"user"})>> /\ UserSection("invalid") = UserError
    BY DEF UserSection
<1>6. UserSection("cut") = Join(<<Begin("user"), Begin("cut")>>, UserError)
    BY DEF UserSection, Join
<1> QED BY <1>1, <1>2, <1>3, <1>4, <1>5, <1>6
LEMMA UserParts ==
    ASSUME NEW section, Sequence(section)
    PROVE  section \o UserClosed \o UserTail = Join(Join(section, UserCallback), Join(UserEnd, UserTail))
<1>1. section \o UserClosed \o UserTail = Join(Join(section, Join(UserCallback, UserEnd)), UserTail)
    BY UserLists DEF Join
<1>2. Join(section, Join(UserCallback, UserEnd)) = Join(Join(section, UserCallback), UserEnd)
    BY UserLists, JoinAssoc
<1>3. Sequence(Join(section, UserCallback))
    BY UserLists, Joined
<1>4. Join(Join(Join(section, UserCallback), UserEnd), UserTail) = Join(Join(section, UserCallback), Join(UserEnd, UserTail))
    BY <1>3, UserLists, JoinAssoc
<1> QED BY <1>1, <1>2, <1>4

\* A container that is begun is ended.
LEMMA UserGoes ==
    ASSUME NEW s, IsState(s), s.limit <= SearchDepth, Fresh(s, {"user"}), s.depth > 0
    PROVE  /\ Goes(Join(Join(<<Begin("user")>>, UserCallback), UserEnd), s, More(s, {"user"}))
           /\ Sequence(Join(Join(<<Begin("user")>>, UserCallback), UserEnd))
<1> DEFINE h == Mode("inside", "own", "last")
           call == Begin("user")
           p == Pushed(s, "user", "begin")
<1>1. h.place = "inside" /\ h.names = "own" /\ h.memory = "last"
    BY DEF Mode
<1>2. call.op = "begin" /\ call.key = "user" /\ call.op \in Begins
    BY DEF Begin, Begins
<1>3. IsPushed(p, s, More(s, {"user"}), "user", "begin") /\ s.depth \in Nat
    BY PushedIs, Numbers
<1> HIDE DEF h, call, p
<1>4. Suits(p, h)
    BY <1>1, <1>3 DEF IsPushed, IsRoot, Suits
<1>5. May(call, s)
    BY <1>2 DEF May, Plain, OfFiles
<1>6. Adds(UserCallback, {"callback"}, h)
    BY AddsElements DEF UserCallback
<1>7. NoKey \notin {"callback"}
    BY DEF NoKey
<1>8. /\ Goes(Join(Join(<<call>>, UserCallback), <<End(call.key)>>), s, Left(s, {call.key}, h))
      /\ Sequence(Join(Join(<<call>>, UserCallback), <<End(call.key)>>))
    BY <1>2, <1>4, <1>5, <1>6, <1>7, ContainerGoes DEF p
<1>9. Left(s, {"user"}, h) = More(s, {"user"})
    BY <1>1 DEF Left
<1> QED BY <1>2, <1>8, <1>9 DEF call, UserEnd
\* What is not one makes the section end what the report began.
LEMMA LaxEnds ==
    ASSUME NEW m, IsState(m), "ends" \in m.lenient, m.nested = 0, m.limit <= SearchDepth, TopOf(m).kind # "beginMemory",
           m.depth = 1 \/ "names" \in m.lenient, NEW json, json \notin {"none", "object"}, NEW finals
    PROVE  Ends(Join(UserEnd, UserTail), m, json, finals)
<1> DEFINE c == End("user")
           d == CallTo("debug", "debug")
           e == End("root")
           f == CallTo("close", NoKey)
           p == Popped(m)
           q == After(d, p)
           r == After(e, q)
           t == After(f, r)
<1>1. c.op = "end" /\ d.op = "debug" /\ d.key = "debug" /\ e.op = "end" /\ f.op = "close"
    BY DEF End, CallTo
<1>2. IsPopped(p, m)
    BY PoppedIs
<1>3. UserEnd = <<c>> /\ UserTail = Join(<<d>>, Join(<<e>>, <<f>>))
    BY StandardParts DEF UserEnd
<1> HIDE DEF c, d, e, f, p
<1>4. IsState(p) /\ p.nested = 0 /\ p.lenient = m.lenient
  <2>1. One(TopOf(m).kind) = 0
      BY DEF One
  <2>2. p.nested = 0 \/ p.nested = 0 - One(TopOf(m).kind)
      BY <1>2 DEF IsPopped
  <2>3. p.nested = 0
      BY <2>1, <2>2
  <2> QED BY <1>2, <2>3 DEF IsPopped
<1>5. Fresh(p, {"debug"})
  <2>1. CASE m.depth = 1
    <3>1. p.depth = 0
        BY <1>2, <2>1 DEF IsPopped
    <3>2. TopOf(p).kind = "beginArray"
        BY <1>4, <3>1 DEF TopOf, IsState
    <3> QED BY <3>2 DEF Fresh
  <2>2. CASE "names" \in m.lenient
    <3>1. NoKey \notin {"debug"}
        BY DEF NoKey
    <3> QED BY <1>4, <2>2, <3>1 DEF Fresh, Free
  <2> QED BY <2>1, <2>2
<1>6. May(c, m) /\ After(c, m) = p
  <2>1. After(c, m) = p
      BY <1>1, AfterOf DEF p
  <2> QED BY <1>1, <2>1 DEF May, Plain, OfFiles
<1>7. May(d, p)
    BY <1>1, <1>4, <1>5 DEF May, Plain, OfFiles
<1>8. IsState(q) /\ "ends" \in q.lenient
  <2>1. q = Limited(More(p, {"debug"}), SearchDepth)
      BY <1>1, AfterOf DEF Plain
  <2>2. IsMore(More(p, {"debug"}), p, {"debug"})
      BY <1>4, MoreIs
  <2>3. IsState(More(p, {"debug"})) /\ More(p, {"debug"}).lenient = p.lenient
      BY <2>2 DEF IsMore
  <2>4. Limited(More(p, {"debug"}), SearchDepth).lenient = p.lenient
      BY <2>3 DEF Limited
  <2> QED BY <1>4, <2>1, <2>4, AfterIs
<1> HIDE DEF q
<1>9. May(e, q) /\ IsState(r)
    BY <1>1, <1>8, AfterIs DEF May, Plain, OfFiles
<1> HIDE DEF r
<1>10. May(f, r) /\ IsState(t)
    BY <1>1, <1>9, AfterIs DEF May, Plain, OfFiles
<1>11. Ends(<<f>>, r, json, finals)
  <2>1. Goes(<<f>>, r, t)
      BY <1>9, <1>10, GoesOne
  <2> HIDE DEF t
  <2> QED BY <1>10, <2>1, Lists, EndsBy
<1>12. Ends(Join(<<e>>, <<f>>), q, json, finals)
    BY <1>8, <1>9, <1>11, EndsCall DEF r
<1>13. Ends(UserTail, p, json, finals)
    BY <1>3, <1>4, <1>7, <1>12, EndsCall DEF q
<1> QED BY <1>3, <1>6, <1>13, EndsCall
UserKeys == {"user"} \cup {"callback"}
LEMMA UserErrorAdds ==
    ASSUME NEW h, Below(h)
    PROVE  Adds(Join(UserError, UserCallback), UserKeys, h) /\ Adds(Join(<<Add({"user"})>>, UserCallback), UserKeys, h)
<1>1. NoKey \notin {"error", "json_data"} /\ {"user"} \cap {"callback"} = {}
    BY DEF NoKey
<1>2. Adds(UserError, {"user"}, h)
    BY <1>1, ElementsAdd DEF UserError
<1>3. Adds(UserCallback, {"callback"}, h) /\ Adds(<<Add({"user"})>>, {"user"}, h)
    BY AddsElements DEF UserCallback
<1> QED BY <1>1, <1>2, <1>3, AddsBoth DEF UserKeys
LEMMA UserLax ==
    ASSUME NEW s, IsState(s), s.limit <= SearchDepth, "ends" \in s.lenient, s.nested = 0, IsRoot(s),
           TopOf(s).kind # "beginMemory", Fresh(s, UserKeys), NEW json \in {"scalar", "invalid", "cut"},
           json = "cut" => "names" \in s.lenient, NEW finals
    PROVE  Ends(Join(Join(UserSection(json), UserCallback), Join(UserEnd, UserTail)), s, json, finals)
<1> DEFINE h == Mode("below", "own", "none")
           rest == Join(UserEnd, UserTail)
           front == Join(UserSection(json), UserCallback)
<1>1. h.place = "below" /\ h.names = "own" /\ h.memory = "none" /\ Below(h)
    BY DEF Mode, Below
<1> HIDE DEF h, rest
<1>2. ASSUME NEW calls, Adds(calls, UserKeys, h), NEW q, IsState(q), q.limit <= SearchDepth, q.depth > 0, q.nested = 0,
             TopOf(q).kind # "beginMemory", q.lenient = s.lenient, q.depth = 1 \/ "names" \in q.lenient,
             Fresh(q, UserKeys)
      PROVE  Ends(Join(calls, rest), q, json, finals)
  <2> DEFINE m == Left(q, UserKeys, h)
  <2>1. Suits(q, h)
      BY <1>1, <1>2 DEF Suits
  <2>2. Goes(calls, q, m) /\ Sequence(calls)
      BY <1>2, <2>1 DEF Adds
  <2>3. IsLeft(m, q, UserKeys, h)
      BY <1>2, LeftIs
  <2> HIDE DEF m
  <2>4. IsState(m) /\ TopOf(m).kind = TopOf(q).kind
      BY <1>2, <2>3, TopOfLeft
  <2>5. m.depth = q.depth /\ m.nested = 0 /\ m.lenient = q.lenient /\ m.limit <= SearchDepth
    <3>1. SearchDepth <= SearchDepth
        BY ReportWriterAssumption
    <3> QED BY <1>1, <1>2, <2>3, <3>1 DEF IsLeft
  <2>6. Ends(rest, m, json, finals)
      BY <1>2, <2>4, <2>5, LaxEnds DEF rest
  <2> QED BY <1>2, <2>2, <2>4, <2>6, EndsAfter
<1>3. s.depth = 1
    BY DEF IsRoot
<1>4. CASE json = "scalar"
  <2>1. Adds(front, UserKeys, h)
      BY <1>1, <1>4, UserErrorAdds, UserLists
  <2> HIDE DEF front
  <2>2. Ends(Join(front, rest), s, json, finals)
      BY <1>2, <1>3, <2>1
  <2> QED BY <2>2 DEF rest, front
<1>5. CASE json = "invalid"
  <2>1. Adds(front, UserKeys, h)
      BY <1>1, <1>5, UserErrorAdds, UserLists
  <2> HIDE DEF front
  <2>2. Ends(Join(front, rest), s, json, finals)
      BY <1>2, <1>3, <2>1
  <2> QED BY <2>2 DEF rest, front
<1>6. CASE json = "cut"
  <2> DEFINE c == Begin("user")
             d == Begin("cut")
             p == Pushed(s, "user", "begin")
             q == Pushed(p, "cut", "begin")
             body == Join(UserError, UserCallback)
  <2>1. c.op = "begin" /\ c.key = "user" /\ d.op = "begin" /\ d.key = "cut"
      BY DEF Begin
  <2>2. IsPushed(p, s, More(s, {"user"}), "user", "begin")
      BY PushedIs
  <2> HIDE DEF c, d, p
  <2>3. /\ IsState(p) /\ p.depth = 2 /\ p.nested = 0 /\ p.limit = s.limit /\ p.lenient = s.lenient
        /\ TopOf(p).keys = {} /\ TopOf(p).kind = "begin"
      BY <1>3, <2>2 DEF IsPushed, One, TopOf
  <2>4. IsPushed(q, p, More(p, {"cut"}), "cut", "begin")
      BY <2>3, PushedIs
  <2> HIDE DEF q
  <2>5. /\ IsState(q) /\ q.depth = 3 /\ q.nested = 0 /\ q.limit = s.limit /\ q.lenient = s.lenient
        /\ TopOf(q).keys = {} /\ TopOf(q).kind = "begin"
      BY <2>3, <2>4 DEF IsPushed, One, TopOf
  <2>6. NoKey \notin UserKeys /\ NoKey \notin {"cut"} /\ {"user"} \subseteq UserKeys
      BY DEF NoKey, UserKeys
  <2>7. May(c, s) /\ After(c, s) = p
    <3>1. Fresh(s, {"user"})
        BY <2>6 DEF Fresh
    <3>2. After(c, s) = p
        BY <2>1, AfterOf DEF p, Begins
    <3> QED BY <2>1, <3>1, <3>2 DEF May, Plain, OfFiles
  <2>8. May(d, p) /\ After(d, p) = q
    <3>1. Fresh(p, {"cut"})
        BY <2>3, <2>6 DEF Fresh
    <3>2. After(d, p) = q
        BY <2>1, AfterOf DEF q, Begins
    <3> QED BY <2>1, <3>1, <3>2 DEF May, Plain, OfFiles
  <2>9. Adds(body, UserKeys, h)
      BY <1>1, UserErrorAdds
  <2> HIDE DEF body
  <2>10. Ends(Join(body, rest), q, json, finals)
    <3>1. Fresh(q, UserKeys)
        BY <2>5, <2>6 DEF Fresh
    <3> QED BY <1>2, <1>6, <2>5, <2>9, <3>1
  <2>11. Ends(Join(<<d>>, Join(body, rest)), p, json, finals)
      BY <2>3, <2>8, <2>10, EndsCall
  <2>12. Ends(Join(<<c>>, Join(<<d>>, Join(body, rest))), s, json, finals)
      BY <2>7, <2>11, EndsCall
  <2>13. Sequence(body) /\ Sequence(rest) /\ Sequence(Join(body, rest)) /\ Sequence(<<c>>) /\ Sequence(<<d>>) /\ Sequence(<<c, d>>)
      BY UserLists, Lists, Joined DEF body, rest
  <2>14. Join(front, rest) = Join(<<c>>, Join(<<d>>, Join(body, rest)))
    <3>1. front = Join(Join(<<c, d>>, UserError), UserCallback)
        BY <1>6, UserLists DEF c, d
    <3> HIDE DEF front
    <3>2. front = Join(<<c, d>>, body)
        BY <2>13, <3>1, UserLists, JoinAssoc DEF body
    <3>3. Join(front, rest) = Join(<<c, d>>, Join(body, rest))
        BY <2>13, <3>2, JoinAssoc
    <3>4. Join(<<c, d>>, Join(body, rest)) = Join(Join(<<c>>, <<d>>), Join(body, rest))
        BY Two
    <3> QED BY <2>13, <3>3, <3>4, JoinAssoc
  <2> HIDE DEF front
  <2>15. Ends(Join(front, rest), s, json, finals)
      BY <2>12, <2>14
  <2> QED BY <2>15 DEF front, rest
<1> QED BY <1>4, <1>5, <1>6
LEMMA UserStep ==
    ASSUME WholeInv, todo # <<>>, Head(todo).op = "user", Rest = UserTail, setup.json = "none", WriteUser PROVE WholeInv'
<1> DEFINE s == Actual
           b == Actual'
           m == More(s, {"user"})
           Setups == [json : UserJSON \cup {"none"}, restricts : BOOLEAN, introspects : BOOLEAN, left : OnDisk]
<1>1. /\ AreOpen(containers) /\ limit \in Int /\ limit <= SearchDepth /\ ClosesItsOwn /\ NamedOnce /\ DepthBounded
      /\ setup \in Setups
    BY DEF WholeInv
<1>2. /\ IsState(s) /\ May(Head(todo), s) /\ Ends(Rest, After(Head(todo), s), setup.json, Finals)
      /\ IsStateOf(s, containers, limit, sections, Lenient)
    BY <1>1, Ahead, ActualIs
<1>3. PICK json \in UserJSON :
        /\ todo' = UserSection(json) \o UserClosed \o UserTail /\ setup' = [setup EXCEPT !.json = json]
        /\ UNCHANGED <<report, containers, limit, sections, broken, copy>>
    BY DEF WriteUser
<1>4. setup' \in Setups /\ setup'.json = json /\ setup'.restricts = setup.restricts /\ setup'.left = setup.left
    BY <1>1, <1>3
<1> HIDE DEF Setups
<1>5. /\ ClosesItsOwn' /\ NamedOnce' /\ DepthBounded' /\ AreOpen(containers') /\ limit' \in Int /\ limit' <= SearchDepth
  <2>1. ClosesItsOwn'
      BY <1>1, <1>3 DEF ClosesItsOwn
  <2>2. NamedOnce'
      BY <1>1, <1>3, <1>4 DEF NamedOnce
  <2> QED BY <1>1, <1>3, <2>1, <2>2 DEF DepthBounded, Nested
<1>6. Finals' = Finals
    BY <1>3, <1>4 DEF Finals, SecondSections
<1>7. Sequence(UserSection(json)) /\ json \in {"none", "object", "scalar", "invalid", "cut"}
  <2>1. json \in {"none", "object", "scalar", "invalid", "cut"}
      BY ReportWriterAssumption
  <2>2. Sequence(<<Begin("user"), Begin("cut")>>) /\ Sequence(<<Begin("user")>>) /\ Sequence(<<Add({"user"})>>)
      BY Lists
  <2> QED BY <2>1, <2>2, UserLists, Joined
<1>8. todo' = Join(Join(UserSection(json), UserCallback), Join(UserEnd, UserTail))
    BY <1>3, <1>7, UserParts
<1>9. b = StateOf(containers, limit, sections, Lenient')
    BY <1>3 DEF Actual
<1>10. /\ IsRoot(s) /\ s.nested = 0 /\ Fresh(s, {"user", "callback"}) /\ Fresh(s, {"user"}) /\ Head(todo).key = "user"
  <2>1. May(Head(todo), s)
      BY <1>2
  <2> HIDE DEF s
  <2> QED BY <2>1 DEF May, Plain, OfFiles
<1>11. After(Head(todo), s) = m
    BY <1>10, AfterOf
<1>12. s.depth = 1 /\ s.limit <= SearchDepth
    BY <1>1, <1>2, <1>10 DEF IsRoot, IsStateOf
<1> HIDE DEF s, b, m
<1>13. Ends(todo', b, json, Finals)
  <2>1. CASE json \in {"none", "object"}
    <3>1. Lenient' = Lenient
        BY <1>4, <2>1 DEF Lenient
    <3>2. b = s
        BY <1>9, <3>1 DEF Actual, s
    <3>3. UserSection(json) = <<Begin("user")>>
        BY <2>1, UserLists
    <3> DEFINE user == Join(Join(<<Begin("user")>>, UserCallback), UserEnd)
    <3>4. Goes(user, s, m) /\ Sequence(user)
        BY <1>2, <1>10, <1>12, UserGoes DEF m
    <3>5. todo' = Join(user, UserTail)
      <4>1. Sequence(<<Begin("user")>>) /\ Sequence(Join(<<Begin("user")>>, UserCallback))
          BY Lists, UserLists, Joined
      <4> QED BY <1>8, <3>3, <4>1, UserLists, JoinAssoc
    <3> HIDE DEF user
    <3>6. Ends(UserTail, m, json, Finals)
        BY <1>2, <1>11, <2>1 DEF Ends
    <3>7. IsState(m)
        BY <1>2, MoreIs DEF m, IsMore
    <3> QED BY <1>2, <3>2, <3>4, <3>5, <3>6, <3>7, EndsAfter
  <2>2. CASE json \notin {"none", "object"}
    <3>1. /\ "ends" \in Lenient' /\ (json = "cut" => "names" \in Lenient') /\ Lenient \subseteq Lenient'
        BY <1>4, <2>2 DEF Lenient
    <3>2. IsStateOf(b, containers, limit, sections, Lenient')
        BY <1>1, <1>9, StateOfIs
    <3>3. IsState(b) /\ b.lenient = Lenient' /\ b.limit = limit /\ b.nested = s.nested /\ b.depth = s.depth
        BY <1>2, <3>2 DEF IsStateOf
    <3>4. Within(b, s)
      <4>1. \A d \in Nat : b.at[d] = s.at[d]
          BY <1>2, <3>2 DEF IsStateOf
      <4>2. s.depth \in Nat /\ s.sections = b.sections /\ s.limit = b.limit /\ s.lenient = Lenient
          BY <1>2, <3>2, Numbers DEF IsStateOf
      <4> QED BY <1>1, <3>1, <3>3, <4>1, <4>2, WithinBy
    <3>5. Fresh(b, {"user", "callback"}) /\ IsRoot(b)
        BY <1>2, <1>10, <3>3, <3>4, FreshWithin, TopsAre
    <3>6. TopOf(b).kind # "beginMemory"
      <4>1. Len(containers) = 1 /\ Cardinality(MemoryIn(containers)) = 0
          BY <1>2, <1>10, <1>12 DEF IsStateOf
      <4>2. MemoryIn(containers) = {}
          BY <1>1, <4>1, MemoryInIs, FS_EmptySet DEF AreOpen
      <4>3. TopOf(b) = containers[1]
          BY <1>12, <3>2, <3>3, <4>1 DEF IsStateOf, TopOf
      <4> QED BY <4>1, <4>2, <4>3 DEF MemoryIn
    <3>7. UserKeys = {"user", "callback"}
        BY DEF UserKeys
    <3>8. json \in {"scalar", "invalid", "cut"}
        BY <1>7, <2>2
    <3> QED BY <1>1, <1>8, <1>10, <3>1, <3>3, <3>5, <3>6, <3>7, <3>8, UserLax
  <2> QED BY <2>1, <2>2
<1>14. Ends(todo', Actual', setup'.json, Finals')
    BY <1>4, <1>6, <1>13 DEF b
<1> QED BY <1>4, <1>5, <1>14 DEF WholeInv, Setups

-----------------------------------------------------------------------------
(* The two reports                                                          *)

LEMMA StartIs ==
    ASSUME NEW s, NEW lenient, s = StateOf(<<>>, 0, {}, lenient)
    PROVE  /\ IsState(s) /\ s.depth = 0 /\ s.nested = 0 /\ s.limit = 0 /\ s.sections = {} /\ AreOpen(<<>>)
<1> DEFINE none == <<>>
<1>1. AreOpen(none) /\ MemoryIn(none) = {} /\ Len(none) = 0
  <2>1. Len(<<>>) = 0 /\ 1..0 = {}
      OBVIOUS
  <2> QED BY <2>1, Lists DEF AreOpen, MemoryIn
<1>2. s = StateOf(none, 0, {}, lenient)
    OBVIOUS
<1> HIDE DEF none
<1>3. 0 \in Int
    OBVIOUS
<1>4. IsStateOf(s, none, 0, {}, lenient)
    BY <1>1, <1>2, <1>3, StateOfIs
<1>5. IsState(s) /\ s.depth = 0 /\ s.nested = 0 /\ s.limit = 0 /\ s.sections = {}
    BY <1>1, <1>4, FS_EmptySet DEF IsStateOf
<1> QED BY <1>1, <1>5 DEF none
\* In its root a report writes its sections.
RootOf(r, keys, lenient) ==
    /\ IsState(r) /\ r.depth = 1 /\ r.nested = 0 /\ r.limit <= SearchDepth /\ IsRoot(r)
    /\ r.sections = keys /\ TopOf(r).keys = keys /\ r.lenient = lenient
LEMMA RootBegins ==
    ASSUME NEW s, IsState(s), s.depth = 0, s.nested = 0, s.limit = 0, s.sections = {}
    PROVE  May(Begin("root"), s) /\ RootOf(After(Begin("root"), s), {}, s.lenient)
<1> DEFINE c == Begin("root")
           p == Pushed(s, "root", "begin")
           m == More(s, {"root"})
<1>1. c.op = "begin" /\ c.key = "root"
    BY DEF Begin
<1>2. TopOf(s).kind = "beginArray" /\ ~IsRoot(s)
    BY DEF TopOf, IsState, IsRoot
<1> HIDE DEF c
<1>3. May(c, s)
    BY <1>1, <1>2 DEF May, Fresh, Plain, OfFiles
<1>4. After(c, s) = p
    BY <1>1, AfterOf DEF Begins
<1>5. IsPushed(p, s, m, "root", "begin") /\ IsMore(m, s, {"root"})
    BY PushedIs, MoreIs
<1> HIDE DEF p, m
<1>6. IsState(p) /\ p.depth = 1 /\ p.nested = 0 /\ p.limit = 0 /\ p.lenient = s.lenient /\ p.sections = {}
    BY <1>2, <1>5 DEF IsPushed, IsMore, One
<1>7. p.at[1] = [by |-> "root", kind |-> "begin", keys |-> {}]
    BY <1>5 DEF IsPushed
<1>8. TopOf(p).by = "root" /\ TopOf(p).keys = {} /\ IsRoot(p)
    BY <1>6, <1>7 DEF TopOf, IsRoot
<1>9. 0 <= SearchDepth
    BY ReportWriterAssumption
<1>10. RootOf(p, {}, s.lenient)
    BY <1>6, <1>8, <1>9 DEF RootOf
<1> QED BY <1>3, <1>4, <1>10 DEF c
LEMMA RootMore ==
    ASSUME NEW r, NEW A, NEW lenient, RootOf(r, A, lenient), NEW B, NEW most \in Int, most <= SearchDepth
    PROVE  RootOf(More(r, B), A \cup B, lenient) /\ RootOf(Limited(More(r, B), most), A \cup B, lenient)
<1> DEFINE m == More(r, B)
           q == Limited(m, most)
<1>1. IsMore(m, r, B)
    BY MoreIs DEF RootOf
<1> HIDE DEF m
<1>2. RootOf(m, A \cup B, lenient)
  <2>1. IsState(m) /\ m.depth = 1 /\ m.nested = 0 /\ m.limit <= SearchDepth /\ m.sections = A \cup B /\ m.lenient = lenient
      BY <1>1 DEF RootOf, IsMore
  <2>2. m.at[1].by = r.at[1].by /\ m.at[1].keys = r.at[1].keys \cup B /\ r.depth = 1
      BY <1>1 DEF RootOf, IsMore
  <2> QED BY <2>1, <2>2 DEF RootOf, IsRoot, TopOf
<1>3. IsState(q) /\ q.limit = most
    BY <1>2, LimitedKeeps DEF RootOf
<1>4. RootOf(q, A \cup B, lenient)
    BY <1>2, <1>3 DEF RootOf, IsRoot, TopOf, Limited
<1> QED BY <1>2, <1>4 DEF m
LEMMA Deepest == SearchDepth \in Int /\ SearchDepth <= SearchDepth
BY ReportWriterAssumption
LEMMA Four == ASSUME NEW w, NEW x, NEW y, NEW z PROVE Join(<<w, x>>, <<y, z>>) = <<w, x, y, z>>
<1>1. <<w, x, y, z>> = <<w, x>> \o <<y, z>>
    OBVIOUS
<1> QED BY <1>1 DEF Join
FromRoot(calls, A, lenient, json, finals) == \A r : RootOf(r, A, lenient) => Ends(calls, r, json, finals)
InTheRoot == Mode("below", "own", "none")
LEMMA InTheRootIs ==
    /\ Below(InTheRoot) /\ InTheRoot.memory = "none" /\ InTheRoot.names = "own" /\ InTheRoot.place = "below"
BY DEF InTheRoot, Mode, Below
LEMMA RootAdds ==
    ASSUME NEW calls, NEW B, Adds(calls, B, InTheRoot), NoKey \notin B, NEW A, A \cap B = {},
           NEW rest, NEW lenient, NEW json, NEW finals, FromRoot(rest, A \cup B, lenient, json, finals)
    PROVE  FromRoot(Join(calls, rest), A, lenient, json, finals)
<1> SUFFICES ASSUME NEW r, RootOf(r, A, lenient) PROVE Ends(Join(calls, rest), r, json, finals)
    BY DEF FromRoot
<1> DEFINE q == Limited(More(r, B), SearchDepth)
<1>1. IsState(r) /\ Suits(r, InTheRoot) /\ Fresh(r, B)
    BY InTheRootIs DEF RootOf, Suits, Fresh
<1>2. Left(r, B, InTheRoot) = q
    BY InTheRootIs DEF Left
<1>3. RootOf(q, A \cup B, lenient)
    BY Deepest, RootMore, Zenon
<1> HIDE DEF q
<1>4. Goes(calls, r, q) /\ Sequence(calls)
    BY <1>1, <1>2 DEF Adds
<1>5. IsState(q) /\ Ends(rest, q, json, finals)
    BY <1>3 DEF RootOf, FromRoot
<1> QED BY <1>1, <1>4, <1>5, EndsAfter
Copying(left) == IF left = "nothing" THEN {} ELSE {"recrash_report"}
LEMMA RootCall ==
    ASSUME NEW op, NEW key, NoKey # key, NEW A, key \notin A,
           \/ op = "user" /\ key = "user" /\ "callback" \notin A
           \/ op = "debug" /\ key = "debug",
           NEW rest, NEW lenient, NEW json, NEW finals, FromRoot(rest, A \cup {key}, lenient, json, finals)
    PROVE  FromRoot(Join(<<CallTo(op, key)>>, rest), A, lenient, json, finals)
<1> SUFFICES ASSUME NEW r, RootOf(r, A, lenient) PROVE Ends(Join(<<CallTo(op, key)>>, rest), r, json, finals)
    BY DEF FromRoot
<1> DEFINE c == CallTo(op, key)
           q == After(c, r)
<1>1. c.op = op /\ c.key = key
    BY DEF CallTo
<1> HIDE DEF c
<1>2. IsState(r) /\ r.nested = 0 /\ IsRoot(r) /\ TopOf(r).keys = A
    BY DEF RootOf
<1>3. May(c, r)
  <2>1. NoKey \notin {"user", "callback"}
      BY DEF NoKey
  <2> QED BY <1>1, <1>2, <2>1 DEF May, Fresh, Plain, OfFiles
<1>4. RootOf(q, A \cup {key}, lenient)
  <2>1. /\ RootOf(More(r, {key}), A \cup {key}, lenient)
        /\ RootOf(Limited(More(r, {key}), SearchDepth), A \cup {key}, lenient)
      BY Deepest, RootMore, Zenon
  <2>2. q = More(r, {key}) \/ q = Limited(More(r, {key}), SearchDepth)
      BY <1>1, AfterOf DEF Plain
  <2> HIDE DEF q
  <2> QED BY <2>1, <2>2
<1>5. Ends(rest, q, json, finals)
    BY <1>4 DEF FromRoot
<1>6. Ends(Join(<<c>>, rest), r, json, finals)
    BY <1>2, <1>3, <1>5, EndsCall
<1> QED BY <1>6 DEF c
LEMMA RootCopy ==
    ASSUME NEW left \in OnDisk, NEW rest, NEW lenient, NEW json, NEW finals,
           FromRoot(rest, Copying(left), lenient, json, finals)
    PROVE  FromRoot(Join(<<CopyOf(left)>>, rest), {}, lenient, json, finals)
<1> SUFFICES ASSUME NEW r, RootOf(r, {}, lenient) PROVE Ends(Join(<<CopyOf(left)>>, rest), r, json, finals)
    BY DEF FromRoot
<1> DEFINE c == CopyOf(left)
           A == Copying(left)
           q == After(c, r)
<1>1. c.op = "copy" /\ c.keys = A
    BY DEF CopyOf, Copying
<1>0. NoKey \notin A /\ {} \cap A = {} /\ {} \cup A = A
    BY DEF Copying, NoKey
<1> HIDE DEF c, A
<1>2. IsState(r) /\ TopOf(r).keys = {}
    BY DEF RootOf
<1>3. May(c, r)
  <2>1. Fresh(r, A)
      BY <1>0, <1>2 DEF Fresh
  <2> QED BY <1>1, <2>1 DEF May, Plain, OfFiles
<1>4. RootOf(q, A, lenient)
  <2>1. RootOf(More(r, A), {} \cup A, lenient)
      BY Deepest, RootMore, Zenon
  <2>2. q = More(r, A)
      BY <1>1, AfterOf
  <2> HIDE DEF q
  <2> QED BY <1>0, <2>1, <2>2
<1>5. Ends(rest, q, json, finals)
    BY <1>4 DEF FromRoot, A
<1>6. Ends(Join(<<c>>, rest), r, json, finals)
    BY <1>2, <1>3, <1>5, EndsCall
<1> QED BY <1>6 DEF c
LEMMA RootFile ==
    ASSUME NEW op \in {"flush", "remove"}, NEW A, NEW rest, NEW lenient, NEW json, NEW finals,
           FromRoot(rest, A, lenient, json, finals)
    PROVE  FromRoot(Join(<<CallTo(op, NoKey)>>, rest), A, lenient, json, finals)
<1> SUFFICES ASSUME NEW r, RootOf(r, A, lenient) PROVE Ends(Join(<<CallTo(op, NoKey)>>, rest), r, json, finals)
    BY DEF FromRoot
<1> DEFINE c == CallTo(op, NoKey)
<1>1. c.op = op
    BY DEF CallTo
<1> HIDE DEF c
<1>2. May(c, r) /\ After(c, r) = r
  <2>1. After(c, r) = r
      BY <1>1, AfterOf DEF OfFiles
  <2> QED BY <1>1, <2>1 DEF May, Plain, OfFiles
<1>3. IsState(r) /\ Ends(rest, After(c, r), json, finals)
    BY <1>2 DEF RootOf, FromRoot
<1>4. Ends(Join(<<c>>, rest), r, json, finals)
    BY <1>2, <1>3, EndsCall
<1> QED BY <1>4 DEF c
RootEnd == Join(<<End("root")>>, <<CallTo("close", NoKey)>>)
LEMMA RootEnds ==
    ASSUME NEW A, NEW lenient, NEW json, NEW finals, A \in finals PROVE FromRoot(RootEnd, A, lenient, json, finals)
<1> SUFFICES ASSUME NEW r, RootOf(r, A, lenient) PROVE Ends(RootEnd, r, json, finals)
    BY DEF FromRoot
<1> DEFINE e == End("root")
           f == CallTo("close", NoKey)
           p == Popped(r)
           t == Closed(p)
<1>1. e.op = "end" /\ e.key = "root" /\ f.op = "close"
    BY DEF End, CallTo
<1> HIDE DEF e, f
<1>2. IsState(r) /\ r.depth = 1 /\ TopOf(r).by = "root" /\ r.sections = A
    BY DEF RootOf, IsRoot, TopOf
<1>3. IsPopped(p, r)
    BY <1>2, PoppedIs
<1>4. May(e, r) /\ After(e, r) = p
  <2>1. After(e, r) = p
      BY <1>1, AfterOf
  <2> QED BY <1>1, <1>2, <2>1 DEF May, Plain, OfFiles
<1> HIDE DEF p
<1>5. IsState(p) /\ p.sections = A
    BY <1>2, <1>3 DEF IsPopped
<1>6. May(f, p) /\ After(f, p) = t
  <2>1. After(f, p) = t
      BY <1>1, AfterOf
  <2> QED BY <1>1, <2>1 DEF May, Plain, OfFiles
<1>7. IsState(t) /\ t.sections = A
    BY <1>5, ClosedIs DEF Closed
<1> HIDE DEF t
<1>8. Goes(<<f>>, p, t)
    BY <1>5, <1>6, GoesOne
<1>9. Ends(<<f>>, p, json, finals)
    BY <1>7, <1>8, Lists, EndsBy
<1>10. Ends(Join(<<e>>, <<f>>), r, json, finals)
    BY <1>2, <1>4, <1>9, EndsCall
<1> QED BY <1>10 DEF e, f, RootEnd
StandardKeys == {"report", "binary_images", "process", "system", "crash", "user", "debug"}
RecrashKeys(left) == {"report", "crash"} \cup Copying(left)
LEMMA StandardEnds ==
    ASSUME NEW s, IsState(s), s.depth = 0, s.nested = 0, s.limit = 0, s.sections = {}
    PROVE  Ends(StandardReport, s, "none", {StandardKeys})
<1> DEFINE h == InTheRoot
           a == <<CallTo("info", "report"), CallTo("images", "binary_images")>>
           b == <<CallTo("process", "process"), CallTo("system", "system")>>
           c == Object("crash", <<CallTo("error", "error"), CallTo("threads", "threads")>>)
           A == {"report"} \cup {"binary_images"}
           B == {"process"} \cup {"system"}
           C == {"crash"}
           ABC == (A \cup B) \cup C
           finals == {StandardKeys}
           lenient == s.lenient
<1>1. Below(h) /\ \A names : Below(Inside(names))
    BY InTheRootIs, InsideIs
<1>2. Adds(a, A, h) /\ Adds(b, B, h)
  <2>1. /\ Adds(<<CallTo("info", "report")>>, {"report"}, h) /\ Adds(<<CallTo("images", "binary_images")>>, {"binary_images"}, h)
        /\ Adds(<<CallTo("process", "process")>>, {"process"}, h) /\ Adds(<<CallTo("system", "system")>>, {"system"}, h)
      BY <1>1, CallAdds DEF Plain
  <2>2. {"report"} \cap {"binary_images"} = {} /\ {"process"} \cap {"system"} = {}
      OBVIOUS
  <2> QED BY <2>1, <2>2, AddsTwo
<1>3. Adds(c, C, h)
  <2>1. /\ Adds(<<CallTo("error", "error")>>, {"error"}, Inside("own")) /\ Adds(<<CallTo("threads", "threads")>>, {"threads"}, Inside("own"))
      BY <1>1, CallAdds DEF Plain
  <2>2. {"error"} \cap {"threads"} = {} /\ NoKey \notin {"error"} \cup {"threads"}
      BY DEF NoKey
  <2>3. Adds(<<CallTo("error", "error"), CallTo("threads", "threads")>>, {"error"} \cup {"threads"}, Inside("own"))
      BY <2>1, <2>2, AddsTwo
  <2> QED BY <2>2, <2>3, InTheRootIs, ObjectAdds
<1>4. BeforeUser = Join(Join(a, b), c)
  <2>1. Join(a, b) = <<CallTo("info", "report"), CallTo("images", "binary_images"), CallTo("process", "process"), CallTo("system", "system")>>
      BY Four, Zenon
  <2> HIDE DEF c
  <2> QED BY <2>1 DEF BeforeUser, c
<1>5. /\ A \cap B = {} /\ (A \cup B) \cap C = {} /\ NoKey \notin ABC /\ {} \cap ABC = {} /\ {} \cup ABC = ABC
      /\ "user" \notin ABC /\ "callback" \notin ABC /\ "debug" \notin ABC \cup {"user"}
      /\ (ABC \cup {"user"}) \cup {"debug"} = StandardKeys
      /\ NoKey # "user" /\ NoKey # "debug"
    BY DEF NoKey, StandardKeys
<1> HIDE DEF h, a, b, c, A, B, C
<1>6. Adds(BeforeUser, ABC, h)
  <2>1. Adds(Join(a, b), A \cup B, h)
      BY <1>2, <1>5, AddsBoth
  <2> QED BY <1>3, <1>4, <1>5, <2>1, AddsBoth
<1> HIDE DEF ABC
<1>7. FromRoot(RootEnd, (ABC \cup {"user"}) \cup {"debug"}, lenient, "none", finals)
    BY <1>5, RootEnds
<1> HIDE DEF finals, lenient
<1>8. FromRoot(UserTail, ABC \cup {"user"}, lenient, "none", finals)
  <2>1. UserTail = Join(<<CallTo("debug", "debug")>>, RootEnd)
      BY StandardParts DEF RootEnd
  <2> QED BY <1>5, <1>7, <2>1, RootCall
<1>9. FromRoot(UserAndTail, ABC, lenient, "none", finals)
  <2>1. UserAndTail = Join(<<CallTo("user", "user")>>, UserTail)
      BY DEF UserAndTail, Join
  <2> QED BY <1>5, <1>8, <2>1, RootCall
<1>10. FromRoot(Join(BeforeUser, UserAndTail), {}, lenient, "none", finals)
    BY <1>5, <1>6, <1>9, RootAdds DEF h
<1>11. May(Begin("root"), s) /\ RootOf(After(Begin("root"), s), {}, lenient)
    BY RootBegins DEF lenient
<1>12. Ends(Join(BeforeUser, UserAndTail), After(Begin("root"), s), "none", finals)
    BY <1>10, <1>11 DEF FromRoot
<1>13. Ends(Join(<<Begin("root")>>, Join(BeforeUser, UserAndTail)), s, "none", finals)
    BY <1>11, <1>12, EndsCall
<1>14. StandardReport = Join(<<Begin("root")>>, Join(BeforeUser, UserAndTail))
  <2>1. Sequence(BeforeUser) /\ Sequence(UserAndTail) /\ Sequence(<<Begin("root")>>)
    <3>1. Sequence(BeforeUser)
        BY StandardParts, SequenceQuiet
    <3>2. Sequence(UserAndTail)
        BY UserLists, InFront DEF UserAndTail
    <3> QED BY <3>1, <3>2, Lists
  <2> QED BY <2>1, StandardParts, JoinAssoc
<1> QED BY <1>13, <1>14 DEF finals
LEMMA RecrashEnds ==
    ASSUME NEW left \in OnDisk, NEW s, IsState(s), s.depth = 0, s.nested = 0, s.limit = 0, s.sections = {}
    PROVE  Ends(RecrashReport(left), s, "none", {{}, RecrashKeys(left)})
<1> DEFINE h == InTheRoot
           a == <<CallTo("info", "report")>>
           b == Object("crash", <<CallTo("error", "error"), CallTo("thread", "crashed_thread")>>)
           A == Copying(left)
           B == {"report"} \cup {"crash"}
           finals == {{}, RecrashKeys(left)}
           lenient == s.lenient
           rest == Join(Join(a, b), RootEnd)
<1>1. Below(h) /\ \A names : Below(Inside(names))
    BY InTheRootIs, InsideIs
<1>2. Adds(a, {"report"}, h)
    BY <1>1, CallAdds DEF Plain
<1>3. Adds(b, {"crash"}, h)
  <2>1. /\ Adds(<<CallTo("error", "error")>>, {"error"}, Inside("own"))
        /\ Adds(<<CallTo("thread", "crashed_thread")>>, {"crashed_thread"}, Inside("own"))
      BY <1>1, CallAdds DEF Plain
  <2>2. {"error"} \cap {"crashed_thread"} = {} /\ NoKey \notin {"error"} \cup {"crashed_thread"}
      BY DEF NoKey
  <2>3. Adds(<<CallTo("error", "error"), CallTo("thread", "crashed_thread")>>, {"error"} \cup {"crashed_thread"}, Inside("own"))
      BY <2>1, <2>2, AddsTwo
  <2> QED BY <2>2, <2>3, InTheRootIs, ObjectAdds
<1>4. /\ {"report"} \cap {"crash"} = {} /\ A \cap B = {} /\ NoKey \notin B /\ A \cup B \in finals
    BY DEF NoKey, RecrashKeys, Copying
<1>5. AfterEmbedded = rest
    BY Two DEF AfterEmbedded, RootEnd
<1>6. Sequence(rest)
  <2>1. Sequence(RootEnd)
      BY Lists, Joined DEF RootEnd
  <2> HIDE DEF a, b
  <2> QED BY <1>2, <1>3, <2>1, Joined DEF Adds
<1> HIDE DEF h, a, b, finals, lenient
<1>7. Adds(Join(a, b), B, h)
    BY <1>2, <1>3, <1>4, AddsBoth
<1>8. FromRoot(RootEnd, A \cup B, lenient, "none", finals)
    BY <1>4, RootEnds
<1> HIDE DEF A, B
<1>9. FromRoot(rest, A, lenient, "none", finals)
    BY <1>4, <1>7, <1>8, RootAdds DEF h
<1> HIDE DEF rest
<1>10. FromRoot(ToRemove(rest), A, lenient, "none", finals)
  <2>1. ToRemove(rest) = Join(<<CallTo("remove", NoKey)>>, rest)
      BY DEF ToRemove, Join
  <2> QED BY <1>9, <2>1, RootFile
<1>11. FromRoot(ToFlush(rest), A, lenient, "none", finals)
  <2>1. ToFlush(rest) = Join(<<CallTo("flush", NoKey)>>, ToRemove(rest))
      BY DEF ToFlush, Join
  <2> QED BY <1>10, <2>1, RootFile
<1>12. FromRoot(ToCopy(rest, left), {}, lenient, "none", finals)
  <2>1. ToCopy(rest, left) = Join(<<CopyOf(left)>>, ToFlush(rest))
      BY DEF ToCopy, Join
  <2> QED BY <1>11, <2>1, RootCopy DEF A
<1>13. Ends(ToRoot(rest, left), s, "none", finals)
  <2>1. ToRoot(rest, left) = Join(<<Begin("root")>>, ToCopy(rest, left))
      BY DEF ToRoot, Join
  <2>2. May(Begin("root"), s) /\ RootOf(After(Begin("root"), s), {}, lenient)
      BY RootBegins DEF lenient
  <2>3. Ends(ToCopy(rest, left), After(Begin("root"), s), "none", finals)
      BY <1>12, <2>2 DEF FromRoot
  <2> QED BY <2>1, <2>2, <2>3, EndsCall
<1>14. \A op \in {"open", "rename"} : May(CallTo(op, NoKey), s) /\ After(CallTo(op, NoKey), s) = s
  <2> SUFFICES ASSUME NEW op \in {"open", "rename"} PROVE May(CallTo(op, NoKey), s) /\ After(CallTo(op, NoKey), s) = s
      OBVIOUS
  <2> DEFINE c == CallTo(op, NoKey)
  <2>1. c.op = op
      BY DEF CallTo
  <2> HIDE DEF c
  <2>2. After(c, s) = s
      BY <2>1, AfterOf DEF OfFiles
  <2>3. May(c, s)
      BY <2>1 DEF May, Plain, OfFiles
  <2> QED BY <2>2, <2>3 DEF c
<1>15. Ends(ToOpen(rest, left), s, "none", finals)
  <2>1. ToOpen(rest, left) = Join(<<CallTo("open", NoKey)>>, ToRoot(rest, left))
      BY DEF ToOpen, Join
  <2> QED BY <1>13, <1>14, <2>1, EndsCall
<1>16. Ends(ToRename(rest, left), s, "none", finals)
  <2>1. ToRename(rest, left) = Join(<<CallTo("rename", NoKey)>>, ToOpen(rest, left))
      BY DEF ToRename, Join
  <2> QED BY <1>14, <1>15, <2>1, EndsCall
<1> QED BY <1>5, <1>16, RecrashParts DEF finals
LEMMA NoneNested == ASSUME NEW cs, cs = <<>> PROVE Cardinality({i \in DOMAIN cs : cs[i].kind = "beginMemory"}) <= SearchDepth
<1> DEFINE S == {i \in DOMAIN cs : cs[i].kind = "beginMemory"}
<1>1. DOMAIN cs = {}
    OBVIOUS
<1>2. S = {}
    BY <1>1
<1> HIDE DEF S
<1>3. Cardinality(S) = 0
    BY <1>2, FS_EmptySet
<1>4. Cardinality(S) <= SearchDepth
    BY <1>3, ReportWriterAssumption
<1> QED BY <1>4 DEF S
LEMMA WholeStart == ReportInit => WholeInv
<1> SUFFICES ASSUME ReportInit PROVE WholeInv
    OBVIOUS
<1> DEFINE a == Actual
<1>1. /\ containers = <<>> /\ limit = 0 /\ sections = {} /\ broken = {} /\ report = "standard" /\ todo = StandardReport
      /\ setup \in [json : {"none"}, restricts : BOOLEAN, introspects : BOOLEAN, left : {"nothing"}]
    BY DEF ReportInit
<1>2. /\ setup.json = "none" /\ setup \in [json : UserJSON \cup {"none"}, restricts : BOOLEAN, introspects : BOOLEAN, left : OnDisk]
    BY <1>1 DEF OnDisk
<1>3. a = StateOf(<<>>, 0, {}, Lenient)
    BY <1>1 DEF Actual
<1>4. IsState(a) /\ a.depth = 0 /\ a.nested = 0 /\ a.limit = 0 /\ a.sections = {} /\ AreOpen(<<>>)
    BY <1>3, StartIs
<1>5. Ends(StandardReport, a, "none", {StandardKeys})
    BY <1>4, StandardEnds
<1>6. Finals = {StandardKeys}
    BY <1>1 DEF Finals, StandardKeys
<1>7. ClosesItsOwn /\ NamedOnce
    BY <1>1 DEF ClosesItsOwn, NamedOnce
<1>8. DepthBounded
    BY <1>1, NoneNested DEF DepthBounded, Nested
<1>9. limit \in Int /\ limit <= SearchDepth
    BY <1>1, ReportWriterAssumption
<1> QED BY <1>1, <1>2, <1>4, <1>5, <1>6, <1>7, <1>8, <1>9 DEF WholeInv
LEMMA FaultStep == ASSUME WholeInv, Fault PROVE WholeInv'
<1> DEFINE a == Actual'
           Setups == [json : UserJSON \cup {"none"}, restricts : BOOLEAN, introspects : BOOLEAN, left : OnDisk]
<1>0. PICK left \in OnDisk : todo' = RecrashReport(left) /\ setup' = [setup EXCEPT !.json = "none", !.left = left]
    BY DEF Fault
<1>1. /\ containers' = <<>> /\ limit' = 0 /\ sections' = {} /\ broken' = {} /\ report' = "recrash"
      /\ todo' = RecrashReport(left) /\ setup' = [setup EXCEPT !.json = "none", !.left = left]
    BY <1>0 DEF Fault
<1>2. setup'.json = "none" /\ setup'.left = left /\ setup' \in Setups
    BY <1>1 DEF WholeInv
<1>3. a = StateOf(<<>>, 0, {}, Lenient')
    BY <1>1 DEF Actual
<1>4. IsState(a) /\ a.depth = 0 /\ a.nested = 0 /\ a.limit = 0 /\ a.sections = {} /\ AreOpen(<<>>)
    BY <1>3, StartIs
<1>5. Ends(RecrashReport(left), a, "none", {{}, RecrashKeys(left)})
    BY <1>4, RecrashEnds
<1>6. Finals' = {{}, RecrashKeys(left)}
    BY <1>1, <1>2 DEF Finals, SecondSections, RecrashKeys, Copying
<1>7. ClosesItsOwn' /\ NamedOnce'
    BY <1>1 DEF ClosesItsOwn, NamedOnce
<1>8. DepthBounded'
  <2>1. Nested' = Cardinality({i \in DOMAIN containers' : containers'[i].kind = "beginMemory"})
      BY DEF Nested
  <2> QED BY <1>1, <2>1, NoneNested DEF DepthBounded
<1>9. limit' \in Int /\ limit' <= SearchDepth
    BY <1>1, ReportWriterAssumption
<1> QED BY <1>1, <1>2, <1>4, <1>5, <1>6, <1>7, <1>8, <1>9 DEF WholeInv
\* The user information is asked for by a standard report, with its last part to follow;
\* a file is opened by the second report.
LEMMA OnceOnly ==
    ASSUME KeptInv, ReportStep
    PROVE  /\ Head(todo).op = "user" => Rest = UserTail /\ setup.json = "none"
           /\ Head(todo).op = "open" => report = "recrash"
<1>1. CASE Quiet(todo)
  <2>1. Head(todo).op \notin OnlyOnce
      BY <1>1, QuietTail DEF ReportStep
  <2> QED BY <2>1 DEF OnlyOnce
<1>2. CASE ~Quiet(todo) /\ report = "standard"
  <2>1. Awaits(todo) /\ setup.json = "none"
      BY <1>2 DEF KeptInv
  <2>2. \/ Head(todo).op = "user" /\ Rest = UserTail
        \/ Head(todo).op \notin OnlyOnce
      BY <2>1, AwaitsStep
  <2> QED BY <2>1, <2>2 DEF OnlyOnce
<1>3. CASE ~Quiet(todo) /\ report = "recrash"
  <2>1. PICK rest, left : /\ Quiet(rest)
                          /\ todo \in {ToRename(rest, left), ToOpen(rest, left), ToRoot(rest, left), ToCopy(rest, left),
                                       ToFlush(rest), ToRemove(rest)}
      BY <1>3 DEF KeptInv, Keeping
  <2>2. Head(todo).op # "user"
      BY <2>1, ToParts
  <2> QED BY <1>3, <2>2
<1> QED BY <1>1, <1>2, <1>3 DEF KeptInv
LEMMA WholeReportStep == ASSUME WholeInv, KeptInv, ReportStep PROVE WholeInv'
<1> DEFINE op == Head(todo).op
           key == Head(todo).key
           keys == Head(todo).keys
<1>1. todo # <<>> /\ Step(op, key)
    BY DEF ReportStep
<1>2. \/ op = "add" /\ AddElements(keys)
      \/ op \in {"begin", "beginArray", "beginMemory"} /\ OpenContainer(op, key)
      \/ op = "end" /\ CloseContainer(key)
      \/ op \in Plain /\ Calls(Functions(op, key)) /\ UNCHANGED limit
      \/ op = "user" /\ WriteUser
      \/ op = "search" /\ Search
      \/ op = "memory" /\ WriteMemory(key)
      \/ op = "ivars" /\ WriteIvars(key)
      \/ op = "rename" /\ RenameOld
      \/ op = "open" /\ Open
      \/ op = "copy" /\ Copy(keys)
      \/ op = "flush" /\ FlushCopy
      \/ op = "remove" /\ RemoveOld
      \/ op = "close" /\ Close
    BY <1>1 DEF Step
<1>3. CASE op = "add" /\ AddElements(keys)
    BY <1>1, <1>3, AddStep
<1>4. CASE op \in {"begin", "beginArray", "beginMemory"} /\ OpenContainer(op, key)
    BY <1>1, <1>4, OpenStep DEF Begins
<1>5. CASE op = "end" /\ CloseContainer(key)
    BY <1>1, <1>5, EndStep
<1>6. CASE op \in Plain /\ Calls(Functions(op, key)) /\ UNCHANGED limit
    BY <1>1, <1>6, PlainStep
<1>7. CASE op = "user" /\ WriteUser
    BY <1>1, <1>7, OnceOnly, UserStep
<1>8. CASE op = "search" /\ Search
    BY <1>1, <1>8, SearchStep
<1>9. CASE op = "memory" /\ WriteMemory(key)
    BY <1>1, <1>9, MemoryStep
<1>10. CASE op = "ivars" /\ WriteIvars(key)
    BY <1>1, <1>10, IvarsStep
<1>11. ASSUME op \in OfFiles, todo' = Rest, UNCHANGED <<report, containers, limit, sections, broken, setup>> PROVE WholeInv'
    BY <1>1, <1>11, FilesStep
<1>12. CASE op = "rename" /\ RenameOld
  <2>1. todo' = Rest /\ UNCHANGED <<report, containers, limit, sections, broken, setup>>
      BY <1>12 DEF RenameOld, FileStep
  <2> QED BY <1>11, <1>12, <2>1 DEF OfFiles
<1>13. CASE op = "open" /\ Open
  <2>1. CASE FileStep(copy)
    <3>1. todo' = Rest /\ UNCHANGED <<report, containers, limit, sections, broken, setup>>
        BY <2>1 DEF FileStep
    <3> QED BY <1>11, <1>13, <3>1 DEF OfFiles
  <2>2. CASE todo' = <<>> /\ UNCHANGED <<report, containers, limit, sections, broken, setup>>
      BY <1>1, <1>13, <2>2, OnceOnly, UnopenedStep
  <2> QED BY <1>13, <2>1, <2>2 DEF Open
<1>14. CASE op = "copy" /\ Copy(keys)
    BY <1>1, <1>14, CopyStep
<1>15. CASE op = "flush" /\ FlushCopy
  <2>1. todo' = Rest /\ UNCHANGED <<report, containers, limit, sections, broken, setup>>
      BY <1>15 DEF FlushCopy, FileStep
  <2> QED BY <1>11, <1>15, <2>1 DEF OfFiles
<1>16. CASE op = "remove" /\ RemoveOld
  <2>1. todo' = Rest /\ UNCHANGED <<report, containers, limit, sections, broken, setup>>
      BY <1>16 DEF RemoveOld, FileStep
  <2> QED BY <1>11, <1>16, <2>1 DEF OfFiles
<1>17. CASE op = "close" /\ Close
    BY <1>1, <1>17, CloseStep
<1> QED BY <1>2, <1>3, <1>4, <1>5, <1>6, <1>7, <1>8, <1>9, <1>10, <1>12, <1>13, <1>14, <1>15, <1>16, <1>17
LEMMA WholeStep == WholeInv /\ KeptInv /\ [ReportNext]_reportVars => WholeInv'
<1> SUFFICES ASSUME WholeInv, KeptInv, [ReportNext]_reportVars PROVE WholeInv'
    OBVIOUS
<1>1. CASE ReportStep
    BY <1>1, WholeReportStep
<1>2. CASE Fault
    BY <1>2, FaultStep
<1>3. CASE UNCHANGED reportVars
  <2>1. UNCHANGED <<report, todo, containers, limit, sections, broken, setup>>
      BY <1>3 DEF reportVars
  <2>2. Actual' = Actual /\ Finals' = Finals
      BY <2>1 DEF Actual, Lenient, Finals, SecondSections
  <2>3. ClosesItsOwn' /\ NamedOnce'
      BY <2>1 DEF WholeInv, ClosesItsOwn, NamedOnce
  <2>4. DepthBounded'
      BY <2>1 DEF WholeInv, DepthBounded, Nested
  <2> QED BY <2>1, <2>2, <2>3, <2>4 DEF WholeInv
<1> QED BY <1>1, <1>2, <1>3 DEF ReportNext
LEMMA WholeMeans == WholeInv /\ KeptInv => ReportWhole
<1> SUFFICES ASSUME WholeInv, KeptInv PROVE ReportWhole
    OBVIOUS
<1>1. ASSUME todo = <<>>, setup.json \in {"none", "object"} PROVE sections \in Finals
  <2>1. IsState(Actual) /\ Actual.sections = sections
      BY ActualIs DEF WholeInv, IsStateOf
  <2>2. Ends(<<>>, Actual, setup.json, Finals)
      BY <1>1 DEF WholeInv
  <2> QED BY <1>1, <2>1, <2>2, EndsNow
<1>2. AllSections
    BY <1>1 DEF AllSections, Finals, KeptInv
<1> QED BY <1>2 DEF WholeInv, ReportWhole

\* Wherever the crash, the memory and the caller's JSON lead the writer, and however
\* often it crashes itself, a report that was written to its end can be read: each
\* function closes what it opened, no container has an element without a name or two of
\* one name but where the code does not see to it, every section is in the root and the
\* introspection nests no deeper than its limit.
THEOREM ReportAlwaysWhole == ReportInit /\ [][ReportNext]_reportVars => []ReportWhole
<1>1. WholeInv /\ KeptInv /\ [ReportNext]_reportVars => (WholeInv /\ KeptInv)'
    BY WholeStep, KeptStep
<1> QED BY <1>1, WholeStart, KeptStart, WholeMeans, PTL
=============================================================================
