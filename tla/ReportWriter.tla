---------------------------- MODULE ReportWriter ----------------------------
(***************************************************************************)
(* The writer of crash reports, VicrabCrashReport.c: the sections of a     *)
(* standard report, the introspection of memory under its limit, and the   *)
(* report of a crash in the writer itself, which takes in the first one.   *)
(*                                                                         *)
(* A function of the writer is the set of the sequences of calls it may    *)
(* make; "todo" holds the calls that are left.  Of what is written the     *)
(* model keeps the containers that are open and the keys in each: the      *)
(* encoder and the copy of a file are JSONStream's, the file is that of    *)
(* FileBuffers.                                                            *)
(***************************************************************************)
EXTENDS Integers, Sequences, SequencesExt, FiniteSets

NoKey == ""

CONSTANTS
    SearchDepth,  \* kDefaultMemorySearchDepth
    Ivars,        \* ivars of a class that are written
    MaxElements,  \* bound on the threads, images and frames
    Notable,      \* registers and stack slots that may hold a notable address
    UserJSON      \* what g_userInfoJSON may be

ASSUME ReportWriterAssumption ==
    /\ SearchDepth \in Nat \ {0} /\ MaxElements \in Nat
    /\ IsFiniteSet(Ivars) /\ IsFiniteSet(Notable)
    /\ NoKey \notin Ivars \cup Notable  \* identifiers of a program, names of registers
    /\ UserJSON \subseteq {"none", "object", "scalar", "invalid", "cut"}

VARIABLES
    report,    \* which report is written: "standard" or "recrash"
    todo,      \* the calls that are left
    containers,\* the open containers, innermost last: who began it, how, and its keys
    limit,     \* how many more objects the introspection writes
    sections,  \* keys in the root of the report
    broken,    \* history: what went wrong, and where
    setup,     \* the introspection rules, what the user information turned out to be, and
               \* what the disk holds of the first report when a second is begun
    copy       \* where the first report is, how much of it is copied, and if that is on disk

reportVars == <<report, todo, containers, limit, sections, broken, setup, copy>>

-----------------------------------------------------------------------------
(* Calls, and sequences of them *)

Begin(key) == [op |-> "begin", key |-> key, keys |-> {}]
BeginArray(key) == [op |-> "beginArray", key |-> key, keys |-> {}]
BeginMemory(key) == [op |-> "beginMemory", key |-> key, keys |-> {}]
End(key) == [op |-> "end", key |-> key, keys |-> {}]
Add(keys) == [op |-> "add", key |-> NoKey, keys |-> keys]
CallTo(function, key) == [op |-> function, key |-> key, keys |-> {}]

\* A call whose elements are written or left out, each by a condition on the crash.
MayAdd(keys) == {Add(chosen) : chosen \in SUBSET keys}
Times(call, n) == [i \in 1..n |-> call]
Several(call) == {Times(call, n) : n \in 0..MaxElements}
Object(key, calls) == <<Begin(key)>> \o calls \o <<End(key)>>
MemoryObject(key, calls) == <<BeginMemory(key)>> \o calls \o <<End(key)>>
Array(key, calls) == <<BeginArray(key)>> \o calls \o <<End(key)>>

-----------------------------------------------------------------------------
(* Memory *)

\* writeObjCObject, when the class may be looked into: with the limit left after it
ObjectElements(left) == {<<>>, <<Add({"value"})>>} \cup
    (IF left > 0 THEN {<<CallTo("memory", "first_object")>>, <<CallTo("ivars", "ivars")>>} ELSE {})
\* A class, a block; an object of a class that is restricted is taken for no object
\* after its class is written.
NotAnObject == {<<Add({"type"})>>, <<Add({"type", "value"})>>}
Restricted == {<<Add({"type", "class"})>> \o inside : inside \in NotAnObject}
UnrestrictedOrNot(left) == {<<Add({"type", "class"})>> \o inside : inside \in ObjectElements(left) \cup NotAnObject}
Unrestricted(left) == {<<Add({"type", "class"})>> \o inside : inside \in ObjectElements(left)}
ObjCObject(left) == Unrestricted(left) \cup (IF setup.restricts THEN Restricted ELSE {})

\* writeMemoryContents
MemoryContents(key, left) ==
    {MemoryObject(key, <<zombie>> \o inside) :
        zombie \in {Add({"address"}), Add({"address", "last_deallocated_obj"})}, inside \in ObjCObject(left) \cup NotAnObject}
\* writeUnknownObjectContents: a tagged pointer, or the ivars of the class
UnknownObjectContents(key, ivars, pointers) ==
    Object(key, <<Add(ivars \ pointers)>> \o [i \in 1..Cardinality(pointers) |->
                                               CallTo("memory", SetToSeq(pointers)[i])])

\* writeAddressReferencedByString, writeMemoryContentsIfNotable: each sets the limit
Referenced(key) == {<<>>, <<CallTo("search", key)>>}

-----------------------------------------------------------------------------
(* Threads, images, the error *)

SymbolKeys == {"object_addr", "symbol_addr", "instruction_addr"}
Frame == {Object(NoKey, <<Add({"instruction_addr"})>>)} \cup
         {Object(NoKey, <<Add(SymbolKeys), names>>) : names \in MayAdd({"object_name", "symbol_name"})}
Backtrace(key) == {Object(key, Array("contents", frames) \o <<Add({"skipped"})>>) : frames \in Several(CallTo("frame", NoKey))}
StackContents(key) == {<<>>} \cup
    {Object(key, <<Add({"grow_direction", "dump_start", "dump_end", "stack_pointer", "overflow"}), Add({contents})>>) :
        contents \in {"contents", "error"}}
Registers(key) == {Object(key, Object("basic", <<Add(Notable)>>)),
                   Object(key, Object("basic", <<Add(Notable)>>) \o Object("exception", <<Add({"exception"})>>))}
NotableAddresses(key) ==
    {Object(key, [i \in 1..Cardinality(found) |-> CallTo("search", SetToSeq(found)[i])]) : found \in SUBSET Notable}
Thread(key) ==
    {Object(key, <<CallTo("backtrace", "backtrace")>> \o registers \o <<Add({"index"}), names>>
                 \o <<Add({"crashed", "current_thread"})>> \o crashed) :
        registers \in {<<>>, <<CallTo("registers", "registers")>>},
        names \in MayAdd({"name", "dispatch_queue"}),
        crashed \in {<<>>, <<CallTo("stack", "stack")>>}
                    \cup (IF setup.introspects /\ report = "standard"
                          THEN {<<CallTo("stack", "stack"), CallTo("notable", "notable_addresses")>>} ELSE {})}
AllThreads(key) == {Array(key, threads) : threads \in Several(CallTo("thread", NoKey))}

ImageKeys == {"image_addr", "image_vmaddr", "image_size", "name", "uuid", "cpu_type", "cpu_subtype",
              "major_version", "minor_version", "revision_version"}
\* writeBinaryImage writes nothing for an image that is gone.
Image(key) == {<<>>, Object(key, <<Add(ImageKeys)>>)}
BinaryImages(key) == {Array(key, images) : images \in Several(CallTo("image", NoKey))}

\* The trace of a user report is JSON of the caller's, which may be cut anywhere.
CustomTrace == {<<>>, <<Add({"backtrace"})>>} \cup
    {partly \o Object("backtrace", <<Add({"error", "json_data"})>>) :
        partly \in {<<>>, <<Begin("backtrace"), End("backtrace")>>}}
Specific ==
    {<<>>, Object("cpp_exception", <<Add({"name"})>>)}
    \cup {Object("nsexception", <<Add({"name", "userInfo"})>> \o object) : object \in Referenced("referenced_object")}
    \cup {Object("user_reported", <<Add({"name"}), about>> \o trace) :
            about \in MayAdd({"language", "line_of_code"}), trace \in CustomTrace}
Error(key) ==
    {Object(key, Object("mach", <<Add({"exception", "code", "subcode"}), mach>>)
                 \o Object("signal", <<Add({"signal", "code"}), signal>>)
                 \o <<Add({"address"}), reason, Add({"type"})>> \o specific) :
        mach \in MayAdd({"exception_name", "code_name"}), signal \in MayAdd({"name", "code_name"}),
        reason \in MayAdd({"reason"}), specific \in Specific}

-----------------------------------------------------------------------------
(* Sections *)

ReportInfo(key) == {Object(key, <<Add({"version", "id", "process_name", "timestamp", "type"})>>)}
ProcessState(key) == {Object(key, <<>>)} \cup
    {Object(key, Object("last_dealloced_nsexception", <<Add({"address", "name", "reason"})>> \o object)) :
        object \in Referenced("referenced_object")}
SystemKeys == {"system_name", "system_version", "machine", "model", "kernel_version", "os_version", "jailbroken",
    "boot_time", "app_start_time", "CFBundleExecutablePath", "CFBundleExecutable", "CFBundleIdentifier",
    "CFBundleName", "CFBundleVersion", "CFBundleShortVersionString", "app_uuid", "cpu_arch", "cpu_type",
    "cpu_subtype", "binary_cpu_type", "binary_cpu_subtype", "time_zone", "process_name", "process_id",
    "parent_process_id", "device_app_hash", "build_type", "storage"}
AppStatsKeys == {"application_active", "application_in_foreground", "launches_since_last_crash",
    "sessions_since_last_crash", "active_time_since_last_crash", "background_time_since_last_crash",
    "sessions_since_launch", "active_time_since_launch", "background_time_since_launch"}
SystemInfo(key) == {Object(key, <<Add(SystemKeys)>> \o Object("memory", <<Add({"size", "usable", "free"})>>)
                                \o Object("application_stats", <<Add(AppStatsKeys)>>))}
\* addTextLinesFromFile writes nothing when the log cannot be opened.
DebugInfo(key) == {Object(key, <<>>), Object(key, Array("console_log", <<>>))}

\* What the section starts with: the user information leaves its last container open;
\* what cannot be decoded is followed by an object that says so.
UserError == Object("user", <<Add({"error", "json_data"})>>)
UserSection(json) ==
    CASE json \in {"none", "object"} -> <<Begin("user")>>
      [] json = "scalar" -> <<Add({"user"})>>
      [] json = "invalid" -> UserError
      [] json = "cut" -> <<Begin("user"), Begin("cut")>> \o UserError
\* The callback adds elements and keeps its containers closed, as it is told to.
UserNotClosed == <<Add({"callback"})>>
UserClosed == <<Add({"callback"}), End("user")>>

UpToUser == <<CallTo("info", "report"), CallTo("images", "binary_images"), CallTo("process", "process"),
              CallTo("system", "system")>>
            \o Object("crash", <<CallTo("error", "error"), CallTo("threads", "threads")>>) \o <<CallTo("user", "user")>>
StandardReport == Object("root", UpToUser \o <<CallTo("debug", "debug")>>) \o <<CallTo("close", NoKey)>>

\* The first report is renamed, copied, flushed and removed, whatever becomes of the copy
\* and of the flush.  A first report of which nothing is on disk leaves no element.
CopyOf(left) == [op |-> "copy", key |-> NoKey, keys |-> IF left = "nothing" THEN {} ELSE {"recrash_report"}]
Embedded(left) == <<CallTo("rename", NoKey), CallTo("open", NoKey), Begin("root"), CopyOf(left),
                    CallTo("flush", NoKey), CallTo("remove", NoKey)>>
RecrashReport(left) ==
    Embedded(left) \o <<CallTo("info", "report")>>
    \o Object("crash", <<CallTo("error", "error"), CallTo("thread", "crashed_thread")>>)
    \o <<End("root"), CallTo("close", NoKey)>>

-----------------------------------------------------------------------------
(* What a call does *)

NoCopy == [at |-> "path", copied |-> "nothing", flushed |-> FALSE]
OnDisk == {"nothing", "some"}
ReportInit ==
    /\ report = "standard" /\ todo = StandardReport
    /\ containers = <<>> /\ limit = 0 /\ sections = {} /\ broken = {}
    /\ setup \in [json : {"none"}, restricts : BOOLEAN, introspects : BOOLEAN, left : {"nothing"}]
    /\ copy = NoCopy

Rest == Tail(todo)
Top == IF containers = <<>> THEN [by |-> NoKey, kind |-> "beginArray", keys |-> {}] ELSE Last(containers)

\* beginElement: an element of an object has a name, and no other has it.
WrongNames(keys) ==
    broken \cup (IF Top.kind # "beginArray" /\ NoKey \in keys THEN {<<"unnamed", Top.by>>} ELSE {})
           \cup (IF Top.kind # "beginArray" /\ keys \cap Top.keys # {} THEN {<<"twice", Top.by>>} ELSE {})
WithKeys(keys) == IF containers = <<>> THEN containers
                  ELSE [containers EXCEPT ![Len(containers)].keys = @ \cup keys]
InRoot(keys) == IF Len(containers) = 1 /\ Top.by = "root" THEN sections \cup keys ELSE sections

AddElements(keys) ==
    /\ containers' = WithKeys(keys)
    /\ sections' = InRoot(keys) /\ broken' = WrongNames(keys)
    /\ todo' = Rest
    /\ UNCHANGED <<report, limit, setup, copy>>

OpenContainer(op, key) ==
    /\ containers' = Append(WithKeys({key}), [by |-> key, kind |-> op, keys |-> {}])
    /\ sections' = InRoot({key}) /\ broken' = WrongNames({key})
    /\ todo' = Rest
    /\ UNCHANGED <<report, limit, setup, copy>>

CloseContainer(key) ==
    /\ containers' = IF containers = <<>> THEN containers ELSE Front(containers)
    /\ broken' = IF containers # <<>> /\ Top.by = key THEN broken ELSE broken \cup {<<"notItsOwn", key>>}
    /\ todo' = Rest
    /\ UNCHANGED <<report, limit, sections, setup, copy>>

\* A function puts its calls in front.
Calls(sequences) ==
    /\ \E calls \in sequences : todo' = calls \o Rest
    /\ UNCHANGED <<report, containers, sections, broken, setup, copy>>

Functions(op, key) ==
    CASE op = "info" -> ReportInfo(key) [] op = "images" -> BinaryImages(key) [] op = "image" -> Image(key)
      [] op = "process" -> ProcessState(key)
      [] op = "system" -> SystemInfo(key) [] op = "error" -> Error(key) [] op = "threads" -> AllThreads(key)
      [] op = "thread" -> Thread(key) [] op = "backtrace" -> Backtrace(key) [] op = "frame" -> Frame
      [] op = "registers" -> Registers(key) [] op = "stack" -> StackContents(key) [] op = "notable" -> NotableAddresses(key)
      [] op = "debug" -> DebugInfo(key)
Plain == {"info", "images", "image", "process", "system", "error", "threads", "thread", "backtrace", "frame", "registers",
          "stack", "notable", "debug"}

\* The limit is one for all the objects below an address.
Search == Calls({<<CallTo("memory", Head(todo).key)>>}) /\ limit' = SearchDepth
Lowered(count) == limit - count
WriteMemory(key) == Calls(MemoryContents(key, Lowered(1))) /\ limit' = Lowered(1)
\* The count of the ivars is taken off, though those that are pointers take one more.
WriteIvars(key) ==
    \/ Calls({Object(key, <<Add({"tagged_payload"})>>)}) /\ limit' = Lowered(1)
    \/ \E ivars \in SUBSET Ivars : /\ limit' = Lowered(1 + Cardinality(ivars))
                                   /\ Calls({UnknownObjectContents(key, ivars, p) : p \in SUBSET ivars})

WriteUser == \E json \in UserJSON :
    /\ todo' = UserSection(json) \o UserClosed \o Rest
    /\ setup' = [setup EXCEPT !.json = json]
    /\ UNCHANGED <<report, containers, limit, sections, broken, copy>>

-----------------------------------------------------------------------------
(* Files *)

FileStep(copyNext) ==
    /\ copy' = copyNext /\ todo' = Rest
    /\ UNCHANGED <<report, containers, limit, sections, broken, setup>>
RenameOld == \E at \in {"old", "path"} : FileStep([copy EXCEPT !.at = at])
\* The file is made anew (O_EXCL): not when the first report is still there.
Open ==
    \/ copy.at = "old" /\ FileStep(copy)
    \/ /\ todo' = <<>>
       /\ UNCHANGED <<report, containers, limit, sections, broken, setup, copy>>
\* addJSONFromFile closes what the first report left open, and what the codec left of it
\* when it met a name, a string or an element it has no room for; nobody asks which.
Copy(keys) ==
    /\ \E copied \in (IF keys = {} THEN {"nothing"} ELSE {"part", "whole"}) :
          copy' = [copy EXCEPT !.copied = copied]
    /\ containers' = WithKeys(keys) /\ sections' = InRoot(keys)
    /\ broken' = WrongNames(keys)
    /\ todo' = Rest
    /\ UNCHANGED <<report, limit, setup>>
\* The writes may fail, and the first report goes all the same.
FlushCopy == \E flushed \in BOOLEAN : FileStep([copy EXCEPT !.flushed = flushed])
RemoveOld == FileStep([NoCopy EXCEPT !.at = "gone"])
\* endEncode closes what is open.
Close ==
    /\ containers' = <<>> /\ todo' = Rest
    /\ UNCHANGED <<report, limit, sections, broken, setup, copy>>

\* The writer itself crashes: the next report takes in this one, as far as it was flushed.
Fault ==
    /\ report = "standard" /\ todo # <<>>
    /\ report' = "recrash"
    /\ \E left \in OnDisk : /\ todo' = RecrashReport(left)
                          /\ setup' = [setup EXCEPT !.json = "none", !.left = left]
    /\ containers' = <<>> /\ limit' = 0 /\ sections' = {} /\ broken' = {}
    /\ UNCHANGED copy

Step(op, key) ==
    /\ todo # <<>> /\ op = Head(todo).op /\ key = Head(todo).key
    /\ \/ op = "add" /\ AddElements(Head(todo).keys)
       \/ op \in {"begin", "beginArray", "beginMemory"} /\ OpenContainer(op, key)
       \/ op = "end" /\ CloseContainer(key)
       \/ op \in Plain /\ Calls(Functions(op, key)) /\ UNCHANGED limit
       \/ op = "user" /\ WriteUser
       \/ op = "search" /\ Search
       \/ op = "memory" /\ WriteMemory(key)
       \/ op = "ivars" /\ WriteIvars(key)
       \/ op = "rename" /\ RenameOld
       \/ op = "open" /\ Open
       \/ op = "copy" /\ Copy(Head(todo).keys)
       \/ op = "flush" /\ FlushCopy
       \/ op = "remove" /\ RemoveOld
       \/ op = "close" /\ Close

ReportStep == todo # <<>> /\ Step(Head(todo).op, Head(todo).key)
ReportNext == ReportStep \/ Fault

-----------------------------------------------------------------------------
(* Properties *)

\* Every function closes the container it began, wherever the memory it looks at
\* leads it; only user information that is not a container (vicrabcrashreport_setUserInfoJSON
\* says no more than "in JSON format") makes the section close the report instead.
ClosesItsOwn == setup.json \in {"none", "object"} => \A wrong \in broken : wrong[1] # "notItsOwn"

\* No container has an element without a name or two of one name, but for an object of
\* a restricted class and JSON of the caller's that cannot be decoded (README,
\* Disagreements).
NamedOnce ==
    \A wrong \in broken :
        \/ wrong[1] = "notItsOwn"
        \/ wrong[1] = "twice" /\ (setup.restricts \/ wrong[2] = "user_reported" \/ setup.json \in {"cut", "invalid"})

\* A report that was written to its end has every section in its root; that of a second
\* one has the first report, whole or in part, if any of it was on disk, and nothing when
\* the file could not be made.
SecondSections == {"report", "crash"} \cup (IF setup.left = "nothing" THEN {} ELSE {"recrash_report"})
AllSections ==
    todo = <<>> /\ setup.json \in {"none", "object"} =>
        CASE report = "standard" ->
                sections = {"report", "binary_images", "process", "system", "crash", "user", "debug"}
          [] report = "recrash" -> sections \in {{}, SecondSections}

\* The introspection nests no deeper than its limit, though an object may refer to
\* itself: the stack of the handler and the 200 levels of the encoder bound it.
Nested == Cardinality({i \in DOMAIN containers : containers[i].kind = "beginMemory"})
DepthBounded == Nested <= SearchDepth

\* A report that was written to its end can be read: every section, container and name
\* is where it belongs.
ReportWhole == ClosesItsOwn /\ NamedOnce /\ AllSections /\ DepthBounded
=============================================================================
