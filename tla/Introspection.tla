---------------------------- MODULE Introspection ----------------------------
(***************************************************************************)
(* What a word in a register, on the stack or in an object refers to       *)
(* (VicrabCrashObjC.c, and writeObjCObject of VicrabCrashReport.c): the    *)
(* recorder takes the memory there for an object, checks the class         *)
(* structures it would need, and writes the class, the text, or the first  *)
(* instance variables.  Memory a crash has ruined may hold anything, and   *)
(* to read an address where nothing is is the next crash.                  *)
(***************************************************************************)
EXTENDS Integers, Sequences

CONSTANTS
    Looks,          \* what there is to look at, see below
    Null, Unreadable,
    ValidNames,     \* the names isValidName accepts
    ClassType,      \* g_classData: the type of each of these names
    MaxAncestors,   \* 20
    TextSize        \* of the buffer for the contents of a string

(* A look is a record:
     heap    what is at each address that can be read, as long as a class_t:
               isa, superclass  other words that may be addresses
               ro     Unreadable, or what is behind the data word:
                        name; meta, root: the flags; ivars: Null, Unreadable,
                        or for each of them whether its data can be read
               text   what the words say when they are taken for a CFString:
                        unicode; explicit: the length is in the object, not in
                        front of the contents; length; memory: the units that
                        can be read at its contents
               store  the words taken for a CFArray: where its elements are:
                      "inside", "elsewhere", or Unreadable
     word    an address, Null, or a tagged pointer
     restricts  the names of classes that must not be introspected

   A unit of a string is the number of bytes of the character it is in UTF-8, or
   one half of a character of four bytes.                                       *)
LeadHalf == 4
TailHalf == 5
Tagged == {"tagged string", "tagged number", "tagged date", "tagged other"}

ASSUME IntrospectionAssumption ==
    /\ MaxAncestors \in Nat \ {0} /\ TextSize \in Nat \ {0}
    /\ DOMAIN ClassType = ValidNames /\ {Null, Unreadable} \cap (ValidNames \cup {"NSBlock"}) = {}
    /\ Null # Unreadable
    /\ \A l \in Looks :
         /\ DOMAIN l.heap \cap (Tagged \cup {Null}) = {}
         /\ \A a \in DOMAIN l.heap : /\ l.heap[a].text.length \in Nat
                                     /\ l.heap[a].text.memory \in Seq(1..TailHalf)

VARIABLES
    look,
    doing,      \* "type", "class", "copy", "done", "fault"
    type,       \* vicrabcrashobjc_objectType
    classType,  \* vicrabcrashobjc_objectClassType
    src, charsRemaining, \* of copyAndConvertUTF16StringToUTF8: units read, and to read
    text        \* the characters it has put into the buffer

introspectionVars == <<look, doing, type, classType, src, charsRemaining, text>>

-----------------------------------------------------------------------------
(* Validation *)

IsReadable(address) == address \in DOMAIN look.heap
IsaPointer(address) == look.heap[address].isa
RO(address) == look.heap[address].ro
ContainsValidROData(address) == IsReadable(address) /\ RO(address) # Unreadable

\* The loop starts after the first instance variable.
LaterIvars(ivars) == DOMAIN ivars \ {1, 2}
CheckedIvars(ivars) == DOMAIN ivars \ {1}
ContainsValidIvarData(ivars) ==
    \/ ivars = Null
    \/ ivars # Unreadable /\ \A i \in CheckedIvars(ivars) : ivars[i]

IsValidClass(address) ==
    /\ ContainsValidROData(address)
    /\ RO(address).name \in ValidNames
    /\ ContainsValidIvarData(RO(address).ivars)
IsValidObject(address) == IsReadable(address) /\ IsValidClass(IsaPointer(address))

-----------------------------------------------------------------------------
(* vicrabcrashobjc_objectType *)

\* The classes above a class, as far as they can be read, and the first root among
\* them.  A ring of classes has none and is given up after MaxAncestors.
Ancestors(class) ==
    LET above[n \in 0..MaxAncestors] ==
          IF n = 0 THEN class
          ELSE IF ContainsValidROData(above[n - 1]) THEN look.heap[above[n - 1]].superclass
          ELSE Null
    IN  above
Roots(class) ==
    {n \in 0..(MaxAncestors - 1) :
        /\ \A m \in 0..n : ContainsValidROData(Ancestors(class)[m])
        /\ RO(Ancestors(class)[n]).root}
\* The class below the root, or the root if the class is one.
BelowRoot(n) == IF n = 0 THEN 0 ELSE n - 1
BaseName(class) ==
    IF Roots(class) = {} THEN Null
    ELSE LET n == CHOOSE n \in Roots(class) : \A m \in Roots(class) : n <= m
         IN  RO(Ancestors(class)[BelowRoot(n)]).name

\* A word is taken for an object only if it could be a class as well: the type is
\* unknown for an instance whose words do not happen to look like one.
ObjectType(word) ==
    IF word \in Tagged THEN "object"
    ELSE IF ~IsValidObject(word) \/ ~IsValidClass(word) THEN "unknown"
    ELSE IF BaseName(IsaPointer(word)) = Unreadable THEN "fault"
    ELSE IF BaseName(IsaPointer(word)) = "NSBlock" THEN "block"
    ELSE IF RO(IsaPointer(word)).meta THEN "class"
    ELSE "object"

IntrospectionStart ==
    /\ doing = "type"
    /\ type = "unknown" /\ classType = "none"
    /\ src = 0 /\ charsRemaining = 0 /\ text = << >>
IntrospectionInit == look \in Looks /\ IntrospectionStart

\* writeObjCObject asks for the type first; only of an object there is more to write.
AskType ==
    /\ doing = "type"
    /\ type' = ObjectType(look.word)
    /\ doing' = CASE type' = "fault" -> "fault"
                  [] type' = "object" -> "class"
                  [] OTHER -> "done"
    /\ UNCHANGED <<look, classType, src, charsRemaining, text>>

-----------------------------------------------------------------------------
(* The contents of an object *)

TypeOf(word) ==
    CASE word = "tagged string" -> "tagged"
      [] word = "tagged number" -> "number"
      [] word = "tagged date" -> "date"
      [] word = "tagged other" -> "unknown"
      [] OTHER -> ClassType[RO(IsaPointer(word)).name]

\* isRestrictedClass compares the name of the class; a tagged pointer that is none of
\* the known ones has none.
ComparesNoName == look.word = "tagged other" /\ look.restricts # {}
Restricts(word) == word \notin Tagged /\ RO(IsaPointer(word)).name \in look.restricts

\* writeUnknownObjectContents reads the data of the instance variables, of the first
\* one as well.
ReadsIvars(word) ==
    word \in Tagged \/ LET ivars == RO(IsaPointer(word)).ivars
                       IN  ivars # Null => \A i \in DOMAIN ivars : ivars[i]

\* The elements of an array are copied safely, but not the word that says where those
\* of a CFArray are; a mutable array is left alone.
ReadsElements(word) == look.heap[word].store # Unreadable

\* The length in front of the contents is read without a check.
ReadsLength(string) == string.explicit \/ string.memory # << >>

\* copy8BitString copies safely, all or nothing.
CopiesBytes(string) ==
    LET count == IF string.length >= TextSize THEN TextSize - 1 ELSE string.length
    IN  IF Len(string.memory) >= count THEN SubSeq(string.memory, 1, count) ELSE << >>

\* writeObjCObject, once it knows an object.
Describes ==
    CASE ComparesNoName -> "fault"
      [] ~ComparesNoName /\ Restricts(look.word) -> "done"
      [] ~ComparesNoName /\ ~Restricts(look.word) ->
           CASE classType' = "string" ->
                  IF ~ReadsLength(look.heap[look.word].text) THEN "fault"
                  ELSE IF look.heap[look.word].text.unicode THEN "copy" ELSE "done"
             [] classType' = "CFArray" -> IF ReadsElements(look.word) THEN "done" ELSE "fault"
             [] classType' = "unknown" -> IF ReadsIvars(look.word) THEN "done" ELSE "fault"
             [] OTHER -> "done"
Describe ==
    /\ doing = "class"
    /\ classType' = TypeOf(look.word)
    /\ doing' = Describes
    /\ charsRemaining' = IF doing' = "copy" THEN look.heap[look.word].text.length ELSE 0
    /\ text' = IF doing' = "done" /\ classType' = "string" /\ ~Restricts(look.word)
               THEN CopiesBytes(look.heap[look.word].text) ELSE << >>
    /\ UNCHANGED <<look, type, src>>

\* copyAndConvertUTF16StringToUTF8: one character.  Room is left for the NUL.
BytesOf(characters) ==
    LET sum[n \in 0..Len(characters)] == IF n = 0 THEN 0 ELSE sum[n - 1] + characters[n]
    IN  sum
Bytes8(characters) == BytesOf(characters)[Len(characters)]
Room == TextSize - 1 - Bytes8(text)
Stops8(characters) ==
    /\ doing' = "done" /\ text' = characters
    /\ UNCHANGED <<src, charsRemaining>>
Takes(units, character) ==
    /\ src' = src + units
    /\ charsRemaining' = charsRemaining - units
    /\ text' = Append(text, character)
    /\ UNCHANGED doing

Faults == doing' = "fault" /\ UNCHANGED <<src, charsRemaining, text>>

CopyCharacter ==
    /\ doing = "copy"
    /\ UNCHANGED <<look, type, classType>>
    /\ LET memory == look.heap[look.word].text.memory
           paired == src + 1 < Len(memory) /\ memory[src + 2] = TailHalf
       IN  IF charsRemaining <= 0 \/ Room <= 0 THEN Stops8(text)
           ELSE IF src >= Len(memory) THEN Faults
           ELSE CASE memory[src + 1] \in 1..3 ->
                       IF Room < memory[src + 1] THEN Stops8(text) ELSE Takes(1, memory[src + 1])
                  [] memory[src + 1] = LeadHalf /\ paired ->
                       IF Room < LeadHalf THEN Stops8(text) ELSE Takes(2, LeadHalf)
                  [] memory[src + 1] = LeadHalf /\ src + 1 >= Len(memory) -> Faults
                  [] OTHER -> Stops8(<< >>)

IntrospectionNext == AskType \/ Describe \/ CopyCharacter
IntrospectionSpec == IntrospectionInit /\ [][IntrospectionNext]_introspectionVars

-----------------------------------------------------------------------------
(* Properties *)

\* Whatever is in memory and wherever the words in it lead, looking at it reads only
\* what can be read, but for what the code does not check: the name of a class above
\* the superclass, the first instance variable, the contents of a string, where
\* the elements of a CFArray are, and the name a tagged pointer does not have.
ReadsOnlyReadable ==
    doing = "fault" =>
        IF look.word \in Tagged THEN look.word = "tagged other" /\ look.restricts # {}
        ELSE LET class == RO(IsaPointer(look.word)) IN
             CASE type = "fault" ->
                    \E a \in DOMAIN look.heap \ {IsaPointer(look.word)} :
                        RO(a) # Unreadable /\ RO(a).name = Unreadable
               [] classType = "unknown" -> ~class.ivars[1]
               [] classType = "string" ->
                    Len(look.heap[look.word].text.memory) <= look.heap[look.word].text.length
               [] OTHER -> look.heap[look.word].store = Unreadable

\* The text of a string of whole characters is made of its first characters, each
\* whole, as many as the buffer holds.
WholeCharacters(string) ==
    /\ string.length <= Len(string.memory)
    /\ \A i \in 1..string.length :
         /\ string.memory[i] = LeadHalf => i < string.length /\ string.memory[i + 1] = TailHalf
         /\ string.memory[i] = TailHalf => i > 1 /\ string.memory[i - 1] = LeadHalf
CharactersOf(string) ==
    LET first[n \in 0..string.length] ==
          IF n = 0 THEN << >>
          ELSE IF string.memory[n] = TailHalf THEN first[n - 1]
          ELSE Append(first[n - 1], string.memory[n])
    IN  first
TextIsWhole ==
    doing = "done" /\ classType = "string" /\ ~Restricts(look.word) =>
        LET string == look.heap[look.word].text
            characters == CharactersOf(string)[string.length]
            fitting == {n \in 0..Len(characters) : BytesOf(characters)[n] < TextSize}
        IN  string.unicode /\ WholeCharacters(string)
              => \E n \in fitting : text = SubSeq(characters, 1, n) /\ \A m \in fitting : m <= n

LooksSafely == ReadsOnlyReadable /\ TextIsWhole
=============================================================================
