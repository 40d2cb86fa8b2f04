----------------------------- MODULE ReportFields -----------------------------
(***************************************************************************)
(* The custom fields of an installation (VicrabCrashInstallation.m): for   *)
(* each property a key and a value as C strings, in an array the crash     *)
(* callback reads when the application may be in the middle of a setter.   *)
(* A string belongs to an object that frees it with the object, so a       *)
(* setter frees the old string a step before the field shows the new one.  *)
(***************************************************************************)
EXTENDS Naturals, FiniteSets

CONSTANTS
    Properties, \* properties of the installation
    MaxStrings  \* bound on the strings made

ASSUME FieldsAssumption == MaxStrings \in Nat /\ IsFiniteSet(Properties)

Strings == 0..MaxStrings      \* 0 is NULL
Parts == {"key", "value"}
NULL == 0

VARIABLES
    count,      \* reportFieldsCount
    slot,       \* reportFields: for each index the property whose field it shows, {} if none
    index,      \* fields: the index of each property that has a field
    field,      \* what the ReportField of each property shows
    backing,    \* the string each field object owns
    owner,      \* the property and the part each string was made for
    freed,      \* strings that were freed
    made,       \* strings made
    setter,     \* what the setter in progress still has to do
    hooked,     \* "out", "in", "half": g_crashHandlerData and onCrash
    cleared,    \* history: properties whose value was set to nil and not again
    crash       \* what the crash callback met

fieldVars == <<count, slot, index, field, backing, owner, freed, made, setter, hooked, cleared, crash>>

Indexes == 0..Cardinality(Properties)
NoSetter == [pc |-> "none"]
Uncrashed == [seen |-> FALSE, fault |-> FALSE, read |-> {}, wrote |-> {}]

FieldsInit ==
    /\ count = 0
    /\ slot = [i \in Indexes |-> {}]
    /\ index = << >>
    /\ field = [p \in Properties |-> [part \in Parts |-> NULL]]
    /\ backing = field
    /\ owner = << >> /\ freed = {} /\ made = 0
    /\ setter = NoSetter
    /\ hooked = "out"
    /\ cleared = {}
    /\ crash = Uncrashed

strings == <<field, backing, owner, freed, made, cleared>>

\* install: the data first, then the callback.
Install ==
    /\ hooked = "out" /\ setter.pc = "none"
    /\ hooked' = "in"
    /\ UNCHANGED <<count, slot, index, strings, setter, crash>>

\* dealloc: the data is taken away a step before the callback.
Uninstall ==
    /\ setter.pc = "none"
    /\ \/ hooked = "in" /\ hooked' = "half"
       \/ hooked = "half" /\ hooked' = "out"
    /\ UNCHANGED <<count, slot, index, strings, setter, crash>>

\* reportFieldForProperty: the count, the array and the dictionary one by one.
Call(p, part) == [pc |-> IF p \in DOMAIN index THEN "make" ELSE "count", p |-> p, part |-> part]
Set(p, part) ==
    /\ setter.pc = "none" /\ hooked # "half" /\ made < MaxStrings
    /\ setter' = Call(p, part)
    /\ UNCHANGED <<count, slot, index, strings, hooked, crash>>

NextIndex == Cardinality(DOMAIN index)
CountedBefore == NextIndex
Counted == NextIndex + 1
CountField ==
    /\ setter.pc = "count"
    /\ count' = Counted
    /\ setter' = [setter EXCEPT !.pc = "slot"]
    /\ UNCHANGED <<slot, index, strings, hooked, crash>>
Slot == NextIndex
AddField ==
    /\ setter.pc = "slot"
    /\ LET p == setter.p
       IN  /\ slot' = [slot EXCEPT ![Slot] = {p}]
           /\ index' = [q \in DOMAIN index \cup {p} |-> IF q = p THEN Slot ELSE index[q]]
    /\ setter' = [setter EXCEPT !.pc = "make"]
    /\ UNCHANGED <<count, strings, hooked, crash>>

\* setKey and setValue: the object of the new string takes the place of the old
\* one, which frees its string.
Owns(p, part, string) ==
    /\ backing' = [backing EXCEPT ![p][part] = string]
    /\ freed' = freed \cup ({backing[p][part]} \ {NULL})
MakeString ==
    /\ setter.pc = "make"
    /\ made' = made + 1
    /\ owner' = [s \in 1..made' |-> IF s = made' THEN [p |-> setter.p, part |-> setter.part]
                                    ELSE owner[s]]
    /\ Owns(setter.p, setter.part, made + 1)
    /\ setter' = [setter EXCEPT !.pc = "show"]
    /\ cleared' = IF setter.part = "value" THEN cleared \ {setter.p} ELSE cleared
    /\ UNCHANGED <<count, slot, index, field, hooked, crash>>
Shows(p, part) == [field EXCEPT ![p][part] = backing[p][part]]
ShowString ==
    /\ setter.pc = "show"
    /\ field' = Shows(setter.p, setter.part)
    /\ setter' = NoSetter
    /\ UNCHANGED <<count, slot, index, backing, owner, freed, made, hooked, cleared, crash>>

\* A key set to nil goes on to clear the field; a value set to nil returns before.
Clears(part) == part = "key"
SetNil ==
    /\ setter.pc = "make"
    /\ Owns(setter.p, setter.part, NULL)
    /\ setter' = IF Clears(setter.part) THEN [setter EXCEPT !.pc = "show"] ELSE NoSetter
    /\ cleared' = IF Clears(setter.part) \/ backing[setter.p].value = NULL THEN cleared
                  ELSE cleared \cup {setter.p}
    /\ UNCHANGED <<count, slot, index, field, owner, made, hooked, crash>>

\* A value that has no JSON form leaves everything as it was.
SetUnencodable ==
    /\ setter.pc = "make" /\ setter.part = "value"
    /\ setter' = NoSetter
    /\ UNCHANGED <<count, slot, index, strings, hooked, crash>>

\* crashCallback: the fields that have both strings, in the order of the array.
Shown == UNION {slot[i] : i \in {i \in Indexes : i < count}}
Writes(p) == field[p].key # NULL /\ field[p].value # NULL
CrashCallback ==
    /\ hooked # "out"
    /\ crash' =
         [seen |-> TRUE,
          fault |-> hooked = "half" \/ \E i \in Indexes : i < count /\ slot[i] = {},
          read |-> UNION {{field[p].key, field[p].value} : p \in {q \in Shown : Writes(q)}},
          wrote |-> {<<field[p].key, field[p].value>> : p \in {q \in Shown : Writes(q)}}]
    /\ UNCHANGED <<count, slot, index, strings, setter, hooked>>

FieldsNext ==
    /\ ~crash.seen
    /\ \/ Install \/ Uninstall \/ CrashCallback
       \/ \E p \in Properties, part \in Parts : Set(p, part)
       \/ CountField \/ AddField \/ MakeString \/ ShowString \/ SetNil \/ SetUnencodable

-----------------------------------------------------------------------------
(* Properties *)

\* A callback that does not interrupt a setter, or the end of the installation,
\* meets no empty entry, and reads no string that was freed, except for a property
\* whose value was set to nil: that one still shows the freed string.
Quiet == setter.pc = "none" /\ hooked = "in"
ReadsLiveStrings ==
    crash.seen /\ Quiet
        => /\ ~crash.fault
           /\ NULL \notin crash.read
           /\ \A s \in crash.read \cap freed : owner[s].part = "value" /\ owner[s].p \in cleared

\* Such a callback writes every property that has a key and a value, with the
\* strings that were set last.
WritesAllSet ==
    crash.seen /\ Quiet
        => \A p \in DOMAIN index :
             NULL \notin {backing[p].key, backing[p].value}
                => <<backing[p].key, backing[p].value>> \in crash.wrote

\* A callback can read the fields, and writes them all.
FieldsReadable == ReadsLiveStrings /\ WritesAllSet
=============================================================================
