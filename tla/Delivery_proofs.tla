---------------------------- MODULE Delivery_proofs ----------------------------
(***************************************************************************)
(* What becomes of a crash between the callback that adds the fields of an *)
(* installation and the event that is stored: proofs for the fields, which *)
(* the application may be changing as it crashes, and for the delivery of  *)
(* reports.  The delivery has layers of invariant: WhoInv, that every      *)
(* report a sending holds or the disk has is remembered for what it was    *)
(* when the process ended; on it DeliverInv, that what a sending has       *)
(* listed is still to do or has reached the client; and ShowInv, that an   *)
(* event is made of a report as it was loaded.                             *)
(***************************************************************************)
EXTENDS Delivery, ReportFields, FiniteSetTheorems, TLAPS

-----------------------------------------------------------------------------
(* The fields of an installation *)

\* The array has an entry for each property that has a field and for no other; the
\* count is ahead of it while a field is added.
Filled ==
    /\ slot \in [Indexes -> SUBSET Properties]
    /\ DOMAIN index \subseteq Properties
    /\ \A p \in DOMAIN index : /\ index[p] \in Indexes /\ index[p] < NextIndex
                               /\ slot[index[p]] = {p}
    /\ \A i \in Indexes : i < NextIndex => \E p \in DOMAIN index : slot[i] = {p}
    /\ count = IF setter.pc = "slot" THEN NextIndex + 1 ELSE NextIndex

\* What a setter in progress is about.
SetterOfField ==
    /\ setter.pc \in {"none", "count", "slot", "make", "show"}
    /\ setter.pc # "none" => setter.p \in Properties /\ setter.part \in Parts
                             /\ setter = [pc |-> setter.pc, p |-> setter.p, part |-> setter.part]
    /\ setter.pc \in {"count", "slot"} => setter.p \notin DOMAIN index

\* A string is its object's as long as the object owns it, and not freed before; a
\* field shows the string its object owns except in a setter and, for values, after
\* the value was set to nil.
Holds(p, part) == backing[p][part] # NULL => /\ backing[p][part] \notin freed
                                             /\ owner[backing[p][part]] = [p |-> p, part |-> part]
ShowsOwn(p, part) ==
    /\ field[p][part] # NULL => owner[field[p][part]] = [p |-> p, part |-> part]
    /\ \/ field[p][part] = backing[p][part]
       \/ setter.pc = "show" /\ setter.p = p /\ setter.part = part
       \/ part = "value" /\ p \in cleared
StringsOwned ==
    /\ made \in Nat
    /\ backing \in [Properties -> [Parts -> 0..made]] /\ field \in [Properties -> [Parts -> 0..made]]
    /\ owner \in [1..made -> [p : Properties, part : Parts]]
    /\ freed \subseteq 1..made
    /\ \A p \in Properties, part \in Parts : Holds(p, part) /\ ShowsOwn(p, part)
    /\ \A p \in Properties : p \in cleared => backing[p].value = NULL

FieldsInv == Filled /\ SetterOfField /\ StringsOwned /\ FieldsReadable

LEMMA Wider == ASSUME NEW m \in Nat, NEW n \in Nat, m <= n PROVE 0..m \subseteq 0..n /\ 1..m \subseteq 1..n
OBVIOUS

LEMMA Extended ==
    ASSUME NEW n \in Nat, NEW S, NEW f \in [1..n -> S], NEW e \in S, NEW g,
           g = [s \in 1..(n + 1) |-> IF s = n + 1 THEN e ELSE f[s]]
    PROVE  g \in [1..(n + 1) -> S] /\ (\A s \in 1..n : g[s] = f[s]) /\ g[n + 1] = e
OBVIOUS

LEMMA IndexesCount ==
    ASSUME DOMAIN index \subseteq Properties
    PROVE  /\ IsFiniteSet(DOMAIN index) /\ NextIndex \in Nat /\ NextIndex \in Indexes
           /\ \A p \in Properties \ DOMAIN index :
                /\ Cardinality(DOMAIN index \cup {p}) = NextIndex + 1
                /\ NextIndex + 1 \in Indexes
<1>1. /\ IsFiniteSet(DOMAIN index) /\ NextIndex \in Nat
      /\ Cardinality(Properties) \in Nat /\ NextIndex <= Cardinality(Properties)
    BY FieldsAssumption, FS_Subset, FS_CardinalityType DEF NextIndex
<1>2. ASSUME NEW p \in Properties \ DOMAIN index
      PROVE  Cardinality(DOMAIN index \cup {p}) = NextIndex + 1 /\ NextIndex + 1 \in Indexes
  <2>1. Cardinality(DOMAIN index \cup {p}) = NextIndex + 1
      BY <1>1, FS_AddElement DEF NextIndex
  <2>2. DOMAIN index \cup {p} \subseteq Properties
      OBVIOUS
  <2>3. Cardinality(DOMAIN index \cup {p}) <= Cardinality(Properties)
      BY <2>2, FieldsAssumption, FS_Subset
  <2> QED BY <1>1, <2>1, <2>3 DEF Indexes
<1> QED BY <1>1, <1>2 DEF Indexes

LEMMA FieldsInitInv == FieldsInit => FieldsInv
<1> SUFFICES ASSUME FieldsInit PROVE FieldsInv
    OBVIOUS
<1>1. DOMAIN index = {} /\ NextIndex = 0
    BY FS_EmptySet DEF FieldsInit, NextIndex
<1>2. Filled
    BY <1>1 DEF Filled, FieldsInit, NoSetter, Indexes
<1>3. SetterOfField
    BY DEF SetterOfField, FieldsInit, NoSetter
<1>4. StringsOwned
  <2>1. /\ made = 0 /\ owner = << >> /\ freed = {} /\ cleared = {} /\ backing = field
        /\ field = [p \in Properties |-> [part \in Parts |-> 0]]
      BY DEF FieldsInit, NULL
  <2>2. owner \in [1..made -> [p : Properties, part : Parts]]
      BY <2>1
  <2>3. field \in [Properties -> [Parts -> 0..0]] /\ \A p \in Properties, part \in Parts : field[p][part] = 0
      BY <2>1
  <2> QED BY <2>1, <2>2, <2>3 DEF StringsOwned, Holds, ShowsOwn, NULL, Parts
<1>5. FieldsReadable
    BY DEF FieldsReadable, ReadsLiveStrings, WritesAllSet, FieldsInit, Uncrashed
<1> QED BY <1>2, <1>3, <1>4, <1>5 DEF FieldsInv

\* Steps that leave the crash callback out leave what it met: nothing yet.
LEMMA NotCrashed ==
    ASSUME ~crash.seen, crash' = crash PROVE FieldsReadable'
BY DEF FieldsReadable, ReadsLiveStrings, WritesAllSet

LEMMA StringsKept ==
    ASSUME StringsOwned, UNCHANGED <<field, backing, owner, freed, made, cleared>>,
           setter' = setter \/ setter.pc # "show"
    PROVE  StringsOwned'
<1>1. /\ made' = made /\ backing' = backing /\ field' = field /\ owner' = owner /\ freed' = freed
      /\ cleared' = cleared
    OBVIOUS
<1>2. ASSUME NEW p \in Properties, NEW part \in Parts PROVE Holds(p, part)' /\ ShowsOwn(p, part)'
  <2>1. Holds(p, part) /\ ShowsOwn(p, part)
      BY <1>2 DEF StringsOwned
  <2> QED BY <1>1, <2>1 DEF Holds, ShowsOwn
<1>3. \A p \in Properties : p \in cleared => backing[p].value = NULL
    BY DEF StringsOwned
<1>4. /\ made \in Nat
      /\ backing \in [Properties -> [Parts -> 0..made]] /\ field \in [Properties -> [Parts -> 0..made]]
      /\ owner \in [1..made -> [p : Properties, part : Parts]]
      /\ freed \subseteq 1..made
    BY DEF StringsOwned
<1> HIDE DEF StringsOwned
<1>5. (\A p \in Properties, part \in Parts : Holds(p, part) /\ ShowsOwn(p, part))'
    BY <1>2
<1>6. (\A p \in Properties : p \in cleared => backing[p].value = NULL)'
    BY <1>1, <1>3
<1> QED BY <1>1, <1>4, <1>5, <1>6 DEF StringsOwned

LEMMA SettersKeep ==
    ASSUME FieldsInv, ~crash.seen,
           Install \/ Uninstall \/ (\E p \in Properties, part \in Parts : Set(p, part)) \/ SetUnencodable
    PROVE  FieldsInv'
<1>0. Filled /\ SetterOfField /\ StringsOwned
    BY DEF FieldsInv
<1>1. /\ UNCHANGED <<count, slot, index, field, backing, owner, freed, made, cleared>> /\ crash' = crash
      /\ setter'.pc # "slot" /\ setter.pc # "slot" /\ setter.pc # "show" /\ setter'.pc # "show"
  <2>1. CASE Install \/ Uninstall
      BY <2>1 DEF Install, Uninstall, strings
  <2>2. CASE \E p \in Properties, part \in Parts : Set(p, part)
      BY <2>2 DEF Set, Call, strings
  <2>3. CASE SetUnencodable
      BY <2>3 DEF SetUnencodable, NoSetter, strings
  <2> QED BY <2>1, <2>2, <2>3
<1>2. SetterOfField'
  <2>1. CASE setter' = setter
      BY <1>0, <1>1, <2>1 DEF SetterOfField
  <2>2. CASE \E p \in Properties, part \in Parts : Set(p, part)
      BY <1>1, <2>2 DEF Set, Call, SetterOfField
  <2>3. CASE setter' = NoSetter
      BY <1>1, <2>3 DEF NoSetter, SetterOfField
  <2> QED BY <2>1, <2>2, <2>3 DEF Install, Uninstall, SetUnencodable
<1>3. NextIndex' = NextIndex /\ Indexes' = Indexes
    BY <1>1 DEF NextIndex, Indexes
<1>4. Filled'
    BY <1>0, <1>1, <1>3 DEF Filled
<1>5. StringsOwned'
    BY <1>0, <1>1, StringsKept
<1> QED BY <1>1, <1>2, <1>4, <1>5, NotCrashed DEF FieldsInv

LEMMA CountFieldKeeps == ASSUME FieldsInv, ~crash.seen, CountField PROVE FieldsInv'
<1>0. Filled /\ SetterOfField /\ StringsOwned
    BY DEF FieldsInv
<1>1. /\ setter.pc = "count" /\ setter' = [setter EXCEPT !.pc = "slot"]
      /\ UNCHANGED <<slot, index, field, backing, owner, freed, made, cleared>> /\ crash' = crash
      /\ count' = NextIndex + 1
    BY DEF CountField, strings, Counted
<1>2. setter' = [pc |-> "slot", p |-> setter.p, part |-> setter.part]
      /\ setter.p \in Properties /\ setter.part \in Parts /\ setter.p \notin DOMAIN index
    BY <1>0, <1>1 DEF SetterOfField
<1>3. SetterOfField'
    BY <1>1, <1>2 DEF SetterOfField
<1>4. NextIndex' = NextIndex /\ Indexes' = Indexes
    BY <1>1 DEF NextIndex, Indexes
<1>5. Filled'
    BY <1>0, <1>1, <1>2, <1>4 DEF Filled
<1>6. StringsOwned'
    BY <1>0, <1>1, StringsKept
<1> QED BY <1>1, <1>3, <1>5, <1>6, NotCrashed DEF FieldsInv

LEMMA AddFieldKeeps == ASSUME FieldsInv, ~crash.seen, AddField PROVE FieldsInv'
<1>0. Filled /\ SetterOfField /\ StringsOwned
    BY DEF FieldsInv
<1> DEFINE p == setter.p
<1>1. /\ setter.pc = "slot" /\ setter' = [setter EXCEPT !.pc = "make"]
      /\ UNCHANGED <<count, field, backing, owner, freed, made, cleared>> /\ crash' = crash
      /\ slot' = [slot EXCEPT ![NextIndex] = {p}]
      /\ index' = [q \in DOMAIN index \cup {p} |-> IF q = p THEN NextIndex ELSE index[q]]
    BY DEF AddField, strings, Slot
<1>2. setter' = [pc |-> "make", p |-> setter.p, part |-> setter.part]
      /\ p \in Properties /\ setter.part \in Parts /\ p \notin DOMAIN index
    BY <1>0, <1>1 DEF SetterOfField
<1>3. SetterOfField'
    BY <1>1, <1>2 DEF SetterOfField
<1>4. /\ NextIndex \in Nat /\ NextIndex \in Indexes /\ NextIndex' = NextIndex + 1 /\ Indexes' = Indexes
      /\ DOMAIN index' = DOMAIN index \cup {p}
  <2>1. DOMAIN index' = DOMAIN index \cup {p}
      BY <1>1
  <2>2. DOMAIN index \subseteq Properties
      BY <1>0 DEF Filled
  <2>3. NextIndex' = Cardinality(DOMAIN index \cup {p})
      BY <2>1 DEF NextIndex
  <2> QED BY <1>2, <2>1, <2>2, <2>3, IndexesCount DEF Indexes
<1>5. Filled'
  <2>0. Indexes \subseteq Nat
      BY DEF Indexes
  <2>1. slot' \in [Indexes -> SUBSET Properties] /\ DOMAIN index' \subseteq Properties
      BY <1>0, <1>1, <1>2, <1>4 DEF Filled
  <2>2. slot'[NextIndex] = {p} /\ \A i \in Indexes : i # NextIndex => slot'[i] = slot[i]
      BY <1>0, <1>1, <1>4 DEF Filled
  <2>3. index'[p] = NextIndex /\ \A q \in DOMAIN index : index'[q] = index[q]
      BY <1>1, <1>2
  <2>4. \A q \in DOMAIN index' : index'[q] \in Indexes /\ index'[q] < NextIndex' /\ slot'[index'[q]] = {q}
    <3> SUFFICES ASSUME NEW q \in DOMAIN index'
                 PROVE  index'[q] \in Indexes /\ index'[q] < NextIndex' /\ slot'[index'[q]] = {q}
        OBVIOUS
    <3>1. CASE q = p
        BY <1>4, <2>2, <2>3, <3>1
    <3>2. CASE q # p
      <4>1. q \in DOMAIN index /\ index'[q] = index[q]
          BY <1>4, <2>3, <3>2
      <4>2. index[q] \in Indexes /\ index[q] < NextIndex /\ slot[index[q]] = {q}
          BY <1>0, <4>1 DEF Filled
      <4>3. index[q] # NextIndex /\ index[q] < NextIndex + 1
        <5>1. index[q] \in Nat /\ NextIndex \in Nat
            BY <1>4, <2>0, <4>2
        <5> QED BY <4>2, <5>1
      <4>4. slot'[index[q]] = slot[index[q]]
          BY <2>2, <4>2, <4>3
      <4>5. slot'[index[q]] = {q}
          BY <4>2, <4>4
      <4> QED BY <1>4, <4>1, <4>2, <4>3, <4>5
    <3> QED BY <3>1, <3>2
  <2>5. \A i \in Indexes : i < NextIndex' => \E q \in DOMAIN index' : slot'[i] = {q}
    <3> SUFFICES ASSUME NEW i \in Indexes, i < NextIndex'
                 PROVE  \E q \in DOMAIN index' : slot'[i] = {q}
        OBVIOUS
    <3>1. CASE i = NextIndex
        BY <1>4, <2>2, <3>1
    <3>2. CASE i # NextIndex
      <4>1. i < NextIndex
          BY <1>4, <2>0, <3>2
      <4> QED BY <1>0, <1>4, <2>2, <3>2, <4>1 DEF Filled
    <3> QED BY <3>1, <3>2
  <2>6. count' = NextIndex' /\ setter'.pc # "slot"
      BY <1>0, <1>1, <1>2, <1>4 DEF Filled
  <2> QED BY <1>4, <2>1, <2>4, <2>5, <2>6 DEF Filled
<1>6. StringsOwned'
    BY <1>0, <1>1, StringsKept
<1> QED BY <1>1, <1>3, <1>5, <1>6, NotCrashed DEF FieldsInv

\* An object of a field is replaced by the object of a string that is new, or of none.
ReplacedBy(p, part, string) ==
    /\ backing' \in [Properties -> [Parts -> 0..made']] /\ freed' \subseteq 1..made'
    /\ \A q \in Properties, r \in Parts :
         backing'[q][r] # NULL => /\ backing'[q][r] \notin freed'
                                  /\ owner'[backing'[q][r]] = [p |-> q, part |-> r]
    /\ \A q \in Properties, r \in Parts : <<q, r>> # <<p, part>> => backing'[q][r] = backing[q][r]
    /\ backing'[p][part] = string
LEMMA Replaces ==
    ASSUME FieldsInv, NEW p \in Properties, NEW part \in Parts, NEW string, Owns(p, part, string),
           made' \in Nat, made <= made', string \in 0..made', owner' \in [1..made' -> [p : Properties, part : Parts]],
           \A s \in 1..made : owner'[s] = owner[s],
           string # NULL => string \notin 1..made /\ owner'[string] = [p |-> p, part |-> part]
    PROVE  ReplacedBy(p, part, string)
<1>0. StringsOwned
    BY DEF FieldsInv
<1>1. /\ made \in Nat /\ backing \in [Properties -> [Parts -> 0..made]] /\ freed \subseteq 1..made
      /\ 0..made \subseteq 0..made' /\ 1..made \subseteq 1..made'
  <2>1. made \in Nat /\ backing \in [Properties -> [Parts -> 0..made]] /\ freed \subseteq 1..made
      BY <1>0 DEF StringsOwned
  <2>2. 0..made \subseteq 0..made' /\ 1..made \subseteq 1..made'
      BY <2>1, Wider
  <2> QED BY <2>1, <2>2
<1>2. /\ backing' = [backing EXCEPT ![p][part] = string] /\ freed' = freed \cup ({backing[p][part]} \ {0})
    BY DEF Owns, NULL
<1>3. backing[p][part] \in 0..made
    BY <1>1
<1>4. freed' \subseteq 1..made'
  <2>1. ({backing[p][part]} \ {0}) \subseteq 1..made
      BY <1>1, <1>3
  <2> QED BY <1>1, <1>2, <2>1
<1>5. \A q \in Properties, r \in Parts : <<q, r>> # <<p, part>> => backing'[q][r] = backing[q][r]
    BY <1>1, <1>2
<1>6. backing'[p][part] = string
    BY <1>1, <1>2
<1>7. backing' \in [Properties -> [Parts -> 0..made']]
  <2>1. backing' = [q \in Properties |-> IF q = p THEN [backing[q] EXCEPT ![part] = string] ELSE backing[q]]
      BY <1>1, <1>2
  <2>2. ASSUME NEW q \in Properties
        PROVE  (IF q = p THEN [backing[q] EXCEPT ![part] = string] ELSE backing[q]) \in [Parts -> 0..made']
    <3>1. backing[q] \in [Parts -> 0..made]
        BY <1>1
    <3>2. backing[q] \in [Parts -> 0..made']
        BY <1>1, <3>1
    <3> QED BY <3>2
  <2> QED BY <2>1, <2>2
<1>8. ASSUME NEW q \in Properties, NEW r \in Parts
      PROVE  backing'[q][r] # NULL => /\ backing'[q][r] \notin freed'
                                      /\ owner'[backing'[q][r]] = [p |-> q, part |-> r]
  <2>1. CASE <<q, r>> = <<p, part>>
    <3>1. q = p /\ r = part
        BY <2>1
    <3>2. string # 0 => string \notin freed'
        BY <1>1, <1>2, <1>3 DEF NULL
    <3> QED BY <1>6, <3>1, <3>2 DEF Holds, NULL
  <2>2. CASE <<q, r>> # <<p, part>>
    <3>1. backing'[q][r] = backing[q][r] /\ backing[q][r] \in 0..made
        BY <1>1, <1>5, <2>2
    <3>2. SUFFICES ASSUME backing[q][r] # 0
                   PROVE  backing[q][r] \notin freed' /\ owner'[backing[q][r]] = [p |-> q, part |-> r]
        BY <3>1 DEF NULL
    <3>3. backing[q][r] \in 1..made
        BY <1>1, <3>1, <3>2
    <3>4. backing[q][r] \notin freed /\ owner[backing[q][r]] = [p |-> q, part |-> r]
        BY <1>0, <3>2 DEF StringsOwned, Holds, NULL
    <3>5. ASSUME backing[p][part] = backing[q][r] PROVE FALSE
      <4>1. owner[backing[p][part]] = [p |-> p, part |-> part]
          BY <1>0, <3>2, <3>5 DEF StringsOwned, Holds, NULL
      <4>2. [p |-> q, part |-> r] = [p |-> p, part |-> part]
          BY <3>4, <3>5, <4>1
      <4>3. q = p /\ r = part
          BY <4>2
      <4> QED BY <2>2, <4>3
    <3> QED BY <1>2, <3>3, <3>4, <3>5
  <2> QED BY <2>1, <2>2
<1> QED BY <1>4, <1>5, <1>6, <1>7, <1>8 DEF ReplacedBy

LEMMA MakeStringKeeps == ASSUME FieldsInv, ~crash.seen, MakeString PROVE FieldsInv'
<1>0. Filled /\ SetterOfField /\ StringsOwned
    BY DEF FieldsInv
<1> PICK p, part, string : p = setter.p /\ part = setter.part /\ string = made + 1
    OBVIOUS
<1>1. /\ setter.pc = "make" /\ setter' = [setter EXCEPT !.pc = "show"] /\ made' = made + 1
      /\ UNCHANGED <<count, slot, index, field>> /\ crash' = crash
      /\ owner' = [s \in 1..made' |-> IF s = made' THEN [p |-> p, part |-> part] ELSE owner[s]]
      /\ Owns(p, part, string) /\ string = made + 1
      /\ cleared' = IF part = "value" THEN cleared \ {p} ELSE cleared
    BY DEF MakeString
<1>2. setter' = [pc |-> "show", p |-> p, part |-> part] /\ p \in Properties /\ part \in Parts
    BY <1>0, <1>1 DEF SetterOfField
<1>3. SetterOfField'
    BY <1>1, <1>2 DEF SetterOfField
<1>4. Filled'
  <2>1. NextIndex' = NextIndex /\ Indexes' = Indexes
      BY <1>1 DEF NextIndex, Indexes
  <2> QED BY <1>0, <1>1, <1>2, <2>1 DEF Filled
<1>5. /\ made \in Nat /\ made' \in Nat /\ made <= made' /\ string \in 0..made'
      /\ owner \in [1..made -> [p : Properties, part : Parts]]
      /\ owner' \in [1..made' -> [p : Properties, part : Parts]]
      /\ \A s \in 1..made : owner'[s] = owner[s]
      /\ string \notin 1..made /\ owner'[string] = [p |-> p, part |-> part]
  <2>1. made \in Nat /\ owner \in [1..made -> [p : Properties, part : Parts]]
      BY <1>0 DEF StringsOwned
  <2>2. /\ made' \in Nat /\ made <= made' /\ string \in 0..made' /\ string \notin 1..made /\ made' \in 1..made'
        /\ string = made'
        /\ \A s \in 1..made' : s # made' => s \in 1..made
        /\ \A s \in 1..made : s \in 1..made' /\ s # made'
      BY <1>1, <2>1
  <2>3. [p |-> p, part |-> part] \in [p : Properties, part : Parts]
      BY <1>2
  <2>4. owner' = [s \in 1..(made + 1) |-> IF s = made + 1 THEN [p |-> p, part |-> part] ELSE owner[s]]
      BY <1>1
  <2>5. /\ owner' \in [1..(made + 1) -> [p : Properties, part : Parts]] /\ (\A s \in 1..made : owner'[s] = owner[s])
        /\ owner'[made + 1] = [p |-> p, part |-> part]
    <3> DEFINE S == [p : Properties, part : Parts]
               e == [p |-> p, part |-> part]
    <3>1. e \in S /\ owner \in [1..made -> S]
        BY <2>1, <2>3
    <3>2. owner' = [s \in 1..(made + 1) |-> IF s = made + 1 THEN e ELSE owner[s]]
        BY <2>4
    <3> HIDE DEF S, e
    <3>3. owner' \in [1..(made + 1) -> S] /\ (\A s \in 1..made : owner'[s] = owner[s]) /\ owner'[made + 1] = e
        BY <2>1, <3>1, <3>2, Extended
    <3> QED BY <3>3 DEF S, e
  <2> QED BY <1>1, <2>1, <2>2, <2>5
<1>6. /\ backing' \in [Properties -> [Parts -> 0..made']] /\ freed' \subseteq 1..made'
      /\ \A q \in Properties, r \in Parts :
           backing'[q][r] # NULL => /\ backing'[q][r] \notin freed'
                                    /\ owner'[backing'[q][r]] = [p |-> q, part |-> r]
      /\ \A q \in Properties, r \in Parts : <<q, r>> # <<p, part>> => backing'[q][r] = backing[q][r]
      /\ backing'[p][part] = string
  <2>1. p \in Properties /\ part \in Parts /\ Owns(p, part, string)
      BY <1>1, <1>2
  <2>2. /\ made' \in Nat /\ made <= made' /\ string \in 0..made'
        /\ owner' \in [1..made' -> [p : Properties, part : Parts]] /\ \A s \in 1..made : owner'[s] = owner[s]
      BY <1>1, <1>5
  <2>3. string # NULL => string \notin 1..made /\ owner'[string] = [p |-> p, part |-> part]
      BY <1>1, <1>5 DEF NULL
  <2>4. ReplacedBy(p, part, string)
      BY <2>1, <2>2, <2>3, Replaces
  <2> QED BY <2>4 DEF ReplacedBy
<1>7. StringsOwned'
  <2>0. ASSUME NEW q \in Properties, NEW r \in Parts PROVE Holds(q, r)'
      BY <1>6 DEF Holds
  <2>1. field \in [Properties -> [Parts -> 0..made]] /\ field' \in [Properties -> [Parts -> 0..made']]
    <3>1. field \in [Properties -> [Parts -> 0..made]]
        BY <1>0 DEF StringsOwned
    <3>2. 0..made \subseteq 0..made'
        BY <1>5
    <3> QED BY <1>1, <3>1, <3>2
  <2>2. ASSUME NEW q \in Properties, NEW r \in Parts PROVE ShowsOwn(q, r)'
    <3>1. ShowsOwn(q, r) /\ field'[q][r] = field[q][r] /\ field[q][r] \in 0..made
        BY <1>0, <1>1, <2>1 DEF StringsOwned
    <3>2. field[q][r] # 0 => field[q][r] \in 1..made
        BY <1>5, <3>1
    <3>3. field[q][r] # 0 => owner'[field[q][r]] = [p |-> q, part |-> r]
        BY <1>5, <3>1, <3>2 DEF ShowsOwn, NULL
    <3>4. CASE <<q, r>> = <<p, part>>
        BY <1>2, <3>1, <3>3, <3>4 DEF ShowsOwn, NULL
    <3>5. CASE <<q, r>> # <<p, part>>
      <4>1. backing'[q][r] = backing[q][r]
          BY <1>6, <3>5
      <4>2. r = "value" /\ q \in cleared => q \in cleared'
          BY <1>1, <3>5
      <4>3. field[q][r] = backing[q][r] \/ (r = "value" /\ q \in cleared)
          BY <1>1, <3>1 DEF ShowsOwn
      <4> QED BY <3>1, <3>3, <4>1, <4>2, <4>3 DEF ShowsOwn, NULL
    <3> QED BY <3>4, <3>5
  <2>3. ASSUME NEW q \in Properties, q \in cleared' PROVE backing'[q].value = 0
    <3>1. q \in cleared /\ <<q, "value">> # <<p, part>> /\ "value" \in Parts
        BY <1>1, <2>3 DEF Parts
    <3>2. backing[q]["value"] = 0
        BY <1>0, <3>1 DEF StringsOwned, NULL
    <3>3. backing'[q]["value"] = backing[q]["value"]
        BY <1>6, <3>1
    <3> QED BY <3>2, <3>3
  <2> QED BY <1>5, <1>6, <2>0, <2>1, <2>2, <2>3 DEF StringsOwned, NULL
<1> QED BY <1>1, <1>3, <1>4, <1>7, NotCrashed DEF FieldsInv

LEMMA SetNilKeeps == ASSUME FieldsInv, ~crash.seen, SetNil PROVE FieldsInv'
<1>0. Filled /\ SetterOfField /\ StringsOwned
    BY DEF FieldsInv
<1>p. PICK p, part, string : p = setter.p /\ part = setter.part /\ string = 0
    OBVIOUS
<1>1. /\ setter.pc = "make"
      /\ setter' = (IF part = "key" THEN [setter EXCEPT !.pc = "show"] ELSE NoSetter)
      /\ UNCHANGED <<count, slot, index, field, owner, made>> /\ crash' = crash
      /\ Owns(p, part, string) /\ string = 0
      /\ cleared' = IF part = "key" \/ backing[p].value = 0 THEN cleared ELSE cleared \cup {p}
    BY <1>p DEF SetNil, Clears, NULL
<1>2. /\ p \in Properties /\ part \in Parts
      /\ part = "key" => setter' = [pc |-> "show", p |-> p, part |-> part]
      /\ part # "key" => setter' = NoSetter
    BY <1>0, <1>1, <1>p DEF SetterOfField
<1>3. SetterOfField'
    BY <1>1, <1>2 DEF SetterOfField, NoSetter
<1>4. Filled'
  <2>1. NextIndex' = NextIndex /\ Indexes' = Indexes
      BY <1>1 DEF NextIndex, Indexes
  <2>2. setter'.pc # "slot" /\ setter.pc # "slot"
      BY <1>1, <1>2 DEF NoSetter
  <2> QED BY <1>0, <1>1, <2>1, <2>2 DEF Filled
<1>5. /\ made \in Nat /\ made' = made /\ owner' = owner
      /\ owner \in [1..made -> [p : Properties, part : Parts]] /\ field \in [Properties -> [Parts -> 0..made]]
    BY <1>0, <1>1 DEF StringsOwned
<1>6. /\ backing' \in [Properties -> [Parts -> 0..made']] /\ freed' \subseteq 1..made'
      /\ \A q \in Properties, r \in Parts :
           backing'[q][r] # NULL => /\ backing'[q][r] \notin freed'
                                    /\ owner'[backing'[q][r]] = [p |-> q, part |-> r]
      /\ \A q \in Properties, r \in Parts : <<q, r>> # <<p, part>> => backing'[q][r] = backing[q][r]
      /\ backing'[p][part] = string
  <2>1. p \in Properties /\ part \in Parts /\ Owns(p, part, string)
      BY <1>1, <1>2
  <2>2. /\ made' \in Nat /\ made <= made' /\ string \in 0..made'
        /\ owner' \in [1..made' -> [p : Properties, part : Parts]] /\ \A s \in 1..made : owner'[s] = owner[s]
      BY <1>1, <1>5
  <2>3. string # NULL => string \notin 1..made /\ owner'[string] = [p |-> p, part |-> part]
      BY <1>1, <1>5 DEF NULL
  <2>4. ReplacedBy(p, part, string)
      BY <2>1, <2>2, <2>3, Replaces
  <2> QED BY <2>4 DEF ReplacedBy
<1>7. StringsOwned'
  <2>0. ASSUME NEW q \in Properties, NEW r \in Parts PROVE Holds(q, r)'
      BY <1>6 DEF Holds
  <2>1. ASSUME NEW q \in Properties, NEW r \in Parts PROVE ShowsOwn(q, r)'
    <3>1. ShowsOwn(q, r) /\ field'[q][r] = field[q][r]
        BY <1>0, <1>1 DEF StringsOwned
    <3>2. field[q][r] # 0 => owner'[field[q][r]] = [p |-> q, part |-> r]
        BY <1>5, <3>1 DEF ShowsOwn, NULL
    <3>3. field[q][r] = backing[q][r] \/ (r = "value" /\ q \in cleared)
        BY <1>1, <3>1 DEF ShowsOwn
    <3>4. CASE <<q, r>> = <<p, part>> /\ part = "key"
        BY <1>2, <3>1, <3>2, <3>4 DEF ShowsOwn, NULL
    <3>5. CASE <<q, r>> = <<p, part>> /\ part # "key"
      <4>1. q = p /\ r = "value" /\ part = "value"
          BY <1>2, <3>5 DEF Parts
      <4>2. CASE backing[p].value = 0
        <5>1. cleared' = cleared /\ backing'[q][r] = backing[q][r]
            BY <1>1, <1>6, <4>1, <4>2
        <5> QED BY <3>1, <3>2, <3>3, <5>1 DEF ShowsOwn, NULL
      <4>3. CASE backing[p].value # 0
        <5>1. q \in cleared'
            BY <1>1, <3>5, <4>1, <4>3
        <5> QED BY <3>1, <3>2, <4>1, <5>1 DEF ShowsOwn, NULL
      <4> QED BY <4>2, <4>3
    <3>6. CASE <<q, r>> # <<p, part>>
      <4>1. backing'[q][r] = backing[q][r]
          BY <1>6, <3>6
      <4>2. cleared \subseteq cleared'
          BY <1>1
      <4> QED BY <3>1, <3>2, <3>3, <4>1, <4>2 DEF ShowsOwn, NULL
    <3> QED BY <3>4, <3>5, <3>6
  <2>2. ASSUME NEW q \in Properties, q \in cleared' PROVE backing'[q].value = 0
    <3>1. CASE <<q, "value">> = <<p, part>>
        BY <1>1, <1>6, <3>1
    <3>2. CASE <<q, "value">> # <<p, part>>
      <4>1. q \in cleared /\ "value" \in Parts
        <5>1. ASSUME q \notin cleared PROVE FALSE
          <6>1. part # "key" /\ q = p
              BY <1>1, <2>2, <5>1
          <6> QED BY <1>2, <3>2, <6>1 DEF Parts
        <5> QED BY <5>1 DEF Parts
      <4>2. backing[q]["value"] = 0
          BY <1>0, <4>1 DEF StringsOwned, NULL
      <4>3. backing'[q]["value"] = backing[q]["value"]
          BY <1>6, <3>2, <4>1
      <4> QED BY <4>2, <4>3
    <3> QED BY <3>1, <3>2
  <2>3. field' \in [Properties -> [Parts -> 0..made']] /\ owner' \in [1..made' -> [p : Properties, part : Parts]]
        /\ made' \in Nat
      BY <1>1, <1>5
  <2> QED BY <1>6, <2>0, <2>1, <2>2, <2>3 DEF StringsOwned, NULL
<1> QED BY <1>1, <1>3, <1>4, <1>7, NotCrashed DEF FieldsInv

LEMMA ShowStringKeeps == ASSUME FieldsInv, ~crash.seen, ShowString PROVE FieldsInv'
<1>0. Filled /\ SetterOfField /\ StringsOwned
    BY DEF FieldsInv
<1> DEFINE p == setter.p
           part == setter.part
<1>1. /\ setter.pc = "show" /\ setter' = NoSetter
      /\ UNCHANGED <<count, slot, index, backing, owner, freed, made, cleared>> /\ crash' = crash
      /\ field' = [field EXCEPT ![p][part] = backing[p][part]]
    BY DEF ShowString, Shows
<1>2. p \in Properties /\ part \in Parts
    BY <1>0, <1>1 DEF SetterOfField
<1>3. SetterOfField'
    BY <1>1 DEF SetterOfField, NoSetter
<1>4. Filled'
  <2>1. NextIndex' = NextIndex /\ Indexes' = Indexes
      BY <1>1 DEF NextIndex, Indexes
  <2>2. setter'.pc # "slot"
      BY <1>1 DEF NoSetter
  <2> QED BY <1>0, <1>1, <2>1, <2>2 DEF Filled
<1>5. /\ made \in Nat /\ field \in [Properties -> [Parts -> 0..made]]
      /\ backing \in [Properties -> [Parts -> 0..made]]
    BY <1>0 DEF StringsOwned
<1>6. field' \in [Properties -> [Parts -> 0..made]] /\ field'[p][part] = backing[p][part]
      /\ \A q \in Properties, r \in Parts : <<q, r>> # <<p, part>> => field'[q][r] = field[q][r]
  <2>1. backing[p][part] \in 0..made /\ field[p] \in [Parts -> 0..made]
      BY <1>2, <1>5
  <2> QED BY <1>1, <1>2, <1>5, <2>1
<1>7. StringsOwned'
  <2>1. ASSUME NEW q \in Properties, NEW r \in Parts PROVE Holds(q, r)' /\ ShowsOwn(q, r)'
    <3>1. Holds(q, r) /\ ShowsOwn(q, r)
        BY <1>0 DEF StringsOwned
    <3>2. Holds(q, r)'
        BY <1>1, <3>1 DEF Holds
    <3>3. CASE <<q, r>> = <<p, part>>
        BY <1>1, <1>6, <3>1, <3>2, <3>3 DEF ShowsOwn, Holds
    <3>4. CASE <<q, r>> # <<p, part>>
      <4>1. field'[q][r] = field[q][r] /\ backing'[q][r] = backing[q][r]
          BY <1>1, <1>6, <3>4
      <4>2. field[q][r] = backing[q][r] \/ (r = "value" /\ q \in cleared)
          BY <3>1, <3>4 DEF ShowsOwn
      <4> QED BY <1>1, <3>1, <3>2, <4>1, <4>2 DEF ShowsOwn
    <3> QED BY <3>2, <3>3, <3>4
  <2> QED BY <1>0, <1>1, <1>5, <1>6, <2>1 DEF StringsOwned
<1> QED BY <1>1, <1>3, <1>4, <1>7, NotCrashed DEF FieldsInv

\* The callback that interrupts nothing finds every entry, and in it what was set last.
LEMMA CallbackKeeps == ASSUME FieldsInv, ~crash.seen, CrashCallback PROVE FieldsInv'
<1>0. Filled /\ SetterOfField /\ StringsOwned
    BY DEF FieldsInv
<1>1. /\ UNCHANGED <<count, slot, index, field, backing, owner, freed, made, cleared, setter, hooked>>
      /\ crash'.fault = (hooked = "half" \/ \E i \in Indexes : i < count /\ slot[i] = {})
      /\ crash'.read = UNION {{field[p].key, field[p].value} : p \in {q \in Shown : Writes(q)}}
      /\ crash'.wrote = {<<field[p].key, field[p].value>> : p \in {q \in Shown : Writes(q)}}
    BY DEF CrashCallback, strings
<1>2. Filled' /\ SetterOfField' /\ StringsOwned'
  <2>1. NextIndex' = NextIndex /\ Indexes' = Indexes
      BY <1>1 DEF NextIndex, Indexes
  <2>2. Filled'
      BY <1>0, <1>1, <2>1 DEF Filled
  <2>3. SetterOfField'
      BY <1>0, <1>1 DEF SetterOfField
  <2>4. StringsOwned'
      BY <1>0, <1>1, StringsKept
  <2> QED BY <2>2, <2>3, <2>4
<1>3. ASSUME Quiet PROVE Shown = DOMAIN index
  <2>1. count = NextIndex
      BY <1>0, <1>3 DEF Filled, Quiet
  <2>2. ASSUME NEW p \in Shown PROVE p \in DOMAIN index
    <3>1. PICK i \in Indexes : i < count /\ p \in slot[i]
        BY DEF Shown
    <3> QED BY <1>0, <2>1, <3>1 DEF Filled
  <2>3. ASSUME NEW p \in DOMAIN index PROVE p \in Shown
    <3>1. index[p] \in Indexes /\ index[p] < count /\ p \in slot[index[p]]
        BY <1>0, <2>1 DEF Filled
    <3> QED BY <3>1 DEF Shown
  <2> QED BY <2>2, <2>3
<1>4. ASSUME Quiet, NEW p \in DOMAIN index
      PROVE  /\ field[p].key = backing[p].key
             /\ field[p].value = backing[p].value \/ p \in cleared
  <2>1. p \in Properties /\ "key" \in Parts /\ "value" \in Parts
      BY <1>0 DEF Filled, Parts
  <2>2. ShowsOwn(p, "key") /\ ShowsOwn(p, "value")
      BY <1>0, <2>1 DEF StringsOwned
  <2> QED BY <1>4, <2>2 DEF ShowsOwn, Quiet
<1>5. ReadsLiveStrings'
  <2> SUFFICES ASSUME Quiet
               PROVE  /\ ~crash'.fault /\ NULL \notin crash'.read
                      /\ \A s \in crash'.read \cap freed : owner[s].part = "value" /\ owner[s].p \in cleared
      BY <1>1 DEF ReadsLiveStrings, Quiet
  <2>1. ~crash'.fault
    <3>1. count = NextIndex /\ hooked # "half"
        BY <1>0 DEF Filled, Quiet
    <3>2. \A i \in Indexes : i < NextIndex => slot[i] # {}
        BY <1>0 DEF Filled
    <3> QED BY <1>1, <3>1, <3>2
  <2>2. NULL \notin crash'.read
      BY <1>1 DEF Writes
  <2>3. ASSUME NEW s \in crash'.read, s \in freed
        PROVE  owner[s].part = "value" /\ owner[s].p \in cleared
    <3>1. PICK p \in DOMAIN index : Writes(p) /\ s \in {field[p].key, field[p].value}
        BY <1>1, <1>3
    <3>2. p \in Properties /\ "key" \in Parts /\ "value" \in Parts
        BY <1>0 DEF Filled, Parts
    <3>3. Holds(p, "key") /\ Holds(p, "value") /\ ShowsOwn(p, "value")
        BY <1>0, <3>2 DEF StringsOwned
    <3>4. s # field[p].key
      <4>1. field[p].key # NULL => backing[p].key \notin freed
          BY <1>4, <3>3 DEF Holds
      <4> QED BY <1>4, <2>3, <3>1, <4>1 DEF Writes
    <3>5. s = field[p].value /\ s # NULL
        BY <3>1, <3>4 DEF Writes
    <3>6. p \in cleared
        BY <1>4, <2>3, <3>3, <3>5 DEF Holds
    <3>7. owner[s] = [p |-> p, part |-> "value"]
        BY <3>3, <3>5 DEF ShowsOwn
    <3> QED BY <3>6, <3>7
  <2> QED BY <2>1, <2>2, <2>3
<1>6. WritesAllSet'
  <2> SUFFICES ASSUME Quiet, NEW p \in DOMAIN index, NULL \notin {backing[p].key, backing[p].value}
               PROVE  <<backing[p].key, backing[p].value>> \in crash'.wrote
      BY <1>1 DEF WritesAllSet, Quiet
  <2>1. p \in Properties
      BY <1>0 DEF Filled
  <2>2. p \notin cleared
      BY <1>0, <2>1 DEF StringsOwned
  <2>3. field[p].key = backing[p].key /\ field[p].value = backing[p].value
      BY <1>4, <2>2
  <2>4. p \in Shown /\ Writes(p)
      BY <1>3, <2>3 DEF Writes
  <2> QED BY <1>1, <2>3, <2>4
<1> QED BY <1>2, <1>5, <1>6 DEF FieldsInv, FieldsReadable

LEMMA FieldsStep == FieldsInv /\ [FieldsNext]_fieldVars => FieldsInv'
<1> SUFFICES ASSUME FieldsInv, [FieldsNext]_fieldVars PROVE FieldsInv'
    OBVIOUS
<1>1. CASE FieldsNext
    BY <1>1, SettersKeep, CountFieldKeeps, AddFieldKeeps, MakeStringKeeps, ShowStringKeeps, SetNilKeeps,
       CallbackKeeps DEF FieldsNext
<1>2. CASE UNCHANGED fieldVars
  <2>1. UNCHANGED <<count, slot, index, field, backing, owner, freed, made, setter, hooked, cleared, crash>>
      BY <1>2 DEF fieldVars
  <2>2. Filled'
      BY <2>1 DEF FieldsInv, Filled, NextIndex, Indexes
  <2>3. SetterOfField'
      BY <2>1 DEF FieldsInv, SetterOfField
  <2>4. StringsOwned'
      BY <2>1, StringsKept DEF FieldsInv
  <2>5. FieldsReadable'
      BY <2>1 DEF FieldsInv, FieldsReadable, ReadsLiveStrings, WritesAllSet, Quiet
  <2> QED BY <2>2, <2>3, <2>4, <2>5 DEF FieldsInv
<1> QED BY <1>1, <1>2

\* A crash callback that interrupts no setter meets every field, no string that was
\* freed but those of values set to nil, and writes what was set last: for any
\* number of properties and of sets.
THEOREM FieldsAlwaysReadable == FieldsInit /\ [][FieldsNext]_fieldVars => []FieldsReadable
<1>1. FieldsInv => FieldsReadable
    BY DEF FieldsInv
<1> QED BY <1>1, FieldsInitInv, FieldsStep, PTL

-----------------------------------------------------------------------------
(* What every state of the delivery keeps *)

ReportKinds == {"crash", "user", "snapshot"}
Names == Users \cup {Missing}
Releases == {Missing} \cup {ToString(n) : n \in 0..MaxLaunches}
AllShapes == Shapes \cup {Plain("reported"), Plain(Snapshot)}
Reports == [crash : {shape.crash : shape \in AllShapes}, recrash : {shape.recrash : shape \in AllShapes},
            cpu : {shape.cpu : shape \in AllShapes}, version : Releases, number : Nat, kind : ReportKinds,
            launch : 1..MaxLaunches, user : Names]
SenderState == [pc : {"idle", "list", "filter", "sink", "answer"}, own : Nat,
                todo : Seq({Doctored(r) : r \in Reports}), loaded : SUBSET Nat, refused : SUBSET Nat, ok : BOOLEAN, alone : BOOLEAN]

DeliveryTypeOK ==
    /\ launch \in 0..MaxLaunches /\ up \in BOOLEAN /\ shared \in BOOLEAN
    /\ user \in Names
    /\ stored \in [user : Names, release : Releases] /\ lastContext \in [user : Names, release : Releases]
    /\ born \in Nat
    /\ disk \in Seq(Reports)
    /\ sender \in [Senders -> SenderState]

\* A sending that filters or converts has something to convert.
WorkLeft == \A s \in Senders : sender[s].pc \in {"filter", "sink"} => Len(sender[s].todo) > 0

\* The defaults hold what this launch, or the last one, set; a crash is of a launch
\* that ended, and until the next launch has read them they name its user.
Remembers(report) ==
    /\ report.recrash = << >> => report.version = ToString(report.launch)
    /\ report.kind = "crash" =>
         /\ report.launch <= launch
         /\ up => report.launch < launch
         /\ report.user # Missing =>
              /\ ~up /\ report.launch = launch => stored.user = report.user
              /\ up /\ report.launch + 1 = launch => lastContext.user = report.user
ContextKept ==
    /\ stored.release \in {Missing, ToString(launch)}
    /\ up => launch > 0 /\ lastContext.release \in {Missing, ToString(launch - 1)}
    /\ up /\ user # Missing => stored.user = user
    /\ \A k \in 1..Len(disk) : Remembers(disk[k])
    /\ \A s \in Senders : \A k \in 1..Len(sender[s].todo) : Remembers(sender[s].todo[k])

\* The reports on disk have numbers of their own, in order, and only snapshots pass
\* for one.
DiskOrdered ==
    /\ \A k \in 1..Len(disk) : disk[k].number \in 1..born /\ (disk[k].kind # "snapshot" => ~Passes(disk[k]))
    /\ \A j, k \in 1..Len(disk) : j < k => disk[j].number < disk[k].number

\* What a sending has listed and the disk still has is to do, or has reached the client.
ToDo(s, r) == \E k \in 1..Len(sender[s].todo) : sender[s].todo[k] = Doctored(r)
ListedHandled ==
    \A s \in Senders :
      /\ sender[s].loaded \subseteq 1..born
      /\ sender[s].pc = "answer" /\ sender[s].ok => Len(sender[s].todo) = 0
      /\ up /\ shared /\ sender[s].ok /\ sender[s].pc \in {"filter", "sink", "answer"} =>
           \A k \in 1..Len(disk) :
             disk[k].number \in sender[s].loaded =>
               ToDo(s, disk[k]) \/ Sent(disk[k].number) \/ Refused(s, disk[k].number) \/ Taken(disk[k])

\* The snapshot a sending was begun for is the last one it comes to, and nobody comes
\* after it as long as it is alone.
OwnLast ==
    \A s \in Senders :
      up /\ shared /\ sender[s].ok /\ sender[s].alone /\ sender[s].own # 0 =>
        /\ \A o \in Senders : o # s => sender[o].pc = "idle"
        /\ sender[s].pc = "list" =>
             Len(disk) > 0 /\ disk[Len(disk)].number = sender[s].own /\ Passes(disk[Len(disk)])
        /\ sender[s].pc \in {"filter", "sink"} =>
             /\ sender[s].todo[Len(sender[s].todo)].number = sender[s].own
             /\ \E r \in Reports : sender[s].todo[Len(sender[s].todo)] = Doctored(r) /\ Passes(r)
        /\ sender[s].pc = "answer" => snapshot = sender[s].own

-----------------------------------------------------------------------------
(* Sequences and reports *)

LEMMA HeadAndTail ==
    ASSUME NEW S, NEW q \in Seq(S), Len(q) > 0
    PROVE  /\ Tail(q) \in Seq(S) /\ Len(Tail(q)) = Len(q) - 1
           /\ Head(q) = q[1] /\ q[1] \in S
           /\ \A i \in 1..Len(Tail(q)) : Tail(q)[i] = q[i + 1]
<1>1. q # << >>
    OBVIOUS
<1> QED BY <1>1

LEMMA OneMore ==
    ASSUME NEW S, NEW q \in Seq(S), NEW e \in S
    PROVE  /\ Append(q, e) \in Seq(S) /\ Len(Append(q, e)) = Len(q) + 1
           /\ Append(q, e)[Len(q) + 1] = e
           /\ \A i \in 1..Len(q) : Append(q, e)[i] = q[i]
OBVIOUS

LEMMA SameAgain == ASSUME NEW f, f = [x \in DOMAIN f |-> f[x]], NEW a PROVE [f EXCEPT ![a] = f[a]] = f
OBVIOUS

LEMMA SectionOfRecrash == ASSUME NEW r, r.recrash # << >> PROVE Section(r) = r.recrash[1]
BY DEF Section

\* A diagnosis is all that the doctor adds.
LEMMA DoctoredFields ==
    ASSUME NEW r, {"crash", "recrash", "cpu"} \subseteq DOMAIN r,
           r = [x \in DOMAIN r |-> r[x]],
           r.recrash = << >> \/ r.recrash = <<r.recrash[1]>>
    PROVE  /\ \A x \in DOMAIN r \ {"crash", "recrash"} : Doctored(r)[x] = r[x]
           /\ Doctored(r).crash = [r.crash EXCEPT !.diagnosis = Diagnosis(r.crash, r.cpu)]
           /\ r.recrash = << >> => Doctored(r).recrash = << >>
           /\ r.recrash # << >> =>
                Doctored(r).recrash = <<[r.recrash[1] EXCEPT !.diagnosis = Diagnosis(r.crash, r.cpu)]>>
<1> DEFINE d == Diagnosis(r.crash, r.cpu)
           c == [r.crash EXCEPT !.diagnosis = d]
           again == [k \in DOMAIN r.recrash |-> [r.recrash[k] EXCEPT !.diagnosis = d]]
<1>1. Doctored(r) = [r EXCEPT !.crash = c, !.recrash = again]
    BY DEF Doctored
<1>2. r.recrash = << >> => again = << >>
    OBVIOUS
<1>3. r.recrash = <<r.recrash[1]>> => again = <<[r.recrash[1] EXCEPT !.diagnosis = d]>>
    OBVIOUS
<1> HIDE DEF c, again, d
<1>4. /\ Doctored(r).crash = c /\ Doctored(r).recrash = again
      /\ \A x \in DOMAIN r \ {"crash", "recrash"} : Doctored(r)[x] = r[x]
    BY <1>1
<1> QED BY <1>2, <1>3, <1>4 DEF c, d

LEMMA SectionDoctored ==
    ASSUME NEW r, {"crash", "recrash", "cpu"} \subseteq DOMAIN r,
           r = [x \in DOMAIN r |-> r[x]],
           r.recrash = << >> \/ r.recrash = <<r.recrash[1]>>
    PROVE  /\ r.recrash = << >> =>
                Section(Doctored(r)) = [r.crash EXCEPT !.diagnosis = Diagnosis(r.crash, r.cpu)]
           /\ r.recrash # << >> =>
                Section(Doctored(r)) = [r.recrash[1] EXCEPT !.diagnosis = Diagnosis(r.crash, r.cpu)]
<1> DEFINE c == [r.crash EXCEPT !.diagnosis = Diagnosis(r.crash, r.cpu)]
           e == [r.recrash[1] EXCEPT !.diagnosis = Diagnosis(r.crash, r.cpu)]
<1>1. /\ Doctored(r).crash = c
      /\ r.recrash = << >> => Doctored(r).recrash = << >>
      /\ r.recrash # << >> => Doctored(r).recrash = <<e>>
    BY DoctoredFields
<1> HIDE DEF c, e
<1>2. ASSUME r.recrash = << >> PROVE Section(Doctored(r)) = c
    BY <1>1, <1>2 DEF Section
<1>3. ASSUME r.recrash # << >> PROVE Section(Doctored(r)) = e
  <2>1. Doctored(r).recrash # << >> /\ Doctored(r).recrash[1] = e
      BY <1>1, <1>3
  <2>2. \A d : d.recrash # << >> => Section(d) = d.recrash[1]
      BY SectionOfRecrash
  <2> QED BY <2>1, <2>2
<1> QED BY <1>2, <1>3 DEF c, e

\* Whether a report passes for a snapshot is a matter of what is in it.
LEMMA PassesByContents ==
    ASSUME NEW r, NEW q, {"crash", "recrash", "cpu"} \subseteq DOMAIN r, {"crash", "recrash", "cpu"} \subseteq DOMAIN q,
           r = [x \in DOMAIN r |-> r[x]], q = [x \in DOMAIN q |-> q[x]],
           r.recrash = << >> \/ r.recrash = <<r.recrash[1]>>,
           q.crash = r.crash, q.recrash = r.recrash, q.cpu = r.cpu, Passes(q)
    PROVE  Passes(r)
<1>1. Section(Doctored(q)) = Section(Doctored(r))
    BY SectionDoctored
<1> QED BY <1>1 DEF Passes

LEMMA PassesForSnapshot ==
    ASSUME NEW r, NEW context
    PROVE  /\ IsSnapshot(Event(Doctored(r), context)) => Passes(r)
           /\ Passes(r) => IsSnapshot(Event(Doctored(r), context))
<1> DEFINE section == Section(Doctored(r))
           e == [value |-> Value(section),
                 diagnosis |-> IF AddsDiagnosis(section) THEN section.diagnosis ELSE NoDiagnosis,
                 thread |-> ThreadOfException(section)]
<1>1. Event(Doctored(r), context).exceptions = IF ~section.error THEN << >> ELSE <<e>>
    BY DEF Event
<1>2. /\ e.value = Value(section)
      /\ e.diagnosis = IF AddsDiagnosis(section) THEN section.diagnosis ELSE NoDiagnosis
    OBVIOUS
<1>3. Passes(r) = (/\ section.error /\ Value(section) = {Snapshot}
                   /\ AddsDiagnosis(section) => section.diagnosis = NoDiagnosis)
    BY DEF Passes
<1> DEFINE ex == Event(Doctored(r), context).exceptions
<1> HIDE DEF section, e, ex
<1>4. /\ ~section.error => ex = << >>
      /\ section.error => ex # << >> /\ ex[1] = e
    BY <1>1 DEF ex
<1>7. IsSnapshot(Event(Doctored(r), context)) =
        (ex # << >> /\ ex[1].value = {Snapshot} /\ ex[1].diagnosis = NoDiagnosis)
    BY DEF IsSnapshot, ex
<1>5. ASSUME IsSnapshot(Event(Doctored(r), context)) PROVE Passes(r)
  <2>1. section.error /\ ex[1] = e /\ e.value = {Snapshot} /\ e.diagnosis = NoDiagnosis
      BY <1>4, <1>5, <1>7
  <2> QED BY <1>2, <1>3, <2>1
<1>6. ASSUME Passes(r) PROVE IsSnapshot(Event(Doctored(r), context))
  <2>1. section.error /\ Value(section) = {Snapshot} /\ (AddsDiagnosis(section) => section.diagnosis = NoDiagnosis)
      BY <1>3, <1>6
  <2>2. e.diagnosis = NoDiagnosis
      BY <1>2, <2>1
  <2> QED BY <1>2, <1>4, <1>7, <2>1, <2>2
<1> QED BY <1>5, <1>6

\* A report the client writes itself: with the text of a snapshot it passes for one,
\* with another it does not.
LEMMA PlainSection ==
    ASSUME NEW reason
    PROVE  LET section == Plain(reason).crash
           IN  /\ Diagnosis(section, "arm64") = NoDiagnosis /\ section.error /\ section.diagnosis = NoDiagnosis
               /\ Value(section) = {reason}
               /\ [section EXCEPT !.diagnosis = NoDiagnosis] = section
<1> DEFINE frame == [symbol |-> "main", at |-> 1, app |-> TRUE]
           thread == [NoThread EXCEPT !.crashed = TRUE, !.frames = <<frame>>]
           section == Plain(reason).crash
<1>1. section = [error |-> TRUE, type |-> "user", reason |-> reason, cppName |-> Missing,
                 mach |-> "other", signal |-> "other", address |-> 0, crashedThread |-> << >>,
                 threads |-> <<thread>>, diagnosis |-> NoDiagnosis]
    BY DEF Plain, ASection
<1>2. thread.crashed = TRUE /\ thread.overflow = FALSE /\ thread.rogue = FALSE /\ thread.zombie = FALSE
      /\ thread.strings = {}
    BY DEF NoThread
<1> HIDE DEF thread, section
<1>3. section.threads = <<thread>> /\ section.crashedThread = << >> /\ section.type = "user" /\ section.mach = "other"
      /\ section.reason = reason /\ section.error /\ section.diagnosis = NoDiagnosis
    BY <1>1
<1>4. DOMAIN <<thread>> = {1} /\ <<thread>>[1] = thread
    OBVIOUS
<1>5. Flagged(section) = {1}
    BY <1>2, <1>3, <1>4 DEF Flagged
<1>6. FirstOf({1}) = 1
    BY DEF FirstOf
<1>7. CrashedThread(section) = thread
    BY <1>3, <1>4, <1>5, <1>6 DEF CrashedThread
<1>8. Diagnosis(section, "arm64") = NoDiagnosis
    BY <1>2, <1>3, <1>7 DEF Diagnosis, IsMathError, IsZombieCall, IsInvalidAddress, Missing
<1>9. CrashedIndex(section) = 1
    BY <1>5, <1>6 DEF CrashedIndex
<1>10. Notable(section) = {} /\ Reason(section) = reason
    BY <1>2, <1>3, <1>4, <1>9 DEF Notable, Reason
<1>11. Value(section) = {reason}
    BY <1>10 DEF Value
<1>12. [section EXCEPT !.diagnosis = NoDiagnosis] = section
  <2>1. section = [x \in DOMAIN section |-> section[x]]
      BY <1>1
  <2> QED BY <1>3, <2>1, SameAgain
<1> QED BY <1>3, <1>8, <1>11, <1>12 DEF section

LEMMA PlainPasses ==
    ASSUME NEW reason, NEW r, {"crash", "recrash", "cpu"} \subseteq DOMAIN r, r = [x \in DOMAIN r |-> r[x]],
           r.crash = Plain(reason).crash, r.recrash = << >>, r.cpu = "arm64"
    PROVE  (reason = Snapshot => Passes(r)) /\ (Passes(r) => reason = Snapshot)
<1> DEFINE section == Plain(reason).crash
<1>1. Section(Doctored(r)) = section /\ section.error /\ section.diagnosis = NoDiagnosis /\ Value(section) = {reason}
  <2>1. Section(Doctored(r)) = [section EXCEPT !.diagnosis = Diagnosis(section, "arm64")]
      BY SectionDoctored
  <2> HIDE DEF section
  <2>2. /\ Diagnosis(section, "arm64") = NoDiagnosis /\ section.error /\ section.diagnosis = NoDiagnosis
        /\ Value(section) = {reason} /\ [section EXCEPT !.diagnosis = NoDiagnosis] = section
      BY PlainSection DEF section
  <2> QED BY <2>1, <2>2
<1> HIDE DEF section
<1>2. (reason = Snapshot => Passes(r)) /\ (Passes(r) => reason = Snapshot)
    BY <1>1 DEF Passes
<1> QED BY <1>2

-----------------------------------------------------------------------------
(* Types *)

LEMMA ReportsAre ==
    ASSUME NEW r \in Reports
    PROVE  /\ {"crash", "recrash", "cpu", "version", "number", "kind", "launch", "user"} = DOMAIN r
           /\ r = [x \in DOMAIN r |-> r[x]]
           /\ r.recrash = << >> \/ r.recrash = <<r.recrash[1]>>
           /\ Doctored(r).number = r.number /\ Doctored(r).kind = r.kind /\ Doctored(r).launch = r.launch
           /\ Doctored(r).user = r.user /\ Doctored(r).version = r.version
           /\ Doctored(r).recrash = << >> => r.recrash = << >>
<1>1. /\ {"crash", "recrash", "cpu", "version", "number", "kind", "launch", "user"} = DOMAIN r
      /\ r = [x \in DOMAIN r |-> r[x]]
    BY DEF Reports
<1>2. r.recrash = << >> \/ r.recrash = <<r.recrash[1]>>
  <2>1. r.recrash \in {shape.recrash : shape \in AllShapes}
      BY DEF Reports
  <2> DEFINE again == r.recrash
  <2> HIDE DEF again
  <2>2. PICK shape \in AllShapes : again = shape.recrash
      BY <2>1 DEF again
  <2>3. CASE shape \in Shapes
      BY <2>2, <2>3, DeliveryAssumption DEF again
  <2>4. CASE shape \in {Plain("reported"), Plain(Snapshot)}
    <3>1. again = << >>
        BY <2>2, <2>4 DEF Plain
    <3> QED BY <3>1 DEF again
  <2> QED BY <2>3, <2>4 DEF AllShapes
<1>3. \A x \in DOMAIN r \ {"crash", "recrash"} : Doctored(r)[x] = r[x]
    BY <1>1, <1>2, DoctoredFields
<1>4. ASSUME Doctored(r).recrash = << >>, r.recrash # << >> PROVE FALSE
  <2> DEFINE e == [r.recrash[1] EXCEPT !.diagnosis = Diagnosis(r.crash, r.cpu)]
  <2>1. Doctored(r).recrash = <<e>>
      BY <1>1, <1>2, <1>4, DoctoredFields
  <2> HIDE DEF e
  <2> QED BY <1>4, <2>1
<1> QED BY <1>1, <1>2, <1>3, <1>4

Loaded == {Doctored(r) : r \in Reports}

LEMMA RecordedTypes ==
    ASSUME DeliveryTypeOK, up, launch > 0, NEW kind \in ReportKinds, NEW shape \in AllShapes
    PROVE  /\ Recorded(kind, shape) \in Reports
           /\ Recorded(kind, shape).crash = shape.crash /\ Recorded(kind, shape).recrash = shape.recrash
           /\ Recorded(kind, shape).cpu = shape.cpu
           /\ Recorded(kind, shape).number = born + 1 /\ Recorded(kind, shape).kind = kind
           /\ Recorded(kind, shape).launch = launch /\ Recorded(kind, shape).user = user
           /\ shape.recrash = << >> => Recorded(kind, shape).version = ToString(launch)
<1> DEFINE v == IF shape.recrash # << >> THEN Missing ELSE ToString(launch)
           n == born + 1
           c == shape.crash
           again == shape.recrash
           cpu == shape.cpu
<1>1. Recorded(kind, shape) = [crash |-> c, recrash |-> again, cpu |-> cpu, version |-> v, number |-> n,
                               kind |-> kind, launch |-> launch, user |-> user]
    BY DEF Recorded
<1>2. /\ c \in {s.crash : s \in AllShapes} /\ again \in {s.recrash : s \in AllShapes}
      /\ cpu \in {s.cpu : s \in AllShapes}
    OBVIOUS
<1>3. /\ launch \in 1..MaxLaunches /\ user \in Names /\ n \in Nat
    BY DeliveryAssumption DEF DeliveryTypeOK
<1>4. v \in Releases
  <2>1. launch \in 0..MaxLaunches
      BY DEF DeliveryTypeOK
  <2> QED BY <2>1 DEF Releases
<1>5. shape.recrash = << >> => v = ToString(launch)
    OBVIOUS
<1> HIDE DEF v, n, c, again, cpu
<1>6. Recorded(kind, shape) \in Reports
    BY <1>1, <1>2, <1>3, <1>4 DEF Reports
<1>7. /\ Recorded(kind, shape).crash = c /\ Recorded(kind, shape).recrash = again /\ Recorded(kind, shape).cpu = cpu
      /\ Recorded(kind, shape).number = n /\ Recorded(kind, shape).kind = kind
      /\ Recorded(kind, shape).launch = launch /\ Recorded(kind, shape).user = user
      /\ Recorded(kind, shape).version = v
    BY <1>1
<1> QED BY <1>5, <1>6, <1>7 DEF n, c, again, cpu

LEMMA PlainIsShape == Plain("reported") \in AllShapes /\ Plain(Snapshot) \in AllShapes
BY DEF AllShapes

\* The actions by what they do to a sending.
Moves(s, r) == sender' = [sender EXCEPT ![s] = r]
LEMMA IdleTypes ==
    /\ Idle \in SenderState /\ [Idle EXCEPT !.pc = "list"] \in SenderState
    /\ Idle.pc = "idle" /\ Idle.own = 0 /\ Idle.todo = << >> /\ Idle.loaded = {}
<1>1. << >> \in Seq({Doctored(r) : r \in Reports})
    OBVIOUS
<1>2. Idle \in SenderState
    BY <1>1 DEF Idle, SenderState
<1>3. Idle.pc = "idle" /\ Idle.own = 0 /\ Idle.todo = << >> /\ Idle.loaded = {}
    BY DEF Idle
<1>4. [Idle EXCEPT !.pc = "list"] \in SenderState
    BY <1>2 DEF SenderState
<1> QED BY <1>2, <1>3, <1>4

LEMMA LoadsDisk ==
    ASSUME disk \in Seq(Reports)
    PROVE  /\ Loads \in Seq(Loaded) /\ Len(Loads) = Len(disk)
           /\ \A k \in 1..Len(disk) : Loads[k] = Doctored(disk[k])
           /\ SetOf(disk) = {disk[k] : k \in 1..Len(disk)}
<1>1. DOMAIN disk = 1..Len(disk) /\ Len(disk) \in Nat
    OBVIOUS
<1>2. Loads = [k \in 1..Len(disk) |-> Doctored(disk[k])]
    BY <1>1 DEF Loads
<1>3. \A k \in 1..Len(disk) : Doctored(disk[k]) \in Loaded
    BY DEF Loaded
<1>4. Loads \in [1..Len(disk) -> Loaded]
    BY <1>2, <1>3
<1>5. Loads \in Seq(Loaded) /\ Len(Loads) = Len(disk)
    BY <1>1, <1>4
<1> QED BY <1>1, <1>2, <1>5 DEF SetOf

LEMMA DeliveryTypeInit == DeliveryInit => DeliveryTypeOK
<1> SUFFICES ASSUME DeliveryInit PROVE DeliveryTypeOK
    OBVIOUS
<1>1. Missing \in Names /\ Missing \in Releases
    BY DEF Names, Releases
<1>2. stored \in [user : Names, release : Releases] /\ lastContext \in [user : Names, release : Releases]
    BY <1>1 DEF DeliveryInit, Nothing
<1>3. disk \in Seq(Reports)
    BY DEF DeliveryInit
<1>4. sender \in [Senders -> SenderState]
    BY IdleTypes DEF DeliveryInit, IdleSenders
<1>5. launch \in 0..MaxLaunches /\ up \in BOOLEAN /\ shared \in BOOLEAN /\ user \in Names /\ born \in Nat
  <2>1. MaxLaunches \in Nat
      BY DeliveryAssumption
  <2>2. launch = 0 /\ up = FALSE /\ shared = FALSE /\ user = Missing /\ born = 0
      BY DEF DeliveryInit
  <2>3. launch \in 0..MaxLaunches /\ user \in Names /\ born \in Nat
      BY <1>1, <2>1, <2>2
  <2>4. up \in BOOLEAN /\ shared \in BOOLEAN
      BY <2>2
  <2> QED BY <2>3, <2>4
<1> QED BY <1>2, <1>3, <1>4, <1>5 DEF DeliveryTypeOK

\* What each step does to what is recorded.
Steps ==
    \/ Launch \/ Exit
    \/ \E u \in Users : SetUser(u)
    \/ \E shape \in Shapes : Crash(shape)
    \/ \E s \in Senders : Begin(s, "user", "reported") \/ Begin(s, "snapshot", Snapshot) \/ Sends(s)
LEMMA NextIsSteps == DeliveryNext => Steps
BY DEF DeliveryNext, Steps, ReportUserException, SnapshotStacktrace

LEMMA MovesTypes ==
    ASSUME DeliveryTypeOK, NEW s \in Senders, NEW r, Goes(s, r), r \in SenderState
    PROVE  sender' \in [Senders -> SenderState]
BY DEF DeliveryTypeOK, Goes

LEMMA BeginTypes ==
    ASSUME DeliveryTypeOK, up => launch > 0, NEW s \in Senders, NEW kind \in ReportKinds, NEW reason,
           Plain(reason) \in AllShapes, Begin(s, kind, reason)
    PROVE  DeliveryTypeOK'
<1>1. up /\ disk' = Append(disk, Recorded(kind, Plain(reason))) /\ born' = born + 1
      /\ UNCHANGED <<launch, up, user, stored, lastContext, shared>>
    BY DEF Begin, process
<1>2. Recorded(kind, Plain(reason)) \in Reports
    BY <1>1, RecordedTypes
<1>3. disk' \in Seq(Reports) /\ born' \in Nat
    BY <1>1, <1>2, OneMore DEF DeliveryTypeOK
<1> DEFINE mine == [Idle EXCEPT !.pc = "list",
                                !.own = IF kind = "snapshot" THEN born + 1 ELSE 0,
                                !.alone = \A o \in Senders : sender[o].pc = "idle"]
           theirs(t) == [sender[t] EXCEPT !.alone = FALSE]
<1>4. sender' = [t \in Senders |-> IF t = s THEN mine ELSE theirs(t)]
    BY DEF Begin
<1>5. mine \in SenderState
  <2> DEFINE n == IF kind = "snapshot" THEN born + 1 ELSE 0
             a == \A o \in Senders : sender[o].pc = "idle"
  <2>1. n \in Nat /\ a \in BOOLEAN
      BY DEF DeliveryTypeOK
  <2> HIDE DEF n, a
  <2>2. [Idle EXCEPT !.pc = "list", !.own = n, !.alone = a] \in SenderState
    <3> QED BY <2>1, IdleTypes DEF SenderState
  <2> QED BY <2>2 DEF n, a
<1>6. \A t \in Senders : theirs(t) \in SenderState
  <2> SUFFICES ASSUME NEW t \in Senders PROVE theirs(t) \in SenderState
      OBVIOUS
  <2>1. sender[t] \in SenderState
      BY DEF DeliveryTypeOK
  <2> QED BY <2>1 DEF SenderState
<1> HIDE DEF mine, theirs
<1>7. sender' \in [Senders -> SenderState]
    BY <1>4, <1>5, <1>6
<1> QED BY <1>1, <1>3, <1>7 DEF DeliveryTypeOK

\* What the sink does with one report leaves the rest to do.
Takes(s) == Converts(s) \/ ClientRefuses(s) \/ LeavesOut(s)
LEMMA TakesOne ==
    ASSUME DeliveryTypeOK, NEW s \in Senders, Takes(s), Len(sender[s].todo) > 0
    PROVE  \E r \in SenderState :
             /\ Goes(s, r)
             /\ r.todo = Tail(sender[s].todo)
             /\ r.pc = IF Len(sender[s].todo) = 1 THEN "answer" ELSE sender[s].pc
             /\ r.ok = sender[s].ok /\ r.loaded = sender[s].loaded /\ sender[s].refused \subseteq r.refused
             /\ r.own = sender[s].own /\ r.alone = sender[s].alone
             /\ ClientRefuses(s) => Head(sender[s].todo).number \in r.refused
<1>0. sender[s] \in SenderState /\ sender[s].todo \in Seq(Loaded)
    BY DEF DeliveryTypeOK, SenderState, Loaded
<1> DEFINE q == Tail(sender[s].todo)
           p == IF Len(sender[s].todo) = 1 THEN "answer" ELSE sender[s].pc
           n == Head(sender[s].todo).number
           r(refused) == [sender[s] EXCEPT !.todo = q, !.pc = p, !.refused = refused]
<1>1. q \in Seq({Doctored(x) : x \in Reports}) /\ Head(sender[s].todo) \in Loaded
    BY <1>0, HeadAndTail DEF Loaded
<1>2. n \in Nat
  <2>1. PICK x \in Reports : Head(sender[s].todo) = Doctored(x)
      BY <1>1 DEF Loaded
  <2>2. Doctored(x).number = x.number /\ x.number \in Nat
      BY <2>1, ReportsAre DEF Reports
  <2> QED BY <2>1, <2>2
<1>3. p \in {"idle", "list", "filter", "sink", "answer"}
    BY <1>0 DEF SenderState
<1>4. Rest(s) = [sender[s] EXCEPT !.todo = q, !.pc = p]
    BY DEF Rest
<1>5. Converts(s) \/ LeavesOut(s) => Goes(s, Rest(s))
    BY DEF Converts, LeavesOut
<1>6. ClientRefuses(s) => Goes(s, [Rest(s) EXCEPT !.refused = @ \cup {n}])
    BY DEF ClientRefuses
<1> HIDE DEF p, q, n
<1>7. Rest(s) = r(sender[s].refused) /\ [Rest(s) EXCEPT !.refused = @ \cup {n}] = r(sender[s].refused \cup {n})
    BY <1>0, <1>4 DEF SenderState
<1>8. ASSUME NEW refused \in SUBSET Nat, sender[s].refused \subseteq refused
      PROVE  /\ r(refused) \in SenderState
             /\ r(refused).todo = q /\ r(refused).pc = p /\ r(refused).ok = sender[s].ok
             /\ r(refused).loaded = sender[s].loaded /\ r(refused).refused = refused
             /\ r(refused).own = sender[s].own /\ r(refused).alone = sender[s].alone
    BY <1>0, <1>1, <1>3, <1>8 DEF SenderState
<1>9. sender[s].refused \in SUBSET Nat /\ sender[s].refused \cup {n} \in SUBSET Nat
    BY <1>0, <1>2 DEF SenderState
<1> HIDE DEF r
<1>10. CASE ClientRefuses(s)
  <2>1. Goes(s, r(sender[s].refused \cup {n}))
      BY <1>6, <1>7, <1>10
  <2> QED BY <1>8, <1>9, <2>1 DEF p, q, n
<1>11. CASE ~ClientRefuses(s)
  <2>1. Goes(s, r(sender[s].refused))
      BY <1>5, <1>7, <1>11 DEF Takes
  <2> QED BY <1>8, <1>9, <1>11, <2>1 DEF p, q
<1> QED BY <1>10, <1>11

LEMMA SendsTypes ==
    ASSUME DeliveryTypeOK, NEW s \in Senders, Sends(s),
           sender[s].pc = "sink" => Len(sender[s].todo) > 0
    PROVE  DeliveryTypeOK'
<1>0. /\ sender[s] \in SenderState /\ disk \in Seq(Reports)
      /\ sender[s].todo \in Seq(Loaded)
    BY DEF DeliveryTypeOK, SenderState, Loaded
<1>1. CASE List(s)
  <2> DEFINE p == IF disk = << >> THEN "answer" ELSE "filter"
             l == {r.number : r \in SetOf(disk)}
  <2>1. Goes(s, [sender[s] EXCEPT !.pc = p, !.todo = Loads, !.loaded = l])
        /\ UNCHANGED <<process, disk, born>>
      BY <1>1 DEF List
  <2>2. p \in {"filter", "answer"} /\ l \subseteq Nat /\ Loads \in Seq({Doctored(r) : r \in Reports})
    <3>1. Loads \in Seq({Doctored(r) : r \in Reports})
        BY <1>0, LoadsDisk DEF Loaded
    <3>2. \A r \in SetOf(disk) : r \in Reports
        BY <1>0, LoadsDisk
    <3>3. l \subseteq Nat
        BY <3>2 DEF Reports
    <3> QED BY <3>1, <3>3
  <2> HIDE DEF p, l
  <2>3. [sender[s] EXCEPT !.pc = p, !.todo = Loads, !.loaded = l] \in SenderState
      BY <1>0, <2>2 DEF SenderState
  <2>4. sender' \in [Senders -> SenderState]
      BY <2>1, <2>3, MovesTypes
  <2> QED BY <2>1, <2>4 DEF DeliveryTypeOK, process
<1>2. CASE Filter(s)
  <2>1. PICK r \in {[sender[s] EXCEPT !.pc = "sink"], [sender[s] EXCEPT !.pc = "answer", !.ok = FALSE]} : Goes(s, r)
      BY <1>2 DEF Filter
  <2>2. r \in SenderState
      BY <1>0, <2>1 DEF SenderState
  <2>3. sender' \in [Senders -> SenderState]
      BY <2>1, <2>2, MovesTypes
  <2>4. UNCHANGED <<process, disk, born>>
      BY <1>2 DEF Filter
  <2> QED BY <2>3, <2>4 DEF DeliveryTypeOK, process
<1>3. CASE Takes(s)
  <2>1. UNCHANGED <<process, disk, born>> /\ sender[s].pc = "sink"
      BY <1>3 DEF Takes, Converts, ClientRefuses, LeavesOut, At
  <2>2. PICK r \in SenderState : Goes(s, r)
      BY <1>3, <2>1, TakesOne
  <2>3. sender' \in [Senders -> SenderState]
      BY <2>2, MovesTypes
  <2> QED BY <2>1, <2>3 DEF DeliveryTypeOK, process
<1>4. CASE SinkThrows(s)
  <2>1. sender' = IdleSenders /\ up' = FALSE /\ UNCHANGED <<launch, user, stored, lastContext, shared, disk, born>>
      BY <1>4 DEF SinkThrows, Down
  <2>2. sender' \in [Senders -> SenderState]
      BY <2>1, IdleTypes DEF IdleSenders
  <2> QED BY <2>1, <2>2 DEF DeliveryTypeOK
<1>5. CASE Answers(s)
  <2>1. Goes(s, Idle) /\ UNCHANGED <<process, born>> /\ disk' \in {<< >>, disk}
    <3>1. PICK behavior \in Behaviors : disk' = IF Deletes(s, behavior) THEN << >> ELSE disk
        BY <1>5 DEF Answers
    <3>2. Goes(s, Idle) /\ UNCHANGED <<process, born>>
        BY <1>5 DEF Answers
    <3> QED BY <3>1, <3>2
  <2>2. sender' \in [Senders -> SenderState]
      BY <2>1, IdleTypes, MovesTypes
  <2>3. disk' \in Seq(Reports)
    <3>1. << >> \in Seq(Reports)
        OBVIOUS
    <3> QED BY <1>0, <2>1, <3>1
  <2> QED BY <2>1, <2>2, <2>3 DEF DeliveryTypeOK, process
<1> QED BY <1>1, <1>2, <1>3, <1>4, <1>5 DEF Sends, Takes

LEMMA DeliveryTypeStep ==
    ASSUME DeliveryTypeOK, up => launch > 0, [DeliveryNext]_deliveryVars,
           \A s \in Senders : sender[s].pc = "sink" => Len(sender[s].todo) > 0
    PROVE  DeliveryTypeOK'
<1>1. CASE Launch
  <2>1. /\ launch < MaxLaunches /\ launch' = launch + 1 /\ up' = TRUE /\ user' = Missing
        /\ UNCHANGED <<disk, born>>
        /\ lastContext' = stored /\ shared' \in BOOLEAN
      BY <1>1 DEF Launch, RestoreContext
  <2>2. launch' \in 0..MaxLaunches
      BY <2>1, DeliveryAssumption DEF DeliveryTypeOK
  <2>3. stored' \in [user : Names, release : Releases]
    <3>1. PICK release \in {Missing, ToString(launch')} : stored' = [stored EXCEPT !.release = release]
        BY <1>1 DEF Launch
    <3>2. release \in Releases
        BY <2>2, <3>1 DEF Releases
    <3> QED BY <3>1, <3>2 DEF DeliveryTypeOK
  <2>4. sender' \in [Senders -> SenderState]
    <3>1. sender' = [s \in Senders |-> IF s = CHOOSE t \in Senders : TRUE THEN [Idle EXCEPT !.pc = "list"] ELSE Idle]
        BY <1>1 DEF Launch
    <3> QED BY <3>1, IdleTypes
  <2>5. Missing \in Names
      BY DEF Names
  <2> QED BY <2>1, <2>2, <2>3, <2>4, <2>5 DEF DeliveryTypeOK
<1>2. CASE Exit
  <2>1. sender' \in [Senders -> SenderState]
      BY <1>2, IdleTypes DEF Exit, Down, IdleSenders
  <2>2. up' = FALSE /\ UNCHANGED <<launch, user, stored, lastContext, shared, disk, born>>
      BY <1>2 DEF Exit, Down
  <2> QED BY <2>1, <2>2 DEF DeliveryTypeOK
<1>3. ASSUME NEW u \in Users, SetUser(u) PROVE DeliveryTypeOK'
  <2>1. /\ user' = u /\ stored' = [stored EXCEPT !.user = u]
        /\ UNCHANGED <<launch, up, lastContext, shared, disk, born, sender>>
      BY <1>3 DEF SetUser
  <2>2. u \in Names
      BY DEF Names
  <2>3. stored' \in [user : Names, release : Releases]
      BY <2>1, <2>2 DEF DeliveryTypeOK
  <2> QED BY <2>1, <2>2, <2>3 DEF DeliveryTypeOK
<1>4. ASSUME NEW shape \in Shapes, Crash(shape) PROVE DeliveryTypeOK'
  <2>1. /\ up /\ disk' = Append(disk, Recorded("crash", shape)) /\ born' = born + 1 /\ sender' = IdleSenders
        /\ up' = FALSE /\ UNCHANGED <<launch, user, stored, lastContext, shared>>
      BY <1>4 DEF Crash, Down
  <2>2. Recorded("crash", shape) \in Reports
      BY <2>1, RecordedTypes DEF AllShapes, ReportKinds
  <2>3. disk' \in Seq(Reports) /\ born' \in Nat
      BY <2>1, <2>2, OneMore DEF DeliveryTypeOK
  <2>4. sender' \in [Senders -> SenderState]
      BY <2>1, IdleTypes DEF IdleSenders
  <2> QED BY <2>1, <2>3, <2>4 DEF DeliveryTypeOK
<1>5. ASSUME NEW s \in Senders, Begin(s, "user", "reported") \/ Begin(s, "snapshot", Snapshot) PROVE DeliveryTypeOK'
    BY <1>5, BeginTypes, PlainIsShape DEF ReportKinds
<1>6. ASSUME NEW s \in Senders, Sends(s) PROVE DeliveryTypeOK'
    BY <1>6, SendsTypes
<1>7. CASE UNCHANGED deliveryVars
    BY <1>7 DEF deliveryVars, DeliveryTypeOK
<1> QED BY <1>1, <1>2, <1>3, <1>4, <1>5, <1>6, <1>7, NextIsSteps DEF Steps

-----------------------------------------------------------------------------
(* Whose crash an event is about *)

WhoInv == DeliveryTypeOK /\ WorkLeft /\ ContextKept /\ EventTellsWho

LEMMA WorkLeftInit == DeliveryInit => WorkLeft
BY IdleTypes DEF DeliveryInit, IdleSenders, WorkLeft

\* What the beginning of a sending does to it and to the others.
LEMMA BeginMoves ==
    ASSUME DeliveryTypeOK, NEW s \in Senders, NEW kind, NEW reason, Begin(s, kind, reason)
    PROVE  /\ sender'[s].pc = "list" /\ sender'[s].todo = << >> /\ sender'[s].loaded = {}
           /\ kind = "snapshot" => sender'[s].own = born + 1
           /\ kind # "snapshot" => sender'[s].own = 0
           /\ sender'[s].alone => \A o \in Senders : sender[o].pc = "idle"
           /\ \A t \in Senders : t # s =>
                /\ sender'[t].pc = sender[t].pc /\ sender'[t].todo = sender[t].todo
                /\ sender'[t].loaded = sender[t].loaded /\ sender'[t].ok = sender[t].ok
                /\ sender'[t].refused = sender[t].refused /\ ~sender'[t].alone
<1> DEFINE n == IF kind = "snapshot" THEN born + 1 ELSE 0
           a == \A o \in Senders : sender[o].pc = "idle"
           mine == [Idle EXCEPT !.pc = "list", !.own = n, !.alone = a]
           theirs(t) == [sender[t] EXCEPT !.alone = FALSE]
<1>1. sender' = [t \in Senders |-> IF t = s THEN mine ELSE theirs(t)]
    BY Zenon DEF Begin
<1>2. (kind = "snapshot" => n = born + 1) /\ (kind # "snapshot" => n = 0)
    OBVIOUS
<1>3. a => \A o \in Senders : sender[o].pc = "idle"
    OBVIOUS
<1>4. a \in BOOLEAN
    OBVIOUS
<1> HIDE DEF n, a
<1>5. mine.pc = "list" /\ mine.todo = << >> /\ mine.loaded = {} /\ mine.own = n
    BY IdleTypes DEF SenderState
<1>6. mine.alone = a
    BY <1>4, IdleTypes DEF SenderState
<1>7. \A t \in Senders : /\ theirs(t).pc = sender[t].pc /\ theirs(t).todo = sender[t].todo
                         /\ theirs(t).loaded = sender[t].loaded /\ theirs(t).ok = sender[t].ok
                         /\ theirs(t).refused = sender[t].refused /\ ~theirs(t).alone
    BY DEF DeliveryTypeOK, SenderState
<1> HIDE DEF mine, theirs
<1>8. sender'[s] = mine /\ \A t \in Senders : t # s => sender'[t] = theirs(t)
    BY <1>1
<1> QED BY <1>2, <1>3, <1>5, <1>6, <1>7, <1>8

LEMMA WorkLeftStep ==
    ASSUME DeliveryTypeOK, WorkLeft, [DeliveryNext]_deliveryVars
    PROVE  WorkLeft'
<1>0. sender \in [Senders -> SenderState] /\ disk \in Seq(Reports)
    BY DEF DeliveryTypeOK
<1>1. CASE Launch
  <2>1. sender' = [s \in Senders |-> IF s = CHOOSE t \in Senders : TRUE THEN [Idle EXCEPT !.pc = "list"] ELSE Idle]
      BY <1>1 DEF Launch
  <2>2. Idle.pc = "idle" /\ [Idle EXCEPT !.pc = "list"].pc = "list"
      BY IdleTypes DEF SenderState
  <2> HIDE DEF Idle
  <2> QED BY <2>1, <2>2 DEF WorkLeft
<1>2. CASE sender' = IdleSenders
    BY <1>2, IdleTypes DEF IdleSenders, WorkLeft
<1>3. CASE sender' = sender
    BY <1>3 DEF WorkLeft
<1>4. ASSUME NEW s \in Senders, NEW kind, NEW reason, Begin(s, kind, reason) PROVE WorkLeft'
    BY <1>4, BeginMoves DEF WorkLeft
<1>5. ASSUME NEW s \in Senders, Sends(s) PROVE WorkLeft'
  <2>0. sender[s] \in SenderState /\ sender[s].todo \in Seq(Loaded)
      BY <1>0 DEF SenderState, Loaded
  <2>1. SUFFICES ASSUME NEW r, Goes(s, r), r.pc \in {"filter", "sink"} => Len(r.todo) > 0 PROVE WorkLeft'
    <3>1. CASE List(s)
      <4> DEFINE r == [sender[s] EXCEPT !.pc = IF disk = << >> THEN "answer" ELSE "filter",
                                        !.todo = Loads, !.loaded = {q.number : q \in SetOf(disk)}]
      <4>1. Goes(s, r)
          BY <3>1 DEF List
      <4>2. r.pc = (IF disk = << >> THEN "answer" ELSE "filter") /\ r.todo = Loads
          BY <2>0 DEF SenderState
      <4> HIDE DEF r
      <4>3. disk # << >> => Len(Loads) > 0
          BY <1>0, LoadsDisk
      <4> QED BY <2>1, <4>1, <4>2, <4>3
    <3>2. CASE Filter(s)
      <4>1. PICK r \in {[sender[s] EXCEPT !.pc = "sink"], [sender[s] EXCEPT !.pc = "answer", !.ok = FALSE]} : Goes(s, r)
          BY <3>2 DEF Filter
      <4>2. r.pc \in {"filter", "sink"} => r.todo = sender[s].todo
          BY <2>0, <4>1 DEF SenderState
      <4>3. Len(sender[s].todo) > 0
          BY <3>2 DEF Filter, At, WorkLeft
      <4> QED BY <2>1, <4>1, <4>2, <4>3
    <3>3. CASE Takes(s)
      <4>1. sender[s].pc = "sink" /\ Len(sender[s].todo) > 0
          BY <3>3 DEF Takes, Converts, ClientRefuses, LeavesOut, At, WorkLeft
      <4>2. PICK r \in SenderState : /\ Goes(s, r) /\ r.todo = Tail(sender[s].todo)
                                     /\ r.pc = IF Len(sender[s].todo) = 1 THEN "answer" ELSE sender[s].pc
          BY <3>3, <4>1, TakesOne
      <4>3. Len(Tail(sender[s].todo)) = Len(sender[s].todo) - 1 /\ Len(sender[s].todo) \in Nat
          BY <2>0, <4>1, HeadAndTail
      <4>4. r.pc \in {"filter", "sink"} => Len(r.todo) > 0
        <5> DEFINE n == Len(sender[s].todo)
        <5>1. n \in Nat /\ n > 0 /\ Len(r.todo) = n - 1
            BY <4>1, <4>2, <4>3
        <5>2. r.pc \in {"filter", "sink"} => n # 1
            BY <4>2
        <5> HIDE DEF n
        <5> QED BY <5>1, <5>2
      <4> QED BY <2>1, <4>2, <4>4
    <3>4. CASE SinkThrows(s)
        BY <1>2, <3>4 DEF SinkThrows, Down
    <3>5. CASE Answers(s)
      <4>1. Goes(s, Idle) /\ Idle.pc = "idle"
          BY <3>5, IdleTypes DEF Answers
      <4> QED BY <2>1, <4>1
    <3> QED BY <1>5, <3>1, <3>2, <3>3, <3>4, <3>5 DEF Sends, Takes
  <2>2. sender'[s] = r /\ \A t \in Senders : t # s => sender'[t] = sender[t]
      BY <1>0, <2>1 DEF Goes
  <2> QED BY <2>1, <2>2 DEF WorkLeft
<1>6. ASSUME NEW u \in Users, SetUser(u) PROVE WorkLeft'
    BY <1>3, <1>6 DEF SetUser
<1> QED BY <1>1, <1>2, <1>3, <1>4, <1>5, <1>6, NextIsSteps DEF Steps, Exit, Crash, Down, deliveryVars

\* Reports that are on disk or in the hands of a sending.
Held(r) == \/ \E k \in 1..Len(disk) : disk[k] = r
           \/ \E s \in Senders : \E k \in 1..Len(sender[s].todo) : sender[s].todo[k] = r

\* Where a report that is held comes from.
FromBefore(r) ==
    \/ Held(r)
    \/ \E q \in Reports : Held(q) /\ r = Doctored(q)
    \/ \E shape \in Shapes : Crash(shape) /\ r = Recorded("crash", shape)
    \/ \E kind \in {"user", "snapshot"}, shape \in AllShapes : up /\ r = Recorded(kind, shape)

LEMMA NoneHeld == ASSUME NEW s \in Senders, sender[s].todo = << >>, NEW k \in 1..Len(sender[s].todo) PROVE FALSE
OBVIOUS

LEMMA GoesHolds ==
    ASSUME DeliveryTypeOK, NEW s \in Senders, NEW q, Goes(s, q), NEW r, Held(r)', disk' = disk \/ disk' = << >>,
           \A k \in 1..Len(q.todo) : FromBefore(q.todo[k])
    PROVE  FromBefore(r)
<1>1. sender'[s] = q /\ \A t \in Senders : t # s => sender'[t] = sender[t]
    BY DEF DeliveryTypeOK, Goes
<1>2. CASE \E k \in 1..Len(disk') : disk'[k] = r
    BY <1>2 DEF FromBefore, Held
<1>3. ASSUME NEW t \in Senders, NEW k \in 1..Len(sender'[t].todo), sender'[t].todo[k] = r PROVE FromBefore(r)
  <2>1. CASE t = s
      BY <1>1, <1>3, <2>1
  <2>2. CASE t # s
    <3>1. sender[t].todo[k] = r /\ k \in 1..Len(sender[t].todo)
        BY <1>1, <1>3, <2>2
    <3> QED BY <3>1 DEF FromBefore, Held
  <2> QED BY <2>1, <2>2
<1> QED BY <1>2, <1>3 DEF Held

LEMMA AppendHolds ==
    ASSUME disk \in Seq(Reports), NEW e \in Reports, disk' = Append(disk, e), NEW r, FromBefore(e),
           NEW k \in 1..Len(disk'), disk'[k] = r
    PROVE  FromBefore(r)
<1>1. CASE k = Len(disk) + 1
    BY <1>1, OneMore
<1>2. CASE k # Len(disk) + 1
  <2>1. k \in 1..Len(disk) /\ disk[k] = r
      BY <1>2, OneMore
  <2> QED BY <2>1 DEF FromBefore, Held
<1> QED BY <1>1, <1>2

LEMMA HeldBefore ==
    ASSUME DeliveryTypeOK, WorkLeft, up => launch > 0, [DeliveryNext]_deliveryVars, NEW r, Held(r)'
    PROVE  FromBefore(r)
<1>0. sender \in [Senders -> SenderState] /\ disk \in Seq(Reports)
    BY DEF DeliveryTypeOK
<1>1. CASE /\ disk' = disk
           /\ \A s \in Senders : sender'[s].todo = << >>
    BY <1>1 DEF Held, FromBefore
<1>2. CASE disk' = disk /\ sender' = sender
    BY <1>2 DEF Held, FromBefore
<1>3. CASE Launch
  <2>1. \A s \in Senders : sender'[s].todo = << >>
    <3>1. sender' = [s \in Senders |-> IF s = CHOOSE t \in Senders : TRUE THEN [Idle EXCEPT !.pc = "list"] ELSE Idle]
        BY <1>3 DEF Launch
    <3>2. Idle.todo = << >> /\ [Idle EXCEPT !.pc = "list"].todo = << >>
        BY IdleTypes DEF SenderState
    <3> HIDE DEF Idle
    <3> QED BY <3>1, <3>2
  <2> QED BY <1>1, <1>3, <2>1 DEF Launch
<1>4. CASE Exit
    BY <1>1, <1>4, IdleTypes DEF Exit, Down, IdleSenders
<1>5. ASSUME NEW u \in Users, SetUser(u) PROVE FromBefore(r)
    BY <1>2, <1>5 DEF SetUser
<1>6. ASSUME NEW shape \in Shapes, Crash(shape) PROVE FromBefore(r)
  <2>1. disk' = Append(disk, Recorded("crash", shape)) /\ sender' = IdleSenders /\ up
      BY <1>6 DEF Crash, Down
  <2>2. PICK k \in 1..Len(disk') : disk'[k] = r
      BY <2>1, IdleTypes DEF Held, IdleSenders
  <2>3. Recorded("crash", shape) \in Reports
      BY <2>1, RecordedTypes DEF AllShapes, ReportKinds
  <2>4. FromBefore(Recorded("crash", shape))
      BY <1>6 DEF FromBefore
  <2> QED BY <1>0, <2>1, <2>2, <2>3, <2>4, AppendHolds
<1>7. ASSUME NEW s \in Senders, NEW kind \in {"user", "snapshot"}, NEW reason, Plain(reason) \in AllShapes,
             Begin(s, kind, reason)
      PROVE  FromBefore(r)
  <2>1. disk' = Append(disk, Recorded(kind, Plain(reason))) /\ up
      BY <1>7 DEF Begin
  <2>2. sender'[s].todo = << >> /\ \A t \in Senders : t # s => sender'[t].todo = sender[t].todo
      BY <1>7, BeginMoves
  <2>4. Recorded(kind, Plain(reason)) \in Reports
      BY <1>7, <2>1, RecordedTypes DEF ReportKinds
  <2>5. FromBefore(Recorded(kind, Plain(reason)))
    <3>1. \E k \in {"user", "snapshot"}, shape \in AllShapes : up /\ Recorded(kind, Plain(reason)) = Recorded(k, shape)
        BY <1>7, <2>1
    <3> QED BY <3>1 DEF FromBefore
  <2>6. CASE \E k \in 1..Len(disk') : disk'[k] = r
      BY <1>0, <2>1, <2>4, <2>5, <2>6, AppendHolds
  <2>7. CASE \E t \in Senders : \E k \in 1..Len(sender'[t].todo) : sender'[t].todo[k] = r
    <3>0. PICK t \in Senders : \E k \in 1..Len(sender'[t].todo) : sender'[t].todo[k] = r
        BY <2>7
    <3>1. PICK k \in 1..Len(sender'[t].todo) : sender'[t].todo[k] = r
        BY <3>0
    <3>2. t # s
        BY <2>2, <3>1
    <3>3. sender'[t].todo = sender[t].todo
        BY <2>2, <3>2
    <3> QED BY <3>1, <3>3 DEF FromBefore, Held
  <2> QED BY <2>6, <2>7 DEF Held
<1>8. ASSUME NEW s \in Senders, Sends(s) PROVE FromBefore(r)
  <2>0. sender[s] \in SenderState /\ sender[s].todo \in Seq(Loaded)
      BY <1>0 DEF SenderState, Loaded
  <2>1. \A k \in 1..Len(sender[s].todo) : FromBefore(sender[s].todo[k])
      BY DEF FromBefore, Held
  <2>2. CASE List(s)
    <3> DEFINE q == [sender[s] EXCEPT !.pc = IF disk = << >> THEN "answer" ELSE "filter",
                                      !.todo = Loads, !.loaded = {x.number : x \in SetOf(disk)}]
    <3>1. Goes(s, q) /\ disk' = disk
        BY <2>2 DEF List
    <3>2. q.todo = Loads
        BY <2>0 DEF SenderState
    <3>3. \A k \in 1..Len(Loads) : FromBefore(Loads[k])
      <4> TAKE k \in 1..Len(Loads)
      <4>1. k \in 1..Len(disk) /\ Loads[k] = Doctored(disk[k]) /\ disk[k] \in Reports
          BY <1>0, LoadsDisk
      <4> QED BY <4>1 DEF FromBefore, Held
    <3> HIDE DEF q
    <3> QED BY <3>1, <3>2, <3>3, GoesHolds
  <2>3. CASE Filter(s)
    <3>1. PICK q \in {[sender[s] EXCEPT !.pc = "sink"], [sender[s] EXCEPT !.pc = "answer", !.ok = FALSE]} : Goes(s, q)
        BY <2>3 DEF Filter
    <3>2. q.todo = sender[s].todo /\ disk' = disk
        BY <2>0, <2>3, <3>1 DEF SenderState, Filter
    <3> QED BY <2>1, <3>1, <3>2, GoesHolds
  <2>4. CASE Takes(s)
    <3>1. sender[s].pc = "sink" /\ disk' = disk
        BY <2>4 DEF Takes, Converts, ClientRefuses, LeavesOut, At
    <3>2. Len(sender[s].todo) > 0
        BY <3>1 DEF WorkLeft
    <3>3. PICK q \in SenderState : Goes(s, q) /\ q.todo = Tail(sender[s].todo)
        BY <2>4, <3>2, TakesOne
    <3>4. \A k \in 1..Len(Tail(sender[s].todo)) : FromBefore(Tail(sender[s].todo)[k])
      <4> TAKE k \in 1..Len(Tail(sender[s].todo))
      <4>1. Tail(sender[s].todo)[k] = sender[s].todo[k + 1] /\ k + 1 \in 1..Len(sender[s].todo)
          BY <2>0, <3>2, HeadAndTail
      <4> QED BY <2>1, <4>1
    <3> QED BY <3>1, <3>3, <3>4, GoesHolds
  <2>5. CASE SinkThrows(s)
      BY <1>1, <2>5, IdleTypes DEF SinkThrows, Down, IdleSenders
  <2>6. CASE Answers(s)
    <3>1. PICK behavior \in Behaviors : disk' = IF Deletes(s, behavior) THEN << >> ELSE disk
        BY <2>6 DEF Answers
    <3>2. Goes(s, Idle) /\ Idle.todo = << >>
        BY <2>6, IdleTypes DEF Answers
    <3>3. \A k \in 1..Len(Idle.todo) : FromBefore(Idle.todo[k])
        BY <3>2
    <3>4. PICK q : q = Idle
        OBVIOUS
    <3> QED BY <3>1, <3>2, <3>3, <3>4, GoesHolds
  <2> QED BY <1>8, <2>2, <2>3, <2>4, <2>5, <2>6 DEF Sends, Takes
<1>9. CASE UNCHANGED deliveryVars
    BY <1>2, <1>9 DEF deliveryVars
<1> QED BY <1>3, <1>4, <1>5, <1>6, <1>7, <1>8, <1>9, NextIsSteps, PlainIsShape DEF Steps

\* A report is remembered from step to step.
LEMMA RemembersOn ==
    ASSUME DeliveryTypeOK, NEW r, r.launch \in 1..MaxLaunches, Remembers(r),
           \/ launch' = launch /\ up' = up /\ lastContext' = lastContext /\ (up \/ stored' = stored)
           \/ launch' = launch /\ up /\ ~up'
           \/ launch' = launch + 1 /\ ~up /\ up' /\ lastContext' = stored
    PROVE  Remembers(r)'
<1>1. r.launch \in Nat /\ launch \in Nat
    BY DeliveryAssumption DEF DeliveryTypeOK
<1>2. r.recrash = << >> => r.version = ToString(r.launch)
    BY DEF Remembers
<1> DEFINE n == r.launch
           u == r.user
<1>3. ASSUME r.kind = "crash"
      PROVE  /\ n <= launch'
             /\ up' => n < launch'
             /\ u # Missing =>
                  /\ ~up' /\ n = launch' => stored'.user = u
                  /\ up' /\ n + 1 = launch' => lastContext'.user = u
  <2>1. /\ n <= launch
        /\ up => n < launch
        /\ u # Missing =>
             /\ ~up /\ n = launch => stored.user = u
             /\ up /\ n + 1 = launch => lastContext.user = u
      BY <1>3 DEF Remembers
  <2>2. n \in Nat
      BY <1>1
  <2> HIDE DEF n, u
  <2>3. CASE launch' = launch /\ up' = up /\ lastContext' = lastContext /\ (up \/ stored' = stored)
    <3>1. CASE up
        BY <2>1, <2>3, <3>1
    <3>2. CASE ~up
        BY <2>1, <2>3, <3>2
    <3> QED BY <3>1, <3>2
  <2>4. CASE launch' = launch /\ up /\ ~up'
      BY <1>1, <2>1, <2>2, <2>4
  <2>5. CASE launch' = launch + 1 /\ ~up /\ up' /\ lastContext' = stored
    <3>1. n <= launch' /\ n < launch'
        BY <1>1, <2>1, <2>2, <2>5
    <3>2. ASSUME u # Missing, n + 1 = launch' PROVE lastContext'.user = u
      <4>1. n = launch
          BY <1>1, <2>2, <2>5, <3>2
      <4> QED BY <2>1, <2>5, <3>2, <4>1
    <3> QED BY <2>5, <3>1, <3>2
  <2> QED BY <2>3, <2>4, <2>5
<1> QED BY <1>2, <1>3 DEF Remembers

LEMMA RemembersDoctored ==
    ASSUME NEW r \in Reports, Remembers(r)
    PROVE  Remembers(Doctored(r))
<1> DEFINE d == Doctored(r)
<1>1. /\ d.kind = r.kind /\ d.launch = r.launch /\ d.user = r.user /\ d.version = r.version
      /\ d.recrash = << >> => r.recrash = << >>
    BY ReportsAre
<1> HIDE DEF d
<1>2. Remembers(d)
    BY <1>1 DEF Remembers
<1> QED BY <1>2 DEF d

\* How each step moves the process.
LEMMA ProcessMoves ==
    ASSUME DeliveryTypeOK, [DeliveryNext]_deliveryVars
    PROVE  \/ launch' = launch /\ up' = up /\ lastContext' = lastContext /\ (up \/ stored' = stored)
           \/ launch' = launch /\ up /\ ~up'
           \/ launch' = launch + 1 /\ ~up /\ up' /\ lastContext' = stored
<1>1. CASE Launch
    BY <1>1 DEF Launch, RestoreContext
<1>2. CASE Exit
    BY <1>2 DEF Exit, Down
<1>3. ASSUME NEW u \in Users, SetUser(u) PROVE launch' = launch /\ up' = up /\ lastContext' = lastContext /\ up
    BY <1>3 DEF SetUser
<1>4. ASSUME NEW shape \in Shapes, Crash(shape) PROVE launch' = launch /\ up /\ ~up'
    BY <1>4 DEF Crash, Down
<1>5. ASSUME NEW s \in Senders, NEW kind, NEW reason, Begin(s, kind, reason)
      PROVE  launch' = launch /\ up' = up /\ lastContext' = lastContext /\ up
    BY <1>5, Zenon DEF Begin, process
<1>6. ASSUME NEW s \in Senders, Sends(s)
      PROVE  \/ launch' = launch /\ up' = up /\ lastContext' = lastContext /\ up
             \/ launch' = launch /\ up /\ ~up'
  <2>1. CASE List(s) \/ Filter(s) \/ Takes(s) \/ Answers(s)
      BY <2>1, Zenon DEF List, Filter, Takes, Converts, ClientRefuses, LeavesOut, Answers, At, process
  <2>2. CASE SinkThrows(s)
      BY <2>2 DEF SinkThrows, At, Down
  <2> QED BY <1>6, <2>1, <2>2 DEF Sends, Takes
<1>7. CASE UNCHANGED deliveryVars
    BY <1>7 DEF deliveryVars
<1> QED BY <1>1, <1>2, <1>3, <1>4, <1>5, <1>6, <1>7, NextIsSteps DEF Steps

AllRemembered == \A r : Held(r) => Remembers(r)

LEMMA HeldLaunch ==
    ASSUME DeliveryTypeOK, NEW r, Held(r)
    PROVE  r.launch \in 1..MaxLaunches
<1>1. ASSUME NEW k \in 1..Len(disk), disk[k] = r PROVE r.launch \in 1..MaxLaunches
  <2>1. r \in Reports
      BY <1>1 DEF DeliveryTypeOK
  <2> QED BY <2>1 DEF Reports
<1>2. ASSUME NEW s \in Senders, NEW k \in 1..Len(sender[s].todo), sender[s].todo[k] = r
      PROVE  r.launch \in 1..MaxLaunches
  <2>1. sender[s].todo \in Seq(Loaded)
      BY DEF DeliveryTypeOK, SenderState, Loaded
  <2>2. r \in Loaded
      BY <1>2, <2>1
  <2>3. PICK q \in Reports : r = Doctored(q)
      BY <2>2 DEF Loaded
  <2>4. Doctored(q).launch = q.launch
      BY ReportsAre
  <2>5. q.launch \in 1..MaxLaunches
      BY DEF Reports
  <2> QED BY <2>3, <2>4, <2>5
<1> QED BY <1>1, <1>2 DEF Held

LEMMA RemembersRecorded ==
    ASSUME DeliveryTypeOK, up, launch > 0, user # Missing => stored.user = user,
           NEW kind \in ReportKinds, NEW shape \in AllShapes,
           launch' = launch, stored' = stored, kind = "crash" => ~up',
           NEW r, r = Recorded(kind, shape)
    PROVE  Remembers(r)'
<1>2. /\ r.recrash = shape.recrash /\ r.kind = kind /\ r.launch = launch /\ r.user = user
      /\ shape.recrash = << >> => r.version = ToString(launch)
    BY RecordedTypes
<1>3. launch \in Nat
    BY DEF DeliveryTypeOK
<1> QED BY <1>2, <1>3 DEF Remembers

LEMMA HeldRemembered ==
    ASSUME DeliveryTypeOK
    PROVE  AllRemembered <=> /\ \A k \in 1..Len(disk) : Remembers(disk[k])
                             /\ \A s \in Senders : \A k \in 1..Len(sender[s].todo) : Remembers(sender[s].todo[k])
BY DEF AllRemembered, Held

\* What the process remembers apart from the reports.
ProcessKept ==
    /\ stored.release \in {Missing, ToString(launch)}
    /\ up => launch > 0 /\ lastContext.release \in {Missing, ToString(launch - 1)}
    /\ up /\ user # Missing => stored.user = user

LEMMA ContextIs == ContextKept <=> ProcessKept /\ AllRemembered
BY Zenon DEF ContextKept, ProcessKept, AllRemembered, Held

LEMMA ProcessKeptStep ==
    ASSUME DeliveryTypeOK, ProcessKept, [DeliveryNext]_deliveryVars
    PROVE  ProcessKept'
<1>0. launch \in Nat
    BY DEF DeliveryTypeOK
<1>1. CASE Launch
  <2>1. /\ launch' = launch + 1 /\ lastContext' = stored /\ user' = Missing /\ up' = TRUE
        /\ \E release \in {Missing, ToString(launch')} : stored' = [stored EXCEPT !.release = release]
      BY <1>1 DEF Launch, RestoreContext
  <2>2. stored'.release \in {Missing, ToString(launch')}
      BY <2>1 DEF DeliveryTypeOK
  <2>3. launch' - 1 = launch /\ launch' > 0
      BY <1>0, <2>1
  <2>4. lastContext'.release \in {Missing, ToString(launch' - 1)}
      BY <2>1, <2>3 DEF ProcessKept
  <2> QED BY <2>1, <2>2, <2>3, <2>4 DEF ProcessKept
<1>2. CASE Exit
    BY <1>2 DEF Exit, Down, ProcessKept
<1>3. ASSUME NEW u \in Users, SetUser(u) PROVE ProcessKept'
  <2>1. /\ up /\ user' = u /\ stored' = [stored EXCEPT !.user = u] /\ UNCHANGED <<launch, up, lastContext>>
      BY <1>3 DEF SetUser
  <2>2. stored'.release = stored.release /\ stored'.user = u
      BY <2>1 DEF DeliveryTypeOK
  <2> QED BY <2>1, <2>2 DEF ProcessKept
<1>4. ASSUME NEW shape \in Shapes, Crash(shape) PROVE ProcessKept'
    BY <1>4 DEF Crash, Down, ProcessKept
<1>5. CASE UNCHANGED process
    BY <1>5 DEF process, ProcessKept
<1>6. ASSUME NEW s \in Senders, NEW kind, NEW reason, Begin(s, kind, reason) PROVE UNCHANGED process
    BY <1>6, Zenon DEF Begin
<1>7. ASSUME NEW s \in Senders, Sends(s) PROVE ProcessKept'
  <2>1. CASE List(s) \/ Filter(s) \/ Takes(s) \/ Answers(s)
      BY <1>5, <2>1, Zenon DEF List, Filter, Takes, Converts, ClientRefuses, LeavesOut, Answers
  <2>2. CASE SinkThrows(s)
      BY <2>2 DEF SinkThrows, Down, ProcessKept
  <2> QED BY <1>7, <2>1, <2>2 DEF Sends, Takes
<1>8. CASE UNCHANGED deliveryVars
    BY <1>5, <1>8 DEF deliveryVars, process
<1> QED BY <1>1, <1>2, <1>3, <1>4, <1>5, <1>6, <1>7, <1>8, NextIsSteps DEF Steps

LEMMA AllRememberedStep ==
    ASSUME DeliveryTypeOK, WorkLeft, ProcessKept, AllRemembered, [DeliveryNext]_deliveryVars
    PROVE  AllRemembered'
<1> SUFFICES ASSUME NEW r, Held(r)' PROVE Remembers(r)'
    BY DEF AllRemembered
<1>0. up => launch > 0
    BY DEF ProcessKept
<1>1. FromBefore(r)
    BY <1>0, HeldBefore
<1>2. ASSUME NEW q, q.launch \in 1..MaxLaunches, Remembers(q) PROVE Remembers(q)'
    BY <1>2, ProcessMoves, RemembersOn
<1>3. CASE Held(r)
    BY <1>2, <1>3, HeldLaunch DEF AllRemembered
<1>4. ASSUME NEW q \in Reports, Held(q), r = Doctored(q) PROVE Remembers(r)'
  <2>1. Remembers(q) /\ q.launch \in 1..MaxLaunches
      BY <1>4, HeldLaunch DEF AllRemembered
  <2>2. Remembers(Doctored(q)) /\ Doctored(q).launch = q.launch
      BY <2>1, RemembersDoctored, ReportsAre
  <2> QED BY <1>2, <1>4, <2>1, <2>2
<1>5. ASSUME NEW shape \in Shapes, Crash(shape), r = Recorded("crash", shape) PROVE Remembers(r)'
  <2>1. up /\ launch' = launch /\ stored' = stored /\ ~up'
      BY <1>5 DEF Crash, Down
  <2>2. user # Missing => stored.user = user
      BY <2>1 DEF ProcessKept
  <2>3. "crash" \in ReportKinds /\ shape \in AllShapes
      BY DEF ReportKinds, AllShapes
  <2> QED BY <1>0, <1>5, <2>1, <2>2, <2>3, RemembersRecorded
<1>6. ASSUME NEW kind \in {"user", "snapshot"}, NEW shape \in AllShapes, up, r = Recorded(kind, shape)
      PROVE  Remembers(r)'
  <2>1. /\ r.recrash = shape.recrash /\ r.kind = kind /\ r.launch = launch
        /\ shape.recrash = << >> => r.version = ToString(launch)
      BY <1>0, <1>6, RecordedTypes DEF ReportKinds
  <2> QED BY <2>1 DEF Remembers
<1> QED BY <1>1, <1>3, <1>4, <1>5, <1>6 DEF FromBefore

LEMMA EventContext ==
    ASSUME NEW report, NEW context
    PROVE  /\ Event(report, context).user = context.user
           /\ Event(report, context).release = Release(report, context)
           /\ LET event == Event(report, context)
              IN  /\ SharedProperties(event).user = IF context.user = Missing THEN user ELSE context.user
                  /\ SharedProperties(event).release =
                       IF Release(report, context) = Missing THEN stored.release ELSE Release(report, context)
<1> DEFINE section == Section(report)
           x == IF ~section.error THEN << >>
                ELSE <<[value |-> Value(section),
                        diagnosis |-> IF AddsDiagnosis(section) THEN section.diagnosis ELSE NoDiagnosis,
                        thread |-> ThreadOfException(section)]>>
           t == Threads(section)
           u == context.user
           n == Release(report, context)
           event == Event(report, context)
<1>1. event = [exceptions |-> x, threads |-> t, user |-> u, release |-> n]
    BY DEF Event
<1> HIDE DEF x, t, u, n, event
<1>2. event.user = u /\ event.release = n
    BY <1>1
<1>3. /\ SharedProperties(event).user = IF u = Missing THEN user ELSE u
      /\ SharedProperties(event).release = IF n = Missing THEN stored.release ELSE n
  <2>1. DOMAIN event = {"exceptions", "threads", "user", "release"}
      BY <1>1
  <2> QED BY <1>2, <2>1 DEF SharedProperties
<1> QED BY <1>2, <1>3 DEF u, n, event

\* What an event must tell, for each event.
TellsWho(e) ==
    e.report.kind = "crash" /\ e.in = e.report.launch + 1 =>
      /\ e.report.user # Missing => e.event.user = e.report.user
      /\ e.report.recrash = << >> => e.event.release = ToString(e.report.launch)
LEMMA TellsWhoIs == EventTellsWho <=> \A e \in events : TellsWho(e)
BY DEF EventTellsWho, CrashNamesItsUser, CrashNamesItsRelease, TellsWho

LEMMA NewEvents ==
    ASSUME [DeliveryNext]_deliveryVars, events' # events
    PROVE  \E s \in Senders : Converts(s) /\
             events' = events \cup {[report |-> Head(sender[s].todo), in |-> launch,
                                     event |-> SharedProperties(Event(Head(sender[s].todo), lastContext))]}
<1>1. Launch \/ Exit \/ (\E u \in Users : SetUser(u)) \/ (\E shape \in Shapes : Crash(shape)) => events' = events
    BY DEF Launch, Exit, SetUser, Crash
<1>2. ASSUME NEW s \in Senders, NEW kind, NEW reason, Begin(s, kind, reason) PROVE events' = events
    BY <1>2, Zenon DEF Begin
<1>3. ASSUME NEW s \in Senders, List(s) \/ Filter(s) \/ ClientRefuses(s) \/ LeavesOut(s) \/ Answers(s) \/ SinkThrows(s)
      PROVE  events' = events
    BY <1>3, Zenon DEF List, Filter, ClientRefuses, LeavesOut, Answers, SinkThrows
<1>4. ASSUME NEW s \in Senders, Converts(s)
      PROVE  events' = events \cup {[report |-> Head(sender[s].todo), in |-> launch,
                                     event |-> SharedProperties(Event(Head(sender[s].todo), lastContext))]}
    BY <1>4 DEF Converts, Context
<1>5. UNCHANGED deliveryVars => events' = events
    BY DEF deliveryVars
<1> QED BY <1>1, <1>2, <1>3, <1>4, <1>5, NextIsSteps DEF Steps, Sends

LEMMA TellsWhoStep ==
    ASSUME DeliveryTypeOK, WorkLeft, ProcessKept, AllRemembered, \A e \in events : TellsWho(e),
           [DeliveryNext]_deliveryVars
    PROVE  \A e \in events' : TellsWho(e)
<1>1. SUFFICES ASSUME NEW e \in events', e \notin events PROVE TellsWho(e)
    OBVIOUS
<1>2. PICK s \in Senders :
        /\ Converts(s)
        /\ events' = events \cup {[report |-> Head(sender[s].todo), in |-> launch,
                                   event |-> SharedProperties(Event(Head(sender[s].todo), lastContext))]}
    BY <1>1, NewEvents
<1> DEFINE report == Head(sender[s].todo)
           event == SharedProperties(Event(report, lastContext))
<1>3. e = [report |-> report, in |-> launch, event |-> event]
    BY <1>1, <1>2
<1>4. up /\ sender[s].pc = "sink"
    BY <1>2 DEF Converts, At
<1>5. Held(report)
  <2>1. sender[s].todo \in Seq(Loaded) /\ Len(sender[s].todo) > 0
      BY <1>4 DEF DeliveryTypeOK, SenderState, Loaded, WorkLeft
  <2>2. report = sender[s].todo[1] /\ 1 \in 1..Len(sender[s].todo)
      BY <2>1, HeadAndTail
  <2> QED BY <2>2 DEF Held
<1>6. Remembers(report) /\ report.launch \in 1..MaxLaunches
    BY <1>5, HeldLaunch DEF AllRemembered
<1>7. /\ event.user = IF lastContext.user = Missing THEN user ELSE lastContext.user
      /\ event.release = IF Release(report, lastContext) = Missing THEN stored.release
                         ELSE Release(report, lastContext)
    BY EventContext
<1> HIDE DEF report, event
<1>8. e.report = report /\ e.in = launch /\ e.event = event
    BY <1>3
<1>9. ASSUME report.kind = "crash", launch = report.launch + 1, report.user # Missing PROVE event.user = report.user
  <2>1. lastContext.user = report.user
      BY <1>4, <1>6, <1>9 DEF Remembers
  <2> QED BY <1>7, <1>9, <2>1
<1>10. ASSUME report.kind = "crash", launch = report.launch + 1, report.recrash = << >>
       PROVE  event.release = ToString(report.launch)
  <2>1. report.version = ToString(report.launch)
      BY <1>6, <1>10 DEF Remembers
  <2>2. launch - 1 = report.launch
      BY <1>6, <1>10
  <2>3. lastContext.release \in {Missing, ToString(report.launch)}
      BY <1>4, <2>2 DEF ProcessKept
  <2>4. Release(report, lastContext) = ToString(report.launch)
      BY <2>1, <2>3 DEF Release
  <2>5. ToString(report.launch) # Missing
      BY <1>6, DeliveryAssumption
  <2> QED BY <1>7, <2>4, <2>5
<1> QED BY <1>8, <1>9, <1>10 DEF TellsWho

\* What the delivery keeps of each report and of the process, in every state.
LEMMA WhoInvInit == DeliveryInit => WhoInv
<1> SUFFICES ASSUME DeliveryInit PROVE WhoInv
    OBVIOUS
<1>1. ProcessKept
    BY DEF DeliveryInit, Nothing, ProcessKept
<1>2. AllRemembered
  <2>1. Len(disk) = 0 /\ \A s \in Senders : sender[s].todo = << >>
      BY IdleTypes DEF DeliveryInit, IdleSenders
  <2> QED BY <2>1 DEF AllRemembered, Held
<1>3. EventTellsWho
    BY TellsWhoIs DEF DeliveryInit
<1> QED BY <1>1, <1>2, <1>3, ContextIs, DeliveryTypeInit, WorkLeftInit DEF WhoInv

LEMMA WhoInvStep == WhoInv /\ [DeliveryNext]_deliveryVars => WhoInv'
<1> SUFFICES ASSUME WhoInv, [DeliveryNext]_deliveryVars PROVE WhoInv'
    OBVIOUS
<1>1. DeliveryTypeOK /\ WorkLeft /\ ProcessKept /\ AllRemembered /\ \A e \in events : TellsWho(e)
    BY ContextIs, TellsWhoIs DEF WhoInv
<1>2. DeliveryTypeOK'
    BY <1>1, DeliveryTypeStep DEF ProcessKept, WorkLeft
<1>3. WorkLeft'
    BY <1>1, WorkLeftStep
<1>4. ProcessKept' /\ AllRemembered'
    BY <1>1, ProcessKeptStep, AllRememberedStep
<1>5. ContextKept'
    BY <1>4, ContextIs, PTL
<1>6. \A e \in events' : TellsWho(e)
    BY <1>1, TellsWhoStep
<1>7. EventTellsWho'
  <2>1. (\A e \in events : TellsWho(e))'
      BY <1>6 DEF TellsWho
  <2> QED BY <2>1, TellsWhoIs, PTL
<1> QED BY <1>2, <1>3, <1>5, <1>7 DEF WhoInv

\* The event of a crash that is sent by the launch after it names the user who was
\* set when the application crashed and the release that crashed, in any delivery.
THEOREM EventAlwaysTellsWho == DeliveryInit /\ [][DeliveryNext]_deliveryVars => []EventTellsWho
<1>1. WhoInv => EventTellsWho
    BY DEF WhoInv
<1> QED BY <1>1, WhoInvInit, WhoInvStep, PTL

-----------------------------------------------------------------------------
(* What is deleted has been delivered *)

DeliverInv == WhoInv /\ DiskOrdered /\ ListedHandled /\ OwnLast

\* What the steps of a sending do to it.
LEMMA GoesMoves ==
    ASSUME DeliveryTypeOK, NEW s \in Senders, NEW r, Goes(s, r)
    PROVE  sender'[s] = r /\ \A t \in Senders : t # s => sender'[t] = sender[t]
BY DEF DeliveryTypeOK, Goes

LEMMA ListDoes ==
    ASSUME DeliveryTypeOK, NEW s \in Senders, List(s)
    PROVE  /\ up /\ sender[s].pc = "list"
           /\ disk = << >> => sender'[s].pc = "answer"
           /\ disk # << >> => sender'[s].pc = "filter"
           /\ sender'[s].todo = Loads /\ sender'[s].loaded = {r.number : r \in SetOf(disk)}
           /\ sender'[s].ok = sender[s].ok /\ sender'[s].own = sender[s].own /\ sender'[s].alone = sender[s].alone
           /\ \A t \in Senders : t # s => sender'[t] = sender[t]
           /\ UNCHANGED <<up, shared, disk, born, events, snapshot>>
<1> DEFINE l == {r.number : r \in SetOf(disk)}
           p == IF disk = << >> THEN "answer" ELSE "filter"
           q == [sender[s] EXCEPT !.pc = p, !.todo = Loads, !.loaded = l]
<1>1. up /\ sender[s].pc = "list" /\ Goes(s, q) /\ UNCHANGED <<up, shared, disk, born, events, snapshot>>
    BY DEF List, At, process
<1>2. (disk = << >> => p = "answer") /\ (disk # << >> => p = "filter")
    OBVIOUS
<1> HIDE DEF l, p
<1>3. /\ q.pc = p /\ q.todo = Loads /\ q.loaded = l
      /\ q.ok = sender[s].ok /\ q.own = sender[s].own /\ q.alone = sender[s].alone
    BY DEF DeliveryTypeOK, SenderState
<1> HIDE DEF q
<1>4. sender'[s] = q /\ \A t \in Senders : t # s => sender'[t] = sender[t]
    BY <1>1, GoesMoves
<1> QED BY <1>1, <1>2, <1>3, <1>4 DEF l

LEMMA FilterDoes ==
    ASSUME DeliveryTypeOK, NEW s \in Senders, Filter(s)
    PROVE  /\ up /\ sender[s].pc = "filter"
           /\ sender'[s].ok => sender'[s].pc = "sink" /\ sender[s].ok
           /\ sender'[s].pc \in {"sink", "answer"}
           /\ sender'[s].todo = sender[s].todo /\ sender'[s].loaded = sender[s].loaded
           /\ sender'[s].refused = sender[s].refused
           /\ sender'[s].own = sender[s].own /\ sender'[s].alone = sender[s].alone
           /\ \A t \in Senders : t # s => sender'[t] = sender[t]
           /\ UNCHANGED <<up, shared, disk, born, events, snapshot>>
<1>1. up /\ sender[s].pc = "filter" /\ UNCHANGED <<up, shared, disk, born, events, snapshot>>
    BY DEF Filter, At, process
<1>2. PICK q \in {[sender[s] EXCEPT !.pc = "sink"], [sender[s] EXCEPT !.pc = "answer", !.ok = FALSE]} : Goes(s, q)
    BY DEF Filter
<1>3. /\ q.ok => q.pc = "sink" /\ sender[s].ok
      /\ q.pc \in {"sink", "answer"} /\ q.todo = sender[s].todo /\ q.loaded = sender[s].loaded
      /\ q.refused = sender[s].refused /\ q.own = sender[s].own /\ q.alone = sender[s].alone
  <2>1. sender[s] \in SenderState
      BY DEF DeliveryTypeOK
  <2>2. CASE q = [sender[s] EXCEPT !.pc = "sink"]
      BY <2>1, <2>2 DEF SenderState
  <2>3. CASE q = [sender[s] EXCEPT !.pc = "answer", !.ok = FALSE]
      BY <2>1, <2>3 DEF SenderState
  <2> QED BY <1>2, <2>2, <2>3
<1>4. sender'[s] = q /\ \A t \in Senders : t # s => sender'[t] = sender[t]
    BY <1>2, GoesMoves
<1> QED BY <1>1, <1>3, <1>4

LEMMA SinkDoes ==
    ASSUME DeliveryTypeOK, WorkLeft, NEW s \in Senders, Takes(s)
    PROVE  /\ up /\ sender[s].pc = "sink" /\ Len(sender[s].todo) > 0
           /\ sender'[s].todo = Tail(sender[s].todo) /\ Len(sender'[s].todo) = Len(sender[s].todo) - 1
           /\ \A i \in 1..Len(sender'[s].todo) : sender'[s].todo[i] = sender[s].todo[i + 1]
           /\ Len(sender[s].todo) = 1 => sender'[s].pc = "answer"
           /\ Len(sender[s].todo) # 1 => sender'[s].pc = "sink"
           /\ sender'[s].ok = sender[s].ok /\ sender'[s].loaded = sender[s].loaded
           /\ sender[s].refused \subseteq sender'[s].refused
           /\ ClientRefuses(s) => Head(sender[s].todo).number \in sender'[s].refused
           /\ sender'[s].own = sender[s].own /\ sender'[s].alone = sender[s].alone
           /\ \A t \in Senders : t # s => sender'[t] = sender[t]
           /\ UNCHANGED <<up, shared, disk, born>>
           /\ LeavesOut(s) => ~shared
<1>1. /\ up /\ sender[s].pc = "sink" /\ UNCHANGED <<up, shared, disk, born>>
      /\ LeavesOut(s) => ~shared
    BY DEF Takes, Converts, ClientRefuses, LeavesOut, At, process
<1>2. Len(sender[s].todo) > 0 /\ sender[s].todo \in Seq(Loaded)
    BY <1>1 DEF WorkLeft, DeliveryTypeOK, SenderState, Loaded
<1> DEFINE q == Tail(sender[s].todo)
           p == IF Len(sender[s].todo) = 1 THEN "answer" ELSE sender[s].pc
<1>3. PICK r \in SenderState :
        /\ Goes(s, r) /\ r.todo = q /\ r.pc = p
        /\ r.ok = sender[s].ok /\ r.loaded = sender[s].loaded /\ sender[s].refused \subseteq r.refused
        /\ r.own = sender[s].own /\ r.alone = sender[s].alone
        /\ ClientRefuses(s) => Head(sender[s].todo).number \in r.refused
    BY <1>2, TakesOne
<1>4. Len(q) = Len(sender[s].todo) - 1 /\ \A i \in 1..Len(q) : q[i] = sender[s].todo[i + 1]
    BY <1>2, HeadAndTail
<1>5. (Len(sender[s].todo) = 1 => p = "answer") /\ (Len(sender[s].todo) # 1 => p = "sink")
    BY <1>1
<1> HIDE DEF p, q
<1>6. sender'[s] = r /\ \A t \in Senders : t # s => sender'[t] = sender[t]
    BY <1>3, GoesMoves
<1>7. sender'[s].todo = q /\ q = Tail(sender[s].todo)
    BY <1>3, <1>6 DEF q
<1> QED BY <1>1, <1>2, <1>3, <1>4, <1>5, <1>6, <1>7

LEMMA AnswersDoes ==
    ASSUME DeliveryTypeOK, NEW s \in Senders, Answers(s)
    PROVE  /\ up /\ sender[s].pc = "answer" /\ sender'[s] = Idle
           /\ \A t \in Senders : t # s => sender'[t] = sender[t]
           /\ UNCHANGED <<up, shared, born, events, snapshot>>
           /\ disk' \in {<< >>, disk}
<1>1. PICK behavior \in Behaviors : disk' = IF Deletes(s, behavior) THEN << >> ELSE disk
    BY DEF Answers
<1>2. up /\ sender[s].pc = "answer" /\ Goes(s, Idle) /\ UNCHANGED <<up, shared, born, events, snapshot>>
    BY DEF Answers, At, process
<1>3. sender'[s] = Idle /\ \A t \in Senders : t # s => sender'[t] = sender[t]
    BY <1>2, GoesMoves
<1> QED BY <1>1, <1>2, <1>3

\* The steps that are not of a running process's sendings leave it nothing to keep.
LEMMA OtherMoves ==
    ASSUME DeliveryTypeOK, [DeliveryNext]_deliveryVars
    PROVE  \/ ~up' /\ sender' = IdleSenders
           \/ /\ UNCHANGED <<disk, born, events>>
              /\ \A s \in Senders : /\ sender'[s].pc \in {"idle", "list"} /\ sender'[s].own = 0
                                    /\ sender'[s].loaded = {} /\ sender'[s].todo = << >>
           \/ UNCHANGED <<up, shared, disk, born, sender, events, snapshot>>
           \/ \E s \in Senders : Begin(s, "user", "reported") \/ Begin(s, "snapshot", Snapshot)
           \/ \E s \in Senders : List(s) \/ Filter(s) \/ Takes(s) \/ Answers(s)
<1>1. CASE Launch
  <2>1. sender' = [s \in Senders |-> IF s = CHOOSE t \in Senders : TRUE THEN [Idle EXCEPT !.pc = "list"] ELSE Idle]
        /\ UNCHANGED <<disk, born, events>>
      BY <1>1 DEF Launch
  <2> DEFINE first == [Idle EXCEPT !.pc = "list"]
  <2>2. first.pc = "list" /\ first.own = 0 /\ first.loaded = {} /\ first.todo = << >>
      BY IdleTypes DEF SenderState
  <2> HIDE DEF first
  <2>3. \A s \in Senders : sender'[s] = first \/ sender'[s] = Idle
      BY <2>1 DEF first
  <2> QED BY <2>1, <2>2, <2>3, IdleTypes
<1>2. CASE Exit \/ (\E shape \in Shapes : Crash(shape))
    BY <1>2 DEF Exit, Crash, Down
<1>3. ASSUME NEW u \in Users, SetUser(u) PROVE UNCHANGED <<up, shared, disk, born, sender, events, snapshot>>
    BY <1>3 DEF SetUser
<1>4. ASSUME NEW s \in Senders, SinkThrows(s) PROVE ~up' /\ sender' = IdleSenders
    BY <1>4 DEF SinkThrows, Down
<1>5. UNCHANGED deliveryVars => UNCHANGED <<up, shared, disk, born, sender, events, snapshot>>
    BY DEF deliveryVars
<1> QED BY <1>1, <1>2, <1>3, <1>4, <1>5, NextIsSteps DEF Steps, Sends, Takes

\* The reports the process writes: only a snapshot has the text of one.
LEMMA NewPasses ==
    ASSUME DeliveryTypeOK, up, launch > 0
    PROVE  /\ \A shape \in Shapes : ~Passes(Recorded("crash", shape))
           /\ ~Passes(Recorded("user", Plain("reported")))
           /\ Passes(Recorded("snapshot", Plain(Snapshot)))
<1>1. ASSUME NEW shape \in Shapes PROVE ~Passes(Recorded("crash", shape))
  <2> DEFINE c == shape.crash
             again == shape.recrash
             cpu == shape.cpu
             r == [crash |-> c, recrash |-> again, cpu |-> cpu]
  <2>1. ~Passes(r) /\ (again = << >> \/ again = <<again[1]>>)
      BY DeliveryAssumption
  <2>2. PICK q \in Reports : /\ q = Recorded("crash", shape)
                             /\ q.crash = c /\ q.recrash = again /\ q.cpu = cpu
      BY RecordedTypes DEF AllShapes, ReportKinds
  <2> HIDE DEF c, again, cpu
  <2>3. r.crash = c /\ r.recrash = again /\ r.cpu = cpu /\ DOMAIN r = {"crash", "recrash", "cpu"}
        /\ r = [x \in DOMAIN r |-> r[x]]
      OBVIOUS
  <2> HIDE DEF r
  <2>4. {"crash", "recrash", "cpu"} \subseteq DOMAIN q /\ q = [x \in DOMAIN q |-> q[x]]
      BY ReportsAre
  <2>5. r.recrash = << >> \/ r.recrash = <<r.recrash[1]>>
      BY <2>1, <2>3
  <2>6. Passes(q) => Passes(r)
      BY <2>2, <2>3, <2>4, <2>5, PassesByContents
  <2> QED BY <2>1, <2>2, <2>6
<1>2. ASSUME NEW kind \in ReportKinds, NEW reason, Plain(reason) \in AllShapes
      PROVE  /\ reason = Snapshot => Passes(Recorded(kind, Plain(reason)))
             /\ Passes(Recorded(kind, Plain(reason))) => reason = Snapshot
  <2>1. PICK q \in Reports : /\ q = Recorded(kind, Plain(reason))
                             /\ q.crash = Plain(reason).crash /\ q.recrash = Plain(reason).recrash
                             /\ q.cpu = Plain(reason).cpu
      BY <1>2, RecordedTypes
  <2>2. Plain(reason).recrash = << >> /\ Plain(reason).cpu = "arm64"
      BY DEF Plain
  <2>3. {"crash", "recrash", "cpu"} \subseteq DOMAIN q /\ q = [x \in DOMAIN q |-> q[x]]
      BY ReportsAre
  <2> QED BY <2>1, <2>2, <2>3, PlainPasses
<1>3. "reported" # Snapshot
    BY DEF Snapshot
<1> QED BY <1>1, <1>2, <1>3, PlainIsShape DEF ReportKinds

LEMMA DiskMoves ==
    ASSUME DeliveryTypeOK, ProcessKept, [DeliveryNext]_deliveryVars
    PROVE  \/ disk' \in {<< >>, disk} /\ born' = born
           \/ /\ born' = born + 1
              /\ \E r \in Reports : /\ disk' = Append(disk, r) /\ r.number = born + 1
                                    /\ r.kind # "snapshot" => ~Passes(r)
<1>0. up => launch > 0
    BY DEF ProcessKept
<1>1. CASE Launch \/ Exit \/ (\E u \in Users : SetUser(u)) \/ UNCHANGED deliveryVars
    BY <1>1 DEF Launch, Exit, SetUser, deliveryVars
<1>2. ASSUME NEW shape \in Shapes, Crash(shape)
      PROVE  /\ born' = born + 1
             /\ \E r \in Reports : disk' = Append(disk, r) /\ r.number = born + 1 /\ ~Passes(r)
  <2>1. up /\ disk' = Append(disk, Recorded("crash", shape)) /\ born' = born + 1
      BY <1>2 DEF Crash
  <2>2. Recorded("crash", shape) \in Reports /\ Recorded("crash", shape).number = born + 1
      BY <1>0, <2>1, RecordedTypes DEF AllShapes, ReportKinds
  <2>3. ~Passes(Recorded("crash", shape))
      BY <1>0, <2>1, NewPasses
  <2> QED BY <2>1, <2>2, <2>3
<1>3. ASSUME NEW s \in Senders, NEW kind \in ReportKinds, NEW reason, Plain(reason) \in AllShapes,
             kind # "snapshot" => kind = "user" /\ reason = "reported", Begin(s, kind, reason)
      PROVE  /\ born' = born + 1
             /\ \E r \in Reports : /\ disk' = Append(disk, r) /\ r.number = born + 1
                                   /\ r.kind # "snapshot" => ~Passes(r)
  <2>1. up /\ disk' = Append(disk, Recorded(kind, Plain(reason))) /\ born' = born + 1
      BY <1>3, Zenon DEF Begin
  <2>2. /\ Recorded(kind, Plain(reason)) \in Reports /\ Recorded(kind, Plain(reason)).number = born + 1
        /\ Recorded(kind, Plain(reason)).kind = kind
      BY <1>0, <1>3, <2>1, RecordedTypes
  <2>3. kind # "snapshot" => ~Passes(Recorded(kind, Plain(reason)))
      BY <1>0, <1>3, <2>1, NewPasses
  <2> QED BY <2>1, <2>2, <2>3
<1>4. ASSUME NEW s \in Senders, Sends(s) PROVE disk' \in {<< >>, disk} /\ born' = born
  <2>1. CASE List(s) \/ Filter(s) \/ Takes(s)
      BY <2>1, Zenon DEF List, Filter, Takes, Converts, ClientRefuses, LeavesOut
  <2>2. CASE SinkThrows(s)
      BY <2>2 DEF SinkThrows
  <2>3. CASE Answers(s)
      BY <2>3, AnswersDoes
  <2> QED BY <1>4, <2>1, <2>2, <2>3 DEF Sends, Takes
<1> QED BY <1>1, <1>2, <1>3, <1>4, NextIsSteps, PlainIsShape DEF Steps, ReportKinds

LEMMA DiskOrderedStep ==
    ASSUME DeliveryTypeOK, ProcessKept, DiskOrdered, [DeliveryNext]_deliveryVars
    PROVE  DiskOrdered'
<1>0. disk \in Seq(Reports) /\ born \in Nat
    BY DEF DeliveryTypeOK
<1>1. CASE disk' \in {<< >>, disk} /\ born' = born
    BY <1>1 DEF DiskOrdered
<1>2. ASSUME born' = born + 1,
             NEW r \in Reports, disk' = Append(disk, r), r.number = born + 1, r.kind # "snapshot" => ~Passes(r)
      PROVE  DiskOrdered'
  <2>1. /\ Len(disk') = Len(disk) + 1 /\ disk'[Len(disk) + 1] = r /\ \A i \in 1..Len(disk) : disk'[i] = disk[i]
        /\ Len(disk) \in Nat
      BY <1>0, <1>2, OneMore
  <2>2. ASSUME NEW k \in 1..Len(disk')
        PROVE  disk'[k].number \in 1..born' /\ (disk'[k].kind # "snapshot" => ~Passes(disk'[k]))
    <3>1. CASE k = Len(disk) + 1
        BY <1>0, <1>2, <2>1, <3>1
    <3>2. CASE k # Len(disk) + 1
      <4>1. k \in 1..Len(disk) /\ disk'[k] = disk[k]
          BY <2>1, <3>2
      <4>2. disk[k].number \in 1..born /\ (disk[k].kind # "snapshot" => ~Passes(disk[k]))
          BY <4>1 DEF DiskOrdered
      <4> QED BY <1>0, <1>2, <4>1, <4>2
    <3> QED BY <3>1, <3>2
  <2>3. ASSUME NEW j \in 1..Len(disk'), NEW k \in 1..Len(disk'), j < k
        PROVE  disk'[j].number < disk'[k].number
    <3>1. j \in 1..Len(disk) /\ disk'[j] = disk[j]
        BY <2>1, <2>3
    <3>2. disk[j].number \in 1..born
        BY <3>1 DEF DiskOrdered
    <3>3. CASE k = Len(disk) + 1
        BY <1>0, <1>2, <2>1, <3>1, <3>2, <3>3
    <3>4. CASE k # Len(disk) + 1
      <4>1. k \in 1..Len(disk) /\ disk'[k] = disk[k]
          BY <2>1, <3>4
      <4> QED BY <2>3, <3>1, <4>1 DEF DiskOrdered
    <3> QED BY <3>3, <3>4
  <2> QED BY <2>2, <2>3 DEF DiskOrdered
<1> QED BY <1>1, <1>2, DiskMoves

\* ListedHandled and OwnLast of one sending.
Listed(s, r) == (\E k \in 1..Len(disk) : disk[k] = r) /\ r.number \in sender[s].loaded
Sending(s) == up /\ shared /\ sender[s].ok /\ sender[s].pc \in {"filter", "sink", "answer"}
Dealt(s, r) == Sent(r.number) \/ Refused(s, r.number) \/ Taken(r)
Handled(s) ==
    /\ sender[s].loaded \subseteq 1..born
    /\ sender[s].pc = "answer" /\ sender[s].ok => Len(sender[s].todo) = 0
    /\ Sending(s) => \A r : Listed(s, r) => ToDo(s, r) \/ Dealt(s, r)
LEMMA HandledIs == ListedHandled <=> \A s \in Senders : Handled(s)
BY Zenon DEF ListedHandled, Handled, Listed, Sending, Dealt

\* A sending that is left alone, while nothing but the end of the disk changes.
LEMMA ListedBefore ==
    ASSUME DeliveryTypeOK, NEW s \in Senders, sender[s].loaded \subseteq 1..born,
           sender'[s].loaded = sender[s].loaded,
           \/ disk' \in {<< >>, disk} /\ born' = born
           \/ /\ born' = born + 1
              /\ \E r \in Reports : disk' = Append(disk, r) /\ r.number = born + 1,
           NEW q, Listed(s, q)'
    PROVE  Listed(s, q)
<1>0. disk \in Seq(Reports) /\ born \in Nat
    BY DEF DeliveryTypeOK
<1>1. PICK k \in 1..Len(disk') : disk'[k] = q
    BY DEF Listed
<1>2. q.number \in sender[s].loaded
    BY DEF Listed
<1>3. CASE disk' \in {<< >>, disk} /\ born' = born
    BY <1>1, <1>2, <1>3 DEF Listed
<1>4. ASSUME born' = born + 1, NEW r \in Reports, disk' = Append(disk, r), r.number = born + 1
      PROVE  Listed(s, q)
  <2>1. /\ Len(disk') = Len(disk) + 1 /\ disk'[Len(disk) + 1] = r
        /\ \A i \in 1..Len(disk) : disk'[i] = disk[i]
        /\ Len(disk) \in Nat
      BY <1>0, <1>4, OneMore
  <2>2. q # r
      BY <1>0, <1>2, <1>4
  <2>3. k \in 1..Len(disk) /\ disk'[k] = disk[k]
      BY <1>1, <2>1, <2>2
  <2> QED BY <1>1, <1>2, <2>3 DEF Listed
<1> QED BY <1>3, <1>4

LEMMA HandledOn ==
    ASSUME DeliveryTypeOK, NEW s \in Senders, Handled(s), up' = up, shared' = shared, events \subseteq events',
           sender'[s].pc = sender[s].pc, sender'[s].ok = sender[s].ok, sender'[s].loaded = sender[s].loaded,
           sender'[s].todo = sender[s].todo, sender'[s].refused = sender[s].refused,
           \/ disk' \in {<< >>, disk} /\ born' = born
           \/ /\ born' = born + 1
              /\ \E r \in Reports : disk' = Append(disk, r) /\ r.number = born + 1
    PROVE  Handled(s)'
<1>1. sender[s].loaded \subseteq 1..born
    BY DEF Handled
<1>2. sender'[s].loaded \subseteq 1..born'
    BY <1>1 DEF DeliveryTypeOK
<1>3. sender'[s].pc = "answer" /\ sender'[s].ok => Len(sender'[s].todo) = 0
    BY DEF Handled
<1>4. ASSUME Sending(s)', NEW q, Listed(s, q)' PROVE (ToDo(s, q) \/ Dealt(s, q))'
  <2>1. Sending(s)
      BY <1>4 DEF Sending
  <2>2. Listed(s, q)
      BY <1>1, <1>4, ListedBefore
  <2>3. ToDo(s, q) \/ Dealt(s, q)
      BY <2>1, <2>2 DEF Handled
  <2>4. ToDo(s, q) => ToDo(s, q)'
      BY DEF ToDo
  <2>5. Sent(q.number) => Sent(q.number)'
      BY DEF Sent
  <2> QED BY <2>3, <2>4, <2>5 DEF Dealt, Taken, Refused
<1> QED BY <1>2, <1>3, <1>4 DEF Handled

LEMMA EventsStay ==
    ASSUME [DeliveryNext]_deliveryVars
    PROVE  events \subseteq events'
<1>1. CASE events' = events
    BY <1>1
<1>2. CASE events' # events
  <2>1. PICK s \in Senders :
          events' = events \cup {[report |-> Head(sender[s].todo), in |-> launch,
                                  event |-> SharedProperties(Event(Head(sender[s].todo), lastContext))]}
      BY <1>2, NewEvents
  <2> DEFINE e == [report |-> Head(sender[s].todo), in |-> launch,
                   event |-> SharedProperties(Event(Head(sender[s].todo), lastContext))]
  <2> HIDE DEF e
  <2> QED BY <2>1 DEF e
<1> QED BY <1>1, <1>2

\* The report a sending converts is stored, or has the text of a snapshot.
LEMMA ConvertsHead ==
    ASSUME NEW s \in Senders, Converts(s), NEW report, report = Head(sender[s].todo)
    PROVE  /\ ~IsSnapshot(Event(report, lastContext)) => Sent(report.number)' /\ snapshot' = snapshot
           /\ IsSnapshot(Event(report, lastContext)) => snapshot' = report.number
<1> DEFINE event == Event(report, lastContext)
           e == [report |-> report, in |-> launch, event |-> SharedProperties(event)]
<1>1. /\ ~IsSnapshot(event) => events' = events \cup {e} /\ snapshot' = snapshot
      /\ IsSnapshot(event) => snapshot' = report.number
    BY DEF Converts, Context
<1>2. e.report.number = report.number
    OBVIOUS
<1> HIDE DEF e, event
<1>3. ~IsSnapshot(event) => \E x \in events' : x.report.number = report.number
    BY <1>1, <1>2
<1> QED BY <1>1, <1>3 DEF Sent, event

LEMMA HandledStep ==
    ASSUME DeliverInv, [DeliveryNext]_deliveryVars
    PROVE  ListedHandled'
<1>0. DeliveryTypeOK /\ WorkLeft /\ ProcessKept /\ DiskOrdered /\ (\A s \in Senders : Handled(s))
      /\ disk \in Seq(Reports) /\ born \in Nat
    BY ContextIs, HandledIs DEF DeliverInv, WhoInv, DeliveryTypeOK
<1>1. SUFFICES ASSUME NEW s \in Senders PROVE Handled(s)'
  <2>1. (\A s \in Senders : Handled(s))' => ListedHandled'
      BY HandledIs, PTL
  <2> QED BY <2>1
<1>2. events \subseteq events'
    BY EventsStay
<1>3. /\ \/ disk' \in {<< >>, disk} /\ born' = born
         \/ /\ born' = born + 1
            /\ \E r \in Reports : disk' = Append(disk, r) /\ r.number = born + 1
      /\ sender[s].loaded \subseteq 1..born
    BY <1>0, DiskMoves DEF Handled
<1>6. CASE /\ sender'[s].pc \in {"idle", "list"} /\ sender'[s].loaded = {}
    BY <1>6 DEF Handled, Sending
<1>5. CASE sender' = IdleSenders
    BY <1>5, <1>6, IdleTypes DEF IdleSenders
<1>7. CASE up' = up /\ shared' = shared /\ sender'[s] = sender[s]
    BY <1>0, <1>2, <1>3, <1>7, HandledOn
<1>8. ASSUME NEW t \in Senders, NEW kind, NEW reason, Begin(t, kind, reason) PROVE Handled(s)'
  <2>1. CASE t = s
    <3>1. sender'[s].pc = "list" /\ sender'[s].loaded = {}
        BY <1>0, <1>8, <2>1, BeginMoves
    <3> QED BY <1>6, <3>1
  <2>2. CASE t # s
    <3>1. /\ sender'[s].pc = sender[s].pc /\ sender'[s].todo = sender[s].todo
          /\ sender'[s].loaded = sender[s].loaded /\ sender'[s].ok = sender[s].ok
          /\ sender'[s].refused = sender[s].refused
        BY <1>0, <1>8, <2>2, BeginMoves
    <3>2. up' = up /\ shared' = shared
        BY <1>8, Zenon DEF Begin, process
    <3> QED BY <1>0, <1>2, <1>3, <3>1, <3>2, HandledOn
  <2> QED BY <2>1, <2>2
<1>9. ASSUME NEW t \in Senders, List(t) \/ Filter(t) \/ Takes(t) \/ Answers(t), t # s
      PROVE  Handled(s)'
  <2>1. sender'[s] = sender[s] /\ up' = up /\ shared' = shared
      BY <1>0, <1>9, ListDoes, FilterDoes, SinkDoes, AnswersDoes
  <2> QED BY <1>7, <2>1
<1>10. ASSUME List(s) PROVE Handled(s)'
  <2>1. /\ sender'[s].todo = Loads /\ sender'[s].loaded = {r.number : r \in SetOf(disk)}
        /\ disk # << >> => sender'[s].pc = "filter"
        /\ disk' = disk /\ born' = born
      BY <1>0, <1>10, ListDoes
  <2>2. /\ Len(Loads) = Len(disk) /\ SetOf(disk) = {disk[k] : k \in 1..Len(disk)}
        /\ \A k \in 1..Len(disk) : Loads[k] = Doctored(disk[k])
      BY <1>0, LoadsDisk
  <2>3. sender'[s].loaded \subseteq 1..born'
    <3>1. \A k \in 1..Len(disk) : disk[k].number \in 1..born
        BY <1>0 DEF DiskOrdered
    <3> QED BY <2>1, <2>2, <3>1
  <2>4. sender'[s].pc = "answer" => Len(sender'[s].todo) = 0
      BY <2>1, <2>2
  <2>5. ASSUME NEW q, Listed(s, q)' PROVE ToDo(s, q)'
    <3>1. PICK k \in 1..Len(disk) : disk[k] = q
        BY <2>1, <2>5 DEF Listed
    <3>2. Loads[k] = Doctored(q) /\ k \in 1..Len(Loads)
        BY <2>2, <3>1
    <3> QED BY <2>1, <3>2 DEF ToDo
  <2> QED BY <2>3, <2>4, <2>5 DEF Handled
<1>11. ASSUME Filter(s) PROVE Handled(s)'
  <2>1. /\ up /\ sender[s].pc = "filter"
        /\ sender'[s].ok => sender'[s].pc = "sink" /\ sender[s].ok
        /\ sender'[s].todo = sender[s].todo /\ sender'[s].loaded = sender[s].loaded
        /\ sender'[s].refused = sender[s].refused
        /\ UNCHANGED <<up, shared, disk, born, events>>
      BY <1>0, <1>11, FilterDoes
  <2>2. ASSUME Sending(s)', NEW q, Listed(s, q)' PROVE (ToDo(s, q) \/ Dealt(s, q))'
    <3>1. Sending(s)
        BY <2>1, <2>2 DEF Sending
    <3>2. Listed(s, q)
        BY <2>1, <2>2 DEF Listed
    <3> QED BY <1>0, <2>1, <3>1, <3>2 DEF Handled, ToDo, Dealt, Sent, Refused, Taken
  <2> QED BY <1>3, <2>1, <2>2 DEF Handled
<1>12. ASSUME Takes(s) PROVE Handled(s)'
  <2>1. /\ up /\ sender[s].pc = "sink" /\ Len(sender[s].todo) > 0
        /\ sender'[s].todo = Tail(sender[s].todo) /\ Len(sender'[s].todo) = Len(sender[s].todo) - 1
        /\ \A i \in 1..Len(sender'[s].todo) : sender'[s].todo[i] = sender[s].todo[i + 1]
        /\ Len(sender[s].todo) # 1 => sender'[s].pc = "sink"
        /\ sender'[s].ok = sender[s].ok /\ sender'[s].loaded = sender[s].loaded
        /\ sender[s].refused \subseteq sender'[s].refused
        /\ ClientRefuses(s) => Head(sender[s].todo).number \in sender'[s].refused
        /\ UNCHANGED <<up, shared, disk, born>>
        /\ LeavesOut(s) => ~shared
      BY <1>0, <1>12, SinkDoes
  <2>2. sender[s].todo \in Seq(Loaded) /\ Len(sender[s].todo) \in Nat
      BY <1>0 DEF DeliveryTypeOK, SenderState, Loaded
  <2>3. ASSUME Sending(s)', NEW q, Listed(s, q)' PROVE (ToDo(s, q) \/ Dealt(s, q))'
    <3>1. Sending(s) /\ Listed(s, q) /\ (Converts(s) \/ ClientRefuses(s))
        BY <1>12, <2>1, <2>3 DEF Takes, Sending, Listed
    <3>2. ToDo(s, q) \/ Dealt(s, q)
        BY <1>0, <3>1 DEF Handled
    <3>3. CASE Sent(q.number)
      <4>1. Sent(q.number)'
          BY <1>2, <3>3 DEF Sent
      <4> QED BY <4>1 DEF Dealt
    <3>4. CASE Taken(q) \/ Refused(s, q.number)
        BY <2>1, <3>4 DEF Dealt, Taken, Refused
    <3>5. CASE ToDo(s, q)
      <4>1. PICK k \in 1..Len(sender[s].todo) : sender[s].todo[k] = Doctored(q)
          BY <3>5 DEF ToDo
      <4>2. CASE k # 1
        <5>1. k - 1 \in 1..Len(sender'[s].todo) /\ (k - 1) + 1 = k
            BY <2>1, <2>2, <4>2
        <5>2. sender'[s].todo[k - 1] = Doctored(q)
            BY <2>1, <4>1, <5>1
        <5>3. ToDo(s, q)'
            BY <5>1, <5>2 DEF ToDo
        <5> QED BY <5>3
      <4>3. CASE k = 1
        <5>1. Head(sender[s].todo) = Doctored(q)
            BY <2>1, <2>2, <4>1, <4>3, HeadAndTail
        <5>2. PICK j \in 1..Len(disk) : disk[j] = q
            BY <3>1 DEF Listed
        <5>3. q \in Reports /\ (q.kind # "snapshot" => ~Passes(q))
            BY <1>0, <5>2 DEF DiskOrdered
        <5>4. PICK report : report = Doctored(q)
            OBVIOUS
        <5>5. report.number = q.number
            BY <5>3, <5>4, ReportsAre
        <5>6. CASE IsSnapshot(Event(report, lastContext))
          <6>1. Passes(q)
              BY <5>4, <5>6, PassesForSnapshot
          <6> QED BY <5>3, <6>1 DEF Dealt, Taken
        <5>7. CASE ~IsSnapshot(Event(report, lastContext)) /\ Converts(s)
          <6>1. Sent(report.number)'
              BY <5>1, <5>4, <5>7, ConvertsHead
          <6>2. Sent(q.number)'
              BY <5>5, <6>1 DEF Sent
          <6> QED BY <6>2 DEF Dealt
        <5>8. CASE ClientRefuses(s)
          <6>1. Refused(s, q.number)'
              BY <2>1, <5>1, <5>4, <5>5, <5>8 DEF Refused
          <6> QED BY <6>1 DEF Dealt
        <5> QED BY <3>1, <5>6, <5>7, <5>8
      <4> QED BY <4>2, <4>3
    <3> QED BY <3>2, <3>3, <3>4, <3>5 DEF Dealt
  <2>4. sender'[s].pc = "answer" => Len(sender'[s].todo) = 0
      BY <2>1
  <2> QED BY <1>3, <2>1, <2>3, <2>4 DEF Handled
<1>13. ASSUME Answers(s) PROVE Handled(s)'
  <2>1. sender'[s].pc = "idle" /\ sender'[s].loaded = {}
      BY <1>0, <1>13, AnswersDoes, IdleTypes
  <2> QED BY <1>6, <2>1
<1> QED BY <1>0, <1>5, <1>6, <1>7, <1>8, <1>9, <1>10, <1>11, <1>12, <1>13, OtherMoves

Alone(s) == up /\ shared /\ sender[s].ok /\ sender[s].alone /\ sender[s].own # 0
LastIsOwn(s) ==
    /\ sender[s].todo[Len(sender[s].todo)].number = sender[s].own
    /\ \E r \in Reports : sender[s].todo[Len(sender[s].todo)] = Doctored(r) /\ Passes(r)
Own(s) ==
    Alone(s) =>
      /\ \A o \in Senders : o # s => sender[o].pc = "idle"
      /\ sender[s].pc = "list" =>
           Len(disk) > 0 /\ disk[Len(disk)].number = sender[s].own /\ Passes(disk[Len(disk)])
      /\ sender[s].pc \in {"filter", "sink"} => LastIsOwn(s)
      /\ sender[s].pc = "answer" => snapshot = sender[s].own
LEMMA OwnIs == OwnLast <=> \A s \in Senders : Own(s)
BY Zenon DEF OwnLast, Own, Alone, LastIsOwn

LEMMA OwnBegins ==
    ASSUME DeliveryTypeOK, ProcessKept, NEW s \in Senders, NEW t \in Senders,
           Begin(t, "user", "reported") \/ Begin(t, "snapshot", Snapshot)
    PROVE  Own(s)'
<1>1. CASE t # s
  <2>1. ~sender'[s].alone
      BY <1>1, BeginMoves
  <2> QED BY <2>1 DEF Own, Alone
<1>2. CASE t = s /\ Begin(t, "user", "reported")
  <2>1. sender'[s].own = 0
      BY <1>2, BeginMoves
  <2> QED BY <2>1 DEF Own, Alone
<1>3. CASE t = s /\ Begin(t, "snapshot", Snapshot)
  <2>1. /\ sender'[s].pc = "list" /\ sender'[s].own = born + 1
        /\ sender'[s].alone => \A o \in Senders : sender[o].pc = "idle"
        /\ \A o \in Senders : o # s => sender'[o].pc = sender[o].pc
      BY <1>3, BeginMoves
  <2> DEFINE r == Recorded("snapshot", Plain(Snapshot))
  <2>2. up /\ disk' = Append(disk, r)
      BY <1>3, Zenon DEF Begin
  <2>3. launch > 0
      BY <2>2 DEF ProcessKept
  <2>4. r \in Reports /\ r.number = born + 1
      BY <2>2, <2>3, RecordedTypes, PlainIsShape DEF ReportKinds
  <2>5. Passes(r)
      BY <2>2, <2>3, NewPasses
  <2> HIDE DEF r
  <2>6. Len(disk') = Len(disk) + 1 /\ disk'[Len(disk) + 1] = r /\ Len(disk) \in Nat
      BY <2>2, <2>4, OneMore DEF DeliveryTypeOK
  <2>7. Len(disk') > 0 /\ disk'[Len(disk')] = r
      BY <2>6
  <2>8. Len(disk') > 0 /\ disk'[Len(disk')].number = sender'[s].own /\ Passes(disk'[Len(disk')])
      BY <2>1, <2>4, <2>5, <2>7
  <2> QED BY <2>1, <2>8 DEF Own, Alone
<1> QED BY <1>1, <1>2, <1>3

LEMMA OwnStep ==
    ASSUME DeliverInv, [DeliveryNext]_deliveryVars
    PROVE  OwnLast'
<1>0. DeliveryTypeOK /\ WorkLeft /\ ProcessKept /\ (\A s \in Senders : Own(s)) /\ disk \in Seq(Reports)
    BY ContextIs, OwnIs DEF DeliverInv, WhoInv, DeliveryTypeOK
<1>1. SUFFICES ASSUME NEW s \in Senders PROVE Own(s)'
  <2>1. (\A s \in Senders : Own(s))' => OwnLast'
      BY OwnIs, PTL
  <2> QED BY <2>1
<1>2. CASE sender'[s].own = 0
    BY <1>2 DEF Own, Alone
<1>3. CASE sender' = IdleSenders
    BY <1>2, <1>3, IdleTypes DEF IdleSenders
<1>4. CASE UNCHANGED <<up, shared, disk, born, sender, events, snapshot>>
    BY <1>0, <1>4 DEF Own, Alone, LastIsOwn
<1>5. ASSUME NEW t \in Senders, Begin(t, "user", "reported") \/ Begin(t, "snapshot", Snapshot) PROVE Own(s)'
    BY <1>0, <1>5, OwnBegins
<1>6. ASSUME NEW t \in Senders, List(t) \/ Filter(t) \/ Takes(t) \/ Answers(t), t # s
      PROVE  Own(s)'
  <2>1. sender'[s] = sender[s] /\ up' = up /\ shared' = shared /\ sender[t].pc # "idle"
      BY <1>0, <1>6, ListDoes, FilterDoes, SinkDoes, AnswersDoes
  <2>2. Alone(s) => sender[t].pc = "idle"
      BY <1>0, <1>6 DEF Own
  <2>3. Alone(s)' => Alone(s)
      BY <2>1 DEF Alone
  <2> QED BY <2>1, <2>2, <2>3 DEF Own
<1> DEFINE others == \A o \in Senders : o # s => sender[o].pc = "idle"
<1>7. ASSUME sender'[s].ok => sender[s].ok, sender'[s].own = sender[s].own, sender'[s].alone = sender[s].alone,
             up' = up, shared' = shared, \A t \in Senders : t # s => sender'[t] = sender[t], Alone(s)'
      PROVE  Alone(s) /\ \A o \in Senders : o # s => sender'[o].pc = "idle"
  <2>1. Alone(s)
      BY <1>7 DEF Alone
  <2> QED BY <1>0, <1>7, <2>1 DEF Own
<1>8. ASSUME List(s) PROVE Own(s)'
  <2>1. /\ sender[s].pc = "list"
        /\ disk # << >> => sender'[s].pc = "filter"
        /\ sender'[s].todo = Loads
        /\ sender'[s].ok = sender[s].ok /\ sender'[s].own = sender[s].own /\ sender'[s].alone = sender[s].alone
        /\ \A t \in Senders : t # s => sender'[t] = sender[t]
        /\ UNCHANGED <<up, shared, disk, born, events, snapshot>>
      BY <1>0, <1>8, ListDoes
  <2>2. SUFFICES ASSUME Alone(s)' PROVE sender'[s].pc = "filter" /\ LastIsOwn(s)'
    <3>1. Alone(s)' => \A o \in Senders : o # s => sender'[o].pc = "idle"
        BY <1>7, <2>1
    <3> QED BY <2>2, <3>1 DEF Own
  <2>3. Len(disk) > 0 /\ disk[Len(disk)].number = sender[s].own /\ Passes(disk[Len(disk)])
    <3>1. Alone(s)
        BY <1>7, <2>1, <2>2
    <3> QED BY <1>0, <2>1, <3>1 DEF Own
  <2> DEFINE r == disk[Len(disk)]
  <2>4. Len(Loads) = Len(disk) /\ Loads[Len(disk)] = Doctored(r) /\ r \in Reports
      BY <1>0, <2>3, LoadsDisk
  <2>5. Doctored(r).number = r.number
      BY <2>4, ReportsAre
  <2>6. disk # << >>
      BY <2>3
  <2> HIDE DEF r
  <2>7. r.number = sender[s].own /\ Passes(r)
      BY <2>3 DEF r
  <2>8. sender'[s].todo[Len(sender'[s].todo)] = Doctored(r)
      BY <2>1, <2>4
  <2> QED BY <2>1, <2>4, <2>5, <2>6, <2>7, <2>8 DEF LastIsOwn
<1>9. ASSUME Filter(s) PROVE Own(s)'
  <2>1. /\ sender[s].pc = "filter"
        /\ sender'[s].ok => sender'[s].pc = "sink" /\ sender[s].ok
        /\ sender'[s].todo = sender[s].todo
        /\ sender'[s].own = sender[s].own /\ sender'[s].alone = sender[s].alone
        /\ \A t \in Senders : t # s => sender'[t] = sender[t]
        /\ UNCHANGED <<up, shared, disk, born, events, snapshot>>
      BY <1>0, <1>9, FilterDoes
  <2>2. SUFFICES ASSUME Alone(s)' PROVE sender'[s].pc = "sink" /\ LastIsOwn(s)'
    <3>1. Alone(s)' => \A o \in Senders : o # s => sender'[o].pc = "idle"
        BY <1>7, <2>1
    <3> QED BY <2>2, <3>1 DEF Own
  <2>3. Alone(s) /\ sender'[s].ok
      BY <1>7, <2>1, <2>2 DEF Alone
  <2>4. LastIsOwn(s)
      BY <1>0, <2>1, <2>3 DEF Own
  <2> QED BY <2>1, <2>3, <2>4 DEF LastIsOwn
<1>10. ASSUME Takes(s) PROVE Own(s)'
  <2>1. /\ sender[s].pc = "sink" /\ Len(sender[s].todo) > 0
        /\ Len(sender'[s].todo) = Len(sender[s].todo) - 1
        /\ \A i \in 1..Len(sender'[s].todo) : sender'[s].todo[i] = sender[s].todo[i + 1]
        /\ Len(sender[s].todo) = 1 => sender'[s].pc = "answer"
        /\ Len(sender[s].todo) # 1 => sender'[s].pc = "sink"
        /\ sender'[s].ok = sender[s].ok
        /\ sender'[s].own = sender[s].own /\ sender'[s].alone = sender[s].alone
        /\ \A t \in Senders : t # s => sender'[t] = sender[t]
        /\ UNCHANGED <<up, shared>>
        /\ LeavesOut(s) => ~shared
      BY <1>0, <1>10, SinkDoes
  <2>2. sender[s].todo \in Seq(Loaded) /\ Len(sender[s].todo) \in Nat
      BY <1>0 DEF DeliveryTypeOK, SenderState, Loaded
  <2>3. SUFFICES ASSUME Alone(s)' PROVE /\ Len(sender[s].todo) # 1 => LastIsOwn(s)'
                                        /\ Len(sender[s].todo) = 1 => snapshot' = sender'[s].own
    <3>1. Alone(s)' => \A o \in Senders : o # s => sender'[o].pc = "idle"
        BY <1>7, <2>1
    <3>2. sender'[s].pc # "list"
        BY <2>1
    <3> QED BY <2>1, <2>3, <3>1, <3>2 DEF Own
  <2>4. Alone(s) /\ (Converts(s) \/ ClientRefuses(s))
      BY <1>7, <1>10, <2>1, <2>3 DEF Alone, Takes
  <2>5. LastIsOwn(s)
      BY <1>0, <2>1, <2>4 DEF Own
  <2>6. ASSUME Len(sender[s].todo) # 1 PROVE LastIsOwn(s)'
    <3> DEFINE n == Len(sender[s].todo)
    <3>1. n - 1 \in 1..Len(sender'[s].todo) /\ (n - 1) + 1 = n /\ Len(sender'[s].todo) = n - 1
      <4>1. n \in Nat /\ n > 0 /\ n # 1 /\ Len(sender'[s].todo) = n - 1
          BY <2>1, <2>2, <2>6
      <4> HIDE DEF n
      <4> QED BY <4>1
    <3>2. sender'[s].todo[n - 1] = sender[s].todo[n]
        BY <2>1, <3>1
    <3>3. sender'[s].todo[Len(sender'[s].todo)] = sender[s].todo[n]
        BY <3>1, <3>2
    <3> QED BY <2>1, <2>5, <3>3 DEF LastIsOwn
  <2>7. ASSUME Len(sender[s].todo) = 1 PROVE snapshot' = sender'[s].own
    <3>1. PICK r \in Reports : sender[s].todo[Len(sender[s].todo)] = Doctored(r) /\ Passes(r)
        BY <2>5 DEF LastIsOwn
    <3>2. PICK report : report = Head(sender[s].todo)
        OBVIOUS
    <3>3. report = sender[s].todo[Len(sender[s].todo)]
        BY <2>1, <2>2, <2>7, <3>2, HeadAndTail
    <3>4. report = Doctored(r) /\ report.number = sender[s].own
        BY <2>5, <3>1, <3>3 DEF LastIsOwn
    <3>5. IsSnapshot(Event(report, lastContext))
        BY <3>1, <3>4, PassesForSnapshot
    <3>6. ~ClientRefuses(s)
        BY <3>2, <3>5 DEF ClientRefuses, Context
    <3>7. snapshot' = report.number
        BY <2>4, <3>2, <3>5, <3>6, ConvertsHead
    <3> QED BY <2>1, <3>4, <3>7
  <2> QED BY <2>6, <2>7
<1>11. ASSUME Answers(s) PROVE Own(s)'
  <2>1. sender'[s].own = 0
      BY <1>0, <1>11, AnswersDoes, IdleTypes
  <2> QED BY <1>2, <2>1
<1> QED BY <1>2, <1>3, <1>4, <1>5, <1>6, <1>8, <1>9, <1>10, <1>11, <1>0, OtherMoves

LEMMA DeliverInvInit == DeliveryInit => DeliverInv
<1> SUFFICES ASSUME DeliveryInit PROVE DeliverInv
    OBVIOUS
<1>1. WhoInv
    BY WhoInvInit
<1>2. Len(disk) = 0 /\ ~up /\ \A s \in Senders : sender[s].loaded = {} /\ sender[s].pc = "idle"
    BY IdleTypes DEF DeliveryInit, IdleSenders
<1>3. DiskOrdered
    BY <1>2 DEF DiskOrdered
<1>4. ListedHandled
    BY <1>2 DEF ListedHandled
<1>5. OwnLast
    BY <1>2 DEF OwnLast
<1> QED BY <1>1, <1>3, <1>4, <1>5 DEF DeliverInv

LEMMA DeliverInvStep == DeliverInv /\ [DeliveryNext]_deliveryVars => DeliverInv'
<1> SUFFICES ASSUME DeliverInv, [DeliveryNext]_deliveryVars PROVE DeliverInv'
    OBVIOUS
<1>1. DeliveryTypeOK /\ ProcessKept /\ DiskOrdered
    BY ContextIs DEF DeliverInv, WhoInv
<1>2. WhoInv'
    BY WhoInvStep DEF DeliverInv
<1>3. DiskOrdered'
    BY <1>1, DiskOrderedStep
<1> QED BY <1>2, <1>3, HandledStep, OwnStep DEF DeliverInv

\* The step that answers finds what it deletes delivered, and the snapshot it was
\* begun for at the client.
DeletesSent ==
    \A s \in Senders : Answered(s) /\ sender[s].ok /\ shared =>
      \A r \in SetOf(disk) \ SetOf(disk') : r.number \in sender[s].loaded => Sent(r.number) \/ Refused(s, r.number) \/ Taken(r)
OwnSnapshot ==
    \A s \in Senders : Answered(s) /\ sender[s].ok /\ sender[s].alone /\ shared /\ sender[s].own # 0
                         => snapshot = sender[s].own

LEMMA AnswersDelivered == DeliverInv => DeletesSent /\ OwnSnapshot
<1> SUFFICES ASSUME DeliverInv PROVE DeletesSent /\ OwnSnapshot
    OBVIOUS
<1>0. DeliveryTypeOK /\ (\A s \in Senders : Handled(s)) /\ (\A s \in Senders : Own(s)) /\ disk \in Seq(Reports)
    BY HandledIs, OwnIs DEF DeliverInv, WhoInv, DeliveryTypeOK
<1>1. ASSUME NEW s \in Senders, Answered(s), sender[s].ok, shared, NEW r \in SetOf(disk),
             r.number \in sender[s].loaded
      PROVE  Sent(r.number) \/ Refused(s, r.number) \/ Taken(r)
  <2>1. up /\ sender[s].pc = "answer"
      BY <1>1 DEF Answered, At
  <2>2. Listed(s, r)
      BY <1>0, <1>1, LoadsDisk DEF Listed
  <2>3. Len(sender[s].todo) = 0 /\ Sending(s)
      BY <1>0, <1>1, <2>1 DEF Handled, Sending
  <2>4. ~ToDo(s, r)
      BY <2>3 DEF ToDo
  <2> QED BY <1>0, <2>2, <2>3, <2>4 DEF Handled, Dealt
<1>2. ASSUME NEW s \in Senders, Answered(s), sender[s].ok, sender[s].alone, shared, sender[s].own # 0
      PROVE  snapshot = sender[s].own
  <2>1. up /\ sender[s].pc = "answer"
      BY <1>2 DEF Answered, At
  <2> QED BY <1>0, <1>2, <2>1 DEF Own, Alone
<1> QED BY <1>1, <1>2 DEF DeletesSent, OwnSnapshot

\* However many sendings overlap and whenever the process ends: what a sending listed
\* and takes off the disk has become an event, was a snapshot or was refused by the
\* client, unless the sending failed or had no client; and a snapshot nobody overlapped
\* is the one the client has.
THEOREM DeliversAlways == DeliveryInit /\ [][DeliveryNext]_deliveryVars => DeliversWhatItDeletes
<1>1. DeliverInv /\ [DeliveryNext]_deliveryVars => [DeletesSent]_deliveryVars /\ [OwnSnapshot]_deliveryVars
    BY AnswersDelivered
<1>2. DeletedOnlyIfSent <=> [][DeletesSent]_deliveryVars
    BY PTL DEF DeletedOnlyIfSent, DeletesSent
<1>3. SnapshotIsOwn <=> [][OwnSnapshot]_deliveryVars
    BY PTL DEF SnapshotIsOwn, OwnSnapshot
<1> QED BY <1>1, <1>2, <1>3, DeliverInvInit, DeliverInvStep, PTL DEF DeliversWhatItDeletes
-----------------------------------------------------------------------------
(* What an event shows of the crash *)

\* An event made of a report that was loaded: the fields the client adds say nothing of
\* the crash.
MadeOf(event, report) ==
    LET section == Section(report)
    IN  /\ event.threads = Threads(section)
        /\ section.error =>
             /\ event.exceptions # << >>
             /\ event.exceptions[1].value = Value(section)
             /\ event.exceptions[1].thread = ThreadOfException(section)
ShowsReport(e) == e.report \in Loaded /\ MadeOf(e.event, e.report)
ShowInv == WhoInv /\ \A e \in events : ShowsReport(e)

LEMMA EventMade ==
    ASSUME NEW report, NEW context
    PROVE  MadeOf(SharedProperties(Event(report, context)), report)
<1> DEFINE section == Section(report)
           w == Value(section)
           d == IF AddsDiagnosis(section) THEN section.diagnosis ELSE NoDiagnosis
           f == ThreadOfException(section)
           x == IF ~section.error THEN << >> ELSE <<[value |-> w, diagnosis |-> d, thread |-> f]>>
           t == Threads(section)
           u == context.user
           n == Release(report, context)
           event == Event(report, context)
<1>1. event = [exceptions |-> x, threads |-> t, user |-> u, release |-> n]
    BY DEF Event
<1>2. section.error => x # << >> /\ x[1].value = w /\ x[1].thread = f
  <2> HIDE DEF w, d, f, section
  <2> QED OBVIOUS
<1> HIDE DEF x, t, u, n, event
<1>3. SharedProperties(event).threads = t /\ SharedProperties(event).exceptions = x
  <2>1. DOMAIN event = {"exceptions", "threads", "user", "release"} /\ event.threads = t /\ event.exceptions = x
      BY <1>1
  <2> QED BY <2>1 DEF SharedProperties
<1> DEFINE full == SharedProperties(event)
<1> HIDE DEF full, section, w, f
<1>4. full.threads = t /\ full.exceptions = x
    BY <1>3 DEF full
<1>5. section.error => full.exceptions # << >> /\ full.exceptions[1].value = w /\ full.exceptions[1].thread = f
    BY <1>2, <1>4
<1> QED BY <1>4, <1>5 DEF MadeOf, full, t, w, f, section, event

LEMMA ShownStep ==
    ASSUME WhoInv, \A e \in events : ShowsReport(e), [DeliveryNext]_deliveryVars
    PROVE  \A e \in events' : ShowsReport(e)
<1>1. SUFFICES ASSUME NEW e \in events', e \notin events PROVE ShowsReport(e)
    OBVIOUS
<1>2. PICK s \in Senders :
        /\ Converts(s)
        /\ events' = events \cup {[report |-> Head(sender[s].todo), in |-> launch,
                                   event |-> SharedProperties(Event(Head(sender[s].todo), lastContext))]}
    BY <1>1, NewEvents
<1> DEFINE report == Head(sender[s].todo)
           event == SharedProperties(Event(report, lastContext))
<1>3. e = [report |-> report, in |-> launch, event |-> event]
    BY <1>1, <1>2
<1>4. up /\ sender[s].pc = "sink"
    BY <1>2 DEF Converts, At
<1>5. report \in Loaded
  <2>1. sender[s].todo \in Seq(Loaded) /\ Len(sender[s].todo) > 0
      BY <1>4 DEF WhoInv, DeliveryTypeOK, SenderState, Loaded, WorkLeft
  <2> QED BY <2>1, HeadAndTail
<1>6. MadeOf(event, report)
    BY EventMade
<1> HIDE DEF report, event
<1>7. e.report = report /\ e.event = event
    BY <1>3
<1> QED BY <1>5, <1>6, <1>7 DEF ShowsReport

\* A section of a loaded report has lists of threads and frames and one thread flagged.
LEMMA PlainWellFormed == ASSUME NEW reason PROVE WellFormed(Plain(reason).crash)
<1> DEFINE frame == [symbol |-> "main", at |-> 1, app |-> TRUE]
           thread == [NoThread EXCEPT !.crashed = TRUE, !.frames = <<frame>>]
           section == Plain(reason).crash
<1>1. section = [error |-> TRUE, type |-> "user", reason |-> reason, cppName |-> Missing,
                 mach |-> "other", signal |-> "other", address |-> 0, crashedThread |-> << >>,
                 threads |-> <<thread>>, diagnosis |-> NoDiagnosis]
    BY DEF Plain, ASection
<1>2. thread.frames = <<frame>>
    BY DEF NoThread
<1> HIDE DEF frame, thread, section
<1>3. section.threads = <<thread>> /\ "threads" \in DOMAIN section
    BY <1>1
<1>4. \A x : Len(<<x>>) = 1 /\ DOMAIN <<x>> = 1..1 /\ <<x>>[1] = x /\ <<x>> = [k \in 1..1 |-> <<x>>[k]]
    OBVIOUS
<1>5. IsList(section.threads) /\ IsList(thread.frames)
    BY <1>2, <1>3, <1>4 DEF IsList
<1>6. DOMAIN section.threads = 1..1 /\ section.threads[1] = thread
    BY <1>3, <1>4
<1>7. \A j, k \in Flagged(section) : j = k
    BY <1>6 DEF Flagged
<1> QED BY <1>3, <1>5, <1>6, <1>7 DEF WellFormed, section

LEMMA SameThreads ==
    ASSUME NEW section, NEW d, WellFormed(section)
    PROVE  WellFormed([section EXCEPT !.diagnosis = d])
<1> DEFINE new == [section EXCEPT !.diagnosis = d]
<1>1. new.threads = section.threads /\ "threads" \in DOMAIN new
    BY DEF WellFormed
<1> HIDE DEF new
<1>2. Flagged(new) = Flagged(section)
    BY <1>1 DEF Flagged
<1> QED BY <1>1, <1>2 DEF WellFormed, new

LEMMA LoadedWellFormed == ASSUME NEW report \in Loaded PROVE WellFormed(Section(report))
<1>1. PICK r \in Reports : report = Doctored(r)
    BY DEF Loaded
<1>2. r.recrash = << >> \/ r.recrash = <<r.recrash[1]>>
    BY ReportsAre
<1>3. WellFormed(r.crash) /\ (r.recrash # << >> => WellFormed(r.recrash[1]))
  <2>1. r.crash \in {shape.crash : shape \in AllShapes} /\ r.recrash \in {shape.recrash : shape \in AllShapes}
      BY DEF Reports
  <2> DEFINE c == r.crash
             again == r.recrash
  <2> HIDE DEF c, again
  <2>2. PICK shape \in AllShapes : c = shape.crash
      BY <2>1 DEF c
  <2>3. PICK other \in AllShapes : again = other.recrash
      BY <2>1 DEF again
  <2>4. WellFormed(c)
    <3>1. CASE shape \in Shapes
        BY <2>2, <3>1, DeliveryAssumption
    <3>2. CASE shape \in {Plain("reported"), Plain(Snapshot)}
        BY <2>2, <3>2, PlainWellFormed
    <3> QED BY <3>1, <3>2 DEF AllShapes
  <2>5. again # << >> => WellFormed(again[1])
    <3>1. CASE other \in Shapes
        BY <2>3, <3>1, DeliveryAssumption
    <3>2. CASE other \in {Plain("reported"), Plain(Snapshot)}
        BY <2>3, <3>2 DEF Plain
    <3> QED BY <3>1, <3>2 DEF AllShapes
  <2> QED BY <2>4, <2>5 DEF c, again
<1>4. /\ r.recrash = << >> => Section(report) = [r.crash EXCEPT !.diagnosis = Diagnosis(r.crash, r.cpu)]
      /\ r.recrash # << >> => Section(report) = [r.recrash[1] EXCEPT !.diagnosis = Diagnosis(r.crash, r.cpu)]
    BY <1>1, <1>2, SectionDoctored, ReportsAre
<1> DEFINE d == Diagnosis(r.crash, r.cpu)
<1> HIDE DEF d
<1>5. CASE r.recrash = << >>
  <2>1. Section(report) = [r.crash EXCEPT !.diagnosis = d]
      BY <1>4, <1>5 DEF d
  <2>2. WellFormed([r.crash EXCEPT !.diagnosis = d])
      BY <1>3, SameThreads, Zenon
  <2> QED BY <2>1, <2>2, Zenon
<1>6. CASE r.recrash # << >>
  <2>1. Section(report) = [r.recrash[1] EXCEPT !.diagnosis = d]
      BY <1>4, <1>6 DEF d
  <2> QED BY <1>3, <1>6, <2>1, SameThreads
<1> QED BY <1>5, <1>6

\* The stack of a thread as the converter gives it.
LEMMA FramesAre ==
    ASSUME NEW thread, IsList(thread.frames), thread.frames # << >>
    PROVE  LET frames == Frames(thread)
           IN  /\ Len(frames) \in Nat /\ DOMAIN frames = 1..Len(frames) /\ Len(frames) > 0
               /\ frames[Len(frames)] = thread.frames[1]
               /\ {f.symbol : f \in SetOf(frames)} = {f.symbol : f \in SetOf(thread.frames)}
<1> DEFINE list == thread.frames
           n == Len(list)
           S == {list[k] : k \in 1..n}
           back == Reversed(list)
           frames == Frames(thread)
<1>1. n \in Nat /\ DOMAIN list = 1..n /\ list \in Seq(S) /\ n > 0
  <2>1. n \in Nat /\ list = [k \in 1..n |-> list[k]]
      BY DEF IsList
  <2> HIDE DEF list
  <2>2. list \in [1..n -> S]
      BY <2>1
  <2> HIDE DEF S
  <2>3. list \in Seq(S)
      BY <2>1, <2>2
  <2>4. list # << >>
      BY DEF list
  <2> QED BY <2>1, <2>2, <2>3, <2>4
<1>2. RepeatsLink(thread) => n >= 2 /\ list[1].symbol = list[2].symbol
    BY DEF RepeatsLink
<1>3. frames = IF RepeatsLink(thread) THEN Append(SubSeq(back, 1, Len(back) - 2), back[Len(back)]) ELSE back
    BY DEF Frames
<1> HIDE DEF list, frames, n
<1>4. back = [k \in 1..n |-> list[n + 1 - k]]
    BY <1>1 DEF Reversed
<1> HIDE DEF back
<1>5. \A k \in 1..n : n + 1 - k \in 1..n
    BY <1>1
<1>6. back \in Seq(S) /\ Len(back) = n /\ \A k \in 1..n : back[k] = list[n + 1 - k]
  <2>1. back \in [1..n -> S]
      BY <1>4, <1>5
  <2> HIDE DEF S
  <2>2. back \in Seq(S) /\ Len(back) = n
      BY <1>1, <2>1
  <2> QED BY <1>4, <2>2
<1>7. SetOf(list) = {list[k] : k \in 1..n}
    BY <1>1 DEF SetOf
<1>8. CASE ~RepeatsLink(thread)
  <2>1. frames = back
      BY <1>3, <1>8
  <2>2. DOMAIN frames = 1..n /\ Len(frames) = n
      BY <1>1, <1>4, <1>6, <2>1
  <2>3. frames[n] = list[1]
      BY <1>1, <1>6, <2>1
  <2>4. SetOf(frames) = {list[k] : k \in 1..n}
    <3>1. SetOf(frames) = {back[k] : k \in 1..n}
        BY <2>1, <2>2 DEF SetOf
    <3>2. ASSUME NEW k \in 1..n PROVE \E j \in 1..n : back[j] = list[k]
      <4>1. n + 1 - k \in 1..n /\ n + 1 - (n + 1 - k) = k
          BY <1>1
      <4> QED BY <1>6, <4>1
    <3>3. \A j \in 1..n : \E k \in 1..n : back[j] = list[k]
        BY <1>5, <1>6
    <3> DEFINE X == {back[k] : k \in 1..n}
               Y == {list[k] : k \in 1..n}
    <3>4. \A x \in X : x \in Y
        BY <3>3
    <3>5. \A y \in Y : y \in X
      <4>1. SUFFICES ASSUME NEW y, y \in Y PROVE y \in X
          OBVIOUS
      <4>2. PICK k \in 1..n : y = list[k]
          BY <4>1
      <4>3. PICK j \in 1..n : back[j] = list[k]
          BY <3>2
      <4> QED BY <4>2, <4>3
    <3> HIDE DEF X, Y
    <3>6. X = Y
        BY <3>4, <3>5
    <3> QED BY <3>1, <3>6 DEF X, Y
  <2> QED BY <1>1, <1>7, <2>2, <2>3, <2>4 DEF list, frames, n
<1>9. CASE RepeatsLink(thread)
  <2> DEFINE most == SubSeq(back, 1, n - 2)
  <2>1. n >= 2 /\ list[1].symbol = list[2].symbol
      BY <1>2, <1>9
  <2>0. n - 2 \in Nat
      BY <1>1, <2>1
  <2>2. PICK m \in Nat : m = n - 2
      BY <2>0
  <2>3. most \in Seq(S) /\ Len(most) = m /\ \A k \in 1..m : most[k] = back[k]
    <3> HIDE DEF S
    <3>1. back \in Seq(S) /\ m <= Len(back)
        BY <1>1, <1>6, <2>2
    <3>2. SubSeq(back, 1, m) \in Seq(S) /\ Len(SubSeq(back, 1, m)) = m /\ \A k \in 1..m : SubSeq(back, 1, m)[k] = back[k]
        BY <3>1
    <3> QED BY <2>2, <3>2
  <2>4. frames = Append(most, back[n])
      BY <1>3, <1>6, <1>9
  <2>5. back[n] = list[1] /\ back[n] \in S
      BY <1>1, <1>6
  <2> HIDE DEF most
  <2>6. /\ Len(frames) = m + 1 /\ frames \in Seq(S) /\ frames[m + 1] = list[1]
        /\ \A k \in 1..m : frames[k] = list[n + 1 - k]
    <3> HIDE DEF S
    <3>1. Append(most, back[n]) \in Seq(S) /\ Len(Append(most, back[n])) = m + 1
          /\ Append(most, back[n])[m + 1] = back[n]
          /\ \A k \in 1..m : Append(most, back[n])[k] = most[k]
        BY <2>3, <2>5
    <3>2. \A k \in 1..m : k \in 1..n
        BY <1>1, <2>2
    <3> QED BY <1>6, <2>3, <2>4, <2>5, <3>1, <3>2
  <2>7. DOMAIN frames = 1..(m + 1)
      BY <2>6
  <2>8. SetOf(frames) = {frames[k] : k \in 1..(m + 1)}
      BY <2>7 DEF SetOf
  <2>9. ASSUME NEW k \in 1..(m + 1) PROVE \E j \in 1..n : frames[k] = list[j]
    <3>1. CASE k = m + 1
        BY <1>1, <2>6, <3>1
    <3>2. CASE k # m + 1
      <4>1. k \in 1..m
          BY <2>2, <3>2
      <4>2. m + 2 = n
          BY <1>1, <2>2
      <4>3. n + 1 - k \in 1..n
          BY <1>1, <4>1, <4>2
      <4> QED BY <2>6, <4>1, <4>3
    <3> QED BY <3>1, <3>2
  <2>10. ASSUME NEW j \in 1..n PROVE \E k \in 1..(m + 1) : frames[k].symbol = list[j].symbol
    <3>1. CASE j \in {1, 2}
      <4>1. list[j].symbol = list[1].symbol
          BY <2>1, <3>1
      <4>2. m + 1 \in 1..(m + 1)
          OBVIOUS
      <4> QED BY <2>6, <4>1, <4>2
    <3>2. CASE j \notin {1, 2}
      <4>0. n + 1 - j \in Int
          BY <1>1
      <4>1. PICK k \in Int : k = n + 1 - j
          BY <4>0
      <4>2. k \in 1..m /\ n + 1 - k = j /\ k \in 1..(m + 1)
          BY <1>1, <2>2, <3>2, <4>1
      <4>3. frames[k] = list[j]
          BY <2>6, <4>2
      <4> QED BY <4>2, <4>3
    <3> QED BY <3>1, <3>2
  <2> DEFINE P == SetOf(frames)
             Q == SetOf(list)
  <2>11. {f.symbol : f \in SetOf(frames)} = {f.symbol : f \in SetOf(list)}
    <3>1. \A f \in P : \E g \in Q : f.symbol = g.symbol
        BY <1>7, <2>8, <2>9
    <3>2. \A g \in Q : \E f \in P : f.symbol = g.symbol
        BY <1>7, <2>8, <2>10
    <3> HIDE DEF P, Q
    <3>3. {f.symbol : f \in P} = {g.symbol : g \in Q}
        BY <3>1, <3>2
    <3> QED BY <3>3 DEF P, Q
  <2>12. Len(frames) \in Nat /\ DOMAIN frames = 1..Len(frames) /\ Len(frames) > 0 /\ frames[Len(frames)] = list[1]
      BY <2>6, <2>7
  <2> QED BY <2>11, <2>12 DEF list, frames
<1> QED BY <1>8, <1>9

\* Of the places of a stack, that of the thread that crashed is the exception's.
LEMMA StacksOnce ==
    ASSUME NEW event, NEW report, MadeOf(event, report), WellFormed(Section(report)),
           Section(report).error, Flagged(Section(report)) # {}, NEW frames, frames # << >>
    PROVE  LET section == Section(report)
               stacks == [k \in DOMAIN section.threads |-> Frames(section.threads[k])]
           IN  Cardinality(Places(event, frames)) = Cardinality({k \in DOMAIN stacks : stacks[k] = frames})
<1> DEFINE section == Section(report)
           threads == section.threads
           n == Len(threads)
           stacks == [k \in DOMAIN threads |-> Frames(threads[k])]
           A == {k \in 1..n : stacks[k] = frames}
<1>1. n \in Nat /\ DOMAIN threads = 1..n
    BY DEF WellFormed, IsList
<1>2. PICK c \in 1..n : Flagged(section) = {c}
  <2>1. PICK c \in Flagged(section) : TRUE
      OBVIOUS
  <2>2. \A k \in Flagged(section) : k = c
      BY <2>1 DEF WellFormed
  <2>3. c \in 1..n
      BY <1>1, <2>1 DEF Flagged
  <2> QED BY <2>1, <2>2, <2>3
<1>3. FirstOf({c}) = c
  <2>1. \A j \in {c} : c <= j
      BY <1>1
  <2> QED BY <2>1 DEF FirstOf
<1>4. ThreadOfException(section) = <<stacks[c]>>
  <2>1. CrashedIndex(section) = c
      BY <1>2, <1>3 DEF CrashedIndex
  <2> QED BY <1>1, <2>1 DEF ThreadOfException
<1>5. \A k \in 1..n : event.threads[k] = IF k = c THEN << >> ELSE stacks[k]
  <2>1. event.threads = [k \in 1..n |-> Stripped(threads[k])]
      BY <1>1 DEF MadeOf, Threads
  <2>2. \A k \in 1..n : threads[k].crashed <=> k = c
      BY <1>1, <1>2 DEF Flagged
  <2> QED BY <1>1, <2>1, <2>2 DEF Stripped
<1>6. DOMAIN event.threads = 1..n /\ DOMAIN stacks = 1..n
    BY <1>1 DEF MadeOf, Threads
<1>7. event.exceptions # << >> /\ event.exceptions[1].thread = <<stacks[c]>>
    BY <1>4 DEF MadeOf
<1> DEFINE first == stacks[c]
<1> HIDE DEF section, threads, stacks, n, first
<1>8. \A f : <<first>> = <<f>> <=> f = first
    OBVIOUS
<1>9. Places(event, frames) = (A \ {c}) \cup {k \in {0} : frames = first}
    BY <1>5, <1>6, <1>7, <1>8 DEF Places, first
<1>10. IsFiniteSet(A)
  <2>1. IsFiniteSet(1..n)
      BY <1>1, FS_Interval
  <2> QED BY <2>1, FS_Subset
<1>11. 0 \notin A /\ (c \in A <=> frames = first)
    BY <1>1, <1>2 DEF first
<1> DEFINE B == A \ {c}
<1>12. IsFiniteSet(B)
    BY <1>10, FS_Subset
<1>13. Cardinality(Places(event, frames)) = Cardinality(A)
  <2> HIDE DEF A
  <2>1. CASE frames = first
    <3>1. Places(event, frames) = B \cup {0} /\ A = B \cup {c} /\ 0 \notin B /\ c \notin B
        BY <1>9, <1>11, <2>1
    <3> HIDE DEF B
    <3>2. Cardinality(B \cup {0}) = Cardinality(B) + 1 /\ Cardinality(B \cup {c}) = Cardinality(B) + 1
        BY <1>12, <3>1, FS_AddElement
    <3> QED BY <3>1, <3>2
  <2>2. CASE frames # first
      BY <1>9, <1>11, <2>2
  <2> QED BY <2>1, <2>2
<1> QED BY <1>6, <1>13 DEF A, n, threads, section, stacks

\* What each event shows is a matter of the report it was made of.
LEMMA ShownIsCrash == (\A e \in events : ShowsReport(e)) => EventShowsCrash
<1> SUFFICES ASSUME \A e \in events : ShowsReport(e) PROVE EventShowsCrash
    OBVIOUS
<1>1. \A e \in events : MadeOf(e.event, e.report) /\ WellFormed(Section(e.report)) /\ e.report \in Loaded
    BY LoadedWellFormed DEF ShowsReport
<1>2. EachStackOnce
    BY <1>1, StacksOnce DEF EachStackOnce
<1>3. InnermostLast
  <2>1. SUFFICES ASSUME NEW e \in events, NEW k \in DOMAIN Section(e.report).threads,
                        NEW thread, thread = Section(e.report).threads[k], thread.frames # << >>
                 PROVE  /\ Frames(thread)[Len(Frames(thread))] = thread.frames[1]
                        /\ {f.symbol : f \in SetOf(Frames(thread))} = {f.symbol : f \in SetOf(thread.frames)}
      BY DEF InnermostLast
  <2>2. IsList(thread.frames)
      BY <1>1, <2>1 DEF WellFormed
  <2> QED BY <2>1, <2>2, FramesAre
<1>4. ShowsFirstCrash
  <2>1. SUFFICES ASSUME NEW e \in events, e.report.recrash # << >>, e.report.recrash[1].error
                 PROVE  /\ Len(e.event.threads) = Len(e.report.recrash[1].threads)
                        /\ \/ Notable(e.report.recrash[1]) # {}
                           \/ e.event.exceptions[1].value = {Reason(e.report.recrash[1])}
      BY DEF ShowsFirstCrash
  <2> DEFINE first == e.report.recrash[1]
  <2>2. Section(e.report) = first
      BY <2>1 DEF Section
  <2>3. e.event.threads = Threads(first) /\ e.event.exceptions[1].value = Value(first) /\ WellFormed(first)
      BY <1>1, <2>1, <2>2 DEF MadeOf
  <2> HIDE DEF first
  <2>4. Len(e.event.threads) = Len(first.threads)
    <3> DEFINE n == Len(first.threads)
    <3>1. n \in Nat /\ DOMAIN first.threads = 1..n
        BY <2>3 DEF WellFormed, IsList
    <3> HIDE DEF n
    <3>2. e.event.threads = [k \in 1..n |-> Stripped(first.threads[k])]
        BY <2>3, <3>1 DEF Threads
    <3>3. Len(e.event.threads) = n
        BY <3>1, <3>2
    <3> QED BY <3>3 DEF n
  <2>5. Notable(first) # {} \/ Value(first) = {Reason(first)}
      BY DEF Value
  <2> QED BY <2>3, <2>4, <2>5 DEF first
<1> QED BY <1>2, <1>3, <1>4 DEF EventShowsCrash

\* In any delivery, of reports of any shape the recorder writes, with sendings that overlap
\* and launches that are killed: an event shows every stack of the crash where it belongs,
\* with no function lost and the innermost frame last, and of a recrash the first crash.
THEOREM EventAlwaysShowsCrash == DeliveryInit /\ [][DeliveryNext]_deliveryVars => []EventShowsCrash
<1>1. DeliveryInit => ShowInv
    BY WhoInvInit DEF DeliveryInit, ShowInv
<1>2. ShowInv /\ [DeliveryNext]_deliveryVars => ShowInv'
  <2> SUFFICES ASSUME ShowInv, [DeliveryNext]_deliveryVars PROVE ShowInv'
      OBVIOUS
  <2>1. WhoInv' /\ \A e \in events' : ShowsReport(e)
      BY ShownStep, WhoInvStep DEF ShowInv
  <2> QED BY <2>1 DEF ShowInv, ShowsReport, MadeOf
<1>3. ShowInv => EventShowsCrash
    BY ShownIsCrash DEF ShowInv
<1> QED BY <1>1, <1>2, <1>3, PTL
==============================================================================
