------------------------- MODULE CrashThreads_proofs -------------------------
(***************************************************************************)
(* What the recorder says of a crash in memory is true, whatever the crash *)
(* left there: proofs for the entries of the threads and their registers,  *)
(* for the stacks that are walked, the calls in them and their names, and  *)
(* for the objects that are looked at.  The first two sections are put     *)
(* together in one theorem about a report's threads.  What a loop of the   *)
(* code adds up (the calls of a stack, the bytes of a text) is a function  *)
(* over the turns of the loop; lemmas say what it is from its definition   *)
(* by induction.                                                           *)
(***************************************************************************)
EXTENDS StackWalk, Introspection, FiniteSetTheorems, WellFoundedInduction, TLAPS

-----------------------------------------------------------------------------
(* The entries of the threads *)

\* What the tables of the four architectures have in common: a name has the field it
\* means, and the registers a backtrace begins with are among those shown.
Tells(names, values) ==
    /\ \E n \in Nat \ {0} : DOMAIN names = 1..n
    /\ DOMAIN values = DOMAIN names
    /\ \A i \in DOMAIN names : values[i] = Meaning(names[i]) /\ values[i] # NoField
Lists(cpu, name) == \E i \in DOMAIN cpu.names : cpu.names[i] = name /\ cpu.values[i] = name
TableSound(cpu) ==
    /\ Tells(cpu.names, cpu.values)
    /\ Tells(cpu.exceptionNames, cpu.exceptionValues)
    /\ cpu.instructionAddress \in {"rip", "eip", "pc"} /\ Lists(cpu, cpu.instructionAddress)
    /\ cpu.framePointer # NoField /\ Lists(cpu, cpu.framePointer)
    /\ cpu.linkRegister # NoField => cpu.linkRegister = "lr" /\ Lists(cpu, "lr")
    /\ cpu.faultAddress \in {"far", "faultvaddr"}

LEMMA X86ExceptionsTold == Tells(X86Exceptions, X86Exceptions)
<1>1. DOMAIN X86Exceptions = 1..3
    BY DEF X86Exceptions
<1>2. \A i \in 1..3 : X86Exceptions[i] \in {"trapno", "err", "faultvaddr"}
  <2>1. X86Exceptions[1] = "trapno" /\ X86Exceptions[2] = "err" /\ X86Exceptions[3] = "faultvaddr"
      BY DEF X86Exceptions
  <2>2. \A i \in 1..3 : i = 1 \/ i = 2 \/ i = 3
      OBVIOUS
  <2> QED BY <2>1, <2>2
<1> QED BY <1>1, <1>2 DEF Tells, Meaning, NoField

LEMMA ARMExceptionsTold ==
    Tells(<<"exception", "esr", "far">>, <<"exception", "esr", "far">>)
    /\ Tells(<<"exception", "fsr", "far">>, <<"exception", "fsr", "far">>)
<1> SUFFICES ASSUME NEW second \in {"esr", "fsr"}
             PROVE Tells(<<"exception", second, "far">>, <<"exception", second, "far">>)
    OBVIOUS
<1> DEFINE s == <<"exception", second, "far">>
<1>1. DOMAIN s = 1..3 /\ s[1] = "exception" /\ s[2] = second /\ s[3] = "far"
    OBVIOUS
<1>2. \A i \in 1..3 : i = 1 \/ i = 2 \/ i = 3
    OBVIOUS
<1> HIDE DEF s
<1>3. \A i \in 1..3 : s[i] \in {"exception", "esr", "fsr", "far"}
    BY <1>1, <1>2
<1>4. Tells(s, s)
    BY <1>1, <1>3 DEF Tells, Meaning, NoField
<1> QED BY <1>4 DEF s

LEMMA X8664Sound == capture.arch = "x86_64" => TableSound(X86_64)
<1> SUFFICES ASSUME capture.arch = "x86_64" PROVE TableSound(X86_64)
    OBVIOUS
<1>1. X86_64.values = NamesX86_64 /\ X86_64.names = NamesX86_64
    BY DEF X86_64, NamesX86_64
<1>2. DOMAIN NamesX86_64 = 1..21
    BY DEF NamesX86_64
<1>3. NamesX86_64[7] = "rbp" /\ NamesX86_64[17] = "rip"
    BY DEF NamesX86_64
<1>4. \A i \in 1..21 : NamesX86_64[i] # "none"
    BY DEF NamesX86_64
<1>5. Tells(NamesX86_64, NamesX86_64)
    BY <1>2, <1>4 DEF Tells, Meaning, NoField
<1>6. Tells(X86_64.exceptionNames, X86_64.exceptionValues)
    BY X86ExceptionsTold DEF X86_64
<1>7. /\ X86_64.instructionAddress = "rip" /\ X86_64.framePointer = "rbp"
      /\ X86_64.linkRegister = NoField /\ X86_64.faultAddress = "faultvaddr"
    BY DEF X86_64
<1>8. Lists(X86_64, "rip") /\ Lists(X86_64, "rbp")
    BY <1>1, <1>2, <1>3 DEF Lists
<1> QED BY <1>1, <1>5, <1>6, <1>7, <1>8 DEF TableSound, NoField

LEMMA X8632Sound == capture.arch = "x86" => TableSound(X86_32)
<1> SUFFICES ASSUME capture.arch = "x86" PROVE TableSound(X86_32)
    OBVIOUS
<1> DEFINE names == X86_32.names
<1>1. X86_32.values = names
    BY DEF X86_32
<1>2. DOMAIN names = 1..16
    BY DEF X86_32
<1>3. names[7] = "ebp" /\ names[11] = "eip"
    BY DEF X86_32
<1>4. \A i \in 1..16 : names[i] # "none"
    BY DEF X86_32
<1> HIDE DEF names
<1>5. Tells(names, names)
    BY <1>2, <1>4 DEF Tells, Meaning, NoField
<1>6. Tells(X86_32.exceptionNames, X86_32.exceptionValues)
    BY X86ExceptionsTold DEF X86_32
<1>7. /\ X86_32.instructionAddress = "eip" /\ X86_32.framePointer = "ebp"
      /\ X86_32.linkRegister = NoField /\ X86_32.faultAddress = "faultvaddr"
    BY DEF X86_32
<1>8. Lists(X86_32, "eip") /\ Lists(X86_32, "ebp")
    BY <1>1, <1>2, <1>3 DEF Lists, names
<1>9. Tells(X86_32.names, X86_32.values)
    BY <1>1, <1>5 DEF names
<1> QED BY <1>6, <1>7, <1>8, <1>9 DEF TableSound, NoField

\* A list of n elements, and what becomes of two when one is appended to the other.
ListOf(s, n) == s = [i \in 1..n |-> s[i]]
Join(s, t) == s \o t
IsJoin(u, s, t, m, p) == u = [i \in 1..p |-> IF i <= m THEN s[i] ELSE t[i - m]]

LEMMA SequenceIsList == ASSUME NEW S, NEW u \in Seq(S) PROVE ListOf(u, Len(u))
BY DEF ListOf

LEMMA Joined ==
    ASSUME NEW s, NEW t, NEW m \in Nat, NEW n \in Nat, NEW p \in Nat, p = m + n,
           ListOf(s, m), ListOf(t, n)
    PROVE  IsJoin(Join(s, t), s, t, m, p)
<1> DEFINE S == {s[i] : i \in 1..m} \cup {t[i] : i \in 1..n}
<1>1. s \in Seq(S) /\ Len(s) = m
  <2>1. \A i \in 1..m : s[i] \in S
      OBVIOUS
  <2> HIDE DEF S
  <2>2. s \in [1..m -> S]
      BY <2>1 DEF ListOf
  <2> QED BY <2>2
<1>2. t \in Seq(S) /\ Len(t) = n
  <2>1. \A i \in 1..n : t[i] \in S
      OBVIOUS
  <2> HIDE DEF S
  <2>2. t \in [1..n -> S]
      BY <2>1 DEF ListOf
  <2> QED BY <2>2
<1> HIDE DEF S
<1>3. s \o t \in Seq(S) /\ Len(s \o t) = m + n
    BY <1>1, <1>2
<1>4. s \o t = [i \in 1..p |-> (s \o t)[i]]
  <2>1. Len(s \o t) = p
      BY <1>3
  <2>2. ListOf(s \o t, Len(s \o t))
      BY <1>3, SequenceIsList
  <2> QED BY <2>1, <2>2 DEF ListOf
<1>5. \A i \in 1..p : (s \o t)[i] = IF i <= m THEN s[i] ELSE t[i - m]
    BY <1>1, <1>2
<1> QED BY <1>4, <1>5 DEF Join, IsJoin

LEMMA ARM64Sound == capture.arch = "arm64" => TableSound(ARM64)
<1> SUFFICES ASSUME capture.arch = "arm64" PROVE TableSound(ARM64)
    OBVIOUS
<1> DEFINE a == Array64
           t == <<"x29", "fp", "lr", "sp", "pc", "cpsr">>
           v == <<"fp">>
           w == <<"fp", "lr", "sp", "pc", "cpsr">>
<1>1. ARM64.names = Join(a, t) /\ ARM64.values = Join(Join(a, v), w)
    BY DEF ARM64, Join
<1>2. ListOf(a, 29) /\ ListOf(t, 6) /\ ListOf(v, 1) /\ ListOf(w, 5)
    BY DEF ListOf, Array64
<1>3. \A i \in 1..29 : a[i] # "none" /\ a[i] # "x29"
    BY DEF Array64
<1>4. /\ t[1] = "x29" /\ t[2] = "fp" /\ t[3] = "lr" /\ t[4] = "sp" /\ t[5] = "pc" /\ t[6] = "cpsr"
      /\ v[1] = "fp"
      /\ w[1] = "fp" /\ w[2] = "lr" /\ w[3] = "sp" /\ w[4] = "pc" /\ w[5] = "cpsr"
    OBVIOUS
<1> HIDE DEF a, t, v, w
<1>6. /\ ListOf(Join(a, t), 35)
      /\ \A i \in 1..29 : Join(a, t)[i] = a[i]
      /\ \A i \in 1..6 : Join(a, t)[29 + i] = t[i]
  <2>1. 29 \in Nat /\ 6 \in Nat /\ 35 \in Nat /\ 35 = 29 + 6
      OBVIOUS
  <2>2. IsJoin(Join(a, t), a, t, 29, 35)
      BY <2>1, <1>2, Joined
  <2> HIDE DEF ListOf
  <2>3. ListOf(Join(a, t), 35)
      BY <2>2 DEF ListOf, IsJoin
  <2>4. \A i \in 1..29 : Join(a, t)[i] = a[i]
      BY <2>2 DEF IsJoin
  <2>5. \A i \in 1..6 : Join(a, t)[29 + i] = t[i]
      BY <2>2 DEF IsJoin
  <2> QED BY <2>3, <2>4, <2>5
<1>7. /\ ListOf(Join(a, v), 30)
      /\ \A i \in 1..29 : Join(a, v)[i] = a[i]
      /\ \A i \in 1..1 : Join(a, v)[29 + i] = v[i]
  <2>1. 29 \in Nat /\ 1 \in Nat /\ 30 \in Nat /\ 30 = 29 + 1
      OBVIOUS
  <2>2. IsJoin(Join(a, v), a, v, 29, 30)
      BY <2>1, <1>2, Joined
  <2> HIDE DEF ListOf
  <2>3. ListOf(Join(a, v), 30)
      BY <2>2 DEF ListOf, IsJoin
  <2>4. \A i \in 1..29 : Join(a, v)[i] = a[i]
      BY <2>2 DEF IsJoin
  <2>5. \A i \in 1..1 : Join(a, v)[29 + i] = v[i]
      BY <2>2 DEF IsJoin
  <2> QED BY <2>3, <2>4, <2>5
<1>8. /\ ListOf(Join(Join(a, v), w), 35)
      /\ \A i \in 1..30 : Join(Join(a, v), w)[i] = Join(a, v)[i]
      /\ \A i \in 1..5 : Join(Join(a, v), w)[30 + i] = w[i]
  <2>1. 30 \in Nat /\ 5 \in Nat /\ 35 \in Nat /\ 35 = 30 + 5
      OBVIOUS
  <2>2. IsJoin(Join(Join(a, v), w), Join(a, v), w, 30, 35)
      BY <2>1, <1>2, <1>7, Joined
  <2> HIDE DEF ListOf
  <2>3. ListOf(Join(Join(a, v), w), 35)
      BY <2>2 DEF ListOf, IsJoin
  <2>4. \A i \in 1..30 : Join(Join(a, v), w)[i] = Join(a, v)[i]
      BY <2>2 DEF IsJoin
  <2>5. \A i \in 1..5 : Join(Join(a, v), w)[30 + i] = w[i]
      BY <2>2 DEF IsJoin
  <2> QED BY <2>3, <2>4, <2>5
<1>9. \A i \in 1..29 : Join(a, t)[i] = a[i] /\ Join(Join(a, v), w)[i] = a[i]
  <2>1. \A i \in 1..29 : i \in 1..30
      OBVIOUS
  <2> QED BY <2>1, <1>6, <1>7, <1>8
<1>10. Join(a, t)[30] = "x29" /\ Join(Join(a, v), w)[30] = "fp"
  <2>1. 1 \in 1..1 /\ 1 \in 1..6 /\ 30 \in 1..30 /\ 29 + 1 = 30
      OBVIOUS
  <2>2. Join(a, t)[30] = t[1]
      BY <2>1, <1>6
  <2>3. Join(a, v)[30] = v[1]
      BY <2>1, <1>7
  <2>4. Join(Join(a, v), w)[30] = Join(a, v)[30]
      BY <2>1, <1>8
  <2> QED BY <2>2, <2>3, <2>4, <1>4
<1>11. Join(a, t)[31] = "fp" /\ Join(Join(a, v), w)[31] = "fp"
  <2>1. 2 \in 1..6 /\ 1 \in 1..5 /\ 29 + 2 = 31 /\ 30 + 1 = 31
      OBVIOUS
  <2> QED BY <2>1, <1>4, <1>6, <1>8
<1>12. Join(a, t)[32] = "lr" /\ Join(Join(a, v), w)[32] = "lr"
  <2>1. 3 \in 1..6 /\ 2 \in 1..5 /\ 29 + 3 = 32 /\ 30 + 2 = 32
      OBVIOUS
  <2> QED BY <2>1, <1>4, <1>6, <1>8
<1>13. Join(a, t)[33] = "sp" /\ Join(Join(a, v), w)[33] = "sp"
  <2>1. 4 \in 1..6 /\ 3 \in 1..5 /\ 29 + 4 = 33 /\ 30 + 3 = 33
      OBVIOUS
  <2> QED BY <2>1, <1>4, <1>6, <1>8
<1>14. Join(a, t)[34] = "pc" /\ Join(Join(a, v), w)[34] = "pc"
  <2>1. 5 \in 1..6 /\ 4 \in 1..5 /\ 29 + 5 = 34 /\ 30 + 4 = 34
      OBVIOUS
  <2> QED BY <2>1, <1>4, <1>6, <1>8
<1>15. Join(a, t)[35] = "cpsr" /\ Join(Join(a, v), w)[35] = "cpsr"
  <2>1. 6 \in 1..6 /\ 5 \in 1..5 /\ 29 + 6 = 35 /\ 30 + 5 = 35
      OBVIOUS
  <2> QED BY <2>1, <1>4, <1>6, <1>8
<1>20. \A i \in 1..35 : Join(Join(a, v), w)[i] = Meaning(Join(a, t)[i]) /\ Join(Join(a, v), w)[i] # NoField
  <2>1. \A i \in 1..29 : a[i] = Meaning(a[i]) /\ a[i] # NoField
      BY <1>3 DEF Meaning, NoField
  <2>2. \A i \in 1..29 : Join(Join(a, v), w)[i] = Meaning(Join(a, t)[i]) /\ Join(Join(a, v), w)[i] # NoField
      BY <2>1, <1>9
  <2>3. \A i \in 1..35 : i \in 1..29 \/ i = 30 \/ i = 31 \/ i = 32 \/ i = 33 \/ i = 34 \/ i = 35
      OBVIOUS
  <2>4. Meaning("x29") = "fp" /\ \A x \in {"fp", "fp", "lr", "sp", "pc", "cpsr"} : x # NoField
      BY DEF Meaning, NoField
  <2>5. \A x \in {"fp", "lr", "sp", "pc", "cpsr"} : Meaning(x) = x
      BY DEF Meaning
  <2> SUFFICES ASSUME NEW i \in 1..35
               PROVE Join(Join(a, v), w)[i] = Meaning(Join(a, t)[i]) /\ Join(Join(a, v), w)[i] # NoField
      OBVIOUS
  <2>6. CASE i \in 1..29
      BY <2>6, <2>2
  <2>7. CASE i = 30
      BY <2>7, <2>4, <1>10
  <2>8. CASE i = 31
      BY <2>8, <2>4, <2>5, <1>11
  <2>9. CASE i = 32
      BY <2>9, <2>4, <2>5, <1>12
  <2>10. CASE i = 33
      BY <2>10, <2>4, <2>5, <1>13
  <2>11. CASE i = 34
      BY <2>11, <2>4, <2>5, <1>14
  <2>12. CASE i = 35
      BY <2>12, <2>4, <2>5, <1>15
  <2> QED BY <2>6, <2>7, <2>8, <2>9, <2>10, <2>11, <2>12, <2>3
<1>21. Tells(ARM64.names, ARM64.values)
  <2>1. DOMAIN Join(a, t) = 1..35 /\ DOMAIN Join(Join(a, v), w) = 1..35
      BY <1>6, <1>8 DEF ListOf
  <2>2. 35 \in Nat \ {0}
      OBVIOUS
  <2> QED BY <2>1, <2>2, <1>1, <1>20 DEF Tells
<1>22. Tells(ARM64.exceptionNames, ARM64.exceptionValues)
    BY ARMExceptionsTold DEF ARM64
<1>23. /\ ARM64.instructionAddress = "pc" /\ ARM64.framePointer = "fp"
       /\ ARM64.linkRegister = "lr" /\ ARM64.faultAddress = "far"
    BY DEF ARM64
<1>24. DOMAIN ARM64.names = 1..35
    BY <1>1, <1>6 DEF ListOf
<1>25. Lists(ARM64, "fp") /\ Lists(ARM64, "lr") /\ Lists(ARM64, "pc")
  <2>1. 31 \in 1..35 /\ ARM64.names[31] = "fp" /\ ARM64.values[31] = "fp"
      BY <1>1, <1>11
  <2>2. 32 \in 1..35 /\ ARM64.names[32] = "lr" /\ ARM64.values[32] = "lr"
      BY <1>1, <1>12
  <2>3. 34 \in 1..35 /\ ARM64.names[34] = "pc" /\ ARM64.values[34] = "pc"
      BY <1>1, <1>14
  <2> QED BY <2>1, <2>2, <2>3, <1>24 DEF Lists
<1> QED BY <1>21, <1>22, <1>23, <1>25 DEF TableSound, NoField

LEMMA ARMSound == capture.arch = "arm" => TableSound(ARM)
<1> SUFFICES ASSUME capture.arch = "arm" PROVE TableSound(ARM)
    OBVIOUS
<1> DEFINE a == Array32
           t == <<"ip", "sp", "lr", "pc", "cpsr">>
           v == <<"r12">>
           w == <<"sp", "lr", "pc", "cpsr">>
<1>1. ARM.names = Join(a, t) /\ ARM.values = Join(Join(a, v), w)
    BY DEF ARM, Join
<1>2. ListOf(a, 12) /\ ListOf(t, 5) /\ ListOf(v, 1) /\ ListOf(w, 4)
    BY DEF ListOf, Array32
<1>3. \A i \in 1..12 : a[i] # "none" /\ a[i] # "ip"
    BY DEF Array32
<1>4. /\ t[1] = "ip" /\ t[2] = "sp" /\ t[3] = "lr" /\ t[4] = "pc" /\ t[5] = "cpsr"
      /\ v[1] = "r12"
      /\ w[1] = "sp" /\ w[2] = "lr" /\ w[3] = "pc" /\ w[4] = "cpsr"
    OBVIOUS
<1>5. a[8] = "r7"
    BY DEF Array32
<1> HIDE DEF a, t, v, w
<1>6. /\ ListOf(Join(a, t), 17)
      /\ \A i \in 1..12 : Join(a, t)[i] = a[i]
      /\ \A i \in 1..5 : Join(a, t)[12 + i] = t[i]
  <2>1. 12 \in Nat /\ 5 \in Nat /\ 17 \in Nat /\ 17 = 12 + 5
      OBVIOUS
  <2>2. IsJoin(Join(a, t), a, t, 12, 17)
      BY <2>1, <1>2, Joined
  <2> HIDE DEF ListOf
  <2>3. ListOf(Join(a, t), 17)
      BY <2>2 DEF ListOf, IsJoin
  <2>4. \A i \in 1..12 : Join(a, t)[i] = a[i]
      BY <2>2 DEF IsJoin
  <2>5. \A i \in 1..5 : Join(a, t)[12 + i] = t[i]
      BY <2>2 DEF IsJoin
  <2> QED BY <2>3, <2>4, <2>5
<1>7. /\ ListOf(Join(a, v), 13)
      /\ \A i \in 1..12 : Join(a, v)[i] = a[i]
      /\ \A i \in 1..1 : Join(a, v)[12 + i] = v[i]
  <2>1. 12 \in Nat /\ 1 \in Nat /\ 13 \in Nat /\ 13 = 12 + 1
      OBVIOUS
  <2>2. IsJoin(Join(a, v), a, v, 12, 13)
      BY <2>1, <1>2, Joined
  <2> HIDE DEF ListOf
  <2>3. ListOf(Join(a, v), 13)
      BY <2>2 DEF ListOf, IsJoin
  <2>4. \A i \in 1..12 : Join(a, v)[i] = a[i]
      BY <2>2 DEF IsJoin
  <2>5. \A i \in 1..1 : Join(a, v)[12 + i] = v[i]
      BY <2>2 DEF IsJoin
  <2> QED BY <2>3, <2>4, <2>5
<1>8. /\ ListOf(Join(Join(a, v), w), 17)
      /\ \A i \in 1..13 : Join(Join(a, v), w)[i] = Join(a, v)[i]
      /\ \A i \in 1..4 : Join(Join(a, v), w)[13 + i] = w[i]
  <2>1. 13 \in Nat /\ 4 \in Nat /\ 17 \in Nat /\ 17 = 13 + 4
      OBVIOUS
  <2>2. IsJoin(Join(Join(a, v), w), Join(a, v), w, 13, 17)
      BY <2>1, <1>2, <1>7, Joined
  <2> HIDE DEF ListOf
  <2>3. ListOf(Join(Join(a, v), w), 17)
      BY <2>2 DEF ListOf, IsJoin
  <2>4. \A i \in 1..13 : Join(Join(a, v), w)[i] = Join(a, v)[i]
      BY <2>2 DEF IsJoin
  <2>5. \A i \in 1..4 : Join(Join(a, v), w)[13 + i] = w[i]
      BY <2>2 DEF IsJoin
  <2> QED BY <2>3, <2>4, <2>5
<1>9. \A i \in 1..12 : Join(a, t)[i] = a[i] /\ Join(Join(a, v), w)[i] = a[i]
  <2>1. \A i \in 1..12 : i \in 1..13
      OBVIOUS
  <2> QED BY <2>1, <1>6, <1>7, <1>8
<1>10. Join(a, t)[13] = "ip" /\ Join(Join(a, v), w)[13] = "r12"
  <2>1. 1 \in 1..1 /\ 1 \in 1..5 /\ 13 \in 1..13 /\ 12 + 1 = 13
      OBVIOUS
  <2>2. Join(a, t)[13] = t[1]
      BY <2>1, <1>6
  <2>3. Join(a, v)[13] = v[1]
      BY <2>1, <1>7
  <2>4. Join(Join(a, v), w)[13] = Join(a, v)[13]
      BY <2>1, <1>8
  <2> QED BY <2>2, <2>3, <2>4, <1>4
<1>11. Join(a, t)[14] = "sp" /\ Join(Join(a, v), w)[14] = "sp"
  <2>1. 2 \in 1..5 /\ 1 \in 1..4 /\ 12 + 2 = 14 /\ 13 + 1 = 14
      OBVIOUS
  <2> QED BY <2>1, <1>4, <1>6, <1>8
<1>12. Join(a, t)[15] = "lr" /\ Join(Join(a, v), w)[15] = "lr"
  <2>1. 3 \in 1..5 /\ 2 \in 1..4 /\ 12 + 3 = 15 /\ 13 + 2 = 15
      OBVIOUS
  <2> QED BY <2>1, <1>4, <1>6, <1>8
<1>13. Join(a, t)[16] = "pc" /\ Join(Join(a, v), w)[16] = "pc"
  <2>1. 4 \in 1..5 /\ 3 \in 1..4 /\ 12 + 4 = 16 /\ 13 + 3 = 16
      OBVIOUS
  <2> QED BY <2>1, <1>4, <1>6, <1>8
<1>14. Join(a, t)[17] = "cpsr" /\ Join(Join(a, v), w)[17] = "cpsr"
  <2>1. 5 \in 1..5 /\ 4 \in 1..4 /\ 12 + 5 = 17 /\ 13 + 4 = 17
      OBVIOUS
  <2> QED BY <2>1, <1>4, <1>6, <1>8
<1>20. \A i \in 1..17 : Join(Join(a, v), w)[i] = Meaning(Join(a, t)[i]) /\ Join(Join(a, v), w)[i] # NoField
  <2>1. \A i \in 1..12 : a[i] = Meaning(a[i]) /\ a[i] # NoField
      BY <1>3 DEF Meaning, NoField
  <2>2. \A i \in 1..12 : Join(Join(a, v), w)[i] = Meaning(Join(a, t)[i]) /\ Join(Join(a, v), w)[i] # NoField
      BY <2>1, <1>9
  <2>3. \A i \in 1..17 : i \in 1..12 \/ i = 13 \/ i = 14 \/ i = 15 \/ i = 16 \/ i = 17
      OBVIOUS
  <2>4. Meaning("ip") = "r12" /\ \A x \in {"r12", "sp", "lr", "pc", "cpsr"} : x # NoField
      BY DEF Meaning, NoField
  <2>5. \A x \in {"sp", "lr", "pc", "cpsr"} : Meaning(x) = x
      BY DEF Meaning
  <2> SUFFICES ASSUME NEW i \in 1..17
               PROVE Join(Join(a, v), w)[i] = Meaning(Join(a, t)[i]) /\ Join(Join(a, v), w)[i] # NoField
      OBVIOUS
  <2>6. CASE i \in 1..12
      BY <2>6, <2>2
  <2>7. CASE i = 13
      BY <2>7, <2>4, <1>10
  <2>8. CASE i = 14
      BY <2>8, <2>4, <2>5, <1>11
  <2>9. CASE i = 15
      BY <2>9, <2>4, <2>5, <1>12
  <2>10. CASE i = 16
      BY <2>10, <2>4, <2>5, <1>13
  <2>11. CASE i = 17
      BY <2>11, <2>4, <2>5, <1>14
  <2> QED BY <2>6, <2>7, <2>8, <2>9, <2>10, <2>11, <2>3
<1>21. Tells(ARM.names, ARM.values)
  <2>1. DOMAIN Join(a, t) = 1..17 /\ DOMAIN Join(Join(a, v), w) = 1..17
      BY <1>6, <1>8 DEF ListOf
  <2>2. 17 \in Nat \ {0}
      OBVIOUS
  <2> QED BY <2>1, <2>2, <1>1, <1>20 DEF Tells
<1>22. Tells(ARM.exceptionNames, ARM.exceptionValues)
    BY ARMExceptionsTold DEF ARM
<1>23. /\ ARM.instructionAddress = "pc" /\ ARM.framePointer = "r7"
       /\ ARM.linkRegister = "lr" /\ ARM.faultAddress = "far"
    BY DEF ARM
<1>24. DOMAIN ARM.names = 1..17
    BY <1>1, <1>6 DEF ListOf
<1>25. Lists(ARM, "r7") /\ Lists(ARM, "lr") /\ Lists(ARM, "pc")
  <2>1. 8 \in 1..17 /\ ARM.names[8] = "r7" /\ ARM.values[8] = "r7"
    <3>1. 8 \in 1..12
        OBVIOUS
    <3>2. Join(a, t)[8] = a[8] /\ Join(Join(a, v), w)[8] = a[8]
        BY <3>1, <1>9
    <3> QED BY <3>1, <3>2, <1>1, <1>5
  <2>2. 15 \in 1..17 /\ ARM.names[15] = "lr" /\ ARM.values[15] = "lr"
      BY <1>1, <1>12
  <2>3. 16 \in 1..17 /\ ARM.names[16] = "pc" /\ ARM.values[16] = "pc"
      BY <1>1, <1>13
  <2> QED BY <2>1, <2>2, <2>3, <1>24 DEF Lists
<1> QED BY <1>21, <1>22, <1>23, <1>25 DEF TableSound, NoField

LEMMA CPUSound == capture \in Captures => TableSound(CPU)
BY MachineContextAssumption, X8664Sound, X8632Sound, ARM64Sound, ARMSound DEF CPU

\* A context that was taken: the registers in it are those of its thread or none; the
\* thread of the handler has none but in the context of a signal.
OwnerSound(c) ==
    /\ c.state \in {c.thisThread, Nobody} /\ c.exceptions \in {c.thisThread, Nobody}
    /\ c.thisThread \in ThreadsOf(capture)
    /\ c.isSignalContext = (capture.how = "signal" /\ c.thisThread = capture.thread)
    /\ c.isSignalContext => c.state = c.thisThread /\ c.exceptions = c.thisThread
    /\ ~c.isSignalContext =>
         /\ c.isCurrentThread = (c.thisThread = capture.handler)
         /\ c.isCurrentThread => c.state = Nobody /\ c.exceptions = Nobody

\* The context of the thread that is reported.
ContextSound ==
    /\ OwnerSound(context)
    /\ context.thisThread = capture.thread
    /\ context.isCrashedContext = (capture.how # "deadlock")
    /\ context.allThreads = IF capture.how = "deadlock" THEN <<>> ELSE ThreadList
    /\ FaultTrue

\* What an entry says of its thread, and where it comes from.
EntrySound(i) ==
    LET e == entries[i] IN
    /\ RegistersTrue(e) /\ BacktraceBelongs(e)
    /\ e.current_thread = (e.thread = capture.handler)
    /\ e.crashed = (e.thread = capture.thread /\ capture.how # "deadlock")
    /\ capture.report = "standard" =>
         i <= Len(context.allThreads) /\ e.index = i - 1 /\ e.thread = context.allThreads[i]
    /\ capture.report = "minimal" =>
         i = 1 /\ e.thread = capture.thread /\ e.index = IndexOfThread(capture.thread)

ContextInv ==
    /\ capture \in Captures
    /\ ListOf(entries, Len(entries)) /\ Len(entries) \in Nat
    /\ IF context = NotTaken THEN Len(entries) = 0 ELSE ContextSound
    /\ \A i \in 1..Len(entries) : EntrySound(i)

\* A value that was read is a pair, and no pair is nothing.
LEMMA ValueIsPair ==
    ASSUME NEW owner, NEW field
    PROVE  /\ owner # Nobody /\ field # NoField => ValueOf(owner, field) = <<owner, field>>
           /\ ValueOf(owner, field) # Zero => owner # Nobody /\ field # NoField
           /\ owner = Nobody => ValueOf(owner, field) = Zero
           /\ <<owner, field>> # Zero
BY DEF ValueOf, Zero

\* A capture is one of threads that are there.
LEMMA CaptureFacts ==
    capture \in Captures =>
        /\ capture.how = "signal" => capture.handler = capture.thread
        /\ capture.how \in {"signal", "mach", "exception", "deadlock"}
        /\ capture.report \in {"standard", "minimal"}
        /\ capture.listed \in Seq(ThreadsOf(capture))
        /\ Nobody \notin ThreadsOf(capture)
        /\ \A i, j \in DOMAIN capture.listed : capture.listed[i] = capture.listed[j] => i = j
BY MachineContextAssumption

Registers(owner, names, values) ==
    [i \in DOMAIN names |-> [name |-> names[i], value |-> ValueOf(owner, values[i])]]

\* The registers of a context, listed, are true of its thread, or none was there.
LEMMA ListTold ==
    ASSUME capture \in Captures,
           NEW thread \in ThreadsOf(capture), NEW owner \in {thread, Nobody},
           owner = Nobody => capture.how # "signal" \/ thread # capture.thread,
           NEW names, NEW values, Tells(names, values)
    PROVE  TrueOf(thread, Registers(owner, names, values)) /\ Registers(owner, names, values) # <<>>
<1> DEFINE told == Registers(owner, names, values)
<1>1. DOMAIN told = DOMAIN names /\ DOMAIN told # {}
    BY DEF Tells, Registers
<1>2. told # <<>>
    BY <1>1
<1>3. \A k \in DOMAIN told : told[k].name = names[k] /\ told[k].value = ValueOf(owner, values[k])
    BY DEF Registers
<1> HIDE DEF told
<1>4. ASSUME owner = Nobody PROVE TrueOf(thread, told)
  <2>1. \A k \in DOMAIN told : told[k].value = Zero
      BY <1>3, <1>4, ValueIsPair
  <2> QED BY <2>1, <1>2, <1>4 DEF TrueOf
<1>5. ASSUME owner = thread, owner # Nobody PROVE TrueOf(thread, told)
  <2>1. \A k \in DOMAIN told : told[k].value = <<thread, values[k]>>
      BY <1>1, <1>3, <1>5, ValueIsPair DEF Tells
  <2>2. \A k \in DOMAIN told : told[k].value = <<thread, Meaning(told[k].name)>>
      BY <2>1, <1>1, <1>3 DEF Tells
  <2> QED BY <2>2, <1>2 DEF TrueOf
<1>6. TrueOf(thread, told) /\ told # <<>>
    BY <1>2, <1>4, <1>5
<1> QED BY <1>6 DEF told

\* An entry is true of the thread of the context it is made of.
LEMMA EntryTold ==
    ASSUME capture \in Captures, NEW c, OwnerSound(c), c.isCrashedContext \in BOOLEAN,
           NEW i, NEW e, e = ThreadEntry(c, i)
    PROVE  /\ RegistersTrue(e) /\ BacktraceBelongs(e)
           /\ e.current_thread = (e.thread = capture.handler)
           /\ e.thread = c.thisThread /\ e.index = i /\ e.crashed = c.isCrashedContext
<1>1. /\ e.thread = c.thisThread /\ e.index = i /\ e.crashed = c.isCrashedContext
      /\ e.current_thread = (c.thisThread = capture.handler)
      /\ e.backtrace = BacktraceStart(c)
      /\ e.registers = IF CanHaveCPUState(c) THEN BasicRegisters(c) ELSE <<>>
      /\ e.exceptions = IF HasValidExceptionRegisters(c) THEN ExceptionRegisters(c) ELSE <<>>
    BY DEF ThreadEntry
<1>2. TableSound(CPU)
    BY CPUSound
<1> DEFINE current == c.thisThread = capture.handler /\ capture.how # "signal"
<1>3. CanHaveCPUState(c) <=> ~current
    BY CaptureFacts DEF OwnerSound, CanHaveCPUState
<1>4. /\ c.state = Nobody => capture.how # "signal" \/ c.thisThread # capture.thread
      /\ c.exceptions = Nobody => capture.how # "signal" \/ c.thisThread # capture.thread
      /\ c.thisThread # Nobody
    BY CaptureFacts DEF OwnerSound
<1>5. TrueOf(c.thisThread, BasicRegisters(c)) /\ BasicRegisters(c) # <<>>
  <2>1. BasicRegisters(c) = Registers(c.state, CPU.names, CPU.values)
      BY DEF BasicRegisters, StateValue, Registers
  <2>2. c.thisThread \in ThreadsOf(capture) /\ c.state \in {c.thisThread, Nobody}
      BY DEF OwnerSound
  <2>3. Tells(CPU.names, CPU.values)
      BY <1>2 DEF TableSound
  <2> QED BY <2>1, <2>2, <2>3, <1>4, ListTold
<1>6. TrueOf(c.thisThread, ExceptionRegisters(c)) /\ ExceptionRegisters(c) # <<>>
  <2>1. ExceptionRegisters(c) = Registers(c.exceptions, CPU.exceptionNames, CPU.exceptionValues)
      BY DEF ExceptionRegisters, ExceptionValue, Registers
  <2>2. c.thisThread \in ThreadsOf(capture) /\ c.exceptions \in {c.thisThread, Nobody}
      BY DEF OwnerSound
  <2>3. Tells(CPU.exceptionNames, CPU.exceptionValues)
      BY <1>2 DEF TableSound
  <2> QED BY <2>1, <2>2, <2>3, <1>4, ListTold
<1>7. TrueOf(c.thisThread, <<>>)
    BY DEF TrueOf
<1>8. RegistersTrue(e)
  <2>1. TrueOf(e.thread, e.registers) /\ TrueOf(e.thread, e.exceptions)
      BY <1>1, <1>5, <1>6, <1>7
  <2>2. e.registers = <<>> <=> current
      BY <1>1, <1>3, <1>5
  <2>3. e.exceptions # <<>> <=> e.crashed /\ e.registers # <<>>
      BY <1>1, <1>5, <1>6 DEF HasValidExceptionRegisters
  <2> QED BY <1>1, <2>1, <2>2, <2>3 DEF RegistersTrue
<1>9. BacktraceBelongs(e)
  <2> SUFFICES ASSUME e.backtrace.pc # Zero PROVE BacktraceBelongs(e)
      BY DEF BacktraceBelongs
  <2>1. e.backtrace = CursorStart(c)
      BY <1>1 DEF BacktraceStart, OfException
  <2>2. /\ e.backtrace.pc = ValueOf(c.state, CPU.instructionAddress)
        /\ e.backtrace.lr = ValueOf(c.state, CPU.linkRegister)
        /\ e.backtrace.fp = ValueOf(c.state, CPU.framePointer)
      BY <2>1 DEF CursorStart, StateValue
  <2>3. c.state # Nobody
      BY <2>2, ValueIsPair
  <2>4. c.state = c.thisThread /\ CanHaveCPUState(c)
      BY <2>3 DEF OwnerSound, CanHaveCPUState
  <2>5. e.registers = BasicRegisters(c)
      BY <2>4, <1>1
  <2>6. ASSUME NEW name, Lists(CPU, name), name # NoField PROVE Shown(e, name)
    <3>1. PICK k \in DOMAIN CPU.names : CPU.names[k] = name /\ CPU.values[k] = name
        BY <2>6 DEF Lists
    <3>2. k \in DOMAIN e.registers
        BY <2>5 DEF BasicRegisters
    <3>3. e.registers[k] = [name |-> name, value |-> ValueOf(c.state, name)]
        BY <2>5, <3>1 DEF BasicRegisters, StateValue
    <3>4. ValueOf(c.state, name) = <<e.thread, name>>
        BY <2>3, <2>4, <2>6, <1>1, ValueIsPair
    <3> QED BY <3>2, <3>3, <3>4 DEF Shown
  <2>7. \E name \in {"rip", "eip", "pc"} : e.backtrace.pc = <<e.thread, name>> /\ Shown(e, name)
    <3>1. CPU.instructionAddress \in {"rip", "eip", "pc"} /\ CPU.instructionAddress # NoField
        BY <1>2 DEF TableSound, NoField
    <3>2. Shown(e, CPU.instructionAddress)
        BY <3>1, <2>6, <1>2 DEF TableSound
    <3>3. e.backtrace.pc = <<e.thread, CPU.instructionAddress>>
        BY <2>2, <2>3, <2>4, <3>1, <1>1, ValueIsPair
    <3> QED BY <3>1, <3>2, <3>3
  <2>8. e.backtrace.fp[1] = e.thread /\ Shown(e, e.backtrace.fp[2])
    <3>1. CPU.framePointer # NoField /\ Shown(e, CPU.framePointer)
        BY <2>6, <1>2 DEF TableSound
    <3>2. e.backtrace.fp = <<e.thread, CPU.framePointer>>
        BY <2>2, <2>3, <2>4, <3>1, <1>1, ValueIsPair
    <3>3. e.backtrace.fp[1] = e.thread /\ e.backtrace.fp[2] = CPU.framePointer
        BY <3>2
    <3> QED BY <3>1, <3>3
  <2>9. e.backtrace.lr # Zero => Shown(e, "lr")
    <3> SUFFICES ASSUME e.backtrace.lr # Zero PROVE Shown(e, "lr")
        OBVIOUS
    <3>1. CPU.linkRegister # NoField
        BY <2>2, ValueIsPair
    <3>2. Lists(CPU, "lr") /\ "lr" # NoField
        BY <3>1, <1>2 DEF TableSound, NoField
    <3> QED BY <3>2, <2>6
  <2> QED BY <2>7, <2>8, <2>9 DEF BacktraceBelongs
<1> QED BY <1>1, <1>8, <1>9

\* The list of a context is a list of threads of the process, the first of them.
LEMMA ThreadListIs ==
    ASSUME capture \in Captures
    PROVE  /\ ThreadList \in Seq(ThreadsOf(capture))
           /\ Len(ThreadList) <= Len(capture.listed)
           /\ \A i \in DOMAIN ThreadList : i \in DOMAIN capture.listed /\ ThreadList[i] = capture.listed[i]
<1>1. capture.listed \in Seq(ThreadsOf(capture))
    BY CaptureFacts
<1> DEFINE n == IF Len(capture.listed) < ContextThreads THEN Len(capture.listed) ELSE ContextThreads
           S == ThreadsOf(capture)
           list == capture.listed
<1>2. n \in 0..Len(list)
    BY <1>1, MachineContextAssumption
<1>3. ThreadList = SubSeq(list, 1, n)
    BY DEF ThreadList
<1> HIDE DEF n, S
<1>4. list \in Seq(S)
    BY <1>1 DEF S
<1>5. SubSeq(list, 1, n) \in Seq(S) /\ Len(SubSeq(list, 1, n)) = n
    BY <1>2, <1>4
<1>6. \A i \in 1..n : SubSeq(list, 1, n)[i] = list[i]
    BY <1>2, <1>4
<1>7. DOMAIN list = 1..Len(list) /\ DOMAIN ThreadList = 1..n
    BY <1>3, <1>4, <1>5
<1> QED BY <1>2, <1>3, <1>5, <1>6, <1>7 DEF S

LEMMA AppendToList ==
    ASSUME NEW s, Len(s) \in Nat, ListOf(s, Len(s)), NEW x
    PROVE  /\ ListOf(Append(s, x), Len(s) + 1) /\ Len(Append(s, x)) = Len(s) + 1
           /\ Append(s, x)[Len(s) + 1] = x
           /\ \A i \in 1..Len(s) : Append(s, x)[i] = s[i]
<1> DEFINE S == {s[i] : i \in 1..Len(s)} \cup {x}
<1>1. s \in Seq(S)
  <2>1. \A i \in 1..Len(s) : s[i] \in S
      OBVIOUS
  <2> HIDE DEF S
  <2>2. s \in [1..Len(s) -> S]
      BY <2>1 DEF ListOf
  <2> QED BY <2>2
<1>2. x \in S
    OBVIOUS
<1> HIDE DEF S
<1>3. Append(s, x) \in Seq(S) /\ Len(Append(s, x)) = Len(s) + 1
    BY <1>1, <1>2
<1>4. ListOf(Append(s, x), Len(s) + 1)
    BY <1>3, SequenceIsList
<1> QED BY <1>1, <1>2, <1>3, <1>4

LEMMA ContextInitInv == ContextInit => ContextInv
<1> SUFFICES ASSUME ContextInit PROVE ContextInv
    OBVIOUS
<1>1. entries = <<>> /\ capture \in Captures /\ context = NotTaken
    BY DEF ContextInit, ContextStart
<1>2. Len(entries) = 0
    BY <1>1
<1>3. ListOf(entries, Len(entries))
    BY <1>1, <1>2 DEF ListOf
<1> QED BY <1>1, <1>2, <1>3 DEF ContextInv

\* The context of a handler is sound.
LEMMA TakenSound ==
    ASSUME capture \in Captures, TakeContext
    PROVE  ContextSound'
<1>0. UNCHANGED <<capture, entries>>
    BY DEF TakeContext
<1>1. capture.thread \in ThreadsOf(capture) /\ capture.handler \in ThreadsOf(capture)
    BY DEF ThreadsOf
<1>2. TableSound(CPU)
    BY CPUSound
<1> DEFINE Good(c, crashed) ==
        /\ OwnerSound(c)
        /\ c.thisThread = capture.thread /\ c.isCrashedContext = crashed
        /\ c.allThreads = IF crashed THEN ThreadList ELSE <<>>
<1>3. ASSUME NEW crashed \in BOOLEAN, NEW c \in ContextsForThread(capture.thread, crashed),
             capture.how # "signal"
      PROVE  Good(c, crashed) /\ c.fault = Zero
  <2>1. /\ c.thisThread = capture.thread
        /\ c.isCurrentThread = (capture.thread = capture.handler)
        /\ c.isCrashedContext = crashed /\ c.isSignalContext = FALSE
        /\ c.state \in IF capture.thread = capture.handler THEN {Nobody} ELSE {capture.thread, Nobody}
        /\ c.exceptions \in IF capture.thread = capture.handler THEN {Nobody} ELSE {capture.thread, Nobody}
        /\ c.allThreads = IF crashed THEN ThreadList ELSE <<>>
        /\ c.fault = Zero
      BY <1>3 DEF ContextsForThread, Filled
  <2> QED BY <2>1, <1>1, <1>3 DEF OwnerSound
<1>4. ASSUME capture.how = "signal", context' \in ContextsForSignal
      PROVE  Good(context', TRUE) /\ context'.fault = Zero
  <2>1. /\ context'.thisThread = capture.handler /\ context'.isCurrentThread \in BOOLEAN
        /\ context'.isCrashedContext = TRUE /\ context'.isSignalContext = TRUE
        /\ context'.state = capture.thread /\ context'.exceptions = capture.thread
        /\ context'.allThreads = ThreadList /\ context'.fault = Zero
      BY <1>4 DEF ContextsForSignal
  <2>2. capture.handler = capture.thread
      BY <1>4, CaptureFacts
  <2> QED BY <2>1, <2>2, <1>1, <1>4 DEF OwnerSound
<1>5. ASSUME NEW c \in ContextsForThread(capture.thread, TRUE), capture.how = "mach",
             NEW d, d = WithFault(c)
      PROVE  /\ Good(d, TRUE)
             /\ d.fault # Zero =>
                  /\ d.fault[1] = capture.thread
                  /\ d.fault[2] \in IF capture.badAccess THEN {"far", "faultvaddr"} ELSE {"rip", "eip", "pc"}
  <2>1. Good(c, TRUE)
      BY <1>3, <1>5
  <2>2. /\ d.thisThread = c.thisThread /\ d.isCurrentThread = c.isCurrentThread
        /\ d.isCrashedContext = c.isCrashedContext /\ d.isSignalContext = c.isSignalContext
        /\ d.state = c.state /\ d.exceptions = c.exceptions /\ d.allThreads = c.allThreads
        /\ d.fault = IF capture.badAccess THEN ExceptionValue(c, CPU.faultAddress)
                     ELSE StateValue(c, CPU.instructionAddress)
    <3> DEFINE value == IF capture.badAccess THEN ExceptionValue(c, CPU.faultAddress)
                        ELSE StateValue(c, CPU.instructionAddress)
    <3>1. d = [c EXCEPT !.fault = value]
        BY <1>5 DEF WithFault
    <3> HIDE DEF value
    <3>2. /\ d.thisThread = c.thisThread /\ d.isCurrentThread = c.isCurrentThread
          /\ d.isCrashedContext = c.isCrashedContext /\ d.isSignalContext = c.isSignalContext
          /\ d.state = c.state /\ d.exceptions = c.exceptions /\ d.allThreads = c.allThreads
          /\ d.fault = value
        BY <3>1, <1>5 DEF ContextsForThread
    <3> QED BY <3>2 DEF value
  <2>3. Good(d, TRUE)
      BY <2>1, <2>2 DEF OwnerSound
  <2>4. ASSUME d.fault # Zero
        PROVE  /\ d.fault[1] = capture.thread
               /\ d.fault[2] \in IF capture.badAccess THEN {"far", "faultvaddr"} ELSE {"rip", "eip", "pc"}
    <3>1. c.state \in {capture.thread, Nobody} /\ c.exceptions \in {capture.thread, Nobody}
        BY <2>1 DEF OwnerSound
    <3>2. ASSUME capture.badAccess
          PROVE  d.fault = <<capture.thread, CPU.faultAddress>>
        BY <3>1, <3>2, <2>2, <2>4, ValueIsPair DEF ExceptionValue
    <3>3. ASSUME ~capture.badAccess
          PROVE  d.fault = <<capture.thread, CPU.instructionAddress>>
        BY <3>1, <3>3, <2>2, <2>4, ValueIsPair DEF StateValue
    <3>4. \A x, y : <<x, y>>[1] = x /\ <<x, y>>[2] = y
        OBVIOUS
    <3> QED BY <3>2, <3>3, <3>4, <1>2 DEF TableSound
  <2> QED BY <2>3, <2>4
<1>6. ASSUME Good(context', capture.how # "deadlock"), FaultTrue' PROVE ContextSound'
  <2>1. OwnerSound(context)'
      BY <1>0, <1>6 DEF OwnerSound, ThreadsOf
  <2> QED BY <2>1, <1>0, <1>6 DEF ContextSound, ThreadList
<1>7. CASE capture.how = "signal" /\ context' \in ContextsForSignal
  <2>1. FaultTrue'
      BY <1>4, <1>7 DEF FaultTrue, Zero
  <2> QED BY <2>1, <1>4, <1>6, <1>7
<1>8. CASE capture.how = "mach" /\ context' \in {WithFault(c) : c \in ContextsForThread(capture.thread, TRUE)}
  <2>1. PICK c \in ContextsForThread(capture.thread, TRUE) : context' = WithFault(c)
      BY <1>8
  <2>2. /\ Good(context', TRUE)
        /\ context'.fault # Zero =>
             /\ context'.fault[1] = capture.thread
             /\ context'.fault[2] \in IF capture.badAccess THEN {"far", "faultvaddr"} ELSE {"rip", "eip", "pc"}
      BY <2>1, <1>5, <1>8
  <2>3. FaultTrue'
      BY <2>2, <1>0 DEF FaultTrue, Zero
  <2> QED BY <2>2, <2>3, <1>6, <1>8
<1>9. CASE capture.how = "exception" /\ context' \in ContextsForThread(capture.thread, TRUE)
  <2>1. Good(context', TRUE) /\ context'.fault = Zero
      BY <1>3, <1>9
  <2>2. FaultTrue'
      BY <2>1 DEF FaultTrue, Zero
  <2> QED BY <2>1, <2>2, <1>6, <1>9
<1>10. CASE capture.how = "deadlock" /\ context' \in ContextsForThread(capture.thread, FALSE)
  <2>1. Good(context', FALSE) /\ context'.fault = Zero
      BY <1>3, <1>10
  <2>2. FaultTrue'
      BY <2>1 DEF FaultTrue, Zero
  <2> QED BY <2>1, <2>2, <1>6, <1>10
<1> QED BY <1>7, <1>8, <1>9, <1>10 DEF TakeContext

\* A list that only grows keeps its sound entries.
LEMMA EntryStays ==
    ASSUME UNCHANGED <<capture, context>>, NEW i, entries'[i] = entries[i], EntrySound(i)
    PROVE  EntrySound(i)'
<1>1. IndexOfThread(capture.thread)' = IndexOfThread(capture.thread)
    BY DEF IndexOfThread
<1>2. \A e : RegistersTrue(e)' <=> RegistersTrue(e)
    BY DEF RegistersTrue, TrueOf, Meaning, Zero
<1>3. \A e : BacktraceBelongs(e)' <=> BacktraceBelongs(e)
    BY DEF BacktraceBelongs, Shown, Zero
<1> QED BY <1>1, <1>2, <1>3 DEF EntrySound

LEMMA ContextStepInv == ContextInv /\ [ContextNext]_contextVars => ContextInv'
<1> SUFFICES ASSUME ContextInv, [ContextNext]_contextVars PROVE ContextInv'
    OBVIOUS
<1>0. /\ capture \in Captures /\ ListOf(entries, Len(entries)) /\ Len(entries) \in Nat
      /\ \A i \in 1..Len(entries) : EntrySound(i)
    BY DEF ContextInv
<1>1. CASE TakeContext
  <2>1. ContextSound'
      BY <1>0, <1>1, TakenSound
  <2>2. UNCHANGED <<capture, entries>> /\ Len(entries) = 0
      BY <1>1 DEF TakeContext, ContextInv
  <2>3. Len(entries)' = 0 /\ ListOf(entries, Len(entries))'
      BY <2>2, <1>0 DEF ListOf
  <2>4. 1..Len(entries)' = {}
      BY <2>3
  <2> QED BY <1>0, <2>1, <2>2, <2>3, <2>4 DEF ContextInv
<1>2. ASSUME UNCHANGED <<capture, context>>, context # NotTaken, NEW e,
             entries' = Append(entries, e),
             RegistersTrue(e), BacktraceBelongs(e), e.current_thread = (e.thread = capture.handler),
             e.crashed = (e.thread = capture.thread /\ capture.how # "deadlock"),
             capture.report = "standard" =>
                /\ Len(entries) + 1 <= Len(context.allThreads) /\ e.index = Len(entries)
                /\ e.thread = context.allThreads[Len(entries) + 1],
             capture.report = "minimal" =>
                Len(entries) = 0 /\ e.thread = capture.thread /\ e.index = IndexOfThread(capture.thread)
      PROVE  ContextInv'
  <2> DEFINE n == Len(entries)
  <2>1. /\ ListOf(entries', n + 1) /\ Len(entries') = n + 1 /\ entries'[n + 1] = e
        /\ \A i \in 1..n : entries'[i] = entries[i]
      BY <1>0, <1>2, AppendToList
  <2>2. ContextSound'
    <3>1. ContextSound
        BY <1>2 DEF ContextInv
    <3> QED BY <3>1, <1>2 DEF ContextSound, OwnerSound, FaultTrue, ThreadsOf, ThreadList, NotTaken
  <2>3. \A i \in 1..n : EntrySound(i)'
      BY <2>1, <1>0, <1>2, EntryStays
  <2>4. PICK k \in Nat : k = Len(entries)
      BY <1>0
  <2>8. EntrySound(k + 1)'
    <3>1. IndexOfThread(capture.thread)' = IndexOfThread(capture.thread)
        BY <1>2 DEF IndexOfThread
    <3>2. RegistersTrue(e)'
        BY <1>2 DEF RegistersTrue, TrueOf, Meaning, Zero
    <3>3. BacktraceBelongs(e)'
        BY <1>2 DEF BacktraceBelongs, Shown, Zero
    <3>5. k + 1 - 1 = k /\ (k = 0 => k + 1 = 1)
        OBVIOUS
    <3>6. EntrySound(k + 1)'
      <4>1. /\ (e.current_thread = (e.thread = capture.handler))'
            /\ (e.crashed = (e.thread = capture.thread /\ capture.how # "deadlock"))'
            /\ capture'.report = "standard" =>
                 k + 1 <= Len(context'.allThreads) /\ e.index = k + 1 - 1 /\ e.thread = context'.allThreads[k + 1]
            /\ capture'.report = "minimal" =>
                 k + 1 = 1 /\ e.thread = capture'.thread /\ e.index = IndexOfThread(capture.thread)'
          BY <1>2, <3>1, <2>4, <3>5
      <4>2. entries'[k + 1] = e
          BY <2>1, <2>4
      <4> QED BY <4>1, <4>2, <3>2, <3>3 DEF EntrySound
    <3> QED BY <3>6
  <2>5. \A i \in 1..(k + 1) : i \in 1..k \/ i = k + 1
      OBVIOUS
  <2>6. \A i \in 1..Len(entries)' : EntrySound(i)'
    <3> SUFFICES ASSUME NEW i \in 1..Len(entries') PROVE EntrySound(i)'
        OBVIOUS
    <3>1. i \in 1..k \/ i = k + 1
        BY <2>1, <2>4, <2>5
    <3> QED BY <3>1, <2>3, <2>4, <2>8
  <2>7. Len(entries)' \in Nat /\ ListOf(entries, Len(entries))'
      BY <2>1, <1>0 DEF ListOf
  <2> QED BY <1>0, <1>2, <2>2, <2>6, <2>7 DEF ContextInv
<1>3. CASE WriteThread
  <2> DEFINE n == Len(entries)
             thread == context.allThreads[n + 1]
  <2>1. /\ capture.report = "standard" /\ context # NotTaken /\ n < Len(context.allThreads)
        /\ UNCHANGED <<capture, context>>
      BY <1>3 DEF WriteThread
  <2>2. PICK c \in (IF thread = context.thisThread THEN {context} ELSE ContextsForThread(thread, FALSE)) :
            entries' = Append(entries, ThreadEntry(c, n))
      BY <1>3 DEF WriteThread
  <2>3. ContextSound
      BY <2>1 DEF ContextInv
  <2>4. capture.how # "deadlock" /\ context.allThreads = ThreadList
    <3>1. Len(<<>>) = 0
        OBVIOUS
    <3> QED BY <3>1, <2>1, <2>3, <1>0 DEF ContextSound
  <2>5. thread \in ThreadsOf(capture) /\ thread # Nobody
    <3>1. n + 1 \in 1..Len(ThreadList)
        BY <2>1, <2>4, <1>0, ThreadListIs
    <3>2. thread \in ThreadsOf(capture)
        BY <3>1, <2>4, <1>0, ThreadListIs
    <3> QED BY <3>2, <1>0, CaptureFacts
  <2>6. /\ OwnerSound(c) /\ c.thisThread = thread
        /\ c.isCrashedContext = (thread = capture.thread /\ capture.how # "deadlock")
    <3>1. CASE thread = context.thisThread
        BY <3>1, <2>2, <2>3, <2>4 DEF ContextSound
    <3>2. CASE thread # context.thisThread
      <4>1. /\ c.thisThread = thread /\ c.isCurrentThread = (thread = capture.handler)
            /\ c.isCrashedContext = FALSE /\ c.isSignalContext = FALSE
            /\ c.state \in IF thread = capture.handler THEN {Nobody} ELSE {thread, Nobody}
            /\ c.exceptions \in IF thread = capture.handler THEN {Nobody} ELSE {thread, Nobody}
          BY <2>2, <3>2 DEF ContextsForThread, Filled
      <4>2. thread # capture.thread
          BY <3>2, <2>3 DEF ContextSound
      <4> QED BY <4>1, <4>2, <2>5 DEF OwnerSound
    <3> QED BY <3>1, <3>2
  <2> DEFINE e == ThreadEntry(c, n)
  <2>7. /\ RegistersTrue(e) /\ BacktraceBelongs(e)
        /\ e.current_thread = (e.thread = capture.handler)
        /\ e.thread = c.thisThread /\ e.index = n /\ e.crashed = c.isCrashedContext
    <3>1. c.isCrashedContext \in BOOLEAN
        BY <2>6
    <3> HIDE DEF n
    <3>2. PICK x : x = ThreadEntry(c, n)
        OBVIOUS
    <3>3. /\ RegistersTrue(x) /\ BacktraceBelongs(x)
          /\ x.current_thread = (x.thread = capture.handler)
          /\ x.thread = c.thisThread /\ x.index = n /\ x.crashed = c.isCrashedContext
      <4>1. OwnerSound(c)
          BY <2>6
      <4>2. capture \in Captures
          BY <1>0
      <4> QED BY <3>1, <3>2, <4>1, <4>2, EntryTold
    <3> QED BY <3>2, <3>3
  <2>8. entries' = Append(entries, e)
      BY <2>2
  <2>9. n + 1 <= Len(context.allThreads)
    <3>1. Len(ThreadList) \in Nat
        BY <1>0, ThreadListIs
    <3> QED BY <3>1, <2>1, <2>4, <1>0
  <2> HIDE DEF e
  <2>10. capture.report # "minimal"
      BY <2>1
  <2> QED BY <1>2, <2>1, <2>6, <2>7, <2>8, <2>9, <2>10
<1>4. CASE WriteCrashedThread
  <2> DEFINE i == IndexOfThread(context.thisThread)
             e == ThreadEntry(context, i)
  <2>1. /\ capture.report = "minimal" /\ context # NotTaken /\ entries = <<>>
        /\ entries' = <<e>> /\ UNCHANGED <<capture, context>>
      BY <1>4 DEF WriteCrashedThread
  <2>2. ContextSound
      BY <2>1 DEF ContextInv
  <2>3. OwnerSound(context) /\ context.isCrashedContext \in BOOLEAN
      BY <2>2 DEF ContextSound
  <2>4. /\ RegistersTrue(e) /\ BacktraceBelongs(e)
        /\ e.current_thread = (e.thread = capture.handler)
        /\ e.thread = context.thisThread /\ e.index = i /\ e.crashed = context.isCrashedContext
    <3> HIDE DEF i
    <3> QED BY <2>3, <1>0, EntryTold
  <2> HIDE DEF e
  <2>5. entries' = Append(entries, e)
      BY <2>1
  <2>6. Len(entries) = 0 /\ capture.report # "standard"
      BY <2>1
  <2>7. context.thisThread = capture.thread /\ context.isCrashedContext = (capture.how # "deadlock")
      BY <2>2 DEF ContextSound
  <2> QED BY <1>2, <2>1, <2>4, <2>5, <2>6, <2>7
<1>5. CASE UNCHANGED contextVars
  <2>1. UNCHANGED <<capture, context, entries>>
      BY <1>5 DEF contextVars
  <2>2. \A i \in 1..Len(entries) : EntrySound(i)'
      BY <2>1, <1>0, EntryStays
  <2>3. ListOf(entries, Len(entries))'
      BY <2>1, <1>0 DEF ListOf
  <2>4. ContextSound => ContextSound'
      BY <2>1 DEF ContextSound, OwnerSound, FaultTrue, ThreadsOf, ThreadList, NotTaken
  <2> QED BY <2>1, <2>2, <2>3, <2>4 DEF ContextInv
<1> QED BY <1>1, <1>3, <1>4, <1>5 DEF ContextNext

LEMMA ContextInvTrue == ContextInv => EntriesTrue
<1> SUFFICES ASSUME ContextInv PROVE EntriesTrue
    OBVIOUS
<1>0. /\ capture \in Captures /\ ListOf(entries, Len(entries)) /\ Len(entries) \in Nat
      /\ \A i \in 1..Len(entries) : EntrySound(i)
    BY DEF ContextInv
<1>1. DOMAIN entries = 1..Len(entries)
    BY <1>0 DEF ListOf
<1>2. \A i \in DOMAIN entries : /\ RegistersTrue(entries[i]) /\ BacktraceBelongs(entries[i])
                                /\ entries[i].current_thread = (entries[i].thread = capture.handler)
    BY <1>0, <1>1 DEF EntrySound
<1>3. FaultTrue
  <2>1. CASE context = NotTaken
      BY <2>1 DEF FaultTrue
  <2>2. CASE context # NotTaken
      BY <2>2 DEF ContextInv, ContextSound
  <2> QED BY <2>1, <2>2
<1>4. \A i, j \in DOMAIN ThreadList : ThreadList[i] = ThreadList[j] => i = j
    BY <1>0, CaptureFacts, ThreadListIs
<1>5. ASSUME NEW i \in DOMAIN entries
      PROVE  /\ context # NotTaken /\ ContextSound /\ EntrySound(i)
             /\ capture.report \in {"standard", "minimal"}
    BY <1>0, <1>1, <1>5, CaptureFacts DEF ContextInv
<1>6. ASSUME NEW i \in DOMAIN entries, capture.report = "standard"
      PROVE  /\ capture.how # "deadlock" /\ context.allThreads = ThreadList
             /\ i \in DOMAIN ThreadList /\ entries[i].thread = ThreadList[i] /\ entries[i].index = i - 1
             /\ entries[i].crashed = (entries[i].thread = capture.thread)
  <2>1. /\ i <= Len(context.allThreads) /\ entries[i].index = i - 1
        /\ entries[i].thread = context.allThreads[i]
        /\ entries[i].crashed = (entries[i].thread = capture.thread /\ capture.how # "deadlock")
      BY <1>5, <1>6 DEF EntrySound
  <2>2. i \in 1..Len(entries)
      BY <1>1
  <2>3. capture.how # "deadlock"
    <3> SUFFICES ASSUME capture.how = "deadlock" PROVE FALSE
        OBVIOUS
    <3>1. context.allThreads = <<>>
        BY <1>5 DEF ContextSound
    <3>2. Len(context.allThreads) = 0
        BY <3>1
    <3> QED BY <3>2, <2>1, <2>2
  <2>4. context.allThreads = ThreadList
      BY <2>3, <1>5 DEF ContextSound
  <2>5. ThreadList \in Seq(ThreadsOf(capture))
      BY <1>0, ThreadListIs
  <2>6. i \in DOMAIN ThreadList
      BY <2>1, <2>2, <2>4, <2>5
  <2> QED BY <2>1, <2>3, <2>4, <2>6
<1>7. CrashShown
  <2> DEFINE crashed == {i \in DOMAIN entries : entries[i].crashed}
  <2>1. \A i \in crashed : entries[i].thread = capture.thread
      BY <1>5 DEF EntrySound
  <2>2. \A i, j \in crashed : i = j
    <3> SUFFICES ASSUME NEW i \in crashed, NEW j \in crashed PROVE i = j
        OBVIOUS
    <3>1. CASE capture.report = "standard"
      <4>1. ThreadList[i] = capture.thread /\ ThreadList[j] = capture.thread
          BY <3>1, <2>1, <1>6
      <4> QED BY <3>1, <4>1, <1>4, <1>6
    <3>2. CASE capture.report = "minimal"
      <4>1. i = 1 /\ j = 1
          BY <3>2, <1>5 DEF EntrySound
      <4> QED BY <4>1
    <3> QED BY <3>1, <3>2, <1>5
  <2>3. Cardinality(crashed) <= 1
    <3>1. CASE crashed = {}
        BY <3>1, FS_EmptySet
    <3>2. CASE crashed # {}
      <4>1. PICK i : i \in crashed
          BY <3>2
      <4>2. crashed = {i}
          BY <4>1, <2>2
      <4>3. Cardinality(crashed) = 1
          BY <4>2, FS_Singleton
      <4> QED BY <4>3
    <3> QED BY <3>1, <3>2
  <2>4. ASSUME context # NotTaken, Len(entries) >= Len(context.allThreads), capture.how # "deadlock",
               capture.report = "standard",
               capture.thread \in {ThreadList[i] : i \in DOMAIN ThreadList}
        PROVE  crashed # {}
    <3>1. PICK i \in DOMAIN ThreadList : ThreadList[i] = capture.thread
        BY <2>4
    <3>2. context.allThreads = ThreadList
        BY <2>4 DEF ContextInv, ContextSound
    <3>3. ThreadList \in Seq(ThreadsOf(capture))
        BY <1>0, ThreadListIs
    <3>4. i \in 1..Len(entries)
        BY <3>2, <3>3, <2>4, <1>0
    <3>5. entries[i].crashed
        BY <3>1, <3>4, <1>1, <1>6, <2>4
    <3> QED BY <3>4, <3>5, <1>1
  <2> HIDE DEF crashed
  <2>5. /\ \A i \in crashed : entries[i].thread = capture.thread
        /\ Cardinality(crashed) <= 1
        /\ (context # NotTaken /\ Len(entries) >= Len(context.allThreads)) /\ capture.how # "deadlock"
           /\ capture.report = "standard"
           /\ capture.thread \in {ThreadList[i] : i \in DOMAIN ThreadList} => crashed # {}
      BY <2>1, <2>3, <2>4
  <2> QED BY <2>5 DEF CrashShown, crashed
<1>8. IndexesTrue
  <2> SUFFICES ASSUME NEW i \in DOMAIN entries
               PROVE  /\ entries[i].index >= 0 => capture.listed[entries[i].index + 1] = entries[i].thread
                      /\ entries[i].index < 0 => capture.report = "minimal"
                      /\ capture.report = "standard" => entries[i].index = i - 1
      BY DEF IndexesTrue
  <2>0. i \in 1..Len(entries) /\ Len(entries) \in Nat
      BY <1>0, <1>1
  <2>1. CASE capture.report = "standard"
    <3>1. ThreadList[i] = capture.listed[i]
        BY <2>1, <1>0, <1>6, ThreadListIs
    <3>2. i - 1 + 1 = i /\ ~(i - 1 < 0)
        BY <2>0
    <3> QED BY <3>1, <3>2, <2>1, <1>6
  <2>2. CASE capture.report = "minimal"
    <3>1. entries[i].thread = capture.thread /\ entries[i].index = IndexOfThread(capture.thread)
        BY <2>2, <1>5 DEF EntrySound
    <3> DEFINE at == {k \in DOMAIN context.allThreads : context.allThreads[k] = capture.thread}
    <3>2. CASE at = {}
      <4>1. entries[i].index = -1
          BY <3>1, <3>2 DEF IndexOfThread
      <4>2. ~(-1 >= 0)
          OBVIOUS
      <4> QED BY <4>1, <4>2, <2>2
    <3>3. CASE at # {}
      <4>1. PICK k : k \in at
          BY <3>3
      <4>2. context.allThreads = ThreadList
        <5>1. DOMAIN <<>> = {}
            OBVIOUS
        <5>2. CASE capture.how = "deadlock"
            BY <5>1, <5>2, <4>1, <1>5 DEF ContextSound
        <5>3. CASE capture.how # "deadlock"
            BY <5>3, <1>5 DEF ContextSound
        <5> QED BY <5>2, <5>3
      <4>3. at = {k}
          BY <4>1, <4>2, <1>4
      <4>4. k \in DOMAIN capture.listed /\ capture.listed[k] = capture.thread
          BY <4>1, <4>2, <1>0, ThreadListIs
      <4>5. k \in Nat \ {0}
          BY <4>4, <1>0, CaptureFacts
      <4>6. (CHOOSE m \in at : \A j \in at : m <= j) = k
          BY <4>3, <4>5
      <4>7. entries[i].index = k - 1
          BY <3>1, <3>3, <4>6 DEF IndexOfThread
      <4>8. k - 1 + 1 = k
          BY <4>5
      <4> QED BY <4>4, <4>7, <4>8, <3>1, <2>2
    <3> QED BY <3>2, <3>3
  <2> QED BY <2>1, <2>2, <1>5
<1> QED BY <1>2, <1>3, <1>7, <1>8 DEF EntriesTrue

\* What a report says of the threads is true of them, whatever their registers, their
\* number and the order the kernel lists them in (writeAllThreads, writeThread).
THEOREM EntriesAlwaysTrue == ContextInit /\ [][ContextNext]_contextVars => []EntriesTrue
<1>1. ContextInit => ContextInv
    BY ContextInitInv
<1>2. ContextInv /\ [ContextNext]_contextVars => ContextInv'
    BY ContextStepInv
<1>3. ContextInv => EntriesTrue
    BY ContextInvTrue
<1> QED BY <1>1, <1>2, <1>3, PTL

-----------------------------------------------------------------------------
(* Induction *)

LEMMA LeastOfFinite ==
    ASSUME NEW F, F \subseteq Nat, IsFiniteSet(F), F # {}
    PROVE  \E x \in F : \A y \in F : ~(y < x)
<1> DEFINE below(x) == {y \in F : y < x}
           lower == {below(x) : x \in F}
<1>1. lower \subseteq FiniteSubsetsOf(F) /\ lower # {}
  <2>1. \A x \in F : below(x) \in SUBSET F
      OBVIOUS
  <2> HIDE DEF below
  <2>2. \A x \in F : below(x) \in FiniteSubsetsOf(F)
      BY <2>1, FS_Subset DEF FiniteSubsetsOf
  <2> QED BY <2>2
<1>2. PICK L \in lower : \A J \in lower : <<J, L>> \notin StrictSubsetOrdering(F)
  <2> HIDE DEF lower
  <2> QED BY <1>1, FS_StrictSubsetOrderingWellFounded, WFMin
<1>3. PICK x \in F : L = below(x)
    OBVIOUS
<1>4. \A y \in F : ~(y < x)
  <2> SUFFICES ASSUME NEW y \in F, y < x PROVE FALSE
      OBVIOUS
  <2>1. (\A z \in F : z < y => z < x) /\ ~(y < y)
      OBVIOUS
  <2>2. below(y) \subseteq below(x) /\ y \in below(x) /\ y \notin below(y)
      BY <2>1
  <2>3. below(y) \in SUBSET F /\ below(x) \in SUBSET F /\ below(y) \in lower
      OBVIOUS
  <2> HIDE DEF below, lower
  <2>4. <<below(y), below(x)>> \in StrictSubsetOrdering(F)
      BY <2>2, <2>3 DEF StrictSubsetOrdering
  <2> QED BY <1>2, <1>3, <2>3, <2>4
<1> QED BY <1>4

\* A set of numbers that has one has a least one, and, when it is bounded, a greatest.
LEMMA LeastNumber ==
    ASSUME NEW T, T \subseteq Nat, T # {}
    PROVE  \E x \in T : \A y \in T : x <= y
<1>1. PICK n : n \in T
    OBVIOUS
<1> DEFINE F == {y \in T : y <= n}
<1>2. F \subseteq 0..n /\ F \subseteq Nat /\ n \in F
  <2>1. \A y \in F : y \in Nat /\ y <= n
      OBVIOUS
  <2>2. n \in Nat /\ n <= n /\ n \in F
      BY <1>1
  <2> HIDE DEF F
  <2>3. \A y \in F : y \in 0..n
      BY <2>1, <2>2
  <2> QED BY <2>1, <2>2, <2>3
<1>3. IsFiniteSet(F)
  <2>1. 0 \in Int /\ n \in Int
      BY <1>1
  <2>2. IsFiniteSet(0..n)
      BY <2>1, FS_Interval
  <2> HIDE DEF F
  <2> QED BY <1>2, <2>2, FS_Subset
<1>4. PICK x \in F : \A y \in F : ~(y < x)
  <2> HIDE DEF F
  <2> QED BY <1>2, <1>3, LeastOfFinite
<1>5. \A y \in T : x <= y
    BY <1>1, <1>4
<1> QED BY <1>4, <1>5

LEMMA GreatestNumber ==
    ASSUME NEW T, NEW n \in Nat, T \subseteq 0..n, T # {}
    PROVE  \E x \in T : \A y \in T : y <= x
<1> DEFINE U == {n - y : y \in T}
<1>1. U \subseteq Nat /\ U # {}
  <2>1. \A y \in T : n - y \in Nat
    <3> SUFFICES ASSUME NEW y \in T PROVE n - y \in Nat
        OBVIOUS
    <3>1. y \in 0..n
        OBVIOUS
    <3> QED BY <3>1
  <2> QED BY <2>1
<1>2. PICK z \in U : \A y \in U : z <= y
  <2> HIDE DEF U
  <2> QED BY <1>1, LeastNumber
<1>3. PICK x \in T : z = n - x
    OBVIOUS
<1>4. \A y \in T : n - x <= n - y
    BY <1>2, <1>3
<1>5. \A y \in T : y <= x
    BY <1>4
<1> QED BY <1>5

\* What holds of 0, and of every successor of a number of which it holds, holds of all:
\* the numbers it holds of are the set S.
LEMMA Induction ==
    ASSUME NEW S, 0 \in S, \A n \in Nat : n \in S => n + 1 \in S
    PROVE  \A n \in Nat : n \in S
<1> SUFFICES ASSUME NEW n \in Nat, n \notin S PROVE FALSE
    OBVIOUS
<1> DEFINE T == Nat \ S
<1>1. PICK x \in T : \A y \in T : x <= y
  <2>1. T \subseteq Nat /\ T # {}
      OBVIOUS
  <2> HIDE DEF T
  <2> QED BY <2>1, LeastNumber
<1>2. x # 0 /\ x - 1 \in Nat /\ x - 1 + 1 = x /\ ~(x <= x - 1)
    BY <1>1
<1>3. x - 1 \in S
    BY <1>1, <1>2
<1> QED BY <1>1, <1>2, <1>3

-----------------------------------------------------------------------------
(* The frames of a stack *)

PreviousOf(f) == IF f \in DOMAIN walk.memory THEN walk.memory[f].previous ELSE NULL
IsFrames(g, n) == g = [i \in 0..n |-> IF i = 0 THEN walk.fp ELSE PreviousOf(g[i - 1])]

LEMMA FramesExist == ASSUME NEW n \in Nat PROVE \E g : IsFrames(g, n)
<1> DEFINE S == {k \in Nat : \E g : IsFrames(g, k)}
<1>1. 0 \in S
  <2> DEFINE g == [i \in 0..0 |-> walk.fp]
  <2>1. IsFrames(g, 0)
      BY DEF IsFrames
  <2> QED BY <2>1
<1>2. ASSUME NEW k \in Nat, k \in S PROVE k + 1 \in S
  <2>1. PICK g : IsFrames(g, k)
      BY <1>2
  <2> DEFINE h == [i \in 0..(k + 1) |-> IF i <= k THEN g[i] ELSE PreviousOf(g[k])]
  <2>2. ASSUME NEW i \in 0..(k + 1)
        PROVE  h[i] = IF i = 0 THEN walk.fp ELSE PreviousOf(h[i - 1])
    <3>1. CASE i = 0
        BY <3>1, <2>1 DEF IsFrames
    <3>2. CASE i \in 1..k
      <4>1. i \in 0..k /\ i - 1 \in 0..k /\ i - 1 \in 0..(k + 1) /\ i # 0
          BY <3>2
      <4>2. h[i] = g[i] /\ h[i - 1] = g[i - 1]
          BY <4>1
      <4>3. g[i] = PreviousOf(g[i - 1])
          BY <2>1, <4>1 DEF IsFrames
      <4> HIDE DEF h
      <4> QED BY <4>1, <4>2, <4>3
    <3>3. CASE i = k + 1
      <4>1. k \in 0..(k + 1) /\ i - 1 = k /\ i # 0 /\ ~(i <= k)
          BY <3>3
      <4>2. h[i] = PreviousOf(g[k]) /\ h[k] = g[k]
          BY <4>1
      <4> HIDE DEF h
      <4> QED BY <4>1, <4>2
    <3> QED BY <3>1, <3>2, <3>3
  <2>3. h = [i \in 0..(k + 1) |-> h[i]]
      OBVIOUS
  <2> HIDE DEF h
  <2>4. IsFrames(h, k + 1)
      BY <2>2, <2>3 DEF IsFrames
  <2> QED BY <2>4
<1> HIDE DEF S
<1>3. n \in S
    BY <1>1, <1>2, Induction
<1> QED BY <1>3 DEF S

LEMMA FrameAtIs == IsFrames(FrameAt, maxStackDepth)
<1>1. \E g : IsFrames(g, maxStackDepth)
    BY FramesExist, WalkAssumption
<1>2. FrameAt = CHOOSE g : IsFrames(g, maxStackDepth)
    BY DEF FrameAt, IsFrames, PreviousOf
<1> QED BY <1>1, <1>2, Zenon

LEMMA FrameAtStep ==
    /\ FrameAt[0] = walk.fp
    /\ \A n \in Nat : n < maxStackDepth => FrameAt[n + 1] = PreviousOf(FrameAt[n])
<1>0. maxStackDepth \in Nat \ {0}
    BY WalkAssumption
<1>1. FrameAt = [i \in 0..maxStackDepth |-> IF i = 0 THEN walk.fp ELSE PreviousOf(FrameAt[i - 1])]
    BY FrameAtIs DEF IsFrames
<1> DEFINE f == FrameAt
<1>2. f = [i \in 0..maxStackDepth |-> IF i = 0 THEN walk.fp ELSE PreviousOf(f[i - 1])]
    BY <1>1
<1> HIDE DEF f
<1>3. f[0] = walk.fp
    BY <1>0, <1>2
<1>4. ASSUME NEW n \in Nat, n < maxStackDepth PROVE f[n + 1] = PreviousOf(f[n])
  <2>1. n + 1 \in 0..maxStackDepth /\ n + 1 # 0 /\ n + 1 - 1 = n
      BY <1>0, <1>4
  <2>2. PICK m \in 0..maxStackDepth : m = n + 1
      BY <2>1
  <2>3. f[m] = IF m = 0 THEN walk.fp ELSE PreviousOf(f[m - 1])
      BY <1>2
  <2>4. m # 0 /\ m - 1 = n
      BY <2>1, <2>2
  <2> QED BY <2>2, <2>3, <2>4
<1> QED BY <1>3, <1>4 DEF f

-----------------------------------------------------------------------------
(* The stack *)

RegisterCount == IF walk.lr = 0 THEN 1 ELSE 2
\* The j-th call of the stack, innermost first.
CallAt(j) ==
    IF j = 1 THEN walk.pc
    ELSE IF j <= RegisterCount THEN walk.lr
    ELSE walk.memory[FrameAt[j - RegisterCount - 1]].return_address

\* A stack has the calls of its registers and of its frames, up to the first that is
\* ruined, and no more than the limit.
StackHas(n, sound) ==
    /\ n \in Nat /\ sound \in 0..maxStackDepth
    /\ n = IF RegisterCount + sound < maxStackDepth THEN RegisterCount + sound ELSE maxStackDepth
    /\ \A k \in 0..(sound - 1) : Sound(k)
    /\ sound < maxStackDepth => ~Sound(sound)
    /\ Len(Stack) = n /\ \A j \in 1..n : Stack[j] = CallAt(j)

LEMMA ReturnsAre ==
    \E sound \in 0..maxStackDepth :
        /\ Returns = [n \in 1..sound |-> walk.memory[FrameAt[n - 1]].return_address]
        /\ \A k \in 0..(sound - 1) : Sound(k)
        /\ sound < maxStackDepth => ~Sound(sound)
<1> DEFINE ruined == {n \in 0..maxStackDepth : ~Sound(n)}
           least == CHOOSE n \in ruined : \A m \in ruined : n <= m
           sound == IF ruined = {} THEN maxStackDepth ELSE least
<1>0. maxStackDepth \in Nat
    BY WalkAssumption
<1>1. Returns = [n \in 1..sound |-> walk.memory[FrameAt[n - 1]].return_address]
    BY DEF Returns
<1>2. sound \in 0..maxStackDepth /\ \A k \in 0..(sound - 1) : k \notin ruined
  <2>1. CASE ruined = {}
      BY <2>1, <1>0
  <2>2. CASE ruined # {}
    <3>1. ruined \subseteq Nat
        BY <1>0
    <3> HIDE DEF ruined
    <3>2. \E n \in ruined : \A m \in ruined : n <= m
        BY <3>1, <2>2, LeastNumber
    <3>3. least \in ruined /\ \A m \in ruined : least <= m
        BY <3>2
    <3> HIDE DEF least
    <3>4. sound = least
        BY <2>2
    <3>5. least \in 0..maxStackDepth
        BY <3>3 DEF ruined
    <3>6. \A k \in 0..(least - 1) : ~(least <= k)
        BY <3>5, <1>0
    <3> QED BY <3>3, <3>4, <3>5, <3>6
  <2> QED BY <2>1, <2>2
<1>3. sound < maxStackDepth => sound \in ruined
  <2>1. CASE ruined = {}
      BY <2>1, <1>0
  <2>2. CASE ruined # {}
    <3>1. ruined \subseteq Nat
        BY <1>0
    <3> HIDE DEF ruined
    <3>2. \E n \in ruined : \A m \in ruined : n <= m
        BY <3>1, <2>2, LeastNumber
    <3> QED BY <3>2, <2>2
  <2> QED BY <2>1, <2>2
<1> HIDE DEF sound
<1>4. \A k \in 0..(sound - 1) : k \in 0..maxStackDepth
    BY <1>0, <1>2
<1> QED BY <1>1, <1>2, <1>3, <1>4

LEMMA TwoInARow == ASSUME NEW a, NEW b PROVE <<a>> \o <<b>> = <<a, b>>
<1> DEFINE s == <<a>>
           t == <<b>>
<1>1. ListOf(s, 1) /\ ListOf(t, 1) /\ 1 \in Nat /\ 2 \in Nat /\ 2 = 1 + 1
    BY DEF ListOf
<1>2. s[1] = a /\ t[1] = b
    OBVIOUS
<1> HIDE DEF s, t
<1>3. IsJoin(Join(s, t), s, t, 1, 2)
    BY <1>1, Joined
<1>4. Join(s, t) = <<a, b>>
    BY <1>2, <1>3 DEF IsJoin
<1> QED BY <1>4 DEF s, t, Join

LEMMA RegisterAddressesAre ==
    walk.pc # 0 => /\ Len(RegisterAddresses) = RegisterCount
                   /\ ListOf(RegisterAddresses, RegisterCount)
                   /\ RegisterAddresses[1] = walk.pc
                   /\ RegisterCount = 2 => RegisterAddresses[2] = walk.lr
<1> SUFFICES ASSUME walk.pc # 0
             PROVE  /\ Len(RegisterAddresses) = RegisterCount
                    /\ ListOf(RegisterAddresses, RegisterCount)
                    /\ RegisterAddresses[1] = walk.pc
                    /\ RegisterCount = 2 => RegisterAddresses[2] = walk.lr
    OBVIOUS
<1>1. CASE walk.lr = 0
  <2>1. RegisterAddresses = <<walk.pc>> \o << >>
      BY <1>1 DEF RegisterAddresses
  <2>2. RegisterAddresses = <<walk.pc>>
      BY <2>1
  <2> QED BY <2>2, <1>1 DEF RegisterCount, ListOf
<1>2. CASE walk.lr # 0
  <2>1. RegisterAddresses = <<walk.pc>> \o <<walk.lr>>
      BY <1>2 DEF RegisterAddresses
  <2>2. RegisterAddresses = <<walk.pc, walk.lr>>
      BY <2>1, TwoInARow
  <2> QED BY <2>2, <1>2 DEF RegisterCount, ListOf
<1> QED BY <1>1, <1>2

LEMMA StackIs == walk.pc # 0 => \E n, sound \in Nat : StackHas(n, sound)
<1> SUFFICES ASSUME walk.pc # 0 PROVE \E n, sound \in Nat : StackHas(n, sound)
    OBVIOUS
<1>0. maxStackDepth \in Nat \ {0}
    BY WalkAssumption
<1>1. PICK sound \in 0..maxStackDepth :
        /\ Returns = [n \in 1..sound |-> walk.memory[FrameAt[n - 1]].return_address]
        /\ \A k \in 0..(sound - 1) : Sound(k)
        /\ sound < maxStackDepth => ~Sound(sound)
    BY ReturnsAre
<1> DEFINE r == RegisterCount
           all == RegisterAddresses \o Returns
           n == IF r + sound < maxStackDepth THEN r + sound ELSE maxStackDepth
<1>2. r \in {1, 2}
    BY DEF RegisterCount
<1>3. ListOf(Returns, sound) /\ sound \in Nat
    BY <1>0, <1>1 DEF ListOf
<1>4. ListOf(RegisterAddresses, r)
    BY RegisterAddressesAre
<1>5. Len(all) = r + sound /\ \A j \in 1..(r + sound) : all[j] = CallAt(j)
  <2> DEFINE S == {RegisterAddresses[i] : i \in 1..r} \cup {Returns[i] : i \in 1..sound}
             x == RegisterAddresses
             y == Returns
  <2>1. x \in Seq(S) /\ Len(x) = r
    <3>1. \A i \in 1..r : x[i] \in S
        OBVIOUS
    <3>2. ListOf(x, r)
        BY <1>4
    <3> HIDE DEF S, x
    <3>3. x \in [1..r -> S]
        BY <3>1, <3>2 DEF ListOf
    <3> HIDE DEF r
    <3> QED BY <3>3, <1>2
  <2>2. y \in Seq(S) /\ Len(y) = sound
    <3>1. \A i \in 1..sound : y[i] \in S
        OBVIOUS
    <3>2. ListOf(y, sound)
        BY <1>3
    <3> HIDE DEF S, y
    <3>3. y \in [1..sound -> S]
        BY <3>1, <3>2 DEF ListOf
    <3> QED BY <3>3, <1>3
  <2>3. all = x \o y
      OBVIOUS
  <2>4. x[1] = walk.pc /\ (r = 2 => x[2] = walk.lr)
      BY RegisterAddressesAre
  <2>5. \A i \in 1..sound : y[i] = walk.memory[FrameAt[i - 1]].return_address
      BY <1>1
  <2> HIDE DEF S, x, y, all, r
  <2>6. Len(all) = r + sound /\ \A j \in 1..(r + sound) : all[j] = IF j <= r THEN x[j] ELSE y[j - r]
      BY <2>1, <2>2, <2>3, <1>2, <1>3
  <2>7. ASSUME NEW j \in 1..(r + sound) PROVE all[j] = CallAt(j)
    <3>1. CASE j <= r
      <4>1. j = 1 \/ (j = 2 /\ r = 2)
          BY <3>1, <1>2
      <4> QED BY <4>1, <3>1, <2>4, <2>6 DEF CallAt, r
    <3>2. CASE ~(j <= r)
      <4>1. j # 1 /\ j - r \in 1..sound
          BY <3>2, <1>2, <1>3
      <4>2. all[j] = walk.memory[FrameAt[j - r - 1]].return_address
          BY <4>1, <3>2, <2>5, <2>6
      <4> QED BY <4>1, <4>2, <3>2 DEF CallAt, r
    <3> QED BY <3>1, <3>2
  <2> QED BY <2>6, <2>7
<1>6. n \in Nat /\ n <= r + sound /\ n >= 0
    BY <1>0, <1>2, <1>3
<1>7. Stack = SubSeq(all, 1, n)
  <2>1. Stack = SubSeq(all, 1, IF Len(all) < maxStackDepth THEN Len(all) ELSE maxStackDepth)
      BY DEF Stack
  <2> QED BY <2>1, <1>5
<1>8. Len(Stack) = n /\ \A j \in 1..n : Stack[j] = all[j]
  <2> DEFINE S == {all[i] : i \in 1..(r + sound)}
  <2>1. all \in Seq(S)
    <3>1. ListOf(all, r + sound)
      <4> DEFINE T == {RegisterAddresses[i] : i \in 1..r} \cup {Returns[i] : i \in 1..sound}
                 x == RegisterAddresses
                 y == Returns
      <4>1. x \in Seq(T) /\ y \in Seq(T)
        <5>1. (\A i \in 1..r : x[i] \in T) /\ \A i \in 1..sound : y[i] \in T
            OBVIOUS
        <5>2. ListOf(x, r) /\ ListOf(y, sound)
            BY <1>3, <1>4
        <5> HIDE DEF T, x, y
        <5>3. x \in [1..r -> T] /\ y \in [1..sound -> T]
            BY <5>1, <5>2 DEF ListOf
        <5> HIDE DEF r
        <5> QED BY <5>3, <1>2, <1>3
      <4> HIDE DEF T
      <4>2. all \in Seq(T)
          BY <4>1
      <4> HIDE DEF all
      <4>3. all = [i \in 1..Len(all) |-> all[i]]
          BY <4>2
      <4> QED BY <4>3, <1>5 DEF ListOf
    <3>2. \A i \in 1..(r + sound) : all[i] \in S
        OBVIOUS
    <3> HIDE DEF S, all
    <3>3. all \in [1..(r + sound) -> S]
        BY <3>1, <3>2 DEF ListOf
    <3> HIDE DEF r
    <3> QED BY <3>3, <1>2, <1>3
  <2> HIDE DEF S, all, n, r
  <2>2. Len(SubSeq(all, 1, n)) = n
      BY <2>1, <1>5, <1>6
  <2>3. \A j \in 1..n : SubSeq(all, 1, n)[j] = all[j]
      BY <2>1, <1>5, <1>6
  <2> QED BY <2>2, <2>3, <1>7
<1>9. \A j \in 1..n : j \in 1..(r + sound)
  <2> HIDE DEF n, r
  <2> QED BY <1>2, <1>3, <1>6
<1>10. \A j \in 1..n : Stack[j] = CallAt(j)
  <2> HIDE DEF n, r, all
  <2> QED BY <1>5, <1>8, <1>9
<1>11. n = IF RegisterCount + sound < maxStackDepth THEN RegisterCount + sound ELSE maxStackDepth
    OBVIOUS
<1> HIDE DEF n
<1>12. StackHas(n, sound)
    BY <1>1, <1>6, <1>8, <1>10, <1>11 DEF StackHas
<1> QED BY <1>3, <1>6, <1>12

\* Where the cursor of a context is: as many calls are written as registers and frames
\* are behind it, each the one of the stack; the frames it passed are sound, and the
\* one it stops at is not.
CursorInv ==
    LET n == Len(trace) IN
    /\ currentDepth = n /\ n <= maxStackDepth
    /\ walk.pc = 0 => seen = {}
    /\ \/ seen = {} /\ n = 0
       \/ seen = {"pc"} /\ n = 1
       \/ seen = {"pc", "lr"} /\ n = 2 /\ walk.lr # 0
       \/ /\ {"pc", "fp"} \subseteq seen /\ n >= RegisterCount
          /\ ~ended => n > RegisterCount /\ frame.previous = FrameAt[n - RegisterCount]
    /\ \A j \in 1..n : trace[j].address = CallAt(j) % AddressSpan
    /\ \A k \in Nat : RegisterCount + k < n => Sound(k)
    /\ ended => IF hasGivenUp THEN n = maxStackDepth
                ELSE /\ n < maxStackDepth
                     /\ walk.pc # 0 => n >= RegisterCount /\ ~Sound(n - RegisterCount)
    /\ hasGivenUp => ended

WalkInv ==
    /\ walk \in Walks
    /\ Len(trace) \in Nat /\ ListOf(trace, Len(trace))
    /\ currentDepth \in Nat /\ {hasGivenUp, ended} \subseteq BOOLEAN
    /\ \A j \in 1..Len(trace) : \E a \in Nat : trace[j] = Entry(a)
    /\ IF walk.kind = "context" THEN CursorInv ELSE hasGivenUp = FALSE

LEMMA WalkStays ==
    walk' = walk => /\ FrameAt' = FrameAt /\ RegisterCount' = RegisterCount
                    /\ \A j : CallAt(j)' = CallAt(j) /\ (Sound(j)' <=> Sound(j))
<1> SUFFICES ASSUME walk' = walk
             PROVE  /\ FrameAt' = FrameAt /\ RegisterCount' = RegisterCount
                    /\ \A j : CallAt(j)' = CallAt(j) /\ (Sound(j)' <=> Sound(j))
    OBVIOUS
<1>1. FrameAt' = FrameAt
    BY DEF FrameAt
<1>2. RegisterCount' = RegisterCount
    BY DEF RegisterCount
<1>3. \A j : CallAt(j)' = CallAt(j)
    BY <1>1, <1>2 DEF CallAt
<1>4. \A j : Sound(j)' <=> Sound(j)
    BY <1>1 DEF Sound
<1> QED BY <1>1, <1>2, <1>3, <1>4

LEMMA NormalisedIs == \A a \in Nat : Normalised(a) \in Nat /\ Normalised(a) = (a % AddressSpan)
BY WalkAssumption DEF Normalised

\* What a turn that writes an entry does to the trace.
LEMMA WritesEntry ==
    ASSUME NEW a \in Nat, Writes(a), NEW n \in Nat, n = Len(trace), ListOf(trace, n),
           \A j \in 1..n : \E b \in Nat : trace[j] = Entry(b)
    PROVE  /\ Len(trace') = n + 1 /\ ListOf(trace', n + 1)
           /\ \A j \in 1..n : trace'[j] = trace[j]
           /\ trace'[n + 1].address = (a % AddressSpan)
           /\ \A j \in 1..(n + 1) : \E b \in Nat : trace'[j] = Entry(b)
<1> DEFINE e == Entry(Normalised(a))
<1>1. trace' = Append(trace, e)
    BY DEF Writes
<1>2. e.address = (a % AddressSpan) /\ \E b \in Nat : e = Entry(b)
    BY NormalisedIs DEF Entry
<1> HIDE DEF e
<1>3. /\ ListOf(trace', n + 1) /\ Len(trace') = n + 1 /\ trace'[n + 1] = e
      /\ \A j \in 1..n : trace'[j] = trace[j]
    BY <1>1, AppendToList
<1>4. \A j \in 1..(n + 1) : j \in 1..n \/ j = n + 1
    OBVIOUS
<1>5. \A j \in 1..(n + 1) : \E b \in Nat : trace'[j] = Entry(b)
    BY <1>2, <1>3, <1>4
<1> QED BY <1>2, <1>3, <1>5


LEMMA WalkInitInv == WalkInit => WalkInv
<1> SUFFICES ASSUME WalkInit PROVE WalkInv
    OBVIOUS
<1>1. /\ walk \in Walks /\ currentDepth = 0 /\ hasGivenUp = FALSE /\ seen = {} /\ trace = << >> /\ ended = FALSE
    BY DEF WalkInit, WalkStart
<1>2. Len(trace) = 0 /\ ListOf(trace, Len(trace))
    BY <1>1 DEF ListOf
<1>3. RegisterCount \in {1, 2}
    BY DEF RegisterCount
<1>4. CursorInv
  <2>1. 0 <= maxStackDepth
      BY WalkAssumption
  <2>2. \A k \in Nat : ~(RegisterCount + k < 0)
      BY <1>3
  <2> QED BY <1>1, <1>2, <2>1, <2>2 DEF CursorInv
<1>5. \A j \in 1..Len(trace) : FALSE
    BY <1>2
<1>6. {hasGivenUp, ended} \subseteq BOOLEAN /\ currentDepth \in Nat /\ Len(trace) \in Nat
    BY <1>1, <1>2
<1> QED BY <1>1, <1>2, <1>4, <1>5, <1>6 DEF WalkInv

\* A cursor that stops without having given up has come to a ruined frame, or to nothing.
LEMMA StopsInv ==
    ASSUME WalkInv, walk.kind = "context", walk' = walk, Stops, ~ended, hasGivenUp' = FALSE, ~AtLimit,
           \/ walk.pc = 0 /\ seen' = seen /\ frame' = frame
           \/ /\ seen' = seen \cup {"fp"} /\ "pc" \in seen
              /\ Len(trace) >= RegisterCount /\ ~Sound(Len(trace) - RegisterCount)
    PROVE  CursorInv'
<1>0. PICK n \in Nat : n = Len(trace)
    BY DEF WalkInv
<1>1. CursorInv
    BY DEF WalkInv
<1>2. /\ trace' = trace /\ currentDepth' = currentDepth /\ ended' = TRUE
    BY DEF Stops
<1>3. n < maxStackDepth /\ n <= maxStackDepth
    BY <1>0, <1>1, WalkAssumption DEF AtLimit, CursorInv
<1>4. Len(trace') = n
    BY <1>0, <1>2
<1>5. \A j \in 1..n : trace'[j].address = CallAt(j)' % AddressSpan
    BY <1>0, <1>1, <1>2, WalkStays DEF CursorInv
<1>6. \A k \in Nat : RegisterCount' + k < n => Sound(k)'
    BY <1>0, <1>1, WalkStays DEF CursorInv
<1>7. CASE walk.pc = 0 /\ seen' = seen /\ frame' = frame
  <2>1. seen = {} /\ n = 0
      BY <1>0, <1>1, <1>7 DEF CursorInv
  <2> QED BY <1>0, <1>1, <1>2, <1>3, <1>4, <1>5, <1>6, <1>7, <2>1 DEF CursorInv
<1>8. CASE /\ seen' = seen \cup {"fp"} /\ "pc" \in seen
           /\ Len(trace) >= RegisterCount /\ ~Sound(Len(trace) - RegisterCount)
  <2>1. walk'.pc # 0
      BY <1>1, <1>8 DEF CursorInv
  <2>2. n >= RegisterCount' /\ ~Sound(n - RegisterCount)'
      BY <1>0, <1>8, WalkStays
  <2>3. Len(trace') >= RegisterCount' /\ ~Sound(Len(trace) - RegisterCount)'
      BY <1>8, <1>2, WalkStays
  <2>4. {"pc", "fp"} \subseteq seen'
      BY <1>8
  <2>5. currentDepth' = Len(trace') /\ Len(trace') <= maxStackDepth /\ Len(trace') < maxStackDepth
      BY <1>0, <1>1, <1>2, <1>3, <1>4 DEF CursorInv
  <2>6. /\ \A j \in 1..Len(trace') : trace'[j].address = CallAt(j)' % AddressSpan
        /\ \A k \in Nat : RegisterCount' + k < Len(trace') => Sound(k)'
      BY <1>4, <1>5, <1>6
  <2> QED BY <1>2, <2>1, <2>3, <2>4, <2>5, <2>6 DEF CursorInv
<1> QED BY <1>7, <1>8

\* A cursor that writes one more call.
LEMMA WritesInv ==
    ASSUME WalkInv, walk.kind = "context", walk' = walk, walk.pc # 0,
           NEW n \in Nat, n = Len(trace),
           NEW a \in Nat, Writes(a), a = CallAt(n + 1), ~ended, ~AtLimit,
           \/ n = 0 /\ seen' = {"pc"}
           \/ n = 1 /\ seen' = {"pc", "lr"} /\ walk.lr # 0
           \/ /\ {"pc", "fp"} \subseteq seen' /\ n >= RegisterCount
              /\ Sound(n - RegisterCount)
              /\ frame'.previous = FrameAt[n + 1 - RegisterCount]
    PROVE  CursorInv'
<1>1. CursorInv /\ ListOf(trace, n) /\ \A j \in 1..n : \E b \in Nat : trace[j] = Entry(b)
    BY DEF WalkInv
<1>2. RegisterCount \in {1, 2}
    BY DEF RegisterCount
<1>3. currentDepth' = currentDepth + 1 /\ hasGivenUp' = hasGivenUp /\ ended' = ended
    BY DEF Writes
<1>4. /\ Len(trace') = n + 1
      /\ \A j \in 1..n : trace'[j] = trace[j]
      /\ trace'[n + 1].address = (a % AddressSpan)
    BY <1>1, WritesEntry
<1>5. currentDepth = n /\ n + 1 <= maxStackDepth
    BY <1>1, WalkAssumption DEF CursorInv, AtLimit
<1>6. \A j \in 1..(n + 1) : trace'[j].address = CallAt(j)' % AddressSpan
  <2>1. \A j \in 1..(n + 1) : j \in 1..n \/ j = n + 1
      OBVIOUS
  <2>2. \A j \in 1..n : trace'[j].address = CallAt(j)' % AddressSpan
      BY <1>1, <1>4, WalkStays DEF CursorInv
  <2>3. PICK m \in Nat : m = n + 1
      OBVIOUS
  <2>4. trace'[m].address = CallAt(m)' % AddressSpan
      BY <1>4, <2>3, WalkStays
  <2> QED BY <2>1, <2>2, <2>3, <2>4
<1>7. \A k \in Nat : RegisterCount' + k < n + 1 => Sound(k)'
  <2> SUFFICES ASSUME NEW k \in Nat, RegisterCount' + k < n + 1 PROVE Sound(k)'
      OBVIOUS
  <2>1. RegisterCount + k < n + 1
      BY WalkStays
  <2>2. CASE RegisterCount + k < n
      BY <2>2, <1>1, WalkStays DEF CursorInv
  <2>3. CASE RegisterCount + k = n
    <3>1. n - RegisterCount = k /\ ~(n = 0)
        BY <2>3, <1>2
    <3>2. CASE n >= RegisterCount /\ Sound(n - RegisterCount)
        BY <3>1, <3>2, WalkStays
    <3>3. CASE n = 1 /\ walk.lr # 0
        BY <2>3, <3>3 DEF RegisterCount
    <3> QED BY <3>1, <3>2, <3>3
  <2> QED BY <2>1, <2>2, <2>3, <1>2
<1>8. hasGivenUp' => ended'
    BY <1>1, <1>3 DEF CursorInv
<1>9. \/ seen' = {"pc"} /\ Len(trace') = 1
      \/ seen' = {"pc", "lr"} /\ Len(trace') = 2 /\ walk'.lr # 0
      \/ /\ {"pc", "fp"} \subseteq seen' /\ Len(trace') >= RegisterCount'
         /\ ~ended' => Len(trace') > RegisterCount' /\ frame'.previous = FrameAt'[Len(trace') - RegisterCount']
  <2>1. CASE n = 0 /\ seen' = {"pc"}
      BY <2>1, <1>4
  <2>2. CASE n = 1 /\ seen' = {"pc", "lr"} /\ walk.lr # 0
      BY <2>2, <1>4
  <2>3. CASE /\ {"pc", "fp"} \subseteq seen' /\ n >= RegisterCount
             /\ frame'.previous = FrameAt[n + 1 - RegisterCount]
    <3>1. n + 1 >= RegisterCount /\ n + 1 > RegisterCount
        BY <2>3, <1>2
    <3>2. RegisterCount' = RegisterCount /\ FrameAt' = FrameAt /\ Len(trace') = n + 1
        BY <1>4, WalkStays
    <3>3. Len(trace') >= RegisterCount' /\ Len(trace') > RegisterCount'
        BY <3>1, <3>2
    <3>4. Len(trace') - RegisterCount' = n + 1 - RegisterCount
      <4>1. PICK r \in {1, 2} : r = RegisterCount
          BY DEF RegisterCount
      <4>2. (n + 1) - r = n + (1 - r)
          BY <4>1
      <4> QED BY <3>2, <4>1, <4>2
    <3>5. frame'.previous = FrameAt'[Len(trace') - RegisterCount']
        BY <2>3, <3>2, <3>4
    <3> QED BY <2>3, <3>3, <3>5
  <2> QED BY <2>1, <2>2, <2>3
<1>10. currentDepth' = Len(trace') /\ Len(trace') <= maxStackDepth
    BY <1>3, <1>4, <1>5
<1>11. /\ \A j \in 1..Len(trace') : trace'[j].address = CallAt(j)' % AddressSpan
       /\ \A k \in Nat : RegisterCount' + k < Len(trace') => Sound(k)'
    BY <1>4, <1>6, <1>7
<1>12. ~ended' /\ ~hasGivenUp' /\ walk'.pc # 0
    BY <1>3, <1>8
<1> QED BY <1>9, <1>10, <1>11, <1>12 DEF CursorInv

\* Every turn of the loop.
LEMMA WalkStepInv == WalkInv /\ [Advance]_walkVars => WalkInv'
<1> SUFFICES ASSUME WalkInv, [Advance]_walkVars PROVE WalkInv'
    OBVIOUS
<1>0. /\ walk \in Walks /\ Len(trace) \in Nat /\ ListOf(trace, Len(trace))
      /\ currentDepth \in Nat /\ {hasGivenUp, ended} \subseteq BOOLEAN
      /\ \A j \in 1..Len(trace) : \E a \in Nat : trace[j] = Entry(a)
    BY DEF WalkInv
<1>1. PICK n \in Nat : n = Len(trace)
    BY <1>0
<1>2. /\ walk.pc \in Nat /\ walk.lr \in Nat /\ walk.skipped \in Nat /\ walk.addresses \in Seq(Nat)
      /\ \A f \in DOMAIN walk.memory : walk.memory[f].return_address \in Nat
    BY <1>0, WalkAssumption
<1>3. RegisterCount \in {1, 2} /\ maxStackDepth \in Nat \ {0}
    BY WalkAssumption DEF RegisterCount
\* the entries, whoever writes them
<1>4. ASSUME NEW a \in Nat, Writes(a), walk' = walk, ~ended,
             IF walk.kind = "context" THEN CursorInv' ELSE hasGivenUp' = FALSE
      PROVE  WalkInv'
  <2>1. /\ Len(trace') = n + 1 /\ ListOf(trace', n + 1)
        /\ \A j \in 1..(n + 1) : \E b \in Nat : trace'[j] = Entry(b)
      BY <1>0, <1>1, <1>4, WritesEntry
  <2>2. currentDepth' \in Nat /\ {hasGivenUp', ended'} \subseteq BOOLEAN
      BY <1>0, <1>4 DEF Writes
  <2>3. Len(trace') \in Nat /\ ListOf(trace', Len(trace'))
        /\ \A j \in 1..Len(trace') : \E b \in Nat : trace'[j] = Entry(b)
      BY <2>1
  <2> QED BY <1>0, <1>4, <2>2, <2>3 DEF WalkInv, Entry
<1>5. ASSUME Stops, walk' = walk, hasGivenUp' \in BOOLEAN,
             IF walk.kind = "context" THEN CursorInv' ELSE hasGivenUp' = FALSE
      PROVE  WalkInv'
  <2>1. trace' = trace /\ currentDepth' = currentDepth /\ ended' = TRUE
      BY <1>5 DEF Stops
  <2>2. Len(trace') \in Nat /\ ListOf(trace', Len(trace'))
      BY <2>1, <1>0
  <2> QED BY <1>0, <1>5, <2>1, <2>2 DEF WalkInv, Entry
<1>6. CASE Advance
  <2>0. ~ended /\ walk' = walk
      BY <1>6 DEF Advance
  <2>1. CASE walk.kind = "context"
    <3>0. CursorInv
        BY <2>1 DEF WalkInv
    <3>00. hasGivenUp = FALSE /\ currentDepth = n
        BY <3>0, <2>0, <1>0, <1>1 DEF CursorInv
    <3>1. CASE GivesUp
      <4>1. /\ trace' = trace /\ currentDepth' = currentDepth /\ ended' = TRUE /\ hasGivenUp' = TRUE
            /\ frame' = frame /\ seen' = seen /\ n = maxStackDepth
          BY <3>0, <3>1, <3>00, <1>1, <1>3 DEF GivesUp, Stops, AtLimit, CursorInv
      <4>2. Len(trace') = n
          BY <4>1, <1>1
      <4>3. /\ \A j \in 1..Len(trace') : trace'[j].address = CallAt(j)' % AddressSpan
            /\ \A k \in Nat : RegisterCount' + k < Len(trace') => Sound(k)'
          BY <3>0, <4>1, <2>0, WalkStays DEF CursorInv
      <4>4. \/ seen' = {} /\ Len(trace') = 0
            \/ seen' = {"pc"} /\ Len(trace') = 1
            \/ seen' = {"pc", "lr"} /\ Len(trace') = 2 /\ walk'.lr # 0
            \/ /\ {"pc", "fp"} \subseteq seen' /\ Len(trace') >= RegisterCount'
          BY <3>0, <4>1, <2>0, WalkStays DEF CursorInv
      <4>5. /\ currentDepth' = Len(trace') /\ Len(trace') <= maxStackDepth /\ Len(trace') = maxStackDepth
            /\ walk'.pc = 0 => seen' = {}
          BY <3>0, <3>00, <4>1, <4>2, <2>0, <1>3 DEF CursorInv
      <4>6. CursorInv'
          BY <4>1, <4>3, <4>4, <4>5 DEF CursorInv
      <4> QED BY <3>1, <4>1, <4>6, <1>5, <2>0, <2>1 DEF GivesUp
    <3>2. CASE InstructionAddress
      <4>0. ~AtLimit /\ "pc" \notin seen /\ frame' = frame
          BY <3>2 DEF InstructionAddress
      <4>1. n = 0
          BY <4>0, <3>0, <1>1 DEF CursorInv
      <4>2. CASE walk.pc = 0
        <5>1. Stops /\ hasGivenUp' = hasGivenUp /\ seen' = seen
            BY <3>2, <4>2 DEF InstructionAddress
        <5>2. CursorInv'
            BY <5>1, <4>0, <4>2, <2>0, <2>1, <3>00, StopsInv
        <5> QED BY <5>1, <5>2, <1>5, <2>0, <2>1, <3>00
      <4>3. CASE walk.pc # 0
        <5>1. Writes(walk.pc) /\ seen' = {"pc"}
            BY <3>2, <4>3 DEF InstructionAddress
        <5>2. walk.pc = CallAt(n + 1)
            BY <4>1 DEF CallAt
        <5>3. CursorInv'
            BY <5>1, <5>2, <4>0, <4>1, <4>3, <2>0, <2>1, <1>1, <1>2, WritesInv
        <5> QED BY <5>1, <5>3, <1>2, <1>4, <2>0, <2>1
      <4> QED BY <4>2, <4>3
    <3>3. CASE LinkRegister
      <4>0. ~AtLimit /\ seen = {"pc"} /\ walk.lr # 0 /\ Writes(walk.lr) /\ seen' = {"pc", "lr"}
          BY <3>3 DEF LinkRegister
      <4>1. n = 1 /\ walk.pc # 0
          BY <4>0, <3>0, <1>1 DEF CursorInv
      <4>2. walk.lr = CallAt(n + 1)
          BY <4>0, <4>1 DEF CallAt, RegisterCount
      <4>3. CursorInv'
          BY <4>0, <4>1, <4>2, <2>0, <2>1, <1>1, <1>2, WritesInv
      <4> QED BY <4>0, <4>3, <1>2, <1>4, <2>0, <2>1
    <3>4. CASE NextFrame
      <4> DEFINE previous == PreviousOfFP
      <4>0. /\ ~AtLimit /\ seen # {} /\ (seen = {"pc"} => walk.lr = 0)
            /\ \/ /\ previous \notin DOMAIN walk.memory
                  /\ Stops
                  /\ UNCHANGED <<frame, hasGivenUp>>
               \/ /\ previous \in DOMAIN walk.memory
                  /\ frame' = walk.memory[previous]
                  /\ IF frame'.previous = NULL \/ frame'.return_address = 0
                     THEN Stops /\ UNCHANGED hasGivenUp
                     ELSE Writes(frame'.return_address)
            /\ seen' = seen \cup {"fp"}
          BY <3>4 DEF NextFrame
      <4>1. n >= RegisterCount /\ "pc" \in seen /\ n < maxStackDepth /\ walk.pc # 0
        <5>1. n < maxStackDepth
            BY <4>0, <3>00, <1>3 DEF AtLimit
        <5> QED BY <5>1, <4>0, <3>0, <1>1 DEF CursorInv, RegisterCount
      <4>2. PICK k \in Nat : k = n - RegisterCount
          BY <4>1, <1>3
      <4>3. previous = FrameAt[k]
        <5>1. CASE "fp" \in seen
            BY <5>1, <4>2, <3>0, <2>0, <1>1 DEF CursorInv, PreviousOfFP
        <5>2. CASE "fp" \notin seen
          <6>1. n = RegisterCount
              BY <5>2, <4>0, <3>0, <1>1 DEF CursorInv, RegisterCount
          <6>2. k = 0
              BY <6>1, <4>2, <1>3
          <6> QED BY <6>2, <5>2, FrameAtStep DEF PreviousOfFP
        <5> QED BY <5>1, <5>2
      <4> HIDE DEF previous
      <4>4. ASSUME Stops, hasGivenUp' = hasGivenUp, ~Sound(k)
            PROVE  WalkInv'
        <5>1. ~Sound(Len(trace) - RegisterCount) /\ Len(trace) >= RegisterCount
            BY <4>1, <4>2, <4>4, <1>1
        <5>2. CursorInv'
            BY <5>1, <4>0, <4>1, <4>4, <2>0, <2>1, <3>00, StopsInv
        <5> QED BY <5>2, <4>4, <1>5, <2>0, <2>1, <3>00
      <4>5. CASE previous \notin DOMAIN walk.memory
        <5>1. ~Sound(k)
            BY <4>3, <4>5 DEF Sound
        <5> QED BY <5>1, <4>0, <4>4, <4>5
      <4>6. CASE previous \in DOMAIN walk.memory /\ (frame'.previous = NULL \/ frame'.return_address = 0)
        <5>1. ~Sound(k)
            BY <4>0, <4>3, <4>6 DEF Sound, NULL
        <5> QED BY <5>1, <4>0, <4>4, <4>6
      <4>7. CASE previous \in DOMAIN walk.memory /\ ~(frame'.previous = NULL \/ frame'.return_address = 0)
        <5>1. frame' = walk.memory[FrameAt[k]] /\ Writes(frame'.return_address)
            BY <4>0, <4>3, <4>7
        <5>2. Sound(k)
            BY <5>1, <4>3, <4>7 DEF Sound, NULL
        <5>3. frame'.return_address \in Nat
            BY <5>1, <4>3, <4>7, <1>2
        <5>4. frame'.return_address = CallAt(n + 1)
          <6>1. n + 1 # 1 /\ ~(n + 1 <= RegisterCount) /\ n + 1 - RegisterCount - 1 = k
              BY <4>1, <4>2, <1>3
          <6>2. PICK m \in Nat : m = n + 1
              OBVIOUS
          <6>3. CallAt(m) = walk.memory[FrameAt[m - RegisterCount - 1]].return_address
              BY <6>1, <6>2 DEF CallAt
          <6>4. m - RegisterCount - 1 = k
            <7>1. PICK r \in {1, 2} : r = RegisterCount
                BY DEF RegisterCount
            <7>2. m = n + 1 /\ n + 1 - r - 1 = k
                BY <6>1, <6>2, <7>1
            <7>3. m - r - 1 = k
                BY <7>1, <7>2
            <7> QED BY <7>1, <7>3
          <6> QED BY <6>2, <6>3, <6>4, <5>1
        <5>5. frame'.previous = FrameAt[n + 1 - RegisterCount]
          <6>1. k < maxStackDepth /\ n + 1 - RegisterCount = k + 1
              BY <4>1, <4>2, <1>3
          <6>2. FrameAt[k + 1] = PreviousOf(FrameAt[k])
              BY <6>1, FrameAtStep
          <6>3. PreviousOf(FrameAt[k]) = frame'.previous
              BY <5>1, <4>3, <4>7 DEF PreviousOf
          <6> QED BY <6>1, <6>2, <6>3
        <5>6. {"pc", "fp"} \subseteq seen' /\ n >= RegisterCount /\ Sound(n - RegisterCount)
            BY <4>0, <4>1, <4>2, <5>2
        <5>7. PICK a \in Nat : a = frame'.return_address
            BY <5>3
        <5>8. Writes(a) /\ a = CallAt(n + 1)
            BY <5>1, <5>4, <5>7
        <5>9. CursorInv'
            BY <5>5, <5>6, <5>8, <4>0, <4>1, <2>0, <2>1, <1>1, WritesInv
        <5> QED BY <5>8, <5>9, <1>4, <2>0, <2>1
      <4> QED BY <4>5, <4>6, <4>7
    <3> QED BY <3>1, <3>2, <3>3, <3>4, <2>1, <1>6 DEF Advance
  <2>2. CASE walk.kind = "backtrace"
    <3>0. hasGivenUp = FALSE /\ NextAddress
        BY <2>2, <1>6 DEF WalkInv, Advance
    <3> DEFINE index == currentDepth + walk.skipped + 1
    <3>1. CASE index \in DOMAIN walk.addresses /\ walk.addresses[index] > 1
      <4>1. Writes(walk.addresses[index])
          BY <3>0, <3>1 DEF NextAddress
      <4>2. walk.addresses[index] \in Nat
          BY <3>1, <1>2
      <4>3. hasGivenUp' = FALSE
          BY <3>0, <4>1 DEF Writes
      <4> QED BY <4>1, <4>2, <4>3, <1>4, <2>0, <2>2
    <3>2. CASE ~(index \in DOMAIN walk.addresses /\ walk.addresses[index] > 1)
      <4>1. Stops /\ hasGivenUp' = FALSE
          BY <3>0, <3>2 DEF NextAddress
      <4> QED BY <4>1, <1>5, <2>0, <2>2
    <3> QED BY <3>1, <3>2
  <2>3. CASE walk.kind = "unset"
    <3>1. Stops /\ hasGivenUp' = FALSE
        BY <2>3, <1>6 DEF WalkInv, Advance
    <3> QED BY <3>1, <1>5, <2>0, <2>3
  <2> QED BY <2>1, <2>2, <2>3, <1>6 DEF Advance
<1>7. CASE UNCHANGED walkVars
  <2>1. UNCHANGED <<walk, currentDepth, hasGivenUp, frame, seen, trace, ended>>
      BY <1>7 DEF walkVars
  <2>2. CursorInv => CursorInv'
    <3> SUFFICES ASSUME CursorInv PROVE CursorInv'
        OBVIOUS
    <3>1. /\ \A j \in 1..Len(trace') : trace'[j].address = CallAt(j)' % AddressSpan
          /\ \A k \in Nat : RegisterCount' + k < Len(trace') => Sound(k)'
        BY <2>1, WalkStays DEF CursorInv
    <3>2. /\ \/ seen' = {} /\ Len(trace') = 0
             \/ seen' = {"pc"} /\ Len(trace') = 1
             \/ seen' = {"pc", "lr"} /\ Len(trace') = 2 /\ walk'.lr # 0
             \/ /\ {"pc", "fp"} \subseteq seen' /\ Len(trace') >= RegisterCount'
                /\ ~ended' => Len(trace') > RegisterCount' /\ frame'.previous = FrameAt'[Len(trace') - RegisterCount']
        BY <2>1, WalkStays DEF CursorInv
    <3>3. ended' => IF hasGivenUp' THEN Len(trace') = maxStackDepth
                    ELSE /\ Len(trace') < maxStackDepth
                         /\ walk'.pc # 0 => Len(trace') >= RegisterCount' /\ ~Sound(Len(trace) - RegisterCount)'
        BY <2>1, WalkStays DEF CursorInv
    <3>4. /\ currentDepth' = Len(trace') /\ Len(trace') <= maxStackDepth
          /\ walk'.pc = 0 => seen' = {}
          /\ hasGivenUp' => ended'
        BY <2>1 DEF CursorInv
    <3> QED BY <3>1, <3>2, <3>3, <3>4 DEF CursorInv
  <2>3. Len(trace') \in Nat /\ ListOf(trace', Len(trace'))
      BY <2>1, <1>0
  <2> QED BY <2>1, <2>2, <2>3, <1>0 DEF WalkInv, Entry
<1> QED BY <1>6, <1>7

-----------------------------------------------------------------------------
(* The functions that made the calls *)

\* Of the symbols at or below an address there is a nearest one.
LEMMA NearestIs ==
    ASSUME NEW i \in DOMAIN Images, NEW address \in Int, Candidates(Images[i], address) # {}
    PROVE  LET k == Nearest(Images[i], address)
               symbols == Images[i].symbols
           IN  /\ k \in DOMAIN symbols /\ symbols[k].value \in 1..address
               /\ \A j \in DOMAIN symbols : symbols[j].value \in 1..address => symbols[j].value <= symbols[k].value
<1> DEFINE symbols == Images[i].symbols
           C == Candidates(Images[i], address)
           V == {symbols[k].value : k \in C}
<1>1. symbols \in Seq({symbols[k] : k \in DOMAIN symbols})
    BY WalkAssumption
<1>2. DOMAIN symbols \subseteq Nat /\ \E n \in Nat : DOMAIN symbols \subseteq 0..n
  <2> DEFINE S == {symbols[k] : k \in DOMAIN symbols}
  <2>1. symbols \in Seq(S)
      BY <1>1
  <2> HIDE DEF S, symbols
  <2>2. DOMAIN symbols = 1..Len(symbols) /\ Len(symbols) \in Nat
      BY <2>1
  <2> QED BY <2>2
<1>3. C = {k \in DOMAIN symbols : symbols[k].value \in 1..address}
    BY DEF Candidates
<1> HIDE DEF C, symbols
<1>4. PICK v \in V : \A w \in V : w <= v
  <2>1. V \subseteq 0..address /\ V # {} /\ address \in Nat
    <3>1. \A w \in V : w \in 1..address
        BY <1>3
    <3>2. V # {}
        BY DEF C
    <3> HIDE DEF V
    <3> QED BY <3>1, <3>2
  <2> HIDE DEF V
  <2> QED BY <2>1, GreatestNumber
<1> DEFINE L == {k \in C : symbols[k].value = v}
<1>5. PICK m \in L : \A k \in L : k <= m
  <2>1. PICK n \in Nat : DOMAIN symbols \subseteq 0..n
      BY <1>2
  <2>2. L # {} /\ L \subseteq 0..n
      BY <1>3, <1>4, <2>1
  <2> HIDE DEF L
  <2> QED BY <2>2, GreatestNumber
<1>6. \A j \in C : \/ symbols[j].value < symbols[m].value
                   \/ symbols[j].value = symbols[m].value /\ j <= m
  <2> SUFFICES ASSUME NEW j \in C
               PROVE  \/ symbols[j].value < symbols[m].value
                      \/ symbols[j].value = symbols[m].value /\ j <= m
      OBVIOUS
  <2>1. symbols[m].value = v /\ symbols[j].value <= v
      BY <1>4, <1>5
  <2>2. symbols[j].value \in Int /\ v \in Int
      BY <1>3, <1>4
  <2>3. symbols[j].value < v \/ symbols[j].value = v
      BY <2>1, <2>2
  <2> QED BY <2>1, <2>3, <1>5
<1>7. m \in C
    BY <1>5
<1> DEFINE Near(k) == \A j \in C : \/ symbols[j].value < symbols[k].value
                                   \/ symbols[j].value = symbols[k].value /\ j <= k
<1>8. Nearest(Images[i], address) = CHOOSE k \in C : Near(k)
    BY DEF Nearest, C, symbols
<1>9. Near(m)
    BY <1>6
<1> HIDE DEF Near
<1>10. PICK k \in C : k = Nearest(Images[i], address) /\ Near(k)
    BY <1>7, <1>8, <1>9
<1>11. k \in DOMAIN symbols /\ symbols[k].value \in 1..address
    BY <1>3, <1>10
<1>12. \A j \in DOMAIN symbols : symbols[j].value \in 1..address => symbols[j].value <= symbols[k].value
    BY <1>3, <1>10, <1>11 DEF Near
<1> QED BY <1>10, <1>11, <1>12 DEF symbols

\* The symbols of an image are found by its name, which is its own.
LEMMA SymbolsOfImage ==
    ASSUME NEW i \in DOMAIN Images
    PROVE  SymbolsOf(Images[i].name) = {Images[i].symbols[k].value : k \in DOMAIN Images[i].symbols}
<1>1. {j \in DOMAIN Images : Images[j].name = Images[i].name} = {i}
    BY WalkAssumption
<1>2. {Images[j] : j \in {i}} = {Images[i]}
    OBVIOUS
<1> QED BY <1>1, <1>2 DEF SymbolsOf

LEMMA NoImageIsNone == SymbolsOf("none") = {}
<1>1. {j \in DOMAIN Images : Images[j].name = "none"} = {}
    BY WalkAssumption
<1> QED BY <1>1 DEF SymbolsOf

\* The first of the images that cover an address is one of them.
LEMMA FirstCovering ==
    ASSUME NEW address, IndexesCovering(address) # {}
    PROVE  (CHOOSE i \in IndexesCovering(address) : \A j \in IndexesCovering(address) : i <= j) \in DOMAIN Images
<1>1. IndexesCovering(address) \subseteq DOMAIN Images
    BY DEF IndexesCovering
<1>2. DOMAIN Images \subseteq Nat
  <2> DEFINE S == {Images[i] : i \in DOMAIN Images}
  <2>1. Images \in Seq(S)
      BY WalkAssumption
  <2> HIDE DEF S
  <2> QED BY <2>1
<1> DEFINE I == IndexesCovering(address)
<1> HIDE DEF I
<1>3. I \subseteq Nat /\ I # {}
    BY <1>1, <1>2 DEF I
<1>4. \E i \in I : \A j \in I : i <= j
    BY <1>3, LeastNumber
<1>5. (CHOOSE i \in I : \A j \in I : i <= j) \in I
    BY <1>4
<1> QED BY <1>1, <1>5 DEF I

LEMMA CallIsInt == ASSUME NEW a \in Nat PROVE CallInstruction(a) \in Int
<1>1. InstructionSize \in Nat \ {0}
    BY WalkAssumption
<1> DEFINE q == a \div InstructionSize
<1>2. q \in Nat
    BY <1>1
<1> HIDE DEF q
<1>3. q * InstructionSize \in Nat
    BY <1>1, <1>2, Z3
<1>4. CallInstruction(a) = (q * InstructionSize) - 1
    BY DEF CallInstruction, Detagged, q
<1> QED BY <1>3, <1>4

LEMMA EntryNamed ==
    ASSUME NEW a \in Nat, NEW e, e = Entry(a)
    PROVE  LET before == {v \in SymbolsOf(e.symbol.image) : v \in 1..(Detagged(e.address) - 1)}
           IN  IF before = {} THEN e.symbol.at = 0
               ELSE e.symbol.at \in before /\ \A v \in before : v <= e.symbol.at
<1> DEFINE b == CallInstruction(a)
           s == Dladdr(b)
           i == CHOOSE i \in IndexesCovering(b) : \A j \in IndexesCovering(b) : i <= j
           before == {v \in SymbolsOf(s.image) : v \in 1..b}
<1>1. e.address = a /\ e.symbol = s
    BY DEF Entry
<1>2. b \in Int
    BY CallIsInt
<1>6. b = Detagged(a) - 1
    BY DEF CallInstruction
<1> HIDE DEF b
<1>3. ASSUME IndexesCovering(b) = {} \/ ~Images[i].based
      PROVE  IF before = {} THEN s.at = 0
             ELSE s.at \in before /\ \A v \in before : v <= s.at
  <2>1. s = NoSymbol
      BY <1>3 DEF Dladdr
  <2>2. s.image = "none" /\ s.at = 0
      BY <2>1 DEF NoSymbol
  <2>3. before = {}
      BY <2>2, NoImageIsNone
  <2> HIDE DEF s, before
  <2> QED BY <2>2, <2>3
<1>4. ASSUME IndexesCovering(b) # {}, Images[i].based
      PROVE  IF before = {} THEN s.at = 0
             ELSE s.at \in before /\ \A v \in before : v <= s.at
  <2>1. i \in DOMAIN Images
      BY <1>4, FirstCovering
  <2> DEFINE image == Images[i]
  <2>2. SymbolsOf(image.name) = {image.symbols[k].value : k \in DOMAIN image.symbols}
      BY <2>1, SymbolsOfImage
  <2>3. CASE Candidates(image, b) = {}
    <3>1. s = [NoSymbol EXCEPT !.image = image.name]
        BY <1>4, <2>3 DEF Dladdr
    <3>2. s.image = image.name /\ s.at = 0
        BY <3>1 DEF NoSymbol
    <3> HIDE DEF i, s
    <3>3. before = {}
        BY <2>2, <2>3, <3>2 DEF Candidates
    <3> QED BY <3>2, <3>3
  <2>4. CASE Candidates(image, b) # {}
    <3> DEFINE k == Nearest(image, b)
               symbol == image.symbols[k]
    <3>1. s = [image |-> image.name, at |-> symbol.value,
               function |-> IF symbol.stripped THEN "none" ELSE symbol.name]
        BY <1>4, <2>4 DEF Dladdr
    <3>2. s.image = image.name /\ s.at = symbol.value
      <4> HIDE DEF i, image, symbol, s, k
      <4> QED BY <3>1
    <3>3. /\ k \in DOMAIN image.symbols /\ image.symbols[k].value \in 1..b
          /\ \A j \in DOMAIN image.symbols :
                image.symbols[j].value \in 1..b => image.symbols[j].value <= image.symbols[k].value
      <4> HIDE DEF i
      <4> QED BY <2>1, <2>4, <1>2, NearestIs
    <3> HIDE DEF i, s, k, b
    <3>4. s.at \in before /\ \A v \in before : v <= s.at
        BY <2>2, <3>2, <3>3
    <3> QED BY <3>4
  <2> QED BY <2>3, <2>4
<1>5. IF before = {} THEN s.at = 0 ELSE s.at \in before /\ \A v \in before : v <= s.at
  <2> HIDE DEF before, s, i
  <2> QED BY <1>3, <1>4
<1>7. {v \in SymbolsOf(e.symbol.image) : v \in 1..(Detagged(e.address) - 1)} = before
    BY <1>1, <1>6
<1> HIDE DEF s, before
<1> QED BY <1>1, <1>5, <1>7

LEMMA StackOfNothing == walk.pc = 0 => Stack = << >>
<1> SUFFICES ASSUME walk.pc = 0 PROVE Stack = << >>
    OBVIOUS
<1>1. Stack = SubSeq(<< >>, 1, IF Len(<< >>) < maxStackDepth THEN Len(<< >>) ELSE maxStackDepth)
    BY DEF Stack
<1>2. (IF Len(<< >>) < maxStackDepth THEN Len(<< >>) ELSE maxStackDepth) = 0
    BY WalkAssumption
<1>3. Stack = SubSeq(<< >>, 1, 0)
    BY <1>1, <1>2
<1> QED BY <1>3

\* The entries of a context's trace are those of its stack: none beyond it, and all of it
\* once the cursor has stopped.
LEMMA TraceOfStack == WalkInv => TraceIsStack
<1> SUFFICES ASSUME WalkInv, walk.kind = "context"
             PROVE  /\ Len(trace) <= Len(Stack)
                    /\ \A k \in DOMAIN trace : trace[k].address = (Stack[k] % AddressSpan)
                    /\ ended => Len(trace) = Len(Stack)
    BY DEF TraceIsStack
<1>1. PICK m \in Nat : m = Len(trace)
    BY DEF WalkInv
<1>2. CursorInv /\ ListOf(trace, m) /\ {hasGivenUp, ended} \subseteq BOOLEAN
    BY <1>1 DEF WalkInv
<1>3. DOMAIN trace = 1..m
    BY <1>2 DEF ListOf
<1>4. m <= maxStackDepth /\ maxStackDepth \in Nat
    BY <1>1, <1>2, WalkAssumption DEF CursorInv
<1>5. CASE walk.pc = 0
  <2>1. seen = {}
      BY <1>2, <1>5 DEF CursorInv
  <2>2. m = 0
      BY <1>1, <1>2, <2>1 DEF CursorInv
  <2>3. Len(Stack) = 0
      BY <1>5, StackOfNothing
  <2> QED BY <1>1, <1>3, <2>2, <2>3
<1>6. CASE walk.pc # 0
  <2>1. \E n, sound \in Nat : StackHas(n, sound)
      BY <1>6, StackIs
  <2>2. PICK n \in Nat : \E sound \in Nat : StackHas(n, sound)
      BY <2>1
  <2>3. PICK sound \in Nat : StackHas(n, sound)
      BY <2>2
  <2>4. PICK r \in {1, 2} : r = RegisterCount
      BY DEF RegisterCount
  <2>5. /\ n = IF r + sound < maxStackDepth THEN r + sound ELSE maxStackDepth
        /\ sound \in 0..maxStackDepth
        /\ sound < maxStackDepth => ~Sound(sound)
        /\ \A k \in 0..(sound - 1) : Sound(k)
      BY <2>3, <2>4 DEF StackHas
  <2>6. Len(Stack) = n /\ \A j \in 1..n : Stack[j] = CallAt(j)
      BY <2>3 DEF StackHas
  <2>7. \A k \in Nat : r + k < m => Sound(k)
      BY <1>1, <1>2, <2>4 DEF CursorInv
  <2>8. m <= n
    <3>1. SUFFICES ASSUME n < m PROVE FALSE
        BY <1>1
    <3>2. r + sound < m /\ sound < maxStackDepth
        BY <1>4, <2>4, <2>5, <3>1
    <3>3. Sound(sound) /\ ~Sound(sound)
        BY <2>5, <2>7, <3>2
    <3> QED BY <3>3
  <2>9. \A k \in 1..m : trace[k].address = (Stack[k] % AddressSpan)
    <3>1. \A k \in 1..m : trace[k].address = (CallAt(k) % AddressSpan)
        BY <1>1, <1>2 DEF CursorInv
    <3>2. \A k \in 1..m : k \in 1..n
        BY <2>8
    <3> QED BY <2>6, <3>1, <3>2
  <2>10. ASSUME ended PROVE m = n
    <3>1. CASE hasGivenUp
      <4>1. m = maxStackDepth
          BY <1>1, <1>2, <2>10, <3>1 DEF CursorInv
      <4> QED BY <1>4, <2>4, <2>5, <2>8, <4>1
    <3>2. CASE ~hasGivenUp
      <4>1. m < maxStackDepth /\ Len(trace) >= RegisterCount /\ ~Sound(Len(trace) - RegisterCount)
          BY <1>1, <1>2, <1>6, <2>10, <3>2 DEF CursorInv
      <4>2. m >= r /\ ~Sound(m - r)
          BY <4>1, <1>1, <2>4
      <4>3. ~(m - r \in 0..(sound - 1))
          BY <2>5, <4>2
      <4>4. m >= r + sound
          BY <2>4, <2>5, <4>2, <4>3
      <4> QED BY <1>4, <2>4, <2>5, <2>8, <4>1, <4>4
    <3> QED BY <3>1, <3>2
  <2> QED BY <1>1, <1>3, <2>6, <2>8, <2>9, <2>10
<1> QED BY <1>5, <1>6

LEMMA OverflowOfWalk == WalkInv => OverflowIsDeep
<1> SUFFICES ASSUME WalkInv, ended
             PROVE  hasGivenUp = (walk.kind = "context" /\ Len(trace) = maxStackDepth)
    BY DEF OverflowIsDeep
<1>1. hasGivenUp \in BOOLEAN
    BY DEF WalkInv
<1>2. CASE walk.kind # "context"
  <2>1. hasGivenUp = FALSE
      BY <1>2 DEF WalkInv
  <2> QED BY <1>2, <2>1
<1>3. CASE walk.kind = "context"
  <2>1. CursorInv /\ Len(trace) \in Nat
      BY <1>3 DEF WalkInv
  <2>2. PICK m \in Nat : m = Len(trace)
      BY <2>1
  <2>3. hasGivenUp => m = maxStackDepth
      BY <2>1, <2>2 DEF CursorInv
  <2>4. ~hasGivenUp => m < maxStackDepth
      BY <2>1, <2>2 DEF CursorInv
  <2>5. m < maxStackDepth => m # maxStackDepth
      BY WalkAssumption
  <2>6. hasGivenUp <=> m = maxStackDepth
      BY <2>3, <2>4, <2>5
  <2> QED BY <1>1, <1>3, <2>2, <2>6
<1> QED BY <1>2, <1>3

LEMMA CallersOfWalk == WalkInv => CallersNamed
<1> SUFFICES ASSUME WalkInv, NEW k \in DOMAIN trace
             PROVE  LET e == trace[k]
                        before == {v \in SymbolsOf(e.symbol.image) : v \in 1..(Detagged(e.address) - 1)}
                    IN  IF before = {} THEN e.symbol.at = 0
                        ELSE e.symbol.at \in before /\ \A v \in before : v <= e.symbol.at
    BY DEF CallersNamed
<1>1. DOMAIN trace = 1..Len(trace)
    BY DEF WalkInv, ListOf
<1>2. PICK a \in Nat : trace[k] = Entry(a)
    BY <1>1 DEF WalkInv
<1> QED BY <1>2, EntryNamed

LEMMA WalkIsStack == WalkInv => BacktraceIsStack
BY TraceOfStack, OverflowOfWalk, CallersOfWalk DEF BacktraceIsStack

\* A cursor that walks the registers and the frames of any stack, ruined or not, writes
\* the calls of that stack in order and leaves no call out, names each one after the function
\* that made it, and takes a stack for an overflow only when it is one.
THEOREM BacktraceAlwaysStack == WalkSpec => []BacktraceIsStack
<1>1. WalkInit => WalkInv
    BY WalkInitInv
<1>2. WalkInv /\ [Advance]_walkVars => WalkInv'
    BY WalkStepInv
<1>3. WalkInv => BacktraceIsStack
    BY WalkIsStack
<1> QED BY <1>1, <1>2, <1>3, PTL DEF WalkSpec

\* What a report says of each of its threads is true while the context is taken, the threads
\* are listed and their stacks are walked.
THEOREM ThreadsAlwaysTold ==
    ContextInit /\ [][ContextNext]_contextVars /\ WalkSpec => []ThreadsTold
<1>1. ContextInit /\ [][ContextNext]_contextVars => []EntriesTrue
    BY EntriesAlwaysTrue
<1>2. WalkSpec => []BacktraceIsStack
    BY BacktraceAlwaysStack
<1>3. EntriesTrue /\ BacktraceIsStack => ThreadsTold
    BY DEF ThreadsTold
<1> QED BY <1>1, <1>2, <1>3, PTL

-----------------------------------------------------------------------------
(* What a text says, and in how many bytes *)

\* The bytes of the first characters, one character after the other.
IsSum(g, n, s) == g = [i \in 0..n |-> IF i = 0 THEN 0 ELSE g[i - 1] + s[i]]

LEMMA SumExists == ASSUME NEW n \in Nat, NEW s PROVE \E g : IsSum(g, n, s)
<1> DEFINE S == {k \in Nat : \E g : IsSum(g, k, s)}
<1>1. 0 \in S
  <2> DEFINE g == [i \in 0..0 |-> 0]
  <2>1. IsSum(g, 0, s)
      BY DEF IsSum
  <2> QED BY <2>1
<1>2. ASSUME NEW k \in Nat, k \in S PROVE k + 1 \in S
  <2>1. PICK g : IsSum(g, k, s)
      BY <1>2
  <2> DEFINE h == [i \in 0..(k + 1) |-> IF i <= k THEN g[i] ELSE g[k] + s[i]]
  <2>2. ASSUME NEW i \in 0..(k + 1)
        PROVE  h[i] = IF i = 0 THEN 0 ELSE h[i - 1] + s[i]
    <3>1. CASE i = 0
        BY <3>1, <2>1 DEF IsSum
    <3>2. CASE i \in 1..k
      <4>1. i \in 0..k /\ i - 1 \in 0..k /\ i - 1 \in 0..(k + 1) /\ i # 0
          BY <3>2
      <4>2. h[i] = g[i] /\ h[i - 1] = g[i - 1]
          BY <4>1
      <4>3. g[i] = g[i - 1] + s[i]
          BY <2>1, <4>1 DEF IsSum
      <4> HIDE DEF h
      <4> QED BY <4>1, <4>2, <4>3
    <3>3. CASE i = k + 1
      <4>1. k \in 0..(k + 1) /\ i - 1 = k /\ i # 0 /\ ~(i <= k)
          BY <3>3
      <4>2. h[i] = g[k] + s[i] /\ h[k] = g[k]
          BY <4>1
      <4> HIDE DEF h
      <4> QED BY <4>1, <4>2
    <3> QED BY <3>1, <3>2, <3>3
  <2>3. h = [i \in 0..(k + 1) |-> h[i]]
      OBVIOUS
  <2> HIDE DEF h
  <2>4. IsSum(h, k + 1, s)
      BY <2>2, <2>3 DEF IsSum
  <2> QED BY <2>4
<1> HIDE DEF S
<1>3. n \in S
    BY <1>1, <1>2, Induction
<1> QED BY <1>3 DEF S

LEMMA BytesStep ==
    ASSUME NEW s, Len(s) \in Nat
    PROVE  /\ BytesOf(s)[0] = 0
           /\ \A j \in Nat : j < Len(s) => BytesOf(s)[j + 1] = BytesOf(s)[j] + s[j + 1]
<1>0. Len(s) \in Nat
    OBVIOUS
<1>1. \E g : IsSum(g, Len(s), s)
    BY <1>0, SumExists
<1>2. BytesOf(s) = CHOOSE g : IsSum(g, Len(s), s)
    BY DEF BytesOf, IsSum
<1>3. IsSum(BytesOf(s), Len(s), s)
    BY <1>1, <1>2, Zenon
<1> DEFINE f == BytesOf(s)
           n == Len(s)
<1>4. f = [i \in 0..n |-> IF i = 0 THEN 0 ELSE f[i - 1] + s[i]]
    BY <1>3 DEF IsSum
<1> HIDE DEF f, n
<1>5. f[0] = 0
    BY <1>0, <1>4 DEF n
<1>6. ASSUME NEW j \in Nat, j < n PROVE f[j + 1] = f[j] + s[j + 1]
  <2>1. j + 1 \in 0..n /\ j + 1 # 0 /\ j + 1 - 1 = j
      BY <1>0, <1>6 DEF n
  <2>2. PICK m \in 0..n : m = j + 1
      BY <2>1
  <2>3. f[m] = IF m = 0 THEN 0 ELSE f[m - 1] + s[m]
      BY <1>4
  <2>4. m # 0 /\ m - 1 = j
      BY <2>1, <2>2
  <2> QED BY <2>2, <2>3, <2>4
<1> QED BY <1>5, <1>6 DEF f, n

Extended(characters, unit) == IF unit = TailHalf THEN characters ELSE Append(characters, unit)

\* The characters of the first units: g builds them up unit by unit.
IsReadOff(g, n, m) == g = [i \in 0..n |-> IF i = 0 THEN << >> ELSE Extended(g[i - 1], m[i])]

LEMMA ReadOffExists == ASSUME NEW n \in Nat, NEW m PROVE \E g : IsReadOff(g, n, m)
<1> DEFINE S == {k \in Nat : \E g : IsReadOff(g, k, m)}
<1>1. 0 \in S
  <2> DEFINE g == [i \in 0..0 |-> << >>]
  <2>1. IsReadOff(g, 0, m)
      BY DEF IsReadOff
  <2> QED BY <2>1
<1>2. ASSUME NEW k \in Nat, k \in S PROVE k + 1 \in S
  <2>1. PICK g : IsReadOff(g, k, m)
      BY <1>2
  <2> DEFINE h == [i \in 0..(k + 1) |-> IF i <= k THEN g[i] ELSE Extended(g[k], m[i])]
  <2>2. ASSUME NEW i \in 0..(k + 1)
        PROVE  h[i] = IF i = 0 THEN << >> ELSE Extended(h[i - 1], m[i])
    <3>1. CASE i = 0
        BY <3>1, <2>1 DEF IsReadOff
    <3>2. CASE i \in 1..k
      <4>1. i \in 0..k /\ i - 1 \in 0..k /\ i - 1 \in 0..(k + 1) /\ i # 0
          BY <3>2
      <4>2. h[i] = g[i] /\ h[i - 1] = g[i - 1]
          BY <4>1
      <4>3. g[i] = Extended(g[i - 1], m[i])
          BY <2>1, <4>1 DEF IsReadOff
      <4> HIDE DEF h
      <4> QED BY <4>1, <4>2, <4>3
    <3>3. CASE i = k + 1
      <4>1. k \in 0..(k + 1) /\ i - 1 = k /\ i # 0 /\ ~(i <= k)
          BY <3>3
      <4>2. h[i] = Extended(g[k], m[i]) /\ h[k] = g[k]
          BY <4>1
      <4> HIDE DEF h
      <4> QED BY <4>1, <4>2
    <3> QED BY <3>1, <3>2, <3>3
  <2>3. h = [i \in 0..(k + 1) |-> h[i]]
      OBVIOUS
  <2> HIDE DEF h
  <2>4. IsReadOff(h, k + 1, m)
      BY <2>2, <2>3 DEF IsReadOff
  <2> QED BY <2>4
<1> HIDE DEF S
<1>3. n \in S
    BY <1>1, <1>2, Induction
<1> QED BY <1>3 DEF S

LEMMA CharactersStep ==
    ASSUME NEW string, string.length \in Nat
    PROVE  /\ CharactersOf(string)[0] = << >>
           /\ \A j \in Nat : j < string.length => CharactersOf(string)[j + 1] = Extended(CharactersOf(string)[j], string.memory[j + 1])
<1>0. string.length \in Nat
    OBVIOUS
<1>1. \E g : IsReadOff(g, string.length, string.memory)
    BY <1>0, ReadOffExists
<1>2. CharactersOf(string) = CHOOSE g : IsReadOff(g, string.length, string.memory)
    BY DEF CharactersOf, Extended, IsReadOff
<1>3. IsReadOff(CharactersOf(string), string.length, string.memory)
    BY <1>1, <1>2, Zenon
<1> DEFINE f == CharactersOf(string)
           n == string.length
<1>4. f = [i \in 0..n |-> IF i = 0 THEN << >> ELSE Extended(f[i - 1], string.memory[i])]
    BY <1>3 DEF IsReadOff
<1> HIDE DEF f, n
<1>5. f[0] = << >>
    BY <1>0, <1>4 DEF n
<1>6. ASSUME NEW j \in Nat, j < n PROVE f[j + 1] = Extended(f[j], string.memory[j + 1])
  <2>1. j + 1 \in 0..n /\ j + 1 # 0 /\ j + 1 - 1 = j
      BY <1>0, <1>6 DEF n
  <2>2. PICK m \in 0..n : m = j + 1
      BY <2>1
  <2>3. f[m] = IF m = 0 THEN << >> ELSE Extended(f[m - 1], string.memory[m])
      BY <1>4
  <2>4. m # 0 /\ m - 1 = j
      BY <2>1, <2>2
  <2> QED BY <2>2, <2>3, <2>4
<1> QED BY <1>5, <1>6 DEF f, n

-----------------------------------------------------------------------------
(* Beginnings of a text *)

Begins(s, t) ==
    /\ Len(s) \in Nat /\ ListOf(s, Len(s)) /\ Len(t) \in Nat /\ ListOf(t, Len(t))
    /\ Len(s) <= Len(t) /\ \A i \in 1..Len(s) : t[i] = s[i]
IsText(s) == Len(s) \in Nat /\ ListOf(s, Len(s)) /\ \A i \in 1..Len(s) : s[i] \in 1..LeadHalf

LEMMA Grown ==
    ASSUME NEW s, IsText(s), NEW u \in 1..LeadHalf
    PROVE  /\ IsText(Append(s, u)) /\ Begins(s, Append(s, u))
           /\ Len(Append(s, u)) = Len(s) + 1 /\ Append(s, u)[Len(s) + 1] = u
<1>1. PICK n \in Nat : n = Len(s)
    BY DEF IsText
<1> DEFINE t == Append(s, u)
<1>2. ListOf(s, n) /\ t = Append(s, u)
    BY <1>1 DEF IsText
<1> HIDE DEF t
<1>3. ListOf(t, n + 1) /\ Len(t) = n + 1 /\ t[n + 1] = u /\ \A i \in 1..n : t[i] = s[i]
  <2>1. Len(s) \in Nat /\ ListOf(s, Len(s))
      BY DEF IsText
  <2>2. /\ ListOf(t, Len(s) + 1) /\ Len(t) = Len(s) + 1 /\ t[Len(s) + 1] = u
        /\ \A i \in 1..Len(s) : t[i] = s[i]
      BY <1>2, <2>1, AppendToList
  <2> QED BY <1>1, <2>2
<1>4. \A i \in 1..(n + 1) : i \in 1..n \/ i = n + 1
    OBVIOUS
<1>5. \A i \in 1..n : s[i] \in 1..LeadHalf
    BY <1>1 DEF IsText
<1>6. \A i \in 1..(n + 1) : t[i] \in 1..LeadHalf
    BY <1>3, <1>4, <1>5
<1>7. Begins(s, t)
    BY <1>1, <1>2, <1>3 DEF Begins
<1> QED BY <1>1, <1>3, <1>6, <1>7 DEF IsText, t

LEMMA BeginsOnward == ASSUME NEW r, NEW s, NEW t, Begins(r, s), Begins(s, t) PROVE Begins(r, t)
BY DEF Begins

\* What a string says up to a unit is the beginning of all it says.
LEMMA CharactersGrow ==
    ASSUME NEW string, string.length \in Nat, \A i \in 1..string.length : string.memory[i] \in 1..TailHalf
    PROVE  \A l \in 0..string.length : /\ IsText(CharactersOf(string)[l])
                                       /\ \A k \in 0..l : Begins(CharactersOf(string)[k], CharactersOf(string)[l])
<1> DEFINE C == CharactersOf(string)
           n == string.length
           S == {l \in Nat : l <= n => IsText(C[l]) /\ \A k \in 0..l : Begins(C[k], C[l])}
<1>1. /\ C[0] = << >>
      /\ \A j \in Nat : j < n => C[j + 1] = Extended(C[j], string.memory[j + 1])
    BY CharactersStep
<1>2. n \in Nat /\ \A i \in 1..n : string.memory[i] \in 1..TailHalf
    OBVIOUS
<1> HIDE DEF C, n
<1>3. 0 \in S
  <2>1. IsText(<< >>) /\ Begins(<< >>, << >>)
      BY DEF IsText, Begins, ListOf
  <2>2. \A k \in 0..0 : k = 0
      OBVIOUS
  <2> QED BY <1>1, <2>1, <2>2
<1>4. ASSUME NEW l \in Nat, l \in S PROVE l + 1 \in S
  <2>1. SUFFICES ASSUME l + 1 <= n
                 PROVE  IsText(C[l + 1]) /\ \A k \in 0..(l + 1) : Begins(C[k], C[l + 1])
      OBVIOUS
  <2>2. l < n /\ l <= n /\ l + 1 \in 1..n
      BY <1>2, <2>1
  <2>3. IsText(C[l]) /\ \A k \in 0..l : Begins(C[k], C[l])
      BY <1>4, <2>2
  <2>4. PICK u \in 1..TailHalf : u = string.memory[l + 1]
      BY <1>2, <2>2
  <2>5. C[l + 1] = Extended(C[l], u)
      BY <1>1, <2>2, <2>4
  <2>6. IsText(C[l + 1]) /\ Begins(C[l], C[l + 1])
    <3>1. CASE u = TailHalf
      <4>1. C[l + 1] = C[l]
          BY <2>5, <3>1 DEF Extended
      <4>2. l \in 0..l
          OBVIOUS
      <4> QED BY <2>3, <4>1, <4>2
    <3>2. CASE u # TailHalf
      <4>1. C[l + 1] = Append(C[l], u) /\ u \in 1..LeadHalf
          BY <2>5, <3>2 DEF Extended, TailHalf, LeadHalf
      <4> QED BY <2>3, <4>1, Grown
    <3> QED BY <3>1, <3>2
  <2>7. Begins(C[l + 1], C[l + 1])
      BY <2>6 DEF IsText, Begins
  <2>8. \A k \in 0..l : Begins(C[k], C[l + 1])
      BY <2>3, <2>6, BeginsOnward
  <2>9. \A k \in 0..(l + 1) : k \in 0..l \/ k = l + 1
      OBVIOUS
  <2> QED BY <2>6, <2>7, <2>8, <2>9
<1> HIDE DEF S
<1>5. \A l \in Nat : l \in S
    BY <1>3, <1>4, Induction
<1> QED BY <1>2, <1>5 DEF S, C, n

\* Beginnings have the same bytes, and what comes after them adds its own.
LEMMA BytesOfBeginning ==
    ASSUME NEW s, NEW t, Begins(s, t)
    PROVE  \A j \in 0..Len(s) : BytesOf(s)[j] = BytesOf(t)[j]
<1>1. PICK n \in Nat : n = Len(s)
    BY DEF Begins
<1>2. PICK p \in Nat : p = Len(t)
    BY DEF Begins
<1>3. n <= p /\ \A i \in 1..n : t[i] = s[i]
    BY <1>1, <1>2 DEF Begins
<1> DEFINE a == BytesOf(s)
           b == BytesOf(t)
           S == {j \in Nat : j <= n => a[j] = b[j]}
<1>4. /\ a[0] = 0 /\ \A j \in Nat : j < n => a[j + 1] = a[j] + s[j + 1]
      /\ b[0] = 0 /\ \A j \in Nat : j < p => b[j + 1] = b[j] + t[j + 1]
    BY <1>1, <1>2, BytesStep
<1> HIDE DEF a, b
<1>5. 0 \in S
    BY <1>4
<1>6. ASSUME NEW j \in Nat, j \in S PROVE j + 1 \in S
  <2>1. SUFFICES ASSUME j + 1 <= n PROVE a[j + 1] = b[j + 1]
      OBVIOUS
  <2>2. j < n /\ j < p /\ j <= n /\ j + 1 \in 1..n
      BY <1>3, <2>1
  <2>3. a[j] = b[j] /\ s[j + 1] = t[j + 1]
      BY <1>3, <1>6, <2>2
  <2> QED BY <1>4, <2>2, <2>3
<1> HIDE DEF S
<1>7. \A j \in Nat : j \in S
    BY <1>5, <1>6, Induction
<1> QED BY <1>1, <1>7 DEF S, a, b

LEMMA BytesAreNumbers ==
    ASSUME NEW s, IsText(s)
    PROVE  \A j \in 0..Len(s) : BytesOf(s)[j] \in Nat
<1>1. PICK p \in Nat : p = Len(s)
    BY DEF IsText
<1>2. \A i \in 1..p : s[i] \in Nat
    BY <1>1 DEF IsText, LeadHalf
<1> DEFINE a == BytesOf(s)
           N == {j \in Nat : j <= p => a[j] \in Nat}
<1>3. a[0] = 0 /\ \A j \in Nat : j < p => a[j + 1] = a[j] + s[j + 1]
    BY <1>1, BytesStep
<1> HIDE DEF a
<1>4. 0 \in N
    BY <1>3
<1>5. ASSUME NEW j \in Nat, j \in N PROVE j + 1 \in N
  <2>1. SUFFICES ASSUME j + 1 <= p PROVE a[j + 1] \in Nat
      OBVIOUS
  <2>2. j < p /\ j <= p /\ j + 1 \in 1..p
      BY <2>1
  <2>3. a[j] \in Nat /\ s[j + 1] \in Nat
      BY <1>2, <1>5, <2>2
  <2> QED BY <1>3, <2>2, <2>3
<1>6. \A j \in Nat : j \in N
  <2> HIDE DEF N
  <2> QED BY <1>4, <1>5, Induction
<1> QED BY <1>1, <1>6 DEF a

LEMMA BytesGrow ==
    ASSUME NEW s, IsText(s), NEW n \in Nat, n < Len(s)
    PROVE  \A m \in Nat : n < m /\ m <= Len(s) => BytesOf(s)[m] >= BytesOf(s)[n] + s[n + 1]
<1>1. PICK p \in Nat : p = Len(s)
    BY DEF IsText
<1>2. n < p /\ \A i \in 1..p : s[i] \in Nat
    BY <1>1 DEF IsText, LeadHalf
<1> DEFINE a == BytesOf(s)
           S == {j \in Nat : n < j /\ j <= p => a[j] >= a[n] + s[n + 1]}
<1>3. a[0] = 0 /\ \A j \in Nat : j < p => a[j + 1] = a[j] + s[j + 1]
    BY <1>1, BytesStep
<1>4. \A j \in 0..p : a[j] \in Nat
    BY <1>1, BytesAreNumbers
<1> HIDE DEF a
<1>7. 0 \in S
    OBVIOUS
<1>8. ASSUME NEW j \in Nat, j \in S PROVE j + 1 \in S
  <2>1. SUFFICES ASSUME n < j + 1, j + 1 <= p PROVE a[j + 1] >= a[n] + s[n + 1]
      OBVIOUS
  <2>2. j < p /\ j <= p /\ j + 1 \in 1..p /\ j \in 0..p /\ n \in 0..p
      BY <1>2, <2>1
  <2>3. a[j] \in Nat /\ a[n] \in Nat /\ s[j + 1] \in Nat
      BY <1>2, <1>4, <2>2
  <2>4. a[j + 1] = a[j] + s[j + 1]
      BY <1>3, <2>2
  <2>5. CASE n = j
      BY <2>3, <2>4, <2>5
  <2>6. CASE n < j
    <3>1. a[j] >= a[n] + s[n + 1]
        BY <1>8, <2>2, <2>6
    <3>2. n + 1 \in 1..p
        BY <1>2
    <3>3. s[n + 1] \in Nat
        BY <1>2, <3>2
    <3> QED BY <2>3, <2>4, <3>1, <3>3
  <2> QED BY <2>1, <2>5, <2>6
<1>9. \A j \in Nat : j \in S
  <2> HIDE DEF S
  <2> QED BY <1>7, <1>8, Induction
<1> QED BY <1>1, <1>9 DEF a

LEMMA BytesOfGrown ==
    ASSUME NEW s, IsText(s), NEW u \in 1..LeadHalf
    PROVE  Bytes8(s) \in Nat /\ Bytes8(Append(s, u)) = Bytes8(s) + u
<1>1. PICK n \in Nat : n = Len(s)
    BY DEF IsText
<1> DEFINE t == Append(s, u)
<1>2. IsText(t) /\ Begins(s, t) /\ Len(t) = n + 1 /\ t[n + 1] = u
    BY <1>1, Grown
<1> HIDE DEF t
<1>3. n \in 0..n /\ n < n + 1
    OBVIOUS
<1>4. BytesOf(s)[n] \in Nat /\ BytesOf(s)[n] = BytesOf(t)[n]
    BY <1>1, <1>2, <1>3, BytesAreNumbers, BytesOfBeginning
<1>5. BytesOf(t)[n + 1] = BytesOf(t)[n] + t[n + 1]
  <2>1. Len(t) \in Nat /\ n < Len(t)
      BY <1>2
  <2> QED BY <2>1, BytesStep
<1> QED BY <1>1, <1>2, <1>4, <1>5 DEF Bytes8, t

-----------------------------------------------------------------------------
(* Looking at an object *)

TheString == look.heap[look.word].text
IsString(string) == string.length \in Nat /\ string.memory \in Seq(1..TailHalf)
FitsBest(t, string) ==
    LET characters == CharactersOf(string)[string.length]
        fitting == {n \in 0..Len(characters) : BytesOf(characters)[n] < TextSize}
    IN  \E n \in fitting : t = SubSeq(characters, 1, n) /\ \A m \in fitting : m <= n

LEMMA TextIs ==
    TextIsWhole <=> (doing = "done" /\ classType = "string" /\ ~Restricts(look.word)
                     /\ TheString.unicode /\ WholeCharacters(TheString) => FitsBest(text, TheString))
BY DEF TextIsWhole, FitsBest, TheString

LEMMA TextWillBe ==
    ASSUME look' = look
    PROVE  TextIsWhole' <=> (doing' = "done" /\ classType' = "string" /\ ~Restricts(look.word)
                             /\ TheString.unicode /\ WholeCharacters(TheString) => FitsBest(text', TheString))
BY DEF TextIsWhole, FitsBest, TheString, Restricts, RO, IsaPointer

LEMMA UnitsOf ==
    ASSUME NEW string, IsString(string)
    PROVE  /\ Len(string.memory) \in Nat
           /\ \A i \in 1..Len(string.memory) : string.memory[i] \in 1..TailHalf
<1>1. PICK s \in Seq(1..TailHalf) : s = string.memory
    BY DEF IsString
<1> DEFINE U == 1..TailHalf
<1>2. s \in Seq(U)
    OBVIOUS
<1> HIDE DEF U
<1>3. Len(s) \in Nat /\ \A i \in 1..Len(s) : s[i] \in U
    BY <1>2
<1> QED BY <1>1, <1>3 DEF U

\* Copied so far: what the units read say, and none of them is the first of two halves.
TextInv ==
    /\ classType = "string" /\ type = "object" /\ look.word \in DOMAIN look.heap
    /\ src \in Nat /\ charsRemaining \in Int /\ src + charsRemaining = TheString.length
    /\ WholeCharacters(TheString) =>
         /\ src <= TheString.length
         /\ text = CharactersOf(TheString)[src] /\ Bytes8(text) < TextSize
         /\ src > 0 => TheString.memory[src] # LeadHalf

LookInv ==
    /\ look \in Looks
    /\ doing \in {"type", "class"} => classType = "none" /\ src = 0
    /\ doing = "class" => type = "object" /\ (look.word \in Tagged \/ IsValidObject(look.word))
    /\ doing = "copy" => TextInv
    /\ LooksSafely

LEMMA LookIs ==
    ASSUME look \in Looks
    PROVE  /\ DOMAIN look.heap \cap (Tagged \cup {Null}) = {}
           /\ \A a \in DOMAIN look.heap : IsString(look.heap[a].text)
BY IntrospectionAssumption DEF IsString

\* The walk to the root faults at a name only, and that is the name of another class.
LEMMA TypeFaults ==
    ASSUME look \in Looks, ObjectType(look.word) = "fault"
    PROVE  /\ look.word \notin Tagged
           /\ \E a \in DOMAIN look.heap \ {IsaPointer(look.word)} :
                  RO(a) # Unreadable /\ RO(a).name = Unreadable
<1> DEFINE class == IsaPointer(look.word)
           R == Roots(class)
           A == Ancestors(class)
<1>1. /\ look.word \notin Tagged /\ IsValidObject(look.word)
      /\ BaseName(class) = Unreadable
    BY DEF ObjectType
<1>2. R # {}
    BY <1>1, IntrospectionAssumption DEF BaseName
<1>3. R \subseteq Nat
    BY DEF Roots
<1>4. \E n \in R : \A m \in R : n <= m
  <2> HIDE DEF R
  <2> QED BY <1>2, <1>3, LeastNumber
<1> DEFINE n == CHOOSE n \in R : \A m \in R : n <= m
<1>5. n \in R
    BY <1>4
<1>6. RO(A[BelowRoot(n)]).name = Unreadable
    BY <1>1, <1>2 DEF BaseName
<1> HIDE DEF n
<1>7. n \in Nat /\ \A m \in 0..n : ContainsValidROData(A[m])
    BY <1>5, IntrospectionAssumption DEF Roots
<1>8. BelowRoot(n) \in 0..n
    BY <1>7 DEF BelowRoot
<1> DEFINE a == A[BelowRoot(n)]
<1>9. a \in DOMAIN look.heap /\ RO(a) # Unreadable /\ RO(a).name = Unreadable
    BY <1>6, <1>7, <1>8 DEF ContainsValidROData, IsReadable
<1> HIDE DEF a
<1>10. RO(class).name # Unreadable
    BY <1>1, IntrospectionAssumption DEF IsValidObject, IsValidClass
<1>11. a # class
    BY <1>9, <1>10
<1> QED BY <1>1, <1>9, <1>11

LEMMA LookStarts == IntrospectionInit => LookInv
<1> SUFFICES ASSUME IntrospectionInit PROVE LookInv
    OBVIOUS
<1>1. look \in Looks /\ doing = "type" /\ classType = "none" /\ src = 0
    BY DEF IntrospectionInit, IntrospectionStart
<1>2. doing # "fault" /\ doing # "done" /\ doing # "copy" /\ doing # "class"
    BY <1>1
<1>3. LooksSafely
    BY <1>2 DEF LooksSafely, ReadsOnlyReadable, TextIsWhole
<1> QED BY <1>1, <1>2, <1>3 DEF LookInv

LEMMA AskTypeKeeps == LookInv /\ AskType => LookInv'
<1> SUFFICES ASSUME LookInv, AskType PROVE LookInv'
    OBVIOUS
<1>1. look \in Looks /\ look' = look /\ classType' = "none" /\ src' = 0
    BY DEF LookInv, AskType
<1>2. type' = ObjectType(look.word)
    BY DEF AskType
<1>3. \/ doing' = "fault" /\ type' = "fault"
      \/ doing' = "class" /\ type' = "object"
      \/ doing' = "done"
    BY DEF AskType
<1>4. TextIsWhole'
    BY <1>1 DEF TextIsWhole
<1>5. ReadsOnlyReadable'
  <2>1. CASE doing' = "fault"
    <3>1. type' = "fault"
        BY <1>3, <2>1
    <3>2. /\ look.word \notin Tagged
          /\ \E a \in DOMAIN look.heap \ {IsaPointer(look.word)} :
                 RO(a) # Unreadable /\ RO(a).name = Unreadable
        BY <1>1, <1>2, <3>1, TypeFaults
    <3> QED BY <1>1, <3>1, <3>2 DEF ReadsOnlyReadable, RO, IsaPointer
  <2>2. CASE doing' # "fault"
      BY <2>2 DEF ReadsOnlyReadable
  <2> QED BY <2>1, <2>2
<1>6. doing' = "class" => type' = "object" /\ (look'.word \in Tagged \/ IsValidObject(look.word)')
  <2>1. ASSUME doing' = "class" PROVE look.word \in Tagged \/ IsValidObject(look.word)
    <3>1. ObjectType(look.word) = "object"
        BY <1>2, <1>3, <2>1
    <3> QED BY <3>1 DEF ObjectType
  <2>2. IsValidObject(look.word) => IsValidObject(look.word)'
      BY <1>1 DEF IsValidObject, IsValidClass, ContainsValidROData, IsReadable, RO, IsaPointer
  <2> QED BY <1>1, <1>3, <2>1, <2>2
<1>7. doing' # "copy"
    BY <1>3
<1> QED BY <1>1, <1>4, <1>5, <1>6, <1>7 DEF LookInv, LooksSafely

LEMMA DescribeKeeps == LookInv /\ Describe => LookInv'
<1> SUFFICES ASSUME LookInv, Describe PROVE LookInv'
    OBVIOUS
<1> DEFINE w == look.word
<1>1. /\ look \in Looks /\ look' = look /\ src' = 0 /\ type' = "object"
      /\ w \in Tagged \/ IsValidObject(w)
    BY DEF LookInv, Describe
<1>2. classType' = TypeOf(w) /\ doing' = Describes
    BY DEF Describe
<1>3. w \in Tagged => classType' \notin {"string", "CFArray"}
    BY <1>2 DEF TypeOf, Tagged
<1>4. /\ DOMAIN look.heap \cap (Tagged \cup {Null}) = {}
      /\ \A a \in DOMAIN look.heap : IsString(look.heap[a].text)
    BY <1>1, LookIs
<1>5. w \notin Tagged => w \in DOMAIN look.heap /\ IsValidClass(IsaPointer(w))
    BY <1>1 DEF IsValidObject, IsReadable
\* what is done next, and why
<1>6. \/ doing' = "fault" /\ ComparesNoName
      \/ doing' = "fault" /\ ~ComparesNoName /\ classType' = "string" /\ ~ReadsLength(TheString)
      \/ doing' = "fault" /\ ~ComparesNoName /\ classType' = "CFArray" /\ ~ReadsElements(w)
      \/ doing' = "fault" /\ ~ComparesNoName /\ classType' = "unknown" /\ ~ReadsIvars(w)
      \/ doing' = "copy" /\ classType' = "string"
      \/ doing' = "done" /\ Restricts(w)
      \/ doing' = "done" /\ ~ComparesNoName /\ classType' # "string"
      \/ doing' = "done" /\ ~ComparesNoName /\ classType' = "string" /\ ~TheString.unicode
  <2>1. CASE ComparesNoName
      BY <1>2, <2>1 DEF Describes
  <2>2. CASE ~ComparesNoName /\ Restricts(w)
      BY <1>2, <2>2 DEF Describes
  <2>3. CASE ~ComparesNoName /\ ~Restricts(w)
    <3>1. CASE classType' = "string"
        BY <1>2, <2>3, <3>1 DEF Describes, TheString
    <3>2. CASE classType' = "CFArray"
        BY <1>2, <2>3, <3>2 DEF Describes
    <3>3. CASE classType' = "unknown"
        BY <1>2, <2>3, <3>3 DEF Describes
    <3>4. CASE classType' \notin {"string", "CFArray", "unknown"}
        BY <1>2, <2>3, <3>4 DEF Describes
    <3> QED BY <3>1, <3>2, <3>3, <3>4
  <2> QED BY <2>1, <2>2, <2>3
<1>7. ReadsOnlyReadable'
  <2> SUFFICES ASSUME doing' = "fault" PROVE ReadsOnlyReadable'
      BY DEF ReadsOnlyReadable
  <2>0. type' # "fault"
      BY <1>1
  <2>1. CASE ComparesNoName
    <3>1. w = "tagged other" /\ look.restricts # {} /\ w \in Tagged
        BY <2>1 DEF ComparesNoName, Tagged
    <3> QED BY <1>1, <3>1 DEF ReadsOnlyReadable
  <2>2. CASE classType' = "string" /\ ~ReadsLength(TheString)
    <3>1. w \notin Tagged /\ TheString.length \in Nat /\ TheString.memory = << >>
        BY <1>3, <1>4, <1>5, <2>2 DEF ReadsLength, TheString, IsString
    <3>2. Len(look.heap[w].text.memory) <= look.heap[w].text.length
        BY <3>1 DEF TheString
    <3> QED BY <1>1, <2>0, <2>2, <3>1, <3>2 DEF ReadsOnlyReadable
  <2>3. CASE classType' = "CFArray" /\ ~ReadsElements(w)
    <3>1. w \notin Tagged /\ look.heap[w].store = Unreadable
        BY <1>3, <2>3 DEF ReadsElements
    <3> QED BY <1>1, <2>0, <2>3, <3>1 DEF ReadsOnlyReadable
  <2>4. CASE classType' = "unknown" /\ ~ReadsIvars(w)
    <3> DEFINE ivars == RO(IsaPointer(w)).ivars
    <3>1. w \notin Tagged /\ ivars # Null /\ ~(\A i \in DOMAIN ivars : ivars[i])
        BY <2>4 DEF ReadsIvars
    <3>2. ContainsValidIvarData(ivars)
        BY <1>5, <3>1 DEF IsValidClass
    <3>3. \A i \in DOMAIN ivars \ {1} : ivars[i]
        BY <3>1, <3>2 DEF ContainsValidIvarData, CheckedIvars
    <3>4. ~ivars[1]
        BY <3>1, <3>3
    <3> QED BY <1>1, <2>0, <2>4, <3>1, <3>4 DEF ReadsOnlyReadable, RO, IsaPointer
  <2> QED BY <1>6, <2>1, <2>2, <2>3, <2>4
<1>8. TextIsWhole'
  <2>1. CASE doing' = "done" /\ Restricts(w)
    <3>1. Restricts(look.word)'
        BY <1>1, <2>1 DEF Restricts, RO, IsaPointer
    <3> QED BY <3>1 DEF TextIsWhole
  <2>2. CASE doing' = "done" /\ classType' # "string"
      BY <2>2 DEF TextIsWhole
  <2>3. CASE doing' = "done" /\ ~TheString.unicode
      BY <1>1, <2>3 DEF TextIsWhole, TheString
  <2>4. CASE doing' # "done"
      BY <2>4 DEF TextIsWhole
  <2> QED BY <1>6, <2>1, <2>2, <2>3, <2>4
<1>9. ASSUME doing' = "copy" PROVE TextInv'
  <2>1. /\ classType' = "string" /\ w \in DOMAIN look.heap
      BY <1>3, <1>5, <1>6, <1>9
  <2>2. charsRemaining' = TheString.length /\ TheString.length \in Nat
      BY <1>4, <1>9, <2>1 DEF Describe, TheString, IsString
  <2>3. text' = << >>
      BY <1>9 DEF Describe
  <2>4. CharactersOf(TheString)[0] = << >>
      BY <2>2, CharactersStep
  <2>5. Bytes8(<< >>) < TextSize
    <3>1. Len(<< >>) = 0 /\ Len(<< >>) \in Nat
        OBVIOUS
    <3>2. BytesOf(<< >>)[0] = 0
        BY <3>1, BytesStep
    <3> QED BY <3>1, <3>2, IntrospectionAssumption DEF Bytes8
  <2>6. TheString' = TheString /\ Bytes8(text') = Bytes8(<< >>)
      BY <1>1, <2>3 DEF TheString
  <2>7. /\ classType' = "string" /\ type' = "object" /\ look'.word \in DOMAIN look'.heap
        /\ src' \in Nat /\ charsRemaining' \in Int /\ src' + charsRemaining' = TheString'.length
      BY <1>1, <2>1, <2>2, <2>6
  <2>8. /\ src' <= TheString'.length
        /\ text' = CharactersOf(TheString')[src']
        /\ Bytes8(text') < TextSize
        /\ src' > 0 => TheString'.memory[src'] # LeadHalf
      BY <1>1, <2>2, <2>3, <2>4, <2>5, <2>6
  <2> QED BY <2>7, <2>8 DEF TextInv, Bytes8, BytesOf, CharactersOf, WholeCharacters
<1>10. doing' \in {"fault", "copy", "done"}
    BY <1>6
<1> QED BY <1>1, <1>7, <1>8, <1>9, <1>10 DEF LookInv, LooksSafely

\* When nothing more is copied, because all of a string is or because the next character
\* does not fit, the text is all that fits.
LEMMA AllThatFits ==
    ASSUME NEW string, IsString(string), WholeCharacters(string),
           NEW n \in Nat, n <= string.length,
           n < string.length => /\ string.memory[n + 1] # TailHalf
                                /\ Bytes8(CharactersOf(string)[n]) + string.memory[n + 1] >= TextSize,
           Bytes8(CharactersOf(string)[n]) < TextSize
    PROVE  FitsBest(CharactersOf(string)[n], string)
<1> DEFINE C == CharactersOf(string)
           l == string.length
           s == C[n]
           t == C[l]
           fitting == {m \in 0..Len(t) : BytesOf(t)[m] < TextSize}
<1>1. l \in Nat /\ \A i \in 1..l : string.memory[i] \in 1..TailHalf
  <2>1. l \in Nat /\ Len(string.memory) \in Nat /\ l <= Len(string.memory)
      BY DEF IsString, WholeCharacters
  <2>2. \A i \in 1..l : i \in 1..Len(string.memory)
      BY <2>1
  <2>3. \A i \in 1..Len(string.memory) : string.memory[i] \in 1..TailHalf
      BY UnitsOf
  <2> QED BY <2>1, <2>2, <2>3
<1>2. n \in 0..l /\ l \in 0..l
    BY <1>1
<1>3. \A j \in 0..l : IsText(C[j]) /\ \A k \in 0..j : Begins(C[k], C[j])
    BY <1>1, CharactersGrow
<1>4. IsText(s) /\ IsText(t) /\ Begins(s, t)
    BY <1>2, <1>3
<1>5. n < l => C[n + 1] = Extended(s, string.memory[n + 1])
    BY <1>1, CharactersStep
<1>6. n < l => Begins(C[n + 1], t)
  <2>1. n < l => n + 1 \in 0..l
      BY <1>1
  <2> HIDE DEF C, l, t
  <2> QED BY <1>2, <1>3, <2>1 DEF t
<1> HIDE DEF s, t, C
<1>7. PICK k \in Nat : k = Len(s)
    BY <1>4 DEF IsText
<1>8. PICK p \in Nat : p = Len(t)
    BY <1>4 DEF IsText
<1>9. k <= p /\ ListOf(s, k) /\ ListOf(t, p) /\ \A i \in 1..k : t[i] = s[i]
    BY <1>4, <1>7, <1>8 DEF Begins
<1>10. BytesOf(s)[k] = BytesOf(t)[k] /\ BytesOf(s)[k] = Bytes8(s)
    BY <1>4, <1>7, BytesOfBeginning DEF Bytes8
<1>11. k \in fitting
  <2>1. k \in 0..Len(t)
      BY <1>8, <1>9
  <2>2. BytesOf(t)[k] < TextSize
      BY <1>10 DEF s, C
  <2> QED BY <2>1, <2>2
<1>12. s = SubSeq(t, 1, k)
  <2> DEFINE S == {t[i] : i \in 1..p}
  <2>1. \A i \in 1..p : t[i] \in S
      OBVIOUS
  <2> HIDE DEF S
  <2>2. t \in [1..p -> S]
      BY <1>9, <2>1 DEF ListOf
  <2>3. t \in Seq(S)
      BY <2>2
  <2> DEFINE u == SubSeq(t, 1, k)
  <2>4. u \in Seq(S) /\ Len(u) = k /\ \A i \in 1..k : u[i] = t[i]
      BY <1>8, <1>9, <2>3
  <2> HIDE DEF u
  <2>5. ListOf(u, k)
      BY <2>4, SequenceIsList
  <2>6. \A i \in 1..k : u[i] = s[i]
      BY <1>9, <2>4
  <2>7. u = s
      BY <1>9, <2>5, <2>6 DEF ListOf
  <2> QED BY <2>7 DEF u
<1>13. ASSUME NEW m \in fitting PROVE m <= k
  <2>1. SUFFICES ASSUME k < m PROVE FALSE
      OBVIOUS
  <2>2. m \in Nat /\ m <= p /\ BytesOf(t)[m] < TextSize
      BY <1>8
  <2>3. n < l
    <3>1. SUFFICES ASSUME n = l PROVE FALSE
        BY <1>2
    <3>2. s = t
        BY <3>1 DEF s, t
    <3> QED BY <2>1, <2>2, <3>2, <1>7, <1>8
  <2>4. PICK x \in 1..LeadHalf : x = string.memory[n + 1]
    <3>1. n + 1 \in 1..l
        BY <1>1, <2>3
    <3>2. string.memory[n + 1] \in 1..TailHalf /\ string.memory[n + 1] # TailHalf
        BY <1>1, <2>3, <3>1
    <3> QED BY <3>2 DEF TailHalf, LeadHalf
  <2>5. C[n + 1] = Append(s, x)
    <3>1. x # TailHalf
        BY <2>4 DEF LeadHalf, TailHalf
    <3> QED BY <1>5, <2>3, <2>4, <3>1 DEF Extended
  <2>6. Len(Append(s, x)) = k + 1 /\ Append(s, x)[k + 1] = x
      BY <1>4, <1>7, Grown
  <2>7. Begins(Append(s, x), t)
      BY <1>6, <2>3, <2>5
  <2>8. t[k + 1] = x
    <3>1. k + 1 \in 1..(k + 1)
        OBVIOUS
    <3> QED BY <2>6, <2>7, <3>1 DEF Begins
  <2>9. k < Len(t) /\ m <= Len(t)
      BY <1>8, <2>1, <2>2
  <2>10. BytesOf(t)[m] >= BytesOf(t)[k] + t[k + 1]
      BY <1>4, <2>1, <2>2, <2>9, BytesGrow
  <2>11. Bytes8(s) + x >= TextSize
      BY <2>3, <2>4 DEF s, C
  <2>12. PICK y : y = BytesOf(t)[m]
      OBVIOUS
  <2>13. TextSize \in Nat /\ x \in Nat
      BY IntrospectionAssumption DEF LeadHalf
  <2>14. BytesOf(t)[k] + x >= TextSize
      BY <1>10, <2>11
  <2>15. BytesOf(t)[m] >= BytesOf(t)[k] + x
      BY <2>8, <2>10
  <2>16. BytesOf(t)[m] \in Nat /\ BytesOf(t)[k] \in Nat
      BY <1>4, <1>8, <1>9, <2>2, BytesAreNumbers
  <2>17. PICK a \in Nat, b \in Nat : a = BytesOf(t)[k] /\ b = BytesOf(t)[m]
      BY <2>16
  <2>18. a + x >= TextSize /\ b >= a + x /\ b < TextSize
      BY <2>2, <2>14, <2>15, <2>17
  <2> QED BY <2>13, <2>17, <2>18
<1> HIDE DEF fitting
<1>14. \E j \in fitting : s = SubSeq(t, 1, j) /\ \A m \in fitting : m <= j
    BY <1>11, <1>12, <1>13
<1> QED BY <1>14 DEF s, t, C, fitting, FitsBest

\* Copying one character.
LEMMA CopyCharacterKeeps == LookInv /\ CopyCharacter => LookInv'
<1> SUFFICES ASSUME LookInv, CopyCharacter PROVE LookInv'
    OBVIOUS
<1> DEFINE w == look.word
           string == TheString
           memory == string.memory
           paired == src + 1 < Len(memory) /\ memory[src + 2] = TailHalf
<1>1. /\ look \in Looks /\ look' = look /\ type' = type /\ classType' = classType
      /\ doing = "copy" /\ TextInv
    BY DEF LookInv, CopyCharacter
<1>2. /\ classType' = "string" /\ type' = "object" /\ w \in DOMAIN look.heap
      /\ src \in Nat /\ charsRemaining \in Int /\ src + charsRemaining = string.length
    BY <1>1 DEF TextInv
<1>3. /\ DOMAIN look.heap \cap (Tagged \cup {Null}) = {}
      /\ \A a \in DOMAIN look.heap : IsString(look.heap[a].text)
    BY <1>1, LookIs
<1>4. w \notin Tagged /\ IsString(string) /\ string.length \in Nat /\ Len(memory) \in Nat
    BY <1>2, <1>3 DEF TheString, IsString
<1>5. TextSize \in Nat
    BY IntrospectionAssumption
<1> DEFINE whole == WholeCharacters(string)
\* what a string of whole characters has where the copy is
<1>6. whole => /\ src <= string.length /\ text = CharactersOf(string)[src] /\ Bytes8(text) < TextSize
               /\ src > 0 => memory[src] # LeadHalf
    BY <1>1 DEF TextInv
<1>7. whole /\ src < string.length =>
        /\ memory[src + 1] \in 1..LeadHalf /\ src < Len(memory)
        /\ memory[src + 1] = LeadHalf => src + 1 < string.length /\ memory[src + 2] = TailHalf
  <2> SUFFICES ASSUME whole, src < string.length
               PROVE  /\ memory[src + 1] \in 1..LeadHalf /\ src < Len(memory)
                      /\ memory[src + 1] = LeadHalf => src + 1 < string.length /\ memory[src + 2] = TailHalf
      OBVIOUS
  <2>1. PICK i \in Nat : i = src + 1
      BY <1>2
  <2>2. i \in 1..string.length /\ i \in 1..Len(memory) /\ src < Len(memory)
      BY <1>2, <1>4, <2>1 DEF WholeCharacters
  <2>3. memory[i] \in 1..TailHalf
      BY <1>4, <2>2, UnitsOf
  <2>4. /\ memory[i] = LeadHalf => i < string.length /\ memory[i + 1] = TailHalf
        /\ memory[i] = TailHalf => i > 1 /\ memory[i - 1] = LeadHalf
      BY <2>2 DEF WholeCharacters
  <2>5. i - 1 = src /\ (i > 1 => src > 0) /\ i + 1 = src + 2
      BY <1>2, <2>1
  <2>6. memory[i] # TailHalf
      BY <1>6, <2>4, <2>5
  <2>7. memory[i] \in 1..LeadHalf
      BY <2>3, <2>6 DEF TailHalf, LeadHalf
  <2> QED BY <2>1, <2>2, <2>4, <2>5, <2>7
<1>8. memory = look.heap[look.word].text.memory /\ string.length = look.heap[look.word].text.length
    BY DEF TheString
<1>13. whole => IsText(CharactersOf(string)[src])
  <2> SUFFICES ASSUME whole PROVE IsText(CharactersOf(string)[src])
      OBVIOUS
  <2>1. \A i \in 1..string.length : i \in 1..Len(memory)
      BY <1>4 DEF WholeCharacters
  <2>2. \A i \in 1..Len(memory) : memory[i] \in 1..TailHalf
      BY <1>4, UnitsOf
  <2>3. \A i \in 1..string.length : string.memory[i] \in 1..TailHalf
      BY <2>1, <2>2
  <2>4. src \in 0..string.length
      BY <1>2, <1>4, <1>6
  <2> HIDE DEF string
  <2> QED BY <1>4, <2>3, <2>4, CharactersGrow
<1> HIDE DEF whole, memory, string
<1>9. TheString' = string
    BY <1>1 DEF TheString, string
\* what a turn does
<1> DEFINE ends == charsRemaining <= 0 \/ Room <= 0
           unit == memory[src + 1]
<1>17. \/ ends /\ Stops8(text)
       \/ ~ends /\ src >= Len(memory) /\ Faults
       \/ /\ ~ends /\ ~(src >= Len(memory))
          /\ \/ unit \in 1..3 /\ Room < unit /\ Stops8(text)
             \/ unit \in 1..3 /\ ~(Room < unit) /\ Takes(1, unit)
             \/ unit = LeadHalf /\ paired /\ Room < LeadHalf /\ Stops8(text)
             \/ unit = LeadHalf /\ paired /\ ~(Room < LeadHalf) /\ Takes(2, LeadHalf)
             \/ unit = LeadHalf /\ ~paired /\ src + 1 >= Len(memory) /\ Faults
             \/ /\ unit \notin 1..3 /\ ~(unit = LeadHalf /\ paired)
                /\ ~(unit = LeadHalf /\ src + 1 >= Len(memory)) /\ Stops8(<< >>)
  <2>1. CASE ends
      BY <2>1 DEF CopyCharacter
  <2>2. CASE ~ends /\ src >= Len(memory)
      BY <1>8, <2>2 DEF CopyCharacter
  <2>3. CASE ~ends /\ ~(src >= Len(memory))
    <3>1. CASE unit \in 1..3
        BY <1>8, <2>3, <3>1 DEF CopyCharacter, LeadHalf
    <3>2. CASE unit \notin 1..3 /\ unit = LeadHalf /\ paired
      <4>1. ~(src + 1 >= Len(memory))
          BY <1>2, <1>4, <3>2
      <4> QED BY <1>8, <2>3, <3>2, <4>1 DEF CopyCharacter
    <3>3. CASE unit \notin 1..3 /\ unit = LeadHalf /\ ~paired /\ src + 1 >= Len(memory)
        BY <1>8, <2>3, <3>3 DEF CopyCharacter
    <3>4. CASE /\ unit \notin 1..3 /\ ~(unit = LeadHalf /\ paired)
               /\ ~(unit = LeadHalf /\ src + 1 >= Len(memory))
        BY <1>8, <2>3, <3>4 DEF CopyCharacter
    <3> QED BY <2>3, <3>1, <3>2, <3>3, <3>4
  <2> QED BY <2>1, <2>2, <2>3
<1> HIDE DEF ends
\* reading beyond the contents
<1>10. ASSUME doing' = "fault" PROVE ReadsOnlyReadable'
  <2>1. ~ends /\ (src >= Len(memory) \/ src + 1 >= Len(memory))
      BY <1>17, <1>10, <1>1 DEF Stops8, Takes
  <2>3. charsRemaining > 0
      BY <1>2, <2>1 DEF ends
  <2>2. Len(memory) <= string.length
      BY <1>2, <1>4, <2>1, <2>3
  <2> QED BY <1>1, <1>2, <1>4, <1>8, <2>2 DEF ReadsOnlyReadable
<1>11. ReadsOnlyReadable'
    BY <1>10 DEF ReadsOnlyReadable
\* stopping
<1>12. ASSUME doing' = "done" PROVE TextIsWhole'
  <2>1. SUFFICES ASSUME whole PROVE FitsBest(text', string)
      BY <1>1, TextWillBe DEF whole, string
  <2>2. charsRemaining > 0 => src < string.length
      BY <1>2, <1>4
  <2>9. src < string.length => src < Len(memory) /\ unit \in 1..LeadHalf
                               /\ (unit = LeadHalf => paired)
    <3> SUFFICES ASSUME src < string.length
                 PROVE  src < Len(memory) /\ unit \in 1..LeadHalf /\ (unit = LeadHalf => paired)
        OBVIOUS
    <3>1. string.length <= Len(memory)
        BY <2>1 DEF whole, memory, WholeCharacters
    <3>2. src < Len(memory) /\ unit \in 1..LeadHalf
        BY <1>7, <2>1
    <3>3. unit = LeadHalf => src + 1 < string.length /\ memory[src + 2] = TailHalf
        BY <1>7, <2>1
    <3>4. src + 1 < string.length => src + 1 < Len(memory)
        BY <1>2, <1>4, <3>1
    <3> QED BY <3>2, <3>3, <3>4
  <2>10. \/ ends /\ text' = text
         \/ src < string.length /\ unit \in 1..3 /\ Room < unit /\ text' = text
         \/ src < string.length /\ unit = LeadHalf /\ Room < LeadHalf /\ text' = text
    <3>1. CASE ends
        BY <1>1, <1>12, <1>17, <3>1 DEF Stops8
    <3>2. CASE ~ends
      <4>1. charsRemaining > 0
          BY <1>2, <3>2 DEF ends
      <4>2. src < string.length
          BY <1>2, <2>2, <4>1
      <4>3. ~(src >= Len(memory)) /\ unit \in 1..LeadHalf /\ (unit = LeadHalf => paired)
          BY <1>2, <1>4, <2>9, <4>2
      <4>4. unit \in 1..3 \/ unit = LeadHalf
          BY <4>3 DEF LeadHalf
      <4> HIDE DEF unit
      <4> QED BY <1>1, <1>12, <1>17, <3>2, <4>2, <4>3, <4>4 DEF Stops8, Takes, Faults
    <3> QED BY <3>1, <3>2
  <2>3. text' = text
      BY <2>10
  <2>4. src < string.length => /\ memory[src + 1] # TailHalf
                               /\ Bytes8(text) + memory[src + 1] >= TextSize
    <3> SUFFICES ASSUME src < string.length
                 PROVE  memory[src + 1] # TailHalf /\ Bytes8(text) + memory[src + 1] >= TextSize
        OBVIOUS
    <3>1. PICK x \in 1..LeadHalf : x = memory[src + 1]
        BY <1>7, <2>1
    <3>2. IsText(text)
        BY <1>6, <1>13, <2>1
    <3>3. PICK b \in Nat : b = Bytes8(text)
        BY <3>2, <3>1, BytesOfGrown
    <3>4. x # TailHalf
        BY DEF LeadHalf, TailHalf
    <3>5. b + x >= TextSize
      <4>1. Room = TextSize - 1 - b
          BY <3>3 DEF Room
      <4>2. x \in Nat /\ x >= 1 /\ x \in 1..4
          BY DEF LeadHalf
      <4>3. charsRemaining > 0
          BY <1>2, <1>4
      <4>4. Room <= 0 \/ Room < x
        <5>1. CASE ends
            BY <4>3, <5>1, <1>2 DEF ends
        <5>2. CASE ~ends
            BY <2>10, <3>1, <5>2
        <5> QED BY <5>1, <5>2
      <4>5. PICK r \in Int : r = Room
          BY <1>5, <4>1
      <4> QED BY <1>5, <4>1, <4>2, <4>4, <4>5
    <3> QED BY <3>1, <3>3, <3>4, <3>5
  <2>5. /\ src <= string.length /\ text = CharactersOf(string)[src] /\ Bytes8(text) < TextSize
        /\ WholeCharacters(string)
      BY <1>6, <2>1 DEF whole
  <2>6. src < string.length => /\ string.memory[src + 1] # TailHalf
                               /\ Bytes8(CharactersOf(string)[src]) + string.memory[src + 1] >= TextSize
      BY <2>4, <2>5 DEF memory
  <2>7. Bytes8(CharactersOf(string)[src]) < TextSize
      BY <2>5
  <2> HIDE DEF string
  <2>8. FitsBest(CharactersOf(string)[src], string)
      BY <1>2, <1>4, <2>5, <2>6, <2>7, AllThatFits
  <2> QED BY <2>3, <2>5, <2>8
<1>14. TextIsWhole'
    BY <1>12 DEF TextIsWhole
\* taking one more
<1>15. ASSUME doing' = "copy" PROVE TextInv'
  <2>0. ~ends
      BY <1>1, <1>15, <1>17 DEF Stops8, Faults
  <2>1. \/ /\ memory[src + 1] \in 1..3 /\ ~(Room < memory[src + 1]) /\ Takes(1, memory[src + 1])
        \/ /\ memory[src + 1] = LeadHalf /\ paired /\ ~(Room < LeadHalf) /\ Takes(2, LeadHalf)
      BY <1>15, <1>17, <2>0 DEF Stops8, Faults
  <2>2. PICK units \in {1, 2}, x \in 1..LeadHalf :
          /\ x = memory[src + 1] /\ ~(Room < x) /\ Takes(units, x)
          /\ units = 2 <=> x = LeadHalf
          /\ units = 2 => src + 1 < Len(memory) /\ memory[src + 2] = TailHalf
    <3>1. CASE memory[src + 1] \in 1..3 /\ ~(Room < memory[src + 1]) /\ Takes(1, memory[src + 1])
        BY <3>1 DEF LeadHalf
    <3>2. CASE memory[src + 1] = LeadHalf /\ paired /\ ~(Room < LeadHalf) /\ Takes(2, LeadHalf)
        BY <3>2 DEF LeadHalf
    <3> QED BY <2>1, <3>1, <3>2
  <2>3. src' = src + units /\ charsRemaining' = charsRemaining - units /\ text' = Append(text, x)
      BY <2>2 DEF Takes
  <2>4. src' \in Nat /\ charsRemaining' \in Int /\ src' + charsRemaining' = string.length
      BY <1>2, <1>4, <2>3
  <2>5. charsRemaining > 0 /\ src < string.length
      BY <1>2, <1>4, <2>0 DEF ends
  <2>6. ASSUME whole
        PROVE  /\ src' <= string.length /\ text' = CharactersOf(string)[src'] /\ Bytes8(text') < TextSize
               /\ src' > 0 => memory[src'] # LeadHalf
    <3>1. IsText(text) /\ text = CharactersOf(string)[src]
        BY <1>6, <1>13, <2>6
    <3>2. PICK b \in Nat : b = Bytes8(text) /\ Bytes8(text') = b + x
        BY <2>3, <3>1, BytesOfGrown
    <3>3. Bytes8(text') < TextSize
      <4>1. Room = TextSize - 1 - b
          BY <3>2 DEF Room
      <4>2. x \in Nat
          BY DEF LeadHalf
      <4> QED BY <1>5, <2>2, <3>2, <4>1, <4>2
    <3>4. CharactersOf(string)[src + 1] = Append(text, x)
      <4>1. CharactersOf(string)[src + 1] = Extended(text, memory[src + 1])
          BY <1>2, <1>4, <2>5, <3>1, CharactersStep DEF memory
      <4>2. x # TailHalf
          BY DEF LeadHalf, TailHalf
      <4> QED BY <2>2, <4>1, <4>2 DEF Extended
    <3>5. CASE units = 1
      <4>1. src' = src + 1 /\ src + 1 <= string.length
          BY <1>2, <1>4, <2>3, <2>5, <3>5
      <4>2. memory[src'] # LeadHalf
          BY <2>2, <3>5, <4>1
      <4> QED BY <2>3, <3>3, <3>4, <4>1, <4>2
    <3>6. CASE units = 2
      <4>1. PICK j \in Nat : j = src + 1
          BY <1>2
      <4>2. src' = j + 1 /\ j + 1 = src + 2
          BY <1>2, <2>3, <3>6, <4>1
      <4>3. j < string.length /\ memory[src + 2] = TailHalf
          BY <1>7, <2>2, <2>5, <2>6, <3>6, <4>1
      <4>4. src' <= string.length /\ memory[src'] # LeadHalf
          BY <1>4, <4>2, <4>3 DEF TailHalf, LeadHalf
      <4>5. CharactersOf(string)[j + 1] = Extended(CharactersOf(string)[j], memory[j + 1])
          BY <1>4, <4>3, CharactersStep DEF memory
      <4>6. CharactersOf(string)[src'] = CharactersOf(string)[j]
          BY <4>2, <4>3, <4>5 DEF Extended
      <4> QED BY <2>3, <3>3, <3>4, <4>1, <4>4, <4>6
    <3> QED BY <3>5, <3>6
  <2>7. WholeCharacters(TheString') => whole
      BY <1>9 DEF whole
  <2>8. WholeCharacters(TheString') =>
          /\ src' <= TheString'.length /\ text' = CharactersOf(TheString')[src'] /\ Bytes8(text') < TextSize
          /\ src' > 0 => TheString'.memory[src'] # LeadHalf
      BY <1>9, <2>6, <2>7 DEF memory
  <2>9. /\ classType' = "string" /\ type' = "object" /\ look'.word \in DOMAIN look'.heap
        /\ src' \in Nat /\ charsRemaining' \in Int /\ src' + charsRemaining' = TheString'.length
      BY <1>1, <1>2, <1>9, <2>4
  <2> QED BY <2>8, <2>9 DEF TextInv, Bytes8, BytesOf, CharactersOf, WholeCharacters
<1>16. doing' \in {"copy", "fault", "done"}
    BY <1>1 DEF CopyCharacter, Stops8, Takes, Faults
<1> QED BY <1>1, <1>11, <1>14, <1>15, <1>16 DEF LookInv, LooksSafely

LEMMA LookStepInv == LookInv /\ [IntrospectionNext]_introspectionVars => LookInv'
<1> SUFFICES ASSUME LookInv, [IntrospectionNext]_introspectionVars PROVE LookInv'
    OBVIOUS
<1>1. CASE AskType
    BY <1>1, AskTypeKeeps
<1>2. CASE Describe
    BY <1>2, DescribeKeeps
<1>3. CASE CopyCharacter
    BY <1>3, CopyCharacterKeeps
<1>4. CASE UNCHANGED introspectionVars
  <2>1. /\ look' = look /\ doing' = doing /\ type' = type /\ classType' = classType /\ src' = src
        /\ charsRemaining' = charsRemaining /\ text' = text
      BY <1>4 DEF introspectionVars
  <2>2. LookInv
      OBVIOUS
  <2>3. TextIsWhole'
      BY <2>1, <2>2, TextIs, TextWillBe DEF LookInv, LooksSafely
  <2>4. ReadsOnlyReadable'
      BY <2>1, <2>2 DEF LookInv, LooksSafely, ReadsOnlyReadable, RO, IsaPointer
  <2>5. doing' = "class" => type' = "object" /\ (look'.word \in Tagged \/ IsValidObject(look.word)')
      BY <2>1, <2>2 DEF LookInv, IsValidObject, IsValidClass, ContainsValidROData, IsReadable, RO, IsaPointer
  <2>6. doing = "copy" => TextInv'
      BY <2>1, <2>2 DEF LookInv, TextInv, TheString
  <2> QED BY <2>1, <2>2, <2>3, <2>4, <2>5, <2>6 DEF LookInv, LooksSafely
<1> QED BY <1>1, <1>2, <1>3, <1>4 DEF IntrospectionNext

\* Whatever a crash left in memory: looking at an object reads nothing that is not there but at
\* the five places the code does not check, and text is cut between two characters only.
THEOREM AlwaysLooksSafely == IntrospectionSpec => []LooksSafely
<1>1. IntrospectionInit => LookInv
    BY LookStarts
<1>2. LookInv /\ [IntrospectionNext]_introspectionVars => LookInv'
    BY LookStepInv
<1>3. LookInv => LooksSafely
    BY DEF LookInv
<1> QED BY <1>1, <1>2, <1>3, PTL DEF IntrospectionSpec
==============================================================================
