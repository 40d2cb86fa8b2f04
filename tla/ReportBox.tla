----------------------------- MODULE ReportBox -----------------------------
(***************************************************************************)
(* What a store of crash reports promises to the code that records and to  *)
(* the code that sends: reports enter once, a sender that clears the store *)
(* has sent every report it counted, and only the oldest report expires.   *)
(***************************************************************************)
EXTENDS Naturals, FiniteSets

CONSTANTS Numbers,  \* reports, numbered in the order they were begun
          Senders

VARIABLES box,      \* complete reports in the store
          used,     \* reports that ever were in it
          counted,  \* for each sender, the reports in the box when it counted
          sent      \* reports handed to a sink that accepted them

boxVars == <<box, used, counted, sent>>

Init ==
    /\ box = {} /\ used = {} /\ sent = {}
    /\ counted = [s \in Senders |-> {}]

\* A report enters complete, and never twice.
Put ==
    /\ \E n \in Numbers \ used : box' = box \cup {n} /\ used' = used \cup {n}
    /\ UNCHANGED <<counted, sent>>

Count(s) ==
    /\ counted' = [counted EXCEPT ![s] = box]
    /\ UNCHANGED <<box, used, sent>>

\* An accepted delivery contains every counted report that is still there; the
\* sender may then leave the store as it is.
Send(s) ==
    /\ \E S \in SUBSET used : counted[s] \cap box \subseteq S /\ sent' = sent \cup S
    /\ counted' \in {counted, [counted EXCEPT ![s] = {}]}
    /\ UNCHANGED <<box, used>>

GiveUp(s) ==
    /\ counted' = [counted EXCEPT ![s] = {}]
    /\ UNCHANGED <<box, used, sent>>

Clear(s) ==
    /\ counted[s] \cap box \subseteq sent
    /\ box' = {}
    /\ counted' = [counted EXCEPT ![s] = {}]
    /\ UNCHANGED <<used, sent>>

\* Only the oldest report expires.
Expire ==
    /\ \E n \in box : (\A m \in box : n <= m) /\ box' = box \ {n}
    /\ UNCHANGED <<used, counted, sent>>

Restart ==
    /\ counted' = [s \in Senders |-> {}]
    /\ UNCHANGED <<box, used, sent>>

Next ==
    \/ Put \/ Expire \/ Restart
    \/ \E s \in Senders : Count(s) \/ Send(s) \/ GiveUp(s) \/ Clear(s)

Spec == Init /\ [][Next]_boxVars
=============================================================================
