---------------------------- MODULE EventOutbox ----------------------------
(***************************************************************************)
(* What the client promises about the events it stores on disk: an event   *)
(* leaves the disk when the server has answered one of its requests, or    *)
(* when newer events take its place, and for no other reason: not because  *)
(* the network failed, the client was disabled or the process ended.       *)
(***************************************************************************)
EXTENDS Naturals, FiniteSets

CONSTANTS Events,   \* events, numbered in the order they are stored
          MaxStored \* how many the disk keeps

VARIABLES disk,     \* events on disk
          put,      \* events that were ever stored
          answered  \* events of which the server answered a request

outboxVars == <<disk, put, answered>>

Init == disk = {} /\ put = {} /\ answered = {}

Newest(S) == {n \in S : Cardinality({m \in S : m > n}) < MaxStored}

Put ==
    /\ \E n \in Events \ put : put' = put \cup {n} /\ disk' = disk \cup {n}
    /\ UNCHANGED answered

Displace ==
    /\ disk' = Newest(disk)
    /\ UNCHANGED <<put, answered>>

Answer ==
    /\ \E n \in put : answered' = answered \cup {n}
    /\ UNCHANGED <<disk, put>>

Discard ==
    /\ \E n \in disk \cap answered : disk' = disk \ {n}
    /\ UNCHANGED <<put, answered>>

Next == Put \/ Displace \/ Answer \/ Discard

Spec == Init /\ [][Next]_outboxVars
=============================================================================
