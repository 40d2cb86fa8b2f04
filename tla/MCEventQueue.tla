---------------------------- MODULE MCEventQueue ----------------------------
(* Threads for TLC. *)
EXTENDS EventQueue, TLC

CONSTANTS t1, t2

OneThread == {t1}
TwoThreads == {t1, t2}

AnyOutcome == {"accepted", "refused", "limited", "none"}
ThreeOutcomes == {"accepted", "limited", "none"}

Symmetry == Permutations({t1, t2})
=============================================================================
