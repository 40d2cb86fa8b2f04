---------------------------- MODULE MCReportStore ----------------------------
(* Writers and senders for TLC. *)
EXTENDS ReportStore, TLC

CONSTANTS w1, w2, s1, s2

OneWriter == {w1}
TwoWriters == {w1, w2}
OneSender == {s1}
TwoSenders == {s1, s2}
OneOrTwo == {1, 2}
OnlyOne == {1}
OnSuccess == {"success"}
Deleting == {"always", "success"}

Symmetry == Permutations({w1, w2})
=============================================================================
