----------------------------- MODULE MCAppState -----------------------------
(* A small instance of AppState for TLC. *)
EXTENDS AppState

\* The documented counts are exact in the first environment; the others add what
\* spoils them, with smaller bounds.
MCUsual == [backgroundLaunch |-> FALSE, quitsInForeground |-> FALSE, userReports |-> FALSE,
          killedInSave |-> FALSE, runsOn |-> FALSE, maxTime |-> 6, maxDuration |-> 6]
Unusual == [MCUsual EXCEPT !.backgroundLaunch = TRUE, !.quitsInForeground = TRUE, !.maxTime = 5]
Anything == [Unusual EXCEPT !.userReports = TRUE, !.killedInSave = TRUE,
                            !.maxTime = 3, !.maxDuration = 2]
OnAnotherThread == [MCUsual EXCEPT !.runsOn = TRUE, !.maxTime = 2]
MCEnvironments == {MCUsual, Unusual, Anything, OnAnotherThread}
=============================================================================
