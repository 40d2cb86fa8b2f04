--------------------------- MODULE MCCrashMonitor ---------------------------
(* Small instances of CrashMonitor for TLC. *)
EXTENDS CrashMonitor

\* VicrabCrashMonitorTypeProductionSafeMinimal
MinimalMonitoring == Monitors \ {"deadlock", "zombie"}
\* VicrabCrashMonitorTypeManual
ManualMonitoring == {"system", "appstate", "user"}

AllTriggers == TriggerKinds
\* Every trigger whose handler suspends the other threads first.
SuspendingTriggers == TriggerKinds \ {"user", "userFatal"}
AllMonitoring == Monitors
NoChoices == {}
SomeChoices == {MinimalMonitoring, ManualMonitoring}
=============================================================================
