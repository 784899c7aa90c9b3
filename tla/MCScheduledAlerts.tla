-------------------------- MODULE MCScheduledAlerts --------------------------
(* A creator mailed at once and a watcher with a weekly digest.             *)
EXTENDS ScheduledAlerts, TLC

CONSTANTS creator, weekly

PreferenceOf == creator :> "immediate" @@ weekly :> "weekly"
WindowOf == "daily" :> 1 @@ "weekly" :> 2
OneAtATime == {{"reminders"}, {"alerts"}, {"requests", "digests"}}
TwoTicksForDigests == [s \in Schedules |-> IF "digests" \in s THEN 2 ELSE MaxTime]
MachineSymmetry == Permutations(Workers) \cup Permutations(Mailers)
RemindersOnly == {{"reminders"}}
=============================================================================
