\* Two runs of reminders or of alerts at once; or a handler that notifies, next to
\* two digests at once.
SPECIFICATION Spec
SYMMETRY MachineSymmetry
CONSTANTS
  creator = creator
  weekly = weekly
  Users = {creator, weekly}
  Creator = creator
  Preference <- PreferenceOf
  Window <- WindowOf
  Callers = {handler}
  Workers = {w1, w2}
  Mailers = {m1, m2}
  MaxTime = 3
  MaxFans = 1
  MaxDigests = 2
  MaxFaults = 1
  NoFan = NoFan
  NoDigest = NoDigest
  Apps = {a1}
  Slots = {2, 3}
  Hour = 1
  Day = 2
  SlaTime = 1
  Asked = {"rejected"}
  Schedules <- OneAtATime
  Horizon <- TwoTicksForDigests
  MaxRuns = 3
  MaxEdits = 2
  None = None
  NoRun = NoRun
INVARIANTS
  TypeOK
  RemindersBounded
  MarkersAccountForReminders
  AlertsSpaced
  MailsMatchMarks
  EveryoneNotified
  DigestsLeaveNothingOut
CHECK_DEADLOCK FALSE
