\* Is a reminder sent once?
SPECIFICATION Spec
CONSTANTS
  creator = creator
  weekly = weekly
  Users = {creator, weekly}
  Creator = creator
  Preference <- PreferenceOf
  Window <- WindowOf
  Callers = {handler}
  Workers = {w1, w2}
  Mailers = {m1, m2}
  MaxTime = 3
  MaxFans = 1
  MaxDigests = 3
  MaxFaults = 1
  NoFan = NoFan
  NoDigest = NoDigest
  Apps = {a1}
  Slots = {2, 3}
  Hour = 1
  Day = 2
  SlaTime = 1
  Asked = {"rejected"}
  Schedules <- RemindersOnly
  Horizon <- TwoTicksForDigests
  MaxRuns = 3
  MaxEdits = 2
  None = None
  NoRun = NoRun
INVARIANT
  ReminderOnce
CHECK_DEADLOCK FALSE
