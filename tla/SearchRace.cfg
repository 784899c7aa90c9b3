\* Two workers and no fault: an older snapshot overtakes the removal.
SPECIFICATION Spec
CONSTANTS
  Candidates = {c1}
  Workers = {w1, w2}
  MaxRetries = 1
  MaxVersion <- VersionBound
  Edited = c1
  Commits = 3
  MaxBackfills = 0
  MaxFaults = 0
  Unsynced = {}
  NoDoc = NoDoc
  NoMessage = NoMessage
INVARIANT
  DeletedLeavesTheList
CHECK_DEADLOCK FALSE
