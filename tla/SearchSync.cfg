\* Two workers, two candidates, unsynchronised writers, the backfill, two faults.
CONSTANTS
  Candidates = {c1, c2}
  Workers = {w1, w2}
  MaxRetries = 1
  Edited = c1
  Commits = 2
  MaxVersion <- VersionBound
  MaxBackfills = 1
  MaxFaults = 2
  Unsynced = {"pipeline", "script"}
  NoDoc = NoDoc
  NoMessage = NoMessage
SPECIFICATION FairSpec
INVARIANTS
  TypeOK
  DriftIsAccountedFor
  OnlyDeletedAreFlagged
  ListIsNeverBlank
PROPERTIES
  Converges
CHECK_DEADLOCK FALSE
