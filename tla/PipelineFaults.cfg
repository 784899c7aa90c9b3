\* Two pipelines for one person, with database errors, a worker crash and
\* deletions of applications and candidates in between.
CONSTANTS
  Apps = {a1, a2}
  Jobs = {j1}
  Files = {f1, f2}
  Emails = {e1}
  People = {p1, p2}
  Candidates = {c1, c2, c3}
  Workers = {w1, w2}
  Recruiters = {}
  Stages = {"applied"}
  NoEmail = NoEmail
  NoCandidate = NoCandidate
  NoApp = NoApp
  EmailOf <- MCEmailOf
  PersonOf <- MCPersonOf
  MaxRetries = 1
  MaxRequeues = 0
  MaxCrashes = 1
  Operations = {"deleteApplication", "deleteCandidate"}
  Faults = {"workerCrash", "database", "childLost"}
  f1 = f1  f2 = f2  f3 = f3  e1 = e1  e2 = e2  p1 = p1  p2 = p2
SPECIFICATION Spec
SYMMETRY Symmetry
INVARIANTS
  TypeOK
  ResumesRecordedOnce
  StagedIsBacked
  ParsingIsAccountedFor
CHECK_DEADLOCK FALSE
