\* The database fails each of the task's three attempts.
CONSTANTS
  Apps = {a1}
  Jobs = {j1}
  Files = {f1}
  Emails = {e1}
  People = {p1, p2}
  Candidates = {c1}
  Workers = {w1}
  Recruiters = {}
  Stages = {"applied"}
  NoEmail = NoEmail
  NoCandidate = NoCandidate
  NoApp = NoApp
  EmailOf <- MCEmailOf
  PersonOf <- MCPersonOf
  MaxRetries = 2
  MaxRequeues = 0
  MaxCrashes = 0
  Operations = {}
  Faults = {"database"}
  f1 = f1  f2 = f2  f3 = f3  e1 = e1  e2 = e2  p1 = p1  p2 = p2
SPECIFICATION Spec
INVARIANTS
  ExhaustedIsMarkedFailed
CHECK_DEADLOCK FALSE
