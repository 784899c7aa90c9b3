\* No fault and no requeue: the pipeline against its abstract specification.
\* Without retries one lost race uses them up.
CONSTANTS
  Apps = {a1, a2}
  Jobs = {j1}
  Files = {f1, f3}
  Emails = {e1}
  People = {p1, p2}
  Candidates = {c1, c2}
  Workers = {w1, w2}
  Recruiters = {r1}
  Stages = {"applied", "interview"}
  NoEmail = NoEmail
  NoCandidate = NoCandidate
  NoApp = NoApp
  EmailOf <- MCEmailOf
  PersonOf <- MCPersonOf
  MaxRetries = 0
  MaxRequeues = 0
  MaxCrashes = 0
  Operations = {"edit", "deleteApplication"}
  Faults = {}
  f1 = f1  f2 = f2  f3 = f3  e1 = e1  e2 = e2  p1 = p1  p2 = p2
SPECIFICATION FairSpec
PROPERTIES
  ResolvedBelongsToRecruiters
  ImplementsLifecycle
  AppliedIsScored
CHECK_DEADLOCK FALSE
