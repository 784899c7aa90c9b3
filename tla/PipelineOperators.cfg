\* One application in two workers at once (requeued by the operator's script),
\* with recruiters, candidates made and edited by hand, the deletion of the job
\* and broker failures.
CONSTANTS
  Apps = {a1}
  Jobs = {j1}
  Files = {f1}
  Emails = {e1}
  People = {p1}
  Candidates = {c1, c2}
  Workers = {w1, w2}
  Recruiters = {r1}
  Stages = {"applied", "interview"}
  NoEmail = NoEmail
  NoCandidate = NoCandidate
  NoApp = NoApp
  EmailOf <- MCEmailOf
  PersonOf <- MCPersonOf
  MaxRetries = 1
  MaxRequeues = 1
  MaxCrashes = 0
  Operations = {"edit", "createCandidate", "updateCandidate", "deleteJob"}
  Faults = {"broker"}
  f1 = f1  f2 = f2  f3 = f3  e1 = e1  e2 = e2  p1 = p1  p2 = p2
SPECIFICATION Spec
SYMMETRY Symmetry
INVARIANTS
  ResumeHistoryIsGapless
  StagedIsBacked
  ParsingIsAccountedFor
CHECK_DEADLOCK FALSE
