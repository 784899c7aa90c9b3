\* One application and one evaluation of its candidate, two requests at once.
CONSTANTS
  Apps = {a1}
  Evaluators = {e1}
  Requests = {q1, q2}
  Slots = {s1}
  Places = {}
  Ratings = {g1}
  Asked = {"offer", "hired", "rejected"}
  MaxTime = 5
  None = None
  NoRequest = NoRequest
SPECIFICATION Spec
SYMMETRY RequestSymmetry
INVARIANTS
  TypeOK
  ColumnsExplained
  HireCounted
  RejectedAgainOnlyInOverlap
  EvaluatorsWordStands
PROPERTIES
  HireNeverLater
CHECK_DEADLOCK FALSE
