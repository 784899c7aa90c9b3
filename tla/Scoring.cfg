SPECIFICATION Spec
CONSTANTS
  c1 = c1
  c2 = c2
  c3 = c3
  ann = ann
  bob = bob
  Candidates = {c1, c2, c3}
  NameOf <- Names
  Stranger = stranger
  Skills = {sql}
  Values = {59, 60, 62, 80}
  Threshold = 60
  Targets = {1, 2}
  Sessions = {s1, s2}
  Scenarios <- Together
  MaxStarts = 3
  MaxEdits = 2
  MaxListed = 2
  None = None
SYMMETRY Symmetry
INVARIANTS
  TypeOK
  SkillsInSync
  AskedAgainOnlyInOverlap
  ComparisonsAddUp
  ShortlistsAddUp
CHECK_DEADLOCK FALSE
