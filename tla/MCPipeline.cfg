CONSTANTS
  p1 = p1
  o1 = o1
  o2 = o2
  Runs = {p1}
  MaxItems = 2
  Versions = {1, 2}
  Absent = Absent
  None = None
  Failed = Failed
  Down = Down
  Obligations = {o1, o2}
  Answers <- SomeAnswers
  Toolchain = TRUE
  MaxEdits = 2
SPECIFICATION Spec
INVARIANTS FreshEvidence DriftCaught AcceptedByFirstItem ResultMatchesView
CHECK_DEADLOCK FALSE
