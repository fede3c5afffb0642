CONSTANTS
  a = a
  b = b
  c = c
  d = d
  Claims = {a, b, c}
  Graphs <- GraphsUpTo2
SPECIFICATION Spec
PROPERTY LevelsAlwaysTerminates
CHECK_DEADLOCK FALSE
