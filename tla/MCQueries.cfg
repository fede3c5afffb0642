CONSTANTS
  a = a
  b = b
  c = c
  d = d
  Claims = {a, b, c, d}
  Asked = {a}
  Graphs <- MixedGraphs
SPECIFICATION QueriesSpec
INVARIANTS ValidateDecidesAcyclicity LevelsTopological LevelsPartition LevelsAreEarliest SearchesAgree BlockedAreImpacted
PROPERTY CommandEnds
CHECK_DEADLOCK FALSE
