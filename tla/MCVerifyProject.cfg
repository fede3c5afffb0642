CONSTANTS
  a = a
  b = b
  c = c
  d = d
  bg = bg
  NoGroup = NoGroup
  Claims = {a, b, c, d}
  Graphs <- SmallGraphs
  GroupOf <- PairBatched
  MaxWorkers = 1
  Strays = {a}
  MaxResults = 3
  Leftovers = {"none", "accepted"}
  MaxForeign = 1
SPECIFICATION ProjectSpec
INVARIANTS DepsSettledFirst ExitTellsAll CheckersBounded ExitZeroOnDisk ProjectTypeOK
PROPERTIES ImplementsWorklist RunEnds
CHECK_DEADLOCK FALSE
