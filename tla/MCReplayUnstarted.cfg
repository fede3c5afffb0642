CONSTANTS
  a = a
  b = b
  d1 = d1
  d2 = d2
  Claims = {a, b}
  Evidence = {d1, d2}
  Jobs <- AllJobs
  Stores <- SomeStores
  Hints <- SomeHints
  MaxMeddling = 1
SPECIFICATION Spec
INVARIANT CheckerRan
CHECK_DEADLOCK FALSE
