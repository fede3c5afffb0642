CONSTANTS
  c1 = c1
  c2 = c2
  w1 = w1
  w2 = w2
  None = None
  Torn = Torn
  Claims = {c1}
  Machine = {c1}
  Writers = {w1, w2}
  Statements = {1, 2}
  Reviews = {"independent-review", "formal-kernel"}
  MarkSets = {{"signed"}}
  MaxWrites = 2
  GraphNamed = TRUE
SPECIFICATION WatchSpec
INVARIANT ShownIsCurrent
PROPERTIES PublishedStaysWhole DowngradeOnlyByRace WatchCatchesUp
CHECK_DEADLOCK FALSE
