CONSTANTS
  c1 = c1
  c2 = c2
  w1 = w1
  r1 = r1
  r2 = r2
  None = None
  Torn = Torn
  Claims = {c1, c2}
  Machine = {c1, c2}
  Writers = {w1}
  Statements = {1}
  Reviews = {"independent-review", "ai-review"}
  MarkSets = {{"signed", "bound", "killed", "keyed"}, {"signed", "trigger", "keyed"}}
  MaxWrites = 2
  Releases = {r1}
  Required = {c1}
  Allowed = {}
  Forbidden = {"ai-review"}
  ReplayMode = ""
  Enforced = {"C06", "C07", "C09", "C10", "C11", "meta"}
SPECIFICATION Spec
INVARIANTS RestsOnDisk OutputsInOrder
PROPERTY ReleaseEnds
CHECK_DEADLOCK FALSE
