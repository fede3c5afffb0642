CONSTANTS
  d1 = d1
  d2 = d2
  p1 = p1
  g1 = g1
  g2 = g2
  Torn = Torn
  Digests = {d1, d2}
  Importers = {p1}
  Collectors = {g1}
  MaxEdits = 2
SYMMETRY Interchangeable
SPECIFICATION Spec
INVARIANTS CasTypeOK ReferencedStay ImportedStay GarbageGoes
CHECK_DEADLOCK FALSE
