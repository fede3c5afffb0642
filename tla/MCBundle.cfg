CONSTANTS
  a = a
  b = b
  c1 = c1
  c2 = c2
  Claims = {a, b}
  Order <- TwoClaims
  Targets = {a}
  NoClaim = "none"
  Creators = {c1, c2}
  MaxEdits = 1
  MaxFaults = 1
SYMMETRY Symmetry
SPECIFICATION Spec
INVARIANTS
  ReleasedRests
  ManifestHonest
  FreshBundleExact
CHECK_DEADLOCK FALSE
