CONSTANTS
  I32 = {0}
  U32 = {0}
  I64 = {0}
  U64 = {0}
  Single = {}
  CtscVersion = "1"
  QualifiedFaults = {"acme.crash"}
  Seeds <- MCSeeds
  NewSpans <- MCNewSpans
  NewEvents <- MCNewEvents
  MaxAdded = 2
SPECIFICATION Spec
INVARIANTS EquivalentMeansSame ComparisonSymmetric NoHiddenOverlap
CHECK_DEADLOCK FALSE
