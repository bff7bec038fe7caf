CONSTANTS
  I32 = {0}
  U32 = {0}
  I64 = {0}
  U64 = {0}
  Single = {}
  CtscVersion = "1"
  QualifiedFaults = {"acme.crash"}
  Documents <- MCDocuments
SPECIFICATION Spec
INVARIANTS AncestryExact OneOutcome
CHECK_DEADLOCK FALSE
