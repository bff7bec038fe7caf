CONSTANTS
  I32 <- Range32
  U32 = {0}
  I64 <- Range32
  U64 = {0}
  Single <- MCSingle
  CtscVersion = "1"
  QualifiedFaults = {}
  MaxId = 99
  MaxTime = 99
  Tests <- MCTests
  Identities <- MCIdentities
  Schemas <- MCSchemas
  Outcomes <- MCOutcomes
  MaxOps = 3
  MaxLater = 1
  MaxObserved = 1
SPECIFICATION Spec
INVARIANTS ShareComplete PublishedIsValid RefusedOnlyIfEmpty DecodedFaithful VerdictExact
CHECK_DEADLOCK FALSE
