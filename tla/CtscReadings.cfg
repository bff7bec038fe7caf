CONSTANTS
  I32 <- MCI32
  U32 <- MCU32
  I64 <- MCI64
  U64 <- MCU64
  Single <- MCSingle
  Types <- MCTypes
  Captured <- MCCaptured
  Foreign <- MCForeign
  Registry <- MCRegistry
  Component = "c1"
  Candidates <- MCCandidates
SPECIFICATION Spec
INVARIANTS EqualMeansSame DecoderSound DecoderComplete DecodedSameAsCompared PlannedReplaysEqual
CHECK_DEADLOCK FALSE
