CONSTANTS
  w1 = w1
  w2 = w2
  c1 = c1
  c2 = c2
  c3 = c3
  Writer = {w1, w2}
  Capture = {c1, c2, c3}
  NoFile = NoFile
  PERSIST_ATTEMPTS = 3
SPECIFICATION FairSpec
INVARIANTS TypeOK AtomicInv NoLitter
PROPERTIES Refines Settles
CHECK_DEADLOCK FALSE
