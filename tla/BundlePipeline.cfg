CONSTANTS
  cap1 = cap1
  cap2 = cap2
  rep1 = rep1
  reference = reference
  candidate = candidate
  Package = {reference, candidate}
  PackageOf <- Packages
  Capturer = {cap1, cap2}
  Replayer = {rep1}
  Nobody = Nobody
  Languages = {"Rust", "CSharp"}
  NumTests = 2
  Results <- KeyResults
SYMMETRY Captures
SPECIFICATION Spec
INVARIANTS ArtifactsExact NoClobber ReplayOfOneCapture
CHECK_DEADLOCK FALSE
