-------------------------- MODULE MCNativeCapture --------------------------
(* Model values and bounds for the runs of NativeCapture.                  *)
EXTENDS NativeCapture, TLC
CONSTANTS main, worker
Futures == Permutations(Task)
=============================================================================
