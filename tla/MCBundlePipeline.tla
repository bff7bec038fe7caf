-------------------------- MODULE MCBundlePipeline --------------------------
(* Two captures of one package and replays of another implementation of    *)
(* the component.                                                          *)
EXTENDS BundlePipeline, TLC
CONSTANTS cap1, cap2, rep1, reference, candidate
Packages == [c \in Command |-> IF c \in Capturer THEN reference ELSE candidate]
Left(p, m, s, l) == [passed |-> p, marker |-> m, sidecar |-> s, log |-> l]
KeyResults ==
  {Left(TRUE, FALSE, s, "none") : s \in {"alien", "incomplete", "foreign", "good"}}
  \cup {Left(FALSE, FALSE, "good", "none"), Left(FALSE, TRUE, "good", "none")}
  \cup {Left(TRUE, FALSE, "good", l) : l \in {"partial", "NotExecuted", "Passed"}}
  \cup {Left(FALSE, FALSE, "good", "Failed"), Left(FALSE, TRUE, "good", "Failed"),
        Left(TRUE, FALSE, "absent", "Passed")}
Captures == Permutations(Capturer)
=============================================================================
