--------------------------- MODULE AtomicSidecar ---------------------------
(***************************************************************************)
(* What persist_atomic promises its callers: the sidecar file is replaced  *)
(* in one step by a whole capture, a call that reports an error has not    *)
(* touched it, and whenever the process or the machine stops, the file is  *)
(* a capture that was committed (or it never existed).                     *)
(***************************************************************************)
EXTENDS Naturals

CONSTANTS
  Capture,   \* the captures persist_atomic is asked to write
  NoFile     \* no file at the destination

VARIABLES
  file,      \* the capture in the destination file
  outcome,   \* [Capture -> what its call has returned]
  up         \* is the process running?

avars == <<file, outcome, up>>

AInit ==
  /\ file = NoFile
  /\ outcome = [c \in Capture |-> "unused"]
  /\ up = TRUE

Request(c) ==
  /\ up /\ outcome[c] = "unused"
  /\ outcome' = [outcome EXCEPT ![c] = "pending"]
  /\ UNCHANGED <<file, up>>

Commit(c) ==
  /\ up /\ outcome[c] = "pending"
  /\ outcome' = [outcome EXCEPT ![c] = "ok"]
  /\ file' = c
  /\ UNCHANGED up

Reject(c) ==
  /\ up /\ outcome[c] = "pending"
  /\ outcome' = [outcome EXCEPT ![c] = "err"]
  /\ UNCHANGED <<file, up>>

(* The process is killed: the file stays.  The machine stops: a            *)
(* replacement that was not yet on disk may be undone.                     *)
Committed == {c \in Capture : outcome[c] = "ok"}

Stop ==
  /\ up /\ up' = FALSE
  /\ file' \in {file, NoFile} \cup Committed
  /\ UNCHANGED outcome

ANext ==
  \/ \E c \in Capture : Request(c) \/ Commit(c) \/ Reject(c)
  \/ Stop

ASpec == AInit /\ [][ANext]_avars
=============================================================================
