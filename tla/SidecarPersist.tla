--------------------------- MODULE SidecarPersist ---------------------------
(***************************************************************************)
(* persist_atomic (rust/crates/specgate-runtime/src/capture/io.rs): one    *)
(* step per file-system call, made by several threads of the test process  *)
(* for the same destination, with every call allowed to fail and the       *)
(* process or the machine allowed to stop between any two of them.         *)
(***************************************************************************)
EXTENDS Naturals

CONSTANTS
  Writer,            \* threads that may be persisting at once
  Capture,           \* snapshots to persist, one per call
  NoFile,            \* no file, no capture
  PERSIST_ATTEMPTS   \* how often the replacement is tried

ASSUME PersistAssumption ==
  /\ NoFile \notin Capture
  /\ PERSIST_ATTEMPTS \in Nat \ {0}

VARIABLES
  call,      \* [Writer -> the call in progress]
  temp,      \* [Writer -> the call's temporary file]
  dest,      \* the file at the destination path
  held,      \* every file the destination has been since the machine started
  outcome,   \* [Capture -> what its call has returned]
  up         \* is the process running?

vars == <<call, temp, dest, held, outcome, up>>

(* A file's content: part of a capture, all of it in the page cache, or    *)
(* all of it on disk.                                                      *)
Content == {"torn", "whole", "synced"}
File    == [cap : Capture \cup {NoFile}, is : Content \cup {"absent"}]
Absent  == [cap |-> NoFile, is |-> "absent"]
Phase   == {"idle", "create_dir_all", "create_temp", "to_writer", "flush",
            "sync_all", "replace", "wait"}
Resting == [ph |-> "idle", cap |-> NoFile, attempt |-> 0]

TypeOK ==
  /\ call \in [Writer -> [ph : Phase, cap : Capture \cup {NoFile},
                          attempt : 0..PERSIST_ATTEMPTS]]
  /\ temp \in [Writer -> {"absent"} \cup Content]
  /\ dest \in File
  /\ held \in SUBSET File
  /\ outcome \in [Capture -> {"unused", "pending", "ok", "err"}]
  /\ up \in BOOLEAN

Init ==
  /\ call = [w \in Writer |-> Resting]
  /\ temp = [w \in Writer |-> "absent"]
  /\ dest = Absent
  /\ held = {Absent}
  /\ outcome = [c \in Capture |-> "unused"]
  /\ up = TRUE

At(w, ph) == up /\ call[w].ph = ph

Goto(w, ph) == call' = [call EXCEPT ![w].ph = ph]

(* The call returns; the NamedTempFile it still owns is deleted by its     *)
(* destructor.                                                             *)
Return(w, result) ==
  /\ outcome' = [outcome EXCEPT ![call[w].cap] = result]
  /\ call' = [call EXCEPT ![w] = Resting]
  /\ temp' = [temp EXCEPT ![w] = "absent"]

PersistAtomic(w, c) ==
  /\ At(w, "idle") /\ outcome[c] = "unused"
  /\ call' = [call EXCEPT ![w] = [ph |-> "create_dir_all", cap |-> c,
                                  attempt |-> 0]]
  /\ outcome' = [outcome EXCEPT ![c] = "pending"]
  /\ UNCHANGED <<temp, dest, held, up>>

CreateDirAll(w) ==
  /\ At(w, "create_dir_all") /\ Goto(w, "create_temp")
  /\ UNCHANGED <<temp, dest, held, outcome, up>>

CreateTemp(w) ==
  /\ At(w, "create_temp") /\ Goto(w, "to_writer")
  /\ temp' = [temp EXCEPT ![w] = "torn"]
  /\ UNCHANGED <<dest, held, outcome, up>>

ToWriter(w) ==
  /\ At(w, "to_writer") /\ Goto(w, "flush")
  /\ temp' = [temp EXCEPT ![w] = "whole"]
  /\ UNCHANGED <<dest, held, outcome, up>>

Flush(w) ==
  /\ At(w, "flush") /\ Goto(w, "sync_all")
  /\ UNCHANGED <<temp, dest, held, outcome, up>>

(* The file is handed to the next attempt at the replacement.              *)
Attempt(w, n) ==
  call' = [call EXCEPT ![w] = [ph |-> "replace", cap |-> call[w].cap,
                               attempt |-> n]]

(* Mutant: the file is renamed without having been synced.                 *)
SyncSkipped(w) ==
  /\ At(w, "sync_all") /\ Attempt(w, 1)
  /\ UNCHANGED <<temp, dest, held, outcome, up>>

SyncAll(w) ==
  /\ At(w, "sync_all") /\ Attempt(w, 1)
  /\ temp' = [temp EXCEPT ![w] = "synced"]
  /\ UNCHANGED <<dest, held, outcome, up>>

(* Mutant: the destructor does not run on the error paths.                 *)
FailKeepsTemp(w) ==
  /\ up
  /\ call[w].ph \in {"create_dir_all", "create_temp", "to_writer", "flush", "sync_all"}
  /\ outcome' = [outcome EXCEPT ![call[w].cap] = "err"]
  /\ call' = [call EXCEPT ![w] = Resting]
  /\ UNCHANGED <<temp, dest, held, up>>

(* Any call before the replacement fails, and with it persist_atomic.      *)
Fail(w) ==
  /\ up
  /\ call[w].ph \in {"create_dir_all", "create_temp", "to_writer", "flush", "sync_all"}
  /\ Return(w, "err")
  /\ UNCHANGED <<dest, held, up>>

(* NamedTempFile::persist renames the temporary file over the destination. *)
Replace(w) ==
  LET f == [cap |-> call[w].cap, is |-> temp[w]] IN
    /\ At(w, "replace")
    /\ dest' = f
    /\ held' = held \cup {f}
    /\ Return(w, "ok")
    /\ UNCHANGED up

(* Mutant: one attempt too many.                                           *)
RejectedOnceMore(w) ==
  /\ At(w, "replace")
  /\ \/ /\ call[w].attempt <= PERSIST_ATTEMPTS
        /\ Goto(w, "wait")
        /\ UNCHANGED <<temp, outcome>>
     \/ /\ call[w].attempt > PERSIST_ATTEMPTS
        /\ Return(w, "err")
  /\ UNCHANGED <<dest, held, up>>

(* The rename fails: the file comes back for another attempt, until the    *)
(* last one.                                                               *)
ReplaceRejected(w) ==
  /\ At(w, "replace")
  /\ \/ /\ call[w].attempt < PERSIST_ATTEMPTS
        /\ Goto(w, "wait")
        /\ UNCHANGED <<temp, outcome>>
     \/ /\ call[w].attempt = PERSIST_ATTEMPTS
        /\ Return(w, "err")
  /\ UNCHANGED <<dest, held, up>>

(* Mutant: the attempts are not counted.                                   *)
WaitUncounted(w) ==
  /\ At(w, "wait") /\ Attempt(w, call[w].attempt)
  /\ UNCHANGED <<temp, dest, held, outcome, up>>

Wait(w) ==
  /\ At(w, "wait") /\ Attempt(w, call[w].attempt + 1)
  /\ UNCHANGED <<temp, dest, held, outcome, up>>

Step(w) ==
  \/ CreateDirAll(w) \/ CreateTemp(w) \/ ToWriter(w) \/ Flush(w) \/ SyncAll(w)
  \/ Fail(w) \/ Replace(w) \/ ReplaceRejected(w) \/ Wait(w)

(* The test process ends or is killed: destructors do not run.             *)
Kill ==
  /\ up /\ up' = FALSE
  /\ UNCHANGED <<call, temp, dest, held, outcome>>

(* The machine stops.  The directory entry is any file it has named, and   *)
(* that file has only the content that was synced.                         *)
PowerLoss ==
  /\ up /\ up' = FALSE
  /\ \E f \in held :
       dest' = IF f.is \in {"absent", "synced"} THEN f
               ELSE [f EXCEPT !.is = "torn"]
  /\ UNCHANGED <<call, temp, held, outcome>>

Next ==
  \/ \E w \in Writer : Step(w) \/ \E c \in Capture : PersistAtomic(w, c)
  \/ Kill \/ PowerLoss

(* A thread inside persist_atomic is scheduled, and its file-system calls  *)
(* return.  Nothing obliges a caller to persist or a process to end.       *)
Fairness == \A w \in Writer : WF_vars(Step(w))

Spec == Init /\ [][Next]_vars

FairSpec == Spec /\ Fairness
-----------------------------------------------------------------------------
(* A file the destination may be: none, or one capture, whole and on disk, *)
(* whose call reported success.                                            *)
Sound(f) ==
  f = Absent \/ /\ f.is = "synced" /\ f.cap \in Capture
                /\ outcome[f.cap] = "ok"

(* The destination is sound and so is everything a machine stop could turn *)
(* it back into; calls in progress write different captures, and a call    *)
(* that may rename has synced its file and has attempts left.              *)
AtomicInv ==
  /\ Sound(dest)
  /\ \A f \in held : Sound(f)
  /\ \A w \in Writer : call[w].ph # "idle" =>
       call[w].cap \in Capture /\ outcome[call[w].cap] = "pending"
  /\ \A v, w \in Writer :
       v # w /\ call[v].ph # "idle" /\ call[w].ph # "idle" =>
         call[v].cap # call[w].cap
  /\ \A w \in Writer : call[w].ph \in {"replace", "wait"} => temp[w] = "synced"
  /\ \A w \in Writer : call[w].ph = "wait" => call[w].attempt < PERSIST_ATTEMPTS

(* Readers of the destination see one of the captures that were committed, *)
(* whole, whatever fails and wherever the process or the machine stops; a  *)
(* call that returns an error leaves it alone (io.rs 26-85).               *)
Atomic == INSTANCE AtomicSidecar WITH
            file <- IF dest.is = "torn" THEN dest ELSE dest.cap

Refines == Atomic!ASpec

(* A temporary file exists only while its call is in progress: no failure  *)
(* path of a running process leaves one beside the sidecar.                *)
NoLitter ==
  \A w \in Writer : temp[w] # "absent" =>
    call[w].ph \in {"to_writer", "flush", "sync_all", "replace", "wait"}

(* Every call returns, however often the replacement is refused: the       *)
(* bounded retry cannot keep an instrumented operation from completing.    *)
Settles ==
  \A c \in Capture : outcome[c] = "pending" ~> (outcome[c] # "pending" \/ ~up)
=============================================================================
