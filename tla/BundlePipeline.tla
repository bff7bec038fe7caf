--------------------------- MODULE BundlePipeline ---------------------------
(***************************************************************************)
(* `specgate capture' and `specgate replay' around one bundle directory    *)
(* (specgate-cli capture/facade.rs, capture/rust.rs, capture/csharp.rs,    *)
(* capture/sidecar.rs, replay/facade.rs, system/filesystem.rs, and         *)
(* specgate-ctsc replay.rs).                                               *)
(*                                                                         *)
(* Several commands run as processes of their own; each step is one        *)
(* file-system or process call, any of which may fail, and any command may *)
(* be killed between two of them.  A file's bytes are abstracted to the    *)
(* command that wrote them and whether all of them are there: equal        *)
(* digests mean equal bytes.                                               *)
(***************************************************************************)
EXTENDS Naturals, Sequences

CONSTANTS
  Capturer,    \* capture commands, all with the same --out
  Replayer,    \* replay commands reading that bundle, all with one --out
  Nobody,      \* no command
  Package,     \* source packages the commands work on
  PackageOf,   \* [Command -> the package it locks]
  Languages,   \* languages the captured packages may be written in
  NumTests,    \* tests the package's binaries or projects enumerate
  Results      \* what running one test may leave behind

Command  == Capturer \cup Replayer
Test     == 1..NumTests
Recording == {"absent", "malformed", "alien", "empty", "incomplete",
              "unrecordable", "foreign", "good"}
(* A C# test's result log: never written, cut off, naming no or several    *)
(* tests, or the one outcome it records.                                   *)
Logged   == {"none", "partial", "several", "Passed", "Failed", "NotExecuted"}
Result   == [passed : BOOLEAN, marker : BOOLEAN, sidecar : Recording, log : Logged]

ASSUME BundleAssumption ==
  /\ Nobody \notin Command
  /\ Capturer \cap Replayer = {}
  /\ PackageOf \in [Command -> Package]
  /\ Languages \subseteq {"Rust", "CSharp"}
  /\ NumTests \in Nat
  /\ Results \subseteq Result

VARIABLES
  pc,        \* [Command -> where the command is]
  force,     \* [Command -> was --force given?]
  language,  \* the language of the captured package
  owner,     \* [Package -> the command holding its lock file]
  woven,     \* [Capturer -> methods the weaver reported, none or some]
  ran,       \* [Capturer -> results of the tests run so far]
  captures,  \* [Capturer -> tests recorded as captured]
  dir,       \* [Artifact -> file]: the bundle directory
  written,   \* [Capturer -> artifacts completely written]
  got,       \* [Replayer -> files read so far, in order]
  out        \* the replay output file, inside the bundle directory

inputs == <<force, language>>     \* given to the commands, never changed
tests  == <<woven, ran, captures>>
vars == <<pc, inputs, owner, tests, dir, written, got, out>>

Artifacts == <<"registry", "trace", "manifest">>    \* write_with's order
ReadOrder == <<"manifest", "registry", "trace">>    \* replay_with's order
Artifact  == {"registry", "trace", "manifest"}

(* A file: who wrote it, and whether it is absent, torn or whole.          *)
Absent == [by |-> Nobody, is |-> "absent"]
Whole(c) == [by |-> c, is |-> "whole"]
Torn(c)  == [by |-> c, is |-> "torn"]

Ended == {"done", "failed", "killed"}

Init ==
  /\ pc = [c \in Command |-> "start"]
  /\ force \in [Command -> BOOLEAN]
  /\ language \in Languages
  /\ owner = [p \in Package |-> Nobody]
  /\ woven = [c \in Capturer |-> 0]
  /\ ran = [c \in Capturer |-> <<>>]
  /\ captures = [c \in Capturer |-> {}]
  /\ dir = [a \in Artifact |-> Absent]
  /\ written = [c \in Capturer |-> 0]
  /\ got = [r \in Replayer |-> <<>>]
  /\ out = Absent
-----------------------------------------------------------------------------
Goto(c, ph) == pc' = [pc EXCEPT ![c] = ph]

(* The command returns an error or success, or is killed: its lock file    *)
(* handle is closed.                                                       *)
End(c, how) ==
  /\ Goto(c, how)
  /\ owner' = [p \in Package |-> IF owner[p] = c THEN Nobody ELSE owner[p]]

(* Mutant: a package in use is not refused.                                *)
GuardShared(c, next) ==
  /\ owner' = [owner EXCEPT ![PackageOf[c]] = c] /\ Goto(c, next)
  /\ UNCHANGED <<inputs, tests, dir, written, got, out>>

(* package_guard: try_lock, which never waits.                             *)
PackageGuard(c, next) ==
  /\ \/ /\ owner[PackageOf[c]] = Nobody
        /\ owner' = [owner EXCEPT ![PackageOf[c]] = c] /\ Goto(c, next)
     \/ /\ owner[PackageOf[c]] # Nobody
        /\ UNCHANGED owner /\ Goto(c, "failed")
  /\ UNCHANGED <<inputs, tests, dir, written, got, out>>

Active(c) == pc[c] \notin Ended \cup {"start"}

(* Any other call of the command fails.                                    *)
Fail(c) ==
  /\ pc[c] \in {"build", "weave", "list", "reflect", "test", "create_dir",
                "truncate", "fill", "read", "guard", "check_trace_out",
                "execute", "stage", "remove", "persist"}
  /\ End(c, "failed")
  /\ UNCHANGED <<inputs, tests, dir, written, got, out>>

Kill(c) ==
  /\ Active(c) /\ End(c, "killed")
  /\ UNCHANGED <<inputs, tests, dir, written, got, out>>
-----------------------------------------------------------------------------
(* specgate capture                                                        *)

StartCapture(c) == pc[c] = "start" /\ PackageGuard(c, "check_out")

is_occupied == out.is # "absent" \/ \E a \in Artifact : dir[a].is # "absent"

CheckOut(c) ==
  /\ pc[c] = "check_out"
  /\ IF ~force[c] /\ is_occupied THEN End(c, "failed")
     ELSE Goto(c, "build") /\ UNCHANGED owner
  /\ UNCHANGED <<inputs, tests, dir, written, got, out>>

(* Rust: discovery, validate_setups, scratch directory, the test build and *)
(* the enumeration of its binaries.                                        *)
Build(c) ==
  /\ pc[c] = "build" /\ language = "Rust" /\ Goto(c, "test")
  /\ UNCHANGED <<inputs, owner, tests, dir, written, got, out>>

(* C#: the sources project, the weaver and every test project are resolved *)
(* (sources_project, weaver_targets, resolve_projects, inspect_project).   *)
ResolveProjects(c) ==
  /\ pc[c] = "build" /\ language = "CSharp" /\ Goto(c, "weave")
  /\ UNCHANGED <<inputs, owner, tests, dir, written, got, out>>

(* A test project is built with the weaver, whose report counts the        *)
(* methods it wove: abstracted to none or some.                            *)
BuildProject(c) ==
  /\ pc[c] = "weave" /\ Goto(c, "list")
  /\ \E count \in 0..1 : woven' = [woven EXCEPT ![c] = count]
  /\ UNCHANGED <<inputs, owner, ran, captures, dir, written, got, out>>

(* The projects' tests are listed and sorted; a scenario name that is      *)
(* listed twice ends the capture.                                          *)
ListTests(c) ==
  /\ pc[c] = "list"
  /\ \/ Goto(c, "reflect") /\ UNCHANGED owner
     \/ End(c, "failed")
  /\ UNCHANGED <<inputs, tests, dir, written, got, out>>

(* require_woven: tests of an unwoven project would record nothing.        *)
RequireWoven(count, operationsDiscovered) == count > 0 \/ ~operationsDiscovered

(* discover_built, validate_setups and require_woven, in this order.       *)
Reflect(c) ==
  /\ pc[c] = "reflect"
  /\ \E operationsDiscovered \in BOOLEAN :
       IF RequireWoven(woven[c], operationsDiscovered)
       THEN Goto(c, "test") /\ UNCHANGED owner
       ELSE End(c, "failed")
  /\ UNCHANGED <<inputs, tests, dir, written, got, out>>

(* Mutant: the exit status is looked at before the marker.                 *)
SettleStatusFirst(r) ==
  IF ~r.passed THEN "Failed"
  ELSE IF r.marker THEN "Err"
  ELSE IF r.sidecar \in {"absent", "empty"} THEN "Skipped"
  ELSE IF r.sidecar \in {"malformed", "alien"} THEN "Err"
  ELSE IF r.sidecar \in {"incomplete", "unrecordable"} THEN "Failed"
  ELSE "Captured"

(* Issued::settle, its checks in the code's order.                         *)
Settle(r) ==
  IF r.marker THEN "Err"
  ELSE IF ~r.passed THEN "Failed"
  ELSE IF r.sidecar \in {"absent", "empty"} THEN "Skipped"
  ELSE IF r.sidecar \in {"malformed", "alien"} THEN "Err"
  ELSE IF r.sidecar \in {"incomplete", "unrecordable"} THEN "Failed"
  ELSE "Captured"

More(c) == Len(ran[c]) < NumTests

(* verify_selection: the log is there, whole, and of one test.             *)
VerifySelection(r) == r.log \in {"Passed", "Failed", "NotExecuted"}

(* apply_outcome: a recording of a test that did not pass is not published *)
(* even when `dotnet test' exited successfully.                            *)
ApplyOutcome(settled, outcome) ==
  IF outcome = "Passed" \/ settled # "Captured" THEN settled ELSE "Failed"

(* One test of run_batch.                                                  *)
SettleCSharp(r) ==
  IF VerifySelection(r) THEN ApplyOutcome(Settle(r), r.log) ELSE "Err"

Settled(r) == IF language = "CSharp" THEN SettleCSharp(r) ELSE Settle(r)

(* ExecutedTests::record.                                                  *)
Record(c, settled) ==
  captures' = IF settled = "Captured"
              THEN [captures EXCEPT ![c] = @ \cup {Len(ran'[c])}]
              ELSE captures

(* One round of run_tests or run_batch: issue, run the test process,       *)
(* settle, record.  Only dotnet writes a result log, and an unwoven        *)
(* project records nothing.                                                *)
RunTest(c) ==
  /\ pc[c] = "test" /\ More(c)
  /\ \E r \in Results :
       /\ language = "Rust" => r.log = "none"
       /\ language = "CSharp" /\ woven[c] = 0 => r.sidecar = "absent"
       /\ ran' = [ran EXCEPT ![c] = Append(@, r)]
       /\ Record(c, Settled(r))
       /\ IF Settled(r) = "Err" THEN End(c, "failed") ELSE UNCHANGED <<pc, owner>>
  /\ UNCHANGED <<inputs, woven, dir, written, got, out>>

(* filter: scenarios with a top-level operation of the component.          *)
Selected(c) == {t \in captures[c] : ran[c][t].sidecar = "good"}

(* encode_bundle, link check included, for every request before anything   *)
(* is written.                                                             *)
Encode(c) ==
  /\ pc[c] = "test" /\ ~More(c)
  /\ \/ Selected(c) # {} /\ Goto(c, "create_dir") /\ UNCHANGED owner
     \/ End(c, "failed")
  /\ UNCHANGED <<inputs, tests, dir, written, got, out>>

CreateDir(c) ==
  /\ pc[c] = "create_dir" /\ Goto(c, "truncate")
  /\ UNCHANGED <<inputs, owner, tests, dir, written, got, out>>

(* fs::write: the file is opened and truncated, then filled.               *)
Truncate(c) ==
  /\ pc[c] = "truncate" /\ Goto(c, "fill")
  /\ dir' = [dir EXCEPT ![Artifacts[written[c] + 1]] = Torn(c)]
  /\ UNCHANGED <<inputs, owner, tests, written, got, out>>

Fill(c) ==
  /\ pc[c] = "fill"
  /\ dir' = [dir EXCEPT ![Artifacts[written[c] + 1]] = Whole(c)]
  /\ written' = [written EXCEPT ![c] = @ + 1]
  /\ IF written[c] + 1 < Len(Artifacts) THEN Goto(c, "truncate") /\ UNCHANGED owner
     ELSE End(c, "done")
  /\ UNCHANGED <<inputs, tests, got, out>>
-----------------------------------------------------------------------------
(* specgate replay                                                         *)

StartReplay(r) ==
  /\ pc[r] = "start" /\ Goto(r, "read")
  /\ UNCHANGED <<inputs, owner, tests, dir, written, got, out>>

ReadBundle(r) ==
  LET f == dir[ReadOrder[Len(got[r]) + 1]] IN
    /\ pc[r] = "read" /\ f.is # "absent"
    /\ got' = [got EXCEPT ![r] = Append(@, f)]
    /\ IF Len(got[r]) + 1 < Len(ReadOrder) THEN UNCHANGED pc ELSE Goto(r, "decode")
    /\ UNCHANGED <<inputs, owner, tests, dir, written, out>>

(* Mutant: only the registry's digest is compared.                         *)
VerifiedRegistryOnly(g) == /\ g[1].is = "whole"
                           /\ g[2] = Whole(g[1].by) /\ g[3].is = "whole"

(* decode_inner: the manifest parses and both digests match its own.       *)
Verified(g) == /\ g[1].is = "whole"
               /\ g[2] = Whole(g[1].by) /\ g[3] = Whole(g[1].by)

Decode(r) ==
  /\ pc[r] = "decode"
  /\ Goto(r, IF Verified(got[r]) THEN "guard" ELSE "failed")
  /\ UNCHANGED <<inputs, owner, tests, dir, written, got, out>>

(* discover_candidate takes the package's lock after resolving it.         *)
GuardCandidate(r) == pc[r] = "guard" /\ PackageGuard(r, "check_trace_out")

CheckTraceOut(r) ==
  /\ pc[r] = "check_trace_out"
  /\ IF ~force[r] /\ out.is # "absent" THEN End(r, "failed")
     ELSE Goto(r, "execute") /\ UNCHANGED owner
  /\ UNCHANGED <<inputs, tests, dir, written, got, out>>

(* build_plan, the runner process, encoding and linked validation.         *)
Execute(r) ==
  /\ pc[r] = "execute" /\ Goto(r, "stage")
  /\ UNCHANGED <<inputs, owner, tests, dir, written, got, out>>

(* publish: the temporary file is written and synced, ...                  *)
Stage(r) ==
  /\ pc[r] = "stage" /\ Goto(r, "remove")
  /\ UNCHANGED <<inputs, owner, tests, dir, written, got, out>>

(* ... an existing output is removed, ...                                  *)
RemoveExisting(r) ==
  /\ pc[r] = "remove" /\ Goto(r, "persist")
  /\ out' = Absent
  /\ UNCHANGED <<inputs, owner, tests, dir, written, got>>

(* ... and the temporary file renamed in its place.                        *)
Persist(r) ==
  /\ pc[r] = "persist" /\ End(r, "done")
  /\ out' = Whole(r)
  /\ UNCHANGED <<inputs, tests, dir, written, got>>

Next ==
  \/ \E c \in Capturer :
       \/ StartCapture(c) \/ CheckOut(c) \/ Build(c) \/ ResolveProjects(c)
       \/ BuildProject(c) \/ ListTests(c) \/ Reflect(c) \/ RunTest(c)
       \/ Encode(c) \/ CreateDir(c) \/ Truncate(c) \/ Fill(c)
  \/ \E r \in Replayer :
       \/ StartReplay(r) \/ ReadBundle(r) \/ Decode(r) \/ GuardCandidate(r)
       \/ CheckTraceOut(r) \/ Execute(r) \/ Stage(r) \/ RemoveExisting(r)
       \/ Persist(r)
  \/ \E c \in Command : Fail(c) \/ Kill(c)

Spec == Init /\ [][Next]_vars
-----------------------------------------------------------------------------
(* A result a capture may publish: the test passed, by its exit status and *)
(* by the log of a C# test, nothing failed to be recorded, and every       *)
(* operation of the component was finished.                                *)
Publishable(r) ==
  /\ r.passed /\ ~r.marker /\ r.sidecar = "good"
  /\ language = "CSharp" => r.log = "Passed"

(* Whatever a capture leaves in the bundle directory describes exactly the *)
(* publishable tests of a batch that ran to its end without a persistence  *)
(* failure in any test, failed tests included, and in C# with exactly one  *)
(* logged result for every test: nothing is written for a batch that was   *)
(* stopped (run_tests, run_batch, settle, write_with).                     *)
ArtifactsExact ==
  \A a \in Artifact, c \in Capturer : dir[a].by = c =>
    /\ Len(ran[c]) = NumTests
    /\ \A t \in Test : /\ ~ran[c][t].marker
                       /\ language = "CSharp" => VerifySelection(ran[c][t])
    /\ Selected(c) # {}
    /\ Selected(c) = {t \in Test : Publishable(ran[c][t])}

(* Without --force a capture writes only into a directory it found empty   *)
(* and that no capture of the same package has written to since: the       *)
(* package lock covers the check and the writes (facade.rs 96-118).        *)
NoClobber ==
  \A c, d \in Capturer :
    /\ ~force[c] /\ c # d /\ PackageOf[c] = PackageOf[d]
    /\ pc[c] \in {"build", "weave", "list", "reflect", "test", "create_dir",
                  "truncate", "fill"}
    => \A a \in Artifact : dir[a].by # d

(* A replay goes on only with the three files of one capture, each of them *)
(* whole, however its reads interleave with forced overwrites and whatever *)
(* killed or failed captures left behind (decode_inner's digest checks).   *)
ReplayOfOneCapture ==
  \A r \in Replayer :
    pc[r] \in {"guard", "check_trace_out", "execute", "stage", "remove",
               "persist", "done"} =>
      \E c \in Capturer : /\ got[r] = [n \in 1..3 |-> Whole(c)]
                          /\ Selected(c) # {}
                          /\ \A t \in Selected(c) : Publishable(ran[c][t])
=============================================================================
