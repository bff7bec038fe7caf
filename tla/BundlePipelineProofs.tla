------------------------ MODULE BundlePipelineProofs ------------------------
(***************************************************************************)
(* For every set of capture and replay commands, every assignment of       *)
(* packages to them, every number of tests and every set of test results:  *)
(* the bundle directory only ever describes finished batches, a capture    *)
(* without --force overwrites nothing of its package, and a replay goes on *)
(* only with the files of one capture.                                     *)
(***************************************************************************)
EXTENDS BundlePipeline, TLAPS

WritePhase   == {"create_dir", "truncate", "fill"}
CapturePhase == {"check_out", "build", "weave", "list", "reflect", "test"}
                  \cup WritePhase
LockedReplay == {"check_trace_out", "execute", "stage", "remove", "persist"}
ReplayPhase  == {"read", "decode", "guard"} \cup LockedReplay
Phase        == {"start"} \cup CapturePhase \cup ReplayPhase \cup Ended
File(W)      == [by : W \cup {Nobody}, is : {"absent", "torn", "whole"}]
Owners       == [Package -> Command \cup {Nobody}]

(* Commands keep to their own phases.                                      *)
PhaseInv ==
  /\ pc \in [Command -> Phase]
  /\ \A c \in Capturer : pc[c] \notin ReplayPhase
  /\ \A r \in Replayer : pc[r] \notin CapturePhase

(* The values of the other variables.                                      *)
DataInv ==
  /\ force \in [Command -> BOOLEAN] /\ language \in Languages
  /\ owner \in Owners
  /\ woven \in [Capturer -> 0..1]
  /\ ran \in [Capturer -> Seq(Results)]
  /\ captures \in [Capturer -> SUBSET Nat]
  /\ dir \in [Artifact -> File(Capturer)]
  /\ written \in [Capturer -> 0..3]
  /\ got \in [Replayer -> Seq(File(Capturer))]
  /\ out \in File(Replayer)

(* A command that has not ended has an artifact left to write.             *)
WrittenInv == \A c \in Capturer : pc[c] \notin Ended => written[c] < 3

TypeInv == PhaseInv /\ DataInv /\ WrittenInv

(* A command past its package_guard call holds its package's lock, and the *)
(* lock file of a package is held only by a command that is under way.     *)
LockInv ==
  /\ \A c \in Command :
       pc[c] \in CapturePhase \cup LockedReplay => owner[PackageOf[c]] = c
  /\ \A p \in Package : owner[p] # Nobody =>
       PackageOf[owner[p]] = p /\ pc[owner[p]] \in CapturePhase \cup LockedReplay

(* The tests settled so far: none of them ended the batch, and those whose *)
(* recordings were kept are the ones that settled as captured.             *)
Batch(c) ==
  /\ \A t \in 1..Len(ran[c]) : Settled(ran[c][t]) # "Err"
  /\ captures[c] = {t \in 1..Len(ran[c]) : Settled(ran[c][t]) = "Captured"}

(* A batch that was run to its end and has something to publish.           *)
Complete(c) == Batch(c) /\ Len(ran[c]) = NumTests /\ Selected(c) # {}

Clean    == {c \in Capturer : Batch(c)}
Finished == {c \in Capturer : Complete(c)}

(* Who can have written what: a capture is writing, a file of the bundle   *)
(* exists, or a replay has read one, only if the batch behind it is        *)
(* complete.                                                               *)
Provenance ==
  /\ \A c \in Capturer : /\ pc[c] \notin Ended => Len(ran[c]) <= NumTests /\ c \in Clean
                         /\ pc[c] \in WritePhase => c \in Finished
  /\ \A a \in Artifact : /\ dir[a].by = Nobody <=> dir[a].is = "absent"
                         /\ dir[a].by # Nobody => dir[a].by \in Finished
  /\ \A r \in Replayer : \A n \in 1..Len(got[r]) : got[r][n].by \in Finished

(* A replay holds all three files from "decode" on, and has verified them  *)
(* from "guard" on.                                                        *)
Reads(g, ph) ==
  /\ ph \in {"start", "read"} => Len(g) < 3
  /\ ph \in (ReplayPhase \ {"read"}) \cup {"done"} => Len(g) = 3
  /\ ph \in {"guard", "done"} \cup LockedReplay => Verified(g)

ReadInv == \A r \in Replayer : Reads(got[r], pc[r])

IInv == TypeInv /\ LockInv /\ Provenance /\ NoClobber /\ ReadInv

quiet == <<inputs, tests, dir, written, got, out>>
-----------------------------------------------------------------------------
USE DEF Command, WritePhase, CapturePhase, LockedReplay, ReplayPhase, Ended, Phase

(* What settling a result says about it.                                   *)
LEMMA SettledFacts ==
  ASSUME language \in Languages, NEW r \in Results
  PROVE  /\ Settled(r) # "Err" =>
              ~r.marker /\ (language = "CSharp" => VerifySelection(r))
         /\ Settled(r) = "Captured" /\ r.sidecar = "good" <=> Publishable(r)
<1>1. language = "Rust" \/ language = "CSharp"
  BY BundleAssumption DEF BundleAssumption
<1>2. r.passed \in BOOLEAN /\ r.marker \in BOOLEAN
  <2>1. r \in Result
    BY BundleAssumption DEF BundleAssumption
  <2> QED
    BY <2>1 DEF Result
<1>3. Settle(r) # "Err" => ~r.marker
  BY <1>2 DEF Settle
<1>4. Settle(r) = "Captured" /\ r.sidecar = "good"
      <=> r.passed /\ ~r.marker /\ r.sidecar = "good"
  BY <1>2 DEF Settle
<1>5. CASE language = "Rust"
  <2>1. Settled(r) = Settle(r)
    BY <1>5 DEF Settled
  <2> QED
    BY <1>3, <1>4, <1>5, <2>1 DEF Publishable
<1>6. CASE language = "CSharp"
  <2>1. Settled(r) = SettleCSharp(r)
    BY <1>6 DEF Settled
  <2>2. Settled(r) # "Err" => VerifySelection(r) /\ Settle(r) # "Err"
    BY <2>1 DEF SettleCSharp, ApplyOutcome
  <2>3. Settled(r) = "Captured" <=> Settle(r) = "Captured" /\ r.log = "Passed"
    BY <2>1 DEF SettleCSharp, ApplyOutcome, VerifySelection
  <2> QED
    BY <1>3, <1>4, <1>6, <2>2, <2>3 DEF Publishable
<1> QED
  BY <1>1, <1>5, <1>6

(* The initial states satisfy the invariant.                               *)
LEMMA InitIInv == Init => IInv
<1> SUFFICES ASSUME Init PROVE IInv
  OBVIOUS
<1> USE BundleAssumption DEF Init, Absent, BundleAssumption
<1>1. TypeInv
  BY DEF TypeInv, PhaseInv, DataInv, WrittenInv, Owners, File
<1>2. LockInv
  BY DEF LockInv
<1>3. Provenance
  BY DEF Provenance, Clean, Batch
<1>4. NoClobber
  BY DEF NoClobber
<1>5. ReadInv
  BY DEF ReadInv, Reads
<1> QED
  BY <1>1, <1>2, <1>3, <1>4, <1>5 DEF IInv
-----------------------------------------------------------------------------
(* Three ways a step treats the lock, and what each preserves.             *)

(* A command that ends leaves a lock table.                                *)
LEMMA EndOwner ==
  ASSUME DataInv, NEW c \in Command, NEW how, End(c, how)
  PROVE  owner' \in Owners
  BY DEF End, DataInv, Owners

(* So does one that takes its package's lock.                              *)
LEMMA GuardOwner ==
  ASSUME DataInv, NEW c \in Command, NEW next, PackageGuard(c, next)
  PROVE  owner' \in Owners
  BY BundleAssumption DEF PackageGuard, DataInv, Owners, BundleAssumption

(* A step that only moves one command and its lock keeps the types.        *)
LEMMA MoveTypeInv ==
  ASSUME TypeInv, NEW c \in Command, NEW ph \in Phase, Goto(c, ph),
         pc[c] \notin Ended,
         c \in Capturer => ph \notin ReplayPhase,
         c \in Replayer => ph \notin CapturePhase,
         owner' \in Owners, UNCHANGED quiet
  PROVE  TypeInv'
<1>1. PhaseInv'
  BY DEF TypeInv, PhaseInv, Goto
<1>2. DataInv'
  BY DEF TypeInv, DataInv, quiet, inputs, tests
<1>3. WrittenInv'
  BY DEF TypeInv, PhaseInv, WrittenInv, quiet, Goto
<1> QED
  BY <1>1, <1>2, <1>3 DEF TypeInv

Locked == CapturePhase \cup LockedReplay

(* A step that neither takes nor gives up a lock.                          *)
LEMMA LockKept ==
  ASSUME PhaseInv, LockInv, NEW c \in Command, NEW ph, Goto(c, ph),
         pc[c] \in Locked <=> ph \in Locked, UNCHANGED owner
  PROVE  LockInv'
  BY DEF PhaseInv, LockInv, Goto, Locked

(* A command that ends lets go of its lock and of no other.                *)
LEMMA LockReleased ==
  ASSUME TypeInv, LockInv, NEW c \in Command, NEW how \in Ended, End(c, how)
  PROVE  LockInv'
<1> USE BundleAssumption DEF BundleAssumption
<1>1. PhaseInv /\ owner \in Owners
  BY DEF TypeInv, DataInv
<1>2. ASSUME NEW d \in Command, pc'[d] \in Locked PROVE owner'[PackageOf[d]] = d
  BY <1>1, <1>2 DEF LockInv, End, Goto, PhaseInv, Locked
<1>3. ASSUME NEW p \in Package, owner'[p] # Nobody
      PROVE  PackageOf[owner'[p]] = p /\ pc'[owner'[p]] \in Locked
  <2>1. owner'[p] = owner[p] /\ owner[p] # c /\ owner[p] \in Command
    BY <1>1, <1>3 DEF End, Owners
  <2> QED
    BY <1>1, <1>3, <2>1 DEF LockInv, End, Goto, PhaseInv, Locked
<1> QED
  BY <1>2, <1>3 DEF LockInv, Locked

(* A command takes only the lock of its package, and only when it is free. *)
LEMMA LockTaken ==
  ASSUME TypeInv, LockInv, NEW c \in Command, NEW next \in Locked,
         pc[c] \notin Locked, PackageGuard(c, next)
  PROVE  LockInv'
<1> USE BundleAssumption DEF BundleAssumption
<1>1. PhaseInv /\ owner \in Owners
  BY DEF TypeInv, DataInv
<1>2. CASE owner[PackageOf[c]] # Nobody
  <2>1. Goto(c, "failed") /\ UNCHANGED owner
    BY <1>2 DEF PackageGuard
  <2> QED
    BY <1>1, <2>1, LockKept DEF Locked
<1>3. CASE owner[PackageOf[c]] = Nobody
  <2>1. Goto(c, next) /\ owner' = [owner EXCEPT ![PackageOf[c]] = c]
    BY <1>3 DEF PackageGuard
  <2>2. ASSUME NEW d \in Command, pc'[d] \in Locked PROVE owner'[PackageOf[d]] = d
    <3>1. CASE d = c
      BY <1>1, <2>1, <3>1 DEF Owners
    <3>2. CASE d # c
      <4>1. owner[PackageOf[d]] = d
        BY <1>1, <2>1, <2>2, <3>2 DEF LockInv, Goto, PhaseInv, Locked
      <4> QED
        BY <1>1, <1>3, <2>1, <4>1 DEF Owners
    <3> QED
      BY <3>1, <3>2
  <2>3. ASSUME NEW p \in Package, owner'[p] # Nobody
        PROVE  PackageOf[owner'[p]] = p /\ pc'[owner'[p]] \in Locked
    <3>1. CASE p = PackageOf[c]
      BY <1>1, <2>1, <3>1 DEF Owners, Goto, PhaseInv
    <3>2. CASE p # PackageOf[c]
      <4>1. owner'[p] = owner[p] /\ owner[p] \in Command
        BY <1>1, <2>1, <2>3, <3>2 DEF Owners
      <4>2. PackageOf[owner[p]] = p /\ pc[owner[p]] \in Locked
        BY <2>3, <4>1 DEF LockInv, Locked
      <4> QED
        BY <1>1, <2>1, <4>1, <4>2 DEF Goto, PhaseInv
    <3> QED
      BY <3>1, <3>2
  <2> QED
    BY <2>2, <2>3 DEF LockInv, Locked
<1> QED
  BY <1>2, <1>3
-----------------------------------------------------------------------------
(* What a step that moves command c to phase ph needs for the other parts  *)
(* of the invariant, when it leaves the variables they speak of alone.     *)

(* Whether a batch is complete depends on its results and on the language. *)
LEMMA CompleteFrame ==
  ASSUME UNCHANGED <<language, ran, captures>>
  PROVE  UNCHANGED <<Clean, Finished>>
  BY DEF Clean, Finished, Batch, Complete, Selected, Settled

(* A command starts writing only with a complete batch.                    *)
LEMMA ProvenanceFrame ==
  ASSUME TypeInv, Provenance, NEW c \in Command, NEW ph \in Phase, Goto(c, ph),
         pc[c] \notin Ended, c \in Capturer /\ ph \in WritePhase => c \in Finished,
         UNCHANGED <<language, ran, captures, dir, got>>
  PROVE  Provenance'
<1>1. UNCHANGED <<Clean, Finished>>
  BY CompleteFrame
<1>2. ASSUME NEW d \in Capturer
      PROVE  /\ pc'[d] \notin Ended => pc[d] \notin Ended
             /\ pc'[d] \in WritePhase => d \in Finished
  <2>1. pc'[d] = pc[d] \/ (d = c /\ pc'[d] = ph)
    BY DEF TypeInv, PhaseInv, Goto
  <2>2. pc[d] \in WritePhase => d \in Finished
    BY DEF Provenance
  <2> QED
    BY <2>1, <2>2
<1> QED
  BY <1>1, <1>2 DEF Provenance

Window == {"build", "weave", "list", "reflect", "test", "create_dir",
           "truncate", "fill"}

(* A capture enters the window between its check and its last write only   *)
(* by the check.                                                           *)
LEMMA NoClobberFrame ==
  ASSUME TypeInv, NoClobber, NEW c \in Command, NEW ph \in Phase, Goto(c, ph),
         c \in Capturer /\ ph \in Window => pc[c] \in Window,
         UNCHANGED <<force, dir>>
  PROVE  NoClobber'
<1>1. \A d \in Capturer : pc'[d] \in Window => pc[d] \in Window
  BY DEF TypeInv, PhaseInv, Goto
<1> QED
  BY <1>1 DEF NoClobber, Window

(* A step that reads nothing keeps what the replays have read.             *)
LEMMA ReadFrame ==
  ASSUME TypeInv, ReadInv, NEW c \in Command, NEW ph \in Phase, Goto(c, ph),
         c \in Replayer => Reads(got[c], ph), UNCHANGED got
  PROVE  ReadInv'
<1> SUFFICES ASSUME NEW r \in Replayer PROVE Reads(got[r], pc'[r])
  BY DEF ReadInv
<1>1. pc'[r] = pc[r] \/ (r = c /\ pc'[r] = ph)
  BY DEF TypeInv, PhaseInv, Goto
<1>2. Reads(got[r], pc[r])
  BY DEF ReadInv
<1> QED
  BY <1>1, <1>2, Zenon

(* A step that changes nothing but one command's phase keeps the whole     *)
(* invariant.                                                              *)
LEMMA MoveStep ==
  ASSUME IInv, NEW c \in Command, NEW ph \in Phase, Goto(c, ph),
         pc[c] \notin Ended,
         c \in Capturer => ph \notin ReplayPhase,
         c \in Replayer => ph \notin CapturePhase,
         pc[c] \in Locked <=> ph \in Locked,
         c \in Capturer /\ ph \in WritePhase => c \in Finished,
         c \in Capturer /\ ph \in Window => pc[c] \in Window,
         c \in Replayer => Reads(got[c], ph),
         UNCHANGED <<owner, quiet>>
  PROVE  IInv'
<1>1. TypeInv'
  BY MoveTypeInv DEF IInv, TypeInv, DataInv
<1>2. LockInv'
  BY LockKept DEF IInv, TypeInv
<1>3. Provenance'
  BY ProvenanceFrame DEF IInv, quiet, inputs, tests
<1>4. NoClobber'
  BY NoClobberFrame DEF IInv, quiet, inputs
<1>5. ReadInv'
  BY ReadFrame DEF IInv, quiet
<1> QED
  BY <1>1, <1>2, <1>3, <1>4, <1>5 DEF IInv

(* A command that fails or is killed keeps the whole invariant.            *)
LEMMA EndStep ==
  ASSUME IInv, NEW c \in Command, NEW how \in {"failed", "killed"},
         End(c, how), pc[c] \notin Ended, UNCHANGED quiet
  PROVE  IInv'
<1>1. TypeInv'
  BY EndOwner, MoveTypeInv DEF IInv, TypeInv, End
<1>2. LockInv'
  BY LockReleased DEF IInv
<1>3. Provenance'
  BY ProvenanceFrame DEF IInv, quiet, inputs, tests, End
<1>4. NoClobber'
  BY NoClobberFrame DEF IInv, quiet, inputs, End, Window
<1>5. ReadInv'
  BY ReadFrame DEF IInv, quiet, End, Reads
<1> QED
  BY <1>1, <1>2, <1>3, <1>4, <1>5 DEF IInv

(* package_guard keeps the whole invariant.                                *)
LEMMA GuardStep ==
  ASSUME IInv, NEW c \in Command,
         NEW next \in {"check_out", "check_trace_out"}, PackageGuard(c, next),
         \/ c \in Capturer /\ pc[c] = "start" /\ next = "check_out"
         \/ c \in Replayer /\ pc[c] = "guard" /\ next = "check_trace_out"
  PROVE  IInv'
<1> USE BundleAssumption DEF BundleAssumption
<1>0. PICK ph \in {next, "failed"} : Goto(c, ph)
  BY DEF PackageGuard
<1>1. TypeInv'
  BY <1>0, GuardOwner, MoveTypeInv DEF IInv, TypeInv, PackageGuard, quiet
<1>2. LockInv'
  BY LockTaken DEF IInv, Locked
<1>3. Provenance'
  BY <1>0, ProvenanceFrame DEF IInv, PackageGuard, inputs, tests
<1>4. NoClobber'
  BY <1>0, NoClobberFrame DEF IInv, PackageGuard, inputs, Window
<1>5. ReadInv'
  <2>1. c \in Replayer => Reads(got[c], ph)
    BY <1>0 DEF IInv, ReadInv, Reads
  <2> QED
    BY <1>0, <2>1, ReadFrame DEF IInv, PackageGuard
<1> QED
  BY <1>1, <1>2, <1>3, <1>4, <1>5 DEF IInv
-----------------------------------------------------------------------------
(* The steps of a capture.                                                 *)

(* The check that opens the window finds no file of another capture, or    *)
(* --force was given.                                                      *)
LEMMA CheckOutStep ==
  ASSUME IInv, NEW c \in Capturer, CheckOut(c)
  PROVE  IInv'
<1> USE BundleAssumption DEF BundleAssumption
<1>1. CASE ~force[c] /\ is_occupied
  BY <1>1, EndStep DEF CheckOut, quiet
<1>2. CASE ~(~force[c] /\ is_occupied)
  <2>0. Goto(c, "build") /\ pc[c] = "check_out" /\ UNCHANGED <<owner, quiet>>
    BY <1>2 DEF CheckOut, quiet
  <2>1. TypeInv'
    BY <2>0, MoveTypeInv DEF IInv, TypeInv, DataInv
  <2>2. LockInv'
    BY <2>0, LockKept DEF IInv, TypeInv, Locked
  <2>3. Provenance'
    BY <2>0, ProvenanceFrame DEF IInv, quiet, inputs, tests
  <2>4. NoClobber'
    <3> SUFFICES ASSUME NEW e \in Capturer, NEW d \in Capturer,
                        ~force[e], e # d, PackageOf[e] = PackageOf[d],
                        pc'[e] \in Window, NEW a \in Artifact
                 PROVE  dir[a].by # d
      BY <2>0 DEF NoClobber, Window, quiet, inputs
    <3>1. CASE e = c
      <4>1. dir[a].is = "absent"
        BY <1>2, <3>1 DEF is_occupied
      <4>2. dir[a].by = Nobody
        BY <4>1 DEF IInv, Provenance
      <4> QED
        BY <4>2
    <3>2. CASE e # c
      <4>1. pc[e] \in Window
        BY <2>0, <3>2 DEF Goto, IInv, TypeInv, PhaseInv
      <4> QED
        BY <4>1 DEF IInv, NoClobber, Window
    <3> QED
      BY <3>1, <3>2
  <2>5. ReadInv'
    BY <2>0, ReadFrame DEF IInv, quiet
  <2> QED
    BY <2>1, <2>2, <2>3, <2>4, <2>5 DEF IInv
<1> QED
  BY <1>1, <1>2

(* The weaver's report changes nothing the invariant speaks of.            *)
LEMMA BuildProjectStep ==
  ASSUME IInv, NEW c \in Capturer, BuildProject(c)
  PROVE  IInv'
<1> USE BundleAssumption DEF BundleAssumption
<1>0. /\ pc[c] = "weave" /\ Goto(c, "list") /\ UNCHANGED owner
      /\ UNCHANGED <<inputs, ran, captures, dir, written, got, out>>
      /\ woven' \in [Capturer -> 0..1]
  BY DEF BuildProject, IInv, TypeInv, DataInv
<1>1. TypeInv'
  <2>1. PhaseInv'
    BY <1>0 DEF IInv, TypeInv, PhaseInv, Goto
  <2>2. DataInv'
    BY <1>0 DEF IInv, TypeInv, DataInv, inputs
  <2>3. WrittenInv'
    BY <1>0 DEF IInv, TypeInv, PhaseInv, WrittenInv, Goto
  <2> QED
    BY <2>1, <2>2, <2>3 DEF TypeInv
<1>2. LockInv'
  BY <1>0, LockKept DEF IInv, TypeInv, Locked
<1>3. Provenance'
  BY <1>0, ProvenanceFrame DEF IInv, inputs
<1>4. NoClobber'
  BY <1>0, NoClobberFrame DEF IInv, inputs, Window
<1>5. ReadInv'
  BY <1>0, ReadFrame DEF IInv
<1> QED
  BY <1>1, <1>2, <1>3, <1>4, <1>5 DEF IInv

(* Running a test extends the batch by its result, or ends the capture.    *)
LEMMA RunTestStep ==
  ASSUME IInv, NEW c \in Capturer, RunTest(c)
  PROVE  IInv'
<1> USE BundleAssumption DEF BundleAssumption
<1>0. PICK r \in Results :
        /\ ran' = [ran EXCEPT ![c] = Append(@, r)]
        /\ Record(c, Settled(r))
        /\ IF Settled(r) = "Err" THEN End(c, "failed") ELSE UNCHANGED <<pc, owner>>
  BY DEF RunTest
<1>1. /\ pc[c] = "test" /\ Len(ran[c]) < NumTests /\ Len(ran[c]) \in Nat
      /\ UNCHANGED <<inputs, woven, dir, written, got, out>>
  BY DEF RunTest, More, IInv, TypeInv, DataInv
<1>2. PhaseInv /\ DataInv /\ TypeInv
  BY DEF IInv, TypeInv
<1>3. PICK ph \in {"test", "failed"} :
        Goto(c, ph) /\ (ph # "failed" => Settled(r) # "Err")
  BY <1>0, <1>1, <1>2 DEF End, Goto, PhaseInv
<1>4. /\ ran' \in [Capturer -> Seq(Results)]
      /\ ran'[c] = Append(ran[c], r) /\ Len(ran'[c]) = Len(ran[c]) + 1
      /\ \A d \in Capturer : d # c => ran'[d] = ran[d]
  BY <1>0, <1>2 DEF DataInv
<1>5. /\ captures' \in [Capturer -> SUBSET Nat]
      /\ \A d \in Capturer : d # c => captures'[d] = captures[d]
      /\ captures'[c] = IF Settled(r) = "Captured"
                        THEN captures[c] \cup {Len(ran[c]) + 1} ELSE captures[c]
  BY <1>0, <1>1, <1>2, <1>4 DEF DataInv, Record
<1>6. TypeInv'
  <2>1. PhaseInv'
    BY <1>2, <1>3 DEF PhaseInv, Goto
  <2>2. owner' \in Owners
    BY <1>0, <1>2, EndOwner DEF DataInv
  <2>3. DataInv'
    BY <1>1, <1>2, <1>4, <1>5, <2>2 DEF DataInv, inputs
  <2>4. WrittenInv'
    BY <1>1, <1>2, <1>3 DEF IInv, TypeInv, PhaseInv, WrittenInv, Goto
  <2> QED
    BY <2>1, <2>3, <2>4 DEF TypeInv
<1>7. LockInv'
  <2>1. CASE Settled(r) = "Err"
    BY <1>0, <1>2, <2>1, LockReleased DEF IInv
  <2>2. CASE Settled(r) # "Err"
    BY <1>0, <2>2 DEF IInv, LockInv
  <2> QED
    BY <2>1, <2>2
<1>8. Provenance'
  <2>1. c \notin Finished
    BY <1>1 DEF Finished, Complete
  <2>2. \A d \in Capturer : d # c => (d \in Clean' <=> d \in Clean)
                                 /\ (d \in Finished' <=> d \in Finished)
    BY <1>1, <1>4, <1>5 DEF Clean, Finished, Batch, Complete, Selected, Settled, inputs
  <2>3. Settled(r) # "Err" => c \in Clean'
    <3> SUFFICES ASSUME Settled(r) # "Err" PROVE Batch(c)'
      BY DEF Clean
    <3>1. c \in Clean
      BY <1>1 DEF IInv, Provenance
    <3>2. \A x : Settled(x)' = Settled(x)
      BY <1>1 DEF Settled, inputs
    <3>3. \A t \in 1..Len(ran[c]) + 1 :
             ran'[c][t] = IF t = Len(ran[c]) + 1 THEN r ELSE ran[c][t]
      BY <1>1, <1>2, <1>4 DEF DataInv
    <3> QED
      BY <1>1, <1>4, <1>5, <3>1, <3>2, <3>3 DEF Clean, Batch, Settled, inputs
  <2>4. ASSUME NEW d \in Capturer
        PROVE  /\ pc'[d] \notin Ended => Len(ran'[d]) <= NumTests /\ d \in Clean'
               /\ pc'[d] \in WritePhase => d \in Finished'
    <3>1. CASE d = c
      BY <1>1, <1>2, <1>3, <1>4, <2>3, <3>1 DEF Goto, PhaseInv
    <3>2. CASE d # c
      <4>1. pc'[d] = pc[d]
        BY <1>2, <1>3, <3>2 DEF Goto, PhaseInv
      <4> QED
        BY <1>4, <2>2, <3>2, <4>1 DEF IInv, Provenance
    <3> QED
      BY <3>1, <3>2
  <2>5. Finished \subseteq Finished'
    BY <2>1, <2>2 DEF Finished
  <2> QED
    BY <1>1, <2>4, <2>5 DEF IInv, Provenance
<1>9. NoClobber'
  BY <1>1, <1>2, <1>3, NoClobberFrame DEF IInv, inputs, Window
<1>10. ReadInv'
  BY <1>1, <1>2, <1>3, ReadFrame DEF IInv
<1> QED
  BY <1>6, <1>7, <1>8, <1>9, <1>10 DEF IInv

(* Only a batch run to its end with something to publish is encoded.       *)
LEMMA EncodeStep ==
  ASSUME IInv, NEW c \in Capturer, Encode(c)
  PROVE  IInv'
<1> USE BundleAssumption DEF BundleAssumption
<1>1. CASE End(c, "failed")
  BY <1>1, EndStep DEF Encode, quiet
<1>2. CASE Selected(c) # {} /\ Goto(c, "create_dir") /\ UNCHANGED owner
  <2>1. c \in Finished
    <3>1. ran[c] \in Seq(Results)
      BY DEF IInv, TypeInv, DataInv
    <3>2. pc[c] = "test"
      BY DEF Encode
    <3>3. Len(ran[c]) <= NumTests /\ c \in Clean
      BY <3>2 DEF IInv, Provenance
    <3> QED
      BY <1>2, <3>1, <3>3 DEF Encode, More, Finished, Complete, Clean
  <2>2. pc[c] = "test" /\ UNCHANGED <<owner, quiet>>
    BY <1>2 DEF Encode, quiet
  <2> QED
    BY <1>2, <2>1, <2>2, MoveStep DEF Locked, Window
<1> QED
  BY <1>1, <1>2 DEF Encode

(* Both halves of fs::write put a file of a complete batch in the place of *)
(* the next artifact, under the package's lock.                            *)
LEMMA WriteStep ==
  ASSUME IInv, NEW c \in Capturer, NEW f \in {Torn(c), Whole(c)},
         pc[c] \in {"truncate", "fill"},
         dir' = [dir EXCEPT ![Artifacts[written[c] + 1]] = f],
         NEW ph \in {"truncate", "fill", "done"}, Goto(c, ph),
         UNCHANGED <<inputs, tests, got, out>>
  PROVE  /\ dir' \in [Artifact -> File(Capturer)]
         /\ Provenance' /\ NoClobber' /\ ReadInv'
<1> USE BundleAssumption DEF BundleAssumption
<1>1. PhaseInv /\ DataInv /\ TypeInv
  BY DEF IInv, TypeInv
<1>2. Artifacts[written[c] + 1] \in Artifact
  <2>1. written[c] \in 0..3 /\ written[c] < 3
    BY DEF IInv, TypeInv, DataInv, WrittenInv
  <2>2. written[c] = 0 \/ written[c] = 1 \/ written[c] = 2
    BY <2>1
  <2> QED
    BY <2>2 DEF Artifacts, Artifact
<1>3. f \in File(Capturer) /\ f.by = c /\ f.is # "absent" /\ c # Nobody
  BY DEF Torn, Whole, File
<1>4. dir' \in [Artifact -> File(Capturer)]
  BY <1>1, <1>2, <1>3 DEF DataInv
<1>5. \A a \in Artifact : dir'[a] = f \/ dir'[a] = dir[a]
  BY <1>1, <1>2 DEF DataInv
<1>6. \A d \in Capturer : pc'[d] = pc[d] \/ (d = c /\ pc'[d] = ph)
  BY <1>1 DEF PhaseInv, Goto
<1>7. Provenance'
  <2>1. UNCHANGED <<Clean, Finished>>
    BY CompleteFrame DEF inputs, tests
  <2>2. c \in Finished
    BY DEF IInv, Provenance
  <2>3. ASSUME NEW d \in Capturer
        PROVE  /\ pc'[d] \notin Ended => pc[d] \notin Ended
               /\ pc'[d] \in WritePhase => d \in Finished
    <3>1. pc[d] \in WritePhase => d \in Finished
      BY DEF IInv, Provenance
    <3> QED
      BY <1>6, <2>2, <3>1
  <2>4. ASSUME NEW a \in Artifact
        PROVE  /\ dir'[a].by = Nobody <=> dir'[a].is = "absent"
               /\ dir'[a].by # Nobody => dir'[a].by \in Finished
    BY <1>3, <1>5, <2>2 DEF IInv, Provenance
  <2> QED
    BY <2>1, <2>3, <2>4 DEF IInv, Provenance, tests
<1>8. NoClobber'
  <2> SUFFICES ASSUME NEW e \in Capturer, NEW d \in Capturer,
                      ~force[e], e # d, PackageOf[e] = PackageOf[d],
                      pc'[e] \in Window, NEW a \in Artifact
               PROVE  dir'[a].by # d
    BY DEF NoClobber, Window, inputs
  <2>1. pc[e] \in Window
    BY <1>6 DEF Window
  <2>2. dir[a].by # d
    BY <2>1 DEF IInv, NoClobber, Window
  <2>3. d # c
    <3>1. owner[PackageOf[e]] = e /\ owner[PackageOf[c]] = c
      BY <2>1 DEF IInv, LockInv, Window
    <3> QED
      BY <3>1
  <2> QED
    BY <1>3, <1>5, <2>2, <2>3
<1>9. ReadInv'
  BY <1>1, ReadFrame DEF IInv
<1> QED
  BY <1>4, <1>7, <1>8, <1>9

(* A truncated file belongs to the capture that truncated it.              *)
LEMMA TruncateStep ==
  ASSUME IInv, NEW c \in Capturer, Truncate(c)
  PROVE  IInv'
<1> USE BundleAssumption DEF BundleAssumption
<1>1. /\ pc[c] = "truncate" /\ Goto(c, "fill") /\ UNCHANGED owner
      /\ dir' = [dir EXCEPT ![Artifacts[written[c] + 1]] = Torn(c)]
      /\ UNCHANGED <<inputs, tests, written, got, out>>
  BY DEF Truncate
<1>2. dir' \in [Artifact -> File(Capturer)] /\ Provenance' /\ NoClobber' /\ ReadInv'
  BY <1>1, WriteStep
<1>3. PhaseInv'
  BY <1>1 DEF IInv, TypeInv, PhaseInv, Goto
<1>4. DataInv'
  BY <1>1, <1>2 DEF IInv, TypeInv, DataInv, inputs, tests
<1>5. WrittenInv'
  BY <1>1 DEF IInv, TypeInv, PhaseInv, WrittenInv, Goto
<1>6. LockInv'
  BY <1>1, LockKept DEF IInv, TypeInv, Locked
<1> QED
  BY <1>2, <1>3, <1>4, <1>5, <1>6 DEF IInv, TypeInv

(* A filled file belongs to the capture that filled it.                    *)
LEMMA FillStep ==
  ASSUME IInv, NEW c \in Capturer, Fill(c)
  PROVE  IInv'
<1> USE BundleAssumption DEF BundleAssumption
<1>0. PhaseInv /\ DataInv /\ TypeInv
  BY DEF IInv, TypeInv
<1>1. /\ pc[c] = "fill" /\ written' = [written EXCEPT ![c] = @ + 1]
      /\ dir' = [dir EXCEPT ![Artifacts[written[c] + 1]] = Whole(c)]
      /\ UNCHANGED <<inputs, tests, got, out>>
  BY DEF Fill
<1>2. written[c] \in 0..2
  <2>1. written[c] \in 0..3 /\ written[c] < 3
    BY <1>1 DEF IInv, TypeInv, DataInv, WrittenInv
  <2> QED
    BY <2>1
<1>3. PICK ph \in {"truncate", "done"} :
        /\ Goto(c, ph) /\ (ph = "truncate" => written[c] + 1 < 3 /\ UNCHANGED owner)
        /\ (ph = "done" => End(c, "done"))
  BY DEF Fill, End, Artifacts
<1>4. dir' \in [Artifact -> File(Capturer)] /\ Provenance' /\ NoClobber' /\ ReadInv'
  BY <1>1, <1>3, WriteStep
<1>5. PhaseInv'
  BY <1>0, <1>3 DEF PhaseInv, Goto
<1>6. DataInv'
  <2>1. owner' \in Owners
    BY <1>0, <1>3, EndOwner DEF DataInv
  <2>2. written' \in [Capturer -> 0..3]
    BY <1>0, <1>1, <1>2 DEF DataInv
  <2> QED
    BY <1>0, <1>1, <1>4, <2>1, <2>2 DEF DataInv, inputs, tests
<1>7. WrittenInv'
  <2> SUFFICES ASSUME NEW d \in Capturer, pc'[d] \notin Ended PROVE written'[d] < 3
    BY DEF WrittenInv
  <2>1. CASE d = c
    BY <1>0, <1>1, <1>3, <2>1 DEF PhaseInv, DataInv, Goto
  <2>2. CASE d # c
    BY <1>0, <1>1, <1>3, <2>2 DEF IInv, TypeInv, WrittenInv, PhaseInv, DataInv, Goto
  <2> QED
    BY <2>1, <2>2
<1>8. LockInv'
  <2>1. CASE ph = "truncate"
    BY <1>0, <1>1, <1>3, <2>1, LockKept DEF IInv, Locked
  <2>2. CASE ph = "done"
    BY <1>0, <1>3, <2>2, LockReleased DEF IInv
  <2> QED
    BY <2>1, <2>2
<1> QED
  BY <1>4, <1>5, <1>6, <1>7, <1>8 DEF IInv, TypeInv

(* Every step of a capture keeps the invariant.                            *)
LEMMA CaptureStep ==
  ASSUME IInv, NEW c \in Capturer,
         \/ StartCapture(c) \/ CheckOut(c) \/ Build(c) \/ ResolveProjects(c)
         \/ BuildProject(c) \/ ListTests(c) \/ Reflect(c) \/ RunTest(c)
         \/ Encode(c) \/ CreateDir(c) \/ Truncate(c) \/ Fill(c)
  PROVE  IInv'
<1> USE BundleAssumption DEF BundleAssumption
<1>1. CASE StartCapture(c)
  BY <1>1, GuardStep DEF StartCapture
<1>2. CASE Build(c)
  BY <1>2, MoveStep DEF Build, quiet, Locked, Window
<1>3. CASE ResolveProjects(c)
  BY <1>3, MoveStep DEF ResolveProjects, quiet, Locked, Window
<1>4. CASE ListTests(c)
  <2>1. CASE End(c, "failed")
    BY <1>4, <2>1, EndStep DEF ListTests, quiet
  <2>2. CASE Goto(c, "reflect") /\ UNCHANGED owner
    BY <1>4, <2>2, MoveStep DEF ListTests, quiet, Locked, Window
  <2> QED
    BY <1>4, <2>1, <2>2 DEF ListTests
<1>5. CASE Reflect(c)
  <2>1. CASE End(c, "failed")
    BY <1>5, <2>1, EndStep DEF Reflect, quiet
  <2>2. CASE Goto(c, "test") /\ UNCHANGED owner
    BY <1>5, <2>2, MoveStep DEF Reflect, quiet, Locked, Window
  <2> QED
    BY <1>5, <2>1, <2>2 DEF Reflect
<1>6. CASE CreateDir(c)
  <2>1. c \in Finished
    BY <1>6 DEF CreateDir, IInv, Provenance
  <2> QED
    BY <1>6, <2>1, MoveStep DEF CreateDir, quiet, Locked, Window
<1> QED
  BY <1>1, <1>2, <1>3, <1>4, <1>5, <1>6, CheckOutStep, BuildProjectStep,
     RunTestStep, EncodeStep, TruncateStep, FillStep
-----------------------------------------------------------------------------
(* The steps of a replay.                                                  *)

(* A file is read only if it is there, so some complete batch wrote it.    *)
LEMMA ReadBundleStep ==
  ASSUME IInv, NEW r \in Replayer, ReadBundle(r)
  PROVE  IInv'
<1> USE BundleAssumption DEF BundleAssumption
<1> DEFINE f == dir[ReadOrder[Len(got[r]) + 1]]
<1>0. PhaseInv /\ DataInv /\ TypeInv
  BY DEF IInv, TypeInv
<1>1. /\ pc[r] = "read" /\ f.is # "absent" /\ got' = [got EXCEPT ![r] = Append(@, f)]
      /\ UNCHANGED <<inputs, owner, tests, dir, written, out>>
  BY DEF ReadBundle
<1>2. got[r] \in Seq(File(Capturer)) /\ Len(got[r]) \in 0..2
  <2>1. got[r] \in Seq(File(Capturer))
    BY <1>0 DEF DataInv
  <2>2. Len(got[r]) < 3
    BY <1>1 DEF IInv, ReadInv, Reads
  <2>3. \A n \in Nat : n < 3 => n \in 0..2
    OBVIOUS
  <2>4. Len(got[r]) \in Nat
    BY <2>1
  <2> QED
    BY <2>1, <2>2, <2>3, <2>4
<1>3. PICK a \in Artifact : f = dir[a]
  <2>1. \A n \in 0..2 : ReadOrder[n + 1] \in Artifact
    BY DEF ReadOrder, Artifact
  <2>2. ReadOrder[Len(got[r]) + 1] \in Artifact
    BY <1>2, <2>1
  <2> QED
    BY <2>2
<1>4. f \in File(Capturer) /\ f.by \in Finished
  BY <1>0, <1>1, <1>3 DEF DataInv, IInv, Provenance
<1> HIDE DEF f
<1>5. PICK ph \in {"read", "decode"} :
        Goto(r, ph) /\ (ph = "read" <=> Len(got[r]) + 1 < 3)
  BY <1>0, <1>1 DEF ReadBundle, ReadOrder, Goto, PhaseInv
<1>6. /\ got' \in [Replayer -> Seq(File(Capturer))]
      /\ got'[r] = Append(got[r], f) /\ Len(got'[r]) = Len(got[r]) + 1
      /\ \A s \in Replayer : s # r => got'[s] = got[s]
  BY <1>0, <1>1, <1>2, <1>4 DEF DataInv
<1>7. TypeInv'
  <2>1. PhaseInv'
    BY <1>0, <1>5 DEF PhaseInv, Goto
  <2>2. DataInv'
    BY <1>0, <1>1, <1>6 DEF DataInv, inputs, tests
  <2>3. WrittenInv'
    BY <1>0, <1>1, <1>5 DEF IInv, TypeInv, PhaseInv, WrittenInv, Goto
  <2> QED
    BY <2>1, <2>2, <2>3 DEF TypeInv
<1>8. LockInv'
  BY <1>0, <1>1, <1>5, LockKept DEF IInv, Locked
<1>9. Provenance'
  <2>1. UNCHANGED <<Clean, Finished>>
    BY <1>1, CompleteFrame DEF inputs, tests
  <2>2. \A d \in Capturer : pc'[d] = pc[d]
    BY <1>0, <1>5 DEF PhaseInv, Goto
  <2>3. ASSUME NEW s \in Replayer, NEW n \in 1..Len(got'[s])
        PROVE  got'[s][n].by \in Finished
    <3>1. CASE s # r
      BY <1>6, <2>3, <3>1 DEF IInv, Provenance
    <3>2. CASE s = r /\ n = Len(got[r]) + 1
      BY <1>2, <1>4, <1>6, <3>2
    <3>3. CASE s = r /\ n # Len(got[r]) + 1
      <4>1. n \in 1..Len(got[r]) /\ got'[s][n] = got[r][n]
        BY <1>2, <1>4, <1>6, <2>3, <3>3
      <4> QED
        BY <4>1 DEF IInv, Provenance
    <3> QED
      BY <3>1, <3>2, <3>3
  <2> QED
    BY <1>1, <2>1, <2>2, <2>3 DEF IInv, Provenance, tests
<1>10. NoClobber'
  BY <1>0, <1>1, <1>5, NoClobberFrame DEF IInv, inputs, Window
<1>11. ReadInv'
  <2> SUFFICES ASSUME NEW s \in Replayer PROVE Reads(got'[s], pc'[s])
    BY DEF ReadInv
  <2>1. CASE s = r
    <3>1. pc'[s] = ph
      BY <1>0, <1>5, <2>1 DEF PhaseInv, Goto
    <3>2. Len(got'[s]) = Len(got[r]) + 1 /\ Len(got[r]) \in 0..2
      BY <1>2, <1>6, <2>1
    <3>3. /\ ph = "read" => Len(got'[s]) < 3
          /\ ph = "decode" => Len(got'[s]) = 3
      <4>1. \A n \in 0..2 : ~(n + 1 < 3) => n + 1 = 3
        OBVIOUS
      <4>2. ~(Len(got[r]) + 1 < 3) => Len(got[r]) + 1 = 3
        BY <3>2, <4>1
      <4> QED
        BY <1>5, <3>2, <4>2
    <3> QED
      BY <3>1, <3>3 DEF Reads
  <2>2. CASE s # r
    BY <1>0, <1>5, <1>6, <2>2 DEF IInv, ReadInv, PhaseInv, Goto
  <2> QED
    BY <2>1, <2>2
<1> QED
  BY <1>7, <1>8, <1>9, <1>10, <1>11 DEF IInv

(* Publishing the replay's output changes only that output.                *)
LEMMA PublishStep ==
  ASSUME IInv, NEW r \in Replayer, RemoveExisting(r) \/ Persist(r)
  PROVE  IInv'
<1> USE BundleAssumption DEF BundleAssumption
<1>0. PhaseInv /\ DataInv /\ TypeInv
  BY DEF IInv, TypeInv
<1>1. /\ pc[r] \in {"remove", "persist"} /\ out' \in File(Replayer)
      /\ UNCHANGED <<inputs, tests, dir, written, got>>
  BY DEF RemoveExisting, Persist, Absent, Whole, File
<1>2. PICK ph \in {"persist", "done"} :
        /\ Goto(r, ph) /\ (ph = "persist" => UNCHANGED owner)
        /\ (ph = "done" => End(r, "done"))
  BY DEF RemoveExisting, Persist, End
<1>3. TypeInv'
  <2>1. PhaseInv'
    BY <1>0, <1>2 DEF PhaseInv, Goto
  <2>2. owner' \in Owners
    BY <1>0, <1>2, EndOwner DEF DataInv
  <2>3. DataInv'
    BY <1>0, <1>1, <2>2 DEF DataInv, inputs, tests
  <2>4. WrittenInv'
    BY <1>0, <1>1, <1>2 DEF IInv, TypeInv, PhaseInv, WrittenInv, Goto
  <2> QED
    BY <2>1, <2>3, <2>4 DEF TypeInv
<1>4. LockInv'
  <2>1. CASE ph = "persist"
    BY <1>0, <1>1, <1>2, <2>1, LockKept DEF IInv, Locked
  <2>2. CASE ph = "done"
    BY <1>0, <1>2, <2>2, LockReleased DEF IInv
  <2> QED
    BY <2>1, <2>2
<1>5. Provenance'
  BY <1>0, <1>1, <1>2, ProvenanceFrame DEF IInv, inputs, tests
<1>6. NoClobber'
  BY <1>0, <1>1, <1>2, NoClobberFrame DEF IInv, inputs, Window
<1>7. ReadInv'
  <2>1. Reads(got[r], ph)
    BY <1>1, <1>2 DEF IInv, ReadInv, Reads
  <2> QED
    BY <1>0, <1>1, <1>2, <2>1, ReadFrame DEF IInv
<1> QED
  BY <1>3, <1>4, <1>5, <1>6, <1>7 DEF IInv

(* Every step of a replay keeps the invariant.                             *)
LEMMA ReplayStep ==
  ASSUME IInv, NEW r \in Replayer,
         \/ StartReplay(r) \/ ReadBundle(r) \/ Decode(r) \/ GuardCandidate(r)
         \/ CheckTraceOut(r) \/ Execute(r) \/ Stage(r) \/ RemoveExisting(r)
         \/ Persist(r)
  PROVE  IInv'
<1> USE BundleAssumption DEF BundleAssumption
<1>0. Reads(got[r], pc[r])
  BY DEF IInv, ReadInv
<1>1. CASE StartReplay(r)
  BY <1>0, <1>1, MoveStep DEF StartReplay, quiet, Locked, Window, Reads
<1>2. CASE Decode(r)
  <2>1. PICK ph \in {"guard", "failed"} :
          Goto(r, ph) /\ (ph = "guard" => Verified(got[r]))
    BY <1>2 DEF Decode
  <2>2. Reads(got[r], ph)
    BY <1>0, <1>2, <2>1 DEF Decode, Reads
  <2> QED
    BY <1>2, <2>1, <2>2, MoveStep DEF Decode, quiet, Locked, Window
<1>3. CASE GuardCandidate(r)
  BY <1>3, GuardStep DEF GuardCandidate
<1>4. CASE CheckTraceOut(r)
  <2>1. CASE End(r, "failed")
    BY <1>4, <2>1, EndStep DEF CheckTraceOut, quiet
  <2>2. CASE Goto(r, "execute") /\ UNCHANGED owner
    BY <1>0, <1>4, <2>2, MoveStep DEF CheckTraceOut, quiet, Locked, Window, Reads
  <2> QED
    BY <1>4, <2>1, <2>2 DEF CheckTraceOut
<1>5. CASE Execute(r)
  BY <1>0, <1>5, MoveStep DEF Execute, quiet, Locked, Window, Reads
<1>6. CASE Stage(r)
  BY <1>0, <1>6, MoveStep DEF Stage, quiet, Locked, Window, Reads
<1> QED
  BY <1>1, <1>2, <1>3, <1>4, <1>5, <1>6, ReadBundleStep, PublishStep
-----------------------------------------------------------------------------
(* The inductive invariant holds in every behaviour.                       *)
LEMMA Invariance == Spec => []IInv
<1>1. ASSUME IInv, [Next]_vars PROVE IInv'
  <2>1. CASE UNCHANGED vars
    <3>1. UNCHANGED <<Clean, Finished>>
      BY <2>1, CompleteFrame DEF vars, inputs, tests
    <3>2. TypeInv'
      BY <1>1, <2>1 DEF vars, inputs, tests, IInv, TypeInv, PhaseInv, DataInv, WrittenInv
    <3>3. Provenance' /\ LockInv' /\ NoClobber' /\ ReadInv'
      BY <1>1, <2>1, <3>1 DEF vars, inputs, tests, IInv, Provenance, LockInv,
                              NoClobber, ReadInv
    <3> QED
      BY <3>2, <3>3 DEF IInv
  <2>2. ASSUME NEW c \in Command, Fail(c) \/ Kill(c) PROVE IInv'
    <3>1. PICK how \in {"failed", "killed"} : End(c, how)
      BY <2>2 DEF Fail, Kill
    <3>2. pc[c] \notin Ended /\ UNCHANGED quiet
      BY <2>2 DEF Fail, Kill, Active, quiet
    <3> QED
      BY <1>1, <3>1, <3>2, EndStep
  <2> QED
    BY <1>1, <2>1, <2>2, CaptureStep, ReplayStep DEF Next
<1> QED
  BY InitIInv, <1>1, PTL DEF Spec

(* Two commands past their package_guard call never work on one package.   *)
Exclusive ==
  \A c, d \in Command :
    /\ PackageOf[c] = PackageOf[d]
    /\ pc[c] \in Locked /\ pc[d] \in Locked
    => c = d

(* The package lock excludes: however many captures and replays run, fail  *)
(* or are killed, at most one of them is between its package_guard call    *)
(* and its end for any package (package_guard, facade.rs).                 *)
THEOREM LockExcludes == Spec => []Exclusive
<1>1. IInv => Exclusive
  BY DEF IInv, LockInv, Exclusive, Locked
<1> QED
  BY Invariance, <1>1, PTL

(* Whatever a capture leaves in the bundle directory describes exactly the *)
(* publishable tests of a batch that ran to its end: for every number of   *)
(* commands, packages and tests, whatever fails or is killed in between    *)
(* (run_tests, run_batch, settle, write_with).                             *)
THEOREM BundleExact == Spec => []ArtifactsExact
<1>1. ASSUME IInv PROVE ArtifactsExact
  <2> SUFFICES ASSUME NEW a \in Artifact, NEW c \in Capturer, dir[a].by = c
               PROVE  /\ Len(ran[c]) = NumTests
                      /\ \A t \in Test : /\ ~ran[c][t].marker
                                         /\ language = "CSharp" => VerifySelection(ran[c][t])
                      /\ Selected(c) # {}
                      /\ Selected(c) = {t \in Test : Publishable(ran[c][t])}
    BY DEF ArtifactsExact
  <2> USE <1>1, BundleAssumption DEF BundleAssumption
  <2>1. Complete(c)
    BY DEF IInv, Provenance, Finished
  <2>2. \A t \in Test : ran[c][t] \in Results
    BY <2>1 DEF IInv, TypeInv, DataInv, Complete, Test
  <2>3. language \in Languages
    BY DEF IInv, TypeInv, DataInv
  <2>4. \A t \in Test : /\ ~ran[c][t].marker
                        /\ language = "CSharp" => VerifySelection(ran[c][t])
    BY <2>1, <2>2, <2>3, SettledFacts DEF Complete, Batch, Test
  <2>5. Selected(c) = {t \in Test : Settled(ran[c][t]) = "Captured"
                                   /\ ran[c][t].sidecar = "good"}
    BY <2>1 DEF Complete, Batch, Selected, Test
  <2>6. Selected(c) = {t \in Test : Publishable(ran[c][t])}
    BY <2>2, <2>3, <2>5, SettledFacts
  <2> QED
    BY <2>1, <2>4, <2>6 DEF Complete
<1> QED
  BY Invariance, <1>1, PTL

(* A capture without --force never overwrites a file of another capture of *)
(* its package, for any number of commands and packages: the package lock  *)
(* covers the check and the writes (facade.rs 96-118).                     *)
THEOREM NothingClobbered == Spec => []NoClobber
  BY Invariance, PTL DEF IInv

(* A replay goes on only with three whole files of one capture, and only   *)
(* of tests that may be published, however reads, forced overwrites and    *)
(* crashes interleave (decode_inner's digest checks).                      *)
THEOREM OneCaptureReplayed == Spec => []ReplayOfOneCapture
<1>1. ASSUME IInv PROVE ReplayOfOneCapture
  <2> SUFFICES ASSUME NEW r \in Replayer,
                      pc[r] \in {"guard", "check_trace_out", "execute", "stage",
                                "remove", "persist", "done"}
               PROVE  \E c \in Capturer :
                        /\ got[r] = [n \in 1..3 |-> Whole(c)]
                        /\ Selected(c) # {}
                        /\ \A t \in Selected(c) : Publishable(ran[c][t])
    BY DEF ReplayOfOneCapture
  <2> USE <1>1, BundleAssumption DEF BundleAssumption
  <2> DEFINE c == got[r][1].by
  <2>1. Len(got[r]) = 3 /\ Verified(got[r]) /\ got[r] \in Seq(File(Capturer))
    BY DEF IInv, ReadInv, Reads, TypeInv, DataInv
  <2>2. c \in Capturer /\ Complete(c)
    BY <2>1 DEF IInv, Provenance, Finished
  <2>3. got[r] = [n \in 1..3 |-> Whole(c)]
    <3>1. got[r][1] \in File(Capturer) /\ got[r][1].is = "whole"
      BY <2>1 DEF Verified
    <3>2. got[r][1] = Whole(c) /\ got[r][2] = Whole(c) /\ got[r][3] = Whole(c)
      BY <2>1, <3>1 DEF Verified, Whole, File
    <3> HIDE DEF c
    <3>3. \A n \in 1..3 : got[r][n] = Whole(c)
      BY <3>2
    <3>4. DOMAIN got[r] = 1..3 /\ got[r] = [n \in 1..3 |-> got[r][n]]
      BY <2>1
    <3> QED
      BY <3>3, <3>4
  <2>4. ASSUME NEW t \in Selected(c) PROVE Publishable(ran[c][t])
    <3>1. /\ t \in 1..Len(ran[c]) /\ Settled(ran[c][t]) = "Captured"
          /\ ran[c][t].sidecar = "good"
      BY <2>2 DEF Complete, Batch, Selected
    <3>2. ran[c][t] \in Results /\ language \in Languages
      BY <2>2, <3>1 DEF IInv, TypeInv, DataInv
    <3> QED
      BY <3>1, <3>2, SettledFacts
  <2>5. Selected(c) # {}
    BY <2>2 DEF Complete
  <2> QED
    BY <2>2, <2>3, <2>4, <2>5
<1> QED
  BY Invariance, <1>1, PTL
=============================================================================
