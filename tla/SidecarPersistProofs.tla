------------------------ MODULE SidecarPersistProofs ------------------------
(***************************************************************************)
(* For every set of writers and captures and every number of attempts:     *)
(* persist_atomic keeps its types, leaves no litter, keeps the destination *)
(* sound, and implements AtomicSidecar.                                    *)
(***************************************************************************)
EXTENDS SidecarPersist, TLAPS

IInv == TypeOK /\ AtomicInv /\ NoLitter

USE DEF Content, File, Absent, Phase, Resting

(* The initial state satisfies the invariant.                              *)
LEMMA InitIInv == Init => IInv
  BY PersistAssumption DEF Init, IInv, TypeOK, AtomicInv, NoLitter, Sound

(* Every step preserves the types: in particular the attempt counter stays *)
(* within PERSIST_ATTEMPTS.                                                *)
LEMMA NextTypeOK == IInv /\ [Next]_vars => TypeOK'
<1> SUFFICES ASSUME IInv, [Next]_vars PROVE TypeOK'
  OBVIOUS
<1> USE PersistAssumption DEF IInv, TypeOK
<1>1. CASE UNCHANGED vars
  BY <1>1 DEF vars
<1>2. ASSUME NEW w \in Writer, NEW c \in Capture, PersistAtomic(w, c)
      PROVE TypeOK'
  BY <1>2 DEF PersistAtomic, At
<1>3. ASSUME NEW w \in Writer, Step(w) PROVE TypeOK'
  <2>1. CASE CreateDirAll(w)
    BY <2>1 DEF CreateDirAll, At, Goto
  <2>2. CASE CreateTemp(w)
    BY <2>2 DEF CreateTemp, At, Goto
  <2>3. CASE ToWriter(w)
    BY <2>3 DEF ToWriter, At, Goto
  <2>4. CASE Flush(w)
    BY <2>4 DEF Flush, At, Goto
  <2>5. CASE SyncAll(w)
    <3>1. 1 \in 0..PERSIST_ATTEMPTS
      OBVIOUS
    <3>2. call' \in [Writer -> [ph : Phase, cap : Capture \cup {NoFile},
                                attempt : 0..PERSIST_ATTEMPTS]]
      BY <2>5, <3>1 DEF SyncAll, Attempt
    <3> QED
      BY <2>5, <3>2 DEF SyncAll
  <2>6. CASE Fail(w)
    <3>1. call[w].cap \in Capture
      BY <2>6 DEF Fail, AtomicInv
    <3> QED
      BY <2>6, <3>1 DEF Fail, Return
  <2>7. CASE Replace(w)
    <3>1. call[w].cap \in Capture /\ temp[w] = "synced"
      BY <2>7 DEF Replace, At, AtomicInv
    <3> QED
      BY <2>7, <3>1 DEF Replace, At, Return
  <2>8. CASE ReplaceRejected(w)
    BY <2>8 DEF ReplaceRejected, At, Goto, Return
  <2>9. CASE Wait(w)
    <3>1. call[w].attempt + 1 \in 0..PERSIST_ATTEMPTS
      BY <2>9 DEF Wait, Attempt, At, AtomicInv
    <3> QED
      BY <2>9, <3>1 DEF Wait, Attempt, At
  <2> QED
    BY <1>3, <2>1, <2>2, <2>3, <2>4, <2>5, <2>6, <2>7, <2>8, <2>9 DEF Step
<1>4. CASE Kill
  BY <1>4 DEF Kill
<1>5. CASE PowerLoss
  BY <1>5 DEF PowerLoss
<1> QED
  BY <1>1, <1>2, <1>3, <1>4, <1>5 DEF Next

(* Every step keeps the destination, and every file it could be turned     *)
(* back into, sound.                                                       *)
LEMMA NextAtomicInv == IInv /\ [Next]_vars => AtomicInv'
<1> SUFFICES ASSUME IInv, [Next]_vars PROVE AtomicInv'
  OBVIOUS
<1> USE PersistAssumption DEF IInv, TypeOK
<1>1. CASE UNCHANGED vars
  BY <1>1 DEF vars, AtomicInv, Sound
<1>2. ASSUME NEW w \in Writer, NEW c \in Capture, PersistAtomic(w, c)
      PROVE AtomicInv'
  BY <1>2 DEF PersistAtomic, At, AtomicInv, Sound
<1>3. ASSUME NEW w \in Writer, Step(w) PROVE AtomicInv'
  <2>1. CASE CreateDirAll(w)
    BY <2>1 DEF CreateDirAll, At, Goto, AtomicInv, Sound
  <2>2. CASE CreateTemp(w)
    BY <2>2 DEF CreateTemp, At, Goto, AtomicInv, Sound
  <2>3. CASE ToWriter(w)
    BY <2>3 DEF ToWriter, At, Goto, AtomicInv, Sound
  <2>4. CASE Flush(w)
    BY <2>4 DEF Flush, At, Goto, AtomicInv, Sound
  <2>5. CASE SyncAll(w)
    BY <2>5 DEF SyncAll, Attempt, At, AtomicInv, Sound
  <2>6. CASE Fail(w)
    BY <2>6 DEF Fail, Return, AtomicInv, Sound
  <2>7. CASE Replace(w)
    BY <2>7 DEF Replace, At, Return, AtomicInv, Sound
  <2>8. CASE ReplaceRejected(w)
    <3>1. CASE call[w].attempt < PERSIST_ATTEMPTS
      <4>1. At(w, "replace") /\ Goto(w, "wait")
            /\ UNCHANGED <<temp, outcome, dest, held, up>>
        BY <2>8, <3>1 DEF ReplaceRejected
      <4> QED
        BY <3>1, <4>1 DEF At, Goto, AtomicInv, Sound
    <3>2. CASE call[w].attempt = PERSIST_ATTEMPTS
      <4>1. At(w, "replace") /\ Return(w, "err") /\ UNCHANGED <<dest, held, up>>
        BY <2>8, <3>2 DEF ReplaceRejected
      <4> QED
        BY <4>1 DEF At, Return, AtomicInv, Sound
    <3> QED
      BY <2>8, <3>1, <3>2 DEF ReplaceRejected
  <2>9. CASE Wait(w)
    BY <2>9 DEF Wait, Attempt, At, AtomicInv, Sound
  <2> QED
    BY <1>3, <2>1, <2>2, <2>3, <2>4, <2>5, <2>6, <2>7, <2>8, <2>9 DEF Step
<1>4. CASE Kill
  BY <1>4 DEF Kill, AtomicInv, Sound
<1>5. CASE PowerLoss
  BY <1>5 DEF PowerLoss, AtomicInv, Sound
<1> QED
  BY <1>1, <1>2, <1>3, <1>4, <1>5 DEF Next

(* Every step keeps temporary files tied to a call in progress.            *)
LEMMA NextNoLitter == IInv /\ [Next]_vars => NoLitter'
<1> SUFFICES ASSUME IInv, [Next]_vars PROVE NoLitter'
  OBVIOUS
<1> USE PersistAssumption DEF IInv, TypeOK, NoLitter
<1>1. CASE UNCHANGED vars
  BY <1>1 DEF vars
<1>2. ASSUME NEW w \in Writer, NEW c \in Capture, PersistAtomic(w, c)
      PROVE NoLitter'
  BY <1>2 DEF PersistAtomic, At
<1>3. ASSUME NEW w \in Writer, Step(w) PROVE NoLitter'
  <2>1. CASE CreateDirAll(w) \/ CreateTemp(w) \/ ToWriter(w) \/ Flush(w)
    BY <2>1 DEF CreateDirAll, CreateTemp, ToWriter, Flush, At, Goto
  <2>2. CASE SyncAll(w) \/ Wait(w)
    BY <2>2 DEF SyncAll, Wait, Attempt, At
  <2>3. CASE Fail(w) \/ Replace(w) \/ ReplaceRejected(w)
    BY <2>3 DEF Fail, Replace, ReplaceRejected, Return, At, Goto
  <2> QED
    BY <1>3, <2>1, <2>2, <2>3 DEF Step
<1>4. CASE Kill \/ PowerLoss
  BY <1>4 DEF Kill, PowerLoss
<1> QED
  BY <1>1, <1>2, <1>3, <1>4 DEF Next

(* The inductive invariant holds in every behaviour.                       *)
LEMMA Invariance == Spec => []IInv
<1>1. IInv /\ [Next]_vars => IInv'
  BY NextTypeOK, NextAtomicInv, NextNoLitter DEF IInv
<1> QED
  BY InitIInv, <1>1, PTL DEF Spec

(* persist_atomic is type-correct: the retry loop never counts past        *)
(* PERSIST_ATTEMPTS (io.rs 67-83).                                         *)
THEOREM TypeCorrect == Spec => []TypeOK
  BY Invariance, PTL DEF IInv

(* Whatever fails or stops, the destination is absent or one capture,      *)
(* whole and on disk, whose call reported success.                         *)
THEOREM DestinationSound == Spec => []AtomicInv
  BY Invariance, PTL DEF IInv

(* No error path of persist_atomic leaves its temporary file behind.       *)
THEOREM NoLitterLeft == Spec => []NoLitter
  BY Invariance, PTL DEF IInv

(* persist_atomic implements the atomic sidecar: its file-system calls     *)
(* amount to requests, single-step commits, rejections that touch nothing, *)
(* and stops that leave a committed capture.                               *)
THEOREM Refinement == Spec => Refines
<1> DEFINE f == IF dest.is = "torn" THEN dest ELSE dest.cap
<1> USE PersistAssumption DEF IInv, TypeOK
<1>1. Init => Atomic!AInit
  BY DEF Init, Atomic!AInit
<1>2. ASSUME IInv, [Next]_vars PROVE [Atomic!ANext]_(Atomic!avars)
  <2> USE <1>2
  <2>1. CASE UNCHANGED vars
    BY <2>1 DEF vars, Atomic!avars
  <2>2. ASSUME NEW w \in Writer, NEW c \in Capture, PersistAtomic(w, c)
        PROVE Atomic!ANext
    BY <2>2 DEF PersistAtomic, At, Atomic!ANext, Atomic!Request
  <2>3. ASSUME NEW w \in Writer, Step(w) PROVE [Atomic!ANext]_(Atomic!avars)
    <3>1. CASE CreateDirAll(w) \/ CreateTemp(w) \/ ToWriter(w) \/ Flush(w)
               \/ SyncAll(w) \/ Wait(w)
      BY <3>1 DEF CreateDirAll, CreateTemp, ToWriter, Flush, SyncAll, Wait,
                  Atomic!avars
    <3>2. CASE Fail(w)
      <4>1. call[w].cap \in Capture /\ outcome[call[w].cap] = "pending"
        BY <3>2 DEF Fail, AtomicInv
      <4>2. Atomic!Reject(call[w].cap)
        BY <3>2, <4>1 DEF Fail, Return, Atomic!Reject
      <4> QED
        BY <4>1, <4>2 DEF Atomic!ANext
    <3>3. CASE Replace(w)
      <4>1. /\ call[w].cap \in Capture /\ outcome[call[w].cap] = "pending"
            /\ temp[w] = "synced"
        BY <3>3 DEF Replace, At, AtomicInv
      <4>2. Atomic!Commit(call[w].cap)
        BY <3>3, <4>1 DEF Replace, At, Return, Atomic!Commit
      <4> QED
        BY <4>1, <4>2 DEF Atomic!ANext
    <3>4. CASE ReplaceRejected(w)
      <4>1. call[w].cap \in Capture /\ outcome[call[w].cap] = "pending"
        BY <3>4 DEF ReplaceRejected, At, AtomicInv
      <4>2. CASE call[w].attempt < PERSIST_ATTEMPTS
        BY <3>4, <4>2 DEF ReplaceRejected, Atomic!avars
      <4>3. CASE call[w].attempt = PERSIST_ATTEMPTS
        <5>1. Atomic!Reject(call[w].cap)
          BY <3>4, <4>1, <4>3 DEF ReplaceRejected, At, Return, Atomic!Reject
        <5> QED
          BY <4>1, <5>1 DEF Atomic!ANext
      <4> QED
        BY <3>4, <4>2, <4>3 DEF ReplaceRejected
    <3> QED
      BY <2>3, <3>1, <3>2, <3>3, <3>4 DEF Step
  <2>4. CASE Kill
    BY <2>4 DEF Kill, Atomic!ANext, Atomic!Stop
  <2>5. CASE PowerLoss
    <3>1. PICK g \in held :
            dest' = IF g.is \in {"absent", "synced"} THEN g
                    ELSE [g EXCEPT !.is = "torn"]
      BY <2>5 DEF PowerLoss
    <3>2. Sound(g)
      BY <3>1 DEF AtomicInv
    <3>3. dest' = g /\ (g = Absent \/ (g.cap \in Capture /\ outcome[g.cap] = "ok"
                                       /\ g.is = "synced"))
      BY <3>1, <3>2 DEF Sound
    <3>4. f' \in {NoFile} \cup Atomic!Committed
      BY <3>3 DEF Atomic!Committed
    <3> QED
      BY <2>5, <3>4 DEF PowerLoss, Atomic!ANext, Atomic!Stop
  <2> QED
    BY <2>1, <2>2, <2>3, <2>4, <2>5 DEF Next
<1> QED
  BY <1>1, <1>2, Invariance, PTL DEF Spec, Refines, Atomic!ASpec
=============================================================================
