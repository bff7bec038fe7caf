------------------------ MODULE NativeCaptureProofs ------------------------
(***************************************************************************)
(* For any threads, futures, bounds and modes of NativeCapture: the        *)
(* recorded operations stay a forest per collector, a snapshot never lies, *)
(* an operation gets one outcome, and an ended session is never touched.   *)
(*                                                                         *)
(* The argument rests on what every pointer in the runtime refers to: the  *)
(* collector's current operation, the operation a future's context and an  *)
(* installed poll remember, and the operation each scope owns.             *)
(***************************************************************************)
EXTENDS NativeCapture, SequenceTheorems, WellFoundedInduction, TLAPS

(* Operation i exists and was recorded by collector s.                     *)
OpOf(i, s) == i \in 1..Len(ops) /\ ops[i].ses = s

(* A collector's current operation is one of its own.                      *)
CurrentOK == \A s \in Thread : sess[s].current # 0 => OpOf(sess[s].current, s)

(* What a future's context remembers, and what an installed poll will put  *)
(* back, are operations of the collector in the context.                   *)
ContextOK ==
  /\ \A k \in Task : tasks[k].ctxOp # 0 => OpOf(tasks[k].ctxOp, tasks[k].ctxSes)
  /\ \A n \in 1..Len(frames) :
       /\ frames[n].task # NoTask => tasks[frames[n].task].st # "none"
       /\ frames[n].prevOp # 0 =>
            /\ frames[n].task # NoTask
            /\ OpOf(frames[n].prevOp, tasks[frames[n].task].ctxSes)

(* Every scope owns an operation of its own, open until the scope closes   *)
(* it.                                                                     *)
OwnersOK ==
  /\ \A n \in 1..Len(frames) : frames[n].op # 0 =>
       frames[n].op \in 1..Len(ops) /\ ops[frames[n].op].end = "open"
  /\ \A k \in Task : tasks[k].op # 0 =>
       /\ tasks[k].op \in 1..Len(ops)
       /\ tasks[k].scope = "open" => ops[tasks[k].op].end = "open"
  /\ \A m, n \in 1..Len(frames) :
       m # n /\ frames[m].op # 0 => frames[m].op # frames[n].op
  /\ \A j, k \in Task : j # k /\ tasks[j].op # 0 => tasks[j].op # tasks[k].op
  /\ \A n \in 1..Len(frames), k \in Task :
       frames[n].op # 0 => frames[n].op # tasks[k].op

(* A snapshot, taken or being written, claims only outcomes that           *)
(* operations really had.                                                  *)
SnapOK(f) ==
  \A i \in OpId : f[i] \in Closed => i \in 1..Len(ops) /\ f[i] = ops[i].end

SnapsOK == SnapOK(sidecar) /\ \A t \in Thread : SnapOK(io[t].snap)

IInv == /\ TypeOK /\ CurrentOK /\ ContextOK /\ OwnersOK /\ SessionForest
        /\ SnapsOK /\ FinishedIsComplete

(* What no step does to the operations already recorded.                   *)
Grown ==
  /\ Len(ops) <= Len(ops')
  /\ \A i \in 1..Len(ops) :
       /\ ops'[i].ses = ops[i].ses
       /\ ops'[i].parent = ops[i].parent
       /\ ops[i].end # "open" => ops'[i].end = ops[i].end

(* What no step does to a session that has ended.                          *)
EndedKept ==
  \A s \in Thread : sess[s].st \in {"finished", "rejected"} =>
    /\ sess'[s] = sess[s]
    /\ \A i \in 1..Len(ops') :
         ops'[i].ses = s => i \in 1..Len(ops) /\ ops'[i] = ops[i]
-----------------------------------------------------------------------------
(* Sequences and records                                                   *)

(* Removing a frame leaves a sequence of frames.                           *)
LEMMA PoppedFacts ==
  ASSUME frames \in Seq(Frame), NEW n \in 1..Len(frames)
  PROVE  /\ Popped(n) \in Seq(Frame)
         /\ Len(Popped(n)) = Len(frames) - 1
         /\ \A m \in 1..Len(Popped(n)) :
              Popped(n)[m] = frames[IF m < n THEN m ELSE m + 1]
<1> DEFINE L == Len(frames) - 1
<1>1. L \in Nat /\ Len(frames) \in Nat
  OBVIOUS
<1>2. Popped(n) \in [1..L -> Frame]
  <2>1. ASSUME NEW m \in 1..L
        PROVE  (IF m < n THEN frames[m] ELSE frames[m + 1]) \in Frame
    BY <1>1
  <2> QED
    BY <2>1 DEF Popped
<1>3. Popped(n) \in Seq(Frame)
  BY <1>1, <1>2, SeqDef
<1>4. Len(Popped(n)) = L
  BY <1>1, <1>2, <1>3, LenProperties
<1> QED
  BY <1>3, <1>4 DEF Popped

(* A new frame.                                                            *)
LEMMA PushedFacts ==
  ASSUME frames \in Seq(Frame), NEW f \in Frame
  PROVE  /\ Pushed(f) \in Seq(Frame)
         /\ Len(Pushed(f)) = Len(frames) + 1
         /\ Pushed(f)[Len(frames) + 1] = f
         /\ \A m \in 1..Len(frames) : Pushed(f)[m] = frames[m]
  BY AppendProperties DEF Pushed

(* A non-empty set of naturals has a least element.                        *)
LEMMA LeastNatural ==
  ASSUME NEW D, D \subseteq Nat, D # {}
  PROVE  \E d \in D : \A e \in D : d <= e
<1> DEFINE R == OpToRel(<, Nat)
<1>1. IsWellFoundedOn(R, Nat)
  BY NatLessThanWellFounded
<1>2. \A a, b \in Nat : a < b => <<a, b>> \in R
  BY DEF OpToRel
<1> HIDE DEF R
<1>3. PICK d \in D : \A e \in D : ~(<<e, d>> \in R)
  BY <1>1, WFMin
<1>4. \A e \in D : ~(e < d)
  BY <1>2, <1>3
<1> QED
  BY <1>4

(* A thread with frames has a newest one.                                  *)
LEMMA TopExists ==
  ASSUME frames \in Seq(Frame), NEW t \in Thread, ~AtBase(t)
  PROVE  \E n \in Mine(t) : IsTop(t, n)
<1> DEFINE L == Len(frames)
           D == {L - n : n \in Mine(t)}
<1>1. L \in Nat /\ Mine(t) \subseteq 1..L /\ Mine(t) # {}
  BY DEF Mine, AtBase
<1>2. D \subseteq Nat /\ D # {}
  BY <1>1
<1>3. PICK d \in D : \A e \in D : d <= e
  BY <1>2, LeastNatural
<1>4. PICK n \in Mine(t) : d = L - n
  BY <1>3
<1>5. ASSUME NEW m \in Mine(t) PROVE m <= n
  <2>1. L - m \in D
    OBVIOUS
  <2>2. L - n <= L - m
    BY <1>3, <1>4, <2>1
  <2>3. m \in Nat /\ n \in Nat /\ L \in Nat
    BY <1>1
  <2> HIDE DEF L
  <2> QED
    BY <2>2, <2>3
<1> QED
  BY <1>4, <1>5 DEF IsTop

(* The operation a thread is executing is an operation number.             *)
LEMMA CallerType ==
  ASSUME TypeOK, NEW t \in Thread
  PROVE  Caller(t) \in 0..MaxOps
<1>1. CASE AtBase(t)
  BY <1>1, ConstantAssumption DEF Caller
<1>2. CASE ~AtBase(t)
  <2> DEFINE n == CHOOSE n \in Mine(t) : IsTop(t, n)
  <2>1. n \in Mine(t)
    BY <1>2, TopExists DEF TypeOK
  <2>2. frames[n] \in Frame
    BY <2>1 DEF TypeOK, Mine
  <2>3. FrameOp(frames[n]) \in 0..MaxOps
    BY <2>2, ConstantAssumption DEF FrameOp, Frame, TypeOK, Future
  <2> QED
    BY <1>2, <2>3 DEF Caller
<1> QED
  BY <1>1, <1>2
-----------------------------------------------------------------------------
(* What the collector operations do                                        *)

(* A session after its collector was updated.                              *)
LEMMA UpdatedFacts ==
  ASSUME NEW S \in [Thread -> Session], NEW s \in Thread,
         NEW clock \in 0..MaxClock, NEW current \in 0..MaxOps,
         NEW failed \in BOOLEAN
  PROVE  /\ Updated(S, s, clock, current, failed) \in [Thread -> Session]
         /\ \A u \in Thread :
              u # s => Updated(S, s, clock, current, failed)[u] = S[u]
         /\ Updated(S, s, clock, current, failed)[s].st = S[s].st
         /\ Updated(S, s, clock, current, failed)[s].current = current
  BY DEF Updated, Session

(* A persistence in progress.                                              *)
LEMMA PersistingFacts ==
  ASSUME io \in [Thread -> Persistence], NEW t \in Thread, NEW s \in Thread,
         NEW i \in 0..MaxOps
  PROVE  /\ Persisting(t, s, i) \in [Thread -> Persistence]
         /\ \A u \in Thread : Persisting(t, s, i)[u].snap \in {io[u].snap, Blank}
<1>1. Blank \in [OpId -> Shown]
  BY DEF Blank, Shown
<1> QED
  BY <1>1 DEF Persisting, Persistence

(* report_error sets the failure flag of a live session and nothing else.  *)
LEMMA MarkErrorFacts ==
  ASSUME NEW S \in [Thread -> Session], slot \in [Thread -> Thread \cup {NoSession}],
         NEW t \in Thread
  PROVE  /\ MarkError(t, S) \in [Thread -> Session]
         /\ \A s \in Thread :
              /\ MarkError(t, S)[s].st = S[s].st
              /\ MarkError(t, S)[s].current = S[s].current
              /\ S[s].st # "live" => MarkError(t, S)[s] = S[s]
  BY DEF MarkError, Session

(* Activation gives the thread a collector without touching another.       *)
LEMMA ActivatedFacts ==
  ASSUME TypeOK, NEW t \in Thread
  PROVE  /\ Activated(t) \in Thread \cup {NoSession}
         /\ AfterActivation(t) \in [Thread -> Session]
         /\ \A s \in Thread :
              /\ AfterActivation(t)[s].current = sess[s].current
              /\ sess[s].st # "unused" => AfterActivation(t)[s] = sess[s]
              /\ AfterActivation(t)[s].st \in {sess[s].st, "live"}
  BY DEF TypeOK, Activated, AfterActivation, Session

(* No ended session changes, and only finish ends one.                     *)
SessionsKept ==
  /\ sess' \in [Thread -> Session]
  /\ \A s \in Thread :
       /\ sess[s].st \in {"finished", "rejected"} => sess'[s] = sess[s]
       /\ sess'[s].st = "finished" => sess[s].st = "finished"

SnapsKept ==
  /\ io' \in [Thread -> Persistence]
  /\ \A u \in Thread : io'[u].snap \in {io[u].snap, Blank}

(* A new operation number i of collector s, under the current one.         *)
Begun(i, s) ==
  /\ i = Len(ops) + 1
  /\ sess[s].st \notin {"finished", "rejected"}
  /\ Len(ops') = i
  /\ \A j \in 1..Len(ops) : ops'[j] = ops[j]
  /\ ops'[i].ses = s /\ ops'[i].parent = sess[s].current /\ ops'[i].end = "open"
  /\ \A u \in Thread :
       sess'[u].current = IF u = s THEN i ELSE sess[u].current

(* begin_active records one new operation or none.                         *)
LEMMA BeginFacts ==
  ASSUME TypeOK, NEW t \in Thread, NEW caller \in 0..MaxOps,
         Len(ops) < MaxOps, BeginActive(t, caller)
  PROVE  /\ slot' \in [Thread -> Thread \cup {NoSession}]
         /\ ops' \in Seq(Operation) /\ Len(ops') <= MaxOps
         /\ marker' \in BOOLEAN
         /\ ScopeOp(t) \in 0..MaxOps
         /\ SessionsKept
         /\ SnapsKept
         /\ \/ /\ ScopeOp(t) = 0 /\ ops' = ops
               /\ \A s \in Thread : sess'[s].current = sess[s].current
            \/ \E s \in Thread : Begun(ScopeOp(t), s)
<1> DEFINE s == Activated(t)
           S == AfterActivation(t)
           i == Len(ops) + 1
           o == [ses |-> s, parent |-> S[s].current, caller |-> caller,
                 end |-> "open", obs |-> <<>>]
<1>0. Len(ops) \in Nat /\ i \in 1..MaxOps /\ 0 \in 0..MaxOps
  BY ConstantAssumption DEF TypeOK
<1>1. /\ s \in Thread \cup {NoSession} /\ S \in [Thread -> Session]
      /\ \A u \in Thread :
           /\ S[u].current = sess[u].current
           /\ sess[u].st # "unused" => S[u] = sess[u]
           /\ S[u].st \in {sess[u].st, "live"}
  BY ActivatedFacts
<1>2. slot' \in [Thread -> Thread \cup {NoSession}]
  BY <1>1 DEF BeginActive, TypeOK
<1>3. CASE BeginRecords(t)
  <2>1. s \in Thread /\ S[s].st = "live" /\ CanTick(S[s].clock, 1)
    BY <1>1, <1>3 DEF BeginRecords
  <2>2. /\ ops' = Append(ops, o)
        /\ sess' = Updated(S, s, S[s].clock + 1, i, S[s].failed)
        /\ io' = Persisting(t, s, 0)
        /\ marker' = marker
    BY <1>3 DEF BeginActive, BeginRefused, BeginRecords
  <2>3. ScopeOp(t) = i
    BY <1>3 DEF ScopeOp
  <2>4. S[s] \in Session /\ S[s].clock + 1 \in 0..MaxClock
    BY <1>1, <2>1, ConstantAssumption DEF CanTick, Session
  <2>5. o \in Operation
    BY <1>0, <1>1, <2>1, <2>4, ConstantAssumption DEF Operation, Session
  <2> HIDE DEF s, S, o, i
  <2>6. /\ sess' \in [Thread -> Session]
        /\ \A u \in Thread : u # s => sess'[u] = S[u]
        /\ sess'[s].st = S[s].st /\ sess'[s].current = i
    <3>1. i \in 0..MaxOps /\ S[s].failed \in BOOLEAN
      BY <1>0, <2>4 DEF i, Session
    <3> QED
      BY <1>1, <2>1, <2>2, <2>4, <3>1, UpdatedFacts
  <2>7. ops' \in Seq(Operation) /\ Len(ops') = Len(ops) + 1
        /\ ops'[Len(ops) + 1] = o
        /\ \A j \in 1..Len(ops) : ops'[j] = ops[j]
    BY <2>2, <2>5, AppendProperties DEF TypeOK
  <2>8. SnapsKept
    BY <1>0, <2>1, <2>2, PersistingFacts DEF SnapsKept, TypeOK
  <2>9. SessionsKept
    BY <1>1, <2>1, <2>6 DEF SessionsKept, Session
  <2>10. o.ses = s /\ o.parent = sess[s].current /\ o.end = "open"
    BY <1>1, <2>1 DEF o
  <2>11. Begun(i, s)
    <3>1. sess[s].st \notin {"finished", "rejected"}
      BY <1>1, <2>1
    <3>2. \A u \in Thread : sess'[u].current = IF u = s THEN i ELSE sess[u].current
      BY <1>1, <2>6
    <3> QED
      BY <2>7, <2>10, <3>1, <3>2 DEF Begun, i
  <2> QED
    BY <1>0, <1>2, <2>1, <2>2, <2>3, <2>7, <2>8, <2>9, <2>11 DEF TypeOK, i
<1>4. CASE ~BeginRecords(t)
  <2>1. /\ ops' = ops /\ io' = io
        /\ \/ BeginRefused(t) /\ sess' = [S EXCEPT ![s].failed = TRUE]
                               /\ marker' = TRUE
           \/ sess' = S /\ marker' = marker
    BY <1>4 DEF BeginActive
  <2>2. ScopeOp(t) = 0
    BY <1>4 DEF ScopeOp
  <2>3. BeginRefused(t) => s \in Thread /\ S[s].st = "live"
    BY <1>1 DEF BeginRefused
  <2> HIDE DEF s, S
  <2>4. SessionsKept /\ \A u \in Thread : sess'[u].current = sess[u].current
    <3>1. CASE sess' = S
      BY <1>1, <3>1 DEF SessionsKept
    <3>2. CASE BeginRefused(t) /\ sess' = [S EXCEPT ![s].failed = TRUE]
      <4>1. /\ sess' \in [Thread -> Session]
            /\ \A u \in Thread : u # s => sess'[u] = S[u]
            /\ sess'[s].st = "live" /\ sess'[s].current = S[s].current
        BY <1>1, <2>3, <3>2 DEF Session
      <4> QED
        BY <1>1, <2>3, <3>2, <4>1 DEF SessionsKept
    <3> QED
      BY <2>1, <3>1, <3>2
  <2>5. SnapsKept
    BY <2>1 DEF SnapsKept, TypeOK
  <2> QED
    BY <1>0, <1>2, <2>1, <2>2, <2>4, <2>5 DEF TypeOK
<1> QED
  BY <1>3, <1>4

(* The end of the scope that owns operation i (0: none).                   *)
Closes(i) ==
  /\ SessionsKept
  /\ ops' \in Seq(Operation) /\ Len(ops') = Len(ops)
  /\ \A j \in 1..Len(ops) :
       /\ ops'[j].ses = ops[j].ses /\ ops'[j].parent = ops[j].parent
       /\ ops'[j] # ops[j] => j = i /\ sess[ops[j].ses].st = "live"
  /\ \A s \in Thread :
       \/ sess'[s].current = sess[s].current
       \/ i # 0 /\ ops[i].ses = s /\ sess'[s].current = ops[i].parent

(* The types of an operation and of its collector.                         *)
LEMMA OpFacts ==
  ASSUME TypeOK, NEW i \in 1..Len(ops)
  PROVE  /\ ops[i] \in Operation
         /\ ops[i].ses \in Thread /\ ops[i].parent \in 0..MaxOps
         /\ sess[ops[i].ses] \in Session
         /\ i \in 1..MaxOps
<1>1. ops \in Seq(Operation) /\ Len(ops) <= MaxOps
      /\ sess \in [Thread -> Session]
  BY DEF TypeOK
<1>2. ops[i] \in Operation
  BY <1>1
<1>3. ops[i].ses \in Thread /\ ops[i].parent \in 0..MaxOps
  BY <1>2 DEF Operation
<1> QED
  BY <1>1, <1>2, <1>3, ConstantAssumption

(* The clock never passes its last value.                                  *)
LEMMA TickedType ==
  ASSUME NEW c \in 0..MaxClock, NEW n \in {1, 2}
  PROVE  Ticked(c, n) \in 0..MaxClock
  BY ConstantAssumption DEF Ticked

(* An operation gets an outcome.                                           *)
LEMMA EndFacts ==
  ASSUME TypeOK, NEW i \in 1..Len(ops), NEW kind \in Closed,
         ops' = [ops EXCEPT ![i].end = kind]
  PROVE  /\ ops' \in Seq(Operation) /\ Len(ops') = Len(ops)
         /\ ops'[i].ses = ops[i].ses /\ ops'[i].parent = ops[i].parent
         /\ \A j \in 1..Len(ops) : j # i => ops'[j] = ops[j]
<1> DEFINE e == [ops[i] EXCEPT !.end = kind]
<1>1. ops[i] \in Operation
  BY DEF TypeOK
<1>2. e \in Operation /\ e.ses = ops[i].ses /\ e.parent = ops[i].parent
  BY <1>1 DEF Operation
<1>3. ops' = [ops EXCEPT ![i] = e]
  OBVIOUS
<1>4. ops \in Seq(Operation)
  BY DEF TypeOK
<1> HIDE DEF e
<1>5. /\ ops' \in Seq(Operation) /\ Len(ops') = Len(ops)
      /\ \A j \in 1..Len(ops) : ops'[j] = IF j = i THEN e ELSE ops[j]
  BY <1>2, <1>3, <1>4, ExceptSeq
<1> QED
  BY <1>2, <1>5

(* The current operation after a release.                                  *)
LEMMA ReleasedFacts ==
  ASSUME TypeOK, NEW i \in 1..Len(ops), NEW c \in 0..MaxOps
  PROVE  Released(c, i) \in 0..MaxOps /\ Released(c, i) \in {c, ops[i].parent}
  BY OpFacts DEF Released

(* A release that also records an outcome, or fails the session, or both.  *)
LEMMA ReleaseCloses ==
  ASSUME TypeOK, NEW i \in 1..Len(ops), Live(ops[i].ses),
         NEW S, NEW t \in Thread, NEW clock \in 0..MaxClock,
         NEW failed \in BOOLEAN, NEW kind \in Closed,
         S = Updated(sess, ops[i].ses, clock,
                     Released(sess[ops[i].ses].current, i), failed),
         sess' \in {S, MarkError(t, S)},
         ops' \in {ops, [ops EXCEPT ![i].end = kind]}
  PROVE  Closes(i)
<1> DEFINE s == ops[i].ses
           r == Released(sess[s].current, i)
<1>1. s \in Thread /\ sess[s].st = "live" /\ sess[s] \in Session
  BY OpFacts DEF Live
<1>2. r \in 0..MaxOps /\ r \in {sess[s].current, ops[i].parent}
  BY <1>1, ReleasedFacts DEF Session
<1>3. /\ S \in [Thread -> Session]
      /\ \A u \in Thread : u # s => S[u] = sess[u]
      /\ S[s].st = "live" /\ S[s].current = r
  <2> HIDE DEF s, r
  <2>1. sess \in [Thread -> Session]
    BY DEF TypeOK
  <2>2. S = Updated(sess, s, clock, r, failed)
    BY DEF s, r
  <2> QED
    BY <1>1, <1>2, <2>1, <2>2, UpdatedFacts
<1>4. /\ sess' \in [Thread -> Session]
      /\ \A u \in Thread : sess'[u].st = S[u].st /\ sess'[u].current = S[u].current
      /\ \A u \in Thread : S[u].st # "live" => sess'[u] = S[u]
  <2>1. CASE sess' = S
    BY <1>3, <2>1
  <2>2. CASE sess' = MarkError(t, S)
    <3> HIDE DEF s, r
    <3>1. S \in [Thread -> Session] /\ slot \in [Thread -> Thread \cup {NoSession}]
      BY <1>3 DEF TypeOK
    <3> QED
      BY <2>2, <3>1, MarkErrorFacts
  <2> QED
    BY <2>1, <2>2
<1>5. /\ ops' \in Seq(Operation) /\ Len(ops') = Len(ops)
      /\ \A j \in 1..Len(ops) :
           /\ ops'[j].ses = ops[j].ses /\ ops'[j].parent = ops[j].parent
           /\ ops'[j] # ops[j] => j = i
  <2>1. CASE ops' = ops
    BY <2>1 DEF TypeOK
  <2>2. CASE ops' = [ops EXCEPT ![i].end = kind]
    BY <2>2, EndFacts
  <2> QED
    BY <2>1, <2>2
<1> HIDE DEF s, r
<1>6. SessionsKept
  BY <1>1, <1>3, <1>4 DEF SessionsKept
<1>7. \A u \in Thread :
        \/ sess'[u].current = sess[u].current
        \/ u = s /\ sess'[u].current = ops[i].parent
  BY <1>1, <1>2, <1>3, <1>4
<1> QED
  BY <1>1, <1>5, <1>6, <1>7 DEF Closes, s

(* OperationScope::complete closes at most its own operation.              *)
LEMMA CompleteFacts ==
  ASSUME TypeOK, NEW t \in Thread, NEW i \in 0..Len(ops), NEW kind \in Closed,
         CompleteScope(t, i, kind)
  PROVE  Closes(i) /\ SnapsKept /\ marker' \in BOOLEAN
<1>0. sess \in [Thread -> Session] /\ Needs(kind) \in {1, 2}
  BY DEF TypeOK, Needs
<1>1. CASE i = 0
  BY <1>0, <1>1 DEF CompleteScope, Closes, SnapsKept, SessionsKept, TypeOK
<1>2. CASE i # 0 /\ ~Live(ops[i].ses)
  <2>1. sess' = MarkError(t, sess) /\ marker' = TRUE /\ ops' = ops /\ io' = io
    BY <1>2 DEF CompleteScope
  <2>2. SessionsKept /\ \A s \in Thread : sess'[s].current = sess[s].current
    BY <1>0, <2>1, MarkErrorFacts DEF TypeOK, SessionsKept
  <2> QED
    BY <2>1, <2>2 DEF Closes, SnapsKept, TypeOK
<1>3. CASE i # 0 /\ Live(ops[i].ses)
  <2> DEFINE s == ops[i].ses
             c == sess[s]
             r == Released(c.current, i)
  <2>1. i \in 1..Len(ops) /\ s \in Thread /\ c \in Session
    BY <1>3, OpFacts DEF TypeOK
  <2>2. CASE CanTick(c.clock, Needs(kind))
    <3>1. /\ ops' = [ops EXCEPT ![i].end = kind]
          /\ sess' = Updated(sess, s, c.clock + Needs(kind), r, c.failed)
          /\ io' = Persisting(t, s, i) /\ marker' = marker
      BY <1>3, <2>2 DEF CompleteScope
    <3>2. c.clock + Needs(kind) \in 0..MaxClock /\ c.failed \in BOOLEAN
      <4> HIDE DEF c
      <4>1. c.clock \in 0..MaxClock /\ c.failed \in BOOLEAN
        BY <2>1 DEF Session
      <4> HIDE DEF Needs
      <4> QED
        BY <1>0, <2>2, <4>1, ConstantAssumption DEF CanTick
    <3>3. Closes(i)
      BY <1>3, <2>1, <3>1, <3>2, ReleaseCloses
    <3>4. i \in 0..MaxOps
      BY <2>1, ConstantAssumption DEF TypeOK
    <3> QED
      BY <2>1, <3>1, <3>3, <3>4, PersistingFacts DEF SnapsKept, TypeOK
  <2>3. CASE ~CanTick(c.clock, Needs(kind))
    <3>1. /\ sess' = MarkError(t, Updated(sess, s, Ticked(c.clock, Needs(kind)),
                                          r, TRUE))
          /\ marker' = TRUE /\ ops' = ops /\ io' = io
      BY <1>3, <2>3 DEF CompleteScope
    <3>2. Ticked(c.clock, Needs(kind)) \in 0..MaxClock
      BY <1>0, <2>1, TickedType DEF Session
    <3>3. Closes(i)
      BY <1>3, <2>1, <3>1, <3>2, ReleaseCloses
    <3> QED
      BY <3>1, <3>3 DEF SnapsKept, TypeOK
  <2> QED
    BY <2>2, <2>3
<1> QED
  BY <1>1, <1>2, <1>3

(* Drop closes at most its own operation, and only if it is still open.    *)
LEMMA DropFacts ==
  ASSUME TypeOK, NEW t \in Thread, NEW i \in 0..Len(ops), DropScope(t, i)
  PROVE  Closes(i) /\ (i # 0 /\ ops[i].end # "open" => ops' = ops)
<1> DEFINE s == ops[i].ses
           c == sess[s]
           r == Released(c.current, i)
           kind == IF unwinding[t] THEN "fault" ELSE "abandoned"
           drops == i # 0 /\ Live(s) /\ ops[i].end = "open"
<1>0. sess \in [Thread -> Session] /\ kind \in Closed
  BY DEF TypeOK, Closed
<1>1. CASE ~drops
  <2>1. sess' = sess /\ ops' = ops
    BY <1>1 DEF DropScope
  <2> QED
    BY <1>0, <2>1 DEF Closes, SessionsKept, TypeOK
<1>2. CASE drops
  <2>1. i \in 1..Len(ops) /\ s \in Thread /\ c \in Session /\ Live(s)
    BY <1>2, OpFacts DEF TypeOK
  <2>2. CASE CanTick(c.clock, 2)
    <3>1. /\ ops' = [ops EXCEPT ![i].end = kind]
          /\ sess' = Updated(sess, s, c.clock + 2, r, c.failed)
      BY <1>2, <2>2 DEF DropScope
    <3>2. c.clock + 2 \in 0..MaxClock /\ c.failed \in BOOLEAN
      BY <2>1, <2>2, ConstantAssumption DEF CanTick, Session
    <3> HIDE DEF kind
    <3> QED
      BY <1>0, <1>2, <2>1, <3>1, <3>2, ReleaseCloses
  <2>3. CASE ~CanTick(c.clock, 2)
    <3>1. sess' = Updated(sess, s, Ticked(c.clock, 2), r, TRUE) /\ ops' = ops
      BY <1>2, <2>3 DEF DropScope
    <3>2. Ticked(c.clock, 2) \in 0..MaxClock
      BY <2>1, TickedType DEF Session
    <3> HIDE DEF kind
    <3> QED
      BY <1>0, <1>2, <2>1, <3>1, <3>2, ReleaseCloses
  <2> QED
    BY <2>2, <2>3
<1> QED
  BY <1>1, <1>2
-----------------------------------------------------------------------------
(* What follows for the whole recording                                    *)

(* A parent is an earlier operation of the same collector.                 *)
LEMMA ForestFacts ==
  ASSUME TypeOK, SessionForest, NEW j \in 1..Len(ops), ops[j].parent # 0
  PROVE  /\ ops[j].parent \in 1..Len(ops) /\ ops[j].parent < j
         /\ ops[ops[j].parent].ses = ops[j].ses
<1>1. Len(ops) \in Nat /\ DOMAIN ops = 1..Len(ops) /\ ops[j].parent \in 0..MaxOps
  BY OpFacts DEF TypeOK
<1>2. ops[j].parent < j /\ ops[ops[j].parent].ses = ops[j].ses
  BY <1>1 DEF SessionForest
<1> QED
  BY <1>1, <1>2, ConstantAssumption

(* A recorded operation keeps its number and its collector.                *)
LEMMA GrownOpOf ==
  ASSUME TypeOK, ops' \in Seq(Operation), Grown
  PROVE  \A i, s : OpOf(i, s) => i \in 1..Len(ops') /\ ops'[i].ses = s
  BY DEF TypeOK, Grown, OpOf

(* Snapshots stay true as operations are added and closed.                 *)
LEMMA GrownSnaps ==
  ASSUME TypeOK, SnapsOK, ops' \in Seq(Operation), Grown, SnapsKept,
         sidecar' = sidecar
  PROVE  SnapsOK'
<1>1. ASSUME NEW f, SnapOK(f), NEW i \in OpId, f[i] \in Closed
      PROVE  i \in 1..Len(ops') /\ f[i] = ops'[i].end
  <2>1. i \in 1..Len(ops) /\ f[i] = ops[i].end /\ ops[i].end # "open"
    BY <1>1 DEF SnapOK, Closed
  <2> QED
    BY <2>1 DEF Grown, TypeOK
<1>2. \A i \in OpId : Blank[i] \notin Closed
  BY DEF Blank, Closed
<1>3. SnapOK(sidecar)'
  BY <1>1 DEF SnapsOK, SnapOK
<1>4. ASSUME NEW t \in Thread PROVE SnapOK(io[t].snap)'
  <2>1. CASE io'[t].snap = io[t].snap
    BY <1>1, <2>1 DEF SnapsOK, SnapOK
  <2>2. CASE io'[t].snap = Blank
    BY <1>2, <2>2 DEF SnapOK, OpId, Blank
  <2> QED
    BY <2>1, <2>2 DEF SnapsKept
<1> QED
  BY <1>3, <1>4 DEF SnapsOK

(* A finished session stays complete.                                      *)
LEMMA EndedFinished ==
  ASSUME TypeOK, FinishedIsComplete, ops' \in Seq(Operation), SessionsKept,
         EndedKept
  PROVE  FinishedIsComplete'
<1> SUFFICES ASSUME NEW s \in Thread, sess'[s].st = "finished"
             PROVE  Open(s)' = {} /\ ~sess'[s].failed
  BY DEF FinishedIsComplete
<1>1. sess[s].st = "finished" /\ sess'[s] = sess[s]
  BY DEF SessionsKept
<1>2. Open(s) = {} /\ ~sess[s].failed
  BY <1>1 DEF FinishedIsComplete
<1>3. \A i \in 1..Len(ops') : ops'[i].ses = s => i \in 1..Len(ops) /\ ops'[i] = ops[i]
  BY <1>1 DEF EndedKept
<1> QED
  BY <1>1, <1>2, <1>3 DEF Open, TypeOK

(* The part of the invariant that is about the recording itself.           *)
Recording == CurrentOK /\ SessionForest /\ SnapsOK /\ FinishedIsComplete

Keeps == Recording' /\ Grown /\ EndedKept

(* A step that leaves the operations alone and points nowhere new.         *)
LEMMA QuietKeeps ==
  ASSUME TypeOK, Recording, ops' = ops, SnapsOK',
         SessionsKept,
         \A s \in Thread :
           sess'[s].current # 0 => OpOf(sess'[s].current, s)
  PROVE  Keeps
<1>1. Grown /\ EndedKept /\ ops' \in Seq(Operation)
  BY DEF Grown, EndedKept, SessionsKept, TypeOK
<1>2. CurrentOK'
  BY DEF CurrentOK, OpOf
<1>3. SessionForest'
  BY DEF SessionForest, Recording
<1> QED
  BY <1>1, <1>2, <1>3, EndedFinished DEF Keeps, Recording

(* A begin puts the new operation under one of the same collector.         *)
LEMMA BegunKeeps ==
  ASSUME TypeOK, Recording, NEW i, NEW s \in Thread, Begun(i, s),
         ops' \in Seq(Operation), SessionsKept, SnapsKept, sidecar' = sidecar
  PROVE  Keeps
<1>0. Len(ops) \in Nat /\ Len(ops') = Len(ops) + 1 /\ i = Len(ops) + 1
  BY DEF Begun, TypeOK
<1>1. Grown
  BY <1>0 DEF Grown, Begun
<1>2. EndedKept
  BY <1>0 DEF EndedKept, SessionsKept, Begun
<1>3. CurrentOK'
  <2>1. \A u \in Thread : sess'[u].current = IF u = s THEN i ELSE sess[u].current
    BY DEF Begun
  <2>2. i \in 1..Len(ops') /\ ops'[i].ses = s
    BY <1>0 DEF Begun
  <2> QED
    BY <1>1, <2>1, <2>2, GrownOpOf DEF CurrentOK, Recording, OpOf
<1>4. SessionForest'
  <2> SUFFICES ASSUME NEW j \in 1..Len(ops'), ops'[j].parent # 0
               PROVE  /\ ops'[j].parent < j
                      /\ ops'[ops'[j].parent].ses = ops'[j].ses
    BY DEF SessionForest
  <2>1. CASE j \in 1..Len(ops)
    <3>1. ops'[j] = ops[j]
      BY <2>1 DEF Begun
    <3>2. /\ ops[j].parent \in 1..Len(ops) /\ ops[j].parent < j
          /\ ops[ops[j].parent].ses = ops[j].ses
      BY <2>1, <3>1, ForestFacts DEF Recording
    <3> QED
      BY <3>1, <3>2 DEF Begun
  <2>2. CASE j = i
    <3>1. ops'[j].parent = sess[s].current /\ ops'[j].ses = s
      BY <2>2 DEF Begun
    <3>2. sess[s].current \in 1..Len(ops) /\ ops[sess[s].current].ses = s
      BY <3>1 DEF CurrentOK, OpOf, Recording
    <3> QED
      BY <1>0, <2>2, <3>1, <3>2 DEF Begun
  <2> QED
    BY <1>0, <2>1, <2>2
<1> QED
  BY <1>1, <1>2, <1>3, <1>4, GrownSnaps, EndedFinished DEF Keeps, Recording

(* A scope's end closes its own open operation and hands the pointer to    *)
(* that operation's parent.                                                *)
LEMMA ClosesKeeps ==
  ASSUME TypeOK, Recording, NEW i \in 0..Len(ops), Closes(i),
         i # 0 /\ ops[i].end # "open" => ops'[i].end = ops[i].end,
         SnapsKept, sidecar' = sidecar
  PROVE  Keeps
<1>0. ops' \in Seq(Operation) /\ Len(ops') = Len(ops) /\ SessionsKept
      /\ Len(ops) \in Nat
  BY DEF Closes, TypeOK
<1>1. Grown
  BY <1>0 DEF Grown, Closes
<1>2. EndedKept
  BY <1>0 DEF EndedKept, SessionsKept, Closes
<1>3. SessionForest'
  <2> SUFFICES ASSUME NEW j \in 1..Len(ops'), ops'[j].parent # 0
               PROVE  /\ ops'[j].parent < j
                      /\ ops'[ops'[j].parent].ses = ops'[j].ses
    BY DEF SessionForest
  <2>1. ops'[j].parent = ops[j].parent /\ ops'[j].ses = ops[j].ses /\ j \in 1..Len(ops)
    BY <1>0 DEF Closes
  <2>2. /\ ops[j].parent \in 1..Len(ops) /\ ops[j].parent < j
        /\ ops[ops[j].parent].ses = ops[j].ses
    BY <2>1, ForestFacts DEF Recording
  <2> QED
    BY <1>0, <2>1, <2>2 DEF Closes
<1>4. CurrentOK'
  <2> SUFFICES ASSUME NEW s \in Thread, sess'[s].current # 0
               PROVE  OpOf(sess[s].current, s)'
    BY DEF CurrentOK
  <2>1. OpOf(sess'[s].current, s)
    <3>1. CASE sess'[s].current = sess[s].current
      BY <3>1 DEF CurrentOK, Recording
    <3>2. CASE i # 0 /\ ops[i].ses = s /\ sess'[s].current = ops[i].parent
      <4>1. i \in 1..Len(ops) /\ ops[i].parent # 0
        BY <1>0, <3>2
      <4> QED
        BY <3>2, <4>1, ForestFacts DEF OpOf, Recording
    <3> QED
      BY <3>1, <3>2 DEF Closes
  <2> QED
    BY <1>0, <1>1, <2>1, GrownOpOf DEF OpOf
<1> QED
  BY <1>0, <1>1, <1>2, <1>3, <1>4, GrownSnaps, EndedFinished DEF Keeps, Recording
(* A future's remembered operations stay operations of its collector.      *)
LEMMA ContextKept ==
  ASSUME TypeOK, ops' \in Seq(Operation), Grown,
         \A k \in Task :
           tasks'[k].ctxOp # 0 => OpOf(tasks'[k].ctxOp, tasks'[k].ctxSes),
         \A n \in 1..Len(frames') :
           /\ frames'[n].task # NoTask => tasks'[frames'[n].task].st # "none"
           /\ frames'[n].prevOp # 0 =>
                /\ frames'[n].task # NoTask
                /\ OpOf(frames'[n].prevOp, tasks'[frames'[n].task].ctxSes)
  PROVE  ContextOK'
<1>1. \A i, s : OpOf(i, s) => i \in 1..Len(ops') /\ ops'[i].ses = s
  BY GrownOpOf
<1>2. \A k \in Task : tasks'[k].ctxOp # 0 =>
        /\ tasks'[k].ctxOp \in 1..Len(ops')
        /\ ops'[tasks'[k].ctxOp].ses = tasks'[k].ctxSes
  BY <1>1
<1>3. \A n \in 1..Len(frames') : frames'[n].prevOp # 0 =>
        /\ frames'[n].prevOp \in 1..Len(ops')
        /\ ops'[frames'[n].prevOp].ses = tasks'[frames'[n].task].ctxSes
  BY <1>1
<1> QED
  BY <1>2, <1>3 DEF ContextOK, OpOf

(* The futures of polls in progress are futures.                           *)
LEMMA FrameFacts ==
  ASSUME TypeOK, NEW n \in 1..Len(frames)
  PROVE  /\ frames[n] \in Frame
         /\ frames[n].task # NoTask => frames[n].task \in Task
         /\ frames[n].op \in 0..MaxOps /\ frames[n].prevOp \in 0..MaxOps
         /\ frames[n].prevSes \in Thread \cup {NoSession}
<1>1. frames[n] \in Frame
  BY DEF TypeOK
<1> QED
  BY <1>1 DEF Frame
-----------------------------------------------------------------------------
(* The actions that begin operations                                       *)

(* The scope of a new operation i (0: none was recorded).                  *)
Fresh(i) ==
  /\ Len(ops) <= Len(ops')
  /\ \A j \in 1..Len(ops) : ops'[j] = ops[j]
  /\ i # 0 => i = Len(ops) + 1 /\ i \in 1..Len(ops') /\ ops'[i].end = "open"

BeginTypes ==
  /\ sess' \in [Thread -> Session]
  /\ slot' \in [Thread -> Thread \cup {NoSession}]
  /\ ops' \in Seq(Operation) /\ Len(ops') <= MaxOps
  /\ io' \in [Thread -> Persistence]
  /\ marker' \in BOOLEAN

(* begin_active keeps the recording.                                       *)
LEMMA BeginKeeps ==
  ASSUME IInv, NEW t \in Thread, NEW caller \in 0..MaxOps,
         Len(ops) < MaxOps, BeginActive(t, caller), sidecar' = sidecar
  PROVE  /\ Keeps /\ BeginTypes
         /\ ScopeOp(t) \in 0..MaxOps /\ Fresh(ScopeOp(t))
<1>0. TypeOK /\ Recording /\ Len(ops) \in Nat
  BY DEF IInv, Recording, TypeOK
<1>1. /\ slot' \in [Thread -> Thread \cup {NoSession}]
      /\ ops' \in Seq(Operation) /\ Len(ops') <= MaxOps
      /\ marker' \in BOOLEAN
      /\ ScopeOp(t) \in 0..MaxOps /\ SessionsKept /\ SnapsKept
      /\ \/ /\ ScopeOp(t) = 0 /\ ops' = ops
            /\ \A s \in Thread : sess'[s].current = sess[s].current
         \/ \E s \in Thread : Begun(ScopeOp(t), s)
  BY <1>0, BeginFacts
<1>2. BeginTypes
  BY <1>1 DEF BeginTypes, SessionsKept, SnapsKept
<1>3. CASE /\ ScopeOp(t) = 0 /\ ops' = ops
           /\ \A s \in Thread : sess'[s].current = sess[s].current
  <2>1. Fresh(ScopeOp(t))
    BY <1>0, <1>3 DEF Fresh
  <2>2. Grown
    BY <1>0, <1>3 DEF Grown
  <2>3. SnapsOK'
    BY <1>0, <1>1, <2>2, GrownSnaps DEF Recording
  <2>4. \A s \in Thread : sess'[s].current # 0 => OpOf(sess'[s].current, s)
    BY <1>0, <1>3 DEF Recording, CurrentOK
  <2> QED
    BY <1>0, <1>1, <1>2, <1>3, <2>1, <2>3, <2>4, QuietKeeps
<1>4. CASE \E s \in Thread : Begun(ScopeOp(t), s)
  <2>1. PICK s \in Thread : Begun(ScopeOp(t), s)
    BY <1>4
  <2>2. Fresh(ScopeOp(t))
    BY <1>0, <2>1 DEF Fresh, Begun
  <2>3. Keeps
    BY <1>0, <1>1, <2>1, BegunKeeps
  <2> QED
    BY <1>1, <1>2, <2>2, <2>3
<1> QED
  BY <1>1, <1>3, <1>4

(* A synchronous call.                                                     *)
LEMMA BeginOperationKeeps ==
  ASSUME IInv, NEW t \in Thread, BeginOperation(t)
  PROVE  IInv' /\ Grown /\ EndedKept
<1> DEFINE i == ScopeOp(t)
           f == [thread |-> t, task |-> NoTask, op |-> i,
                 prevSes |-> NoSession, prevOp |-> 0]
<1>0. /\ TypeOK /\ ContextOK /\ OwnersOK
      /\ frames \in Seq(Frame) /\ Len(frames) \in Nat /\ Len(ops) \in Nat
  BY DEF IInv, TypeOK
<1>1. /\ Len(ops) < MaxOps /\ frames' = Pushed(f)
      /\ BeginActive(t, Caller(t))
      /\ UNCHANGED <<tasks, unwinding, sidecar, exited, acked>>
  BY DEF BeginOperation
<1>2. /\ Keeps /\ BeginTypes /\ i \in 0..MaxOps /\ Fresh(i)
  BY <1>0, <1>1, CallerType, BeginKeeps
<1>3. f \in Frame
  BY <1>2, ConstantAssumption DEF Frame
<1> HIDE DEF i, f
<1>4. /\ frames' \in Seq(Frame) /\ Len(frames') = Len(frames) + 1
      /\ frames'[Len(frames) + 1] = f
      /\ \A m \in 1..Len(frames) : frames'[m] = frames[m]
  BY <1>0, <1>1, <1>3, PushedFacts
<1>5. f.op = i /\ f.task = NoTask /\ f.prevOp = 0
  BY DEF f
<1>6. TypeOK'
  BY <1>0, <1>1, <1>2, <1>4 DEF TypeOK, BeginTypes
<1>7. \A m \in 1..Len(frames') :
        \/ m \in 1..Len(frames) /\ frames'[m] = frames[m]
        \/ m = Len(frames) + 1 /\ frames'[m] = f
  BY <1>0, <1>4
<1>8. ContextOK'
  <2>1. ops' \in Seq(Operation) /\ Grown
    BY <1>2 DEF Keeps, BeginTypes
  <2>2. \A n \in 1..Len(frames') :
           /\ frames'[n].task # NoTask => tasks[frames'[n].task].st # "none"
           /\ frames'[n].prevOp # 0 =>
                /\ frames'[n].task # NoTask
                /\ OpOf(frames'[n].prevOp, tasks[frames'[n].task].ctxSes)
    BY <1>0, <1>5, <1>7 DEF ContextOK
  <2>3. \A k \in Task : tasks[k].ctxOp # 0 => OpOf(tasks[k].ctxOp, tasks[k].ctxSes)
    BY <1>0 DEF ContextOK
  <2> QED
    BY <1>0, <1>1, <2>1, <2>2, <2>3, ContextKept
<1>9. OwnersOK'
  <2>1. \A m \in 1..Len(frames') : frames'[m].op # 0 =>
           frames'[m].op \in 1..Len(ops') /\ ops'[frames'[m].op].end = "open"
    BY <1>0, <1>2, <1>5, <1>7 DEF OwnersOK, Fresh
  <2>2. \A k \in Task : tasks[k].op # 0 =>
           /\ tasks[k].op \in 1..Len(ops')
           /\ tasks[k].scope = "open" => ops'[tasks[k].op].end = "open"
    BY <1>0, <1>2 DEF OwnersOK, Fresh
  <2>3. \A m, n \in 1..Len(frames') :
           m # n /\ frames'[m].op # 0 => frames'[m].op # frames'[n].op
    <3> SUFFICES ASSUME NEW m \in 1..Len(frames'), NEW n \in 1..Len(frames'),
                        m # n, frames'[m].op # 0
                 PROVE  frames'[m].op # frames'[n].op
      OBVIOUS
    <3>1. \A j \in 1..Len(frames) : frames[j].op # 0 => frames[j].op \in 1..Len(ops)
      BY <1>0 DEF OwnersOK
    <3>2. CASE m \in 1..Len(frames) /\ n \in 1..Len(frames)
      BY <1>0, <1>4, <3>2 DEF OwnersOK
    <3>3. CASE m = Len(frames) + 1
      BY <1>0, <1>2, <1>4, <1>5, <1>7, <3>1, <3>3 DEF Fresh
    <3>4. CASE n = Len(frames) + 1
      BY <1>0, <1>2, <1>4, <1>5, <1>7, <3>1, <3>4 DEF Fresh
    <3> QED
      BY <1>7, <3>2, <3>3, <3>4
  <2>4. \A n \in 1..Len(frames'), k \in Task :
           frames'[n].op # 0 => frames'[n].op # tasks[k].op
    BY <1>0, <1>2, <1>5, <1>7 DEF OwnersOK, Fresh
  <2> QED
    BY <1>0, <1>1, <2>1, <2>2, <2>3, <2>4 DEF OwnersOK
<1> QED
  BY <1>2, <1>6, <1>8, <1>9 DEF Keeps, Recording, IInv

(* The first poll of an annotated future.                                  *)
LEMMA BeginAsyncOperationKeeps ==
  ASSUME IInv, NEW t \in Thread, NEW n \in 1..Len(frames),
         BeginAsyncOperation(t, n)
  PROVE  IInv' /\ Grown /\ EndedKept
<1> DEFINE i == ScopeOp(t)
           k == frames[n].task
<1>0. /\ TypeOK /\ ContextOK /\ OwnersOK
      /\ tasks \in [Task -> Future] /\ Len(ops) \in Nat
  BY DEF IInv, TypeOK
<1>1. /\ k # NoTask /\ Len(ops) < MaxOps
      /\ tasks' = [tasks EXCEPT ![k].scope = "open", ![k].op = i]
      /\ BeginActive(t, tasks[k].caller)
      /\ UNCHANGED <<frames, unwinding, sidecar, exited, acked>>
  BY DEF BeginAsyncOperation
<1>2. k \in Task /\ tasks[k].caller \in 0..MaxOps
  BY <1>0, <1>1, FrameFacts DEF Future
<1>3. /\ Keeps /\ BeginTypes /\ i \in 0..MaxOps /\ Fresh(i)
  BY <1>1, <1>2, BeginKeeps
<1> HIDE DEF i, k
<1>4. /\ tasks' \in [Task -> Future]
      /\ \A j \in Task : j # k => tasks'[j] = tasks[j]
      /\ tasks'[k].op = i /\ tasks'[k].scope = "open"
      /\ tasks'[k].ctxOp = tasks[k].ctxOp /\ tasks'[k].ctxSes = tasks[k].ctxSes
      /\ tasks'[k].st = tasks[k].st
  BY <1>0, <1>1, <1>2, <1>3 DEF Future
<1>5. TypeOK'
  BY <1>0, <1>1, <1>3, <1>4 DEF TypeOK, BeginTypes
<1>6. ContextOK'
  <2>1. ops' \in Seq(Operation) /\ Grown
    BY <1>3 DEF Keeps, BeginTypes
  <2>2. \A j \in Task :
          /\ tasks'[j].ctxOp = tasks[j].ctxOp
          /\ tasks'[j].ctxSes = tasks[j].ctxSes
          /\ tasks'[j].st = tasks[j].st
    BY <1>4
  <2>3. \A m \in 1..Len(frames) : frames[m].task # NoTask => frames[m].task \in Task
    BY <1>0, FrameFacts
  <2> QED
    BY <1>0, <1>1, <2>1, <2>2, <2>3, ContextKept DEF ContextOK
<1>7. OwnersOK'
  <2>1. \A m \in 1..Len(frames) : frames[m].op # 0 =>
           frames[m].op \in 1..Len(ops') /\ ops'[frames[m].op].end = "open"
    BY <1>0, <1>3 DEF OwnersOK, Fresh
  <2>2. \A j \in Task : tasks'[j].op # 0 =>
           /\ tasks'[j].op \in 1..Len(ops')
           /\ tasks'[j].scope = "open" => ops'[tasks'[j].op].end = "open"
    BY <1>0, <1>3, <1>4 DEF OwnersOK, Fresh
  <2>3. \A h, j \in Task :
           h # j /\ tasks'[h].op # 0 => tasks'[h].op # tasks'[j].op
    <3> SUFFICES ASSUME NEW h \in Task, NEW j \in Task, h # j, tasks'[h].op # 0
                 PROVE  tasks'[h].op # tasks'[j].op
      OBVIOUS
    <3>1. \A g \in Task : tasks[g].op # 0 => tasks[g].op \in 1..Len(ops)
      BY <1>0 DEF OwnersOK
    <3>2. CASE h # k /\ j # k
      BY <1>0, <1>4, <3>2 DEF OwnersOK
    <3>3. CASE h = k
      BY <1>0, <1>3, <1>4, <3>1, <3>3 DEF Fresh
    <3>4. CASE j = k
      BY <1>0, <1>3, <1>4, <3>1, <3>4 DEF Fresh
    <3> QED
      BY <3>2, <3>3, <3>4
  <2>4. \A m \in 1..Len(frames), j \in Task :
           frames[m].op # 0 => frames[m].op # tasks'[j].op
    <3> SUFFICES ASSUME NEW m \in 1..Len(frames), NEW j \in Task, frames[m].op # 0
                 PROVE  frames[m].op # tasks'[j].op
      OBVIOUS
    <3>1. frames[m].op \in 1..Len(ops) /\ frames[m].op # tasks[j].op
      BY <1>0 DEF OwnersOK
    <3>2. CASE j # k
      BY <1>4, <3>1, <3>2
    <3>3. CASE j = k
      BY <1>0, <1>3, <1>4, <3>1, <3>3 DEF Fresh
    <3> QED
      BY <3>2, <3>3
  <2> QED
    BY <1>0, <1>1, <2>1, <2>2, <2>3, <2>4 DEF OwnersOK
<1> QED
  BY <1>3, <1>5, <1>6, <1>7 DEF Keeps, Recording, IInv
-----------------------------------------------------------------------------
(* The actions that end scopes                                             *)

(* The scopes that remain after the one owning operation i ended.          *)
LEMMA OwnersAfter ==
  ASSUME TypeOK, OwnersOK, NEW i \in 0..Len(ops),
         Len(ops') = Len(ops),
         \A j \in 1..Len(ops) : j # i => ops'[j] = ops[j],
         \A m \in 1..Len(frames') : \E n \in 1..Len(frames) :
           frames'[m] = frames[n] /\ (i # 0 => frames[n].op # i),
         \A m, n \in 1..Len(frames') :
           m # n /\ frames'[m].op # 0 => frames'[m].op # frames'[n].op,
         \A k \in Task :
           /\ tasks'[k].op = tasks[k].op
           /\ tasks'[k].scope \in {tasks[k].scope, "closed"}
           /\ i # 0 /\ tasks[k].op = i => tasks'[k].scope # "open"
  PROVE  OwnersOK'
<1>1. \A m \in 1..Len(frames') : frames'[m].op # 0 =>
        frames'[m].op \in 1..Len(ops') /\ ops'[frames'[m].op].end = "open"
  <2> SUFFICES ASSUME NEW m \in 1..Len(frames'), frames'[m].op # 0
               PROVE  frames'[m].op \in 1..Len(ops') /\ ops'[frames'[m].op].end = "open"
    OBVIOUS
  <2>1. PICK n \in 1..Len(frames) : frames'[m] = frames[n] /\ (i # 0 => frames[n].op # i)
    OBVIOUS
  <2>2. frames[n].op \in 1..Len(ops) /\ ops[frames[n].op].end = "open"
    BY <2>1 DEF OwnersOK
  <2> QED
    BY <2>1, <2>2
<1>2. \A k \in Task : tasks'[k].op # 0 =>
        /\ tasks'[k].op \in 1..Len(ops')
        /\ tasks'[k].scope = "open" => ops'[tasks'[k].op].end = "open"
  <2> SUFFICES ASSUME NEW k \in Task, tasks'[k].op # 0
               PROVE  /\ tasks'[k].op \in 1..Len(ops')
                      /\ tasks'[k].scope = "open" => ops'[tasks'[k].op].end = "open"
    OBVIOUS
  <2>1. /\ tasks[k].op \in 1..Len(ops)
        /\ tasks[k].scope = "open" => ops[tasks[k].op].end = "open"
    BY DEF OwnersOK
  <2>2. tasks'[k].scope = "open" => tasks[k].scope = "open" /\ tasks[k].op # i
    BY <2>1
  <2> QED
    BY <2>1, <2>2
<1>3. \A j, k \in Task : j # k /\ tasks'[j].op # 0 => tasks'[j].op # tasks'[k].op
  BY DEF OwnersOK
<1>4. \A m \in 1..Len(frames'), k \in Task :
        frames'[m].op # 0 => frames'[m].op # tasks'[k].op
  BY DEF OwnersOK
<1> QED
  BY <1>1, <1>2, <1>3, <1>4 DEF OwnersOK

(* The frames that remain after frame n was left own other operations.     *)
LEMMA PoppedOwners ==
  ASSUME TypeOK, OwnersOK, NEW n \in 1..Len(frames), frames' = Popped(n)
  PROVE  LET i == frames[n].op IN
         /\ \A m \in 1..Len(frames') : \E j \in 1..Len(frames) :
              frames'[m] = frames[j] /\ (i # 0 => frames[j].op # i)
         /\ \A m, j \in 1..Len(frames') :
              m # j /\ frames'[m].op # 0 => frames'[m].op # frames'[j].op
<1> DEFINE i == frames[n].op
           At(m) == IF m < n THEN m ELSE m + 1
<1>1. frames \in Seq(Frame) /\ Len(frames) \in Nat
  BY DEF TypeOK
<1>2. \A m \in 1..Len(frames') :
        At(m) \in 1..Len(frames) /\ At(m) # n /\ frames'[m] = frames[At(m)]
  BY <1>1, PoppedFacts
<1>3. \A m, j \in 1..Len(frames') : m # j => At(m) # At(j)
  OBVIOUS
<1> HIDE DEF At
<1>4. \A m \in 1..Len(frames') : \E j \in 1..Len(frames) :
        frames'[m] = frames[j] /\ (i # 0 => frames[j].op # i)
  BY <1>2 DEF OwnersOK
<1>5. \A m, j \in 1..Len(frames') :
        m # j /\ frames'[m].op # 0 => frames'[m].op # frames'[j].op
  <2> SUFFICES ASSUME NEW m \in 1..Len(frames'), NEW j \in 1..Len(frames'),
                      m # j, frames'[m].op # 0
               PROVE  frames'[m].op # frames'[j].op
    OBVIOUS
  <2>1. /\ At(m) \in 1..Len(frames) /\ At(j) \in 1..Len(frames) /\ At(m) # At(j)
        /\ frames'[m] = frames[At(m)] /\ frames'[j] = frames[At(j)]
    BY <1>2, <1>3
  <2> QED
    BY <2>1 DEF OwnersOK
<1> QED
  BY <1>4, <1>5

(* A synchronous body returns or panics.                                   *)
LEMMA CompleteOperationKeeps ==
  ASSUME IInv, NEW t \in Thread, NEW n \in 1..Len(frames), NEW kind \in Closed,
         CompleteOperation(t, n, kind)
  PROVE  IInv' /\ Grown /\ EndedKept
<1> DEFINE i == frames[n].op
<1>0. /\ TypeOK /\ ContextOK /\ OwnersOK /\ Recording
      /\ frames \in Seq(Frame) /\ Len(frames) \in Nat /\ Len(ops) \in Nat
  BY DEF IInv, TypeOK, Recording
<1>1. /\ frames' = Popped(n) /\ CompleteScope(t, i, kind)
      /\ UNCHANGED <<slot, tasks, unwinding, sidecar, exited, acked>>
  BY DEF CompleteOperation
<1>2. i \in 0..Len(ops) /\ (i # 0 => ops[i].end = "open")
  BY <1>0, FrameFacts DEF OwnersOK
<1>3. Closes(i) /\ SnapsKept /\ marker' \in BOOLEAN
  BY <1>0, <1>1, <1>2, CompleteFacts
<1>4. Keeps
  BY <1>0, <1>1, <1>2, <1>3, ClosesKeeps
<1>5. /\ frames' \in Seq(Frame) /\ Len(frames') = Len(frames) - 1
      /\ \A m \in 1..Len(frames') : frames'[m] = frames[IF m < n THEN m ELSE m + 1]
  BY <1>0, <1>1, PoppedFacts
<1>6. TypeOK'
  BY <1>0, <1>1, <1>3, <1>5 DEF TypeOK, Closes, SessionsKept, SnapsKept
<1>7. ContextOK'
  <2>1. ops' \in Seq(Operation) /\ Grown
    BY <1>3, <1>4 DEF Keeps, Closes
  <2>2. \A m \in 1..Len(frames') : \E j \in 1..Len(frames) : frames'[m] = frames[j]
    BY <1>0, <1>5
  <2> QED
    BY <1>0, <1>1, <2>1, <2>2, ContextKept DEF ContextOK
<1>8. OwnersOK'
  <2>1. /\ \A m \in 1..Len(frames') : \E j \in 1..Len(frames) :
             frames'[m] = frames[j] /\ (i # 0 => frames[j].op # i)
        /\ \A m, j \in 1..Len(frames') :
             m # j /\ frames'[m].op # 0 => frames'[m].op # frames'[j].op
    BY <1>0, <1>1, PoppedOwners
  <2>2. Len(ops') = Len(ops) /\ \A j \in 1..Len(ops) : j # i => ops'[j] = ops[j]
    BY <1>3 DEF Closes
  <2>3. \A k \in Task : i # 0 => tasks[k].op # i
    BY <1>0 DEF OwnersOK
  <2> HIDE DEF i
  <2>4. \A k \in Task :
          /\ tasks'[k].op = tasks[k].op
          /\ tasks'[k].scope \in {tasks[k].scope, "closed"}
          /\ i # 0 /\ tasks[k].op = i => tasks'[k].scope # "open"
    BY <1>1, <2>3
  <2> QED
    BY <1>0, <1>2, <2>1, <2>2, <2>4, OwnersAfter
<1> QED
  BY <1>4, <1>6, <1>7, <1>8 DEF Keeps, Recording, IInv

(* The scope inside future k ends, by completion or by being dropped.      *)
LEMMA FutureScopeEnds ==
  ASSUME IInv, NEW k \in Task, Closes(tasks[k].op),
         LET i == tasks[k].op IN
           i # 0 /\ ops[i].end # "open" => ops'[i].end = ops[i].end,
         SnapsKept, marker' \in BOOLEAN,
         tasks' \in [Task -> Future],
         \A j \in Task : j # k => tasks'[j] = tasks[j],
         tasks'[k].scope = "closed", tasks'[k].op = tasks[k].op,
         tasks'[k].ctxOp = tasks[k].ctxOp, tasks'[k].ctxSes = tasks[k].ctxSes,
         tasks'[k].st # "none" \/ tasks'[k].st = tasks[k].st,
         UNCHANGED <<slot, frames, unwinding, sidecar, exited, acked>>
  PROVE  IInv' /\ Grown /\ EndedKept
<1> DEFINE i == tasks[k].op
<1>0. /\ TypeOK /\ ContextOK /\ OwnersOK /\ Recording /\ Len(ops) \in Nat
  BY DEF IInv, TypeOK, Recording
<1>1. i \in 0..Len(ops)
  BY <1>0 DEF OwnersOK
<1>2. Keeps
  BY <1>0, <1>1, ClosesKeeps
<1>3. TypeOK'
  BY <1>0 DEF TypeOK, Closes, SessionsKept, SnapsKept
<1>4. ContextOK'
  <2>1. ops' \in Seq(Operation) /\ Grown
    BY <1>2 DEF Keeps, Closes
  <2>2. \A j \in Task :
          /\ tasks'[j].ctxOp = tasks[j].ctxOp
          /\ tasks'[j].ctxSes = tasks[j].ctxSes
          /\ tasks[j].st # "none" => tasks'[j].st # "none"
    OBVIOUS
  <2>3. \A m \in 1..Len(frames) : frames[m].task # NoTask => frames[m].task \in Task
    BY <1>0, FrameFacts
  <2> QED
    BY <1>0, <2>1, <2>2, <2>3, ContextKept DEF ContextOK
<1>5. OwnersOK'
  <2>1. \A m \in 1..Len(frames') : \E j \in 1..Len(frames) :
          frames'[m] = frames[j] /\ (i # 0 => frames[j].op # i)
    BY <1>0 DEF OwnersOK
  <2>2. \A m, j \in 1..Len(frames') :
          m # j /\ frames'[m].op # 0 => frames'[m].op # frames'[j].op
    BY <1>0 DEF OwnersOK
  <2>3. \A j \in Task :
          /\ tasks'[j].op = tasks[j].op
          /\ tasks'[j].scope \in {tasks[j].scope, "closed"}
          /\ i # 0 /\ tasks[j].op = i => tasks'[j].scope # "open"
    BY <1>0 DEF OwnersOK
  <2>4. Len(ops') = Len(ops) /\ \A j \in 1..Len(ops) : j # i => ops'[j] = ops[j]
    BY DEF Closes
  <2> QED
    BY <1>0, <1>1, <2>1, <2>2, <2>3, <2>4, OwnersAfter
<1> QED
  BY <1>2, <1>3, <1>4, <1>5 DEF Keeps, Recording, IInv

(* An async body resolves.                                                 *)
LEMMA CompleteAsyncOperationKeeps ==
  ASSUME IInv, NEW t \in Thread, NEW n \in 1..Len(frames), NEW kind \in Closed,
         CompleteAsyncOperation(t, n, kind)
  PROVE  IInv' /\ Grown /\ EndedKept
<1> DEFINE k == frames[n].task
           i == tasks[k].op
<1>0. /\ TypeOK /\ OwnersOK /\ tasks \in [Task -> Future] /\ Len(ops) \in Nat
  BY DEF IInv, TypeOK
<1>1. /\ k # NoTask /\ tasks[k].scope = "open"
      /\ tasks' = [tasks EXCEPT ![k].scope = "closed"]
      /\ CompleteScope(t, i, kind)
      /\ UNCHANGED <<slot, frames, unwinding, sidecar, exited, acked>>
  BY DEF CompleteAsyncOperation
<1>2. k \in Task
  BY <1>0, <1>1, FrameFacts
<1>3. i \in 0..Len(ops) /\ (i # 0 => ops[i].end = "open")
  BY <1>0, <1>1, <1>2 DEF OwnersOK
<1>4. Closes(i) /\ SnapsKept /\ marker' \in BOOLEAN
  BY <1>0, <1>1, <1>3, CompleteFacts
<1> HIDE DEF k
<1>5. /\ tasks' \in [Task -> Future]
      /\ \A j \in Task : j # k => tasks'[j] = tasks[j]
      /\ tasks'[k].op = tasks[k].op /\ tasks'[k].scope = "closed"
      /\ tasks'[k].ctxOp = tasks[k].ctxOp /\ tasks'[k].ctxSes = tasks[k].ctxSes
      /\ tasks'[k].st = tasks[k].st
  BY <1>0, <1>1, <1>2 DEF Future
<1> QED
  BY <1>1, <1>2, <1>3, <1>4, <1>5, FutureScopeEnds

(* A panic drops the scope of the future being polled.                     *)
LEMMA UnwindFutureKeeps ==
  ASSUME IInv, NEW t \in Thread, NEW n \in 1..Len(frames), UnwindFuture(t, n)
  PROVE  IInv' /\ Grown /\ EndedKept
<1> DEFINE k == frames[n].task
           i == tasks[k].op
<1>0. /\ TypeOK /\ OwnersOK /\ tasks \in [Task -> Future] /\ Len(ops) \in Nat
      /\ io \in [Thread -> Persistence] /\ marker \in BOOLEAN
  BY DEF IInv, TypeOK
<1>1. /\ k # NoTask
      /\ tasks' = [tasks EXCEPT ![k].scope = "closed"]
      /\ DropScope(t, i)
      /\ UNCHANGED <<slot, frames, io, unwinding, sidecar, marker, exited, acked>>
  BY DEF UnwindFuture
<1>2. k \in Task
  BY <1>0, <1>1, FrameFacts
<1>3. i \in 0..Len(ops)
  BY <1>0, <1>2 DEF OwnersOK
<1>4. Closes(i) /\ (i # 0 /\ ops[i].end # "open" => ops' = ops)
  BY <1>0, <1>1, <1>3, DropFacts
<1>5. SnapsKept /\ marker' \in BOOLEAN
  BY <1>0, <1>1 DEF SnapsKept
<1> HIDE DEF k
<1>6. /\ tasks' \in [Task -> Future]
      /\ \A j \in Task : j # k => tasks'[j] = tasks[j]
      /\ tasks'[k].op = tasks[k].op /\ tasks'[k].scope = "closed"
      /\ tasks'[k].ctxOp = tasks[k].ctxOp /\ tasks'[k].ctxSes = tasks[k].ctxSes
      /\ tasks'[k].st = tasks[k].st
  BY <1>0, <1>1, <1>2 DEF Future
<1> QED
  BY <1>1, <1>2, <1>4, <1>5, <1>6, FutureScopeEnds

(* A future that is not being polled is dropped.                           *)
LEMMA DropFutureKeeps ==
  ASSUME IInv, NEW t \in Thread, NEW k \in Task, DropFuture(t, k)
  PROVE  IInv' /\ Grown /\ EndedKept
<1> DEFINE i == tasks[k].op
<1>0. /\ TypeOK /\ OwnersOK /\ tasks \in [Task -> Future] /\ Len(ops) \in Nat
      /\ io \in [Thread -> Persistence] /\ marker \in BOOLEAN
  BY DEF IInv, TypeOK
<1>1. /\ tasks' = [tasks EXCEPT ![k].st = "gone", ![k].scope = "closed"]
      /\ DropScope(t, i)
      /\ UNCHANGED <<slot, frames, io, unwinding, sidecar, marker, exited, acked>>
  BY DEF DropFuture
<1>2. i \in 0..Len(ops)
  BY <1>0 DEF OwnersOK
<1>3. Closes(i) /\ (i # 0 /\ ops[i].end # "open" => ops' = ops)
  BY <1>0, <1>1, <1>2, DropFacts
<1>4. SnapsKept /\ marker' \in BOOLEAN
  BY <1>0, <1>1 DEF SnapsKept
<1>5. /\ tasks' \in [Task -> Future]
      /\ \A j \in Task : j # k => tasks'[j] = tasks[j]
      /\ tasks'[k].op = tasks[k].op /\ tasks'[k].scope = "closed"
      /\ tasks'[k].ctxOp = tasks[k].ctxOp /\ tasks'[k].ctxSes = tasks[k].ctxSes
      /\ tasks'[k].st = "gone"
  BY <1>0, <1>1 DEF Future
<1> QED
  BY <1>1, <1>3, <1>4, <1>5, FutureScopeEnds
-----------------------------------------------------------------------------
(* Contexts: construction, and the swaps around a poll                     *)

(* With the operations unchanged, only sessions still running may change.  *)
LEMMA QuietKept ==
  ASSUME IInv, ops' = ops, SessionsKept
  PROVE  Grown /\ EndedKept /\ FinishedIsComplete'
<1>1. TypeOK /\ FinishedIsComplete /\ ops' \in Seq(Operation) /\ Len(ops) \in Nat
  BY DEF IInv, TypeOK
<1>2. Grown /\ EndedKept
  BY <1>1 DEF Grown, EndedKept, SessionsKept
<1> QED
  BY <1>1, <1>2, EndedFinished

(* An annotated async function is called.                                  *)
LEMMA ConstructFutureKeeps ==
  ASSUME IInv, NEW t \in Thread, NEW k \in Task, ConstructFuture(t, k)
  PROVE  IInv' /\ Grown /\ EndedKept
<1> DEFINE o == IF Live(slot[t]) THEN sess[slot[t]].current ELSE 0
           f == [st |-> "idle", scope |-> "none", ctxSes |-> slot[t],
                 ctxOp |-> o, op |-> 0, caller |-> Caller(t)]
<1>0. /\ TypeOK /\ ContextOK /\ OwnersOK /\ Recording
      /\ sess \in [Thread -> Session] /\ tasks \in [Task -> Future]
      /\ slot \in [Thread -> Thread \cup {NoSession}]
      /\ ops \in Seq(Operation) /\ Len(ops) \in Nat
  BY DEF IInv, TypeOK, Recording
<1>1. /\ tasks[k].st = "none" /\ tasks' = [tasks EXCEPT ![k] = f]
      /\ UNCHANGED <<sess, slot, ops, frames, io, unwinding, sidecar, marker,
                     exited, acked>>
  BY DEF ConstructFuture
<1>2. o \in 0..MaxOps /\ (o # 0 => OpOf(o, slot[t]))
  <2>1. CASE Live(slot[t])
    <3>1. slot[t] \in Thread
      BY <1>0, <2>1 DEF Live
    <3>2. sess[slot[t]].current \in 0..MaxOps
      BY <1>0, <3>1 DEF Session
    <3> QED
      BY <1>0, <2>1, <3>1, <3>2 DEF CurrentOK, Recording
  <2>2. CASE ~Live(slot[t])
    BY <2>2, ConstantAssumption
  <2> QED
    BY <2>1, <2>2
<1>3. f \in Future
  BY <1>0, <1>2, CallerType, ConstantAssumption DEF Future
<1> HIDE DEF o
<1>4. /\ tasks' \in [Task -> Future]
      /\ \A j \in Task : j # k => tasks'[j] = tasks[j]
      /\ tasks'[k] = f
  BY <1>0, <1>1, <1>3
<1>5. f.ctxOp = o /\ f.ctxSes = slot[t] /\ f.op = 0 /\ f.st = "idle"
  OBVIOUS
<1> HIDE DEF f
<1>6. SessionsKept /\ SnapsOK'
  BY <1>0, <1>1 DEF SessionsKept, Recording, SnapsOK, SnapOK
<1>7. Grown /\ EndedKept /\ FinishedIsComplete'
  BY <1>1, <1>6, QuietKept
<1>8. TypeOK'
  BY <1>0, <1>1, <1>4 DEF TypeOK
<1>9. CurrentOK' /\ SessionForest'
  BY <1>0, <1>1 DEF CurrentOK, SessionForest, Recording, OpOf
<1>10. ContextOK'
  <2>1. \A j \in Task : tasks'[j].ctxOp # 0 => OpOf(tasks'[j].ctxOp, tasks'[j].ctxSes)
    BY <1>0, <1>2, <1>4, <1>5 DEF ContextOK
  <2>2. \A m \in 1..Len(frames) :
          frames[m].task # NoTask => frames[m].task \in Task /\ frames[m].task # k
    BY <1>0, <1>1, FrameFacts DEF ContextOK
  <2>3. \A m \in 1..Len(frames) :
          /\ frames[m].task # NoTask => tasks'[frames[m].task].st # "none"
          /\ frames[m].prevOp # 0 =>
               /\ frames[m].task # NoTask
               /\ OpOf(frames[m].prevOp, tasks'[frames[m].task].ctxSes)
    BY <1>0, <1>4, <2>2 DEF ContextOK
  <2> QED
    BY <1>0, <1>1, <1>7, <2>1, <2>3, ContextKept
<1>11. OwnersOK'
  BY <1>0, <1>1, <1>4, <1>5 DEF OwnersOK
<1> QED
  BY <1>6, <1>7, <1>8, <1>9, <1>10, <1>11 DEF IInv

(* The sessions after collector c's current operation was replaced by o.   *)
LEMMA SwapFacts ==
  ASSUME IInv, NEW c \in Thread \cup {NoSession}, NEW o \in 0..MaxOps,
         o # 0 => OpOf(o, c), ops' = ops, UNCHANGED <<io, sidecar>>,
         sess' = IF Live(c) THEN [sess EXCEPT ![c].current = o] ELSE sess
  PROVE  /\ SessionsKept /\ Grown /\ EndedKept
         /\ Recording' /\ ops' \in Seq(Operation)
<1>0. /\ TypeOK /\ Recording /\ sess \in [Thread -> Session]
      /\ ops \in Seq(Operation)
  BY DEF IInv, TypeOK, Recording
<1>1. /\ sess' \in [Thread -> Session]
      /\ \A s \in Thread : /\ sess'[s].st = sess[s].st
                           /\ sess[s].st # "live" => sess'[s] = sess[s]
                           /\ \/ sess'[s].current = sess[s].current
                              \/ s = c /\ sess'[s].current = o
  <2>1. CASE Live(c)
    <3>1. c \in Thread /\ sess[c].st = "live"
      BY <2>1 DEF Live
    <3> QED
      BY <1>0, <2>1, <3>1 DEF Session
  <2>2. CASE ~Live(c)
    BY <1>0, <2>2
  <2> QED
    BY <2>1, <2>2
<1>2. SessionsKept
  BY <1>1 DEF SessionsKept
<1>3. \A s \in Thread : sess'[s].current # 0 => OpOf(sess'[s].current, s)
  BY <1>0, <1>1 DEF CurrentOK, Recording
<1>4. SnapsOK'
  BY <1>0 DEF Recording, SnapsOK, SnapOK
<1> QED
  BY <1>0, <1>2, <1>3, <1>4, QuietKeeps DEF Keeps

(* The context is installed before a poll.                                 *)
LEMMA InstallContextKeeps ==
  ASSUME IInv, NEW t \in Thread, NEW k \in Task, InstallContext(t, k)
  PROVE  IInv' /\ Grown /\ EndedKept
<1> DEFINE c == tasks[k].ctxSes
           o == IF Live(c) THEN sess[c].current ELSE 0
           f == [thread |-> t, task |-> k, op |-> 0, prevSes |-> slot[t],
                 prevOp |-> o]
<1>0. /\ TypeOK /\ ContextOK /\ OwnersOK /\ Recording
      /\ sess \in [Thread -> Session] /\ tasks \in [Task -> Future]
      /\ slot \in [Thread -> Thread \cup {NoSession}]
      /\ frames \in Seq(Frame) /\ Len(frames) \in Nat
  BY DEF IInv, TypeOK, Recording
<1>1. /\ frames' = Pushed(f)
      /\ tasks' = [tasks EXCEPT ![k].st = "polled"]
      /\ slot' = IF c = NoSession THEN slot ELSE [slot EXCEPT ![t] = c]
      /\ sess' = IF Live(c) THEN [sess EXCEPT ![c].current = tasks[k].ctxOp]
                 ELSE sess
      /\ UNCHANGED <<ops, io, unwinding, sidecar, marker, exited, acked>>
  BY DEF InstallContext, ContextCollector
<1>2. /\ c \in Thread \cup {NoSession} /\ tasks[k].ctxOp \in 0..MaxOps
      /\ tasks[k].ctxOp # 0 => OpOf(tasks[k].ctxOp, c)
  BY <1>0 DEF Future, ContextOK
<1>3. o \in 0..MaxOps /\ (o # 0 => OpOf(o, c))
  <2>1. CASE Live(c)
    <3>1. c \in Thread
      BY <1>2, <2>1 DEF Live
    <3>2. sess[c].current \in 0..MaxOps
      BY <1>0, <3>1 DEF Session
    <3> QED
      BY <1>0, <2>1, <3>1, <3>2 DEF CurrentOK, Recording
  <2>2. CASE ~Live(c)
    BY <2>2, ConstantAssumption
  <2> QED
    BY <2>1, <2>2
<1>4. f \in Frame
  BY <1>0, <1>3, ConstantAssumption DEF Frame
<1>5. /\ SessionsKept /\ Grown /\ EndedKept /\ Recording' /\ ops' \in Seq(Operation)
  <2> HIDE DEF c
  <2> QED
    BY <1>1, <1>2, SwapFacts
<1> HIDE DEF o
<1>6. f.op = 0 /\ f.task = k /\ f.prevOp = o
  OBVIOUS
<1> HIDE DEF f
<1>7. /\ frames' \in Seq(Frame)
      /\ \A m \in 1..Len(frames') :
           \/ m \in 1..Len(frames) /\ frames'[m] = frames[m]
           \/ m = Len(frames) + 1 /\ frames'[m] = f
  BY <1>0, <1>1, <1>4, PushedFacts
<1>8. /\ tasks' \in [Task -> Future]
      /\ \A j \in Task : j # k => tasks'[j] = tasks[j]
      /\ tasks'[k].op = tasks[k].op /\ tasks'[k].scope = tasks[k].scope
      /\ tasks'[k].ctxOp = tasks[k].ctxOp /\ tasks'[k].ctxSes = tasks[k].ctxSes
      /\ tasks'[k].st = "polled"
  BY <1>0, <1>1 DEF Future
<1>9. TypeOK'
  <2>1. slot' \in [Thread -> Thread \cup {NoSession}]
    BY <1>0, <1>1, <1>2
  <2> QED
    BY <1>0, <1>1, <1>5, <1>7, <1>8, <2>1 DEF TypeOK, SessionsKept
<1>10. ContextOK'
  <2>1. \A j \in Task :
          /\ tasks'[j].ctxOp = tasks[j].ctxOp
          /\ tasks'[j].ctxSes = tasks[j].ctxSes
          /\ tasks[j].st # "none" => tasks'[j].st # "none"
    BY <1>8
  <2>2. \A m \in 1..Len(frames) : frames[m].task # NoTask => frames[m].task \in Task
    BY <1>0, FrameFacts
  <2>3. \A m \in 1..Len(frames') :
          /\ frames'[m].task # NoTask => tasks'[frames'[m].task].st # "none"
          /\ frames'[m].prevOp # 0 =>
               /\ frames'[m].task # NoTask
               /\ OpOf(frames'[m].prevOp, tasks'[frames'[m].task].ctxSes)
    <3> SUFFICES ASSUME NEW m \in 1..Len(frames')
                 PROVE  /\ frames'[m].task # NoTask => tasks'[frames'[m].task].st # "none"
                        /\ frames'[m].prevOp # 0 =>
                             /\ frames'[m].task # NoTask
                             /\ OpOf(frames'[m].prevOp, tasks'[frames'[m].task].ctxSes)
      OBVIOUS
    <3>1. CASE m \in 1..Len(frames) /\ frames'[m] = frames[m]
      BY <1>0, <2>1, <2>2, <3>1 DEF ContextOK
    <3>2. CASE frames'[m] = f
      BY <1>3, <1>6, <1>8, <3>2, ConstantAssumption
    <3> QED
      BY <1>7, <3>1, <3>2
  <2>4. \A j \in Task : tasks'[j].ctxOp # 0 => OpOf(tasks'[j].ctxOp, tasks'[j].ctxSes)
    BY <1>0, <2>1 DEF ContextOK
  <2> QED
    BY <1>0, <1>5, <2>3, <2>4, ContextKept
<1>11. OwnersOK'
  <2>1. \A j \in Task : tasks'[j].op = tasks[j].op /\ tasks'[j].scope = tasks[j].scope
    BY <1>8
  <2>2. \A m \in 1..Len(frames') : frames'[m].op # 0 =>
          m \in 1..Len(frames) /\ frames'[m] = frames[m]
    BY <1>6, <1>7
  <2>3. \A m, n \in 1..Len(frames') :
          m # n /\ frames'[m].op # 0 => frames'[m].op # frames'[n].op
    <3> SUFFICES ASSUME NEW m \in 1..Len(frames'), NEW n \in 1..Len(frames'),
                        m # n, frames'[m].op # 0, frames'[n].op # 0
                 PROVE  frames'[m].op # frames'[n].op
      OBVIOUS
    <3> QED
      BY <1>0, <2>2 DEF OwnersOK
  <2> QED
    BY <1>0, <1>1, <2>1, <2>2, <2>3 DEF OwnersOK
<1> QED
  BY <1>5, <1>9, <1>10, <1>11 DEF IInv, Recording

(* The context is removed after a poll.                                    *)
LEMMA RestoreContextKeeps ==
  ASSUME IInv, NEW t \in Thread, NEW n \in 1..Len(frames), RestoreContext(t, n)
  PROVE  IInv' /\ Grown /\ EndedKept
<1> DEFINE k == frames[n].task
           c == tasks[k].ctxSes
           o == IF Live(c) THEN sess[c].current ELSE 0
           st == IF tasks[k].scope = "closed" THEN "gone" ELSE "idle"
<1>0. /\ TypeOK /\ ContextOK /\ OwnersOK /\ Recording
      /\ sess \in [Thread -> Session] /\ tasks \in [Task -> Future]
      /\ slot \in [Thread -> Thread \cup {NoSession}]
      /\ frames \in Seq(Frame) /\ Len(frames) \in Nat
  BY DEF IInv, TypeOK, Recording
<1>1. /\ k # NoTask /\ frames' = Popped(n)
      /\ tasks' = [tasks EXCEPT ![k].st = st, ![k].ctxOp = o]
      /\ slot' = IF c = NoSession THEN slot
                 ELSE [slot EXCEPT ![t] = frames[n].prevSes]
      /\ sess' = IF Live(c) THEN [sess EXCEPT ![c].current = frames[n].prevOp]
                 ELSE sess
      /\ UNCHANGED <<ops, io, unwinding, sidecar, marker, exited, acked>>
  BY DEF RestoreContext, ContextCollector
<1>2. /\ k \in Task /\ c \in Thread \cup {NoSession}
      /\ frames[n].prevOp \in 0..MaxOps
      /\ frames[n].prevSes \in Thread \cup {NoSession}
      /\ frames[n].prevOp # 0 => OpOf(frames[n].prevOp, c)
  <2>1. k \in Task
    BY <1>0, <1>1, FrameFacts
  <2>2. c \in Thread \cup {NoSession}
    BY <1>0, <2>1 DEF Future
  <2> QED
    BY <1>0, <2>1, <2>2, FrameFacts DEF ContextOK
<1>3. o \in 0..MaxOps /\ (o # 0 => OpOf(o, c))
  <2>1. CASE Live(c)
    <3>1. c \in Thread
      BY <1>2, <2>1 DEF Live
    <3>2. sess[c].current \in 0..MaxOps
      BY <1>0, <3>1 DEF Session
    <3> QED
      BY <1>0, <2>1, <3>1, <3>2 DEF CurrentOK, Recording
  <2>2. CASE ~Live(c)
    BY <2>2, ConstantAssumption
  <2> QED
    BY <2>1, <2>2
<1>4. /\ SessionsKept /\ Grown /\ EndedKept /\ Recording' /\ ops' \in Seq(Operation)
  <2> HIDE DEF c
  <2> QED
    BY <1>1, <1>2, SwapFacts
<1>5. st \in {"gone", "idle"}
  OBVIOUS
<1> HIDE DEF k, c, o, st
<1>6. /\ tasks' \in [Task -> Future]
      /\ \A j \in Task : j # k => tasks'[j] = tasks[j]
      /\ tasks'[k].op = tasks[k].op /\ tasks'[k].scope = tasks[k].scope
      /\ tasks'[k].ctxOp = o /\ tasks'[k].ctxSes = tasks[k].ctxSes
      /\ tasks'[k].st = st
  BY <1>0, <1>1, <1>2, <1>3, <1>5 DEF Future
<1>7. /\ frames' \in Seq(Frame)
      /\ \A m \in 1..Len(frames') : \E j \in 1..Len(frames) : frames'[m] = frames[j]
      /\ \A m, j \in 1..Len(frames') :
           m # j /\ frames'[m].op # 0 => frames'[m].op # frames'[j].op
  BY <1>0, <1>1, PoppedFacts, PoppedOwners
<1>8. TypeOK'
  <2>1. slot' \in [Thread -> Thread \cup {NoSession}]
    BY <1>0, <1>1, <1>2
  <2> QED
    BY <1>0, <1>1, <1>4, <1>6, <1>7, <2>1 DEF TypeOK, SessionsKept
<1>9. ContextOK'
  <2>1. \A j \in Task :
          /\ tasks'[j].ctxSes = tasks[j].ctxSes
          /\ tasks[j].st # "none" => tasks'[j].st # "none"
    BY <1>5, <1>6
  <2>2. \A m \in 1..Len(frames) : frames[m].task # NoTask => frames[m].task \in Task
    BY <1>0, FrameFacts
  <2>3. \A m \in 1..Len(frames) :
          /\ frames[m].task # NoTask => tasks'[frames[m].task].st # "none"
          /\ frames[m].prevOp # 0 =>
               /\ frames[m].task # NoTask
               /\ OpOf(frames[m].prevOp, tasks'[frames[m].task].ctxSes)
    BY <1>0, <2>1, <2>2 DEF ContextOK
  <2>4. \A m \in 1..Len(frames') :
          /\ frames'[m].task # NoTask => tasks'[frames'[m].task].st # "none"
          /\ frames'[m].prevOp # 0 =>
               /\ frames'[m].task # NoTask
               /\ OpOf(frames'[m].prevOp, tasks'[frames'[m].task].ctxSes)
    <3> TAKE m \in 1..Len(frames')
    <3>1. PICK j \in 1..Len(frames) : frames'[m] = frames[j]
      BY <1>7
    <3> QED
      BY <2>3, <3>1
  <2>5. OpOf(tasks'[k].ctxOp, tasks'[k].ctxSes) \/ tasks'[k].ctxOp = 0
    BY <1>3, <1>6 DEF c
  <2>6. \A j \in Task : tasks'[j].ctxOp # 0 => OpOf(tasks'[j].ctxOp, tasks'[j].ctxSes)
    BY <1>0, <1>6, <2>5 DEF ContextOK
  <2> QED
    BY <1>0, <1>4, <2>4, <2>6, ContextKept
<1>10. OwnersOK'
  <2>1. \A j \in Task : tasks'[j].op = tasks[j].op /\ tasks'[j].scope = tasks[j].scope
    BY <1>6
  <2>2. \A m \in 1..Len(frames') : frames'[m].op # 0 =>
          /\ frames'[m].op \in 1..Len(ops) /\ ops[frames'[m].op].end = "open"
          /\ \A j \in Task : frames'[m].op # tasks[j].op
    BY <1>0, <1>7 DEF OwnersOK
  <2> QED
    BY <1>0, <1>1, <1>7, <2>1, <2>2 DEF OwnersOK
<1> QED
  BY <1>4, <1>8, <1>9, <1>10 DEF IInv, Recording
-----------------------------------------------------------------------------
(* Observations, persistence, panics, and the life of a session            *)

(* A step that leaves operations, frames, futures and pointers alone.      *)
LEMMA QuietStep ==
  ASSUME IInv, UNCHANGED <<ops, frames, tasks>>, TypeOK', SnapsOK', EndedKept,
         FinishedIsComplete', \A s \in Thread : sess'[s].current = sess[s].current
  PROVE  IInv' /\ Grown /\ EndedKept
<1>1. Grown
  BY DEF Grown, IInv, TypeOK
<1>2. CurrentOK' /\ SessionForest'
  BY DEF IInv, CurrentOK, SessionForest, OpOf
<1>3. ContextOK'
  BY DEF IInv, ContextOK, OpOf
<1>4. OwnersOK'
  BY DEF IInv, OwnersOK
<1> QED
  BY <1>1, <1>2, <1>3, <1>4 DEF IInv

(* The body emits an observation.                                          *)
LEMMA RecordObservationKeeps ==
  ASSUME IInv, NEW t \in Thread, RecordObservation(t)
  PROVE  IInv' /\ Grown /\ EndedKept
<1> DEFINE s == slot[t]
           i == sess[s].current
<1>0. /\ TypeOK /\ ContextOK /\ OwnersOK /\ Recording
      /\ sess \in [Thread -> Session] /\ io \in [Thread -> Persistence]
      /\ ops \in Seq(Operation) /\ Len(ops) \in Nat
  BY DEF IInv, TypeOK, Recording
<1>1. UNCHANGED <<slot, frames, tasks, io, unwinding, sidecar, exited, acked>>
  BY DEF RecordObservation
<1>2. s \in Thread
  BY <1>0 DEF RecordObservation, TypeOK
<1>3. CASE ~Live(s)
  <2>1. marker' = TRUE /\ sess' = sess /\ ops' = ops
    BY <1>3 DEF RecordObservation
  <2>2. TypeOK' /\ SessionsKept /\ SnapsOK'
    BY <1>0, <1>1, <2>1 DEF TypeOK, SessionsKept, Recording, SnapsOK, SnapOK
  <2> QED
    BY <1>1, <2>1, <2>2, QuietKept, QuietStep
<1>4. CASE Live(s) /\ i # 0 /\ ~CanTick(sess[s].clock, 1)
  <2>1. marker' = TRUE /\ sess' = [sess EXCEPT ![s].failed = TRUE] /\ ops' = ops
    BY <1>4 DEF RecordObservation
  <2>2. sess[s].st = "live"
    BY <1>4 DEF Live
  <2> HIDE DEF s
  <2>3. SessionsKept /\ \A u \in Thread : sess'[u].current = sess[u].current
    BY <1>0, <1>2, <2>1, <2>2 DEF SessionsKept, Session
  <2>4. TypeOK' /\ SnapsOK'
    BY <1>0, <1>1, <2>1, <2>3 DEF TypeOK, SessionsKept, Recording, SnapsOK, SnapOK
  <2> QED
    BY <1>1, <2>1, <2>3, <2>4, QuietKept, QuietStep
<1>5. CASE Live(s) /\ i # 0 /\ CanTick(sess[s].clock, 1)
  <2> DEFINE e == [ops[i] EXCEPT !.obs = Append(@, Caller(t))]
  <2>1. /\ ops' = [ops EXCEPT ![i] = e]
        /\ sess' = [sess EXCEPT ![s].clock = @ + 1]
        /\ marker' = marker
    BY <1>5 DEF RecordObservation
  <2>2. i \in 1..Len(ops) /\ ops[i].ses = s /\ sess[s].st = "live"
    BY <1>0, <1>2, <1>5 DEF Recording, CurrentOK, OpOf, Live
  <2>3. /\ e \in Operation /\ e.ses = ops[i].ses /\ e.parent = ops[i].parent
        /\ e.end = ops[i].end
    <3>1. ops[i] \in Operation /\ Caller(t) \in 0..MaxOps
      BY <1>0, <2>2, OpFacts, CallerType
    <3>2. Append(ops[i].obs, Caller(t)) \in Seq(0..MaxOps)
      BY <3>1 DEF Operation
    <3> QED
      BY <3>1, <3>2 DEF Operation
  <2> HIDE DEF e
  <2>4. /\ ops' \in Seq(Operation) /\ Len(ops') = Len(ops)
        /\ \A j \in 1..Len(ops) : ops'[j] = IF j = i THEN e ELSE ops[j]
    BY <1>0, <2>1, <2>2, <2>3, ExceptSeq
  <2>5. sess[s].clock + 1 \in 0..MaxClock
    BY <1>0, <1>2, <1>5, ConstantAssumption DEF CanTick, Session
  <2> HIDE DEF s, i
  <2>6. SessionsKept /\ \A u \in Thread : sess'[u].current = sess[u].current
    <3>1. /\ sess' \in [Thread -> Session]
          /\ \A u \in Thread : u # s => sess'[u] = sess[u]
          /\ sess'[s].st = "live" /\ sess'[s].current = sess[s].current
      <4> DEFINE d == [sess[s] EXCEPT !.clock = sess[s].clock + 1]
      <4>1. sess[s] \in Session /\ sess \in [Thread -> Session] /\ s \in Thread
        BY <1>0, <1>2
      <4>2. d \in Session /\ d.st = sess[s].st /\ d.current = sess[s].current
        BY <2>5, <4>1 DEF Session
      <4>3. sess' = [sess EXCEPT ![s] = d]
        BY <2>1, <4>1
      <4> HIDE DEF d
      <4> QED
        BY <2>2, <4>1, <4>2, <4>3
    <3> QED
      BY <1>2, <2>2, <3>1 DEF SessionsKept
  <2>7. SnapsKept
    BY <1>0, <1>1 DEF SnapsKept
  <2>8. Closes(i) /\ ops'[i].end = ops[i].end
    BY <2>2, <2>3, <2>4, <2>6 DEF Closes
  <2>9. Keeps
    BY <1>0, <1>1, <2>2, <2>7, <2>8, ClosesKeeps
  <2>10. TypeOK'
    BY <1>0, <1>1, <2>1, <2>4, <2>6 DEF TypeOK, SessionsKept
  <2>11. ContextOK'
    BY <1>0, <1>1, <2>4, <2>9, ContextKept DEF ContextOK, Keeps
  <2>12. OwnersOK'
    <3>1. \A j \in 1..Len(ops) : ops'[j].end = ops[j].end
      BY <2>3, <2>4
    <3> QED
      BY <1>0, <1>1, <2>4, <3>1 DEF OwnersOK
  <2> QED
    BY <2>9, <2>10, <2>11, <2>12 DEF Keeps, IInv, Recording
<1> QED
  BY <1>3, <1>4, <1>5 DEF RecordObservation

(* A panic starts or is caught, or the process ends.                       *)
LEMMA ControlKeeps ==
  ASSUME IInv, UNCHANGED <<sess, slot, ops, frames, tasks, io, sidecar, marker, acked>>,
         unwinding' \in [Thread -> BOOLEAN], exited' \in BOOLEAN
  PROVE  IInv' /\ Grown /\ EndedKept
<1>1. TypeOK'
  BY DEF IInv, TypeOK
<1>2. SessionsKept /\ SnapsOK'
  BY DEF IInv, TypeOK, SessionsKept, SnapsOK, SnapOK
<1> QED
  BY <1>1, <1>2, QuietKept, QuietStep

(* persist_collector_capture: the snapshot, its success and its failure.   *)
LEMMA PersistKeeps ==
  ASSUME IInv, NEW t \in Thread,
         TakeSnapshot(t) \/ PersistSnapshot(t) \/ PersistFails(t)
  PROVE  IInv' /\ Grown /\ EndedKept
<1> DEFINE s == io[t].ses
<1>0. /\ TypeOK /\ sess \in [Thread -> Session] /\ io \in [Thread -> Persistence]
      /\ slot \in [Thread -> Thread \cup {NoSession}]
      /\ ops \in Seq(Operation) /\ Len(ops) \in Nat
      /\ SnapOK(sidecar) /\ \A u \in Thread : SnapOK(io[u].snap)
  BY DEF IInv, TypeOK, SnapsOK
<1>1. /\ s \in Thread \cup {NoSession} /\ io[t].op \in 0..MaxOps
      /\ io[t].snap \in [OpId -> Shown] /\ Idle \in Persistence
      /\ SnapOK(Idle.snap)
  <2>1. io[t] \in Persistence
    BY <1>0
  <2>2. Blank \in [OpId -> Shown] /\ \A i \in OpId : Blank[i] \notin Closed
    BY DEF Blank, Shown, Closed
  <2>3. Idle \in Persistence /\ Idle.snap = Blank
    BY <2>2, ConstantAssumption DEF Idle, Persistence
  <2> QED
    BY <2>1, <2>2, <2>3 DEF Persistence, SnapOK
<1>2. UNCHANGED <<slot, ops, frames, tasks, unwinding, exited>>
  BY DEF TakeSnapshot, PersistSnapshot, PersistFails
<1>3. CASE PersistSnapshot(t)
  <2>1. /\ sidecar' = io[t].snap /\ io' = [io EXCEPT ![t] = Idle]
        /\ sess' = sess /\ marker' = marker
        /\ acked' = IF io[t].op = 0 THEN acked ELSE acked \cup {io[t].op}
    BY <1>3 DEF PersistSnapshot
  <2>2. acked' \in SUBSET OpId
    <3>1. acked \in SUBSET OpId
      BY <1>0 DEF TypeOK
    <3>2. io[t].op # 0 => io[t].op \in OpId
      BY <1>1, ConstantAssumption DEF OpId
    <3> QED
      BY <2>1, <3>1, <3>2
  <2>3. TypeOK'
    BY <1>0, <1>1, <1>2, <2>1, <2>2 DEF TypeOK
  <2>4. SnapsOK'
    <3>1. \A u \in Thread : io'[u].snap \in {io[u].snap, Idle.snap}
      BY <1>0, <2>1
    <3> QED
      BY <1>0, <1>1, <1>2, <2>1, <3>1 DEF SnapsOK, SnapOK
  <2>5. SessionsKept
    BY <1>0, <2>1 DEF SessionsKept
  <2> QED
    BY <1>2, <2>1, <2>3, <2>4, <2>5, QuietKept, QuietStep
<1>4. CASE PersistFails(t)
  <2> DEFINE S == IF Live(s) THEN [sess EXCEPT ![s].failed = TRUE] ELSE sess
  <2>1. /\ sess' = MarkError(t, S) /\ marker' = TRUE
        /\ io' = [io EXCEPT ![t] = Idle] /\ UNCHANGED <<sidecar, acked>>
    BY <1>4 DEF PersistFails
  <2> HIDE DEF s
  <2>2. /\ S \in [Thread -> Session]
        /\ \A u \in Thread : /\ S[u].st = sess[u].st
                             /\ S[u].current = sess[u].current
                             /\ sess[u].st # "live" => S[u] = sess[u]
    <3>1. CASE Live(s)
      BY <1>0, <1>1, <3>1 DEF Live, Session
    <3>2. CASE ~Live(s)
      BY <1>0, <3>2
    <3> QED
      BY <3>1, <3>2
  <2> HIDE DEF S
  <2>3. SessionsKept /\ \A u \in Thread : sess'[u].current = sess[u].current
    BY <1>0, <2>1, <2>2, MarkErrorFacts DEF SessionsKept
  <2>4. TypeOK'
    BY <1>0, <1>1, <1>2, <2>1, <2>3 DEF TypeOK, SessionsKept
  <2>5. SnapsOK'
    <3>1. \A u \in Thread : io'[u].snap \in {io[u].snap, Idle.snap}
      BY <1>0, <2>1
    <3> QED
      BY <1>0, <1>1, <1>2, <2>1, <3>1 DEF SnapsOK, SnapOK
  <2> QED
    BY <1>2, <2>3, <2>4, <2>5, QuietKept, QuietStep
<1>5. CASE TakeSnapshot(t)
  <2> DEFINE w == [ph |-> "write", ses |-> s, op |-> io[t].op, snap |-> Snapshot(s)]
  <2>1. /\ UNCHANGED <<sidecar, acked>>
        /\ \/ io' = [io EXCEPT ![t] = w] /\ sess' = sess /\ marker' = marker
           \/ io' = [io EXCEPT ![t] = Idle] /\ sess' = MarkError(t, sess)
                                           /\ marker' = TRUE
    BY <1>5 DEF TakeSnapshot
  <2>2. Snapshot(s) \in [OpId -> Shown] /\ SnapOK(Snapshot(s))
    <3> HIDE DEF s
    <3>1. /\ \A i \in 1..Len(ops) : ops[i].end \in Closed \cup {"open"}
          /\ DOMAIN ops = 1..Len(ops)
      <4>1. DOMAIN ops = 1..Len(ops)
        BY <1>0
      <4>2. ASSUME NEW i \in 1..Len(ops) PROVE ops[i].end \in Closed \cup {"open"}
        <5>1. ops[i] \in Operation
          BY <1>0, OpFacts
        <5> QED
          BY <5>1 DEF Operation
      <4> QED
        BY <4>1, <4>2
    <3>2. "incomplete" \notin Closed /\ "absent" \notin Closed
      BY DEF Closed
    <3>3. ASSUME NEW i \in OpId
          PROVE  /\ Snapshot(s)[i] \in Shown
                 /\ Snapshot(s)[i] \in Closed =>
                      i \in 1..Len(ops) /\ Snapshot(s)[i] = ops[i].end
      <4>1. CASE i \in DOMAIN ops /\ ops[i].ses = s
        <5>1. Snapshot(s)[i] = IF ops[i].end = "open" THEN "incomplete"
                               ELSE ops[i].end
          BY <4>1 DEF Snapshot
        <5> QED
          BY <3>1, <3>2, <4>1, <5>1 DEF Shown
      <4>2. CASE ~(i \in DOMAIN ops /\ ops[i].ses = s)
        <5>1. Snapshot(s)[i] = "absent"
          BY <4>2 DEF Snapshot
        <5> QED
          BY <3>2, <5>1 DEF Shown
      <4> QED
        BY <4>1, <4>2
    <3>4. Snapshot(s) = [i \in OpId |-> Snapshot(s)[i]]
      BY DEF Snapshot
    <3> QED
      BY <3>3, <3>4 DEF SnapOK
  <2>3. w \in Persistence
    BY <1>1, <2>2 DEF Persistence
  <2>4. w.snap = Snapshot(s)
    OBVIOUS
  <2> HIDE DEF w, s
  <2>5. /\ io' \in [Thread -> Persistence]
        /\ \A u \in Thread : io'[u] \in {io[u], w, Idle}
    BY <1>0, <1>1, <2>1, <2>3
  <2>6. SessionsKept /\ \A u \in Thread : sess'[u].current = sess[u].current
    <3>1. CASE sess' = sess
      BY <1>0, <3>1 DEF SessionsKept
    <3>2. CASE sess' = MarkError(t, sess)
      BY <1>0, <3>2, MarkErrorFacts DEF SessionsKept
    <3> QED
      BY <2>1, <3>1, <3>2
  <2>7. TypeOK'
    BY <1>0, <1>2, <2>1, <2>5, <2>6 DEF TypeOK, SessionsKept
  <2>8. SnapsOK'
    <3>1. \A u \in Thread : SnapOK(io'[u].snap)
      BY <1>0, <1>1, <2>2, <2>4, <2>5
    <3> QED
      BY <1>0, <1>2, <2>1, <3>1 DEF SnapsOK, SnapOK
  <2> QED
    BY <1>2, <2>6, <2>7, <2>8, QuietKept, QuietStep
<1> QED
  BY <1>3, <1>4, <1>5

(* A session is started.                                                   *)
LEMMA StartKeeps ==
  ASSUME IInv, NEW t \in Thread, Start(t)
  PROVE  IInv' /\ Grown /\ EndedKept
<1>0. TypeOK /\ sess \in [Thread -> Session]
  BY DEF IInv, TypeOK
<1>1. /\ sess[t].st = "unused"
      /\ sess' = [sess EXCEPT ![t].st = "live"] /\ slot' = [slot EXCEPT ![t] = t]
      /\ UNCHANGED <<ops, frames, tasks, io, unwinding, sidecar, marker, exited,
                     acked>>
  BY DEF Start
<1>2. SessionsKept /\ \A u \in Thread : sess'[u].current = sess[u].current
  <2>1. /\ sess' \in [Thread -> Session]
        /\ \A u \in Thread : u # t => sess'[u] = sess[u]
        /\ sess'[t].st = "live" /\ sess'[t].current = sess[t].current
    BY <1>0, <1>1 DEF Session
  <2> QED
    BY <1>1, <2>1 DEF SessionsKept
<1>3. TypeOK'
  BY <1>0, <1>1, <1>2 DEF TypeOK, SessionsKept
<1>4. SnapsOK'
  BY <1>1 DEF IInv, SnapsOK, SnapOK
<1> QED
  BY <1>1, <1>2, <1>3, <1>4, QuietKept, QuietStep

(* A session is finished: successfully only if nothing is outstanding.     *)
LEMMA FinishKeeps ==
  ASSUME IInv, NEW t \in Thread, Finish(t)
  PROVE  IInv' /\ Grown /\ EndedKept
<1> DEFINE s == slot[t]
           ok == Open(s) = {} /\ ~sess[s].failed /\ CanTick(sess[s].clock, 1)
           st == IF ok THEN "finished" ELSE "rejected"
<1>0. /\ TypeOK /\ FinishedIsComplete /\ sess \in [Thread -> Session]
      /\ slot \in [Thread -> Thread \cup {NoSession}] /\ ops \in Seq(Operation)
  BY DEF IInv, TypeOK
<1>1. /\ Live(s) /\ sess' = [sess EXCEPT ![s].st = st]
      /\ slot' = [slot EXCEPT ![t] = NoSession]
      /\ UNCHANGED <<ops, frames, tasks, io, unwinding, sidecar, marker, exited,
                     acked>>
  BY DEF Finish
<1>2. s \in Thread /\ sess[s].st = "live" /\ st \in {"finished", "rejected"}
  BY <1>0, <1>1 DEF Live
<1>3. st = "finished" => Open(s) = {} /\ ~sess[s].failed
  OBVIOUS
<1> HIDE DEF s, st, ok
<1>4. /\ sess' \in [Thread -> Session]
      /\ \A u \in Thread : u # s => sess'[u] = sess[u]
      /\ sess'[s].st = st /\ sess'[s].current = sess[s].current
      /\ sess'[s].failed = sess[s].failed
  BY <1>0, <1>1, <1>2 DEF Session
<1>5. EndedKept
  BY <1>0, <1>1, <1>2, <1>4 DEF EndedKept
<1>6. FinishedIsComplete'
  <2>1. \A u \in Thread : Open(u)' = Open(u)
    BY <1>1 DEF Open
  <2> QED
    BY <1>0, <1>2, <1>3, <1>4, <2>1 DEF FinishedIsComplete
<1>7. TypeOK'
  BY <1>0, <1>1, <1>4 DEF TypeOK
<1>8. SnapsOK'
  BY <1>1 DEF IInv, SnapsOK, SnapOK
<1> QED
  BY <1>1, <1>4, <1>5, <1>6, <1>7, <1>8, QuietStep

-----------------------------------------------------------------------------
(* The inductive invariant                                                 *)

(* It holds of a process that has recorded nothing.                        *)
LEMMA InitIInv == Init => IInv
<1> SUFFICES ASSUME Init PROVE IInv
  OBVIOUS
<1>1. /\ Blank \in [OpId -> Shown] /\ \A i \in OpId : Blank[i] \notin Closed
      /\ Idle \in Persistence /\ Idle.snap = Blank
  <2>1. Blank \in [OpId -> Shown] /\ \A i \in OpId : Blank[i] \notin Closed
    BY DEF Blank, Shown, Closed
  <2> QED
    BY <2>1, ConstantAssumption DEF Idle, Persistence
<1>2. ops = <<>> /\ Len(ops) = 0 /\ DOMAIN ops = {} /\ 1..Len(ops) = {}
  BY DEF Init
<1>3. frames = <<>> /\ Len(frames) = 0 /\ 1..Len(frames) = {}
  BY DEF Init
<1>4. /\ sess \in [Thread -> Session]
      /\ \A s \in Thread : sess[s].current = 0 /\ sess[s].st = "unused"
  BY ConstantAssumption DEF Init, Session
<1>5. /\ tasks \in [Task -> Future]
      /\ \A k \in Task : tasks[k].ctxOp = 0 /\ tasks[k].op = 0
  BY ConstantAssumption DEF Init, Future
<1>6. TypeOK
  <2>1. io \in [Thread -> Persistence] /\ sidecar \in [OpId -> Shown]
    BY <1>1 DEF Init
  <2>2. ops \in Seq(Operation) /\ frames \in Seq(Frame) /\ Len(ops) <= MaxOps
    BY <1>2, <1>3, ConstantAssumption
  <2>3. /\ slot \in [Thread -> Thread \cup {NoSession}]
        /\ unwinding \in [Thread -> BOOLEAN]
        /\ marker \in BOOLEAN /\ exited \in BOOLEAN /\ acked \in SUBSET OpId
    BY DEF Init
  <2> QED
    BY <1>4, <1>5, <2>1, <2>2, <2>3 DEF TypeOK
<1>7. CurrentOK /\ FinishedIsComplete
  BY <1>4 DEF CurrentOK, FinishedIsComplete
<1>8. ContextOK /\ OwnersOK
  BY <1>3, <1>5 DEF ContextOK, OwnersOK
<1>9. SessionForest
  BY <1>2 DEF SessionForest
<1>10. SnapsOK
  <2>1. sidecar = Blank /\ \A t \in Thread : io[t].snap = Blank
    BY <1>1 DEF Init
  <2> QED
    BY <1>1, <2>1 DEF SnapsOK, SnapOK
<1> QED
  BY <1>6, <1>7, <1>8, <1>9, <1>10 DEF IInv

(* Every step keeps it, and keeps what was recorded.                       *)
LEMMA NextKeeps ==
  ASSUME IInv, [Next]_vars
  PROVE  IInv' /\ Grown /\ EndedKept
<1>0. /\ unwinding \in [Thread -> BOOLEAN] /\ exited \in BOOLEAN
      /\ DOMAIN frames = 1..Len(frames)
  BY DEF IInv, TypeOK
<1>1. Returns \cup {"fault"} \subseteq Closed
  BY ConstantAssumption DEF Closed
<1>2. CASE UNCHANGED vars
  <2>1. /\ UNCHANGED <<sess, slot, ops, frames, tasks, io, sidecar, marker, acked>>
        /\ unwinding' = unwinding /\ exited' = exited
    BY <1>2 DEF vars
  <2> QED
    BY <1>0, <2>1, ControlKeeps
<1>3. CASE Exit
  <2>1. /\ UNCHANGED <<sess, slot, ops, frames, tasks, io, sidecar, marker, acked>>
        /\ unwinding' = unwinding /\ exited' = TRUE
    BY <1>3 DEF Exit
  <2> QED
    BY <1>0, <2>1, ControlKeeps
<1>4. ASSUME NEW t \in Thread, Panic(t) \/ CatchPanic(t)
      PROVE  IInv' /\ Grown /\ EndedKept
  <2>1. UNCHANGED <<sess, slot, ops, frames, tasks, io, sidecar, marker, exited, acked>>
    BY <1>4 DEF Panic, CatchPanic
  <2>2. unwinding' \in [Thread -> BOOLEAN]
    BY <1>0, <1>4 DEF Panic, CatchPanic
  <2> QED
    BY <1>0, <2>1, <2>2, ControlKeeps
<1>5. ASSUME NEW t \in Thread, NEW k \in Task,
             ConstructFuture(t, k) \/ InstallContext(t, k) \/ DropFuture(t, k)
      PROVE  IInv' /\ Grown /\ EndedKept
  BY <1>5, ConstructFutureKeeps, InstallContextKeeps, DropFutureKeeps
<1>6. ASSUME NEW t \in Thread, NEW n \in DOMAIN frames,
             \/ \E kind \in Returns \cup {"fault"} : CompleteOperation(t, n, kind)
             \/ BeginAsyncOperation(t, n)
             \/ \E kind \in Returns : CompleteAsyncOperation(t, n, kind)
             \/ UnwindFuture(t, n) \/ RestoreContext(t, n)
      PROVE  IInv' /\ Grown /\ EndedKept
  <2>0. n \in 1..Len(frames)
    BY <1>0
  <2>1. CASE \E kind \in Returns \cup {"fault"} : CompleteOperation(t, n, kind)
    <3>1. PICK kind \in Closed : CompleteOperation(t, n, kind)
      BY <1>1, <2>1
    <3> QED
      BY <2>0, <3>1, CompleteOperationKeeps
  <2>2. CASE \E kind \in Returns : CompleteAsyncOperation(t, n, kind)
    <3>1. PICK kind \in Closed : CompleteAsyncOperation(t, n, kind)
      BY <1>1, <2>2
    <3> QED
      BY <2>0, <3>1, CompleteAsyncOperationKeeps
  <2>3. CASE BeginAsyncOperation(t, n)
    BY <2>0, <2>3, BeginAsyncOperationKeeps
  <2>4. CASE UnwindFuture(t, n)
    BY <2>0, <2>4, UnwindFutureKeeps
  <2>5. CASE RestoreContext(t, n)
    BY <2>0, <2>5, RestoreContextKeeps
  <2> QED
    BY <1>6, <2>1, <2>2, <2>3, <2>4, <2>5
<1>7. ASSUME NEW t \in Thread,
             TakeSnapshot(t) \/ PersistSnapshot(t) \/ PersistFails(t)
      PROVE  IInv' /\ Grown /\ EndedKept
  BY <1>7, PersistKeeps
<1>8. ASSUME NEW t \in Thread, BeginOperation(t)
      PROVE  IInv' /\ Grown /\ EndedKept
  BY <1>8, BeginOperationKeeps
<1>9. ASSUME NEW t \in Thread, RecordObservation(t)
      PROVE  IInv' /\ Grown /\ EndedKept
  BY <1>9, RecordObservationKeeps
<1>10. ASSUME NEW t \in Thread, Start(t) \/ Finish(t)
       PROVE  IInv' /\ Grown /\ EndedKept
  BY <1>10, StartKeeps, FinishKeeps
<1> QED
  BY <1>2, <1>3, <1>4, <1>5, <1>6, <1>7, <1>8, <1>9, <1>10 DEF Next

(* The inductive invariant holds always.                                   *)
LEMMA Invariance == Spec => []IInv
<1>1. IInv /\ [Next]_vars => IInv'
  BY NextKeeps
<1> QED
  BY InitIInv, <1>1, PTL DEF Spec
-----------------------------------------------------------------------------
(* Type correctness: in particular the logical clock never passes its last *)
(* value, and no pointer leaves the recorded operations.                   *)
THEOREM TypeCorrect == Spec => []TypeOK
<1>1. IInv => TypeOK
  BY DEF IInv
<1> QED
  BY Invariance, <1>1, PTL

(* However threads, polls and panics interleave, each collector's recorded *)
(* operations are a forest in which parents precede their children and     *)
(* belong to the same collector (begin_active, InstalledContext).          *)
THEOREM ForestAlways == Spec => []SessionForest
<1>1. IInv => SessionForest
  BY DEF IInv
<1> QED
  BY Invariance, <1>1, PTL

(* The sidecar claims only outcomes that operations really had, although   *)
(* it is written after the collector's lock is released                    *)
(* (persist_collector_capture).                                            *)
THEOREM SnapshotsSound == Spec => []SnapshotSound
<1>1. IInv => SnapshotSound
  <2>1. IInv => DOMAIN ops = 1..Len(ops)
    BY DEF IInv, TypeOK
  <2> QED
    BY <2>1 DEF IInv, SnapsOK, SnapOK, SnapshotSound
<1> QED
  BY Invariance, <1>1, PTL

(* An operation gets one outcome, whatever completes, unwinds or drops its *)
(* scope (complete, Drop for OperationScope).                              *)
THEOREM OutcomeOnce == Spec => ClosedOnce
<1> DEFINE A == \A i \in DOMAIN ops : ops[i].end # "open" =>
                  i \in DOMAIN ops' /\ ops'[i].end = ops[i].end
<1>1. IInv /\ [Next]_vars => [A]_vars
  <2>1. ASSUME IInv, [Next]_vars PROVE A
    <3>1. IInv' /\ Grown
      BY <2>1, NextKeeps
    <3>2. /\ DOMAIN ops = 1..Len(ops) /\ Len(ops) \in Nat
          /\ DOMAIN ops' = 1..Len(ops') /\ Len(ops') \in Nat
      BY <2>1, <3>1 DEF IInv, TypeOK
    <3> QED
      BY <3>1, <3>2 DEF Grown
  <2> QED
    BY <2>1
<1>2. []IInv /\ [][Next]_vars => [][A]_vars
  BY <1>1, PTL
<1> QED
  BY Invariance, <1>2 DEF Spec, ClosedOnce

(* A session that finish has ended is never changed and records nothing    *)
(* more, although scopes and futures still hold its handle                 *)
(* (with_collector_mut).                                                   *)
THEOREM EndedIsFinal == Spec => FinishedIsFinal
<1> DEFINE A == \A s \in Thread : sess[s].st \in {"finished", "rejected"} =>
                  /\ sess'[s] = sess[s]
                  /\ \A i \in DOMAIN ops' :
                       ops'[i].ses = s => i \in DOMAIN ops /\ ops'[i] = ops[i]
<1>1. IInv /\ [Next]_vars => [A]_vars
  <2>1. ASSUME IInv, [Next]_vars PROVE A
    <3>1. IInv' /\ EndedKept
      BY <2>1, NextKeeps
    <3>2. DOMAIN ops = 1..Len(ops) /\ DOMAIN ops' = 1..Len(ops')
      BY <2>1, <3>1 DEF IInv, TypeOK
    <3> QED
      BY <3>1, <3>2 DEF EndedKept
  <2> QED
    BY <2>1
<1>2. []IInv /\ [][Next]_vars => [][A]_vars
  BY <1>1, PTL
<1> QED
  BY Invariance, <1>2 DEF Spec, FinishedIsFinal

(* A capture that finish returns has no open operation and no failure.     *)
THEOREM FinishedComplete == Spec => []FinishedIsComplete
<1>1. IInv => FinishedIsComplete
  BY DEF IInv
<1> QED
  BY Invariance, <1>1, PTL
=============================================================================
