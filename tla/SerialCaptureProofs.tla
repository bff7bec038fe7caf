------------------------ MODULE SerialCaptureProofs ------------------------
(***************************************************************************)
(* Environment capture of a serialised program (Serial and EnvMode of      *)
(* NativeCapture), for any threads, futures and bounds: completions        *)
(* reported persisted stay in the sidecar, and a capture the CLI accepts   *)
(* is complete.                                                            *)
(*                                                                         *)
(* All work is recorded by the collector of the test's own thread, and     *)
(* nobody runs while a snapshot is taken and written.                      *)
(***************************************************************************)
EXTENDS NativeCaptureProofs

(* The only collector in use is the test thread's: whatever runs on        *)
(* another thread runs inside a poll that installed it there.              *)
OneSession ==
  /\ sess[Main].st \in {"unused", "live"}
  /\ sess[Main].st = "live" => slot[Main] = Main
  /\ \A t \in Thread : /\ slot[t] \in {Main, NoSession}
                       /\ slot[t] = Main => sess[Main].st = "live"
  /\ \A i \in 1..Len(ops) : ops[i].ses = Main /\ sess[Main].st = "live"
  /\ \A k \in Task : /\ tasks[k].ctxSes \in {Main, NoSession}
                     /\ tasks[k].ctxSes = Main => sess[Main].st = "live"
  /\ \A n \in 1..Len(frames) :
       frames[n].thread # Main => slot[frames[n].thread] = Main

(* What a poll puts back into its thread's slot keeps it that way.         *)
SlotsRestored ==
  \A n \in 1..Len(frames) : frames[n].task # NoTask =>
    /\ frames[n].prevSes \in {Main, NoSession}
    /\ tasks[frames[n].task].ctxSes = NoSession => frames[n].thread = Main
    /\ tasks[frames[n].task].ctxSes = Main =>
         \/ frames[n].prevSes = Main
         \/ /\ frames[n].thread # Main
            /\ \A m \in 1..Len(frames) : m < n => frames[m].thread # frames[n].thread

SessionInv == OneSession /\ SlotsRestored

(* Nobody is persisting.                                                   *)
Quiet == \A t \in Thread : io[t].ph = "idle"

OneWriter ==
  \A t, u \in Thread : io[t].ph # "idle" /\ io[u].ph # "idle" => t = u

(* A snapshot about to be written is the collector's state.                *)
SnapshotCurrent ==
  \A t \in Thread : io[t].ph # "idle" =>
    /\ io[t].ses = Main
    /\ io[t].ph = "write" => io[t].snap = Snapshot(Main)
    /\ io[t].op # 0 => io[t].op \in 1..Len(ops) /\ ops[io[t].op].end # "open"

(* Between persistences, the sidecar lags behind only where it says so.    *)
SidecarFresh ==
  ~marker /\ Quiet =>
    \A i \in 1..Len(ops) : sidecar[i] = ops[i].end \/ sidecar[i] = "incomplete"

AckedKept ==
  \A i \in acked :
    i \in 1..Len(ops) /\ ops[i].end # "open" /\ sidecar[i] = ops[i].end

(* A process that exited was not persisting.                               *)
ExitQuiet == exited => Quiet

SidecarInv ==
  OneWriter /\ SnapshotCurrent /\ SidecarFresh /\ AckedKept /\ ExitQuiet

DurableInv == SessionInv /\ SidecarInv
-----------------------------------------------------------------------------
(* What Serial means for a step                                            *)

(* Nobody is persisting when user code runs.                               *)
LEMMA RunsAlone ==
  ASSUME Serial, NEW t \in Thread, MayRun(t)
  PROVE  Quiet /\ ~exited /\ io[t].ph = "idle"
  BY DEF MayRun, Quiet

(* The newest frame of the thread that runs is the newest of all.          *)
LEMMA TopIsLast ==
  ASSUME Serial, TypeOK, NEW t \in Thread, MayRun(t), NEW n, IsTop(t, n)
  PROVE  n = Len(frames) /\ n \in 1..Len(frames) /\ frames[n].thread = t
<1>1. Len(frames) \in Nat /\ DOMAIN frames = 1..Len(frames)
  BY DEF TypeOK
<1>2. n \in 1..Len(frames) /\ frames[n].thread = t
  BY <1>1 DEF IsTop, Mine
<1>3. Len(frames) \in Mine(t)
  BY <1>2 DEF MayRun, AtBase, IsTop
<1>4. Len(frames) <= n
  BY <1>3 DEF IsTop
<1>5. \A L \in Nat : \A m \in 1..L : L <= m => m = L
  OBVIOUS
<1>6. n = Len(frames)
  BY <1>1, <1>2, <1>4, <1>5
<1> QED
  BY <1>2, <1>6

(* So removing it leaves the others where they are.                        *)
LEMMA LastPopped ==
  ASSUME TypeOK, Len(frames) # 0
  PROVE  /\ Popped(Len(frames)) \in Seq(Frame)
         /\ Len(Popped(Len(frames))) = Len(frames) - 1
         /\ \A m \in 1..(Len(frames) - 1) : Popped(Len(frames))[m] = frames[m]
<1> DEFINE L == Len(frames)
<1>1. L \in 1..L /\ frames \in Seq(Frame) /\ L \in Nat
  BY DEF TypeOK
<1>2. /\ Popped(L) \in Seq(Frame)
      /\ Len(Popped(L)) = L - 1
      /\ \A m \in 1..Len(Popped(L)) :
           Popped(L)[m] = frames[IF m < L THEN m ELSE m + 1]
  BY <1>1, PoppedFacts
<1>3. \A m \in 1..(L - 1) : m < L
  BY <1>1
<1> HIDE DEF L
<1>4. \A m \in 1..(L - 1) : Popped(L)[m] = frames[m]
  BY <1>2, <1>3
<1> QED
  BY <1>2, <1>4 DEF L

(* What a frame holds.                                                     *)
LEMMA FrameType ==
  ASSUME TypeOK, NEW n \in 1..Len(frames)
  PROVE  /\ frames[n] \in Frame /\ frames[n].thread \in Thread
         /\ frames[n].task # NoTask => frames[n].task \in Task
         /\ frames[n].prevSes \in Thread \cup {NoSession}
         /\ frames[n].op \in 0..MaxOps /\ frames[n].prevOp \in 0..MaxOps
<1>1. frames[n] \in Frame
  BY DEF TypeOK
<1> QED
  BY <1>1 DEF Frame

(* A thread with no frame of its own calls annotated code only as the      *)
(* test's thread.                                                          *)
LEMMA CallsFromTest ==
  ASSUME Serial, NEW t \in Thread, Calls(t)
  PROVE  /\ MayRun(t) /\ Quiet /\ ~exited
         /\ AtBase(t) => t = Main /\ frames = <<>> /\ Detached = {}
<1>1. MayRun(t)
  BY DEF Calls, InUserCode
<1> QED
  BY <1>1, RunsAlone DEF Calls, OwnsTest

-----------------------------------------------------------------------------
(* The collector operations, when the test thread's collector is the only  *)
(* one                                                                     *)

(* An operation is recorded by the test thread's collector, or the run     *)
(* reports a failure.                                                      *)
RecordsUnder(t, caller) ==
  /\ ScopeOp(t) = Len(ops) + 1
  /\ ops' = Append(ops, [ses |-> Main, parent |-> sess[Main].current,
                         caller |-> caller, end |-> "open", obs |-> <<>>])
  /\ sess'[Main].current = Len(ops) + 1
  /\ io' = [io EXCEPT ![t] = [ph |-> "snap", ses |-> Main, op |-> 0, snap |-> Blank]]
  /\ marker' = marker

(* Every begin is recorded by the test thread's collector, or reported.    *)
LEMMA SerialBegin ==
  ASSUME Serial, EnvMode, IInv, SessionInv, NEW t \in Thread, NEW caller,
         t = Main \/ ~AtBase(t), BeginActive(t, caller)
  PROVE  /\ slot' = [slot EXCEPT ![t] = Main]
         /\ sess'[Main].st = "live" /\ (t # Main => sess[Main].st = "live")
         /\ \/ RecordsUnder(t, caller)
            \/ ops' = ops /\ io' = io /\ marker' = TRUE
<1>0. /\ TypeOK /\ Main \in Thread /\ NoSession # Main
      /\ slot \in [Thread -> Thread \cup {NoSession}]
      /\ sess \in [Thread -> Session] /\ io \in [Thread -> Persistence]
      /\ DOMAIN frames = 1..Len(frames)
  BY ConstantAssumption DEF IInv, TypeOK
<1>1. Activated(t) = Main
  <2>1. CASE t = Main
    BY <2>1 DEF SessionInv, OneSession, Activated
  <2>2. CASE t # Main /\ ~AtBase(t)
    <3>1. PICK n \in 1..Len(frames) : frames[n].thread = t
      BY <1>0, <2>2 DEF AtBase, Mine
    <3> QED
      BY <1>0, <2>2, <3>1 DEF SessionInv, OneSession, Activated
  <2> QED
    BY <2>1, <2>2
<1>6. t # Main => sess[Main].st = "live"
  BY <1>0, <1>1 DEF SessionInv, OneSession, Activated
<1> DEFINE S == AfterActivation(t)
<1>2. /\ S \in [Thread -> Session] /\ S[Main].st = "live"
      /\ S[Main].current = sess[Main].current
  <2>1. /\ S \in [Thread -> Session] /\ S[Main].current = sess[Main].current
        /\ sess[Main].st # "unused" => S[Main] = sess[Main]
    BY <1>0, ActivatedFacts
  <2>2. CASE slot[t] = Main
    BY <1>0, <2>1, <2>2 DEF SessionInv, OneSession
  <2>3. CASE slot[t] # Main
    <3>1. t = Main
      BY <1>0, <1>1, <2>3 DEF Activated
    <3> QED
      BY <1>0, <1>1, <2>1, <2>3, <3>1 DEF AfterActivation
  <2> QED
    BY <2>2, <2>3
<1> HIDE DEF S
<1>3. slot' = [slot EXCEPT ![t] = Main]
  BY <1>1 DEF BeginActive
<1>4. CASE BeginRecords(t)
  <2>1. /\ ops' = Append(ops, [ses |-> Main, parent |-> S[Main].current,
                               caller |-> caller, end |-> "open", obs |-> <<>>])
        /\ sess' = Updated(S, Main, S[Main].clock + 1, Len(ops) + 1, S[Main].failed)
        /\ io' = Persisting(t, Main, 0) /\ marker' = marker
    BY <1>1, <1>4 DEF BeginActive, BeginRefused, BeginRecords, S
  <2>2. sess'[Main].st = "live" /\ sess'[Main].current = Len(ops) + 1
    BY <1>0, <1>2, <2>1 DEF Updated
  <2>3. ScopeOp(t) = Len(ops) + 1
    BY <1>4 DEF ScopeOp
  <2>4. io' = [io EXCEPT ![t] = [ph |-> "snap", ses |-> Main, op |-> 0,
                                 snap |-> Blank]]
    BY <2>1 DEF Persisting
  <2> QED
    BY <1>2, <1>3, <1>6, <2>1, <2>2, <2>3, <2>4 DEF RecordsUnder
<1>5. CASE ~BeginRecords(t)
  <2>1. BeginRefused(t)
    BY <1>0, <1>1, <1>2, <1>5 DEF BeginRefused, BeginRecords, S
  <2>2. /\ sess' = [S EXCEPT ![Main].failed = TRUE]
        /\ marker' = TRUE /\ ops' = ops /\ io' = io
    BY <1>1, <1>5, <2>1 DEF BeginActive, S
  <2>3. sess'[Main].st = "live"
    BY <1>0, <1>2, <2>2 DEF Session
  <2> QED
    BY <1>3, <1>6, <2>2, <2>3
<1> QED
  BY <1>4, <1>5

(* A completion closes its operation and persists it, or the run reports a *)
(* failure.                                                                *)
Completes(t, i, kind) ==
  /\ ops' = [ops EXCEPT ![i].end = kind]
  /\ sess'[Main].current = Released(sess[Main].current, i)
  /\ io' = [io EXCEPT ![t] = [ph |-> "snap", ses |-> Main, op |-> i, snap |-> Blank]]
  /\ marker' = marker

(* Every completion too.                                                   *)
LEMMA SerialComplete ==
  ASSUME Serial, EnvMode, IInv, SessionInv, NEW t \in Thread,
         NEW i \in 0..Len(ops), NEW kind \in Closed, CompleteScope(t, i, kind)
  PROVE  /\ sess'[Main].st = sess[Main].st
         /\ \/ i = 0 /\ UNCHANGED <<sess, ops, io, marker>>
            \/ i # 0 /\ Completes(t, i, kind)
            \/ i # 0 /\ ops' = ops /\ io' = io /\ marker' = TRUE
<1>0. /\ TypeOK /\ Main \in Thread /\ NoSession # Main
      /\ slot \in [Thread -> Thread \cup {NoSession}]
      /\ sess \in [Thread -> Session] /\ io \in [Thread -> Persistence]
  BY ConstantAssumption DEF IInv, TypeOK
<1>1. CASE i = 0
  BY <1>1 DEF CompleteScope
<1>2. CASE i # 0
  <2>1. i \in 1..Len(ops) /\ ops[i].ses = Main /\ Live(Main)
    BY <1>0, <1>2 DEF SessionInv, OneSession, Live, TypeOK
  <2> DEFINE c == sess[Main]
  <2>2. CASE CanTick(c.clock, Needs(kind))
    <3>1. /\ ops' = [ops EXCEPT ![i].end = kind]
          /\ sess' = Updated(sess, Main, c.clock + Needs(kind),
                             Released(c.current, i), c.failed)
          /\ io' = Persisting(t, Main, i) /\ marker' = marker
      BY <1>2, <2>1, <2>2 DEF CompleteScope
    <3>2. sess'[Main].st = c.st /\ sess'[Main].current = Released(c.current, i)
      BY <1>0, <3>1 DEF Updated
    <3>3. io' = [io EXCEPT ![t] = [ph |-> "snap", ses |-> Main, op |-> i,
                                   snap |-> Blank]]
      BY <3>1 DEF Persisting
    <3> QED
      BY <1>2, <3>1, <3>2, <3>3 DEF Completes
  <2>3. CASE ~CanTick(c.clock, Needs(kind))
    <3> DEFINE a == Ticked(c.clock, Needs(kind))
               r == Released(c.current, i)
               S == Updated(sess, Main, a, r, TRUE)
    <3>1. sess' = MarkError(t, S) /\ marker' = TRUE /\ ops' = ops /\ io' = io
      BY <1>2, <2>1, <2>3 DEF CompleteScope
    <3>2. c \in Session /\ Needs(kind) \in {1, 2}
      BY <1>0 DEF Needs
    <3>3. a \in 0..MaxClock /\ r \in 0..MaxOps
      BY <1>0, <2>1, <3>2, TickedType, ReleasedFacts DEF Session
    <3>4. S \in [Thread -> Session] /\ S[Main].st = c.st
      <4> HIDE DEF a, r
      <4> QED
        BY <1>0, <3>3 DEF Updated, Session
    <3> HIDE DEF S
    <3>5. sess'[Main].st = c.st
      BY <1>0, <3>1, <3>4, MarkErrorFacts
    <3> QED
      BY <1>2, <3>1, <3>5
  <2> QED
    BY <2>2, <2>3
<1> QED
  BY <1>1, <1>2

(* A dropped scope closes its operation in memory, or releases it without  *)
(* an outcome.                                                             *)
LEMMA SerialDrop ==
  ASSUME Serial, EnvMode, IInv, SessionInv, NEW t \in Thread,
         NEW i \in 0..Len(ops), DropScope(t, i)
  PROVE  /\ sess'[Main].st = sess[Main].st
         /\ \/ UNCHANGED <<sess, ops>> /\ (i # 0 => ops[i].end # "open")
            \/ /\ i # 0 /\ ops[i].end = "open"
               /\ sess'[Main].current = Released(sess[Main].current, i)
               /\ \/ ops' = ops
                  \/ \E kind \in Closed : ops' = [ops EXCEPT ![i].end = kind]
<1>0. /\ TypeOK /\ Main \in Thread /\ NoSession # Main
      /\ sess \in [Thread -> Session]
  BY ConstantAssumption DEF IInv, TypeOK
<1>1. CASE i = 0
  BY <1>1 DEF DropScope
<1>2. CASE i # 0
  <2> DEFINE c == sess[Main]
             kind == IF unwinding[t] THEN "fault" ELSE "abandoned"
  <2>1. i \in 1..Len(ops) /\ ops[i].ses = Main /\ Live(ops[i].ses)
    BY <1>0, <1>2 DEF SessionInv, OneSession, Live, TypeOK
  <2>2. CASE ops[i].end # "open"
    BY <2>2 DEF DropScope
  <2>3. CASE ops[i].end = "open" /\ CanTick(c.clock, 2)
    <3>1. /\ ops' = [ops EXCEPT ![i].end = kind]
          /\ sess' = Updated(sess, Main, c.clock + 2, Released(c.current, i), c.failed)
      BY <1>2, <2>1, <2>3 DEF DropScope
    <3>2. sess'[Main].st = c.st /\ sess'[Main].current = Released(c.current, i)
      BY <1>0, <3>1 DEF Updated
    <3>3. kind \in Closed
      BY DEF Closed
    <3> HIDE DEF kind
    <3> QED
      BY <1>2, <2>3, <3>1, <3>2, <3>3
  <2>4. CASE ops[i].end = "open" /\ ~CanTick(c.clock, 2)
    <3>1. /\ ops' = ops
          /\ sess' = Updated(sess, Main, Ticked(c.clock, 2), Released(c.current, i), TRUE)
      BY <1>2, <2>1, <2>4 DEF DropScope
    <3>2. sess'[Main].st = c.st /\ sess'[Main].current = Released(c.current, i)
      BY <1>0, <3>1 DEF Updated
    <3> QED
      BY <1>2, <2>4, <3>1, <3>2
  <2> QED
    BY <2>2, <2>3, <2>4
<1> QED
  BY <1>1, <1>2
-----------------------------------------------------------------------------
(* The test thread's collector stays the only one                          *)

(* A step that installs no context and removes at most the newest frame.   *)
LEMMA SessionsShrink ==
  ASSUME IInv, SessionInv, IInv', Grown, Len(ops') = Len(ops),
         slot' = slot, sess'[Main].st = sess[Main].st,
         \A k \in Task : tasks'[k].ctxSes = tasks[k].ctxSes,
         Len(frames') <= Len(frames),
         \A m \in 1..Len(frames') : frames'[m] = frames[m]
  PROVE  SessionInv'
<1>1. /\ frames \in Seq(Frame) /\ Len(frames) \in Nat
      /\ frames' \in Seq(Frame) /\ Len(frames') \in Nat
  BY DEF IInv, TypeOK
<1>2. \A m \in 1..Len(frames') :
        m \in 1..Len(frames) /\ (frames[m].task # NoTask => frames[m].task \in Task)
  <2>1. \A m \in 1..Len(frames') : m \in 1..Len(frames)
    BY <1>1
  <2> QED
    BY <2>1, FrameType DEF IInv
<1>3. OneSession'
  BY <1>2 DEF SessionInv, OneSession, Grown
<1>4. SlotsRestored'
  BY <1>2 DEF SessionInv, SlotsRestored
<1> QED
  BY <1>3, <1>4 DEF SessionInv

(* An operation begins on a thread that uses the test thread's collector.  *)
LEMMA SessionsBegin ==
  ASSUME IInv, SessionInv, IInv', NEW t \in Thread,
         slot' = [slot EXCEPT ![t] = Main], sess'[Main].st = "live",
         t # Main => sess[Main].st = "live",
         ops' = ops \/ \E o : o.ses = Main /\ ops' = Append(ops, o),
         \A k \in Task : tasks'[k].ctxSes = tasks[k].ctxSes,
         \/ frames' = frames
         \/ \E f \in Frame : f.thread = t /\ f.task = NoTask /\ frames' = Pushed(f)
  PROVE  SessionInv'
<1>1. /\ frames \in Seq(Frame) /\ Len(frames) \in Nat
      /\ slot \in [Thread -> Thread \cup {NoSession}]
      /\ ops \in Seq(Operation) /\ Main \in Thread
  BY ConstantAssumption DEF IInv, TypeOK
<1>2. /\ Len(frames') \in Nat
      /\ \A m \in 1..Len(frames') :
           \/ m \in 1..Len(frames) /\ frames'[m] = frames[m]
           \/ frames'[m].thread = t /\ frames'[m].task = NoTask
      /\ Len(frames) <= Len(frames')
      /\ \A m \in 1..Len(frames) : frames'[m] = frames[m]
  <2>1. CASE frames' = frames
    BY <1>1, <2>1
  <2>2. CASE frames' # frames
    <3>1. PICK f \in Frame : f.thread = t /\ f.task = NoTask /\ frames' = Pushed(f)
      BY <2>2
    <3>2. /\ Len(frames') = Len(frames) + 1 /\ frames'[Len(frames) + 1] = f
          /\ \A m \in 1..Len(frames) : frames'[m] = frames[m]
      BY <1>1, <3>1, PushedFacts
    <3> QED
      BY <1>1, <3>1, <3>2
  <2> QED
    BY <2>1, <2>2
<1>3. \A i \in 1..Len(ops') : ops'[i].ses = Main
  <2>1. \A i \in 1..Len(ops) : ops[i].ses = Main
    BY DEF SessionInv, OneSession
  <2>2. ASSUME NEW o, o.ses = Main, ops' = Append(ops, o)
        PROVE  \A i \in 1..Len(ops') : ops'[i].ses = Main
    BY <1>1, <2>1, <2>2
  <2> QED
    BY <2>1, <2>2
<1>4. \A n \in 1..Len(frames') : frames'[n].thread # Main => slot'[frames'[n].thread] = Main
  <2> SUFFICES ASSUME NEW n \in 1..Len(frames'), frames'[n].thread # Main
               PROVE  slot'[frames'[n].thread] = Main
    OBVIOUS
  <2>1. CASE frames'[n].thread = t
    BY <1>1, <2>1
  <2>2. CASE frames'[n].thread # t
    <3>1. n \in 1..Len(frames) /\ frames'[n] = frames[n]
      BY <1>2, <2>2
    <3>2. frames[n].thread \in Thread
      BY <3>1, FrameType DEF IInv
    <3> QED
      BY <1>1, <2>2, <3>1, <3>2 DEF SessionInv, OneSession
  <2> QED
    BY <2>1, <2>2
<1>5. OneSession'
  <2>1. slot'[Main] = Main
    BY <1>1 DEF SessionInv, OneSession
  <2>2. \A u \in Thread : slot'[u] \in {Main, NoSession}
    BY <1>1 DEF SessionInv, OneSession
  <2> QED
    BY <1>3, <1>4, <2>1, <2>2 DEF SessionInv, OneSession
<1>6. SlotsRestored'
  <2> SUFFICES ASSUME NEW n \in 1..Len(frames'), frames'[n].task # NoTask
               PROVE  /\ frames'[n].prevSes \in {Main, NoSession}
                      /\ tasks'[frames'[n].task].ctxSes = NoSession
                           => frames'[n].thread = Main
                      /\ tasks'[frames'[n].task].ctxSes = Main =>
                           \/ frames'[n].prevSes = Main
                           \/ /\ frames'[n].thread # Main
                              /\ \A m \in 1..Len(frames') :
                                   m < n => frames'[m].thread # frames'[n].thread
    BY DEF SlotsRestored
  <2>1. n \in 1..Len(frames) /\ frames'[n] = frames[n] /\ frames[n].task \in Task
    <3>1. n \in 1..Len(frames) /\ frames'[n] = frames[n]
      BY <1>2
    <3> QED
      BY <3>1, FrameType DEF IInv
  <2>2. \A m \in 1..Len(frames') : m < n => m \in 1..Len(frames) /\ frames'[m] = frames[m]
    BY <1>1, <1>2, <2>1
  <2> QED
    BY <2>1, <2>2 DEF SessionInv, SlotsRestored
<1> QED
  BY <1>5, <1>6 DEF SessionInv

(* A future remembers the collector of the thread that constructs it.      *)
LEMMA SessionsConstruct ==
  ASSUME IInv, SessionInv, IInv', NEW t \in Thread, NEW k \in Task,
         ConstructFuture(t, k)
  PROVE  SessionInv'
<1>1. /\ frames \in Seq(Frame) /\ tasks \in [Task -> Future]
      /\ tasks[k].st = "none" /\ tasks' \in [Task -> Future]
      /\ tasks'[k].ctxSes = slot[t]
      /\ \A j \in Task \ {k} : tasks'[j] = tasks[j]
      /\ UNCHANGED <<sess, slot, ops, frames>>
  BY DEF ConstructFuture, IInv, TypeOK
<1>2. OneSession'
  BY <1>1 DEF SessionInv, OneSession
<1>3. \A n \in 1..Len(frames) : frames[n].task # NoTask =>
        frames[n].task \in Task /\ tasks'[frames[n].task] = tasks[frames[n].task]
  BY <1>1, FrameType DEF IInv, ContextOK
<1>4. SlotsRestored'
  BY <1>1, <1>3 DEF SessionInv, SlotsRestored
<1> QED
  BY <1>2, <1>4 DEF SessionInv

(* A poll installs the test thread's collector on its own thread.          *)
LEMMA SessionsInstall ==
  ASSUME Serial, IInv, SessionInv, IInv', NEW t \in Thread, NEW k \in Task,
         InstallContext(t, k)
  PROVE  SessionInv'
<1> DEFINE c == tasks[k].ctxSes
           L == Len(frames)
           f == [thread |-> t, task |-> k, op |-> 0, prevSes |-> slot[t],
                 prevOp |-> IF Live(c) THEN sess[c].current ELSE 0]
<1>1. /\ frames \in Seq(Frame) /\ L \in Nat
      /\ tasks \in [Task -> Future] /\ sess \in [Thread -> Session]
      /\ slot \in [Thread -> Thread \cup {NoSession}]
      /\ Main \in Thread /\ NoSession # Main /\ NoTask \notin Task
      /\ NoSession \notin Thread
  BY ConstantAssumption DEF IInv, TypeOK
<1>2. /\ c \in {Main, NoSession} /\ (c = Main => Live(c))
      /\ c = NoSession => ~Live(c) /\ t = Main /\ frames = <<>>
  BY <1>1 DEF SessionInv, OneSession, Live, InstallContext, ContextCollector
<1>3. /\ frames' = Append(frames, f)
      /\ tasks' = [tasks EXCEPT ![k].st = "polled"]
      /\ slot' = IF c = NoSession THEN slot ELSE [slot EXCEPT ![t] = c]
      /\ sess' = IF Live(c) THEN [sess EXCEPT ![c].current = tasks[k].ctxOp] ELSE sess
      /\ ops' = ops
  BY DEF InstallContext, ContextCollector, Pushed
<1>4. /\ f.thread = t /\ f.task = k /\ f.prevSes = slot[t]
      /\ Len(frames') = L + 1 /\ frames'[L + 1] = f
      /\ \A m \in 1..L : frames'[m] = frames[m]
  BY <1>1, <1>3
<1>5. \A j \in Task : tasks'[j].ctxSes = tasks[j].ctxSes
  BY <1>1, <1>3 DEF Future
<1>6. sess'[Main].st = sess[Main].st
  BY <1>1, <1>2, <1>3 DEF Session
<1>7. /\ \A u \in Thread : u # t => slot'[u] = slot[u]
      /\ slot'[t] = IF c = NoSession THEN slot[t] ELSE Main
  BY <1>1, <1>2, <1>3
<1> HIDE DEF f, c, L
<1>8. OneSession'
  <2>1. \A n \in 1..(L + 1) :
          frames'[n].thread # Main => slot'[frames'[n].thread] = Main
    <3> SUFFICES ASSUME NEW n \in 1..(L + 1), frames'[n].thread # Main
                 PROVE  slot'[frames'[n].thread] = Main
      OBVIOUS
    <3>1. CASE frames'[n].thread = t
      BY <1>2, <1>7, <3>1
    <3>2. CASE frames'[n].thread # t
      <4>1. n \in 1..L
        BY <1>1, <1>4, <3>2
      <4>2. frames'[n] = frames[n] /\ frames[n] \in Frame
        BY <1>1, <1>4, <4>1 DEF L
      <4> QED
        BY <1>7, <3>2, <4>1, <4>2 DEF SessionInv, OneSession, L, Frame
    <3> QED
      BY <3>1, <3>2
  <2>2. slot'[Main] \in {slot[Main], Main}
    BY <1>1, <1>7
  <2>3. /\ \A u \in Thread : /\ slot'[u] \in {Main, NoSession}
                             /\ slot'[u] = Main => sess[Main].st = "live"
        /\ sess[Main].st = "live" => slot'[Main] = Main
    BY <1>1, <1>2, <1>7, <2>2 DEF SessionInv, OneSession, Live
  <2> QED
    BY <1>3, <1>4, <1>5, <1>6, <2>1, <2>3 DEF SessionInv, OneSession
<1>9. SlotsRestored'
  <2> SUFFICES ASSUME NEW n \in 1..(L + 1), frames'[n].task # NoTask
               PROVE  /\ frames'[n].prevSes \in {Main, NoSession}
                      /\ tasks'[frames'[n].task].ctxSes = NoSession
                           => frames'[n].thread = Main
                      /\ tasks'[frames'[n].task].ctxSes = Main =>
                           \/ frames'[n].prevSes = Main
                           \/ /\ frames'[n].thread # Main
                              /\ \A m \in 1..(L + 1) :
                                   m < n => frames'[m].thread # frames'[n].thread
    BY <1>4 DEF SlotsRestored
  <2>1. \A m \in 1..(L + 1) : m < n => m \in 1..L /\ frames'[m] = frames[m]
    BY <1>1, <1>4
  <2>2. CASE n = L + 1
    <3>1. frames'[n] = f /\ tasks'[k].ctxSes = c
      BY <1>4, <1>5, <2>2 DEF c
    <3>2. slot[t] \in {Main, NoSession}
      BY DEF SessionInv, OneSession
    <3>3. ASSUME c = Main, slot[t] = NoSession
          PROVE  t # Main /\ \A m \in 1..L : frames[m].thread # t
      BY <1>1, <1>2, <3>3 DEF SessionInv, OneSession, Live, L
    <3> QED
      BY <1>2, <1>4, <2>1, <2>2, <3>1, <3>2, <3>3
  <2>3. CASE n \in 1..L
    <3>1. frames'[n] = frames[n] /\ frames[n].task \in Task
      BY <1>4, <2>3, FrameType DEF L, IInv
    <3> QED
      BY <1>5, <2>1, <2>3, <3>1 DEF SessionInv, SlotsRestored, L
  <2> QED
    BY <1>1, <2>2, <2>3
<1> QED
  BY <1>8, <1>9 DEF SessionInv

(* A poll that ends leaves the slot to the frames below it.                *)
LEMMA SessionsRestore ==
  ASSUME Serial, IInv, SessionInv, IInv', NEW t \in Thread, NEW n,
         RestoreContext(t, n)
  PROVE  SessionInv'
<1> DEFINE k == frames[n].task
           c == tasks[k].ctxSes
           L == Len(frames)
<1>1. /\ frames \in Seq(Frame) /\ L \in Nat /\ TypeOK
      /\ tasks \in [Task -> Future] /\ sess \in [Thread -> Session]
      /\ slot \in [Thread -> Thread \cup {NoSession}]
      /\ Main \in Thread /\ NoSession # Main
  BY ConstantAssumption DEF IInv, TypeOK
<1>2. n = L /\ n \in 1..L /\ frames[n].thread = t
  BY <1>1, TopIsLast DEF RestoreContext
<1>3. k \in Task /\ k # NoTask /\ frames[n].prevSes \in {Main, NoSession}
      /\ frames[n] \in Frame
  <2>1. k # NoTask
    BY DEF RestoreContext
  <2> QED
    BY <1>1, <1>2, <2>1, FrameType DEF SessionInv, SlotsRestored
<1>4. /\ frames' = Popped(L)
      /\ tasks' = [tasks EXCEPT
           ![k].st = IF tasks[k].scope = "closed" THEN "gone" ELSE "idle",
           ![k].ctxOp = IF Live(c) THEN sess[c].current ELSE 0]
      /\ slot' = IF c = NoSession THEN slot ELSE [slot EXCEPT ![t] = frames[n].prevSes]
      /\ sess' = IF Live(c) THEN [sess EXCEPT ![c].current = frames[n].prevOp] ELSE sess
      /\ ops' = ops
  BY <1>2 DEF RestoreContext, ContextCollector
<1>5. Len(frames') = L - 1 /\ \A m \in 1..(L - 1) : frames'[m] = frames[m]
  BY <1>1, <1>2, <1>4, LastPopped
<1>6. \A j \in Task : tasks'[j].ctxSes = tasks[j].ctxSes
  BY <1>1, <1>3, <1>4 DEF Future
<1>7. c \in {Main, NoSession} /\ (c = NoSession => ~Live(c))
  BY <1>3 DEF SessionInv, OneSession, Live
<1>8. sess'[Main].st = sess[Main].st
  BY <1>1, <1>4, <1>7 DEF Session
<1>9. /\ \A u \in Thread : u # t => slot'[u] = slot[u]
      /\ slot'[t] = IF c = NoSession THEN slot[t] ELSE frames[n].prevSes
  BY <1>1, <1>4
<1>10. c = NoSession => t = Main
  BY <1>2, <1>3 DEF SessionInv, SlotsRestored
<1>11. c = Main => \/ frames[n].prevSes = Main
                   \/ t # Main /\ \A m \in 1..(L - 1) : frames[m].thread # t
  <2>1. \A m \in 1..(L - 1) : m \in 1..L /\ m < n
    BY <1>1, <1>2
  <2> QED
    BY <1>2, <1>3, <2>1 DEF SessionInv, SlotsRestored
<1>12. \A m \in 1..(L - 1) : /\ m \in 1..L /\ frames[m] \in Frame
                             /\ frames[m].thread \in Thread
                             /\ frames[m].task # NoTask => frames[m].task \in Task
  <2>1. \A m \in 1..(L - 1) : m \in 1..L
    BY <1>1
  <2> QED
    BY <1>1, <2>1, FrameType
<1>13. c = Main => sess[Main].st = "live"
  BY <1>3 DEF SessionInv, OneSession
<1> HIDE DEF k, c, L
<1>14. OneSession'
  <2>1. \A m \in 1..(L - 1) :
          frames[m].thread # Main => slot'[frames[m].thread] = Main
    BY <1>9, <1>10, <1>11, <1>7, <1>12 DEF SessionInv, OneSession, L
  <2>2. slot'[Main] = slot[Main]
    BY <1>1, <1>7, <1>9, <1>11, <1>13 DEF SessionInv, OneSession
  <2>3. \A u \in Thread : /\ slot'[u] \in {Main, NoSession}
                          /\ slot'[u] = Main => sess[Main].st = "live"
    BY <1>3, <1>7, <1>9, <1>13 DEF SessionInv, OneSession
  <2>4. \A m \in 1..Len(frames') :
          frames'[m].thread # Main => slot'[frames'[m].thread] = Main
    BY <1>5, <2>1
  <2>5. \A j \in Task : /\ tasks'[j].ctxSes \in {Main, NoSession}
                        /\ tasks'[j].ctxSes = Main => sess'[Main].st = "live"
    BY <1>6, <1>8 DEF SessionInv, OneSession
  <2> QED
    BY <1>4, <1>8, <2>2, <2>3, <2>4, <2>5 DEF SessionInv, OneSession
<1>15. SlotsRestored'
  <2> SUFFICES ASSUME NEW p \in 1..(L - 1), frames[p].task # NoTask
               PROVE  /\ frames[p].prevSes \in {Main, NoSession}
                      /\ tasks'[frames[p].task].ctxSes = NoSession
                           => frames[p].thread = Main
                      /\ tasks'[frames[p].task].ctxSes = Main =>
                           \/ frames[p].prevSes = Main
                           \/ /\ frames[p].thread # Main
                              /\ \A m \in 1..(L - 1) :
                                   m < p => frames[m].thread # frames[p].thread
    BY <1>5 DEF SlotsRestored
  <2> QED
    BY <1>6, <1>12 DEF SessionInv, SlotsRestored, L
<1> QED
  BY <1>14, <1>15 DEF SessionInv
-----------------------------------------------------------------------------
(* The sidecar                                                             *)

(* What a snapshot shows of the only collector.                            *)
LEMMA SnapshotShows ==
  ASSUME IInv, OneSession
  PROVE  \A i \in 1..Len(ops) :
           Snapshot(Main)[i] = IF ops[i].end = "open" THEN "incomplete" ELSE ops[i].end
<1>1. DOMAIN ops = 1..Len(ops) /\ Len(ops) \in Nat /\ Len(ops) <= MaxOps
  BY DEF IInv, TypeOK
<1>2. \A i \in 1..Len(ops) : i \in OpId /\ ops[i].ses = Main
  BY <1>1, ConstantAssumption DEF OpId, OneSession
<1> QED
  BY <1>1, <1>2 DEF Snapshot

(* A step that begins nothing: an operation closed in memory is one the    *)
(* sidecar shows incomplete.                                               *)
LEMMA LagKept ==
  ASSUME IInv, SidecarInv, IInv', Grown, Len(ops') = Len(ops), Quiet,
         marker => marker', UNCHANGED <<io, sidecar, acked>>
  PROVE  SidecarInv'
<1>1. Quiet'
  BY DEF Quiet
<1>2. \A i \in 1..Len(ops) : i \in OpId /\ sidecar[i] # "open"
  <2>1. \A i \in 1..Len(ops) : i \in OpId
    BY ConstantAssumption DEF IInv, TypeOK, OpId
  <2> QED
    BY <2>1 DEF IInv, TypeOK, Shown, Closed
<1>3. SidecarFresh'
  <2> SUFFICES ASSUME ~marker', NEW i \in 1..Len(ops')
               PROVE  sidecar'[i] = ops'[i].end \/ sidecar'[i] = "incomplete"
    BY DEF SidecarFresh
  <2>1. i \in 1..Len(ops) /\ (sidecar[i] = ops[i].end \/ sidecar[i] = "incomplete")
    BY DEF SidecarInv, SidecarFresh
  <2> QED
    BY <1>2, <2>1 DEF Grown
<1>4. AckedKept'
  BY DEF SidecarInv, AckedKept, Grown
<1>5. OneWriter' /\ SnapshotCurrent' /\ ExitQuiet'
  BY <1>1 DEF OneWriter, SnapshotCurrent, ExitQuiet, Quiet
<1> QED
  BY <1>3, <1>4, <1>5 DEF SidecarInv

(* A step that begins or completes an operation goes on to persist it.     *)
LEMMA PersistStarts ==
  ASSUME IInv, SidecarInv, IInv', Grown, Quiet, ~exited',
         NEW t \in Thread, NEW i \in 0..Len(ops'),
         i # 0 => ops'[i].end # "open",
         io' = [io EXCEPT ![t] = [ph |-> "snap", ses |-> Main, op |-> i, snap |-> Blank]],
         UNCHANGED <<sidecar, acked>>
  PROVE  SidecarInv'
<1>1. /\ io \in [Thread -> Persistence] /\ Len(ops) \in Nat /\ Len(ops') \in Nat
  BY DEF IInv, TypeOK
<1>2. /\ \A u \in Thread : u # t => io'[u] = io[u]
      /\ io'[t].ph = "snap" /\ io'[t].ses = Main /\ io'[t].op = i
  BY <1>1
<1>3. OneWriter' /\ SnapshotCurrent'
  <2>1. \A u \in Thread : u # t => io'[u].ph = "idle"
    BY <1>2 DEF Quiet
  <2>2. i # 0 => i \in 1..Len(ops')
    BY <1>1
  <2> QED
    BY <1>2, <2>1, <2>2 DEF OneWriter, SnapshotCurrent
<1>4. ~Quiet'
  BY <1>2 DEF Quiet
<1>5. AckedKept'
  BY <1>1 DEF SidecarInv, AckedKept, Grown
<1> QED
  BY <1>3, <1>4, <1>5 DEF SidecarInv, SidecarFresh, ExitQuiet

(* A thread that stops persisting was the only one that did.               *)
LEMMA WriterDone ==
  ASSUME IInv, SidecarInv, NEW t \in Thread, io[t].ph # "idle",
         io' = [io EXCEPT ![t] = Idle]
  PROVE  Quiet'
<1>1. io \in [Thread -> Persistence]
  BY DEF IInv, TypeOK
<1>2. \A u \in Thread : u # t => io[u].ph = "idle"
  BY DEF SidecarInv, OneWriter
<1> QED
  BY <1>1, <1>2 DEF Quiet, Idle

(* The steps of persist_collector_capture.                                 *)
LEMMA PersistSteps ==
  ASSUME IInv, DurableInv, IInv', Grown, NEW t \in Thread,
         TakeSnapshot(t) \/ PersistSnapshot(t) \/ PersistFails(t)
  PROVE  DurableInv'
<1>0. /\ TypeOK /\ io \in [Thread -> Persistence] /\ sess \in [Thread -> Session]
      /\ slot \in [Thread -> Thread \cup {NoSession}] /\ Main \in Thread
      /\ DOMAIN ops = 1..Len(ops) /\ Len(ops) \in Nat
  BY ConstantAssumption DEF IInv, TypeOK
<1>1. io[t].ph # "idle" /\ io[t].ses = Main /\ ~exited /\ exited' = exited
  BY DEF TakeSnapshot, PersistSnapshot, PersistFails, DurableInv, SidecarInv,
         SnapshotCurrent
<1>2. UNCHANGED <<slot, ops, frames, tasks>>
  BY DEF TakeSnapshot, PersistSnapshot, PersistFails
<1>3. /\ Snapshot(Main)' = Snapshot(Main)
      /\ AckedKept /\ OneSession /\ SnapshotCurrent /\ OneWriter
  BY <1>2 DEF Snapshot, DurableInv, SessionInv, SidecarInv
<1>4. ASSUME sess' \in [Thread -> Session],
             \A s \in Thread : sess'[s].st = sess[s].st
      PROVE  SessionInv'
  <2>1. sess'[Main].st = sess[Main].st
    BY <1>0, <1>4
  <2> QED
    BY <1>0, <1>2, <2>1, SessionsShrink DEF DurableInv, IInv, TypeOK
<1>5. ASSUME io' = [io EXCEPT ![t] = Idle], marker' = TRUE,
             UNCHANGED <<sidecar, acked>>
      PROVE  SidecarInv'
  <2>1. Quiet'
    BY <1>1, <1>5, WriterDone DEF DurableInv
  <2>2. OneWriter' /\ SnapshotCurrent' /\ SidecarFresh' /\ ExitQuiet'
    BY <1>5, <2>1 DEF OneWriter, SnapshotCurrent, SidecarFresh, ExitQuiet, Quiet
  <2>3. AckedKept'
    BY <1>2, <1>3, <1>5 DEF AckedKept
  <2> QED
    BY <2>2, <2>3 DEF SidecarInv
<1>6. CASE TakeSnapshot(t)
  <2> DEFINE fits == CanTick(sess[Main].clock, 2 * Cardinality(Open(Main)) + 1)
             ok == Live(Main) /\ ~sess[Main].failed /\ fits
  <2>1. CASE ok
    <3>1. /\ io' = [io EXCEPT ![t] = [ph |-> "write", ses |-> Main, op |-> io[t].op,
                                      snap |-> Snapshot(Main)]]
          /\ UNCHANGED <<sess, marker, sidecar, acked>>
      BY <1>1, <1>6, <2>1 DEF TakeSnapshot
    <3>2. /\ \A u \in Thread : u # t => io'[u] = io[u] /\ io[u].ph = "idle"
          /\ io'[t].ph = "write" /\ io'[t].ses = Main /\ io'[t].op = io[t].op
          /\ io'[t].snap = Snapshot(Main)
      BY <1>0, <1>1, <1>3, <3>1 DEF OneWriter
    <3>3. OneWriter'
      BY <3>2 DEF OneWriter
    <3>4. SnapshotCurrent'
      BY <1>1, <1>2, <1>3, <3>2 DEF SnapshotCurrent
    <3>5. AckedKept'
      BY <1>2, <1>3, <3>1 DEF AckedKept
    <3>6. SidecarFresh' /\ ExitQuiet'
      <4>1. ~Quiet'
        BY <3>2 DEF Quiet
      <4> QED
        BY <1>1, <4>1 DEF SidecarFresh, ExitQuiet
    <3> QED
      BY <1>0, <1>4, <3>1, <3>3, <3>4, <3>5, <3>6 DEF SidecarInv, DurableInv
  <2>2. CASE ~ok
    <3>1. /\ io' = [io EXCEPT ![t] = Idle] /\ sess' = MarkError(t, sess)
          /\ marker' = TRUE /\ UNCHANGED <<sidecar, acked>>
      BY <1>1, <1>6, <2>2 DEF TakeSnapshot
    <3>2. SessionInv'
      BY <1>0, <1>4, <3>1, MarkErrorFacts
    <3> QED
      BY <1>5, <3>1, <3>2 DEF DurableInv
  <2> QED
    BY <2>1, <2>2
<1>7. CASE PersistSnapshot(t)
  <2>1. /\ io[t].ph = "write" /\ io[t].snap = Snapshot(Main)
        /\ sidecar' = Snapshot(Main)
        /\ acked' = IF io[t].op = 0 THEN acked ELSE acked \cup {io[t].op}
        /\ io' = [io EXCEPT ![t] = Idle]
        /\ UNCHANGED <<sess, marker>>
    BY <1>3, <1>7 DEF PersistSnapshot, SnapshotCurrent
  <2>2. Quiet'
    BY <1>1, <2>1, WriterDone DEF DurableInv
  <2>3. \A i \in 1..Len(ops) :
          sidecar'[i] = IF ops[i].end = "open" THEN "incomplete" ELSE ops[i].end
    BY <1>3, <2>1, SnapshotShows
  <2>4. AckedKept'
    <3> SUFFICES ASSUME NEW i \in acked'
                 PROVE  /\ i \in 1..Len(ops) /\ ops[i].end # "open"
                        /\ sidecar'[i] = ops[i].end
      BY <1>2 DEF AckedKept
    <3>1. i \in 1..Len(ops) /\ ops[i].end # "open"
      BY <1>1, <1>3, <2>1 DEF AckedKept, SnapshotCurrent
    <3> QED
      BY <2>3, <3>1
  <2>5. SidecarFresh'
    BY <1>2, <2>3 DEF SidecarFresh
  <2>6. OneWriter' /\ SnapshotCurrent' /\ ExitQuiet'
    BY <2>2 DEF OneWriter, SnapshotCurrent, ExitQuiet, Quiet
  <2> QED
    BY <1>0, <1>4, <2>1, <2>4, <2>5, <2>6 DEF SidecarInv, DurableInv
<1>8. CASE PersistFails(t)
  <2> DEFINE S == IF Live(Main) THEN [sess EXCEPT ![Main].failed = TRUE] ELSE sess
  <2>1. /\ sess' = MarkError(t, S) /\ marker' = TRUE
        /\ io' = [io EXCEPT ![t] = Idle] /\ UNCHANGED <<sidecar, acked>>
    BY <1>1, <1>8 DEF PersistFails
  <2>2. S \in [Thread -> Session] /\ \A s \in Thread : S[s].st = sess[s].st
    BY <1>0 DEF Session
  <2> HIDE DEF S
  <2>3. SessionInv'
    BY <1>0, <1>4, <2>1, <2>2, MarkErrorFacts
  <2> QED
    BY <1>5, <2>1, <2>3 DEF DurableInv
<1> QED
  BY <1>6, <1>7, <1>8
-----------------------------------------------------------------------------
(* Every step                                                              *)

(* The actions that begin an operation.                                    *)
LEMMA BeginSteps ==
  ASSUME Serial, EnvMode, IInv, DurableInv, IInv', Grown, NEW t \in Thread,
         BeginOperation(t) \/ \E n \in DOMAIN frames : BeginAsyncOperation(t, n)
  PROVE  DurableInv'
<1>0. TypeOK /\ Len(ops) \in Nat /\ tasks \in [Task -> Future]
      /\ frames \in Seq(Frame) /\ DOMAIN frames = 1..Len(frames)
      /\ Main \in Thread
  BY ConstantAssumption DEF IInv, TypeOK
<1>1. \E caller \in 0..MaxOps : BeginActive(t, caller)
  <2>1. CASE BeginOperation(t)
    BY <1>0, <2>1, CallerType DEF BeginOperation
  <2>2. ASSUME NEW n \in DOMAIN frames, BeginAsyncOperation(t, n)
        PROVE  \E caller \in 0..MaxOps : BeginActive(t, caller)
    <3>1. frames[n].task \in Task /\ BeginActive(t, tasks[frames[n].task].caller)
      BY <1>0, <2>2, FrameType DEF BeginAsyncOperation
    <3>2. tasks[frames[n].task].caller \in 0..MaxOps
      BY <1>0, <3>1 DEF Future
    <3> QED
      BY <3>1, <3>2
  <2> QED
    BY <2>1, <2>2
<1>2. /\ MayRun(t) /\ Len(ops) < MaxOps /\ UNCHANGED <<sidecar, exited, acked>>
      /\ t = Main \/ ~AtBase(t)
  <2>1. CASE BeginOperation(t)
    BY <2>1, CallsFromTest DEF BeginOperation
  <2>2. CASE \E n \in DOMAIN frames : BeginAsyncOperation(t, n)
    BY <2>2 DEF BeginAsyncOperation, IsTop, AtBase
  <2> QED
    BY <2>1, <2>2
<1>3. PICK caller \in 0..MaxOps : BeginActive(t, caller)
  BY <1>1
<1>4. /\ slot' = [slot EXCEPT ![t] = Main]
      /\ sess'[Main].st = "live" /\ (t # Main => sess[Main].st = "live")
      /\ \/ RecordsUnder(t, caller)
         \/ ops' = ops /\ io' = io /\ marker' = TRUE
  BY <1>2, <1>3, SerialBegin DEF DurableInv
<1>5. Quiet /\ ~exited
  BY <1>2, RunsAlone
<1>6. SessionInv'
  <2>1. ops' = ops \/ \E o : o.ses = Main /\ ops' = Append(ops, o)
    <3>1. CASE ops' = ops
      BY <3>1
    <3>2. CASE RecordsUnder(t, caller)
      <4> DEFINE o == [ses |-> Main, parent |-> sess[Main].current,
                       caller |-> caller, end |-> "open", obs |-> <<>>]
      <4>1. o.ses = Main /\ ops' = Append(ops, o)
        BY <3>2 DEF RecordsUnder
      <4> QED
        BY <4>1
    <3> QED
      BY <1>4, <3>1, <3>2
  <2>2. /\ \A k \in Task : tasks'[k].ctxSes = tasks[k].ctxSes
        /\ \/ frames' = frames
           \/ \E f \in Frame : f.thread = t /\ f.task = NoTask /\ frames' = Pushed(f)
    <3>1. CASE BeginOperation(t)
      <4> DEFINE f == [thread |-> t, task |-> NoTask, op |-> ScopeOp(t),
                       prevSes |-> NoSession, prevOp |-> 0]
      <4>1. frames' = Pushed(f) /\ tasks' = tasks
        BY <3>1 DEF BeginOperation
      <4>2. ScopeOp(t) \in 0..MaxOps
        BY <1>0, <1>2, <1>3, BeginFacts
      <4>3. f \in Frame /\ f.thread = t /\ f.task = NoTask
        BY <4>2, ConstantAssumption DEF Frame
      <4> QED
        BY <4>1, <4>3
    <3>2. ASSUME NEW n \in DOMAIN frames, BeginAsyncOperation(t, n)
          PROVE  (\A k \in Task : tasks'[k].ctxSes = tasks[k].ctxSes)
                 /\ frames' = frames
      <4>1. frames[n].task \in Task /\ frames' = frames
            /\ tasks' = [tasks EXCEPT ![frames[n].task].scope = "open",
                                      ![frames[n].task].op = ScopeOp(t)]
        BY <1>0, <3>2, FrameType DEF BeginAsyncOperation
      <4> QED
        BY <1>0, <4>1 DEF Future
    <3> QED
      BY <3>1, <3>2
  <2> QED
    BY <1>4, <2>1, <2>2, SessionsBegin DEF DurableInv
<1>7. SidecarInv'
  <2>1. CASE RecordsUnder(t, caller)
    <3>1. io' = [io EXCEPT ![t] = [ph |-> "snap", ses |-> Main, op |-> 0,
                                   snap |-> Blank]]
      BY <2>1 DEF RecordsUnder
    <3>2. 0 \in 0..Len(ops')
      BY DEF IInv, TypeOK
    <3> QED
      BY <1>2, <1>5, <3>1, <3>2, PersistStarts DEF DurableInv
  <2>2. CASE ops' = ops /\ io' = io /\ marker' = TRUE
    BY <1>2, <1>5, <2>2, LagKept DEF DurableInv
  <2> QED
    BY <1>4, <2>1, <2>2
<1> QED
  BY <1>6, <1>7 DEF DurableInv

(* The actions that complete one.                                          *)
LEMMA CompleteSteps ==
  ASSUME Serial, EnvMode, IInv, DurableInv, IInv', Grown, NEW t \in Thread,
         NEW n \in DOMAIN frames, NEW kind \in Closed,
         CompleteOperation(t, n, kind) \/ CompleteAsyncOperation(t, n, kind)
  PROVE  DurableInv'
<1> DEFINE k == frames[n].task
           i == IF k = NoTask THEN frames[n].op ELSE tasks[k].op
<1>0. /\ TypeOK /\ Len(ops) \in Nat /\ tasks \in [Task -> Future]
      /\ frames \in Seq(Frame) /\ Len(frames) \in Nat
      /\ DOMAIN frames = 1..Len(frames)
  BY DEF IInv, TypeOK
<1>1. /\ MayRun(t) /\ n \in 1..Len(frames) /\ n = Len(frames) /\ Quiet /\ ~exited
      /\ k # NoTask => k \in Task
  BY <1>0, RunsAlone, TopIsLast, FrameType DEF CompleteOperation, CompleteAsyncOperation
<1>2. /\ CompleteScope(t, i, kind) /\ UNCHANGED <<slot, sidecar, exited, acked>>
      /\ k # NoTask => tasks[k].scope = "open"
  BY DEF CompleteOperation, CompleteAsyncOperation
<1>3. i \in 0..Len(ops)
  BY <1>0, <1>1, FrameType DEF IInv, OwnersOK
<1> HIDE DEF i
<1>4. /\ sess'[Main].st = sess[Main].st
      /\ \/ i = 0 /\ UNCHANGED <<sess, ops, io, marker>>
         \/ i # 0 /\ Completes(t, i, kind)
         \/ i # 0 /\ ops' = ops /\ io' = io /\ marker' = TRUE
  BY <1>2, <1>3, SerialComplete DEF DurableInv
<1>5. Len(ops') = Len(ops) /\ (i # 0 /\ Completes(t, i, kind) => ops'[i].end # "open")
  <2>1. CASE ops' = ops /\ ~(i # 0 /\ Completes(t, i, kind))
    BY <2>1
  <2>2. CASE i # 0 /\ Completes(t, i, kind)
    <3>1. ops' = [ops EXCEPT ![i].end = kind] /\ i \in 1..Len(ops)
      BY <1>0, <1>3, <2>2 DEF Completes
    <3>2. Len(ops') = Len(ops)
      BY <1>0, <3>1, EndFacts
    <3>3. ops'[i].end = kind
      BY <1>0, <3>1, OpFacts DEF TypeOK, Operation
    <3> QED
      BY <3>2, <3>3 DEF Closed
  <2> QED
    BY <1>4, <2>1, <2>2
<1>6. SessionInv'
  <2>1. /\ Len(frames') <= Len(frames)
        /\ \A m \in 1..Len(frames') : frames'[m] = frames[m]
        /\ \A j \in Task : tasks'[j].ctxSes = tasks[j].ctxSes
    <3>1. CASE CompleteOperation(t, n, kind)
      <4>1. frames' = Popped(Len(frames)) /\ tasks' = tasks /\ Len(frames) # 0
        BY <1>0, <1>1, <3>1 DEF CompleteOperation
      <4> QED
        BY <1>0, <4>1, LastPopped
    <3>2. CASE CompleteAsyncOperation(t, n, kind)
      <4>1. frames' = frames /\ k \in Task
            /\ tasks' = [tasks EXCEPT ![k].scope = "closed"]
        BY <1>1, <3>2 DEF CompleteAsyncOperation
      <4> QED
        BY <1>0, <4>1 DEF Future
    <3> QED
      BY <3>1, <3>2
  <2> QED
    BY <1>2, <1>4, <1>5, <2>1, SessionsShrink DEF DurableInv
<1>7. SidecarInv'
  <2>1. CASE i # 0 /\ Completes(t, i, kind)
    <3>1. io' = [io EXCEPT ![t] = [ph |-> "snap", ses |-> Main, op |-> i,
                                   snap |-> Blank]]
      BY <2>1 DEF Completes
    <3>2. i \in 0..Len(ops')
      BY <1>3, <1>5
    <3> QED
      BY <1>1, <1>2, <1>5, <2>1, <3>1, <3>2, PersistStarts DEF DurableInv
  <2>2. CASE io' = io /\ (marker => marker')
    BY <1>1, <1>2, <1>5, <2>2, LagKept DEF DurableInv
  <2> QED
    BY <1>4, <2>1, <2>2
<1> QED
  BY <1>6, <1>7 DEF DurableInv

(* The actions that drop a future's scope: memory only.                    *)
LEMMA DropSteps ==
  ASSUME Serial, EnvMode, IInv, DurableInv, IInv', Grown, NEW t \in Thread,
         \/ \E n \in DOMAIN frames : UnwindFuture(t, n)
         \/ \E k \in Task : DropFuture(t, k)
  PROVE  DurableInv'
<1>0. /\ TypeOK /\ Len(ops) \in Nat /\ tasks \in [Task -> Future]
      /\ frames \in Seq(Frame) /\ DOMAIN frames = 1..Len(frames)
  BY DEF IInv, TypeOK
<1>1. PICK k \in Task :
        /\ DropScope(t, tasks[k].op)
        /\ \/ tasks' = [tasks EXCEPT ![k].scope = "closed"]
           \/ tasks' = [tasks EXCEPT ![k].st = "gone", ![k].scope = "closed"]
  <2>1. ASSUME NEW n \in DOMAIN frames, UnwindFuture(t, n)
        PROVE  /\ frames[n].task \in Task /\ DropScope(t, tasks[frames[n].task].op)
               /\ tasks' = [tasks EXCEPT ![frames[n].task].scope = "closed"]
    BY <1>0, <2>1, FrameType DEF UnwindFuture
  <2>2. ASSUME NEW k \in Task, DropFuture(t, k)
        PROVE  /\ DropScope(t, tasks[k].op)
               /\ tasks' = [tasks EXCEPT ![k].st = "gone", ![k].scope = "closed"]
    BY <2>2 DEF DropFuture
  <2> QED
    BY <2>1, <2>2
<1>2. /\ MayRun(t) /\ UNCHANGED <<slot, frames, io, marker, sidecar, exited, acked>>
  BY DEF UnwindFuture, DropFuture
<1>3. Quiet
  BY <1>2, RunsAlone
<1>4. tasks[k].op \in 0..Len(ops)
  <2>1. tasks[k].op \in 0..MaxOps
    BY <1>0 DEF Future
  <2> QED
    BY <1>0, <2>1 DEF IInv, OwnersOK
<1>5. sess'[Main].st = sess[Main].st
  BY <1>1, <1>4, SerialDrop DEF DurableInv
<1>6. Len(ops') = Len(ops)
  BY <1>0, <1>1, <1>4, DropFacts DEF Closes
<1>7. \A j \in Task : tasks'[j].ctxSes = tasks[j].ctxSes
  <2>1. CASE tasks' = [tasks EXCEPT ![k].scope = "closed"]
    BY <1>0, <2>1 DEF Future
  <2>2. CASE tasks' = [tasks EXCEPT ![k].st = "gone", ![k].scope = "closed"]
    BY <1>0, <2>2 DEF Future
  <2> QED
    BY <1>1, <2>1, <2>2
<1>8. SessionInv'
  BY <1>0, <1>2, <1>5, <1>6, <1>7, SessionsShrink DEF DurableInv, TypeOK
<1>9. SidecarInv'
  BY <1>2, <1>3, <1>6, LagKept DEF DurableInv
<1> QED
  BY <1>8, <1>9 DEF DurableInv

(* The actions that move contexts.                                         *)
LEMMA ContextSteps ==
  ASSUME Serial, EnvMode, IInv, DurableInv, IInv', Grown, NEW t \in Thread,
         \/ \E k \in Task : ConstructFuture(t, k) \/ InstallContext(t, k)
         \/ \E n \in DOMAIN frames : RestoreContext(t, n)
  PROVE  DurableInv'
<1>1. MayRun(t) /\ UNCHANGED <<ops, io, marker, sidecar, exited, acked>>
  BY DEF ConstructFuture, InstallContext, RestoreContext, Calls, InUserCode
<1>2. Quiet
  BY <1>1, RunsAlone
<1>3. SidecarInv'
  BY <1>1, <1>2, LagKept DEF DurableInv
<1>4. SessionInv'
  BY SessionsConstruct, SessionsInstall, SessionsRestore DEF DurableInv
<1> QED
  BY <1>3, <1>4 DEF DurableInv

(* The actions that touch neither the slots nor the frames.                *)
LEMMA BodySteps ==
  ASSUME Serial, EnvMode, IInv, DurableInv, IInv', Grown,
         \/ \E t \in Thread : RecordObservation(t) \/ Panic(t) \/ CatchPanic(t)
         \/ Exit
  PROVE  DurableInv'
<1>0. /\ TypeOK /\ sess \in [Thread -> Session] /\ Main \in Thread
      /\ frames \in Seq(Frame) /\ ops \in Seq(Operation)
      /\ slot \in [Thread -> Thread \cup {NoSession}]
      /\ marker \in BOOLEAN
  BY ConstantAssumption DEF IInv, TypeOK
<1>1. UNCHANGED <<slot, frames, tasks, io, sidecar, acked>>
  BY DEF RecordObservation, Panic, CatchPanic, Exit
<1>2. \E t \in Thread : MayRun(t)
  BY <1>0 DEF RecordObservation, Panic, CatchPanic, Exit, Calls, InUserCode
<1>3. Quiet
  BY <1>2, RunsAlone
<1>4. /\ sess'[Main].st = sess[Main].st /\ Len(ops') = Len(ops)
      /\ marker => marker'
  <2>1. ASSUME NEW t \in Thread, RecordObservation(t)
        PROVE  /\ sess'[Main].st = sess[Main].st /\ Len(ops') = Len(ops)
               /\ marker => marker'
    <3> DEFINE s == slot[t]
               i == sess[s].current
    <3>1. s \in Thread
      BY <1>0, <2>1 DEF RecordObservation
    <3>2. CASE UNCHANGED <<sess, ops>> /\ marker' = TRUE
      BY <3>2
    <3>3. CASE /\ ops' = [ops EXCEPT ![i].obs = Append(@, Caller(t))]
               /\ sess' = [sess EXCEPT ![s].clock = @ + 1]
               /\ UNCHANGED marker
      BY <1>0, <3>1, <3>3 DEF Session
    <3>4. CASE /\ sess' = [sess EXCEPT ![s].failed = TRUE]
               /\ marker' = TRUE /\ UNCHANGED ops
      BY <1>0, <3>1, <3>4 DEF Session
    <3> QED
      BY <2>1, <3>2, <3>3, <3>4 DEF RecordObservation
  <2>2. CASE Exit \/ \E t \in Thread : Panic(t) \/ CatchPanic(t)
    BY <2>2 DEF Exit, Panic, CatchPanic
  <2> QED
    BY <2>1, <2>2
<1>5. SessionInv'
  BY <1>0, <1>1, <1>4, SessionsShrink DEF DurableInv, TypeOK
<1>6. SidecarInv'
  BY <1>1, <1>3, <1>4, LagKept DEF DurableInv
<1> QED
  BY <1>5, <1>6 DEF DurableInv

(* Every step keeps the invariant.                                         *)
LEMMA DurableNext ==
  ASSUME Serial, EnvMode, IInv, DurableInv, [Next]_vars
  PROVE  DurableInv'
<1>0. IInv' /\ Grown
  BY NextKeeps
<1>1. Returns \cup {"fault"} \subseteq Closed
  BY ConstantAssumption DEF Closed
<1>2. CASE UNCHANGED vars
  <2>1. UNCHANGED <<sess, slot, ops, frames, tasks, io, sidecar, marker, exited, acked>>
    BY <1>2 DEF vars
  <2>2. SessionInv'
    BY <2>1 DEF DurableInv, SessionInv, OneSession, SlotsRestored
  <2>3. OneWriter' /\ SidecarFresh' /\ AckedKept' /\ ExitQuiet'
    BY <2>1 DEF DurableInv, SidecarInv, OneWriter, SidecarFresh, AckedKept,
                ExitQuiet, Quiet
  <2>4. SnapshotCurrent'
    BY <2>1 DEF DurableInv, SidecarInv, SnapshotCurrent, Snapshot
  <2> QED
    BY <2>2, <2>3, <2>4 DEF DurableInv, SidecarInv
<1>3. CASE Exit
  BY <1>0, <1>3, BodySteps
<1>4. ASSUME NEW t \in Thread, RecordObservation(t) \/ Panic(t) \/ CatchPanic(t)
      PROVE  DurableInv'
  BY <1>0, <1>4, BodySteps
<1>5. ASSUME NEW t \in Thread, NEW k \in Task,
             ConstructFuture(t, k) \/ InstallContext(t, k) \/ DropFuture(t, k)
      PROVE  DurableInv'
  BY <1>0, <1>5, ContextSteps, DropSteps
<1>6. ASSUME NEW t \in Thread, NEW n \in DOMAIN frames,
             \/ \E kind \in Returns \cup {"fault"} : CompleteOperation(t, n, kind)
             \/ BeginAsyncOperation(t, n)
             \/ \E kind \in Returns : CompleteAsyncOperation(t, n, kind)
             \/ UnwindFuture(t, n) \/ RestoreContext(t, n)
      PROVE  DurableInv'
  <2>1. CASE \E kind \in Closed :
               CompleteOperation(t, n, kind) \/ CompleteAsyncOperation(t, n, kind)
    BY <1>0, <2>1, CompleteSteps
  <2>2. CASE BeginAsyncOperation(t, n)
    BY <1>0, <2>2, BeginSteps
  <2>3. CASE UnwindFuture(t, n)
    BY <1>0, <2>3, DropSteps
  <2>4. CASE RestoreContext(t, n)
    BY <1>0, <2>4, ContextSteps
  <2> QED
    BY <1>1, <1>6, <2>1, <2>2, <2>3, <2>4
<1>7. ASSUME NEW t \in Thread,
             TakeSnapshot(t) \/ PersistSnapshot(t) \/ PersistFails(t)
      PROVE  DurableInv'
  BY <1>0, <1>7, PersistSteps
<1>8. ASSUME NEW t \in Thread, BeginOperation(t)
      PROVE  DurableInv'
  BY <1>0, <1>8, BeginSteps
<1>9. ASSUME NEW t \in Thread, Start(t) \/ Finish(t)
      PROVE  DurableInv'
  BY <1>9 DEF Start, Finish
<1> QED
  BY <1>2, <1>3, <1>4, <1>5, <1>6, <1>7, <1>8, <1>9 DEF Next

(* It holds before anything was called.                                    *)
LEMMA DurableInit ==
  ASSUME Init PROVE DurableInv
<1>1. /\ Len(ops) = 0 /\ 1..Len(ops) = {} /\ Len(frames) = 0 /\ 1..Len(frames) = {}
      /\ acked = {}
  BY DEF Init
<1>2. Quiet
  BY DEF Init, Quiet, Idle
<1>3. /\ sess[Main].st = "unused" /\ \A t \in Thread : slot[t] = NoSession
      /\ \A k \in Task : tasks[k].ctxSes = NoSession
      /\ NoSession # Main
  BY ConstantAssumption DEF Init
<1>4. SessionInv
  BY <1>1, <1>3 DEF SessionInv, OneSession, SlotsRestored
<1>5. SidecarInv
  BY <1>1, <1>2 DEF SidecarInv, OneWriter, SnapshotCurrent, SidecarFresh,
                    AckedKept, ExitQuiet, Quiet
<1> QED
  BY <1>4, <1>5 DEF DurableInv

(* It holds always.                                                        *)
LEMMA DurableAlways ==
  ASSUME Serial, EnvMode
  PROVE  Spec => [](IInv /\ DurableInv)
<1>1. Init => DurableInv
  BY DurableInit
<1>2. IInv /\ DurableInv /\ [Next]_vars => DurableInv'
  BY DurableNext
<1> QED
  BY <1>1, <1>2, Invariance, PTL DEF Spec
-----------------------------------------------------------------------------
(* In an environment capture of a serialised program, a completion whose   *)
(* persistence was reported successful is in the sidecar from then on:     *)
(* every later snapshot is cumulative (persist_collector_capture).         *)
THEOREM AcksDurable ==
  ASSUME Serial, EnvMode
  PROVE  Spec => []AckedIsDurable
<1>1. IInv /\ DurableInv => AckedIsDurable
  BY DEF DurableInv, SidecarInv, AckedKept, AckedIsDurable
<1> QED
  BY <1>1, DurableAlways, PTL

(* In an environment capture of a serialised program, a capture the CLI    *)
(* accepts holds every operation the process began, with the outcome it    *)
(* had: whatever was abandoned, panicked, ran out of clock or failed to    *)
(* persist left an incomplete entry or the marker (persist_collector_      *)
(* capture, Drop for OperationScope, Issued::settle).                      *)
THEOREM AcceptedComplete ==
  ASSUME Serial, EnvMode
  PROVE  Spec => []AcceptedIsComplete
<1>1. IInv /\ DurableInv => AcceptedIsComplete
  <2> SUFFICES ASSUME IInv, DurableInv, Accepted, NEW i \in DOMAIN ops
               PROVE  sidecar[i] = ops[i].end
    BY DEF AcceptedIsComplete
  <2>1. i \in 1..Len(ops) /\ i \in OpId
    BY ConstantAssumption DEF IInv, TypeOK, OpId
  <2>2. exited /\ ~marker /\ sidecar[i] # "incomplete"
    BY <2>1 DEF Accepted
  <2>3. Quiet
    BY <2>2 DEF DurableInv, SidecarInv, ExitQuiet
  <2> QED
    BY <2>1, <2>2, <2>3 DEF DurableInv, SidecarInv, SidecarFresh
<1> QED
  BY <1>1, DurableAlways, PTL
=============================================================================
