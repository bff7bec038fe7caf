---------------------- MODULE CurrentOperationProofs ----------------------
(***************************************************************************)
(* Environment capture of a serialised program (Serial and EnvMode of      *)
(* NativeCapture), for any threads, futures and bounds: the collector's    *)
(* current-operation pointer follows the bodies that run, so parents and   *)
(* observations are recorded where the program's bodies produced them.     *)
(*                                                                         *)
(* Contexts are swapped in and out around polls, and a scope that closes   *)
(* hands the pointer to its operation's parent: the argument says what     *)
(* each running call or poll will hand the pointer back to.                *)
(***************************************************************************)
EXTENDS SerialCaptureProofs

current == sess[Main].current

(* The operation whose body runs when the first n frames are all there     *)
(* are: the newest frame's; with none, the one of a suspended future       *)
(* without a context, which leaves the pointer where it is.                *)
Body ==
  [n \in 0..Len(frames) |->
     IF n # 0 THEN FrameOp(frames[n])
     ELSE IF Detached = {} THEN 0
     ELSE tasks[CHOOSE k \in Detached : TRUE].op]

(* The pointer is at the operation whose body runs; inside a poll but      *)
(* outside its scope, at what the scope's begin or its end needs.          *)
PointerOK ==
  LET L == Len(frames)  k == frames[L].task IN
    /\ (L # 0 /\ k # NoTask => tasks[k].scope = "open") => current = Body[L]
    /\ L # 0 /\ k # NoTask =>
         /\ tasks[k].scope = "none" => current = tasks[k].caller
         /\ tasks[k].scope = "closed" /\ tasks[k].ctxSes = NoSession => current = 0

(* What each running call or poll hands the pointer back to.               *)
StackOK ==
  \A n \in 1..Len(frames) :
    /\ frames[n].task = NoTask =>
         frames[n].op # 0 /\ ops[frames[n].op].parent = Body[n - 1]
    /\ frames[n].task # NoTask =>
         LET k == frames[n].task IN
           /\ tasks[k].st = "polled"
           /\ n < Len(frames) => tasks[k].scope = "open"
           /\ \A m \in 1..Len(frames) : frames[m].task = k => m = n
           /\ tasks[k].ctxSes = Main => frames[n].prevOp = Body[n - 1]
           /\ tasks[k].ctxSes = NoSession => n = 1 /\ Detached = {}

(* A future's context holds what its scope needs the pointer to be.        *)
FutureOK(r) ==
  /\ r.scope = "none" => r.op = 0
  /\ r.scope = "open" => r.op # 0
  /\ r.st = "idle" => r.scope # "closed"
  /\ r.ctxSes = NoSession => r.caller = 0
  /\ r.ctxSes = Main /\ r.scope = "none" => r.ctxOp = r.caller
  /\ r.ctxSes = Main /\ r.st = "idle" /\ r.scope = "open" => r.ctxOp = r.op

FuturesOK ==
  /\ \A k \in Task : FutureOK(tasks[k])
  /\ \A k \in Task : tasks[k].ctxSes = NoSession /\ tasks[k].op # 0 =>
                       ops[tasks[k].op].parent = 0
  /\ \A j, k \in Detached : j = k

(* What was recorded.                                                      *)
RecordOK ==
  \A i \in 1..Len(ops) :
    /\ ops[i].parent = ops[i].caller
    /\ \A n \in 1..Len(ops[i].obs) : ops[i].obs[n] = i

Followed == PointerOK /\ StackOK /\ FuturesOK /\ RecordOK

PointerInv == marker \/ Followed
-----------------------------------------------------------------------------
(* The bodies that run                                                     *)

BodyDef ==
  /\ \A n \in 1..Len(frames) :
       Body[n] = IF frames[n].task = NoTask THEN frames[n].op
                 ELSE tasks[frames[n].task].op
  /\ Detached = {} => Body[0] = 0
  /\ (\A j, k \in Detached : j = k) => \A k \in Detached : Body[0] = tasks[k].op

(* Body by cases, without its CHOOSE.                                      *)
LEMMA BodyFacts == IInv => BodyDef
<1> SUFFICES ASSUME IInv PROVE BodyDef
  OBVIOUS
<1>1. Len(frames) \in Nat /\ 0 \in 0..Len(frames)
      /\ \A n \in 1..Len(frames) : n # 0 /\ n \in 0..Len(frames)
  BY DEF IInv, TypeOK
<1>2. \A n \in 1..Len(frames) :
        Body[n] = IF frames[n].task = NoTask THEN frames[n].op
                  ELSE tasks[frames[n].task].op
  BY <1>1 DEF Body, FrameOp
<1>3. Body[0] = IF Detached = {} THEN 0 ELSE tasks[CHOOSE k \in Detached : TRUE].op
  BY <1>1 DEF Body
<1> DEFINE d == CHOOSE k \in Detached : TRUE
<1>4. Detached # {} => d \in Detached
  OBVIOUS
<1>5. ASSUME \A j, k \in Detached : j = k, NEW k \in Detached
      PROVE  Body[0] = tasks[k].op
  <2>1. d = k /\ Body[0] = tasks[d].op
    BY <1>3, <1>4, <1>5
  <2> QED
    BY <2>1
<1> QED
  BY <1>2, <1>3, <1>5 DEF BodyDef

(* The same in the next state.                                             *)
LEMMA BodyFactsNext == IInv' => BodyDef'
  BY BodyFacts, PTL

(* The futures suspended without a context, and what they point to, only   *)
(* depend on the futures.                                                  *)
LEMMA DetachedKept ==
  ASSUME IInv, IInv', FuturesOK,
         \A k \in Task :
           /\ k \in Detached' <=> k \in Detached
           /\ k \in Detached => tasks'[k].op = tasks[k].op
  PROVE  Detached' = Detached /\ Body'[0] = Body[0]
<1>1. Detached' = Detached
  <2>1. Detached' \subseteq Task /\ Detached \subseteq Task
    BY DEF Detached
  <2> QED
    BY <2>1
<1>2. /\ Detached = {} => Body[0] = 0
      /\ \A k \in Detached : Body[0] = tasks[k].op
  BY BodyFacts DEF BodyDef, FuturesOK
<1>3. /\ Detached' = {} => Body'[0] = 0
      /\ (\A j, k \in Detached' : j = k) => \A k \in Detached' : Body'[0] = tasks'[k].op
  BY BodyFactsNext DEF BodyDef
<1>4. \A k \in Detached : k \in Task
  BY DEF Detached
<1> QED
  BY <1>1, <1>2, <1>3, <1>4 DEF FuturesOK
-----------------------------------------------------------------------------
(* What a step that pops or keeps the frames does to the stack             *)

(* The frames that stay are installed polls and calls as before.           *)
LEMMA StackKept ==
  ASSUME IInv, IInv', StackOK, Grown,
         Len(frames') <= Len(frames),
         \A m \in 1..Len(frames') : frames'[m] = frames[m],
         \A m \in 1..Len(frames') : frames[m].task # NoTask =>
           /\ tasks'[frames[m].task].st = "polled"
           /\ tasks'[frames[m].task].ctxSes = tasks[frames[m].task].ctxSes
           /\ m < Len(frames') =>
                /\ tasks'[frames[m].task].scope = "open"
                /\ tasks'[frames[m].task].op = tasks[frames[m].task].op,
         Len(frames') = 0 \/ (Detached' = Detached /\ Body'[0] = Body[0])
  PROVE  StackOK'
<1>1. /\ Len(frames) \in Nat /\ Len(frames') \in Nat
      /\ \A m \in 1..Len(frames') : m \in 1..Len(frames)
  BY DEF IInv, TypeOK
<1>2. \A m \in 1..Len(frames') : m < Len(frames') => Body'[m] = Body[m]
  BY <1>1, BodyFacts, BodyFactsNext DEF BodyDef
<1>3. \A m \in 1..Len(frames') : Body'[m - 1] = Body[m - 1]
  <2>1. ASSUME NEW m \in 1..Len(frames')
        PROVE  m - 1 = 0 \/ (m - 1 \in 1..Len(frames') /\ m - 1 < Len(frames'))
    BY <1>1
  <2>2. \A m \in 1..Len(frames') : Len(frames') # 0
    BY <1>1
  <2> QED
    BY <1>2, <2>1, <2>2
<1> SUFFICES ASSUME NEW n \in 1..Len(frames')
             PROVE  /\ frames'[n].task = NoTask =>
                         /\ frames'[n].op # 0
                         /\ ops'[frames'[n].op].parent = Body'[n - 1]
                    /\ frames'[n].task # NoTask =>
                         /\ tasks'[frames'[n].task].st = "polled"
                         /\ n < Len(frames') => tasks'[frames'[n].task].scope = "open"
                         /\ \A m \in 1..Len(frames') :
                              frames'[m].task = frames'[n].task => m = n
                         /\ tasks'[frames'[n].task].ctxSes = Main =>
                              frames'[n].prevOp = Body'[n - 1]
                         /\ tasks'[frames'[n].task].ctxSes = NoSession =>
                              n = 1 /\ Detached' = {}
  BY DEF StackOK
<1>4. frames'[n] = frames[n] /\ n \in 1..Len(frames) /\ Len(frames') # 0
  BY <1>1
<1>5. CASE frames[n].task = NoTask
  <2>1. frames[n].op # 0 /\ ops[frames[n].op].parent = Body[n - 1]
    BY <1>4, <1>5 DEF StackOK
  <2>2. frames[n].op \in 1..Len(ops)
    BY <1>4, <2>1 DEF IInv, OwnersOK
  <2> QED
    BY <1>3, <1>4, <1>5, <2>1, <2>2 DEF Grown
<1>6. CASE frames[n].task # NoTask
  BY <1>1, <1>3, <1>4, <1>6 DEF StackOK
<1> QED
  BY <1>5, <1>6

(* A popped frame hands the pointer to the body below it.                  *)
LEMMA PointerPopped ==
  ASSUME IInv, IInv', StackOK, Len(frames) # 0,
         Len(frames') = Len(frames) - 1,
         \A m \in 1..Len(frames') : frames'[m] = frames[m],
         \A m \in 1..Len(frames') : frames[m].task # NoTask =>
           /\ tasks'[frames[m].task].scope = tasks[frames[m].task].scope
           /\ tasks'[frames[m].task].op = tasks[frames[m].task].op,
         Len(frames') = 0 => Body'[0] = Body[0],
         current' = Body[Len(frames) - 1]
  PROVE  PointerOK'
<1> DEFINE L == Len(frames')
<1>1. /\ L \in Nat /\ L = Len(frames) - 1 /\ Len(frames) \in Nat
      /\ L # 0 => L \in 1..L /\ L \in 1..Len(frames) /\ L < Len(frames)
  BY DEF IInv, TypeOK
<1>2. L # 0 => frames'[L] = frames[L]
  BY <1>1
<1>3. Body'[L] = Body[L]
  <2>1. CASE L = 0
    BY <2>1
  <2>2. CASE L # 0
    BY <1>1, <1>2, <2>2, BodyFacts, BodyFactsNext DEF BodyDef
  <2> QED
    BY <2>1, <2>2
<1>4. L # 0 /\ frames[L].task # NoTask => tasks'[frames[L].task].scope = "open"
  BY <1>1 DEF StackOK
<1>5. current' = Body'[L]
  BY <1>1, <1>3
<1> HIDE DEF L
<1> QED
  BY <1>2, <1>4, <1>5 DEF PointerOK, L

(* A step that pushes a frame.                                             *)
LEMMA StackPushed ==
  ASSUME IInv, IInv', StackOK, Grown, NEW f \in Frame, frames' = Pushed(f),
         \A m \in 1..Len(frames) : frames[m].task # NoTask =>
           /\ tasks[frames[m].task].scope = "open"
           /\ tasks'[frames[m].task] = tasks[frames[m].task],
         \/ Detached' = Detached /\ Body'[0] = Body[0]
         \/ /\ Len(frames) = 0 /\ Detached' = {}
            /\ f.task # NoTask /\ tasks'[f.task].ctxSes = NoSession,
         f.task = NoTask => f.op # 0 /\ ops'[f.op].parent = Body[Len(frames)],
         f.task # NoTask =>
           /\ tasks'[f.task].st = "polled"
           /\ \A m \in 1..Len(frames) : frames[m].task # f.task
           /\ tasks'[f.task].ctxSes = Main => f.prevOp = Body[Len(frames)]
           /\ tasks'[f.task].ctxSes = NoSession => Len(frames) = 0 /\ Detached' = {}
  PROVE  StackOK'
<1> DEFINE L == Len(frames)
<1>1. /\ L \in Nat /\ Len(frames') = L + 1 /\ frames'[L + 1] = f
      /\ \A m \in 1..L : frames'[m] = frames[m]
      /\ NoSession # Main
  BY PushedFacts, ConstantAssumption DEF IInv, TypeOK
<1>2. \A m \in 1..L : Body'[m] = Body[m]
  <2>1. \A m \in 1..L : m \in 1..Len(frames')
    BY <1>1
  <2> QED
    BY <1>1, <2>1, BodyFacts, BodyFactsNext DEF BodyDef
<1>3. \/ \A m \in 1..(L + 1) : Body'[m - 1] = Body[m - 1]
      \/ L = 0 /\ f.task # NoTask /\ tasks'[f.task].ctxSes = NoSession
  <2>1. \A m \in 1..(L + 1) : m - 1 = 0 \/ m - 1 \in 1..L
    BY <1>1
  <2> QED
    BY <1>2, <2>1
<1> SUFFICES ASSUME NEW n \in 1..(L + 1)
             PROVE  /\ frames'[n].task = NoTask =>
                         /\ frames'[n].op # 0
                         /\ ops'[frames'[n].op].parent = Body'[n - 1]
                    /\ frames'[n].task # NoTask =>
                         /\ tasks'[frames'[n].task].st = "polled"
                         /\ n < L + 1 => tasks'[frames'[n].task].scope = "open"
                         /\ \A m \in 1..(L + 1) :
                              frames'[m].task = frames'[n].task => m = n
                         /\ tasks'[frames'[n].task].ctxSes = Main =>
                              frames'[n].prevOp = Body'[n - 1]
                         /\ tasks'[frames'[n].task].ctxSes = NoSession =>
                              n = 1 /\ Detached' = {}
  BY <1>1 DEF StackOK
<1>4. \A m \in 1..(L + 1) : m \in 1..L \/ m = L + 1
  BY <1>1
<1>5. CASE n = L + 1
  <2>1. frames'[n] = f /\ n - 1 = L /\ ~(n < L + 1) /\ (L = 0 => n = 1)
    BY <1>1, <1>5
  <2>2. f.task = NoTask => ops'[f.op].parent = Body'[n - 1]
    BY <1>3, <1>5, <2>1
  <2>3. f.task # NoTask /\ tasks'[f.task].ctxSes = Main => f.prevOp = Body'[n - 1]
    BY <1>1, <1>3, <1>5, <2>1
  <2>4. f.task # NoTask => \A m \in 1..(L + 1) : frames'[m].task = f.task => m = n
    BY <1>1, <1>4, <1>5
  <2> QED
    BY <2>1, <2>2, <2>3, <2>4
<1>6. CASE n \in 1..L
  <2>1. frames'[n] = frames[n] /\ n \in 1..Len(frames) /\ L # 0
        /\ Body'[n - 1] = Body[n - 1] /\ Detached' = Detached
    BY <1>1, <1>3, <1>6
  <2>2. CASE frames[n].task = NoTask
    <3>1. frames[n].op # 0 /\ ops[frames[n].op].parent = Body[n - 1]
      BY <1>6, <2>2 DEF StackOK
    <3>2. frames[n].op \in 1..Len(ops)
      BY <1>6, <3>1 DEF IInv, OwnersOK
    <3> QED
      BY <2>1, <2>2, <3>1, <3>2 DEF Grown
  <2>3. CASE frames[n].task # NoTask
    <3>1. \A m \in 1..(L + 1) : frames'[m].task = frames[n].task => m = n
      <4>1. \A m \in 1..L : frames[m].task = frames[n].task => m = n
        BY <2>1, <2>3 DEF StackOK
      <4>2. f.task # frames[n].task
        BY <2>1, <2>3
      <4> QED
        BY <1>1, <1>4, <4>1, <4>2
    <3> QED
      BY <2>1, <2>3, <3>1 DEF StackOK
  <2> QED
    BY <2>2, <2>3
<1> QED
  BY <1>4, <1>5, <1>6
-----------------------------------------------------------------------------
(* Futures and records                                                     *)

(* A step that changes one future.                                         *)
LEMMA FuturesChange ==
  ASSUME IInv, FuturesOK, Grown, NEW k \in Task,
         \A j \in Task : j # k => tasks'[j] = tasks[j],
         FutureOK(tasks'[k]),
         tasks'[k].ctxSes = NoSession /\ tasks'[k].op # 0 =>
           ops'[tasks'[k].op].parent = 0,
         \A i, j \in Detached' : i = j
  PROVE  FuturesOK'
<1>1. \A j \in Task : FutureOK(tasks'[j])
  BY DEF FuturesOK
<1>2. \A j \in Task : tasks'[j].ctxSes = NoSession /\ tasks'[j].op # 0 =>
                        ops'[tasks'[j].op].parent = 0
  BY DEF FuturesOK, IInv, OwnersOK, Grown
<1> QED
  BY <1>1, <1>2 DEF FuturesOK, FutureOK

(* A step that touches no future keeps what they hold.                     *)
LEMMA FuturesSame ==
  ASSUME IInv, FuturesOK, Grown, tasks' = tasks
  PROVE  FuturesOK' /\ Detached' = Detached
<1>1. Detached' = Detached
  BY DEF Detached
<1>2. \A j \in Task : FutureOK(tasks'[j])
  BY DEF FuturesOK
<1>3. \A j \in Task : tasks'[j].ctxSes = NoSession /\ tasks'[j].op # 0 =>
                        ops'[tasks'[j].op].parent = 0
  BY DEF FuturesOK, IInv, OwnersOK, Grown
<1> QED
  BY <1>1, <1>2, <1>3 DEF FuturesOK, FutureOK

(* An outcome changes nothing else of an operation.                        *)
LEMMA RecordEnds ==
  ASSUME IInv, RecordOK, NEW i \in 1..Len(ops), NEW kind \in Closed,
         ops' = [ops EXCEPT ![i].end = kind]
  PROVE  RecordOK'
<1>1. ops \in Seq(Operation)
  BY DEF IInv, TypeOK
<1>2. /\ Len(ops') = Len(ops)
      /\ \A j \in 1..Len(ops) : /\ ops'[j].parent = ops[j].parent
                                /\ ops'[j].caller = ops[j].caller
                                /\ ops'[j].obs = ops[j].obs
  <2>1. \A j \in 1..Len(ops) : ops[j] \in Operation
    BY <1>1
  <2> QED
    BY <1>1, <2>1 DEF Operation
<1> QED
  BY <1>2 DEF RecordOK

(* An operation begun where its caller's body runs.                        *)
LEMMA RecordBegins ==
  ASSUME IInv, RecordOK, NEW t \in Thread, RecordsUnder(t, current)
  PROVE  /\ RecordOK'
         /\ ops'[Len(ops) + 1].parent = current /\ Len(ops) + 1 # 0
<1> DEFINE o == [ses |-> Main, parent |-> current, caller |-> current,
                 end |-> "open", obs |-> <<>>]
<1>1. ops \in Seq(Operation) /\ Len(ops) \in Nat /\ ops' = Append(ops, o)
  BY DEF IInv, TypeOK, RecordsUnder, current
<1>2. o.parent = current /\ o.caller = current /\ o.obs = <<>> /\ Len(o.obs) = 0
  OBVIOUS
<1> HIDE DEF o
<1>3. /\ Len(ops') = Len(ops) + 1 /\ ops'[Len(ops) + 1] = o
      /\ \A j \in 1..Len(ops) : ops'[j] = ops[j]
  BY <1>1
<1>4. ASSUME NEW j \in 1..Len(ops')
      PROVE  /\ ops'[j].parent = ops'[j].caller
             /\ \A n \in 1..Len(ops'[j].obs) : ops'[j].obs[n] = j
  <2>1. CASE j \in 1..Len(ops)
    BY <1>3, <2>1 DEF RecordOK
  <2>2. CASE j = Len(ops) + 1
    <3>1. ops'[j] = o
      BY <1>3, <2>2
    <3> QED
      BY <1>2, <3>1
  <2> QED
    BY <1>1, <1>3, <2>1, <2>2
<1> QED
  BY <1>1, <1>2, <1>3, <1>4 DEF RecordOK
-----------------------------------------------------------------------------
(* Where the pointer is when user code runs                                *)

(* No poll is between its installation and its scope.                      *)
LEMMA AtRestBody ==
  ASSUME Serial, IInv, Followed, NEW t \in Thread, MayRun(t), AtRest(t)
  PROVE  /\ current = Body[Len(frames)]
         /\ \A m \in 1..Len(frames) : frames[m].task # NoTask =>
              /\ frames[m].task \in Task
              /\ tasks[frames[m].task].st = "polled"
              /\ tasks[frames[m].task].scope = "open"
<1> DEFINE L == Len(frames)
<1>1. TypeOK /\ L \in Nat /\ DOMAIN frames = 1..L
  BY DEF IInv, TypeOK
<1>2. ASSUME L # 0, frames[L].task # NoTask
      PROVE  tasks[frames[L].task].scope = "open"
  <2>1. L \in 1..L
    BY <1>1, <1>2
  <2> DEFINE u == frames[L].thread
  <2>2. u \in Thread
    BY <1>1, <2>1, FrameType
  <2>3. IsTop(u, L)
    BY <1>1, <2>1 DEF IsTop, Mine
  <2>4. AtRest(u)
    BY <2>2 DEF MayRun
  <2> QED
    BY <1>1, <1>2, <2>1, <2>3, <2>4 DEF AtRest
<1>3. current = Body[L]
  BY <1>2 DEF Followed, PointerOK
<1>4. ASSUME NEW m \in 1..L, frames[m].task # NoTask
      PROVE  /\ frames[m].task \in Task
             /\ tasks[frames[m].task].st = "polled"
             /\ tasks[frames[m].task].scope = "open"
  <2>0. \A l \in Nat : \A j \in 1..l : l # 0 /\ (j = l \/ j < l)
    OBVIOUS
  <2>1. L # 0 /\ (m = L \/ m < L)
    BY <1>1, <2>0
  <2>2. /\ frames[m].task \in Task /\ tasks[frames[m].task].st = "polled"
        /\ m < L => tasks[frames[m].task].scope = "open"
    BY <1>1, <1>4, FrameType DEF Followed, StackOK
  <2> QED
    BY <1>2, <1>4, <2>1, <2>2
<1> QED
  BY <1>3, <1>4

(* The pointer is at the operation whose body makes the call.              *)
LEMMA CallerIsCurrent ==
  ASSUME Serial, IInv, Followed, NEW t \in Thread, Calls(t)
  PROVE  Caller(t) = current
<1>1. MayRun(t) /\ AtRest(t) /\ TypeOK /\ Len(frames) \in Nat
  BY DEF Calls, InUserCode, IInv, TypeOK
<1>2. current = Body[Len(frames)]
  BY <1>1, AtRestBody
<1>3. CASE AtBase(t)
  <2>1. Len(frames) = 0 /\ Detached = {}
    BY <1>3, CallsFromTest
  <2> QED
    BY <1>2, <1>3, <2>1, BodyFacts DEF Caller, BodyDef
<1>4. CASE ~AtBase(t)
  <2> DEFINE n == CHOOSE n \in Mine(t) : IsTop(t, n)
  <2>1. IsTop(t, n)
    BY <1>1, <1>4, TopExists DEF TypeOK
  <2>2. Caller(t) = FrameOp(frames[n])
    BY <1>4 DEF Caller
  <2> HIDE DEF n
  <2>3. n = Len(frames) /\ n \in 1..Len(frames)
    BY <1>1, <2>1, TopIsLast
  <2> QED
    BY <1>2, <2>2, <2>3, BodyFacts DEF BodyDef, FrameOp
<1> QED
  BY <1>3, <1>4

(* Without a session, nothing has been recorded and the pointer is unset.  *)
LEMMA UnsetPointer ==
  ASSUME IInv, SessionInv, sess[Main].st # "live"
  PROVE  current = 0
<1>1. current # 0 => current \in 1..Len(ops)
  BY ConstantAssumption DEF IInv, CurrentOK, OpOf, current
<1> QED
  BY <1>1 DEF SessionInv, OneSession
-----------------------------------------------------------------------------
(* Every action                                                            *)

(* A call is recorded under the body it is made from.                      *)
LEMMA BeginFollowed ==
  ASSUME Serial, EnvMode, IInv, DurableInv, Followed, IInv', Grown, ~marker',
         NEW t \in Thread, BeginOperation(t)
  PROVE  Followed'
<1> DEFINE L == Len(frames)
           i == Len(ops) + 1
           f == [thread |-> t, task |-> NoTask, op |-> ScopeOp(t),
                 prevSes |-> NoSession, prevOp |-> 0]
<1>0. TypeOK /\ L \in Nat /\ Len(ops) \in Nat /\ frames \in Seq(Frame)
  BY DEF IInv, TypeOK
<1>1. /\ Calls(t) /\ BeginActive(t, Caller(t)) /\ frames' = Pushed(f)
      /\ tasks' = tasks /\ Len(ops) < MaxOps
  BY DEF BeginOperation
<1>2. /\ Caller(t) = current /\ MayRun(t) /\ AtRest(t)
      /\ t = Main \/ ~AtBase(t)
  BY <1>1, CallerIsCurrent, CallsFromTest DEF Calls, InUserCode
<1>3. RecordsUnder(t, current)
  BY <1>1, <1>2, SerialBegin DEF DurableInv
<1>4. ScopeOp(t) = i /\ current' = i
  BY <1>3 DEF RecordsUnder, current
<1>5. RecordOK' /\ ops'[i].parent = current /\ i # 0
  BY <1>3, RecordBegins DEF Followed
<1>6. /\ current = Body[L]
      /\ \A m \in 1..L : frames[m].task # NoTask =>
           tasks[frames[m].task].scope = "open"
  BY <1>2, AtRestBody
<1>7. f \in Frame /\ f.task = NoTask /\ f.op = i
  <2>1. ScopeOp(t) \in 0..MaxOps
    BY <1>0, <1>4, <1>1, ConstantAssumption
  <2> QED
    BY <1>4, <2>1, ConstantAssumption DEF Frame
<1>8. FuturesOK' /\ Detached' = Detached
  BY <1>1, FuturesSame DEF Followed
<1>9. Body'[0] = Body[0]
  BY <1>1, <1>8, DetachedKept DEF Followed
<1> HIDE DEF f, i, L
<1>10. StackOK'
  BY <1>1, <1>5, <1>6, <1>7, <1>8, <1>9, StackPushed DEF Followed, L
<1>11. PointerOK'
  <2>1. Len(frames') = L + 1 /\ frames'[L + 1] = f
    BY <1>0, <1>1, <1>7, PushedFacts DEF L
  <2>2. L + 1 \in 1..Len(frames')
    BY <1>0, <2>1
  <2>3. Body'[L + 1] = i
    BY <1>7, <2>1, <2>2, BodyFactsNext DEF BodyDef
  <2> QED
    BY <1>4, <1>7, <2>1, <2>3 DEF PointerOK
<1> QED
  BY <1>5, <1>8, <1>10, <1>11 DEF Followed

(* A return hands the pointer to the caller's body.                        *)
LEMMA CompleteFollowed ==
  ASSUME Serial, EnvMode, IInv, DurableInv, Followed, IInv', Grown, ~marker',
         NEW t \in Thread, NEW n \in DOMAIN frames, NEW kind \in Closed,
         CompleteOperation(t, n, kind)
  PROVE  Followed'
<1> DEFINE L == Len(frames)
           i == frames[n].op
<1>0. TypeOK /\ L \in Nat /\ Len(ops) \in Nat
  BY DEF IInv, TypeOK
<1>1. /\ MayRun(t) /\ IsTop(t, n) /\ frames[n].task = NoTask
      /\ frames' = Popped(n) /\ CompleteScope(t, i, kind) /\ tasks' = tasks
  BY DEF CompleteOperation
<1>2. n = L /\ n \in 1..L /\ L # 0
  BY <1>0, <1>1, TopIsLast
<1>3. i # 0 /\ i \in 1..Len(ops) /\ ops[i].parent = Body[L - 1]
  BY <1>1, <1>2 DEF Followed, StackOK, IInv, OwnersOK
<1>4. current = i
  <2>1. current = Body[L]
    BY <1>1, <1>2 DEF Followed, PointerOK
  <2> QED
    BY <1>1, <1>2, <2>1, BodyFacts DEF BodyDef
<1> HIDE DEF i
<1>5. Completes(t, i, kind)
  <2>1. i \in 0..Len(ops)
    BY <1>0, <1>3
  <2> QED
    BY <1>1, <1>3, <2>1, SerialComplete DEF DurableInv
<1>6. current' = Body[L - 1] /\ ops' = [ops EXCEPT ![i].end = kind]
  BY <1>3, <1>4, <1>5 DEF Completes, Released, current
<1>7. RecordOK'
  BY <1>3, <1>6, RecordEnds DEF Followed
<1>8. FuturesOK' /\ Detached' = Detached
  BY <1>1, FuturesSame DEF Followed
<1>9. Body'[0] = Body[0]
  BY <1>1, <1>8, DetachedKept DEF Followed
<1>10. /\ Len(frames') = L - 1 /\ Len(frames') <= L
       /\ \A m \in 1..Len(frames') : frames'[m] = frames[m] /\ m \in 1..L /\ m < L
  <2>1. Len(frames') = L - 1 /\ \A m \in 1..(L - 1) : frames'[m] = frames[m]
    BY <1>0, <1>1, <1>2, LastPopped
  <2> QED
    BY <1>0, <2>1
<1>11. StackOK'
  <2>1. \A m \in 1..Len(frames') : frames[m].task # NoTask =>
          tasks[frames[m].task].st = "polled" /\ tasks[frames[m].task].scope = "open"
    BY <1>10 DEF Followed, StackOK
  <2> QED
    BY <1>1, <1>8, <1>9, <1>10, <2>1, StackKept DEF Followed
<1>12. PointerOK'
  BY <1>1, <1>2, <1>6, <1>9, <1>10, PointerPopped DEF Followed
<1> QED
  BY <1>7, <1>8, <1>11, <1>12 DEF Followed

(* A future's context remembers the body that constructs it.               *)
LEMMA ConstructFollowed ==
  ASSUME Serial, EnvMode, IInv, DurableInv, Followed, IInv', Grown,
         NEW t \in Thread, NEW k \in Task, ConstructFuture(t, k)
  PROVE  Followed'
<1> DEFINE L == Len(frames)
           r == [st |-> "idle", scope |-> "none", ctxSes |-> slot[t],
                 ctxOp |-> IF Live(slot[t]) THEN sess[slot[t]].current ELSE 0,
                 op |-> 0, caller |-> Caller(t)]
<1>0. /\ TypeOK /\ L \in Nat /\ tasks \in [Task -> Future] /\ NoSession # Main
      /\ DOMAIN frames = 1..L
  BY ConstantAssumption DEF IInv, TypeOK
<1>1. /\ Calls(t) /\ tasks[k].st = "none" /\ tasks' = [tasks EXCEPT ![k] = r]
      /\ UNCHANGED <<sess, ops, frames>>
  BY DEF ConstructFuture
<1>2. Caller(t) = current
  BY <1>1, CallerIsCurrent
<1>3. tasks'[k] = r /\ \A j \in Task : j # k => tasks'[j] = tasks[j]
  BY <1>0, <1>1
<1>4. /\ r.st = "idle" /\ r.scope = "none" /\ r.op = 0 /\ r.ctxSes = slot[t]
      /\ r.caller = current
      /\ r.ctxOp = IF Live(slot[t]) THEN sess[slot[t]].current ELSE 0
  BY <1>2
<1> HIDE DEF r
<1>5. slot[t] = Main => Live(slot[t])
  BY <1>0 DEF DurableInv, SessionInv, OneSession, Live
<1>6. slot[t] = NoSession => current = 0
  <2>1. CASE AtBase(t)
    <3>1. t = Main
      BY <1>1, <2>1, CallsFromTest
    <3> QED
      BY <1>0, <3>1, UnsetPointer DEF DurableInv, SessionInv, OneSession
  <2>2. CASE ~AtBase(t)
    <3>1. PICK n \in 1..L : frames[n].thread = t
      BY <1>0, <2>2 DEF AtBase, Mine
    <3>2. CASE t = Main
      BY <1>0, <3>2, UnsetPointer DEF DurableInv, SessionInv, OneSession
    <3>3. CASE t # Main
      BY <1>0, <3>1, <3>3 DEF DurableInv, SessionInv, OneSession
    <3> QED
      BY <3>2, <3>3
  <2> QED
    BY <2>1, <2>2
<1>7. FutureOK(r)
  BY <1>0, <1>4, <1>5, <1>6 DEF FutureOK, current
<1>9. \A j \in Task : /\ j \in Detached' <=> j \in Detached
                      /\ j \in Detached => tasks'[j].op = tasks[j].op
  BY <1>1, <1>3, <1>4 DEF Detached
<1>10. Detached' = Detached /\ Body'[0] = Body[0]
  BY <1>9, DetachedKept DEF Followed
<1>11. FuturesOK'
  BY <1>3, <1>4, <1>7, <1>10, FuturesChange DEF Followed, FuturesOK
<1>12. \A m \in 1..L : frames[m].task # NoTask =>
         /\ frames[m].task \in Task /\ tasks'[frames[m].task] = tasks[frames[m].task]
         /\ tasks[frames[m].task].st = "polled"
         /\ m < L => tasks[frames[m].task].scope = "open"
  BY <1>0, <1>1, <1>3, FrameType DEF Followed, StackOK
<1>13. StackOK'
  BY <1>0, <1>1, <1>10, <1>12, StackKept DEF Followed
<1>14. RecordOK'
  BY <1>1 DEF Followed, RecordOK
<1>15. PointerOK'
  <2>1. current' = current /\ (L # 0 => L \in 1..L)
    BY <1>0, <1>1 DEF current
  <2>2. Body'[L] = Body[L]
    BY <1>1, <1>10, <1>12, <2>1, BodyFacts, BodyFactsNext DEF BodyDef
  <2> QED
    BY <1>1, <1>12, <2>1, <2>2 DEF Followed, PointerOK
<1> QED
  BY <1>11, <1>13, <1>14, <1>15 DEF Followed

(* A poll moves the pointer to where its future left it.                   *)
LEMMA InstallFollowed ==
  ASSUME Serial, EnvMode, IInv, DurableInv, Followed, IInv', Grown,
         NEW t \in Thread, NEW k \in Task, InstallContext(t, k)
  PROVE  Followed'
<1> DEFINE L == Len(frames)
           c == tasks[k].ctxSes
           f == [thread |-> t, task |-> k, op |-> 0, prevSes |-> slot[t],
                 prevOp |-> IF Live(c) THEN sess[c].current ELSE 0]
<1>0. /\ TypeOK /\ L \in Nat /\ tasks \in [Task -> Future] /\ NoSession # Main
      /\ sess \in [Thread -> Session] /\ Main \in Thread /\ frames \in Seq(Frame)
      /\ slot \in [Thread -> Thread \cup {NoSession}] /\ NoTask \notin Task
  BY ConstantAssumption DEF IInv, TypeOK
<1>1. /\ InUserCode(t) /\ tasks[k].st = "idle" /\ frames' = Pushed(f)
      /\ tasks' = [tasks EXCEPT ![k].st = "polled"]
      /\ sess' = IF Live(c) THEN [sess EXCEPT ![c].current = tasks[k].ctxOp] ELSE sess
      /\ c = NoSession => frames = <<>> /\ Detached \subseteq {k}
      /\ ops' = ops
  BY DEF InstallContext, ContextCollector
<1>2. c \in {Main, NoSession} /\ (c = Main => Live(c)) /\ (c = NoSession => ~Live(c))
  BY <1>0 DEF DurableInv, SessionInv, OneSession, Live
<1>3. /\ current = Body[L]
      /\ \A m \in 1..L : frames[m].task # NoTask =>
           /\ frames[m].task \in Task
           /\ tasks[frames[m].task].st = "polled"
           /\ tasks[frames[m].task].scope = "open"
  BY <1>1, AtRestBody DEF InUserCode
<1>4. /\ \A j \in Task : j # k => tasks'[j] = tasks[j]
      /\ tasks'[k].st = "polled" /\ tasks'[k].scope = tasks[k].scope
      /\ tasks'[k].op = tasks[k].op /\ tasks'[k].ctxSes = c
      /\ tasks'[k].ctxOp = tasks[k].ctxOp /\ tasks'[k].caller = tasks[k].caller
  BY <1>0, <1>1 DEF Future
<1>5. f.task = k /\ f.task # NoTask /\ f.prevOp = (IF c = Main THEN current ELSE 0)
  BY <1>0, <1>2 DEF current
<1>6. f \in Frame
  <2>1. f.prevOp \in 0..MaxOps
    BY <1>0, <1>2, ConstantAssumption DEF Session
  <2> QED
    BY <1>0, <2>1, ConstantAssumption DEF Frame
<1>7. current' = IF c = Main THEN tasks[k].ctxOp ELSE current
  BY <1>0, <1>1, <1>2 DEF Session, current
<1> HIDE DEF f
<1>8. FutureOK(tasks[k]) /\ tasks[k].scope \in {"none", "open"}
  <2>1. FutureOK(tasks[k]) /\ tasks[k].scope \in {"none", "open", "closed"}
    BY <1>0 DEF Followed, FuturesOK, Future
  <2> QED
    BY <1>1, <2>1 DEF FutureOK
<1>9. k \notin Detached' /\ \A j \in Task : j # k => (j \in Detached' <=> j \in Detached)
  BY <1>4 DEF Detached
<1>10. \A j \in Detached' : j \in Detached
  BY <1>9 DEF Detached
<1>11. FuturesOK'
  <2>1. FutureOK(tasks'[k])
    BY <1>4, <1>8 DEF FutureOK
  <2>2. c = NoSession /\ tasks[k].op # 0 => ops'[tasks[k].op].parent = 0
    BY <1>1 DEF Followed, FuturesOK
  <2> QED
    BY <1>4, <1>10, <2>1, <2>2, FuturesChange DEF Followed, FuturesOK
<1>12. RecordOK'
  BY <1>1 DEF Followed, RecordOK
<1>13. c = Main => Detached' = Detached /\ Body'[0] = Body[0]
  <2>1. c = Main => k \notin Detached
    BY <1>0 DEF Detached
  <2> QED
    BY <1>4, <1>9, <2>1, DetachedKept DEF Followed
<1>14. c = NoSession => L = 0 /\ Detached' = {}
  BY <1>1, <1>9, <1>10
<1>15. StackOK'
  <2>1. \A m \in 1..L : frames[m].task # NoTask =>
          frames[m].task # k /\ tasks'[frames[m].task] = tasks[frames[m].task]
    BY <1>1, <1>3, <1>4
  <2>2. \A m \in 1..L : frames[m].task # k
    BY <1>0, <2>1
  <2>3. StackOK
    BY DEF Followed
  <2> QED
    BY <1>0, <1>1, <1>2, <1>3, <1>4, <1>5, <1>6, <1>13, <1>14, <2>1, <2>2, <2>3,
       StackPushed
<1>16. PointerOK'
  <2>1. Len(frames') = L + 1 /\ frames'[L + 1] = f
    BY <1>0, <1>1, <1>6, PushedFacts
  <2>2. L + 1 \in 1..Len(frames') /\ L + 1 # 0
    BY <1>0, <2>1
  <2>3. Body'[L + 1] = tasks[k].op
    BY <1>4, <1>5, <2>1, <2>2, BodyFactsNext DEF BodyDef
  <2>4. /\ tasks[k].scope = "open" => current' = tasks[k].op
        /\ tasks[k].scope = "none" => current' = tasks[k].caller
    <3>1. CASE c = Main
      BY <1>1, <1>7, <1>8, <3>1 DEF FutureOK
    <3>2. CASE c = NoSession
      <4>1. current = Body[0] /\ current' = current /\ tasks[k].caller = 0
        BY <1>0, <1>3, <1>7, <1>8, <1>14, <3>2 DEF FutureOK
      <4>2. tasks[k].scope = "open" => k \in Detached
        BY <1>1, <3>2 DEF Detached
      <4>3. tasks[k].scope = "none" => Detached = {}
        BY <1>1, <3>2 DEF Detached
      <4> QED
        BY <4>1, <4>2, <4>3, BodyFacts DEF BodyDef, Followed, FuturesOK
    <3> QED
      BY <1>2, <3>1, <3>2
  <2> HIDE DEF L, c
  <2> QED
    BY <1>4, <1>5, <1>8, <2>1, <2>2, <2>3, <2>4 DEF PointerOK
<1> QED
  BY <1>11, <1>12, <1>15, <1>16 DEF Followed

(* The newest frame is the only one of its future.                         *)
LEMMA TopPoll ==
  ASSUME Serial, IInv, Followed, NEW t \in Thread, MayRun(t),
         NEW n, IsTop(t, n), frames[n].task # NoTask
  PROVE  /\ n = Len(frames) /\ n \in 1..Len(frames) /\ frames[n].task \in Task
         /\ tasks[frames[n].task].st = "polled"
         /\ \A m \in 1..Len(frames) : frames[m].task = frames[n].task => m = n
         /\ \A m \in 1..Len(frames) : frames[m].task # NoTask =>
              /\ frames[m].task \in Task
              /\ tasks[frames[m].task].st = "polled"
              /\ m < Len(frames) => tasks[frames[m].task].scope = "open"
<1>1. TypeOK /\ n = Len(frames) /\ n \in 1..Len(frames)
  BY TopIsLast DEF IInv
<1> QED
  BY <1>1, FrameType DEF Followed, StackOK

(* A future's operation is recorded under its constructor.                 *)
LEMMA BeginAsyncFollowed ==
  ASSUME Serial, EnvMode, IInv, DurableInv, Followed, IInv', Grown, ~marker',
         NEW t \in Thread, NEW n \in DOMAIN frames, BeginAsyncOperation(t, n)
  PROVE  Followed'
<1> DEFINE L == Len(frames)
           k == frames[n].task
           i == Len(ops) + 1
<1>0. TypeOK /\ L \in Nat /\ tasks \in [Task -> Future]
  BY DEF IInv, TypeOK
<1>1. /\ MayRun(t) /\ IsTop(t, n) /\ k # NoTask /\ tasks[k].scope = "none"
      /\ tasks' = [tasks EXCEPT ![k].scope = "open", ![k].op = ScopeOp(t)]
      /\ BeginActive(t, tasks[k].caller) /\ frames' = frames
  BY DEF BeginAsyncOperation
<1>2. /\ n = L /\ n \in 1..L /\ L # 0 /\ k \in Task /\ tasks[k].st = "polled"
      /\ \A m \in 1..L : frames[m].task = k => m = n
      /\ \A m \in 1..L : frames[m].task # NoTask =>
           /\ frames[m].task \in Task
           /\ tasks[frames[m].task].st = "polled"
           /\ m < L => tasks[frames[m].task].scope = "open"
  BY <1>0, <1>1, TopPoll
<1>3. tasks[k].caller = current
  BY <1>1, <1>2 DEF Followed, PointerOK
<1>4. ~AtBase(t)
  BY <1>1 DEF IsTop, AtBase
<1>5. RecordsUnder(t, current)
  BY <1>1, <1>3, <1>4, SerialBegin DEF DurableInv
<1>6. ScopeOp(t) = i /\ current' = i
  BY <1>5 DEF RecordsUnder, current
<1>7. RecordOK' /\ ops'[i].parent = current /\ i # 0
  BY <1>5, RecordBegins DEF Followed
<1>8. /\ \A j \in Task : j # k => tasks'[j] = tasks[j]
      /\ tasks'[k].st = "polled" /\ tasks'[k].scope = "open"
      /\ tasks'[k].op = i /\ tasks'[k].ctxSes = tasks[k].ctxSes
      /\ tasks'[k].ctxOp = tasks[k].ctxOp /\ tasks'[k].caller = tasks[k].caller
  BY <1>0, <1>1, <1>2, <1>6 DEF Future
<1> HIDE DEF i
<1>9. Detached' = Detached /\ Body'[0] = Body[0]
  <2>1. \A j \in Task : /\ j \in Detached' <=> j \in Detached
                        /\ j \in Detached => tasks'[j].op = tasks[j].op
    BY <1>2, <1>8 DEF Detached
  <2> QED
    BY <2>1, DetachedKept DEF Followed
<1>10. FuturesOK'
  <2>1. FutureOK(tasks[k])
    BY <1>2 DEF Followed, FuturesOK
  <2>2. FutureOK(tasks'[k])
    BY <1>7, <1>8, <2>1 DEF FutureOK
  <2>3. tasks'[k].ctxSes = NoSession => ops'[tasks'[k].op].parent = 0
    BY <1>3, <1>7, <1>8, <2>1 DEF FutureOK
  <2> QED
    BY <1>2, <1>8, <1>9, <2>2, <2>3, FuturesChange DEF Followed, FuturesOK
<1>11. StackOK'
  <2>1. \A m \in 1..L : m < L => frames[m].task # k
    BY <1>0, <1>2
  <2>2. \A m \in 1..L : frames[m].task # NoTask =>
          /\ tasks'[frames[m].task].st = "polled"
          /\ tasks'[frames[m].task].ctxSes = tasks[frames[m].task].ctxSes
          /\ m < L => tasks'[frames[m].task] = tasks[frames[m].task]
    BY <1>2, <1>8, <2>1
  <2> QED
    BY <1>0, <1>1, <1>2, <1>9, <2>2, StackKept DEF Followed
<1>12. PointerOK'
  <2>1. Body'[L] = i
    BY <1>1, <1>2, <1>8, BodyFactsNext DEF BodyDef
  <2> QED
    BY <1>1, <1>2, <1>6, <1>8, <2>1 DEF PointerOK
<1> QED
  BY <1>7, <1>10, <1>11, <1>12 DEF Followed

(* The scope of the future being polled ends: completed, or dropped by a   *)
(* panic.                                                                  *)
LEMMA EndAsyncFollowed ==
  ASSUME Serial, EnvMode, IInv, DurableInv, Followed, IInv', Grown, ~marker',
         NEW t \in Thread, NEW n \in DOMAIN frames,
         \/ \E kind \in Closed : CompleteAsyncOperation(t, n, kind)
         \/ UnwindFuture(t, n)
  PROVE  Followed'
<1> DEFINE L == Len(frames)
           k == frames[n].task
           i == tasks[k].op
<1>0. TypeOK /\ L \in Nat /\ tasks \in [Task -> Future] /\ Len(ops) \in Nat
  BY DEF IInv, TypeOK
<1>1. /\ MayRun(t) /\ IsTop(t, n) /\ k # NoTask /\ tasks[k].scope = "open"
      /\ tasks' = [tasks EXCEPT ![k].scope = "closed"] /\ frames' = frames
      /\ DropScope(t, i) \/ \E kind \in Closed : CompleteScope(t, i, kind)
  BY DEF CompleteAsyncOperation, UnwindFuture
<1>2. /\ n = L /\ n \in 1..L /\ L # 0 /\ k \in Task /\ tasks[k].st = "polled"
      /\ \A m \in 1..L : frames[m].task = k => m = n
      /\ \A m \in 1..L : frames[m].task # NoTask =>
           /\ frames[m].task \in Task
           /\ tasks[frames[m].task].st = "polled"
           /\ m < L => tasks[frames[m].task].scope = "open"
  BY <1>0, <1>1, TopPoll
<1>3. FutureOK(tasks[k]) /\ i # 0
  BY <1>1, <1>2 DEF Followed, FuturesOK, FutureOK
<1>4. i \in 1..Len(ops) /\ ops[i].end = "open" /\ i \in 0..Len(ops)
  BY <1>0, <1>1, <1>2, <1>3 DEF IInv, OwnersOK
<1>5. current = i
  <2>1. current = Body[L]
    BY <1>1, <1>2 DEF Followed, PointerOK
  <2> QED
    BY <1>1, <1>2, <2>1, BodyFacts DEF BodyDef
<1>6. /\ \A j \in Task : j # k => tasks'[j] = tasks[j]
      /\ tasks'[k].st = "polled" /\ tasks'[k].scope = "closed"
      /\ tasks'[k].op = i /\ tasks'[k].ctxSes = tasks[k].ctxSes
      /\ tasks'[k].ctxOp = tasks[k].ctxOp /\ tasks'[k].caller = tasks[k].caller
  BY <1>0, <1>1, <1>2 DEF Future
<1> HIDE DEF i
<1>7. /\ current' = ops[i].parent
      /\ ops' = ops \/ \E kind \in Closed : ops' = [ops EXCEPT ![i].end = kind]
  <2>1. CASE DropScope(t, i)
    BY <1>3, <1>4, <1>5, <2>1, SerialDrop DEF DurableInv, Released, current
  <2>2. ASSUME NEW kind \in Closed, CompleteScope(t, i, kind)
        PROVE  /\ current' = ops[i].parent
               /\ ops' = [ops EXCEPT ![i].end = kind]
    <3>1. Completes(t, i, kind)
      BY <1>3, <1>4, <2>2, SerialComplete DEF DurableInv
    <3> QED
      BY <1>5, <3>1 DEF Completes, Released, current
  <2> QED
    BY <1>1, <2>1, <2>2
<1>8. RecordOK'
  <2>1. ASSUME NEW kind \in Closed, ops' = [ops EXCEPT ![i].end = kind]
        PROVE  RecordOK'
    BY <1>4, <2>1, RecordEnds DEF Followed
  <2>2. CASE ops' = ops
    BY <2>2 DEF Followed, RecordOK
  <2> QED
    BY <1>7, <2>1, <2>2
<1>9. Detached' = Detached /\ Body'[0] = Body[0]
  <2>1. \A j \in Task : /\ j \in Detached' <=> j \in Detached
                        /\ j \in Detached => tasks'[j].op = tasks[j].op
    BY <1>2, <1>6 DEF Detached
  <2> QED
    BY <2>1, DetachedKept DEF Followed
<1>10. tasks[k].ctxSes = NoSession => ops[i].parent = 0 /\ ops'[i].parent = 0
  BY <1>2, <1>3, <1>4 DEF Followed, FuturesOK, Grown, i
<1>11. FuturesOK'
  <2>1. FutureOK(tasks'[k])
    BY <1>3, <1>6 DEF FutureOK
  <2> QED
    BY <1>2, <1>6, <1>9, <1>10, <2>1, FuturesChange DEF Followed, FuturesOK
<1>12. StackOK'
  <2>1. \A m \in 1..L : m < L => frames[m].task # k
    BY <1>0, <1>2
  <2>2. \A m \in 1..L : frames[m].task # NoTask =>
          /\ tasks'[frames[m].task].st = "polled"
          /\ tasks'[frames[m].task].ctxSes = tasks[frames[m].task].ctxSes
          /\ m < L => tasks'[frames[m].task] = tasks[frames[m].task]
    BY <1>2, <1>6, <2>1
  <2> QED
    BY <1>0, <1>1, <1>2, <1>9, <2>2, StackKept DEF Followed
<1>13. PointerOK'
  BY <1>1, <1>2, <1>6, <1>7, <1>10 DEF PointerOK
<1> QED
  BY <1>8, <1>11, <1>12, <1>13 DEF Followed

(* The end of a poll puts the pointer back where the poll found it.        *)
LEMMA RestoreFollowed ==
  ASSUME Serial, EnvMode, IInv, DurableInv, Followed, IInv', Grown,
         NEW t \in Thread, NEW n \in DOMAIN frames, RestoreContext(t, n)
  PROVE  Followed'
<1> DEFINE L == Len(frames)
           k == frames[n].task
           c == tasks[k].ctxSes
<1>0. /\ TypeOK /\ L \in Nat /\ tasks \in [Task -> Future] /\ NoSession # Main
      /\ sess \in [Thread -> Session] /\ Main \in Thread
  BY ConstantAssumption DEF IInv, TypeOK
<1>1. /\ MayRun(t) /\ IsTop(t, n) /\ k # NoTask /\ tasks[k].scope \in {"open", "closed"}
      /\ frames' = Popped(n)
      /\ tasks' = [tasks EXCEPT
           ![k].st = IF tasks[k].scope = "closed" THEN "gone" ELSE "idle",
           ![k].ctxOp = IF Live(c) THEN sess[c].current ELSE 0]
      /\ sess' = IF Live(c) THEN [sess EXCEPT ![c].current = frames[n].prevOp] ELSE sess
      /\ ops' = ops
  BY DEF RestoreContext, ContextCollector
<1>2. /\ n = L /\ n \in 1..L /\ L # 0 /\ k \in Task /\ tasks[k].st = "polled"
      /\ \A m \in 1..L : frames[m].task = k => m = n
      /\ \A m \in 1..L : frames[m].task # NoTask =>
           /\ frames[m].task \in Task
           /\ tasks[frames[m].task].st = "polled"
           /\ m < L => tasks[frames[m].task].scope = "open"
  BY <1>0, <1>1, TopPoll
<1>3. /\ c \in {Main, NoSession} /\ (c = Main => Live(c)) /\ (c = NoSession => ~Live(c))
  BY <1>0, <1>2 DEF DurableInv, SessionInv, OneSession, Live
<1>4. /\ \A j \in Task : j # k => tasks'[j] = tasks[j]
      /\ tasks'[k].st = IF tasks[k].scope = "closed" THEN "gone" ELSE "idle"
      /\ tasks'[k].scope = tasks[k].scope
      /\ tasks'[k].op = tasks[k].op /\ tasks'[k].ctxSes = c
      /\ tasks'[k].ctxOp = (IF c = Main THEN current ELSE 0)
      /\ tasks'[k].caller = tasks[k].caller
  BY <1>0, <1>1, <1>2, <1>3 DEF Future, current
<1>5. current' = IF c = Main THEN frames[n].prevOp ELSE current
  BY <1>0, <1>1, <1>3 DEF Session, current
<1>6. /\ Len(frames') = L - 1 /\ Len(frames') <= L
      /\ \A m \in 1..Len(frames') :
           frames'[m] = frames[m] /\ m \in 1..L /\ m < L /\ frames[m].task # k
  <2>1. Len(frames') = L - 1 /\ \A m \in 1..(L - 1) : frames'[m] = frames[m]
    BY <1>0, <1>1, <1>2, LastPopped
  <2>2. \A m \in 1..(L - 1) : m \in 1..L /\ m < L /\ L - 1 <= L /\ m # n
    BY <1>0, <1>2
  <2>3. L - 1 <= L
    BY <1>0
  <2> QED
    BY <1>2, <2>1, <2>2, <2>3
<1>7. FutureOK(tasks[k]) /\ FutureOK(tasks'[k])
  <2>1. FutureOK(tasks[k])
    BY <1>2 DEF Followed, FuturesOK
  <2>2. tasks[k].scope = "open" => current = tasks[k].op
    <3>1. tasks[k].scope = "open" => current = Body[L]
      BY <1>2 DEF Followed, PointerOK
    <3> QED
      BY <1>1, <1>2, <3>1, BodyFacts DEF BodyDef
  <2> QED
    BY <1>1, <1>4, <2>1, <2>2 DEF FutureOK
<1>8. RecordOK'
  BY <1>1 DEF Followed, RecordOK
<1>9. c = NoSession /\ tasks'[k].op # 0 => ops'[tasks'[k].op].parent = 0
  BY <1>1, <1>2, <1>4 DEF Followed, FuturesOK
<1>10. \A m \in 1..Len(frames') : frames[m].task # NoTask =>
         tasks'[frames[m].task] = tasks[frames[m].task]
  BY <1>2, <1>4, <1>6
<1>11. CASE c = Main
  <2>1. Detached' = Detached /\ Body'[0] = Body[0]
    <3>1. \A j \in Task : /\ j \in Detached' <=> j \in Detached
                          /\ j \in Detached => tasks'[j].op = tasks[j].op
      BY <1>0, <1>2, <1>4, <1>11 DEF Detached
    <3> QED
      BY <3>1, DetachedKept DEF Followed
  <2>2. FuturesOK'
    BY <1>0, <1>2, <1>4, <1>7, <1>9, <1>11, <2>1, FuturesChange DEF Followed, FuturesOK
  <2>3. StackOK'
    BY <1>2, <1>6, <1>10, <2>1, StackKept DEF Followed
  <2>4. current' = Body[L - 1]
    BY <1>1, <1>2, <1>5, <1>11 DEF Followed, StackOK
  <2>5. PointerOK'
    BY <1>2, <1>6, <1>10, <2>1, <2>4, PointerPopped DEF Followed
  <2> QED
    BY <1>8, <2>2, <2>3, <2>5 DEF Followed
<1>12. CASE c = NoSession
  <2>1. L = 1 /\ Detached = {} /\ Len(frames') = 0
    <3>1. L = 1 /\ Detached = {}
      BY <1>1, <1>2, <1>12 DEF Followed, StackOK
    <3> QED
      BY <1>6, <3>1
  <2>2. \A j \in Detached' : j = k
    BY <1>4, <2>1 DEF Detached
  <2>3. FuturesOK'
    BY <1>2, <1>4, <1>7, <1>9, <2>2, FuturesChange DEF Followed
  <2>4. StackOK'
    BY <1>6, <1>10, <2>1, StackKept DEF Followed
  <2>5. current' = Body'[0]
    <3>1. CASE tasks[k].scope = "closed"
      <4>1. Detached' = {}
        BY <1>4, <2>2, <3>1 DEF Detached
      <4>2. current = 0
        BY <1>1, <1>2, <1>12, <3>1 DEF Followed, PointerOK
      <4> QED
        BY <1>0, <1>5, <1>12, <4>1, <4>2, BodyFactsNext DEF BodyDef
    <3>2. CASE tasks[k].scope = "open"
      <4>1. k \in Detached'
        BY <1>2, <1>4, <1>12, <3>2 DEF Detached
      <4>2. Body'[0] = tasks[k].op
        BY <1>4, <2>2, <4>1, BodyFactsNext DEF BodyDef
      <4>3. current = Body[L]
        BY <1>2, <3>2 DEF Followed, PointerOK
      <4>4. Body[L] = tasks[k].op
        BY <1>1, <1>2, BodyFacts DEF BodyDef
      <4> QED
        BY <1>0, <1>5, <1>12, <4>2, <4>3, <4>4
    <3> QED
      BY <1>1, <3>1, <3>2
  <2>6. PointerOK'
    BY <2>1, <2>5 DEF PointerOK
  <2> QED
    BY <1>8, <2>3, <2>4, <2>6 DEF Followed
<1> QED
  BY <1>3, <1>11, <1>12

(* A future dropped between polls moves no pointer of a running body.      *)
LEMMA DropFollowed ==
  ASSUME Serial, EnvMode, IInv, DurableInv, Followed, IInv', Grown,
         NEW t \in Thread, NEW k \in Task, DropFuture(t, k)
  PROVE  Followed'
<1> DEFINE L == Len(frames)
           i == tasks[k].op
<1>0. /\ TypeOK /\ L \in Nat /\ tasks \in [Task -> Future] /\ Len(ops) \in Nat
      /\ NoSession # Main
  BY ConstantAssumption DEF IInv, TypeOK
<1>1. /\ MayRun(t) /\ AtRest(t) /\ tasks[k].st = "idle"
      /\ tasks' = [tasks EXCEPT ![k].st = "gone", ![k].scope = "closed"]
      /\ DropScope(t, i) /\ frames' = frames
      /\ k \in Detached => frames = <<>>
  BY DEF DropFuture
<1>2. /\ current = Body[L]
      /\ \A m \in 1..L : frames[m].task # NoTask =>
           /\ frames[m].task \in Task
           /\ tasks[frames[m].task].st = "polled"
           /\ tasks[frames[m].task].scope = "open"
  BY <1>1, AtRestBody
<1>3. /\ \A j \in Task : j # k => tasks'[j] = tasks[j]
      /\ tasks'[k].st = "gone" /\ tasks'[k].scope = "closed"
      /\ tasks'[k].op = i /\ tasks'[k].ctxSes = tasks[k].ctxSes
      /\ tasks'[k].ctxOp = tasks[k].ctxOp /\ tasks'[k].caller = tasks[k].caller
  BY <1>0, <1>1 DEF Future
<1>4. FutureOK(tasks[k]) /\ FutureOK(tasks'[k]) /\ (tasks[k].scope = "open" <=> i # 0)
  <2>1. FutureOK(tasks[k]) /\ tasks[k].scope \in {"none", "open", "closed"}
    BY <1>0 DEF Followed, FuturesOK, Future
  <2> QED
    BY <1>1, <1>3, <2>1 DEF FutureOK
<1>5. i # 0 => i \in 1..Len(ops) /\ ops[i].end = "open"
  BY <1>4 DEF IInv, OwnersOK
<1>6. i \in 0..Len(ops)
  BY <1>0, <1>5
<1>7. /\ current' = IF i # 0 /\ current = i THEN ops[i].parent ELSE current
      /\ ops' = ops \/ \E kind \in Closed : i # 0 /\ ops' = [ops EXCEPT ![i].end = kind]
  <2> HIDE DEF i
  <2>1. \/ UNCHANGED <<sess, ops>> /\ (i # 0 => ops[i].end # "open")
        \/ /\ i # 0 /\ ops[i].end = "open"
           /\ sess'[Main].current = Released(sess[Main].current, i)
           /\ \/ ops' = ops
              \/ \E kind \in Closed : ops' = [ops EXCEPT ![i].end = kind]
    BY <1>1, <1>6, SerialDrop DEF DurableInv
  <2> QED
    BY <1>5, <2>1 DEF Released, current
<1>8. RecordOK'
  <2>1. ASSUME NEW kind \in Closed, i # 0, ops' = [ops EXCEPT ![i].end = kind]
        PROVE  RecordOK'
    BY <1>5, <2>1, RecordEnds DEF Followed
  <2>2. CASE ops' = ops
    BY <2>2 DEF Followed, RecordOK
  <2> QED
    BY <1>7, <2>1, <2>2
<1>9. \A j \in Detached' : j # k /\ j \in Detached
  BY <1>3 DEF Detached
<1>10. tasks[k].ctxSes = NoSession /\ i # 0 => ops[i].parent = 0 /\ ops'[i].parent = 0
  BY <1>5 DEF Followed, FuturesOK, Grown
<1>11. FuturesOK'
  BY <1>3, <1>4, <1>9, <1>10, FuturesChange DEF Followed, FuturesOK
<1>12. \A m \in 1..L : frames[m].task # NoTask =>
         frames[m].task # k /\ tasks'[frames[m].task] = tasks[frames[m].task]
  BY <1>1, <1>2, <1>3
<1>13. CASE k \in Detached
  <2>1. L = 0 /\ i # 0 /\ tasks[k].ctxSes = NoSession
    BY <1>1, <1>4, <1>13 DEF Detached
  <2>2. Detached' = {}
    BY <1>9, <1>13 DEF Followed, FuturesOK
  <2>3. Body[0] = i
    BY <1>13, BodyFacts DEF BodyDef, Followed, FuturesOK
  <2>4. current' = 0 /\ Body'[0] = 0
    BY <1>2, <1>7, <1>10, <2>1, <2>2, <2>3, BodyFactsNext DEF BodyDef
  <2>5. StackOK'
    BY <1>1, <2>1, StackKept DEF Followed
  <2>6. PointerOK'
    BY <1>1, <2>1, <2>4 DEF PointerOK
  <2> QED
    BY <1>8, <1>11, <2>5, <2>6 DEF Followed
<1>14. CASE k \notin Detached
  <2>1. Detached' = Detached /\ Body'[0] = Body[0]
    <3>1. \A j \in Task : /\ j \in Detached' <=> j \in Detached
                          /\ j \in Detached => tasks'[j].op = tasks[j].op
      BY <1>3, <1>14 DEF Detached
    <3> QED
      BY <3>1, DetachedKept DEF Followed
  <2>2. L # 0 => L \in 1..L
    BY <1>0
  <2>3. ASSUME i # 0 PROVE current # i
    <3>1. CASE L = 0
      <4>1. CASE Detached = {}
        BY <1>2, <2>3, <3>1, <4>1, BodyFacts DEF BodyDef
      <4>2. ASSUME NEW j \in Detached PROVE current # i
        <5>1. current = tasks[j].op /\ j # k /\ j \in Task
          BY <1>2, <1>14, <3>1, <4>2, BodyFacts DEF BodyDef, Followed, FuturesOK, Detached
        <5> QED
          BY <2>3, <5>1 DEF IInv, OwnersOK
      <4> QED
        BY <4>1, <4>2
    <3>2. CASE L # 0 /\ frames[L].task = NoTask
      <4>1. current = frames[L].op
        BY <1>2, <2>2, <3>2, BodyFacts DEF BodyDef
      <4> QED
        BY <2>2, <2>3, <3>2, <4>1 DEF IInv, OwnersOK
    <3>3. CASE L # 0 /\ frames[L].task # NoTask
      <4>1. current = tasks[frames[L].task].op
        BY <1>2, <2>2, <3>3, BodyFacts DEF BodyDef
      <4>2. frames[L].task \in Task /\ frames[L].task # k
        BY <1>2, <1>12, <2>2, <3>3
      <4> QED
        BY <2>3, <4>1, <4>2 DEF IInv, OwnersOK
    <3> QED
      BY <3>1, <3>2, <3>3
  <2>4. current' = Body[L]
    BY <1>2, <1>7, <2>3
  <2>5. StackOK'
    BY <1>0, <1>1, <1>2, <1>12, <2>1, StackKept DEF Followed
  <2>6. Body'[L] = Body[L]
    <3>1. CASE L = 0
      BY <2>1, <3>1
    <3>2. CASE L # 0
      <4>1. /\ Body[L] = IF frames[L].task = NoTask THEN frames[L].op
                         ELSE tasks[frames[L].task].op
            /\ Body'[L] = IF frames'[L].task = NoTask THEN frames'[L].op
                          ELSE tasks'[frames'[L].task].op
        BY <1>1, <2>2, <3>2, BodyFacts, BodyFactsNext DEF BodyDef
      <4> QED
        BY <1>1, <1>12, <2>2, <3>2, <4>1
    <3> QED
      BY <3>1, <3>2
  <2>7. PointerOK'
    BY <1>1, <1>2, <1>12, <2>2, <2>4, <2>6 DEF PointerOK
  <2> QED
    BY <1>8, <1>11, <2>5, <2>7 DEF Followed
<1> QED
  BY <1>13, <1>14

(* A step that leaves the pointer, the frames and the futures alone.       *)
LEMMA StillFollowed ==
  ASSUME IInv, Followed, IInv', Grown, UNCHANGED <<frames, tasks>>,
         current' = current, RecordOK'
  PROVE  Followed'
<1> DEFINE L == Len(frames)
<1>1. L \in Nat /\ (L # 0 => L \in 1..L)
  BY DEF IInv, TypeOK
<1>2. FuturesOK' /\ Detached' = Detached
  BY FuturesSame DEF Followed
<1>3. Body'[0] = Body[0]
  BY <1>2, DetachedKept DEF Followed
<1>4. StackOK'
  <2>1. \A m \in 1..L : frames[m].task # NoTask =>
          /\ tasks[frames[m].task].st = "polled"
          /\ m < L => tasks[frames[m].task].scope = "open"
    BY DEF Followed, StackOK
  <2> QED
    BY <1>1, <1>2, <1>3, <2>1, StackKept DEF Followed
<1>5. Body'[L] = Body[L]
  BY <1>1, <1>3, BodyFacts, BodyFactsNext DEF BodyDef
<1>6. PointerOK'
  BY <1>5 DEF Followed, PointerOK
<1> QED
  BY <1>2, <1>4, <1>6 DEF Followed

(* An observation goes to the body that emits it.                          *)
LEMMA ObserveFollowed ==
  ASSUME Serial, EnvMode, IInv, DurableInv, Followed, IInv', Grown, ~marker',
         NEW t \in Thread, RecordObservation(t)
  PROVE  Followed'
<1> DEFINE i == current
<1>0. /\ sess \in [Thread -> Session] /\ Main \in Thread /\ NoSession # Main
      /\ ops \in Seq(Operation) /\ slot[t] \in {Main, NoSession}
  BY ConstantAssumption DEF IInv, TypeOK, DurableInv, SessionInv, OneSession
<1>1. /\ slot[t] = Main /\ i # 0 /\ Calls(t) /\ UNCHANGED <<frames, tasks>>
      /\ ops' = [ops EXCEPT ![i].obs = Append(@, Caller(t))]
      /\ sess' = [sess EXCEPT ![Main].clock = @ + 1]
  BY <1>0 DEF RecordObservation, current
<1>2. Caller(t) = i
  BY <1>1, CallerIsCurrent
<1>3. i \in 1..Len(ops)
  BY <1>0, <1>1 DEF IInv, CurrentOK, OpOf, current
<1>4. current' = current
  BY <1>0, <1>1 DEF Session, current
<1>5. RecordOK'
  <2> HIDE DEF i
  <2>1. /\ Len(ops') = Len(ops)
        /\ \A j \in 1..Len(ops) : j # i => ops'[j] = ops[j]
        /\ ops'[i] = [ops[i] EXCEPT !.obs = Append(@, i)]
    <3> DEFINE e == [ops[i] EXCEPT !.obs = Append(@, i)]
    <3>1. ops' = [ops EXCEPT ![i] = e]
      BY <1>1, <1>2 DEF i
    <3> HIDE DEF e
    <3>2. /\ Len(ops') = Len(ops)
          /\ \A j \in 1..Len(ops) : ops'[j] = IF j = i THEN e ELSE ops[j]
      BY <1>0, <1>3, <3>1
    <3> QED
      BY <1>3, <3>2 DEF e
  <2>2. ops[i] \in Operation /\ ops[i].obs \in Seq(0..MaxOps)
    <3>1. ops[i] \in Operation
      BY <1>0, <1>3
    <3> QED
      BY <3>1 DEF Operation
  <2>3. /\ ops'[i].parent = ops[i].parent /\ ops'[i].caller = ops[i].caller
        /\ ops'[i].obs = Append(ops[i].obs, i)
    BY <2>1, <2>2 DEF Operation
  <2>4. \A n \in 1..Len(ops'[i].obs) : ops'[i].obs[n] = i
    <3>1. \A n \in 1..Len(ops[i].obs) : ops[i].obs[n] = i
      BY <1>3 DEF Followed, RecordOK
    <3> QED
      BY <2>2, <2>3, <3>1
  <2> QED
    BY <1>3, <2>1, <2>3, <2>4 DEF Followed, RecordOK
<1> QED
  BY <1>1, <1>4, <1>5, StillFollowed

(* Panics, the end of the process and persistence move no pointer.         *)
LEMMA ControlFollowed ==
  ASSUME Serial, EnvMode, IInv, DurableInv, Followed, IInv', Grown,
         \/ \E t \in Thread : \/ Panic(t) \/ CatchPanic(t)
                              \/ TakeSnapshot(t) \/ PersistSnapshot(t)
                              \/ PersistFails(t)
         \/ Exit
         \/ UNCHANGED vars
  PROVE  Followed'
<1>0. /\ sess \in [Thread -> Session] /\ Main \in Thread
      /\ slot \in [Thread -> Thread \cup {NoSession}]
  BY ConstantAssumption DEF IInv, TypeOK
<1>1. UNCHANGED <<ops, frames, tasks>>
  BY DEF Panic, CatchPanic, TakeSnapshot, PersistSnapshot, PersistFails, Exit, vars
<1>2. current' = current
  <2>1. CASE sess' = sess
    BY <2>1 DEF current
  <2>2. CASE \E t \in Thread : sess' = MarkError(t, sess)
    BY <1>0, <2>2, MarkErrorFacts DEF current
  <2>3. ASSUME NEW t \in Thread, PersistFails(t)
        PROVE  current' = current
    <3> DEFINE s == io[t].ses
               S == IF Live(s) THEN [sess EXCEPT ![s].failed = TRUE] ELSE sess
    <3>1. sess' = MarkError(t, S) /\ s = Main
      BY <2>3 DEF PersistFails, DurableInv, SidecarInv, SnapshotCurrent
    <3>2. S \in [Thread -> Session] /\ S[Main].current = sess[Main].current
      BY <1>0, <3>1 DEF Session
    <3> HIDE DEF S
    <3> QED
      BY <1>0, <3>1, <3>2, MarkErrorFacts DEF current
  <2> QED
    BY <2>1, <2>2, <2>3 DEF Panic, CatchPanic, TakeSnapshot, PersistSnapshot, Exit, vars
<1>3. RecordOK'
  BY <1>1 DEF Followed, RecordOK
<1> QED
  BY <1>1, <1>2, <1>3, StillFollowed
-----------------------------------------------------------------------------
(* The inductive invariant                                                 *)

(* Every step keeps the invariant.                                         *)
LEMMA PointerNext ==
  ASSUME Serial, EnvMode, IInv, DurableInv, PointerInv, [Next]_vars
  PROVE  PointerInv'
<1>0. IInv' /\ Grown
  BY NextKeeps
<1>1. Returns \cup {"fault"} \subseteq Closed
  BY ConstantAssumption DEF Closed
<1>2. marker => marker'
  <2>1. ASSUME NEW t \in Thread, NEW caller, BeginActive(t, caller)
        PROVE  marker => marker'
    BY <2>1 DEF BeginActive
  <2>2. ASSUME NEW t \in Thread, NEW i, NEW kind, CompleteScope(t, i, kind)
        PROVE  marker => marker'
    BY <2>2 DEF CompleteScope
  <2>3. CASE Exit \/ UNCHANGED vars
    BY <2>3 DEF Exit, vars
  <2>4. ASSUME NEW t \in Thread, NEW k \in Task,
               ConstructFuture(t, k) \/ InstallContext(t, k) \/ DropFuture(t, k)
        PROVE  marker => marker'
    BY <2>4 DEF ConstructFuture, InstallContext, DropFuture
  <2>5. ASSUME NEW t \in Thread, NEW n \in DOMAIN frames,
               \/ \E kind \in Returns \cup {"fault"} : CompleteOperation(t, n, kind)
               \/ BeginAsyncOperation(t, n)
               \/ \E kind \in Returns : CompleteAsyncOperation(t, n, kind)
               \/ UnwindFuture(t, n) \/ RestoreContext(t, n)
        PROVE  marker => marker'
    BY <2>1, <2>2, <2>5 DEF CompleteOperation, BeginAsyncOperation,
         CompleteAsyncOperation, UnwindFuture, RestoreContext
  <2>6. ASSUME NEW t \in Thread,
               \/ BeginOperation(t) \/ RecordObservation(t) \/ Panic(t)
               \/ CatchPanic(t) \/ TakeSnapshot(t) \/ PersistSnapshot(t)
               \/ PersistFails(t) \/ Start(t) \/ Finish(t)
        PROVE  marker => marker'
    BY <2>1, <2>6 DEF BeginOperation, RecordObservation, Panic, CatchPanic,
         TakeSnapshot, PersistSnapshot, PersistFails, Start, Finish
  <2> QED
    BY <2>3, <2>4, <2>5, <2>6 DEF Next
<1> SUFFICES ASSUME ~marker' PROVE Followed'
  BY DEF PointerInv
<1>3. Followed
  BY <1>2 DEF PointerInv
<1>4. CASE \/ Exit \/ UNCHANGED vars
           \/ \E t \in Thread : \/ Panic(t) \/ CatchPanic(t)
                                \/ TakeSnapshot(t) \/ PersistSnapshot(t)
                                \/ PersistFails(t)
  BY <1>0, <1>3, <1>4, ControlFollowed
<1>5. ASSUME NEW t \in Thread, NEW k \in Task,
             ConstructFuture(t, k) \/ InstallContext(t, k) \/ DropFuture(t, k)
      PROVE  Followed'
  BY <1>0, <1>3, <1>5, ConstructFollowed, InstallFollowed, DropFollowed
<1>6. ASSUME NEW t \in Thread, NEW n \in DOMAIN frames,
             \/ \E kind \in Returns \cup {"fault"} : CompleteOperation(t, n, kind)
             \/ BeginAsyncOperation(t, n)
             \/ \E kind \in Returns : CompleteAsyncOperation(t, n, kind)
             \/ UnwindFuture(t, n) \/ RestoreContext(t, n)
      PROVE  Followed'
  <2>1. CASE \E kind \in Closed : CompleteOperation(t, n, kind)
    BY <1>0, <1>3, <2>1, CompleteFollowed
  <2>2. CASE \/ \E kind \in Closed : CompleteAsyncOperation(t, n, kind)
             \/ UnwindFuture(t, n)
    BY <1>0, <1>3, <2>2, EndAsyncFollowed
  <2>3. CASE BeginAsyncOperation(t, n)
    BY <1>0, <1>3, <2>3, BeginAsyncFollowed
  <2>4. CASE RestoreContext(t, n)
    BY <1>0, <1>3, <2>4, RestoreFollowed
  <2> QED
    BY <1>1, <1>6, <2>1, <2>2, <2>3, <2>4
<1>7. ASSUME NEW t \in Thread, BeginOperation(t) \/ RecordObservation(t)
      PROVE  Followed'
  BY <1>0, <1>3, <1>7, BeginFollowed, ObserveFollowed
<1>8. ASSUME NEW t \in Thread, Start(t) \/ Finish(t)
      PROVE  Followed'
  BY <1>8 DEF Start, Finish
<1> QED
  BY <1>4, <1>5, <1>6, <1>7, <1>8 DEF Next

(* It holds before anything was called.                                    *)
LEMMA PointerInit ==
  ASSUME Init PROVE PointerInv
<1>1. /\ Len(ops) = 0 /\ 1..Len(ops) = {} /\ Len(frames) = 0 /\ 1..Len(frames) = {}
      /\ current = 0
  BY ConstantAssumption DEF Init, current
<1>2. \A k \in Task : /\ tasks[k].st = "none" /\ tasks[k].scope = "none"
                      /\ tasks[k].ctxSes = NoSession
                      /\ tasks[k].op = 0 /\ tasks[k].caller = 0
  BY DEF Init
<1>3. Detached = {} /\ NoSession # Main
  BY <1>2, ConstantAssumption DEF Detached
<1>4. FuturesOK
  BY <1>2, <1>3 DEF FuturesOK, FutureOK
<1>5. StackOK /\ RecordOK
  BY <1>1 DEF StackOK, RecordOK
<1>6. PointerOK
  BY <1>1, <1>3, InitIInv, BodyFacts DEF BodyDef, PointerOK
<1> QED
  BY <1>4, <1>5, <1>6 DEF Followed, PointerInv

(* It holds always.                                                        *)
LEMMA PointerAlways ==
  ASSUME Serial, EnvMode
  PROVE  Spec => [](IInv /\ PointerInv)
<1>1. Init => PointerInv
  BY PointerInit
<1>2. (IInv /\ DurableInv) /\ PointerInv /\ [Next]_vars => PointerInv'
  BY PointerNext
<1> QED
  BY <1>1, <1>2, DurableAlways, PTL DEF Spec
-----------------------------------------------------------------------------
(* In an environment capture of a serialised program, every operation is   *)
(* recorded under the one whose body called it or constructed its future,  *)
(* however polls nest, migrate, panic, are abandoned or dropped            *)
(* (begin_active, InstalledContext, release_operation).                    *)
THEOREM ParentsFaithful ==
  ASSUME Serial, EnvMode
  PROVE  Spec => []ParentageFaithful
<1>1. IInv /\ PointerInv => ParentageFaithful
  <2>1. IInv => DOMAIN ops = 1..Len(ops)
    BY DEF IInv, TypeOK
  <2> QED
    BY <2>1 DEF PointerInv, Followed, RecordOK, ParentageFaithful
<1> QED
  BY <1>1, PointerAlways, PTL

(* In an environment capture of a serialised program, every observation is *)
(* attached to the operation whose body emitted it (record_observation).   *)
THEOREM ObservedFaithful ==
  ASSUME Serial, EnvMode
  PROVE  Spec => []ObservationsFaithful
<1>1. IInv /\ PointerInv => ObservationsFaithful
  <2> SUFFICES ASSUME IInv, PointerInv, ~marker,
                      NEW i \in DOMAIN ops, NEW n \in DOMAIN ops[i].obs
               PROVE  ops[i].obs[n] = i
    BY DEF ObservationsFaithful
  <2>1. i \in 1..Len(ops) /\ ops[i] \in Operation
    BY DEF IInv, TypeOK
  <2>2. DOMAIN ops[i].obs = 1..Len(ops[i].obs)
    BY <2>1 DEF Operation
  <2> QED
    BY <2>1, <2>2 DEF PointerInv, Followed, RecordOK
<1> QED
  BY <1>1, PointerAlways, PTL
=============================================================================
