--------------------------- MODULE NativeCapture ---------------------------
(***************************************************************************)
(* The Rust capture runtime (rust/crates/specgate-runtime/src/capture.rs,  *)
(* capture/async_context.rs, capture/environment.rs) as the code generated *)
(* by #[spec_operation] drives it inside one test process.                 *)
(*                                                                         *)
(* Threads run annotated synchronous functions and poll annotated futures. *)
(* Each thread has a SESSION slot naming a collector; a collector holds    *)
(* the logical clock, the current-operation pointer and the recorded       *)
(* operations behind one mutex.  One TLA+ step is one critical section of  *)
(* that mutex (or the file replacement that happens outside it), so steps  *)
(* of different threads interleave exactly where the code lets them.       *)
(*                                                                         *)
(* A collector is named after the thread that created it: environment      *)
(* activation reads the variable once per thread, and, as a bound of the   *)
(* model, a thread calls start at most once.                               *)
(***************************************************************************)
EXTENDS Integers, Sequences, FiniteSets

CONSTANTS
  Thread,      \* threads of the test process
  Main,        \* the thread libtest runs the test on
  Task,        \* annotated futures the test may construct
  NoSession,   \* an empty SESSION slot
  NoTask,      \* the frame of a synchronous operation
  Returns,     \* how bodies may return: any of "unit", "value", "error"
  MaxOps,      \* bound: operations recorded by the process
  MaxObs,      \* bound: observations recorded by the process
  MaxDepth,    \* bound: annotated calls and polls in progress at once
  MaxClock,    \* the logical clock's last value (i64::MAX in steps)
  EnvMode,     \* TRUE: environment capture with a sidecar; FALSE: start/finish
  Serial,      \* TRUE: the program's polls are serialised (see MayRun)
  MayFail      \* TRUE: file replacement may fail

ASSUME ConstantAssumption ==
  /\ Main \in Thread
  /\ NoSession \notin Thread
  /\ NoTask \notin Task
  /\ Returns \subseteq {"unit", "value", "error"}
  /\ MaxOps \in Nat
  /\ MaxObs \in Nat
  /\ MaxDepth \in Nat
  /\ MaxClock \in Nat
  /\ EnvMode \in BOOLEAN
  /\ Serial \in BOOLEAN
  /\ MayFail \in BOOLEAN

VARIABLES
  sess,       \* [Thread -> collector record]
  slot,       \* [Thread -> collector in the thread's SESSION slot]
  ops,        \* the operations recorded so far, over all collectors
  frames,     \* the running annotated calls and polls, oldest first
  tasks,      \* [Task -> future record]
  io,         \* [Thread -> persistence in progress]
  unwinding,  \* [Thread -> is the thread panicking?]
  sidecar,    \* the content of the sidecar file, by operation
  marker,     \* has the failure marker been written to stderr?
  exited,     \* has the test passed and its process ended?
  acked       \* history: operations whose completion was reported persisted

vars == <<sess, slot, ops, frames, tasks, io, unwinding, sidecar, marker,
          exited, acked>>

OpId    == 1..MaxOps
Closed  == {"unit", "value", "error", "fault", "abandoned"}
Shown   == Closed \cup {"incomplete", "absent"}

(* One PendingOperation.  `caller' is a history field: the operation whose *)
(* body really made the call (for a future, constructed it); the entries   *)
(* of `obs' name the operation whose body really emitted each observation. *)
Operation == [ses : Thread, parent : 0..MaxOps, caller : 0..MaxOps,
              end : Closed \cup {"open"}, obs : Seq(0..MaxOps)]

Session == [st : {"unused", "live", "finished", "rejected"},
            clock : 0..MaxClock, current : 0..MaxOps, failed : BOOLEAN]

(* A frame is a synchronous scope, or an installed poll of a future with   *)
(* what InstalledContext saved.                                            *)
Frame == [thread : Thread, task : Task \cup {NoTask}, op : 0..MaxOps,
          prevSes : Thread \cup {NoSession}, prevOp : 0..MaxOps]

(* A future: its CaptureContext and the state of the scope inside it.      *)
Future == [st : {"none", "idle", "polled", "gone"},
           scope : {"none", "open", "closed"},
           ctxSes : Thread \cup {NoSession}, ctxOp : 0..MaxOps,
           op : 0..MaxOps, caller : 0..MaxOps]

Blank == [i \in OpId |-> "absent"]
Idle  == [ph |-> "idle", ses |-> NoSession, op |-> 0, snap |-> Blank]

Persistence == [ph : {"idle", "snap", "write"}, ses : Thread \cup {NoSession},
                op : 0..MaxOps, snap : [OpId -> Shown]]

TypeOK ==
  /\ sess \in [Thread -> Session]
  /\ slot \in [Thread -> Thread \cup {NoSession}]
  /\ ops \in Seq(Operation) /\ Len(ops) <= MaxOps
  /\ frames \in Seq(Frame)
  /\ tasks \in [Task -> Future]
  /\ io \in [Thread -> Persistence]
  /\ unwinding \in [Thread -> BOOLEAN]
  /\ sidecar \in [OpId -> Shown]
  /\ marker \in BOOLEAN
  /\ exited \in BOOLEAN
  /\ acked \in SUBSET OpId
-----------------------------------------------------------------------------
(* Frames                                                                  *)

Mine(t)   == {n \in DOMAIN frames : frames[n].thread = t}
IsTop(t, n) == n \in Mine(t) /\ \A m \in Mine(t) : m <= n
AtBase(t) == Mine(t) = {}

FrameOp(f) == IF f.task = NoTask THEN f.op ELSE tasks[f.task].op

(* The operation whose body thread t is executing now; 0 outside any.      *)
Caller(t) == IF AtBase(t) THEN 0
             ELSE FrameOp(frames[CHOOSE n \in Mine(t) : IsTop(t, n)])

Pushed(f)  == Append(frames, f)
Popped(n)  == [m \in 1..(Len(frames) - 1) |->
                 IF m < n THEN frames[m] ELSE frames[m + 1]]

(* Futures constructed before any session existed carry no context; these  *)
(* are the ones suspended with their operation still open.                 *)
Detached == {k \in Task : /\ tasks[k].st = "idle"
                          /\ tasks[k].ctxSes = NoSession
                          /\ tasks[k].scope = "open"}

(* A thread inside a poll is in user code once the scope is open and until *)
(* it is closed.                                                           *)
AtRest(t) == \A n \in DOMAIN frames :
                IsTop(t, n) /\ frames[n].task # NoTask =>
                  tasks[frames[n].task].scope = "open"

(* The environment.  A thread runs user code when it is not inside the     *)
(* runtime.  Under Serial one thread runs at a time: another thread may    *)
(* start work only by polling a future that carries a context, and whoever *)
(* started last runs until it is done (block_on, a current-thread          *)
(* executor, or a migrating executor whose caller waits for it); and a     *)
(* test's outermost future is driven to its end before the test goes on.   *)
MayRun(t) ==
  /\ ~exited
  /\ io[t].ph = "idle"
  /\ Serial => /\ \A u \in Thread \ {t} : io[u].ph = "idle" /\ AtRest(u)
               /\ AtBase(t) \/ Len(frames) \in Mine(t)

OwnsTest(t) == t = Main /\ frames = <<>> /\ Detached = {}

InUserCode(t) == MayRun(t) /\ ~unwinding[t] /\ AtRest(t)

Calls(t) == InUserCode(t) /\ (Serial /\ AtBase(t) => OwnsTest(t))
-----------------------------------------------------------------------------
(* Collector operations, each one critical section                         *)

(* Mutant: a handle to an ended session still reaches its state.           *)
LiveHandle(s) == s # NoSession /\ sess[s].st # "unused"

(* The collector still holds a State (finish takes it out).                *)
Live(s) == s # NoSession /\ sess[s].st = "live"

(* Collector s of S after its lock is released.                            *)
Updated(S, s, clock, current, failed) ==
  [S EXCEPT ![s] = [st |-> S[s].st, clock |-> clock, current |-> current,
                    failed |-> failed]]

(* Thread t goes on to persist collector s after operation i completed (0: *)
(* after an operation began).                                              *)
Persisting(t, s, i) ==
  IF EnvMode
  THEN [io EXCEPT ![t] = [ph |-> "snap", ses |-> s, op |-> i, snap |-> Blank]]
  ELSE io

(* report_error: mark_error on the thread's own collector, and the marker. *)
MarkError(t, S) == IF slot[t] \in Thread /\ S[slot[t]].st = "live"
                   THEN [S EXCEPT ![slot[t]].failed = TRUE]
                   ELSE S

(* Mutant: an unchecked addition.                                          *)
TickedUnchecked(c, n) == c + n

(* n successive ticks, stopping at the first that overflows.               *)
Ticked(c, n)  == IF c + n <= MaxClock THEN c + n ELSE MaxClock
CanTick(c, n) == c + n <= MaxClock

(* Mutants: release to the scenario, and no release at all.                *)
ReleasedToRoot(c, i) == IF c = i THEN 0 ELSE c
NotReleased(c, i)    == c

(* release_operation: only the current operation hands over to its parent. *)
Released(c, i) == IF c = i THEN ops[i].parent ELSE c

Open(s) == {i \in DOMAIN ops : ops[i].ses = s /\ ops[i].end = "open"}

(* Mutants: only the newest operation; open operations left out; open      *)
(* operations shown as completed.                                          *)
SnapshotNewest(s) ==
  [i \in OpId |-> IF i \in DOMAIN ops /\ ops[i].ses = s /\ i = Len(ops)
                  THEN IF ops[i].end = "open" THEN "incomplete" ELSE ops[i].end
                  ELSE "absent"]
SnapshotClosedOnly(s) ==
  [i \in OpId |-> IF i \in DOMAIN ops /\ ops[i].ses = s /\ ops[i].end # "open"
                  THEN ops[i].end ELSE "absent"]
SnapshotOptimistic(s) ==
  [i \in OpId |-> IF i \in DOMAIN ops /\ ops[i].ses = s
                  THEN IF ops[i].end = "open" THEN "unit" ELSE ops[i].end
                  ELSE "absent"]

(* What a snapshot of collector s shows: every operation so far, the open  *)
(* ones closed on a copy with the incomplete_capture fault                 *)
(* (close_outstanding, build).                                             *)
Snapshot(s) ==
  [i \in OpId |-> IF i \in DOMAIN ops /\ ops[i].ses = s
                  THEN IF ops[i].end = "open" THEN "incomplete" ELSE ops[i].end
                  ELSE "absent"]

(* activate_env and current_collector: the collector begin_active uses.    *)
Activated(t) ==
  IF slot[t] = NoSession /\ EnvMode /\ sess[t].st = "unused" THEN t ELSE slot[t]

AfterActivation(t) ==
  IF Activated(t) = slot[t] THEN sess ELSE [sess EXCEPT ![t].st = "live"]

BeginRefused(t) ==
  LET s == Activated(t)  S == AfterActivation(t) IN
    /\ s # NoSession /\ S[s].st = "live"
    /\ S[s].failed \/ ~CanTick(S[s].clock, 1)

BeginRecords(t) ==
  LET s == Activated(t)  S == AfterActivation(t) IN
    /\ s # NoSession /\ S[s].st = "live"
    /\ ~S[s].failed /\ CanTick(S[s].clock, 1)

(* begin_active on thread t; the scope it returns holds ScopeOp(t).  The   *)
(* recorded parent is the collector's current operation.                   *)
ScopeOp(t) == IF BeginRecords(t) THEN Len(ops) + 1 ELSE 0

BeginActive(t, caller) ==
  LET s == Activated(t)  S == AfterActivation(t) IN
    /\ slot' = [slot EXCEPT ![t] = s]
    /\ \/ /\ BeginRecords(t)
          /\ ops' = Append(ops, [ses |-> s, parent |-> S[s].current,
                                 caller |-> caller, end |-> "open",
                                 obs |-> <<>>])
          /\ sess' = Updated(S, s, S[s].clock + 1, Len(ops) + 1, S[s].failed)
          /\ io' = Persisting(t, s, 0)
          /\ UNCHANGED marker
       \/ /\ BeginRefused(t)
          /\ sess' = [S EXCEPT ![s].failed = TRUE]
          /\ marker' = TRUE
          /\ UNCHANGED <<ops, io>>
       \/ /\ ~BeginRecords(t) /\ ~BeginRefused(t)
          /\ sess' = S
          /\ UNCHANGED <<ops, io, marker>>

(* OperationScope::complete for the scope holding operation i, reported by *)
(* thread t.  A completion that cannot get its timestamps drops the scope  *)
(* unclosed, which fails the session.                                      *)
Needs(kind) == IF kind = "unit" THEN 1 ELSE 2

CompleteScope(t, i, kind) ==
  \/ /\ i = 0
     /\ UNCHANGED <<sess, ops, io, marker>>
  \/ /\ i # 0 /\ ~Live(ops[i].ses)
     /\ sess' = MarkError(t, sess)
     /\ marker' = TRUE
     /\ UNCHANGED <<ops, io>>
  \/ LET s == ops[i].ses  c == sess[s] IN
     /\ i # 0 /\ Live(s) /\ CanTick(c.clock, Needs(kind))
     /\ ops' = [ops EXCEPT ![i].end = kind]
     /\ sess' = Updated(sess, s, c.clock + Needs(kind),
                        Released(c.current, i), c.failed)
     /\ io' = Persisting(t, s, i)
     /\ UNCHANGED marker
  \/ LET s == ops[i].ses  c == sess[s] IN
     /\ i # 0 /\ Live(s) /\ ~CanTick(c.clock, Needs(kind))
     /\ sess' = MarkError(t, Updated(sess, s, Ticked(c.clock, Needs(kind)),
                                     Released(c.current, i), TRUE))
     /\ marker' = TRUE
     /\ UNCHANGED <<ops, io>>

(* Drop of an async scope that was never completed: a fault while the      *)
(* thread unwinds, otherwise abandonment.  Memory only: no persistence and *)
(* no diagnostic.                                                          *)
DropScope(t, i) ==
  LET s == ops[i].ses
      c == sess[s]
      kind == IF unwinding[t] THEN "fault" ELSE "abandoned"
      drops == i # 0 /\ Live(ops[i].ses) /\ ops[i].end = "open"
  IN
    \/ ~drops /\ UNCHANGED <<sess, ops>>
    \/ /\ drops
       /\ CanTick(c.clock, 2)
       /\ ops' = [ops EXCEPT ![i].end = kind]
       /\ sess' = Updated(sess, s, c.clock + 2, Released(c.current, i), c.failed)
    \/ /\ drops
       /\ ~CanTick(c.clock, 2)
       /\ sess' = Updated(sess, s, Ticked(c.clock, 2), Released(c.current, i), TRUE)
       /\ UNCHANGED ops
-----------------------------------------------------------------------------
Init ==
  /\ sess = [t \in Thread |-> [st |-> "unused", clock |-> 0, current |-> 0,
                               failed |-> FALSE]]
  /\ slot = [t \in Thread |-> NoSession]
  /\ ops = <<>>
  /\ frames = <<>>
  /\ tasks = [k \in Task |-> [st |-> "none", scope |-> "none",
                              ctxSes |-> NoSession, ctxOp |-> 0,
                              op |-> 0, caller |-> 0]]
  /\ io = [t \in Thread |-> Idle]
  /\ unwinding = [t \in Thread |-> FALSE]
  /\ sidecar = Blank
  /\ marker = FALSE
  /\ exited = FALSE
  /\ acked = {}

(* A synchronous annotated function is called.                             *)
BeginOperation(t) ==
  /\ Calls(t)
  /\ Len(ops) < MaxOps /\ Len(frames) < MaxDepth
  /\ frames' = Pushed([thread |-> t, task |-> NoTask, op |-> ScopeOp(t),
                       prevSes |-> NoSession, prevOp |-> 0])
  /\ BeginActive(t, Caller(t))
  /\ UNCHANGED <<tasks, unwinding, sidecar, exited, acked>>

(* Its body returns, or the generated catch_unwind sees it panic.          *)
CompleteOperation(t, n, kind) ==
  /\ MayRun(t)
  /\ IsTop(t, n) /\ frames[n].task = NoTask
  /\ unwinding[t] <=> kind = "fault"
  /\ frames' = Popped(n)
  /\ CompleteScope(t, frames[n].op, kind)
  /\ UNCHANGED <<slot, tasks, unwinding, sidecar, exited, acked>>

(* An annotated async function is called: capture_async_context.           *)
ConstructFuture(t, k) ==
  /\ Calls(t)
  /\ tasks[k].st = "none"
  /\ tasks' = [tasks EXCEPT ![k] =
       [st |-> "idle", scope |-> "none", ctxSes |-> slot[t],
        ctxOp |-> IF Live(slot[t]) THEN sess[slot[t]].current ELSE 0,
        op |-> 0, caller |-> Caller(t)]]
  /\ UNCHANGED <<sess, slot, ops, frames, io, unwinding, sidecar, marker,
                 exited, acked>>

(* Mutant: the pointer of the thread's own collector is swapped instead.   *)
SlotCollector(t, k) == slot[t]

(* The collector whose current operation a poll of k swaps in and out.     *)
ContextCollector(t, k) == tasks[k].ctxSes

(* InstrumentedFuture::poll up to the inner poll: a future with a context  *)
(* swaps the thread's slot and the collector's current operation.          *)
InstallContext(t, k) ==
  LET c == ContextCollector(t, k) IN
    /\ InUserCode(t)
    /\ tasks[k].st = "idle" /\ Len(frames) < MaxDepth
    /\ Serial /\ c = NoSession => /\ t = Main /\ frames = <<>>
                                  /\ Detached \subseteq {k}
    /\ frames' = Pushed([thread |-> t, task |-> k, op |-> 0,
                         prevSes |-> slot[t],
                         prevOp |-> IF Live(c) THEN sess[c].current ELSE 0])
    /\ tasks' = [tasks EXCEPT ![k].st = "polled"]
    /\ slot' = IF c = NoSession THEN slot ELSE [slot EXCEPT ![t] = c]
    /\ sess' = IF Live(c) THEN [sess EXCEPT ![c].current = tasks[k].ctxOp]
               ELSE sess
    /\ UNCHANGED <<ops, io, unwinding, sidecar, marker, exited, acked>>

(* The first poll enters the async body: begin_async_operation.            *)
BeginAsyncOperation(t, n) ==
  LET k == frames[n].task IN
    /\ MayRun(t) /\ ~unwinding[t]
    /\ IsTop(t, n) /\ k # NoTask /\ tasks[k].scope = "none"
    /\ Len(ops) < MaxOps
    /\ tasks' = [tasks EXCEPT ![k].scope = "open", ![k].op = ScopeOp(t)]
    /\ BeginActive(t, tasks[k].caller)
    /\ UNCHANGED <<frames, unwinding, sidecar, exited, acked>>

(* The async body resolves.                                                *)
CompleteAsyncOperation(t, n, kind) ==
  LET k == frames[n].task IN
    /\ MayRun(t) /\ ~unwinding[t]
    /\ IsTop(t, n) /\ k # NoTask /\ tasks[k].scope = "open"
    /\ tasks' = [tasks EXCEPT ![k].scope = "closed"]
    /\ CompleteScope(t, tasks[k].op, kind)
    /\ UNCHANGED <<slot, frames, unwinding, sidecar, exited, acked>>

(* A panic inside a poll drops the async body's scope.                     *)
UnwindFuture(t, n) ==
  LET k == frames[n].task IN
    /\ MayRun(t) /\ unwinding[t]
    /\ IsTop(t, n) /\ k # NoTask /\ tasks[k].scope = "open"
    /\ tasks' = [tasks EXCEPT ![k].scope = "closed"]
    /\ DropScope(t, tasks[k].op)
    /\ UNCHANGED <<slot, frames, io, unwinding, sidecar, marker, exited, acked>>

(* The poll returns, pending or ready, or unwinds: InstalledContext::drop. *)
RestoreContext(t, n) ==
  LET k == frames[n].task  c == ContextCollector(t, k) IN
    /\ MayRun(t)
    /\ IsTop(t, n) /\ k # NoTask
    /\ tasks[k].scope = "closed" \/ (tasks[k].scope = "open" /\ ~unwinding[t])
    /\ frames' = Popped(n)
    /\ tasks' = [tasks EXCEPT
         ![k].st = IF tasks[k].scope = "closed" THEN "gone" ELSE "idle",
         ![k].ctxOp = IF Live(c) THEN sess[c].current ELSE 0]
    /\ slot' = IF c = NoSession THEN slot
               ELSE [slot EXCEPT ![t] = frames[n].prevSes]
    /\ sess' = IF Live(c) THEN [sess EXCEPT ![c].current = frames[n].prevOp]
               ELSE sess
    /\ UNCHANGED <<ops, io, unwinding, sidecar, marker, exited, acked>>

(* A future that is not being polled is dropped, resolved or not.          *)
DropFuture(t, k) ==
  /\ MayRun(t) /\ AtRest(t)
  /\ tasks[k].st = "idle"
  /\ Serial /\ k \in Detached => t = Main /\ frames = <<>>
  /\ tasks' = [tasks EXCEPT ![k].st = "gone", ![k].scope = "closed"]
  /\ DropScope(t, tasks[k].op)
  /\ UNCHANGED <<slot, frames, io, unwinding, sidecar, marker, exited, acked>>

(* specgate observation: appended to the collector's current operation.    *)
RecordObservation(t) ==
  LET s == slot[t] IN
    /\ Calls(t)
    /\ s # NoSession
    /\ UNCHANGED <<slot, frames, tasks, io, unwinding, sidecar, exited, acked>>
    /\ \/ /\ ~Live(s)
          /\ marker' = TRUE
          /\ UNCHANGED <<sess, ops>>
       \/ LET i == sess[s].current IN
          /\ Live(s) /\ i # 0 /\ CanTick(sess[s].clock, 1)
          /\ \A j \in DOMAIN ops : Len(ops[j].obs) < MaxObs
          /\ ops' = [ops EXCEPT ![i].obs = Append(@, Caller(t))]
          /\ sess' = [sess EXCEPT ![s].clock = @ + 1]
          /\ UNCHANGED marker
       \/ /\ Live(s) /\ sess[s].current # 0 /\ ~CanTick(sess[s].clock, 1)
          /\ sess' = [sess EXCEPT ![s].failed = TRUE]
          /\ marker' = TRUE
          /\ UNCHANGED ops

Panic(t) ==
  /\ InUserCode(t) /\ ~AtBase(t)
  /\ unwinding' = [unwinding EXCEPT ![t] = TRUE]
  /\ UNCHANGED <<sess, slot, ops, frames, tasks, io, sidecar, marker, exited,
                 acked>>

CatchPanic(t) ==
  /\ MayRun(t) /\ unwinding[t] /\ AtRest(t)
  /\ unwinding' = [unwinding EXCEPT ![t] = FALSE]
  /\ UNCHANGED <<sess, slot, ops, frames, tasks, io, sidecar, marker, exited,
                 acked>>
-----------------------------------------------------------------------------
(* Mutant: outstanding operations are closed in the live state, not in the *)
(* copy.                                                                   *)
TakeSnapshotInPlace(t) ==
  LET s == io[t].ses IN
    /\ ~exited /\ io[t].ph = "snap"
    /\ io' = [io EXCEPT ![t] = [ph |-> "write", ses |-> s, op |-> io[t].op,
                                snap |-> Snapshot(s)]]
    /\ ops' = [i \in DOMAIN ops |-> IF i \in Open(s)
                                    THEN [ops[i] EXCEPT !.end = "fault"]
                                    ELSE ops[i]]
    /\ UNCHANGED <<sess, slot, frames, tasks, unwinding, sidecar, marker,
                   exited, acked>>

(* persist_collector_capture: the snapshot is built under the lock, ...    *)
TakeSnapshot(t) ==
  LET s == io[t].ses
      fits == CanTick(sess[s].clock, 2 * Cardinality(Open(s)) + 1)
  IN
    /\ ~exited /\ io[t].ph = "snap"
    /\ UNCHANGED <<slot, ops, frames, tasks, unwinding, sidecar, exited, acked>>
    /\ \/ /\ Live(s) /\ ~sess[s].failed /\ fits
          /\ io' = [io EXCEPT ![t] = [ph |-> "write", ses |-> s,
                                      op |-> io[t].op, snap |-> Snapshot(s)]]
          /\ UNCHANGED <<sess, marker>>
       \/ /\ ~(Live(s) /\ ~sess[s].failed /\ fits)
          /\ io' = [io EXCEPT ![t] = Idle]
          /\ sess' = MarkError(t, sess)
          /\ marker' = TRUE

(* ... and replaces the file after the lock is released.                   *)
PersistSnapshot(t) ==
  /\ ~exited /\ io[t].ph = "write"
  /\ sidecar' = io[t].snap
  /\ acked' = IF io[t].op = 0 THEN acked ELSE acked \cup {io[t].op}
  /\ io' = [io EXCEPT ![t] = Idle]
  /\ UNCHANGED <<sess, slot, ops, frames, tasks, unwinding, marker, exited>>

PersistFails(t) ==
  LET s == io[t].ses IN
    /\ ~exited /\ io[t].ph = "write" /\ MayFail
    /\ sess' = MarkError(t, IF Live(s) THEN [sess EXCEPT ![s].failed = TRUE]
                            ELSE sess)
    /\ marker' = TRUE
    /\ io' = [io EXCEPT ![t] = Idle]
    /\ UNCHANGED <<slot, ops, frames, tasks, unwinding, sidecar, exited, acked>>
-----------------------------------------------------------------------------
(* Manually started sessions (no sidecar), as the replay runner uses them. *)
Start(t) ==
  /\ ~EnvMode /\ Calls(t)
  /\ slot[t] = NoSession /\ sess[t].st = "unused"
  /\ sess' = [sess EXCEPT ![t].st = "live"]
  /\ slot' = [slot EXCEPT ![t] = t]
  /\ UNCHANGED <<ops, frames, tasks, io, unwinding, sidecar, marker, exited,
                 acked>>

(* Mutant: finish does not look for outstanding operations.                *)
FinishUnchecked(t) ==
  LET s == slot[t] IN
    /\ ~EnvMode /\ InUserCode(t) /\ Live(s)
    /\ sess' = [sess EXCEPT ![s].st = IF sess[s].failed THEN "rejected"
                                      ELSE "finished"]
    /\ slot' = [slot EXCEPT ![t] = NoSession]
    /\ UNCHANGED <<ops, frames, tasks, io, unwinding, sidecar, marker, exited,
                   acked>>

(* finish: the state is taken out of the collector, so every scope and     *)
(* future still holding the handle finds it gone.  It succeeds only when   *)
(* nothing is outstanding, nothing failed and the run's end time fits.     *)
Finish(t) ==
  LET s == slot[t]
      ok == /\ Open(s) = {} /\ ~sess[s].failed
            /\ CanTick(sess[s].clock, 1)
  IN
    /\ ~EnvMode /\ InUserCode(t) /\ Live(s)
    /\ sess' = [sess EXCEPT ![s].st = IF ok THEN "finished" ELSE "rejected"]
    /\ slot' = [slot EXCEPT ![t] = NoSession]
    /\ UNCHANGED <<ops, frames, tasks, io, unwinding, sidecar, marker, exited,
                   acked>>

(* The test returns, and the process exits with it whatever other threads  *)
(* are doing.  A test that fails or a process that is killed just stops:   *)
(* the CLI discards it by its exit status.                                 *)
Exit ==
  /\ InUserCode(Main) /\ AtBase(Main)
  /\ Serial => frames = <<>>
  /\ exited' = TRUE
  /\ UNCHANGED <<sess, slot, ops, frames, tasks, io, unwinding, sidecar,
                 marker, acked>>

Next ==
  \/ \E t \in Thread :
       \/ BeginOperation(t)
       \/ \E k \in Task : ConstructFuture(t, k) \/ InstallContext(t, k)
                          \/ DropFuture(t, k)
       \/ \E n \in DOMAIN frames :
            \/ \E kind \in Returns \cup {"fault"} : CompleteOperation(t, n, kind)
            \/ BeginAsyncOperation(t, n)
            \/ \E kind \in Returns : CompleteAsyncOperation(t, n, kind)
            \/ UnwindFuture(t, n) \/ RestoreContext(t, n)
       \/ RecordObservation(t) \/ Panic(t) \/ CatchPanic(t)
       \/ TakeSnapshot(t) \/ PersistSnapshot(t) \/ PersistFails(t)
       \/ Start(t) \/ Finish(t)
  \/ Exit

Spec == Init /\ [][Next]_vars
-----------------------------------------------------------------------------
(* What `specgate capture' does with the finished process                  *)
(* (capture/sidecar.rs, Issued::settle): the scenario is recorded when the *)
(* test passed, nothing wrote the marker, and the sidecar shows operations *)
(* none of which is incomplete.                                            *)
Accepted ==
  /\ exited /\ ~marker /\ sidecar # Blank
  /\ \A i \in OpId : sidecar[i] # "incomplete"

(* Every recorded parent is the operation whose body made the call (for a  *)
(* future: constructed it), unless the run already reported a failure:     *)
(* the current-operation pointer, swapped around polls and released by     *)
(* completions, panics and abandonment, never goes astray                  *)
(* (capture.rs begin_active, async_context.rs).                            *)
ParentageFaithful ==
  marker \/ \A i \in DOMAIN ops : ops[i].parent = ops[i].caller

(* Every observation is attached to the operation whose body emitted it    *)
(* (capture.rs record_observation).                                        *)
ObservationsFaithful ==
  marker \/ \A i \in DOMAIN ops : \A n \in DOMAIN ops[i].obs : ops[i].obs[n] = i

(* A completion whose persistence was reported successful stays in the     *)
(* sidecar: a later snapshot never loses it (persist_collector_capture).   *)
AckedIsDurable == \A i \in acked : sidecar[i] = ops[i].end

(* Nothing is lost silently: a capture the CLI accepts contains every      *)
(* operation the process began, each with the outcome it really had -      *)
(* whatever was abandoned, killed, panicked, or failed to persist.         *)
AcceptedIsComplete ==
  Accepted => \A i \in DOMAIN ops : sidecar[i] = ops[i].end

(* The recorded operations form, per collector, a forest whose parents     *)
(* precede their children, however threads interleave: the encoder and the *)
(* filter resolve parents in one forward pass.                             *)
SessionForest ==
  \A i \in DOMAIN ops :
    ops[i].parent # 0 => /\ ops[i].parent < i
                         /\ ops[ops[i].parent].ses = ops[i].ses

(* The sidecar never claims an outcome an operation did not have.          *)
SnapshotSound ==
  \A i \in OpId : sidecar[i] \in Closed =>
                    i \in DOMAIN ops /\ sidecar[i] = ops[i].end

(* An operation has one outcome: once closed it is never reopened, closed  *)
(* again or removed (complete asserts it, Drop checks it).                 *)
ClosedOnce ==
  [][\A i \in DOMAIN ops : ops[i].end # "open" =>
       i \in DOMAIN ops' /\ ops'[i].end = ops[i].end]_vars

(* Nothing is recorded into a session after finish ended it, and its state *)
(* never changes, although scopes and futures still hold its handle        *)
(* (with_collector_mut finds the State gone).                              *)
FinishedIsFinal ==
  [][\A s \in Thread : sess[s].st \in {"finished", "rejected"} =>
       /\ sess'[s] = sess[s]
       /\ \A i \in DOMAIN ops' :
            ops'[i].ses = s => i \in DOMAIN ops /\ ops'[i] = ops[i]]_vars

(* A capture that finish returns has no open operation and no failure, on  *)
(* whichever threads its operations ran.                                   *)
FinishedIsComplete ==
  \A s \in Thread : sess[s].st = "finished" => Open(s) = {} /\ ~sess[s].failed

(* A future that carries a context is recorded under the operation that    *)
(* constructed it, on whichever threads futures are polled.                *)
(* docs/decisions/async-capture-context.md: "spawned tasks use the         *)
(* identical mechanism" and "Interleaved writes into the collector are     *)
(* safe because the collector is behind a mutex and parentage no longer    *)
(* depends on write order".                                                *)
ContextParentage ==
  marker \/ \A k \in Task :
    tasks[k].ctxSes # NoSession /\ tasks[k].op # 0
      => ops[tasks[k].op].parent = tasks[k].caller

(* With a single session, the sidecar keeps every completion reported      *)
(* persisted.  docs/decisions/native-capture-finalization.md:              *)
(* "Environment-driven capture persists the complete capture-so-far after  *)
(* every successfully completed top-level operation".                      *)
CumulativeSidecar ==
  (\A t \in Thread \ {Main} : sess[t].st = "unused") =>
    \A i \in acked : sidecar[i] = ops[i].end
=============================================================================
