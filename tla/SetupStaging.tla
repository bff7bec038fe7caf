----------------------------- MODULE SetupStaging -----------------------------
(***************************************************************************)
(* What operations are recorded with when setups construct their receivers *)
(* and arguments (specgate-runtime capture/setup.rs).  What a setup was    *)
(* called with is staged per thread until an operation adopts it; nothing  *)
(* ties it to the object that the setup constructed.                       *)
(***************************************************************************)
EXTENDS Integers, FiniteSets, Sequences

CONSTANTS
  Programs,       \* the programs, with the operations and setups they declare
  Threads, Values,
  MaxObjects, MaxCalls, MaxSessions,   \* bounds
  DeclaredFolds(_)   \* whether all setups of a program fold into its operations

VARIABLES
  program,        \* the one that is built and run
  env,            \* whether the environment requests a capture
  session,        \* of each thread, 0 when none is active on it
  sessions, closed, failed,     \* sessions started, finished, poisoned
  staged,         \* of each thread: what its setups were called with
  epoch,          \* of each thread: the captures finished on it
  objects,        \* what setups constructed
  marked,         \* whether a failure was reported to the capture command
  calls           \* the operations recorded
running == <<env, session, sessions, closed, failed, staged, epoch, objects, marked, calls>>

Nothing == [i \in {} |-> 0]

SetupInit ==
  /\ program \in Programs
  /\ env \in BOOLEAN
  /\ session = [t \in Threads |-> 0] /\ sessions = 0 /\ closed = {} /\ failed = {}
  /\ staged = [t \in Threads |-> Nothing] /\ epoch = [t \in Threads |-> 0]
  /\ objects = {} /\ marked = FALSE /\ calls = {}

(* The setups of an operation.                                             *)
ProducersOf(p, op) ==
  {i \in DOMAIN p.ops :
     LET s == p.ops[i] IN s.setup /\ s.component = op.component /\ s.name = op.name}

Requested(t) == session[t] # 0 \/ env

(* start: refused when some linked operation does not fold.                *)
Start(t) ==
  /\ session[t] = 0 /\ sessions < MaxSessions
  /\ DeclaredFolds(program)
  /\ session' = [session EXCEPT ![t] = sessions + 1] /\ sessions' = sessions + 1
  /\ UNCHANGED <<program, env, closed, failed, staged, epoch, objects, marked, calls>>

(* An async context makes another thread part of the session.              *)
Inherit(t, u) ==
  /\ session[t] = 0 /\ session[u] # 0
  /\ session' = [session EXCEPT ![t] = session[u]]
  /\ UNCHANGED <<program, env, sessions, closed, failed, staged, epoch, objects, marked, calls>>

(* mark_error reaches the session of the thread only while it is open.     *)
MarkError(s) ==
  /\ marked' = TRUE
  /\ failed' = failed \cup ({s} \ ({0} \cup closed))

(* The setup annotations of a function, stacked ones included; an async    *)
(* setup is declared and never recorded.                                   *)
Annotations(fn) ==
  {i \in DOMAIN program.ops :
     program.ops[i].setup /\ program.ops[i].fn = fn /\ ~program.ops[i].async}

(* Mutant: the latest call of a setup is the one that counts.              *)
ConflictNever(t, fn, v) == FALSE

(* record_values: a setup called again, with other inputs.                 *)
Conflict(t, fn, v) ==
  \E i \in Annotations(fn) \cap DOMAIN staged[t] :
    staged[t][i] # v /\ program.ops[i].params # <<>>

Construct(t, fn, v) ==
  /\ Cardinality(objects) < MaxObjects
  /\ objects' = objects \cup
       {[fn |-> fn, value |-> v, thread |-> t, epoch |-> epoch[t], known |-> Requested(t)]}
  /\ IF ~Requested(t) THEN UNCHANGED <<staged, marked, failed>>
     ELSE IF Conflict(t, fn, v) THEN MarkError(session[t]) /\ UNCHANGED staged
     ELSE /\ staged' = [staged EXCEPT ![t] =
               [i \in DOMAIN @ \cup Annotations(fn) |-> IF i \in Annotations(fn) THEN v ELSE @[i]]]
          /\ UNCHANGED <<marked, failed>>
  /\ UNCHANGED <<program, env, session, sessions, closed, epoch, calls>>

(* begin_active: the environment starts a session, a poisoned one refuses, *)
(* and every setup of the operation must have been staged on this thread.  *)
Call(t, op, given) ==
  LET o == program.ops[op]
      needed == ProducersOf(program, o)
      opens == session[t] = 0
      s == IF opens THEN sessions + 1 ELSE session[t]
  IN /\ ~o.setup /\ Requested(t)
     /\ \A i \in needed : given[i].fn = program.ops[i].fn
     /\ Cardinality(calls) < MaxCalls /\ (opens => sessions < MaxSessions)
     /\ IF opens /\ ~DeclaredFolds(program)
        THEN MarkError(0) /\ UNCHANGED <<session, sessions, calls>>
        ELSE /\ session' = [session EXCEPT ![t] = s]
             /\ sessions' = IF opens THEN s ELSE sessions
             /\ IF s \in closed THEN UNCHANGED <<marked, failed, calls>>
                ELSE IF s \in failed \/ ~(needed \subseteq DOMAIN staged[t])
                THEN MarkError(s) /\ UNCHANGED calls
                ELSE /\ calls' = calls \cup
                          {[op |-> op, thread |-> t, epoch |-> epoch[t], given |-> given,
                            inputs |-> [i \in needed |-> staged[t][i]]]}
                     /\ UNCHANGED <<marked, failed>>
     /\ UNCHANGED <<program, env, closed, staged, epoch, objects>>

(* finish clears what this thread staged.                                  *)
Finish(t) ==
  /\ session[t] # 0 /\ session[t] \notin closed
  /\ closed' = closed \cup {session[t]} /\ session' = [session EXCEPT ![t] = 0]
  /\ staged' = [staged EXCEPT ![t] = Nothing] /\ epoch' = [epoch EXCEPT ![t] = @ + 1]
  /\ UNCHANGED <<program, env, sessions, failed, objects, marked, calls>>

SetupFunctions == {program.ops[i].fn : i \in {i \in DOMAIN program.ops : program.ops[i].setup}}
Given(op) == [ProducersOf(program, program.ops[op]) -> objects]

SetupNext ==
  \/ \E t \in Threads : Start(t) \/ Finish(t)
  \/ \E t, u \in Threads : Inherit(t, u)
  \/ \E t \in Threads, fn \in SetupFunctions, v \in Values : Construct(t, fn, v)
  \/ \E t \in Threads, op \in DOMAIN program.ops : \E given \in Given(op) : Call(t, op, given)

SetupSpec == SetupInit /\ [][SetupNext]_<<program, running>>
-----------------------------------------------------------------------------
(* In a capture that reported no failure, an operation is recorded with    *)
(* the inputs that constructed the very objects it was called with, if     *)
(* they were constructed under capture on its thread since a capture was   *)
(* last finished there, although nothing ties an object to what is staged. *)
InputsOfReceiver ==
  ~marked => \A c \in calls : \A i \in DOMAIN c.given :
    LET x == c.given[i] IN
    x.known /\ x.thread = c.thread /\ x.epoch = c.epoch /\ program.ops[i].params # <<>> =>
      c.inputs[i] = x.value
=============================================================================
