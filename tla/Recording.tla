------------------------------ MODULE Recording ------------------------------
(***************************************************************************)
(* The recording of a package: its tests run one after the other and each  *)
(* is captured in a session of its own (specgate-runtime capture.rs and    *)
(* capture/snapshot.rs, specgate-cli capture/rust.rs).                     *)
(*                                                                         *)
(* Operations of one test may overlap and outlive their callers, as        *)
(* instrumented futures do; a parent is any operation begun before.        *)
(***************************************************************************)
EXTENDS Integers, FiniteSets, Sequences, SequencesExt, CaptureFilter

CONSTANTS
  Tests,        \* the tests that may run: [library, binary, test]
  Identities,   \* [run, scenario, supplied]: the span identifiers configured
  Schemas,      \* component -> its normalized schema
  Outcomes,     \* <<component, operation>> -> completions its body can have
  MaxOps,       \* bound on the operations of a recording
  MaxLater,     \* bound on the operations of each test after the first
  MaxObserved   \* bound on the observations of a recording

(* validate_config: the identifiers configured are different.              *)
ASSUME IdentitiesAssumption ==
  \A d \in Identities :
    /\ d.run \in Nat /\ d.scenario \in Nat
    /\ d.supplied \in Seq(Nat)
    /\ \A i \in DOMAIN d.supplied :
         /\ d.supplied[i] \notin {d.run, d.scenario}
         /\ \A j \in DOMAIN d.supplied : d.supplied[i] = d.supplied[j] => i = j

VARIABLES
  ids,          \* the identifiers every session is started with
  pending,      \* tests that have not run, in order
  live,         \* the session of the running test
  captures      \* captures of the tests that have run
recording == <<ids, pending, live, captures>>

Unended == -1           \* the end of an operation that runs

(* Mutant: the binary a test is in is forgotten.                           *)
ScenarioNameBare(t) == t.test

(* enumerate_tests: a path within the library, or the binary's name before *)
(* the path within it.  Names are sequences of path segments.              *)
ScenarioName(t) == IF t.library THEN t.test ELSE <<t.binary>> \o t.test

(* start_with: the run starts at 0, the scenario at 1, the next tick is 2. *)
Started == [clock |-> 2, order |-> 0, operations |-> <<>>]

(* Mutant: generated identifiers skip nothing.                             *)
NextSpanUnreserved(operations) ==
  LET n == Len(operations) + 1
  IN IF n <= Len(ids.supplied) THEN ids.supplied[n] ELSE n

(* next_span: the supplied identifiers first, then the first one upwards   *)
(* that is neither the run's, the scenario's nor an operation's.           *)
NextSpan(operations) ==
  LET n == Len(operations) + 1
      reserved == {ids.run, ids.scenario} \cup {operations[i].id : i \in DOMAIN operations}
  IN IF n <= Len(ids.supplied) THEN ids.supplied[n]
     ELSE CHOOSE id \in n..(n + Cardinality(reserved)) :
            /\ id \notin reserved
            /\ \A smaller \in n..(id - 1) : smaller \in reserved

Tally(Count(_)) ==
  LET Add(n, capture) == n + Count(capture.operations)
  IN Count(live.operations) + FoldLeft(Add, 0, captures)
Recorded == Tally(Len)
Observations == Tally(LAMBDA ops : Cardinality({i \in DOMAIN ops : ops[i].observations # <<>>}))

Open == {i \in DOMAIN live.operations : live.operations[i].end = Unended}

Begin(component, name, parent) ==
  LET inputs == SetToSeq(DOMAIN Schemas[component].operations[name].inputs) IN
  /\ pending # <<>> /\ Recorded < MaxOps
  /\ pending = Tests \/ Len(live.operations) < MaxLater
  /\ live' = [clock |-> live.clock + 1, order |-> live.order + 1,
              operations |-> Append(live.operations,
                [id |-> NextSpan(live.operations), parent |-> parent,
                 component |-> component, name |-> name,
                 start |-> live.clock, end |-> Unended, status |-> "unset",
                 inputs |-> [i \in DOMAIN inputs |->
                              <<inputs[i], <<"Integer", Len(live.operations)>>>>],
                 observations |-> <<>>,
                 completion |-> [kind |-> "unit", order |-> 0, name |-> "",
                                 value |-> NoValue]])]
  /\ UNCHANGED <<ids, pending, captures>>

(* record_observation, of the operation begun last.                        *)
Observe(i, name, value) ==
  /\ i = Len(live.operations)
  /\ live.operations[i].observations = <<>> /\ Observations < MaxObserved
  /\ live' = [clock |-> live.clock + 1, order |-> live.order + 1,
              operations |-> [live.operations EXCEPT ![i].observations =
                Append(@, [order |-> live.order, name |-> name, value |-> value])]]
  /\ UNCHANGED <<ids, pending, captures>>

StatusOf(kind) ==
  CASE kind \in {"error", "fault"} -> "error"
    [] kind = "abandoned" -> "unset"
    [] OTHER -> "ok"

(* complete, and the drop of an unwound or abandoned scope: a timestamp    *)
(* for the completion, if there is one, and one for the end.               *)
Complete(i, outcome) ==
  LET unit == outcome.kind = "unit"
      end == IF unit THEN live.clock ELSE live.clock + 1
  IN
  /\ live' = [clock |-> end + 1,
              order |-> IF unit THEN live.order ELSE live.order + 1,
              operations |-> [live.operations EXCEPT
                ![i].end = end, ![i].status = StatusOf(outcome.kind),
                ![i].completion = [kind |-> outcome.kind, order |-> live.order,
                                   name |-> outcome.name, value |-> outcome.value]]]
  /\ UNCHANGED <<ids, pending, captures>>

(* snapshot::build.                                                        *)
Build(test, session) ==
  [name |-> ScenarioName(test), run |-> ids.run, scenario |-> ids.scenario,
   status |-> IF \E o \in ToSet(session.operations) : o.status = "error"
              THEN "error" ELSE "ok",
   start |-> 1, end |-> session.clock, operations |-> session.operations]

(* The test ends with every operation closed; one without any is skipped.  *)
EndTest ==
  /\ pending # <<>> /\ Open = {}
  /\ Len(live.operations) >= Len(ids.supplied)
  /\ captures' = IF live.operations = <<>> THEN captures
                 ELSE Append(captures, Build(Head(pending), live))
  /\ pending' = Tail(pending)
  /\ live' = Started
  /\ UNCHANGED ids
-----------------------------------------------------------------------------
RecordingInit ==
  /\ ids \in Identities
  /\ pending = Tests
  /\ live = Started
  /\ captures = <<>>

RecordingNext ==
  \/ \E what \in DOMAIN Outcomes :
       \E parent \in {ids.scenario} \cup {o.id : o \in ToSet(live.operations)} :
         Begin(what[1], what[2], parent)
  \/ \E i \in Open :
       LET o == live.operations[i] IN
       \/ \E n \in DOMAIN Schemas[o.component].operations[o.name].observations :
            Observe(i, n, <<"Integer", 0>>)
       \/ \E outcome \in Outcomes[<<o.component, o.name>>] : Complete(i, outcome)
  \/ EndTest

RecordingSpec == RecordingInit /\ [][RecordingNext]_recording
-----------------------------------------------------------------------------
(* A bundle holds its component's share of the recording: of every test,   *)
(* exactly the operations whose outermost caller is an operation of the    *)
(* component, however deep and in whatever order they ended.  filter finds *)
(* them in one pass over the recording.                                    *)
ShareComplete ==
  \A c \in DOMAIN Schemas : Filter(captures, c) = Shares(captures, c)
=============================================================================
