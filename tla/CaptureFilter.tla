---------------------------- MODULE CaptureFilter ----------------------------
(***************************************************************************)
(* The share of one component in what was captured (specgate-cli           *)
(* capture/filter.rs).                                                     *)
(*                                                                         *)
(* A capture is [name, run, scenario, status, start, end, operations]:     *)
(* the identifiers of its run and scenario spans, the scenario's status    *)
(* and interval.  An operation is [id, parent, component, name, start,     *)
(* end, status, inputs, observations, completion].  A selection of         *)
(* operations is the set of their positions.                               *)
(***************************************************************************)
EXTENDS Integers, Sequences

NoValue == <<"none">>   \* of a completion without a value

(* Mutant: the selected top-level operations and their direct callees.     *)
RetainedOneLevel(capture, component) ==
  LET ops == capture.operations
      top == {ops[i].id : i \in {j \in DOMAIN ops : /\ ops[j].parent = capture.scenario
                                                    /\ ops[j].component = component}}
  IN top \cup {ops[i].id : i \in {j \in DOMAIN ops : ops[j].parent \in top}}

(* The second loop of filter: in one pass over the recording, every        *)
(* operation whose parent is already retained.                             *)
Passed(ops, top) ==
  LET kept[n \in 0..Len(ops)] ==
        IF n = 0 THEN top
        ELSE IF ops[n].parent \in kept[n - 1] THEN kept[n - 1] \cup {ops[n].id}
        ELSE kept[n - 1]
  IN kept

(* The identifiers retained: the component's top-level operations first.   *)
Retained(capture, component) ==
  LET ops == capture.operations
      top == {ops[i].id : i \in {j \in DOMAIN ops : /\ ops[j].parent = capture.scenario
                                                    /\ ops[j].component = component}}
  IN IF top = {} THEN {} ELSE Passed(ops, top)[Len(ops)]

KeptAt(capture, component) ==
  {i \in DOMAIN capture.operations :
     capture.operations[i].id \in Retained(capture, component)}

(* The captures with the operations at the given positions of each; those  *)
(* left with none are dropped.                                             *)
Trim(captures, kept) ==
  LET Share(k) ==
        LET at == SelectSeq([i \in DOMAIN captures[k].operations |-> i],
                            LAMBDA i : i \in kept[k])
        IN [captures[k] EXCEPT !.operations = [n \in DOMAIN at |-> @[at[n]]]]
  IN SelectSeq([k \in DOMAIN captures |-> Share(k)], LAMBDA capture : capture.operations # <<>>)

Filter(captures, component) ==
  Trim(captures, [k \in DOMAIN captures |-> KeptAt(captures[k], component)])
-----------------------------------------------------------------------------
(* What a share should be, without a pass over the recording: the callers  *)
(* of an operation are the smallest set of positions that holds it and the *)
(* parents of its members; the outermost is the one the scenario called.   *)
ParentsOf(ops, i) == {j \in DOMAIN ops : ops[j].id = ops[i].parent}
ClosedUp(ops) == {S \in SUBSET DOMAIN ops : \A i \in S : ParentsOf(ops, i) \subseteq S}
Callers(ops, i) == {j \in DOMAIN ops : \A S \in ClosedUp(ops) : i \in S => j \in S}
Outermost(capture, i) ==
  {j \in Callers(capture.operations, i) : capture.operations[j].parent = capture.scenario}

OwnedAt(capture, component) ==
  {i \in DOMAIN capture.operations :
     \E j \in Outermost(capture, i) : capture.operations[j].component = component}
Shares(captures, component) ==
  Trim(captures, [k \in DOMAIN captures |-> OwnedAt(captures[k], component)])
=============================================================================
