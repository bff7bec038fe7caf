------------------------------- MODULE SetupPlan -------------------------------
(***************************************************************************)
(* How a captured program folds its setups (specgate-runtime registry.rs   *)
(* and capture/setup.rs).  The runtime reads the declarations linked into  *)
(* the test binary and plans, on its own, the folding that discovery made  *)
(* from the same declarations.                                             *)
(***************************************************************************)
EXTENDS CtscRegistry, SetupStaging

(* TypeMeta::property_type.                                                *)
Projected(prog, op, type) ==
  SelectSeq(prog.types, LAMBDA t :
    t.component = op.component /\ t.property
      /\ (type = Type(t.native) \/ type = Of("&", <<Type(t.native)>>)))

(* TypeMeta::input_fields: what a parameter is recorded as.                *)
RECURSIVE InputsOk(_, _, _, _)
InputsOk(prog, op, field, visiting) ==
  LET found == Projected(prog, op, field.type) IN
  \/ found = <<>>
  \/ /\ Len(found) = 1 /\ found[1] \notin visiting
     /\ \A f \in ToSet(found[1].fields) : InputsOk(prog, op, f, visiting \cup {found[1]})
RECURSIVE InputFields(_, _, _)
InputFields(prog, op, field) ==
  LET found == Projected(prog, op, field.type) IN
  IF found = <<>> THEN <<field.name>>
  ELSE FlattenSeq([i \in DOMAIN found[1].fields |->
                     InputFields(prog, op, found[1].fields[i])])

RecordedNames(prog, op, fields) ==
  FlattenSeq([i \in DOMAIN fields |-> InputFields(prog, op, fields[i])])
-----------------------------------------------------------------------------
(* plan_declared_setups, one setup after the other: the parameters filled  *)
(* so far, whether a receiver is claimed, and whether nothing collided.    *)

Planned == [filled |-> {}, receiver |-> FALSE, ok |-> TRUE]

PlanSetup(op, plan, setup) ==
  LET candidates == {p.name : p \in {q \in ToSet(op.params) :
                       q.name \notin plan.filled /\ q.type = setup.returns}}
      fills == IF setup.fills # "" THEN {setup.fills} ELSE candidates
  IN [filled |-> plan.filled \cup fills,
      receiver |-> plan.receiver \/ fills = {},
      ok |-> /\ plan.ok
             /\ fills \subseteq Names(op.params) \ plan.filled
             /\ Cardinality(fills) <= 1
             /\ fills = {} => ~plan.receiver]

Plan(prog, op) ==
  FoldLeft(LAMBDA plan, s : PlanSetup(op, plan, s), Planned,
           SelectSeq(prog.ops, LAMBDA s :
             s.setup /\ s.component = op.component /\ s.name = op.name))

(* The inputs an operation is recorded with.                               *)
Unfilled(prog, op) ==
  SelectSeq(op.params, LAMBDA p : p.name \notin Plan(prog, op).filled)
RecordedInputs(prog, op) ==
  LET setups == SetToSortSeq(ProducersOf(prog, op), <)
  IN FlattenSeq([i \in DOMAIN setups |->
        RecordedNames(prog, prog.ops[setups[i]], prog.ops[setups[i]].params)])
     \o RecordedNames(prog, op, Unfilled(prog, op))

(* validate_declared_folding, for one operation and for the whole binary.  *)
OperationFolds(prog, op) ==
  /\ Plan(prog, op).ok
  /\ \A i \in ProducersOf(prog, op) : \A p \in ToSet(prog.ops[i].params) :
       InputsOk(prog, prog.ops[i], p, {})
  /\ \A p \in ToSet(Unfilled(prog, op)) : InputsOk(prog, op, p, {})
  /\ IsInjective(RecordedInputs(prog, op))
FoldingOk(prog) ==
  \A o \in ToSet(prog.ops) : ~o.setup => OperationFolds(prog, o)
=============================================================================
