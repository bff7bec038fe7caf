------------------------------ MODULE Discovery ------------------------------
(***************************************************************************)
(* What `specgate discover' makes of the declarations a program links in:  *)
(* setups are folded into the operations they construct for, the           *)
(* components whose types are used become dependencies, native type        *)
(* expressions become semantic ones qualified by their owner               *)
(* (specgate-discovery discovery/{mod,setup,types,registry,model}.rs and   *)
(* discovery/normalize/*.rs).                                              *)
(*                                                                         *)
(* A native type is <<name, arguments>>, with the names "&", "[]", "(,)"   *)
(* and "()" for references, slices, tuples and unit.  A semantic type is   *)
(* <<owner, name, arguments>>, where an owner "" means none is written.    *)
(* Module paths are resolved: a native name stands for the path it         *)
(* resolves to.                                                            *)
(***************************************************************************)
EXTENDS Naturals, SequencesExt, FiniteSetsExt

CONSTANT NameOrder      \* every name of the declarations, in ascending order

Rank(name) == CHOOSE i \in DOMAIN NameOrder : NameOrder[i] = name

(* What the declarations are made of: one program's linked metadata.       *)
Type(name) == <<name, <<>>>>
Of(name, arguments) == <<name, arguments>>
Unit == Type("()")
Param(name, type) == [name |-> name, type |-> type]
Operation(component, name, params, returns) ==
  [component |-> component, name |-> name, fn |-> name, setup |-> FALSE,
   async |-> FALSE, method |-> FALSE, public |-> TRUE, fills |-> "",
   params |-> params, returns |-> returns]
Setup(component, name, fn, fills, params, returns) ==
  [Operation(component, name, params, returns) EXCEPT
     !.fn = fn, !.setup = TRUE, !.fills = fills]
Struct(component, name, fields) ==
  [component |-> component, name |-> name, native |-> name, kind |-> "struct",
   property |-> FALSE, fields |-> fields, variants |-> <<>>]
Enum(component, name, variants) ==
  [Struct(component, name, <<>>) EXCEPT !.kind = "enum", !.variants = variants]
Variant(name, fields, tuple) == [name |-> name, fields |-> fields, tuple |-> tuple]
NoTuple == <<"no tuple">>

(* Registry::parse: what a linked program reports of itself.               *)
Linked(language, ops, types) == [language |-> language, ops |-> ops, types |-> types]

Declared(program, component) ==
  SelectSeq(program.ops, LAMBDA o : ~o.setup /\ o.component = component)
LocalTypes(program, component) ==
  SelectSeq(program.types, LAMBDA t : t.component = component)
SetupsFor(program, component, name) ==
  SelectSeq(program.ops, LAMBDA s : s.setup /\ s.component = component /\ s.name = name)

Sorted(declarations) ==
  SortSeq(declarations, LAMBDA a, b : Rank(a.name) < Rank(b.name))
Names(declarations) == {declarations[i].name : i \in DOMAIN declarations}
Distinct(declarations) == Cardinality(Names(declarations)) = Len(declarations)
-----------------------------------------------------------------------------
(* Property setups: a parameter of an opted-in type stands for its fields. *)

Referent(type) == IF type[1] = "&" THEN type[2][1] ELSE type

(* property_type: the opted-in types of the component a type may name.     *)
PropertyTypes(program, component, type) ==
  {i \in DOMAIN program.types :
     LET t == program.types[i] IN
     t.property /\ t.component = component /\ Type(t.native) = Referent(type)}

PropertyType(program, component, type) ==
  program.types[CHOOSE i \in PropertyTypes(program, component, type) : TRUE]

(* append_parameter: neither ambiguous nor reaching itself.                *)
RECURSIVE Expands(_, _, _, _)
Expands(program, component, type, visiting) ==
  LET found == PropertyTypes(program, component, type) IN
  \/ found = {}
  \/ /\ Cardinality(found) = 1 /\ found \cap visiting = {}
     /\ \A f \in ToSet(PropertyType(program, component, type).fields) :
          Expands(program, component, f.type, visiting \cup found)

RECURSIVE Leaves(_, _, _)
Leaves(program, component, param) ==
  IF PropertyTypes(program, component, param.type) = {} THEN <<param>>
  ELSE LET fields == PropertyType(program, component, param.type).fields
       IN FlattenSeq([i \in DOMAIN fields |-> Leaves(program, component, fields[i])])

ParametersOk(program, op) ==
  \A p \in ToSet(op.params) : Expands(program, op.component, p.type, {})
ParameterFields(program, op) ==
  FlattenSeq([i \in DOMAIN op.params |-> Leaves(program, op.component, op.params[i])])

(* property_field_type: inside a declaration only the name is replaced.    *)
FieldOk(program, component, type) ==
  Cardinality(PropertyTypes(program, component, type)) <= 1
FieldType(program, component, type) ==
  IF PropertyTypes(program, component, type) = {} THEN type
  ELSE Type(PropertyType(program, component, type).name)
-----------------------------------------------------------------------------
(* fold_operation.                                                         *)

Receiver == ""          \* the target of a setup that fills no parameter
Ambiguous == "?"        \* ... of one that could fill several

(* Mutant: a parameter another setup fills is still a candidate.           *)
TargetsShared(program, op) ==
  LET setups == SetupsFor(program, op.component, op.name)
  IN [i \in DOMAIN setups |->
        LET same == {p.name : p \in {q \in ToSet(op.params) : q.type = setups[i].returns}}
        IN IF setups[i].fills # "" THEN setups[i].fills
           ELSE IF same = {} THEN Receiver
           ELSE IF Cardinality(same) > 1 THEN Ambiguous
           ELSE CHOOSE name \in same : TRUE]

(* What each setup fills, in the order they are linked: the parameter it   *)
(* names, or the one parameter of its return type that is not filled yet.  *)
Targets(program, op) ==
  LET setups == SetupsFor(program, op.component, op.name)
      upTo[i \in 0..Len(setups)] ==
        IF i = 0 THEN <<>>
        ELSE LET s == setups[i]
                 same == {p.name : p \in {q \in ToSet(op.params) :
                            q.name \notin ToSet(upTo[i - 1]) /\ q.type = s.returns}}
             IN Append(upTo[i - 1],
                  IF s.fills # "" THEN s.fills
                  ELSE IF same = {} THEN Receiver
                  ELSE IF Cardinality(same) > 1 THEN Ambiguous
                  ELSE CHOOSE name \in same : TRUE)
  IN upTo[Len(setups)]

(* The inputs of a folded operation: its receiver's, then each parameter's *)
(* or those of the setup that fills it.                                    *)
FoldedInputs(program, op) ==
  LET setups == SetupsFor(program, op.component, op.name)
      targets == Targets(program, op)
      From(target) ==
        IF target \in ToSet(targets)
        THEN ParameterFields(program, setups[SelectInSeq(targets, LAMBDA t : t = target)])
        ELSE <<>>
      Injected(p) == IF p.name \in ToSet(targets) THEN From(p.name)
                     ELSE Leaves(program, op.component, p)
  IN From(Receiver) \o FlattenSeq([i \in DOMAIN op.params |-> Injected(op.params[i])])

FoldOk(program, op) ==
  LET setups == SetupsFor(program, op.component, op.name)
      targets == Targets(program, op)
  IN /\ Ambiguous \notin ToSet(targets)
     /\ ToSet(targets) \subseteq Names(op.params) \cup {Receiver}
     /\ Cardinality(ToSet(targets)) = Len(targets)
     /\ \A s \in ToSet(setups) : ParametersOk(program, s)
     /\ op.method => Receiver \in ToSet(targets)
     /\ \A p \in ToSet(op.params) :
          p.name \notin ToSet(targets) => Expands(program, op.component, p.type, {})
     /\ Distinct(FoldedInputs(program, op))

FoldedSetups(program, op) ==
  LET setups == SetupsFor(program, op.component, op.name)
      targets == Targets(program, op)
  IN SortSeq([i \in DOMAIN setups |->
                [fills |-> targets[i], inputs |-> ParameterFields(program, setups[i]),
                 output |-> setups[i].returns]],
             LAMBDA a, b : Rank(a.fills) < Rank(b.fills))
-----------------------------------------------------------------------------
(* Native to semantic types.                                               *)

Strings == {"String", "str", "ComponentId", "OperationName", "ImplementationLabel"}
Constructors == {"Option", "Vec", "List", "map", "set", "Tuple", "Result", "Map",
                 "Set", "HashMap", "BTreeMap", "HashSet", "BTreeSet"}
Builtins == Constructors \cup Strings \cup
  {"Value", "value", "string", "unit", "()", "char", "bool", "i8", "i32", "u64", "f64"}

Text(name, arguments) == <<"", name, arguments>>

RECURSIVE MapRust(_)
MapRust(type) ==
  LET name == type[1]
      arguments == [i \in DOMAIN type[2] |-> MapRust(type[2][i])]
      n == Len(arguments)
  IN CASE name = "&" -> arguments[1]
       [] name = "[]" -> Text("List", arguments)
       [] name = "(,)" -> Text("Tuple", arguments)
       [] name \in Strings -> Text("string", <<>>)
       [] name = "()" -> Text("unit", <<>>)
       [] name = "Value" /\ n = 0 -> Text("value", <<>>)
       [] name \in {"Option", "Result"} /\ n = (IF name = "Option" THEN 1 ELSE 2) ->
            Text(name, arguments)
       [] name = "Vec" /\ n = 1 -> Text("List", arguments)
       [] name \in {"HashMap", "BTreeMap"} /\ n = 2 -> Text("map", arguments)
       [] name \in {"HashSet", "BTreeSet"} /\ n = 1 -> Text("set", arguments)
       [] OTHER -> Text(name, <<>>)

(* C# discovery emits semantic expressions already.                        *)
RECURSIVE Written(_)
Written(type) == Text(type[1], [i \in DOMAIN type[2] |-> Written(type[2][i])])

Mapped(program, type) ==
  IF program.language = "rust" THEN MapRust(type) ELSE Written(type)

(* append_refs.                                                            *)
RECURSIVE References(_)
References(type) ==
  (IF type[1] \in {"&", "[]", "(,)"} \/ (type[1] \in Builtins /\
        ~(type[2] = <<>> /\ type[1] \in Constructors))
   THEN {} ELSE {type[1]})
  \cup UNION {References(type[2][i]) : i \in DOMAIN type[2]}
-----------------------------------------------------------------------------
(* The components a component depends on.                                  *)

Owners(program, name, component) ==
  LET all == SelectSeq(program.types, LAMBDA t : t.name = name)
      local == SelectSeq(all, LAMBDA t : t.component = component)
  IN IF local # <<>> THEN local ELSE all
OwnerOk(program, name, component) == Len(Owners(program, name, component)) = 1
Owner(program, name, component) == Owners(program, name, component)[1].component

PayloadTypes(variant) ==
  {f.type : f \in ToSet(variant.fields)}
    \cup (IF variant.tuple = NoTuple THEN {} ELSE ToSet(variant.tuple))

(* Mutant: what variants carry is forgotten.                               *)
DeclaredTypesFields(program, t) ==
  {FieldType(program, t.component, f.type) : f \in ToSet(t.fields)}

DeclaredTypes(program, t) ==
  {FieldType(program, t.component, f.type) : f \in ToSet(t.fields)}
    \cup UNION {PayloadTypes(v) : v \in ToSet(t.variants)}

(* direct: of the root what its operations and their setups use as well.   *)
Surface(program, component) ==
  LET declared == Names(Declared(program, component))
      used == SelectSeq(program.ops, LAMBDA o :
                o.component = component /\ (~o.setup \/ o.name \in declared))
  IN UNION {{p.type : p \in ToSet(ParameterFields(program, used[i]))}
              \cup {used[i].returns} : i \in DOMAIN used}
Uses(program, component, root) ==
  UNION {References(t) : t \in
    UNION {DeclaredTypes(program, t) : t \in ToSet(LocalTypes(program, component))}
      \cup (IF component = root THEN Surface(program, component) ELSE {})}

DirectOk(program, component, root) ==
  /\ component = root =>
       \A o \in ToSet(program.ops) : o.component = component => ParametersOk(program, o)
  /\ \A t \in ToSet(LocalTypes(program, component)) : \A f \in ToSet(t.fields) :
       FieldOk(program, component, f.type)
  /\ \A name \in Uses(program, component, root) : OwnerOk(program, name, component)
Direct(program, component, root) ==
  {Owner(program, name, component) : name \in Uses(program, component, root)} \ {component}

(* visit: owners are found for every name, and no component reaches itself. *)
RECURSIVE Visits(_, _, _, _)
Visits(program, component, root, visiting) ==
  /\ component \notin visiting
  /\ DirectOk(program, component, root)
  /\ \A d \in Direct(program, component, root) :
       Visits(program, d, root, visiting \cup {component})
RECURSIVE Reached(_, _, _)
Reached(program, component, root) ==
  {component} \cup
    UNION {Reached(program, d, root) : d \in Direct(program, component, root)}
-----------------------------------------------------------------------------
(* Qualifier.                                                              *)

(* Mutant: a name another component also declares is always taken for its. *)
QualifierShadowed(program, component) ==
  LET all == SelectSeq(program.types, LAMBDA t : t.component # component)
  IN [name \in Names(all) |-> Last(SelectSeq(all, LAMBDA t : t.name = name)).component]

(* The owners of the names that are not the component's own; of two owners *)
(* of one name the last is kept.                                           *)
Qualifier(program, component) ==
  LET all == SelectSeq(program.types, LAMBDA t : t.component # component)
      external == Names(all) \ Names(LocalTypes(program, component))
  IN [name \in external |-> Last(SelectSeq(all, LAMBDA t : t.name = name)).component]

RECURSIVE Qualify(_, _)
Qualify(qualifier, text) ==
  LET name == text[2] IN
  <<IF name \in DOMAIN qualifier /\ ~(name \in Constructors /\ text[3] # <<>>)
      THEN qualifier[name] ELSE "",
    name, [i \in DOMAIN text[3] |-> Qualify(qualifier, text[3][i])]>>
-----------------------------------------------------------------------------
(* The normalized schema of a component.                                   *)

NoText == <<"", "", <<>>>>

(* operation_outcome.                                                      *)
Outcome(program, op) ==
  LET type == op.returns
      value == type[2][1]
      Says(output, empty, errors) == [output |-> output, empty |-> empty, errors |-> errors]
  IN IF type = Unit THEN Says(NoText, FALSE, <<>>)
     ELSE IF type[1] = "Option" /\ Len(type[2]) = 1
     THEN IF value = Unit THEN Says(Text("Option", <<Mapped(program, Unit)>>), FALSE, <<>>)
          ELSE Says(Mapped(program, value), TRUE, <<>>)
     ELSE IF type[1] = "Result" /\ Len(type[2]) = 2
     THEN Says(IF value = Unit THEN NoText ELSE Mapped(program, value), FALSE,
               <<Param("error", Mapped(program, type[2][2]))>>)
     ELSE Says(Mapped(program, type), FALSE, <<>>)

(* A C# root keeps the types of its fields as they are written.            *)
Fields(program, component, root, fields) ==
  LET q == Qualifier(program, component)
      Replaced(type) == IF program.language = "csharp" /\ component = root THEN type
                        ELSE FieldType(program, component, type)
  IN [i \in DOMAIN fields |->
        Param(fields[i].name, Qualify(q, Mapped(program, Replaced(fields[i].type))))]

TypeDefs(program, component, root) ==
  LET q == Qualifier(program, component)
      Payload(v) ==
        Variant(v.name,
                [i \in DOMAIN v.fields |->
                   Param(v.fields[i].name, Qualify(q, Mapped(program, v.fields[i].type)))],
                IF v.tuple = NoTuple THEN NoTuple
                ELSE [i \in DOMAIN v.tuple |-> Qualify(q, Mapped(program, v.tuple[i]))])
      Def(t) == [name |-> t.name, kind |-> t.kind,
                 fields |-> Fields(program, component, root, t.fields),
                 variants |-> [i \in DOMAIN t.variants |-> Payload(t.variants[i])]]
      local == Sorted(LocalTypes(program, component))
  IN [i \in DOMAIN local |-> Def(local[i])]

Operations(program, component) ==
  LET q == Qualifier(program, component)
      Inputs(fields) ==
        [i \in DOMAIN fields |-> Param(fields[i].name, Qualify(q, Mapped(program, fields[i].type)))]
      Folded(op) ==
        LET out == Outcome(program, op)
            setups == FoldedSetups(program, op)
        IN [name |-> op.name, inputs |-> Inputs(FoldedInputs(program, op)),
            output |-> Qualify(q, out.output), empty |-> out.empty,
            errors |-> [i \in DOMAIN out.errors |->
                          Param(out.errors[i].name, Qualify(q, out.errors[i].type))],
            setups |-> [i \in DOMAIN setups |->
                          [fills |-> setups[i].fills, inputs |-> Inputs(setups[i].inputs),
                           output |-> Qualify(q, Mapped(program, setups[i].output))]]]
      local == Sorted(Declared(program, component))
  IN [i \in DOMAIN local |-> Folded(local[i])]

(* validate_surface.                                                       *)
SurfaceOk(program, component) ==
  LET declared == Declared(program, component) IN
  /\ Distinct(declared)
  /\ \A o \in ToSet(declared) : o.public
  /\ \A s \in ToSet(program.ops) :
       s.setup /\ s.component = component => s.name \in Names(declared)

RECURSIVE Dynamic(_)
Dynamic(text) ==
  text[2] = "value" \/ \E i \in DOMAIN text[3] : Dynamic(text[3][i])

(* reject_dynamic and reject_ambiguous_variants.                           *)
StaticOk(schema) ==
  LET defs == schema.types \o FlattenSeq([i \in DOMAIN schema.dependencyTypes |->
                                             schema.dependencyTypes[i].types])
      Static(fields) == \A f \in ToSet(fields) : ~Dynamic(f.type)
  IN /\ \A o \in ToSet(schema.operations) :
          /\ Static(o.inputs) /\ Static(o.errors) /\ ~Dynamic(o.output)
          /\ \A s \in ToSet(o.setups) : Static(s.inputs)
     /\ \A t \in ToSet(defs) :
          /\ Static(t.fields) /\ Distinct(t.variants)
          /\ \A v \in ToSet(t.variants) :
               Static(v.fields) /\ (v.tuple # NoTuple => \A x \in ToSet(v.tuple) : ~Dynamic(x))

SortedNames(names) == SetToSortSeq(names, LAMBDA a, b : Rank(a) < Rank(b))

BuildSchema(program, component) ==
  LET others == SortedNames(Reached(program, component, component) \ {component})
      Needs(c) == SortedNames(Direct(program, c, component))
  IN [component |-> component, dependencies |-> Needs(component),
      dependencyTypes |-> [i \in DOMAIN others |->
        [component |-> others[i], dependencies |-> Needs(others[i]),
         types |-> TypeDefs(program, others[i], component)]],
      operations |-> Operations(program, component),
      types |-> TypeDefs(program, component, component)]

(* normalize_registry; a program it refuses has no schema.                 *)
Normalizes(program, component) ==
  /\ SurfaceOk(program, component)
  /\ Visits(program, component, component, {})
  /\ \A o \in ToSet(Declared(program, component)) : FoldOk(program, o)
  /\ StaticOk(BuildSchema(program, component))
=============================================================================
