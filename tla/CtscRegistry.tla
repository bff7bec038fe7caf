----------------------------- MODULE CtscRegistry -----------------------------
(***************************************************************************)
(* CTSC registries (specgate-ctsc registry.rs and registry/normalized.rs,  *)
(* validation/registry.rs, validation/registry/shape.rs,                   *)
(* validation/model.rs): normalized schemas become the components of one   *)
(* document, and documents are validated together.                         *)
(*                                                                         *)
(* Registry types are tuples headed by their kind: <<"prim", p>>,          *)
(* <<"named", name, component, registry>>, <<"coll", item, ordered,        *)
(* unique>>, <<"map", key, value, ordered>>, <<"tuple", items>>,           *)
(* <<"record", fields>> and <<"optional", type>>, <<"union", variants>>.   *)
(***************************************************************************)
EXTENDS Discovery

Absent == ""            \* an owner that is not written
NoType == <<"none">>    \* a type that is not written

Primitives == {"unit", "string", "bool", "i32", "i64", "u32", "u64", "f32", "f64", "bytes"}
Lists == {"List", "list"}
Sets  == {"Set", "set"}
Maps  == {"Map", "map", "OrderedMap"}
-----------------------------------------------------------------------------
(* Type expressions, read in the context of a component: its dependencies  *)
(* and the type names of every component of the schema.                    *)

Arity(name) ==
  CASE name \in Lists \cup Sets \cup {"Bag", "OrderedSet", "Option", "optional"} -> {1}
    [] name \in Maps -> {2}
    [] name \in {"Tuple", "tuple"} -> Nat \ {0}
    [] OTHER -> {}

RECURSIVE Known(_, _)
Known(text, ctx) ==
  LET owner == IF text[1] = Absent THEN ctx.component ELSE text[1] IN
  IF text[3] # <<>>
  THEN /\ Len(text[3]) \in Arity(text[2])
       /\ \A i \in DOMAIN text[3] : Known(text[3][i], ctx)
  ELSE \/ text[1] = Absent /\ text[2] \in Primitives
       \/ /\ owner \in ctx.dependencies \cup {ctx.component}
          /\ owner \in DOMAIN ctx.types /\ text[2] \in ctx.types[owner]

RECURSIVE TypeRef(_, _)
TypeRef(text, ctx) ==
  LET name == text[2]
      arguments == [i \in DOMAIN text[3] |-> TypeRef(text[3][i], ctx)]
  IN IF arguments = <<>>
     THEN IF text[1] = Absent /\ name \in Primitives THEN <<"prim", name>>
          ELSE <<"named", name, IF text[1] = ctx.component THEN Absent ELSE text[1], Absent>>
     ELSE CASE name \in Lists -> <<"coll", arguments[1], TRUE, FALSE>>
            [] name \in Sets -> <<"coll", arguments[1], FALSE, TRUE>>
            [] name = "Bag" -> <<"coll", arguments[1], FALSE, FALSE>>
            [] name = "OrderedSet" -> <<"coll", arguments[1], TRUE, TRUE>>
            [] name \in Maps -> <<"map", arguments[1], arguments[2], name = "OrderedMap">>
            [] name \in {"Tuple", "tuple"} -> <<"tuple", arguments>>
            [] OTHER -> <<"optional", arguments[1]>>

IsUnit(text) == text[3] = <<>> /\ text[2] \in {"", "()", "unit"}
Unwritten(text, ctx) == IF IsUnit(text) THEN NoType ELSE TypeRef(text, ctx)
KnownOrUnit(text, ctx) == IsUnit(text) \/ Known(text, ctx)

KnownFields(fields, ctx) == \A f \in ToSet(fields) : Known(f.type, ctx)
NamedValues(fields, ctx) ==
  [i \in DOMAIN fields |-> Param(fields[i].name, TypeRef(fields[i].type, ctx))]

OperationOk(op, ctx) ==
  /\ KnownFields(op.inputs, ctx) /\ KnownOrUnit(op.output, ctx)
  /\ \A e \in ToSet(op.errors) : KnownOrUnit(e.type, ctx)
ToOperation(op, ctx) ==
  [name |-> op.name, inputs |-> NamedValues(op.inputs, ctx),
   result |-> Unwritten(op.output, ctx), empty |-> op.empty,
   errors |-> [i \in DOMAIN op.errors |->
                 Param(op.errors[i].name, Unwritten(op.errors[i].type, ctx))],
   setups |-> op.setups]

DefinitionOk(def, ctx) ==
  /\ KnownFields(def.fields, ctx)
  /\ IF def.kind = "struct" THEN def.variants = <<>>
     ELSE def.fields = <<>> /\ def.variants # <<>>
  /\ \A v \in ToSet(def.variants) :
       /\ KnownFields(v.fields, ctx)
       /\ v.tuple # NoTuple => v.fields = <<>> /\ \A t \in ToSet(v.tuple) : Known(t, ctx)
ToType(def, ctx) ==
  LET Payload(v) ==
        IF v.tuple # NoTuple
        THEN <<"tuple", [i \in DOMAIN v.tuple |-> TypeRef(v.tuple[i], ctx)]>>
        ELSE IF v.fields = <<>> THEN NoType ELSE <<"record", NamedValues(v.fields, ctx)>>
  IN [name |-> def.name,
      shape |-> IF def.kind = "struct" THEN <<"record", NamedValues(def.fields, ctx)>>
                ELSE <<"union", [i \in DOMAIN def.variants |->
                         Param(def.variants[i].name, Payload(def.variants[i]))]>>]
-----------------------------------------------------------------------------
(* append_components: the components of one schema, the root's first.      *)

Views(schema) ==
  <<[component |-> schema.component, dependencies |-> schema.dependencies,
     types |-> schema.types]>>
    \o SortSeq(schema.dependencyTypes, LAMBDA a, b : Rank(a.component) < Rank(b.component))

Context(schema, view) ==
  LET views == ToSet(Views(schema)) IN
  [component |-> view.component, dependencies |-> ToSet(view.dependencies),
   types |-> [c \in {v.component : v \in views} |->
                Names((CHOOSE v \in views : v.component = c).types)]]

(* visit_dependency: nothing reaches itself.                               *)
RECURSIVE Acyclic(_, _, _)
Acyclic(graph, node, visiting) ==
  /\ node \notin visiting
  /\ \A next \in graph[node] : Acyclic(graph, next, visiting \cup {node})
RECURSIVE ReachedIn(_, _)
ReachedIn(graph, nodes) ==
  LET more == nodes \cup UNION {graph[n] : n \in nodes}
  IN IF more = nodes THEN nodes ELSE ReachedIn(graph, more)

AppendOk(schema) ==
  LET views == Views(schema)
      all == {v.component : v \in ToSet(views)}
      graph == [c \in all |-> ToSet((CHOOSE v \in ToSet(views) : v.component = c).dependencies)]
  IN /\ Cardinality(all) = Len(views)
     /\ \A v \in ToSet(views) : Distinct(v.types) /\ ToSet(v.dependencies) \subseteq all
     /\ IsInjective(schema.dependencies) /\ schema.component \notin ToSet(schema.dependencies)
     /\ Acyclic(graph, schema.component, {})
     /\ ReachedIn(graph, {schema.component}) = all
     /\ \A o \in ToSet(schema.operations) : OperationOk(o, Context(schema, views[1]))
     /\ \A v \in ToSet(views) : \A d \in ToSet(v.types) : DefinitionOk(d, Context(schema, v))

AppendComponents(schema) ==
  LET views == Views(schema) IN
  [i \in DOMAIN views |->
     LET ctx == Context(schema, views[i]) IN
     [id |-> views[i].component,
      dependencies |-> [k \in DOMAIN views[i].dependencies |->
                          [component |-> views[i].dependencies[k], registry |-> Absent]],
      operations |-> IF i > 1 THEN <<>>
                     ELSE Sorted([k \in DOMAIN schema.operations |->
                                    ToOperation(schema.operations[k], ctx)]),
      types |-> Sorted([k \in DOMAIN views[i].types |-> ToType(views[i].types[k], ctx)])]]
-----------------------------------------------------------------------------
(* encode_all and merge_component.                                         *)

(* Equal declarations of one name, or new ones.                            *)
Agree(existing, incoming) ==
  \A a \in ToSet(existing) : \A b \in ToSet(incoming) : a.name = b.name => a = b
Joined(existing, incoming) ==
  Sorted(existing \o SelectSeq(incoming, LAMBDA b : b.name \notin Names(existing)))

(* Mutant: the dependencies of the first view are kept.                    *)
MergeComponentFirst(existing, incoming) ==
  [existing EXCEPT !.operations = Joined(@, incoming.operations),
                   !.types = Joined(@, incoming.types)]

MergeComponent(existing, incoming) ==
  [existing EXCEPT
     !.dependencies = SetToSortSeq(ToSet(@) \cup ToSet(incoming.dependencies),
                                   LAMBDA a, b : Rank(a.component) < Rank(b.component)),
     !.operations = Joined(@, incoming.operations),
     !.types = Joined(@, incoming.types)]

Decoded(schemas) ==
  FlattenSeq([i \in DOMAIN schemas |-> AppendComponents(schemas[i])])
ViewsOf(schemas, id) == SelectSeq(Decoded(schemas), LAMBDA c : c.id = id)

EncodeOk(schemas) ==
  /\ schemas # <<>>
  /\ \A s \in ToSet(schemas) : AppendOk(s)
  /\ LET all == ToSet(Decoded(schemas)) IN
     \A a, b \in all : a.id = b.id =>
       Agree(a.operations, b.operations) /\ Agree(a.types, b.types)

Merged(views) == FoldLeft(MergeComponent, views[1], Tail(views))

(* Mutant: a single schema, which has nothing to merge, is written as read. *)
EncodeDocumentUnsorted(id, version, schemas) ==
  LET all == Decoded(schemas)
      ids == IF Len(schemas) = 1 THEN [i \in DOMAIN all |-> all[i].id]
             ELSE SortedNames({c.id : c \in ToSet(all)})
  IN [id |-> id, version |-> version, imports |-> <<>>,
      components |-> [i \in DOMAIN ids |-> Merged(ViewsOf(schemas, ids[i]))]]

(* encode_document sorts the components by their identity.                 *)
EncodeDocument(id, version, schemas) ==
  LET ids == SortedNames({c.id : c \in ToSet(Decoded(schemas))})
  IN [id |-> id, version |-> version, imports |-> <<>>,
      components |-> [i \in DOMAIN ids |-> Merged(ViewsOf(schemas, ids[i]))]]
-----------------------------------------------------------------------------
(* validate_shape.                                                         *)

RECURSIVE TypeShapeOk(_)
TypeShapeOk(t) ==
  CASE t[1] = "prim" -> t[2] \in Primitives
    [] t[1] = "named" -> t[2] # "" /\ (t[4] # Absent => t[3] # Absent)
    [] t[1] \in {"coll", "optional"} -> TypeShapeOk(t[2])
    [] t[1] = "map" -> TypeShapeOk(t[2]) /\ TypeShapeOk(t[3])
    [] t[1] = "tuple" -> \A i \in DOMAIN t[2] : TypeShapeOk(t[2][i])
    [] t[1] = "record" ->
         Distinct(t[2]) /\ \A f \in ToSet(t[2]) : f.name # "" /\ TypeShapeOk(f.type)
    [] t[1] = "union" ->
         /\ t[2] # <<>> /\ Distinct(t[2])
         /\ \A v \in ToSet(t[2]) : v.name # "" /\ (v.type # NoType => TypeShapeOk(v.type))

OperationShapeOk(op) ==
  /\ op.name # "" /\ TypeShapeOk(<<"record", op.inputs>>)
  /\ Distinct(op.errors)
  /\ \A e \in ToSet(op.errors) : e.name # "" /\ (e.type # NoType => TypeShapeOk(e.type))
  /\ op.empty => op.result # NoType
  /\ op.result # NoType => TypeShapeOk(op.result) /\ op.result # <<"prim", "unit">>

ShapeOk(doc) ==
  LET ids == [i \in DOMAIN doc.components |-> doc.components[i].id]
  IN /\ doc.id # "" /\ ids # <<>> /\ IsInjective(ids)
     /\ \A i \in 1..(Len(ids) - 1) : Rank(ids[i]) <= Rank(ids[i + 1])
     /\ \A c \in ToSet(doc.components) :
          /\ c.id # "" /\ Distinct(c.operations) /\ Distinct(c.types)
          /\ IsInjective([i \in DOMAIN c.dependencies |-> c.dependencies[i].component])
          /\ \A o \in ToSet(c.operations) : OperationShapeOk(o)
          /\ \A t \in ToSet(c.types) : t.name # "" /\ TypeShapeOk(t.shape)

(* Every type an operation or a declaration of the component writes.       *)
WrittenTypes(component) ==
  UNION {{f.type : f \in ToSet(o.inputs) \cup ToSet(o.errors)} \cup {o.result} :
           o \in ToSet(component.operations)}
    \cup {t.shape : t \in ToSet(component.types)}

RECURSIVE NamedIn(_)
NamedIn(t) ==
  CASE t[1] = "named" -> {t}
    [] t[1] \in {"coll", "optional"} -> NamedIn(t[2])
    [] t[1] = "map" -> NamedIn(t[2]) \cup NamedIn(t[3])
    [] t[1] = "tuple" -> UNION {NamedIn(t[2][i]) : i \in DOMAIN t[2]}
    [] t[1] \in {"record", "union"} -> UNION {NamedIn(f.type) : f \in ToSet(t[2])}
    [] OTHER -> {}
ReferencesOf(component) == UNION {NamedIn(t) : t \in WrittenTypes(component)}
-----------------------------------------------------------------------------
(* validate_semantics: what the selected documents say of each other.      *)

ComponentIn(documents, registry, id) ==
  IF registry \in DOMAIN documents
  THEN {c \in ToSet(documents[registry].components) : c.id = id} ELSE {}

(* resolve_type, for a name the component uses.                            *)
ResolveType(documents, registry, component, t) ==
  LET target == IF t[4] = Absent THEN registry ELSE t[4]
      owner == IF t[3] = Absent THEN component.id ELSE t[3]
  IN /\ IF target # registry
        THEN /\ \E i \in ToSet(documents[registry].imports) : i.registry = target
             /\ [component |-> owner, registry |-> target] \in ToSet(component.dependencies)
        ELSE owner # component.id =>
               [component |-> owner, registry |-> Absent] \in ToSet(component.dependencies)
     /\ \E c \in ComponentIn(documents, target, owner) : t[2] \in Names(c.types)

DependencyOk(documents, registry, d) ==
  LET target == IF d.registry = Absent THEN registry ELSE d.registry IN
  /\ target # registry => \E i \in ToSet(documents[registry].imports) : i.registry = target
  /\ ComponentIn(documents, target, d.component) # {}

SemanticsOk(documents) ==
  /\ \A r, s \in DOMAIN documents :
       r # s => {c.id : c \in ToSet(documents[r].components)}
                  \cap {c.id : c \in ToSet(documents[s].components)} = {}
  /\ \A r \in DOMAIN documents : \A c \in ToSet(documents[r].components) :
       /\ \A d \in ToSet(c.dependencies) : DependencyOk(documents, r, d)
       /\ \A t \in ReferencesOf(c) : ResolveType(documents, r, c, t)
-----------------------------------------------------------------------------
(* What load_fs asks of the documents it has selected, and of one of them. *)

(* validate_cycles and validate_semantics.                                 *)
LinkedSetOk(documents) ==
  LET graph == [r \in DOMAIN documents |->
                  {i.registry : i \in ToSet(documents[r].imports)} \cap DOMAIN documents]
  IN /\ \A r \in DOMAIN graph : Acyclic(graph, r, {})
     /\ SemanticsOk(documents)

(* document_uses, of the types.                                            *)
ReferToRegistry(doc, registry) ==
  \E c \in ToSet(doc.components) : \E t \in ReferencesOf(c) : t[4] = registry
=============================================================================
