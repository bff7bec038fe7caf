----------------------------- MODULE Declarations -----------------------------
(***************************************************************************)
(* From the declarations of a program to the registry others rely on.  The *)
(* declarations are discovered, encoded as a registry, published to a file *)
(* and imported by registries authored elsewhere; the same declarations,   *)
(* linked into the test binary, tell the runtime which construction inputs *)
(* an operation is recorded with.                                          *)
(***************************************************************************)
EXTENDS SetupPlan, RegistryImports

CONSTANTS
  Executed,       \* the programs whose tests are run under capture
  Library         \* those published for others to import

VARIABLES
  phase,          \* what was made of the program's sources
  schemas,        \* the normalized schema of each discovered component
  order,          \* the components encoded, in the order they were given
  registry        \* the registry document
discovered == <<program, phase, schemas, order, registry>>

vars == <<discovered, shared, loading, running>>

NoRegistry == [id |-> "none"]

(* Registry::present_components: the components a discovery can be asked   *)
(* for.                                                                    *)
PresentComponents(p) ==
  {o.component : o \in {q \in ToSet(p.ops) : ~q.setup}}
    \cup {t.component : t \in ToSet(p.types)}

Init ==
  /\ SetupInit /\ (program \notin Executed => ~env)
  /\ phase = "linked"
  /\ schemas = <<>> /\ order = <<>> /\ registry = NoRegistry
  /\ ImportsInit
-----------------------------------------------------------------------------
(* discover_many: every component asked for is normalized on its own.        *)
Discover ==
  /\ phase = "linked"
  /\ phase' = "discovered"
  /\ schemas' = [c \in {c \in PresentComponents(program) : Normalizes(program, c)} |->
                   BuildSchema(program, c)]
  /\ UNCHANGED <<program, order, registry, shared, loading, running>>

(* encode_many: one registry of the schemas given, in the order given.     *)
EncodeMany(given) ==
  LET chosen == [i \in DOMAIN given |-> schemas[given[i]]] IN
  /\ phase = "discovered"
  /\ order' = given
  /\ IF EncodeOk(chosen)
     THEN phase' = "encoded" /\ registry' = EncodeDocument("lib", "1", chosen)
     ELSE phase' = "unencodable" /\ UNCHANGED registry
  /\ UNCHANGED <<program, schemas, shared, loading, running>>

(* The sources of a published library change.  The bound on publications   *)
(* bounds the changes too.                                                 *)
Edit(p) ==
  /\ phase = "encoded" /\ program \in Library /\ p # program
  /\ published < MaxPublished
  /\ program' = p /\ phase' = "linked"
  /\ schemas' = <<>> /\ order' = <<>> /\ registry' = NoRegistry
  /\ UNCHANGED <<shared, loading, running>>

(* The registry of the whole library is published, imported, or validated  *)
(* with those that import it.                                              *)
Share ==
  /\ phase = "encoded" /\ program \in Library /\ Len(order) = Cardinality(DOMAIN schemas)
  /\ ImportsNext(registry)
  /\ UNCHANGED <<discovered, running>>
-----------------------------------------------------------------------------
(* The tests run.                                                          *)
Execute ==
  /\ phase = "discovered" /\ program \in Executed /\ phase' = "running"
  /\ UNCHANGED <<program, schemas, order, registry, shared, loading, running>>

(* A step of the program that runs.                                        *)
Run ==
  /\ phase = "running" /\ SetupNext
  /\ UNCHANGED <<phase, schemas, order, registry, shared, loading>>

Orders == UNION {SetToSeqs(cs) : cs \in SUBSET DOMAIN schemas \ {{}}}

Next ==
  \/ Discover
  \/ \E given \in Orders : EncodeMany(given)
  \/ \E p \in Library : Edit(p)
  \/ Share
  \/ Execute
  \/ Run

Spec == Init /\ [][Next]_vars
-----------------------------------------------------------------------------
(* What a native type means, stated on the type itself: the reference the  *)
(* whole way through discovery and encoding is held against.               *)

ListNames == {"[]", "Vec", "List"}
SetNames == {"HashSet", "BTreeSet", "set"}
MapNames == {"HashMap", "BTreeMap", "map"}

Declares(p, component, name) == \E t \in ToSet(p.types) : t.component = component /\ t.name = name

RECURSIVE Denotes(_, _, _)
Denotes(p, component, type) ==
  LET name == type[1]
      inner == [i \in DOMAIN type[2] |-> Denotes(p, component, type[2][i])]
      owners == {c \in PresentComponents(p) : Declares(p, c, name)}
  IN CASE name = "&" -> inner[1]
       [] name \in ListNames -> <<"coll", inner[1], TRUE, FALSE>>
       [] name \in SetNames -> <<"coll", inner[1], FALSE, TRUE>>
       [] name \in MapNames -> <<"map", inner[1], inner[2], FALSE>>
       [] name = "(,)" -> <<"tuple", inner>>
       [] name = "Option" -> <<"optional", inner[1]>>
       [] name \in {"String", "str", "string"} -> <<"prim", "string">>
       [] name \in {"()", "unit"} -> <<"prim", "unit">>
       [] OTHER -> IF component \in owners THEN <<"named", name, Absent, Absent>>
                   ELSE IF Cardinality(owners) = 1
                   THEN <<"named", name, CHOOSE c \in owners : TRUE, Absent>>
                   ELSE <<"prim", name>>

(* A native type CTSC has a type for.                                      *)
RECURSIVE Supported(_, _)
Supported(p, type) ==
  /\ \/ type[1] \in {"&", "(,)", "Option", "String", "str", "()"} \cup Primitives
                      \cup ListNames \cup SetNames \cup MapNames
     \/ type[2] = <<>> /\ \E c \in PresentComponents(p) : Declares(p, c, type[1])
  /\ \A i \in DOMAIN type[2] : Supported(p, type[2][i])

(* The types an operation's outcome is made of.                            *)
OutcomeTypes(type) ==
  IF type[1] \in {"Option", "Result"} THEN ToSet(type[2]) ELSE {type}

ComponentOf(id) == CHOOSE c \in ToSet(registry.components) : c.id = id
Named(declarations, name) == CHOOSE d \in ToSet(declarations) : d.name = name

(* A type written in the registry is the type the source meant: the same   *)
(* structure, and every name owned by the component that declares it, for  *)
(* each parameter and result of the operations encoded and each field of   *)
(* their types, however often the component was merged from others' views. *)
TypesSurvive ==
  phase = "encoded" =>
    /\ \A o \in ToSet(program.ops) : ~o.setup /\ o.component \in ToSet(order) =>
         LET written == Named(ComponentOf(o.component).operations, o.name)
             value == IF o.returns[1] \in {"Option", "Result"} THEN o.returns[2][1] ELSE o.returns
         IN /\ \A p \in ToSet(o.params) : p.name \in Names(written.inputs) =>
                 Named(written.inputs, p.name).type = Denotes(program, o.component, p.type)
            /\ written.result # NoType /\ value # Unit =>
                 written.result = Denotes(program, o.component, value)
            /\ value # Unit /\ Denotes(program, o.component, value) # <<"prim", "unit">> =>
                 written.result # NoType
    /\ \A t \in ToSet(program.types) : t.component \in ToSet(order) =>
         LET shape == Named(ComponentOf(t.component).types, t.name).shape IN
         /\ \A f \in ToSet(t.fields) : PropertyTypes(program, t.component, f.type) = {} =>
              Named(shape[2], f.name).type = Denotes(program, t.component, f.type)
         /\ \A v \in ToSet(t.variants) : v.tuple # NoTuple =>
              Named(shape[2], v.name).type =
                <<"tuple", [i \in DOMAIN v.tuple |-> Denotes(program, t.component, v.tuple[i])]>>

(* What discovery accepts, the encoder accepts, unless a native type has   *)
(* no CTSC counterpart or an enum has no variant: no dependency is         *)
(* forgotten, none is superfluous, and two components' views of a third    *)
(* never disagree.                                                         *)
EncodesUnlessUnsupported ==
  phase = "unencodable" =>
    \/ \E o \in ToSet(program.ops) :
         \E t \in {p.type : p \in ToSet(o.params)} \cup OutcomeTypes(o.returns) :
           ~Supported(program, t)
    \/ \E d \in ToSet(program.types) :
         \/ d.kind = "enum" /\ d.variants = <<>>
         \/ \E t \in {f.type : f \in ToSet(d.fields)} \cup UNION {PayloadTypes(v) : v \in ToSet(d.variants)} :
              ~Supported(program, t)

(* The encoder writes only registries that the validator accepts.  An      *)
(* operation that returns an optional reference to unit is the exception:  *)
(* it is declared empty with no result.                                    *)
RegistryValid ==
  phase = "encoded" =>
    \/ ShapeOk(registry) /\ LinkedSetOk([r \in {registry.id} |-> registry])
    \/ \E o \in ToSet(program.ops) : o.returns = Of("Option", <<Of("&", <<Unit>>)>>)

(* The registry of a set of components does not depend on the order their  *)
(* schemas are given in, and neither does whether there is one.            *)
MergeOrderIndependent ==
  LET canonical == [i \in DOMAIN order |-> schemas[SortedNames(ToSet(order))[i]]] IN
  /\ phase = "encoded" =>
       EncodeOk(canonical) /\ registry = EncodeDocument("lib", "1", canonical)
  /\ phase = "unencodable" => ~EncodeOk(canonical)

(* The runtime folds setups exactly as discovery does, except that it does *)
(* not ask a method for a receiver: the same operations are accepted, and  *)
(* what is recorded has the names that the schema declares.                *)
FoldsAgree ==
  \A o \in ToSet(program.ops) : ~o.setup =>
    /\ FoldOk(program, o) <=>
         OperationFolds(program, o) /\ (o.method => Plan(program, o).receiver)
    /\ FoldOk(program, o) =>
         ToSet(RecordedInputs(program, o)) = Names(FoldedInputs(program, o))
=============================================================================
