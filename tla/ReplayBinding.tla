---------------------------- MODULE ReplayBinding ----------------------------
(***************************************************************************)
(* How replay links the operations of a bundle to those of a Rust          *)
(* candidate and carries values across (specgate-cli replay/link.rs,       *)
(* replay/storage.rs, replay/binding.rs and replay/runner.rs;              *)
(* specgate-runtime lib.rs and harness.rs).                                *)
(*                                                                         *)
(* An input decoded from the reference trace is rendered as a Rust         *)
(* expression of the candidate's parameter type, may be projected and       *)
(* decoded again by the test harness, is recorded by the candidate's        *)
(* runtime, and is converted to the representation the reference registry   *)
(* declares.  Which pairs of types are let through is decided twice, by    *)
(* check_rust on the Rust type and by Builder::shape on the declared one.  *)
(*                                                                         *)
(* A Rust type is <<constructor, arguments...>>; a native value is headed   *)
(* by its constructor.  A reference operation is [name, inputs, output,     *)
(* errors, empty]; a candidate is [ops, types], its operations having       *)
(* Rust types and [public, setup, consumes] besides.  Candidates whose      *)
(* operations need setups are in Discovery and SetupStaging.                *)
(***************************************************************************)
EXTENDS CtscValues

SetTypes == {"HashSet", "BTreeSet"}
MapTypes == {"HashMap", "BTreeMap"}
Scalars  == {"bool", "i32", "i64", "u32", "u64", "f32", "f64"}

Names(members) == [i \in DOMAIN members |-> members[i][1]]
BagElements(bag) ==
  Names(SetToSeq(UNION {{e} \X (1 .. bag[e]) : e \in DOMAIN bag}))
-----------------------------------------------------------------------------
(* The registry type discovery and the registry encoder give a Rust type.  *)
RECURSIVE DeclaredAs(_)
DeclaredAs(n) ==
  CASE n[1] = "()" -> <<"prim", "unit">>
    [] n[1] \in {"String", "&str"} -> <<"prim", "string">>
    [] n[1] \in Scalars -> <<"prim", n[1]>>
    [] n[1] = "Vec"    -> <<"coll", DeclaredAs(n[2]), TRUE, FALSE>>
    [] n[1] \in SetTypes -> <<"coll", DeclaredAs(n[2]), FALSE, TRUE>>
    [] n[1] \in MapTypes -> <<"map", DeclaredAs(n[2]), DeclaredAs(n[3]), FALSE>>
    [] n[1] = "Option" -> <<"optional", DeclaredAs(n[2])>>
    [] n[1] = "tuple"  -> <<"tuple", MapSeq(DeclaredAs, n[2])>>
    [] n[1] = "struct" -> <<"named", n[2], Absent, Absent>>

RECURSIVE Borrowed(_)
Borrowed(n) ==
  CASE n[1] = "&str" -> TRUE
    [] n[1] \in {"Vec", "Option"} \cup SetTypes -> Borrowed(n[2])
    [] n[1] \in MapTypes -> Borrowed(n[2]) \/ Borrowed(n[3])
    [] n[1] = "tuple" -> \E i \in DOMAIN n[2] : Borrowed(n[2][i])
    [] OTHER -> FALSE

RECURSIVE CheckRust(_, _)

(* check_rust: a literal of the Rust type can be rendered for an input of  *)
(* the registry type.                                                      *)
CheckRust(t, n) ==
  CASE t[1] = "prim" ->
         \/ t[2] = "unit" /\ n[1] = "()"
         \/ t[2] = "string" /\ n[1] \in {"String", "&str"}
         \/ t[2] \in Scalars /\ n[1] = t[2]
    [] t[1] = "tuple" ->
         /\ n[1] = "tuple" /\ Len(n[2]) = Len(t[2]) /\ Len(t[2]) \in 2..4
         /\ ~Borrowed(n)
         /\ \A i \in DOMAIN t[2] : CheckRust(t[2][i], n[2][i])
    [] t[1] = "coll" ->
         /\ n[1] = "Vec" \/ (~t[3] /\ t[4] /\ n[1] \in SetTypes)
         /\ ~Borrowed(n) /\ CheckRust(t[2], n[2])
    [] t[1] = "optional" -> n[1] = "Option" /\ ~Borrowed(n) /\ CheckRust(t[2], n[2])
    [] t[1] = "map" ->
         \/ /\ n[1] = "Vec" /\ ~Borrowed(n)
            /\ n[2][1] = "tuple" /\ Len(n[2][2]) = 2
            /\ CheckRust(t[2], n[2][2][1]) /\ CheckRust(t[3], n[2][2][2])
         \/ /\ StringMap(t) /\ n[1] \in MapTypes /\ ~Borrowed(n)
            /\ CheckRust(t[2], n[2]) /\ CheckRust(t[3], n[3])
    [] OTHER -> FALSE      \* named, record and union types

IsPairs(a) == a[1] = "coll" /\ a[3] /\ ~a[4] /\ a[2][1] = "tuple" /\ Len(a[2][2]) = 2
Owner(t, component) == IF t[3] = Absent THEN component ELSE t[3]
Has(types, owner, name) == owner \in DOMAIN types /\ name \in DOMAIN types[owner].types

ItemsBound(t, a, Sub(_, _)) ==
  Len(t[2]) = Len(a[2]) /\ \A i \in DOMAIN t[2] : Sub(t[2][i], a[2][i])

(* A Vec stores every collection, a set only a set.                        *)
SequenceStorage(t, a) == (a[3] /\ ~a[4]) \/ (~t[3] /\ t[4] /\ ~a[3] /\ a[4])

RECURSIVE Shape(_, _, _, _, _)

(* Builder::bind and Builder::shape: the candidate's declared type a       *)
(* stores the reference type t.  Its memo of visited pairs only keeps a    *)
(* recursive type from being walked for ever.                              *)
Shape(t, a, component, reference, candidate) ==
  LET Sub(x, y) == Shape(x, y, component, reference, candidate)
      owner == Owner(a, component)
  IN
  CASE t[1] = "prim" /\ a[1] = "prim" -> t = a
    [] t[1] = "named" /\ a[1] = "named" ->
         /\ t[2] = a[2] /\ Owner(t, component) = owner
         /\ t[4] = Absent /\ a[4] = Absent
         /\ Has(reference, owner, t[2]) /\ Has(candidate, owner, a[2])
         /\ Shape(reference[owner].types[t[2]], candidate[owner].types[a[2]],
                  owner, reference, candidate)
    [] t[1] = "record" /\ a[1] = "named" ->
         /\ a[4] = Absent /\ owner = component /\ Has(candidate, owner, a[2])
         /\ candidate[owner].types[a[2]][1] = "record"
         /\ Sub(t, candidate[owner].types[a[2]])
    [] t[1] = "coll" /\ a[1] = "coll" -> SequenceStorage(t, a) /\ Sub(t[2], a[2])
    [] t[1] = "optional" /\ a[1] = "optional" -> Sub(t[2], a[2])
    [] t[1] = "map" /\ a[1] = "map" ->
         ~t[4] /\ ~a[4] /\ Sub(t[2], a[2]) /\ Sub(t[3], a[3])
    [] t[1] = "map" /\ a[1] = "coll" ->
         IsPairs(a) /\ Sub(t[2], a[2][2][1]) /\ Sub(t[3], a[2][2][2])
    [] t[1] = "tuple" /\ a[1] = "tuple" -> Len(t[2]) \in 2..4 /\ ItemsBound(t, a, Sub)
    [] t[1] = "record" /\ a[1] = "record" ->
         DOMAIN t[2] = DOMAIN a[2] /\ \A f \in DOMAIN t[2] : Sub(t[2][f], a[2][f])
    [] t[1] = "union" /\ a[1] = "union" ->
         /\ DOMAIN t[2] = DOMAIN a[2]
         /\ \A k \in DOMAIN t[2] :
              IF t[2][k] = NoPayload \/ a[2][k] = NoPayload THEN t[2][k] = a[2][k]
              ELSE IF t[2][k][1] = "tuple" /\ a[2][k][1] = "tuple"
              THEN ItemsBound(t[2][k], a[2][k], Sub)    \* of any length
              ELSE Sub(t[2][k], a[2][k])
    [] OTHER -> FALSE
-----------------------------------------------------------------------------
(* Linking.                                                                *)

(* validate_inputs, validate_output: names in order, and which outcomes     *)
(* there are.                                                               *)
SameOutcomes(ref, op) ==
  /\ Names(ref.inputs) = Names(op.inputs)
  /\ (ref.output = NoPayload) = (op.output = NoPayload)
  /\ ref.empty = op.empty
  /\ Len(ref.errors) = Len(op.errors)
  /\ \A i \in DOMAIN ref.errors :
       /\ ref.errors[i][1] = op.errors[i][1]
       /\ (ref.errors[i][2] = NoPayload) = (op.errors[i][2] = NoPayload)

Matching(ref, candidate) ==
  {i \in DOMAIN candidate.ops : ~candidate.ops[i].setup /\ candidate.ops[i].name = ref.name}
Declares(candidate, ref) == Matching(ref, candidate) # {}
Found(ref, candidate) == candidate.ops[CHOOSE i \in Matching(ref, candidate) : TRUE]

LinkOperation(ref, candidate) ==
  /\ Cardinality(Matching(ref, candidate)) = 1
  /\ LET op == Found(ref, candidate) IN
     /\ op.public /\ ~op.consumes
     /\ SameOutcomes(ref, op)
     /\ \A i \in DOMAIN ref.inputs : CheckRust(ref.inputs[i][2], op.inputs[i][2])

(* Builder::operation, after validate_inputs and validate_output again.    *)
BindOperation(ref, candidate, component, reference) ==
  LET op == Found(ref, candidate)
      Bound(t, n) == t = NoPayload \/ Shape(t, DeclaredAs(n), component, reference, candidate.types)
  IN /\ SameOutcomes(ref, op)
     /\ \A i \in DOMAIN ref.inputs : Bound(ref.inputs[i][2], op.inputs[i][2])
     /\ Bound(ref.output, op.output)
     /\ \A i \in DOMAIN ref.errors : Bound(ref.errors[i][2], op.errors[i][2])

(* build: an operation the bundle's trace holds must bind; any other that   *)
(* does not is kept as a rejection.                                         *)
Rejected(ref, candidate, component, reference) ==
  Declares(candidate, ref) /\ ~BindOperation(ref, candidate, component, reference)

(* build_plan for a bundle that replays the operations of `replayed` and    *)
(* whose trace also holds those of `observed`.                              *)
BuildPlan(replayed, observed, candidate, component, reference) ==
  /\ \A ref \in replayed : LinkOperation(ref, candidate)
  /\ \A ref \in replayed \cup observed : ~Rejected(ref, candidate, component, reference)
-----------------------------------------------------------------------------
(* Rendering an input as a native value; Invalid is a panic of the planner  *)
(* or the generated program's "lost distinct CTSC inputs".                  *)

Collect(n, items) ==
  LET keys == IF n[1] \in MapTypes THEN {items[i][2][1] : i \in DOMAIN items} ELSE ToSet(items)
  IN IF ~AllValid(items) THEN Invalid
     ELSE IF n[1] = "Vec" THEN <<"Vec", items>>
     ELSE IF Cardinality(keys) # Len(items) THEN Invalid
     ELSE <<n[1], ToSet(items)>>

MapArguments(n) == IF n[1] = "Vec" THEN n[2][2] ELSE <<n[2], n[3]>>
Pair(k, v) == IF k = Invalid \/ v = Invalid THEN Invalid ELSE <<"tuple", <<k, v>>>>

RECURSIVE RenderValue(_, _)
RenderValue(x, n) ==
  LET Item(e) == RenderValue(e, n[2])
      Entry(e) == Pair(RenderValue(e[1], MapArguments(n)[1]), RenderValue(e[2], MapArguments(n)[2]))
  IN
  CASE x[1] = "list"   -> Collect(n, MapSeq(Item, x[2]))
    [] x[1] = "set"    -> Collect(n, MapSeq(Item, SetToSeq(x[2])))
    [] x[1] = "sorted" -> Collect(n, MapSeq(Item, BagElements(x[2])))
    [] x[1] = "entries" -> Collect(n, MapSeq(Entry, x[2]))
    [] x[1] = "sortedentries" -> Collect(n, MapSeq(Entry, BagElements(x[2])))
    [] x[1] = "map"    ->
         LET StringEntry(k) == Pair(<<"String", Word(k)>>, RenderValue(x[2][k], MapArguments(n)[2]))
         IN Collect(n, MapSeq(StringEntry, SetToSeq(DOMAIN x[2])))
    [] x[1] = "tuple"  ->
         LET items == [i \in DOMAIN x[2] |-> RenderValue(x[2][i], n[2][i])]
         IN IF AllValid(items) THEN <<"tuple", items>> ELSE Invalid
    [] x[1] = "None"   -> <<"None">>
    [] x[1] = "Some"   -> LET v == Item(x[2]) IN IF v = Invalid THEN Invalid ELSE <<"Some", v>>
    [] x[1] = "unit" /\ n[1] = "()" -> <<"()">>
    [] x[1] = "string" /\ n[1] \in {"String", "&str"} -> <<"String", x[2]>>
    [] x[1] \in Scalars /\ x[1] = n[1] -> x
    [] OTHER -> Invalid

EmptyMap == <<"Map", <<>>>>

(* An option is recorded as a map of its variant.                          *)
VariantMap(tag, v) == <<"Map", <<<<tag, v>>>>>>

RECURSIVE ToNativeValue(_)

(* ToNativeValue: what the runtime records of a native value.  The order   *)
(* it gives the elements of a set or a map is abstracted to some order.    *)
ToNativeValue(nv) ==
  CASE nv[1] = "()"     -> EmptyMap
    [] nv[1] = "String" -> nv
    [] nv[1] = "bool"   -> <<"Bool", nv[2]>>
    [] nv[1] \in {"i32", "i64", "u32"} -> <<"Integer", nv[2][2]>>
    [] nv[1] = "u64"    -> <<"Unsigned", nv[2]>>
    [] nv[1] \in {"f32", "f64"} ->
         <<"Float", IF nv[2][1] = "finite" THEN nv[2][2] ELSE nv[2]>>
    [] nv[1] \in {"Vec", "tuple"} -> <<"List", MapSeq(ToNativeValue, nv[2])>>
    [] nv[1] \in SetTypes -> <<"Set", MapSeq(ToNativeValue, SetToSeq(nv[2]))>>
    [] nv[1] \in MapTypes ->
         LET Entry(p) == <<p[2][1][2][2], ToNativeValue(p[2][2])>>
         IN <<"Map", MapSeq(Entry, SetToSeq(nv[2]))>>
    [] nv[1] = "None" -> VariantMap("None", EmptyMap)
    [] nv[1] = "Some" -> VariantMap("Some", ToNativeValue(nv[2]))

RECURSIVE InputDecode(_, _)

(* harness::Input::decode: the test harness passes inputs as recorded       *)
(* values and decodes them at the parameter's type.                         *)
InputDecode(v, n) ==
  LET Scalar(tag, ok, x) == IF v[1] = tag /\ ok THEN <<n[1], x>> ELSE Invalid
      Item(e) == InputDecode(e, n[2])
  IN
  CASE n[1] = "()" -> IF v = EmptyMap THEN <<"()">> ELSE Invalid
    [] n[1] \in {"String", "&str"} -> IF v[1] = "String" THEN v ELSE Invalid
    [] n[1] = "bool" -> Scalar("Bool", TRUE, v[2])
    [] n[1] = "i32"  -> Scalar("Integer", v[2] \in I32, <<"int", v[2]>>)
    [] n[1] = "i64"  -> Scalar("Integer", TRUE, <<"int", v[2]>>)
    [] n[1] = "u32"  -> Scalar("Integer", v[2] \in U32, <<"int", v[2]>>)
    [] n[1] = "u64"  -> Scalar("Unsigned", TRUE, v[2])
    [] n[1] \in {"f32", "f64"} ->
         Scalar("Float", n[1] = "f64" \/ v[2][1] = "symbol" \/ v[2] \in Single,
                IF v[2][1] = "symbol" THEN v[2] ELSE <<"finite", v[2]>>)
    [] n[1] = "Vec" -> IF v[1] = "List" THEN Collect(n, MapSeq(Item, v[2])) ELSE Invalid
    [] n[1] \in SetTypes ->
         IF v[1] = "Set" THEN Collect(n, MapSeq(Item, v[2])) ELSE Invalid
    [] n[1] \in MapTypes ->
         LET Entry(e) == Pair(<<"String", Word(e[1])>>, InputDecode(e[2], n[3]))
         IN IF v[1] = "Map" THEN Collect(n, MapSeq(Entry, v[2])) ELSE Invalid
    [] n[1] = "tuple" ->
         IF v[1] # "List" THEN Invalid
         ELSE IF Len(v[2]) # Len(n[2]) THEN Invalid
         ELSE LET items == [i \in DOMAIN v[2] |-> InputDecode(v[2][i], n[2][i])]
              IN IF AllValid(items) THEN <<"tuple", items>> ELSE Invalid
    [] n[1] = "Option" ->
         IF v[1] # "Map" THEN Invalid
         ELSE IF Len(v[2]) # 1 THEN Invalid
         ELSE IF v[2][1] = <<"None", EmptyMap>> THEN <<"None">>
         ELSE IF v[2][1][1] # "Some" THEN Invalid
         ELSE LET x == Item(v[2][1][2]) IN IF x = Invalid THEN Invalid ELSE <<"Some", x>>
    [] OTHER -> Invalid
-----------------------------------------------------------------------------
(* Converting what the candidate recorded; Invalid is a reported failure.   *)

(* map_value: entries <<key value, value>> as a string map or key/value     *)
(* records.                                                                 *)
MapValue(entries, compact) ==
  LET keys == Names(entries)
      AsEntry(e) == <<"Map", <<<<"key", e[1]>>, <<"value", e[2]>>>>>>
      AsMember(e) == <<e[1][2][2], e[2]>>
  IN IF \E i \in DOMAIN entries : entries[i][1] = Invalid \/ entries[i][2] = Invalid THEN Invalid
     ELSE IF ~compact THEN <<"List", MapSeq(AsEntry, entries)>>
     ELSE IF \E i \in DOMAIN keys : keys[i][1] # "String" THEN Invalid
     ELSE IF ~NoDuplicates(keys) THEN Invalid
     ELSE <<"Map", MapSeq(AsMember, entries)>>

CompactOrdered(t) == t[2] = <<"prim", "string">>    \* mutant: order of the map forgotten

Compact(t) == StringMap(t)

RECURSIVE ConvertValue(_, _, _, _, _, _)

(* Bindings::value, at the node the pair of types t and a was bound to.     *)
ConvertValue(t, a, v, component, reference, candidate) ==
  LET Sub(x, y, w) == ConvertValue(x, y, w, component, reference, candidate)
      IsSequence(w) == w[1] \in {"List", "Set"}
      owner == Owner(a, component)
      Listed(items) == IF AllValid(items) THEN <<"List", items>> ELSE Invalid
      Members(Op(_, _)) ==
        LET items == [i \in DOMAIN v[2] |-> <<v[2][i][1], Op(v[2][i][1], v[2][i][2])>>]
        IN IF v[1] # "Map" THEN Invalid
           ELSE IF \A i \in DOMAIN items : items[i][2] # Invalid THEN <<"Map", items>>
           ELSE Invalid
  IN
  CASE t[1] = "prim" -> v
    [] t[1] # "prim" /\ a[1] = "named" ->
         ConvertValue(IF t[1] = "named" THEN reference[owner].types[t[2]] ELSE t,
                      candidate[owner].types[a[2]], v, owner, reference, candidate)
    [] t[1] = "coll" ->
         IF ~IsSequence(v) THEN Invalid
         ELSE Listed([i \in DOMAIN v[2] |-> Sub(t[2], a[2], v[2][i])])
    [] t[1] = "tuple" ->
         IF ~IsSequence(v) THEN Invalid
         ELSE IF Len(v[2]) # Len(t[2]) THEN Invalid
         ELSE Listed([i \in DOMAIN v[2] |-> Sub(t[2][i], a[2][i], v[2][i])])
    [] t[1] = "map" /\ a[1] = "map" ->
         IF v[1] # "Map" THEN Invalid
         ELSE MapValue([i \in DOMAIN v[2] |->
                         <<<<"String", Word(v[2][i][1])>>, Sub(t[3], a[3], v[2][i][2])>>],
                       t[2] = <<"prim", "string">>)
    [] t[1] = "map" /\ a[1] = "coll" ->
         IF ~IsSequence(v) THEN Invalid
         ELSE IF \E i \in DOMAIN v[2] : ~IsSequence(v[2][i]) \/ Len(v[2][i][2]) # 2
         THEN Invalid
         ELSE MapValue([i \in DOMAIN v[2] |->
                         <<Sub(t[2], a[2][2][1], v[2][i][2][1]),
                           Sub(t[3], a[2][2][2], v[2][i][2][2])>>], Compact(t))
    [] t[1] = "optional" ->
         LET Tagged(k, w) == IF k = "Some" THEN Sub(t[2], a[2], w) ELSE w IN Members(Tagged)
    [] t[1] = "record" /\ a[1] = "record" ->
         LET Field(f, w) == IF f \in DOMAIN t[2] THEN Sub(t[2][f], a[2][f], w) ELSE w
         IN Members(Field)
    [] t[1] = "union" ->
         LET Tagged(k, w) == IF k \notin DOMAIN t[2] THEN w
                             ELSE IF t[2][k] = NoPayload THEN w
                             ELSE Sub(t[2][k], a[2][k], w)
         IN Members(Tagged)
=============================================================================
