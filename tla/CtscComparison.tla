--------------------------- MODULE CtscComparison ---------------------------
(***************************************************************************)
(* Linked validation of a trace against its registry and the strict        *)
(* comparison of two traces (specgate-ctsc validation/linked.rs and        *)
(* comparison/engine.rs).                                                  *)
(*                                                                         *)
(* A registry set is [id, version, digest, components]; a component has    *)
(* the registry it is from, its named types and its operations, an         *)
(* operation its inputs and observations by name and its outcomes.         *)
(* Comparing yields the set of diagnostics reported: <<"error", kind>>     *)
(* when the traces cannot be compared, <<"mismatch", kind>> when they      *)
(* differ.  Paths inside the traces are left out.                          *)
(***************************************************************************)
EXTENDS CtscTrace, SiblingOrder

NoRegistry == [id |-> Absent, version |-> Absent, digest |-> Absent,
               components |-> [c \in {} |-> {}]]
NoType == <<"none">>     \* a declaration without a type

Attr(map, key) == IF key \in DOMAIN map THEN map[key] ELSE <<"missing">>
-----------------------------------------------------------------------------
(* check_linked                                                            *)

FindOperation(registry, component, operation) ==
  /\ component \in DOMAIN registry.components
  /\ operation \in DOMAIN registry.components[component].operations

LinkageOk(span, registry) ==
  \A k \in {"registry.id", "registry.version", "registry.digest"} :
    /\ HasString(span.resource, k)
    /\ String(span.resource, k) =
         Word(CASE k = "registry.id" -> registry.id
                [] k = "registry.version" -> registry.version
                [] OTHER -> registry.digest)

OutcomeOk(span, operation, Valid(_, _)) ==
  LET terminal == SelectInSeq(span.events,
                    LAMBDA e : e.name \in {"result", "empty", "error", "abandoned"})
      event == span.events[terminal]
      outcomes == operation.outcomes
      value == Attr(event.attrs, "error.value")
  IN IF terminal = 0 THEN outcomes.result = NoType /\ ~outcomes.empty
     ELSE CASE event.name = "result" ->
                 outcomes.result # NoType
                   /\ Valid(event.attrs["result.value"], outcomes.result)
            [] event.name = "empty" -> outcomes.empty
            [] event.name = "error" ->
                 LET name == String(event.attrs, "error.name")[2] IN
                 /\ name \in DOMAIN outcomes.errors
                 /\ IF outcomes.errors[name] = NoType THEN value = <<"missing">>
                    ELSE value # <<"missing">> /\ Valid(value, outcomes.errors[name])
            [] OTHER -> TRUE

LinkedOperationOk(span, registry) ==
  LET component == String(span.attrs, "component.id")[2]
      name == String(span.attrs, "operation.name")[2]
      operation == registry.components[component].operations[name]
      inputs == span.attrs["operation.inputs"][2]
      Valid(v, t) == ValidValue(v, t, component, registry.components)
  IN /\ FindOperation(registry, component, name)
     /\ DOMAIN inputs = DOMAIN operation.inputs
     /\ \A n \in DOMAIN inputs : Valid(inputs[n], operation.inputs[n])
     /\ \A i \in DOMAIN span.events :
          span.events[i].name = "observation" =>
            LET attrs == span.events[i].attrs
                seen == String(attrs, "observation.name")[2]
            IN /\ seen \in DOMAIN operation.observations
               /\ Valid(attrs["observation.value"], operation.observations[seen])
     /\ Occurrences(span, {"fault"}) = 0 => OutcomeOk(span, operation, Valid)

LinkedOk(spans, registry) ==
  \A i \in DOMAIN spans :
    /\ LinkageOk(spans[i], registry)
    /\ spans[i].name = "operation" => LinkedOperationOk(spans[i], registry)
-----------------------------------------------------------------------------
(* compare_documents                                                       *)

Error(kind)    == {<<"error", kind>>}
Mismatch(kind) == {<<"mismatch", kind>>}
Differ(kind, a, b) == IF a = b THEN {} ELSE Mismatch(kind)

Children(spans, span) ==
  SelectSeq(spans, LAMBDA s : s.trace = span.trace /\ s.parent = span.id)

(* sequential_children: sorted, or refused when the order is not strict.   *)
SortedChildren(spans, parent) ==
  LET children == Children(spans, parent)
      order == InOrder(children, DOMAIN children)
  IN [i \in DOMAIN order |-> children[order[i]]]

SpanIdentity(span) ==
  IF span.name = "operation"
  THEN <<span.name, Attr(span.attrs, "component.id"), Attr(span.attrs, "operation.name")>>
  ELSE <<span.name>>

(* compare_value, with the declared type or none.                          *)
CompareValues(a, b, type, component, registry) ==
  IF type = NoType \/ a = <<"missing">> \/ b = <<"missing">> THEN a = b
  ELSE CanonicalValue(a, type, component, registry.components)
         = CanonicalValue(b, type, component, registry.components)

Lookup(map, key) == IF key \in DOMAIN map THEN map[key] ELSE NoType
NoOperation == [inputs |-> [n \in {} |-> NoType], observations |-> [n \in {} |-> NoType],
                outcomes |-> [result |-> NoType, empty |-> FALSE,
                              errors |-> [n \in {} |-> NoType]]]

(* compare_events: position by position.                                   *)
CompareEvent(a, b, operation, component, registry) ==
  LET Same(key, type) ==
        CompareValues(Attr(a.attrs, key), Attr(b.attrs, key), type, component, registry)
      Declared(key, map) ==
        IF Attr(a.attrs, key) = Attr(b.attrs, key)
        THEN Lookup(map, Attr(a.attrs, key)[2][2]) ELSE NoType
      Check(kind, holds) == IF holds THEN {} ELSE Mismatch(kind)
  IN IF a.name # b.name THEN Mismatch("event.name")
     ELSE CASE a.name = "observation" ->
            Differ("observation", Attr(a.attrs, "observation.name"),
                                  Attr(b.attrs, "observation.name"))
            \cup Check("observation.value",
                   Same("observation.value",
                        Declared("observation.name", operation.observations)))
       [] a.name = "result" -> Check("result", Same("result.value", operation.outcomes.result))
       [] a.name = "error" ->
            Differ("error", Attr(a.attrs, "error.name"), Attr(b.attrs, "error.name"))
            \cup Check("error.value",
                   Same("error.value", Declared("error.name", operation.outcomes.errors)))
       [] a.name = "fault" -> Check("fault", Same("fault.type", NoType))
                              \cup Check("fault", Same("fault.message", NoType))
       [] OTHER -> {}

CompareCommonEvents(a, b, operation, component, registry) ==   \* mutant: counts ignored
  UNION {CompareEvent(a[i], b[i], operation, component, registry) :
           i \in DOMAIN a \cap DOMAIN b}

CompareEvents(a, b, operation, component, registry) ==
  (IF Len(a) = Len(b) THEN {} ELSE Mismatch("event.count"))
  \cup UNION {CompareEvent(a[i], b[i], operation, component, registry) :
                i \in DOMAIN a \cap DOMAIN b}

CompareInputs(a, b, operation, component, registry) ==
  LET x == a.attrs["operation.inputs"][2]
      y == b.attrs["operation.inputs"][2]
  IN UNION {IF CompareValues(Attr(x, n), Attr(y, n), Lookup(operation.inputs, n),
                             component, registry)
            THEN {} ELSE Mismatch("input") : n \in DOMAIN x \cup DOMAIN y}

RECURSIVE CompareChildren(_, _, _, _, _)

(* Mutant: what an operation called is not looked at.                      *)
CompareChildShallow(a, b, left, right, registry) ==
  LET component == String(a.attrs, "component.id")[2]
      name == String(a.attrs, "operation.name")[2]
      operation == IF FindOperation(registry, component, name)
                   THEN registry.components[component].operations[name] ELSE NoOperation
  IN IF a.name # "operation" \/ b.name # "operation" THEN Mismatch("span")
     ELSE CompareEvents(a.events, b.events, operation, component, registry)

(* compare_operation, compare_parallel and compare_child.                  *)
CompareChild(a, b, left, right, registry) ==
  IF a.name # b.name THEN Mismatch("span")
  ELSE CASE a.name = "operation" ->
         LET component == String(a.attrs, "component.id")[2]
             name == String(a.attrs, "operation.name")[2]
             operation == IF /\ SpanIdentity(a) = SpanIdentity(b)
                             /\ FindOperation(registry, component, name)
                          THEN registry.components[component].operations[name]
                          ELSE NoOperation
         IN Differ("identity", SpanIdentity(a), SpanIdentity(b))
            \cup CompareInputs(a, b, operation, component, registry)
            \cup CompareEvents(a.events, b.events, operation, component, registry)
            \cup CompareChildren(a, b, left, right, registry)
    [] a.name = "parallel" ->
         CompareEvents(a.events, b.events, NoOperation, Absent, registry)
         \cup CompareChildren(a, b, left, right, registry)
    [] OTHER -> Mismatch("span")

CompareReferenceBranches(a, b, left, right, registry) ==   \* mutant: reference's only
  LET xs == Children(left, a)
      ys == Children(right, b)
      Ids(cs) == {SpanIdentity(cs[i]) : i \in DOMAIN cs}
      Child(cs, id) == cs[CHOOSE i \in DOMAIN cs : SpanIdentity(cs[i]) = id]
  IN (IF Ids(xs) \subseteq Ids(ys) THEN {} ELSE Mismatch("branch"))
     \cup UNION {CompareChild(Child(xs, id), Child(ys, id), left, right, registry) :
                   id \in Ids(xs) \cap Ids(ys)}

CompareParallel(a, b, left, right, registry) ==
  LET xs == Children(left, a)
      ys == Children(right, b)
      Ids(cs) == {SpanIdentity(cs[i]) : i \in DOMAIN cs}
      Child(cs, id) == cs[CHOOSE i \in DOMAIN cs : SpanIdentity(cs[i]) = id]
  IN IF Cardinality(Ids(xs)) # Len(xs) \/ Cardinality(Ids(ys)) # Len(ys)
     THEN Error("ambiguous branch")
     ELSE Differ("branch", Ids(xs), Ids(ys))
          \cup UNION {CompareChild(Child(xs, id), Child(ys, id), left, right, registry) :
                        id \in Ids(xs) \cap Ids(ys)}

CompareChildren(a, b, left, right, registry) ==
  IF "parallel" \in {a.name, b.name} THEN CompareParallel(a, b, left, right, registry)
  ELSE LET xs == SortedChildren(left, a)
           ys == SortedChildren(right, b)
       IN IF ~StrictlyOrdered(Children(left, a)) \/ ~StrictlyOrdered(Children(right, b))
          THEN Error("order")
          ELSE (IF Len(xs) = Len(ys) THEN {} ELSE Mismatch("child count"))
               \cup UNION {CompareChild(xs[i], ys[i], left, right, registry) :
                             i \in DOMAIN xs \cap DOMAIN ys}

CompareContainer(a, b, left, right, registry) ==
  CompareEvents(a.events, b.events, NoOperation, Absent, registry)
  \cup CompareChildren(a, b, left, right, registry)

Runs(spans) == SelectSeq(spans, LAMBDA s : s.name = "run")
Scenarios(spans) ==
  SelectSeq(Children(spans, Runs(spans)[1]), LAMBDA s : s.name = "scenario")
ScenarioNames(spans) ==
  {String(Scenarios(spans)[i].attrs, "scenario.name") : i \in DOMAIN Scenarios(spans)}

CompareDocuments(left, right, registry) ==
  IF Len(Runs(left)) # 1 \/ Len(Runs(right)) # 1 THEN Error("run count")
  ELSE LET Unique(spans) == IF Cardinality(ScenarioNames(spans)) = Len(Scenarios(spans))
                            THEN {} ELSE Error("scenario name")
           Scenario(spans, name) ==     \* the last of that name
             LET ss == Scenarios(spans) IN
             ss[SelectLastInSeq(ss, LAMBDA s : String(s.attrs, "scenario.name") = name)]
       IN CompareEvents(Runs(left)[1].events, Runs(right)[1].events,
                        NoOperation, Absent, registry)
          \cup Unique(left) \cup Unique(right)
          \cup Differ("scenario", ScenarioNames(left), ScenarioNames(right))
          \cup UNION {CompareContainer(Scenario(left, n), Scenario(right, n),
                                       left, right, registry) :
                        n \in ScenarioNames(left) \cap ScenarioNames(right)}

(* compare_loaded: "invalid", "unlinked", or the diagnostics.              *)
CompareLoaded(left, right, registry) ==
  IF ~TraceOk(left) \/ ~TraceOk(right) THEN Error("invalid")
  ELSE LET xs == LoadSpans(left)
           ys == LoadSpans(right)
       IN IF registry # NoRegistry /\ ~(LinkedOk(xs, registry) /\ LinkedOk(ys, registry))
          THEN Error("unlinked")
          ELSE CompareDocuments(xs, ys, registry)

Equivalent(left, right, registry) == CompareLoaded(left, right, registry) = {}
=============================================================================
