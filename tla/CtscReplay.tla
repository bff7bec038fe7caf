----------------------------- MODULE CtscReplay -----------------------------
(***************************************************************************)
(* What replay reads of a bundle (specgate-ctsc replay.rs,                 *)
(* replay/manifest.rs, replay/model.rs, replay/otlp.rs, replay/otlp/wire.rs*)
(* and replay/otlp/value.rs).  The decoder shares no code with the         *)
(* validator: it reads the raw document with its own wire model and its    *)
(* own rules.                                                              *)
(***************************************************************************)
EXTENDS CtscEncoding

(* Identity fields non-empty, digests well formed, count and names agree.  *)
ManifestValid(m) ==
  /\ \A text \in {m.component, m.target, m.language, m.tool, m.toolVersion,
                  m.registryId, m.registryVersion} : text # ""
  /\ m.count > 0
  /\ m.count = Len(m.names)
  /\ NoDuplicates(m.names)

Operations(registry, component) ==
  IF component \in DOMAIN registry.components
  THEN registry.components[component].operations ELSE [o \in {} |-> {}]

(* Outcome types the decoder leaves to linked validation.                  *)
Structured(t) == t # NoType /\ t[1] # "prim"
HasStructuredOutcome(registry) ==
  \E c \in DOMAIN registry.components : \E o \in DOMAIN Operations(registry, c) :
    LET outcomes == Operations(registry, c)[o].outcomes IN
    \/ Structured(outcomes.result)
    \/ \E e \in DOMAIN outcomes.errors : Structured(outcomes.errors[e])

WireDocumentOk(raw) ==
  LET Ok(attrs) == \A k \in DOMAIN attrs : WireOk(attrs[k]) IN
  \A i \in DOMAIN raw : /\ Ok(raw[i].resource)
                        /\ \A s \in DOMAIN raw[i].scopes :
                             LET spans == raw[i].scopes[s].spans IN
                             \A j \in DOMAIN spans :
                               /\ Ok(spans[j].attrs)
                               /\ \A e \in DOMAIN spans[j].events : Ok(spans[j].events[e].attrs)

RequireString(attrs, key) == key \in DOMAIN attrs /\ Variant(attrs[key]) = "string"
StringIs(attrs, key, w) == RequireString(attrs, key) /\ Payload(attrs[key]) = Word(w)
-----------------------------------------------------------------------------
(* An operation's inputs, and an outcome replay can reproduce.             *)

PrimitiveDecodes(raw, t) == t[1] = "prim" => DecodeValue(raw, t) # Invalid

OutcomeDecodes(event, declaration) ==
  LET outcomes == declaration.outcomes
      attrs == event.attrs
  IN CASE event.name = "result" ->
            /\ outcomes.result # NoType
            /\ "result.value" \in DOMAIN attrs
            /\ PrimitiveDecodes(attrs["result.value"], outcomes.result)
       [] event.name = "empty" -> outcomes.empty
       [] event.name = "error" ->
            /\ RequireString(attrs, "error.name")
            /\ LET name == Payload(attrs["error.name"])[2] IN
               /\ name \in DOMAIN outcomes.errors
               /\ (outcomes.errors[name] # NoType) <=> ("error.value" \in DOMAIN attrs)
               /\ outcomes.errors[name] # NoType =>
                    PrimitiveDecodes(attrs["error.value"], outcomes.errors[name])
       [] event.name \in {"fault", "abandoned"} -> TRUE
       [] OTHER -> FALSE      \* an observation, or an event replay does not know

DecodeOperation(span, registry) ==
  LET attrs == span.attrs
      component == Payload(attrs["component.id"])[2]
      name == Payload(attrs["operation.name"])[2]
      declaration == Operations(registry, component)[name]
      entries == Payload(attrs["operation.inputs"])
      names == [i \in DOMAIN entries |-> entries[i][1]]
      Value(n) == DecodeValue(entries[CHOOSE i \in DOMAIN entries : entries[i][1] = n][2],
                              declaration.inputs[n])
      terminals == Occurrences(span, {"result", "empty", "error"})
                   + Cardinality({n \in {"fault", "abandoned"} : Occurrences(span, {n}) > 0})
      decodes ==
        /\ RequireString(attrs, "component.id") /\ RequireString(attrs, "operation.name")
        /\ name \in DOMAIN Operations(registry, component)
        /\ "operation.inputs" \in DOMAIN attrs
        /\ Variant(attrs["operation.inputs"]) = "kvlist"
        /\ NoDuplicates(names) /\ ToSet(names) = DOMAIN declaration.inputs
        /\ \A n \in DOMAIN declaration.inputs : Value(n) # Invalid
        /\ \A i \in DOMAIN span.events : OutcomeDecodes(span.events[i], declaration)
        /\ terminals <= 1
        /\ declaration.outcomes.result # NoType => terminals = 1
  IN IF decodes
     THEN <<"operation", component, name, [n \in DOMAIN declaration.inputs |-> Value(n)]>>
     ELSE Invalid
-----------------------------------------------------------------------------
(* Scenarios.                                                              *)

(* No operation overlaps another one beside it.                            *)
SiblingsInTurn(spans) ==
  \A i \in DOMAIN spans :
    InTurn(spans, {j \in DOMAIN spans : /\ spans[j].name = "operation"
                                       /\ spans[j].trace = spans[i].trace
                                       /\ spans[j].parent = spans[i].parent})

ScenarioRefs(spans) ==
  LET found == {i \in DOMAIN spans : spans[i].name = "scenario"}
      Index(i) == ParseInteger(<<"str", Payload(spans[i].attrs["scenario.index"])>>, I64)[2]
      order == SetToSortSeq(found, LAMBDA i, j : \/ Index(i) < Index(j)
                                                 \/ Index(i) = Index(j) /\ i < j)
  IN [k \in DOMAIN order |-> [index |-> Index(order[k]), span |-> spans[order[k]],
                              name |-> Payload(spans[order[k]].attrs["scenario.name"])[2]]]

ScenarioRefOk(spans, span) ==
  /\ ParentName(spans, span) = "run"
  /\ RequireString(span.attrs, "scenario.name")
  /\ "scenario.index" \in DOMAIN span.attrs
  /\ DecodeInteger(span.attrs["scenario.index"], I64) # Invalid

(* Mutant: every operation under the scenario is taken, nested ones too.   *)
TopLevelNested(spans, scenario) ==
  LET found == {i \in DOMAIN spans : /\ spans[i].name = "operation"
                                     /\ spans[i].start >= scenario.start
                                     /\ spans[i].end <= scenario.end}
  IN SetToSortSeq(found, LAMBDA i, j : \/ spans[i].start < spans[j].start
                                       \/ spans[i].start = spans[j].start /\ i < j)

TopLevel(spans, scenario) ==
  LET found == {i \in DOMAIN spans : /\ spans[i].name = "operation"
                                     /\ spans[i].trace = scenario.trace
                                     /\ spans[i].parent = scenario.id}
  IN SetToSortSeq(found, LAMBDA i, j : \/ spans[i].start < spans[j].start
                                       \/ spans[i].start = spans[j].start /\ i < j)

ReferenceResourceOk(resource, registry) ==
  /\ StringIs(resource, "version", CtscVersion)
  /\ \A k \in RequiredResource : RequireString(resource, k)
  /\ StringIs(resource, "registry.id", registry.id)
  /\ StringIs(resource, "registry.version", registry.version)
  /\ StringIs(resource, "registry.digest", registry.digest)

(* One root run, scenarios 0, 1, ... under it named as the manifest says.  *)
ScenariosDecode(spans, m) ==
  /\ spans # <<>>
  /\ \A i \in DOMAIN spans : IsHexId(spans[i].trace) /\ IsHexId(spans[i].id)
  /\ \A i, j \in DOMAIN spans : Key(spans[i]) = Key(spans[j]) => i = j
  /\ \A i \in DOMAIN spans : spans[i].start >= 0
  /\ Len(Runs(spans)) = 1 /\ Runs(spans)[1].parent = NoId
  /\ \A i \in DOMAIN spans : spans[i].name = "scenario" => ScenarioRefOk(spans, spans[i])
  /\ LET refs == ScenarioRefs(spans) IN
     /\ \A k \in DOMAIN refs : refs[k].index = k - 1
     /\ [k \in DOMAIN refs |-> refs[k].name] = m.names

(* Every operation decodes, and a sequential program can be made of them.  *)
OperationsDecode(spans, registry) ==
  LET operations == SelectSeq(spans, LAMBDA s : s.name = "operation") IN
  /\ \A i \in DOMAIN operations :
       LET parent == ParentName(spans, operations[i]) IN
       /\ parent \in {"scenario", "operation"}
       /\ parent = "scenario" => Occurrences(operations[i], {"abandoned"}) = 0
       /\ operations[i].end >= 0
       /\ DecodeOperation(operations[i], registry) # Invalid
  /\ SiblingsInTurn(operations)
  /\ \A i \in DOMAIN spans : spans[i].name # "parallel"

(* decode_scenarios: a sequence of [name, operations, positions], or <<>>. *)
(* positions are where the operations stand in the trace.                  *)
DecodeScenarios(raw, m, registry) ==
  LET spans == FlattenSeq([i \in DOMAIN raw[1].scopes |-> raw[1].scopes[i].spans])
      Scenario(ref) ==
        LET top == TopLevel(spans, ref.span) IN
        [name |-> ref.name, positions |-> top,
         operations |-> [k \in DOMAIN top |-> DecodeOperation(spans[top[k]], registry)]]
  IN IF /\ Len(raw) = 1 /\ ReferenceResourceOk(raw[1].resource, registry)
        /\ ScenariosDecode(spans, m)
        /\ OperationsDecode(spans, registry)
        /\ \A ref \in ToSet(ScenarioRefs(spans)) : TopLevel(spans, ref.span) # <<>>
     THEN MapSeq(Scenario, ScenarioRefs(spans))
     ELSE <<>>

(* decode_inner: manifest, digests, registry, trace, in that order.        *)
DecodeBundle(bundle) ==
  LET registry == bundle[2]
      trace == bundle[3]
      m == bundle[4]
  IN IF /\ ManifestValid(m)
        /\ DigestsOk(m, registry, trace)
        /\ m.registryId = registry.id /\ m.registryVersion = registry.version
        /\ HasStructuredOutcome(registry) => Linked(trace, registry)
        /\ DOMAIN Operations(registry, m.component) # {}
        /\ WireDocumentOk(trace)
     THEN DecodeScenarios(trace, m, registry)
     ELSE <<>>
=============================================================================
