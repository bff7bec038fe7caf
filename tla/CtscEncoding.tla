---------------------------- MODULE CtscEncoding ----------------------------
(***************************************************************************)
(* From captured scenarios to the three files of a bundle (specgate-ctsc   *)
(* capture.rs, capture/encoding.rs and capture/otlp.rs; specgate-cli       *)
(* capture/encoding.rs), and the validation of such a bundle               *)
(* (specgate-ctsc validation/bundle.rs).                                   *)
(*                                                                         *)
(* Captures are those of module CaptureFilter; inputs are a sequence of    *)
(* <<name, value>>, a completion is [kind, order, name, value].            *)
(* Digests are the bytes they are of.                                      *)
(***************************************************************************)
EXTENDS CtscComparison, CaptureFilter

CONSTANTS
  MaxId,      \* the last span identifier (u64::MAX)
  MaxTime     \* the last timestamp (i64::MAX)
-----------------------------------------------------------------------------
(* The trace.                                                              *)

String_(w) == Encode(<<"String", Word(w)>>)       \* string_attribute
Reference == [trace |-> 1, first |-> 1]
Candidate == [trace |-> 2, first |-> (MaxId + 1) \div 2 + 1]

(* Observations and the completion, by their order of recording.           *)
OperationEvents(op) ==
  LET Observation(o) ==
        [order |-> o.order,
         event |-> [name |-> "observation",
                    attrs |-> [k \in {"observation.name", "observation.value"} |->
                                IF k = "observation.name" THEN String_(o.name)
                                ELSE Encode(o.value)]]]
      c == op.completion
      attrs ==
        CASE c.kind = "result" -> [k \in {"result.value"} |-> Encode(c.value)]
          [] c.kind = "error" ->
               [k \in {"error.name"} \cup (IF c.value = NoValue THEN {} ELSE {"error.value"}) |->
                 IF k = "error.name" THEN String_(c.name) ELSE Encode(c.value)]
          [] c.kind = "fault" ->
               [k \in {"fault.type", "fault.message", "fault.observer"} |->
                 CASE k = "fault.type" -> String_("unexpected_fault")
                   [] k = "fault.observer" -> String_("target")
                   [] OTHER -> String_("operation unwound before returning")]
          [] OTHER -> [k \in {} |-> {}]
      all == MapSeq(Observation, op.observations)
             \o (IF c.kind = "unit" THEN <<>>
                 ELSE <<[order |-> c.order, event |-> [name |-> c.kind, attrs |-> attrs]]>>)
      order == SetToSortSeq(DOMAIN all, LAMBDA i, j : all[i].order < all[j].order)
  IN [i \in DOMAIN order |-> all[order[i]].event]

Span(identity, id, parent, name, interval, status, attrs, events) ==
  [trace |-> identity.trace, id |-> id, parent |-> parent, name |-> name,
   start |-> interval[1], end |-> interval[2], status |-> status, attrs |-> attrs,
   events |-> events, dropped |-> FALSE, resource |-> [k \in {} |-> {}]]

OperationSpan(identity, op, id, parent, offset) ==
  Span(identity, id, parent, "operation", <<op.start + offset, op.end + offset>>, op.status,
       [k \in OperationAttrs |->
          CASE k = "component.id" -> String_(op.component)
            [] k = "operation.name" -> String_(op.name)
            [] OTHER -> Encode(<<"Map", op.inputs>>)],
       OperationEvents(op))

Total(numbers) == FoldLeft(LAMBDA a, b : a + b, 0, numbers)

(* The k-th scenario: identifiers follow on from the scenarios before, one *)
(* for it and one for each operation, and the capture's clock is moved so  *)
(* that it starts one tick after the last one ended.                       *)
NextId(captures, identity, k) ==
  identity.first + 1 + Total([j \in 1..(k - 1) |-> 1 + Len(captures[j].operations)])
NextTime(captures, k) ==
  2 + Total([j \in 1..(k - 1) |-> captures[j].end - captures[j].start + 1])

Position(ops, id) == SelectInSeq(ops, LAMBDA o : o.id = id)

ScenarioEncodes(captures, identity, k) ==
  LET ops == captures[k].operations
      offset == NextTime(captures, k) - captures[k].start
  IN /\ NextId(captures, identity, k) + Len(ops) < MaxId
     /\ NoDuplicates([i \in DOMAIN ops |-> ops[i].id])
     /\ \A i \in DOMAIN ops : \/ ops[i].parent = captures[k].scenario
                              \/ Position(ops, ops[i].parent) # 0
     /\ captures[k].end + offset < MaxTime
     /\ \A i \in DOMAIN ops : ops[i].end + offset <= MaxTime

EncodeScenario(captures, identity, k) ==
  LET capture == captures[k]
      ops == capture.operations
      id == NextId(captures, identity, k)
      start == NextTime(captures, k)
      offset == start - capture.start
      Parent(o) == IF o.parent = capture.scenario THEN id ELSE id + Position(ops, o.parent)
  IN <<Span(identity, id, identity.first, "scenario", <<start, capture.end + offset>>,
            capture.status,
            [a \in ScenarioAttrs |-> IF a = "scenario.name" THEN String_(capture.name)
                                     ELSE Encode(<<"Integer", k - 1>>)], <<>>)>>
     \o [i \in DOMAIN ops |-> OperationSpan(identity, ops[i], id + i, Parent(ops[i]), offset)]

(* encode: the raw document, or <<>> when it returns an error.             *)
EncodeTrace(captures, metadata, identity) ==
  LET run == Span(identity, identity.first, NoId, "run",
                  <<1, NextTime(captures, Len(captures) + 1)>>,
                  IF \E k \in DOMAIN captures : captures[k].status = "error"
                  THEN "error" ELSE "ok",
                  [a \in {"run.id"} |-> String_(IF identity = Reference THEN "specgate.capture"
                                                ELSE "specgate.replay")], <<>>)
  IN IF captures = <<>> \/ \E k \in DOMAIN captures : ~ScenarioEncodes(captures, identity, k)
     THEN <<>>
     ELSE <<[resource |-> [a \in DOMAIN metadata |-> String_(metadata[a])],
             scopes |-> <<[attrs |-> [a \in {} |-> {}],
                           spans |-> <<run>> \o FlattenSeq([k \in DOMAIN captures |->
                                       EncodeScenario(captures, identity, k)])]>>]>>

MetadataOf(target, language, registry) ==
  [k \in RequiredResource \cup {"registry.id", "registry.version", "registry.digest"} |->
     CASE k = "version" -> CtscVersion
       [] k = "tool.name" -> "specgate"
       [] k = "tool.version" -> "1.0.0"
       [] k = "target.name" -> target
       [] k = "target.language" -> language
       [] k = "registry.id" -> registry.id
       [] k = "registry.version" -> registry.version
       [] OTHER -> registry.digest]
-----------------------------------------------------------------------------
(* The bundle.  declared maps a component to its normalized schema.        *)

NoBundle == <<"none">>

Components(captures, component) ==
  {component} \cup UNION {{o.component : o \in ToSet(c.operations)} : c \in ToSet(captures)}

RegistryFor(components, component, declared) ==
  [id |-> component, version |-> "1", digest |-> components,
   components |-> [c \in components |-> declared[c]]]

Linked(raw, registry) == RawTraceOk(raw) /\ LinkedOk(LoadSpans(ParseDocument(raw)), registry)

(* encode_bundle: <<registry, trace, manifest>> or NoBundle.  The bundle   *)
(* is not written when nothing was captured for the component, a component *)
(* is not declared, the trace cannot be encoded or does not link.          *)
EncodeBundle(captures, component, target, declared) ==
  LET kept == Filter(captures, component)
      components == Components(kept, component)
      registry == RegistryFor(components, component, declared)
      trace == EncodeTrace(kept, MetadataOf(target, "rust", registry), Reference)
      manifest == [component |-> component, target |-> target, language |-> "rust",
                   tool |-> "specgate", toolVersion |-> "1.0.0",
                   registryId |-> registry.id, registryVersion |-> registry.version,
                   registryDigest |-> registry.digest, traceDigest |-> trace,
                   count |-> Len(kept),
                   names |-> [i \in DOMAIN kept |-> kept[i].name]]
  IN IF \/ kept = <<>> \/ ~(components \subseteq DOMAIN declared)
     THEN NoBundle
     ELSE IF trace = <<>> THEN NoBundle
     ELSE IF ~Linked(trace, registry) THEN NoBundle
     ELSE <<"bundle", registry, trace, manifest>>
-----------------------------------------------------------------------------
(* validate_bundle.  Format markers, file names and the spelling of        *)
(* digests are constants of the manifest's writer.                         *)

ManifestOk(m) ==
  /\ \A text \in {m.component, m.target, m.language, m.tool, m.toolVersion,
                  m.registryId, m.registryVersion} : text # ""
  /\ m.count > 0
  /\ m.count = Len(m.names)
  /\ NoDuplicates(m.names)

DigestsOk(m, registry, trace) ==
  m.registryDigest = registry.digest /\ m.traceDigest = trace

(* Scenarios of the run by (index, position), a missing index last.        *)
IndexedScenarios(spans) ==
  LET run == Runs(spans)[1]
      found == SelectSeq([i \in DOMAIN spans |-> i],
                 LAMBDA i : /\ spans[i].name = "scenario" /\ spans[i].trace = run.trace
                            /\ spans[i].parent = run.id)
      Index(i) == IF "scenario.index" \in DOMAIN spans[i].attrs
                  THEN spans[i].attrs["scenario.index"][2] ELSE MaxTime
      order == SetToSortSeq(ToSet(found),
                 LAMBDA i, j : \/ Index(i) < Index(j)
                               \/ Index(i) = Index(j) /\ i < j)
  IN [k \in DOMAIN order |->
        [index |-> Index(order[k]), span |-> spans[order[k]],
         name |-> String(spans[order[k]].attrs, "scenario.name")[2]]]

SemanticsOk(m, registry, spans) ==
  /\ m.registryId = registry.id /\ m.registryVersion = registry.version
  /\ m.component \in DOMAIN registry.components
  /\ Len(Runs(spans)) = 1
  /\ \A i \in DOMAIN spans :
       /\ String(spans[i].resource, "target.name") = Word(m.target)
       /\ String(spans[i].resource, "target.language") = Word(m.language)
       /\ String(spans[i].resource, "tool.name") = Word(m.tool)
       /\ String(spans[i].resource, "tool.version") = Word(m.toolVersion)
  /\ LET scenarios == IndexedScenarios(spans) IN
     /\ \A k \in DOMAIN scenarios : scenarios[k].index = k - 1
     /\ [k \in DOMAIN scenarios |-> scenarios[k].name] = m.names

BundleOk(bundle) ==
  LET registry == bundle[2]
      trace == bundle[3]
      m == bundle[4]
  IN /\ ManifestOk(m) /\ RawTraceOk(trace) /\ DigestsOk(m, registry, trace)
     /\ LinkedOk(LoadSpans(ParseDocument(trace)), registry)
     /\ SemanticsOk(m, registry, LoadSpans(ParseDocument(trace)))
=============================================================================
