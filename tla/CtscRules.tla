------------------------------ MODULE CtscRules ------------------------------
(***************************************************************************)
(* The rules the spans of a trace must keep (specgate-ctsc                 *)
(* validation/trace.rs, trace/ancestry.rs, trace/fault.rs, trace/fields.rs *)
(* and trace_model.rs).                                                    *)
(*                                                                         *)
(* Attribute maps hold CTSC keys only, written without their               *)
(* `conformance.' prefix: keys of other namespaces are never looked at.    *)
(* Locations and messages of issues are left out: an operator below says   *)
(* that no issue is raised.                                                *)
(***************************************************************************)
EXTENDS Integers, FiniteSets, Sequences, CtscTexts

CONSTANT QualifiedFaults    \* producer-qualified dotted fault types

Roles == {"run", "scenario", "operation", "parallel"}
EventNames == {"observation", "result", "empty", "error", "fault", "abandoned"}
Statuses == {"unset", "ok", "error"}

NoId   == -1    \* an absent parentSpanId; 0 is the all-zero identifier
NoTime == -1    \* an absent timestamp

Text(w) == <<"string", Word(w)>>     \* a string attribute
String(attrs, key) == attrs[key][2]

(* require_str, check_attr, reject_attrs, is_hex_id                        *)
HasString(attrs, key) == key \in DOMAIN attrs /\ attrs[key][1] = "string"
Typed(attrs, key, kind) == key \in DOMAIN attrs => attrs[key][1] = kind
OnlyAttrs(attrs, allowed) == DOMAIN attrs \subseteq allowed
IsHexId(id) == id > 0

RunAttrs       == {"run.id", "run.name"}
ScenarioAttrs  == {"scenario.name", "scenario.index"}
OperationAttrs == {"component.id", "operation.name", "operation.inputs"}
ParallelAttrs  == {"parallel.name"}
FaultText == {"fault.message", "fault.native_type", "fault.phase", "fault.signal",
              "fault.operation.name", "fault.operation.component_id"}
FaultInt  == {"fault.exit_code", "fault.timeout_ms"}
FaultAttrs == {"fault.type", "fault.observer"} \cup FaultText \cup FaultInt
SupervisorFaults == {"launch_failure", "process_exit", "signal", "timeout",
                     "deadlock", "host_loss", "export_failure"}
-----------------------------------------------------------------------------
(* Ancestry.  by_id maps a trace and span identifier to the spans that     *)
(* have it; a span's parents are the spans its parent identifier names.    *)

Candidates(spans, trace, id) ==
  {i \in DOMAIN spans : spans[i].trace = trace /\ spans[i].id = id}
Key(span) == <<span.trace, span.id>>
UniqueKeys(spans) == \A i, j \in DOMAIN spans : Key(spans[i]) = Key(spans[j]) => i = j

Parents(spans, i) ==
  IF spans[i].name = "run" \/ spans[i].parent = NoId THEN {}
  ELSE Candidates(spans, spans[i].trace, spans[i].parent)
-----------------------------------------------------------------------------
(* Spans and events.                                                       *)

ValidInterval(span) ==
  span.start # NoTime /\ span.end # NoTime /\ span.start <= span.end

ParentName(spans, span) ==
  LET parents == Candidates(spans, span.trace, span.parent)
  IN IF Cardinality(parents) = 1 THEN spans[CHOOSE p \in parents : TRUE].name ELSE "other"

IdsOk(span) == IsHexId(span.trace) /\ IsHexId(span.id)

SpanOk(spans, span) ==
  LET parents == Candidates(spans, span.trace, span.parent)
      parent == ParentName(spans, span)
      attrs == span.attrs
  IN
  /\ ~span.dropped
  /\ Cardinality(parents) <= 1
  /\ ValidInterval(span)
  /\ CASE span.name = "run" ->
            /\ OnlyAttrs(attrs, RunAttrs) /\ span.parent = NoId
            /\ HasString(attrs, "run.id") /\ Typed(attrs, "run.name", "string")
       [] span.name = "scenario" ->
            /\ OnlyAttrs(attrs, ScenarioAttrs) /\ parent = "run"
            /\ HasString(attrs, "scenario.name") /\ Typed(attrs, "scenario.index", "int")
       [] span.name = "operation" ->
            /\ OnlyAttrs(attrs, OperationAttrs)
            /\ parent \in {"scenario", "operation", "parallel"}
            /\ HasString(attrs, "component.id") /\ HasString(attrs, "operation.name")
            /\ "operation.inputs" \in DOMAIN attrs /\ attrs["operation.inputs"][1] = "kvlist"
       [] span.name = "parallel" ->
            /\ OnlyAttrs(attrs, ParallelAttrs) /\ parent \in {"scenario", "operation"}
            /\ Typed(attrs, "parallel.name", "string")
  /\ parent = "parallel" =>
       LET p == spans[CHOOSE i \in parents : TRUE]
       IN ValidInterval(p) /\ p.start <= span.start /\ span.end <= p.end

(* What a fault event must say, and on which span it may stand.            *)
FaultOk(name, attrs) ==
  /\ OnlyAttrs(attrs, FaultAttrs)
  /\ name \in {"run", "scenario", "operation"}
  /\ HasString(attrs, "fault.type") /\ HasString(attrs, "fault.observer")
  /\ LET type == String(attrs, "fault.type")
         observer == String(attrs, "fault.observer")
     IN /\ type = Word("incomplete_capture") => observer = Word("target")
        /\ observer = Word("target") => name = "operation"
        /\ observer = Word("supervisor") =>
             /\ name \in {"run", "scenario"}
             /\ type[2] \in SupervisorFaults \cup QualifiedFaults
  /\ \A k \in FaultText : Typed(attrs, k, "string")
  /\ \A k \in FaultInt : Typed(attrs, k, "int")

EventOk(name, event) ==
  /\ event.name \in EventNames
  /\ event.name # "fault" => name = "operation"
  /\ CASE event.name = "observation" ->
            /\ OnlyAttrs(event.attrs, {"observation.name", "observation.value"})
            /\ HasString(event.attrs, "observation.name")
            /\ "observation.value" \in DOMAIN event.attrs
       [] event.name = "result" -> DOMAIN event.attrs = {"result.value"}
       [] event.name = "error" ->
            /\ OnlyAttrs(event.attrs, {"error.name", "error.value"})
            /\ HasString(event.attrs, "error.name")
       [] event.name = "fault" -> FaultOk(name, event.attrs)
       [] OTHER -> DOMAIN event.attrs = {}

Occurrences(span, names) ==
  Cardinality({i \in DOMAIN span.events : span.events[i].name \in names})
Failures  == {"empty", "error", "fault", "abandoned"}
Terminals == Failures \cup {"result"}

EventsUnordered(span) ==   \* mutant: nothing forbids events after the terminal one
  LET has(name) == Occurrences(span, {name}) > 0 IN
  /\ \A i \in DOMAIN span.events : EventOk(span.name, span.events[i])
  /\ span.name = "operation" =>
       /\ Occurrences(span, Failures) <= 1
       /\ has("result") => Occurrences(span, Failures) = 0
       /\ has("error") \/ has("fault") => span.status = "error"

EventsOk(span) ==
  LET has(name) == Occurrences(span, {name}) > 0 IN
  /\ \A i \in DOMAIN span.events : EventOk(span.name, span.events[i])
  /\ span.name = "operation" =>
       /\ \A i, j \in DOMAIN span.events :
            span.events[i].name \in Terminals => j <= i
       /\ Occurrences(span, Failures) <= 1
       /\ has("result") => Occurrences(span, Failures) = 0
       /\ Occurrences(span, {"result"}) <= 1
       /\ has("error") \/ has("fault") => span.status = "error"
       /\ has("abandoned") => span.status = "unset"
       /\ Occurrences(span, Terminals) > 0 \/ span.status = "ok"
  /\ span.name \in {"run", "scenario"} /\ has("fault") => span.status = "error"

(* validate_semantics reports no issue besides those of the ancestry.      *)
RulesOk(spans) ==
  /\ UniqueKeys(spans)
  /\ \A i \in DOMAIN spans :
       IdsOk(spans[i]) /\ SpanOk(spans, spans[i]) /\ EventsOk(spans[i])
=============================================================================
