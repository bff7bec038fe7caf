-------------------------- MODULE MCTraceValidation --------------------------
EXTENDS TraceValidation, CtscTrace

None == [k \in {} |-> {}]
Event(name, attrs) == [name |-> name, attrs |-> attrs]
Attrs(name) ==
  CASE name = "run"       -> [k \in {"run.id"} |-> Text("r")]
    [] name = "scenario"  -> [k \in {"scenario.name"} |-> Text("s")]
    [] name = "operation" -> [k \in OperationAttrs |->
                                IF k = "operation.inputs" THEN <<"kvlist", None>> ELSE Text("f")]
Span(name, trace, id, parent) ==
  [trace |-> trace, id |-> id, parent |-> parent, name |-> name, start |-> 0, end |-> 9,
   attrs |-> Attrs(name), events |-> <<>>, status |-> "ok",
   dropped |-> FALSE, resource |-> None]

(* Every way to hang n spans under each other, and under spans that are    *)
(* not there, with some runs that claim a parent.                          *)
Kinds(n) == {<<"run", NoId>>, <<"run", 1>>} \cup ({"operation"} \X ({NoId} \cup 1..(n + 1)))
Hung(n) == {[i \in 1..n |-> Span(k[i][1], 1, i, k[i][2])] : k \in [1..n -> Kinds(n)]}

(* Identifiers met twice, zero identifiers, and two traces.                *)
Shared ==
  {[i \in 1..3 |-> Span(k[i][1], ids[i][1], ids[i][2], k[i][2])] :
     k \in [1..3 -> {<<"run", NoId>>, <<"operation", 1>>, <<"operation", 2>>}],
     ids \in [1..3 -> {<<1, 1>>, <<1, 2>>, <<2, 1>>, <<2, 0>>}]}

(* A valid document around one operation's events.                         *)
Fault(type, observer) ==
  Event("fault", [k \in {"fault.type", "fault.observer"} |->
                    IF k = "fault.type" THEN Text(type) ELSE Text(observer)])
AnyEvent ==
  {Event("observation", [k \in {"observation.name", "observation.value"} |-> Text("o")]),
   Event("result", [k \in {"result.value"} |-> Text("v")]),
   Event("error", [k \in {"error.name"} |-> Text("e")]),
   Event("empty", None), Event("abandoned", None), Event("other", None),
   Fault("panic", "target"), Fault("timeout", "supervisor"),
   Fault("incomplete_capture", "supervisor"), Fault("acme.crash", "supervisor")}
Recorded ==
  {<<Span("operation", 1, 3, 2), Span("scenario", 1, 2, 1), Span("run", 1, 1, NoId)>>}
WithEvents ==
  {[d EXCEPT ![i].events = es, ![i].status = st] :
     d \in Recorded, i \in 1..3, es \in SeqOf(AnyEvent, 2), st \in Statuses}

MCDocuments == {<<>>} \cup Hung(3) \cup Hung(4) \cup Shared \cup WithEvents

(* CtscTrace's direct climb decides the ancestry of a document too.        *)
ASSUME DirectClimb ==
  \A d \in MCDocuments : UniqueKeys(d) => (AncestryOk(d) <=> Forest(d))
=============================================================================
