--------------------------- MODULE MCCtscDocuments ---------------------------
EXTENDS CtscDocuments

None == [k \in {} |-> {}]
Event(name, attrs) == [name |-> name, attrs |-> attrs]
Span(name, id, parent, start, end, attrs, events, status) ==
  [trace |-> 1, id |-> id, parent |-> parent, name |-> name, start |-> start,
   end |-> end, attrs |-> attrs, events |-> events, status |-> status,
   dropped |-> FALSE, resource |-> None]

RunSpan(id)      == Span("run", id, NoId, 0, 9, [k \in {"run.id"} |-> Text("r")], <<>>, "ok")
Scenario(id, run) == Span("scenario", id, run, 0, 9,
                      [k \in {"scenario.name"} |-> Text("s")], <<>>, "ok")
Op(id, parent, times, name) ==
  Span("operation", id, parent, times[1], times[2],
       [k \in OperationAttrs |-> IF k = "component.id" THEN Text("c")
                                 ELSE IF k = "operation.name" THEN Text(name)
                                 ELSE <<"kvlist", None>>],
       <<>>, "ok")
Parallel(id, parent, times) ==
  Span("parallel", id, parent, times[1], times[2], None, <<>>, "ok")

MCSeeds ==
  { <<>>, <<RunSpan(1)>>, <<RunSpan(1), Scenario(2, 1)>>,
    <<Op(3, 4, <<1, 2>>, "f"), RunSpan(1), Scenario(2, 1)>>,
    <<Op(4, 3, <<1, 2>>, "f"), Op(3, 2, <<1, 2>>, "g"), RunSpan(1)>>,
    <<RunSpan(1), Scenario(2, 1), Op(3, 2, <<1, 3>>, "f")>>,
    <<RunSpan(1), Scenario(2, 1), Op(3, 2, <<3, 3>>, "g"), Op(5, 2, <<1, 3>>, "f")>>,
    <<RunSpan(1), Scenario(2, 1), Parallel(3, 2, <<1, 3>>)>> }

Intervals == {<<1, 2>>, <<2, 3>>, <<3, 3>>, <<1, 3>>}
MCNewSpans ==
  {RunSpan(3), [RunSpan(3) EXCEPT !.parent = 2], Scenario(4, 1), Scenario(3, 4)}
  \cup {Op(id, p, t, "f") : id \in 3..4, p \in 1..4, t \in Intervals}
  \cup {Op(id, p, <<1, 2>>, "g") : id \in 3..4, p \in 1..4}
  \cup {Op(4, 2, <<3, 1>>, "f"), Op(0, 2, <<1, 2>>, "f")}
  \cup {Parallel(id, p, <<1, 3>>) : id \in 3..4, p \in {2, 3}}

E(name) == Event(name, None)
Fault(type, observer) ==
  Event("fault", [k \in {"fault.type", "fault.observer"} |->
                    IF k = "fault.type" THEN Text(type) ELSE Text(observer)])
Observed == Event("observation", [k \in {"observation.name", "observation.value"} |-> Text("o")])
Result   == Event("result", [k \in {"result.value"} |-> Text("v")])
Failed   == Event("error", [k \in {"error.name"} |-> Text("e")])
AnyEvent == {Observed, Result, Failed, E("empty"), E("abandoned"), E("other"),
            Fault("panic", "target"), Fault("timeout", "supervisor"),
            Fault("incomplete_capture", "supervisor"), Fault("acme.crash", "supervisor")}
MCNewEvents == {<<es, st>> : es \in SeqOf(AnyEvent, 2), st \in Statuses}
=============================================================================
