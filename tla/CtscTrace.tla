------------------------------ MODULE CtscTrace ------------------------------
(***************************************************************************)
(* Trace documents as they are loaded (specgate-ctsc validation/trace.rs,  *)
(* load_bytes).                                                            *)
(*                                                                         *)
(* A document is a sequence of resource groups, each with its resource     *)
(* attributes and its scopes; a scope has attributes and spans.            *)
(***************************************************************************)
EXTENDS CtscValues, CtscRules

CONSTANT CtscVersion       \* the conformance.version this build supports

RequiredResource == {"version", "tool.name", "tool.version",
                     "target.name", "target.language"}
RegistryAttrs == {"registry.id", "registry.version", "registry.digest", "registry.uri"}
-----------------------------------------------------------------------------
(* parse_documents.  A raw document has the JSON AnyValue at every         *)
(* attribute; it parses when each of them does.                            *)

ParseAttributes(raw) == [k \in DOMAIN raw |-> Load(raw[k])]
ParseEvent(event) == [event EXCEPT !.attrs = ParseAttributes(@)]
ParseSpan(span) ==
  [span EXCEPT !.attrs = ParseAttributes(@), !.events = MapSeq(ParseEvent, @)]
ParseScope(scope) ==
  [attrs |-> ParseAttributes(scope.attrs), spans |-> MapSeq(ParseSpan, scope.spans)]
ParseDocument(raw) ==
  [i \in DOMAIN raw |-> [resource |-> ParseAttributes(raw[i].resource),
                         scopes |-> MapSeq(ParseScope, raw[i].scopes)]]

Parses(raw) ==
  LET Valid(attrs) == \A k \in DOMAIN attrs : Load(attrs[k]) # Invalid IN
  \A i \in DOMAIN raw :
    /\ Valid(raw[i].resource)
    /\ \A scope \in ToSet(raw[i].scopes) :
         /\ Valid(scope.attrs)
         /\ \A j \in DOMAIN scope.spans :
              /\ Valid(scope.spans[j].attrs)
              /\ \A e \in DOMAIN scope.spans[j].events : Valid(scope.spans[j].events[e].attrs)
-----------------------------------------------------------------------------
(* Loading: only spans with a CTSC name count, a scope or resource is      *)
(* checked only if it holds one, and dropped counts must be zero.          *)

CtscSpans(scope) == SelectSeq(scope.spans, LAMBDA s : s.name \in Roles)

GroupSpans(group) ==
  LET spans == FlattenSeq([i \in DOMAIN group.scopes |-> CtscSpans(group.scopes[i])])
  IN [i \in DOMAIN spans |-> [spans[i] EXCEPT !.resource = group.resource]]

ResourceOk(attrs) ==
  /\ OnlyAttrs(attrs, RequiredResource \cup RegistryAttrs)
  /\ \A k \in RequiredResource : HasString(attrs, k)
  /\ String(attrs, "version") = Word(CtscVersion)
  /\ \A k \in RegistryAttrs : Typed(attrs, k, "string")

GroupOk(group) ==
  GroupSpans(group) # <<>> =>
    /\ ResourceOk(group.resource)
    /\ \A i \in DOMAIN group.scopes :
         CtscSpans(group.scopes[i]) # <<>> => OnlyAttrs(group.scopes[i].attrs, {})

LoadSpans(document) ==
  FlattenSeq([i \in DOMAIN document |-> GroupSpans(document[i])])
-----------------------------------------------------------------------------
(* The root run over a span, or none: run_ancestor without its cache of    *)
(* earlier walks, which TraceValidation models step by step.               *)
RECURSIVE RunOver(_, _, _)
RunOver(spans, i, seen) ==
  IF i \in seen THEN {}
  ELSE IF spans[i].name = "run" THEN IF spans[i].parent = NoId THEN {i} ELSE {}
  ELSE UNION {RunOver(spans, p, seen \cup {i}) : p \in Parents(spans, i)}

AncestryOk(spans) ==
  LET below == {i \in DOMAIN spans : spans[i].name # "run"}
      run == [i \in below |-> RunOver(spans, i, {})]
  IN \A i \in below :
       /\ run[i] # {}
       /\ \A j \in below : spans[i].trace = spans[j].trace => run[i] = run[j]

(* load_bytes: no issue is reported.                                       *)
TraceOk(document) ==
  /\ \A i \in DOMAIN document : GroupOk(document[i])
  /\ LoadSpans(document) # <<>>
  /\ RulesOk(LoadSpans(document)) /\ AncestryOk(LoadSpans(document))

(* load_bytes of a document as it was written.                             *)
RawTraceOk(raw) == Parses(raw) /\ TraceOk(ParseDocument(raw))
=============================================================================
