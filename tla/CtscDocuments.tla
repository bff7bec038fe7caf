---------------------------- MODULE CtscDocuments ----------------------------
(***************************************************************************)
(* `specgate validate trace' and `specgate compare' on documents nobody    *)
(* promised anything about: a document grows span by span, each added span *)
(* with any identifier, parent and interval, is validated, and, once       *)
(* accepted, is compared with an edited copy of itself that is presented   *)
(* differently (other span order, identifiers and clock).                  *)
(***************************************************************************)
EXTENDS CtscComparison

CONSTANTS
  Seeds,       \* documents to start from, as span sequences
  NewSpans,    \* spans that may be added to or substituted in a document
  NewEvents,   \* <<events, status>> a span may be given
  MaxAdded     \* bound on the spans added

VARIABLES
  spans,       \* the document's spans
  added,       \* how many were added to the seed
  phase,       \* "build", "checked", "edited" or "compared"
  accepted,    \* did validation report no issue?
  candidate,   \* the edited copy's spans
  report       \* what the comparison reported

vars == <<spans, added, phase, accepted, candidate, report>>

Resource == [k \in RequiredResource |-> Text(CtscVersion)]
Document(s) ==
  <<[resource |-> Resource, scopes |-> <<[attrs |-> [k \in {} |-> {}], spans |-> s]>>]>>

Init ==
  /\ spans \in Seeds
  /\ added = 0
  /\ phase = "build"
  /\ accepted = FALSE
  /\ candidate = <<>>
  /\ report = {}

AddSpan(s) ==
  /\ phase = "build" /\ added < MaxAdded
  /\ spans' = Append(spans, s)
  /\ added' = added + 1
  /\ UNCHANGED <<phase, accepted, candidate, report>>

GiveEvents(i, e) ==
  /\ phase = "build" /\ added = 0
  /\ spans' = [spans EXCEPT ![i].events = e[1], ![i].status = e[2]]
  /\ added' = MaxAdded
  /\ UNCHANGED <<phase, accepted, candidate, report>>

Validate ==
  /\ phase = "build"
  /\ phase' = "checked"
  /\ accepted' = TraceOk(Document(spans))
  /\ UNCHANGED <<spans, added, candidate, report>>

(* The same spans in reverse order, renamed and on another clock.          *)
Present(s) ==
  LET Rename(id) == IF id > 0 THEN id + 10 ELSE id
  IN [i \in DOMAIN s |->
       LET x == s[Len(s) + 1 - i]
       IN [x EXCEPT !.trace = Rename(@), !.id = Rename(@), !.parent = Rename(@),
                    !.start = 2 * @, !.end = 2 * @]]

Edits(s) ==
  {s} \cup {RemoveAt(s, i) : i \in DOMAIN s}
  \cup {[s EXCEPT ![i].start = s[j].start, ![i].end = s[j].end,
                  ![j].start = s[i].start, ![j].end = s[i].end] : i, j \in DOMAIN s}
  \cup {[s EXCEPT ![i].attrs = x.attrs, ![i].name = x.name, ![i].events = x.events,
                  ![i].status = x.status] : i \in DOMAIN s, x \in NewSpans}
  \cup {[s EXCEPT ![i].parent = s[j].id] : i, j \in DOMAIN s}

Edit(s) ==
  /\ phase = "checked" /\ accepted
  /\ candidate' = Present(s)
  /\ phase' = "edited"
  /\ UNCHANGED <<spans, added, accepted, report>>

Compare ==
  /\ phase = "edited"
  /\ report' = CompareLoaded(Document(spans), Document(candidate), NoRegistry)
  /\ phase' = "compared"
  /\ UNCHANGED <<spans, added, accepted, candidate>>

Next == \/ \E s \in NewSpans : AddSpan(s)
        \/ \E i \in DOMAIN spans, e \in NewEvents : GiveEvents(i, e)
        \/ Validate
        \/ \E s \in Edits(spans) : Edit(s)
        \/ Compare

Spec == Init /\ [][Next]_vars
-----------------------------------------------------------------------------
(* What a document says, free of presentation.                             *)
(* Of a fault only the type and the message count.                         *)
Said(event) ==
  IF event.name # "fault" THEN event
  ELSE [event EXCEPT !.attrs = Restrict(@, DOMAIN @ \cap {"fault.type", "fault.message"})]

RECURSIVE Meaning(_, _)
Meaning(s, span) ==
  LET children == Children(s, span)
      below == IF span.name = "parallel"
               THEN <<"any order", {Meaning(s, children[i]) : i \in DOMAIN children}>>
               ELSE <<"in order", [i \in DOMAIN children |->
                                     Meaning(s, SortedChildren(s, span)[i])]>>
  IN <<span.name, span.attrs, MapSeq(Said, span.events), below>>

DocumentMeaning(s) ==
  [n \in {"run", "scenario"} |->
    {IF n = "run" THEN <<n, MapSeq(Said, s[i].events)>> ELSE Meaning(s, s[i]) :
       i \in {j \in DOMAIN s : s[j].name = n}}]

Comparable == \A d \in report : d[1] # "error"

(* Comparing decides meaning: two traces that can be compared are reported  *)
(* equivalent exactly when they say the same, whatever the order of their   *)
(* spans, their identifiers and their clocks.                               *)
EquivalentMeansSame ==
  (phase = "compared" /\ Comparable) =>
    (report = {} <=> DocumentMeaning(spans) = DocumentMeaning(candidate))

(* Swapping reference and candidate never changes the verdict.              *)
ComparisonSymmetric ==
  phase = "compared" =>
    (report = {} <=> Equivalent(Document(candidate), Document(spans), NoRegistry))

(* Looking at neighbours is enough: traces reported comparable have no two  *)
(* sequential siblings, however far apart, whose intervals overlap.         *)
NoHiddenOverlap ==
  (phase = "compared" /\ report = {}) =>
    \A i, j \in DOMAIN spans :
      (/\ i # j /\ spans[i].parent = spans[j].parent
       /\ spans[i].trace = spans[j].trace
       /\ {spans[i].name, spans[j].name} \subseteq {"operation", "parallel"}
       /\ ParentName(spans, spans[i]) # "parallel")
        => spans[i].end <= spans[j].start \/ spans[j].end <= spans[i].start
=============================================================================
