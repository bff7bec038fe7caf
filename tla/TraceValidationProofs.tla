------------------------ MODULE TraceValidationProofs ------------------------
(***************************************************************************)
(* Proofs about TraceValidation, for documents of any size, and, at the    *)
(* end, about the order of siblings (SiblingOrder).                        *)
(*                                                                         *)
(* The climbs share a cache, so what one of them finds is only as good as  *)
(* what the others left: the invariant says that every cached resolution   *)
(* is right about the runs over its span, and, of the climb in progress,   *)
(* that the spans it has passed all stand under what the current span      *)
(* stands under.  "Stands under" is a smallest closed set, so that a       *)
(* cycle is refuted by the set of spans passed, which is closed.           *)
(***************************************************************************)
EXTENDS TraceValidation, SiblingOrder, WellFoundedInduction, FiniteSetTheorems, TLAPS

(* A resolution is right about span i of s.                                *)
Resolved(s, i, r) ==
  IF IsRootRun(r)
  THEN \E k \in DOMAIN s : Roots(s, i) = {k} /\ s[k].id = r[2] /\ s[k].trace = s[i].trace
  ELSE Roots(s, i) = {}

(* The spans each loop has passed.                                         *)
Indexed  == {i \in DOMAIN spans : pass # "index" \/ i < next}
Climbed  == {i \in DOMAIN spans : \/ pass \in {"compare", "check", "done"}
                                  \/ pass = "climb" /\ i < next}
Compared == {i \in DOMAIN spans : \/ pass \in {"check", "done"}
                                  \/ pass = "compare" /\ i < next}
Checked  == {i \in DOMAIN spans : \/ pass = "done"
                                  \/ pass = "check" /\ i < next}

(* The spans that should be reported, by kind of issue.                    *)
Nameless  == {i \in DOMAIN spans : ~IdsOk(spans[i])}
Repeated  == {i \in DOMAIN spans : \E k \in 1..(i - 1) : Key(spans[k]) = Key(spans[i])}
Lost      == {i \in DOMAIN found : ~IsRootRun(found[i])}
Differing == {i \in DOMAIN found : /\ IsRootRun(found[i])
                                   /\ \E a, b \in TraceRoots(i) : a # b}
BadSpans  == {i \in DOMAIN spans : ~SpanOk(spans, spans[i])}
BadEvents == {i \in DOMAIN spans : ~EventsOk(spans[i])}

TypeInv ==
  /\ spans \in Documents
  /\ pass \in {"index", "climb", "compare", "check", "done"}
  /\ next \in 1..(Len(spans) + 1)
  /\ current # 0 => current \in DOMAIN spans /\ pass = "climb" /\ next \in Below(spans)

FoundInv ==
  /\ DOMAIN found = Below(spans) \cap Climbed
  /\ \A k \in DOMAIN cache : cache[k] # <<"parent">>

Each(kind, S) == {<<kind, i>> : i \in S}

IssueInv ==
  issues = Each("ids", Indexed \cap Nameless) \cup Each("duplicate", Indexed \cap Repeated)
             \cup Each("ancestry", Lost) \cup Each("roots", Compared \cap Differing)
             \cup Each("span", Checked \cap BadSpans) \cup Each("events", Checked \cap BadEvents)

CacheInv ==
  /\ \A i \in DOMAIN spans :
       Key(spans[i]) \in DOMAIN cache => Resolved(spans, i, cache[Key(spans[i])])
  /\ \A i \in DOMAIN found : Resolved(spans, i, found[i])

(* The spans in S, which the climb that has come to c has passed.          *)
PassedOf(s, S, c) ==
  \A j \in DOMAIN s : Key(s[j]) \in S =>
    /\ s[j].name # "run"
    /\ Roots(s, j) = Roots(s, c) /\ s[j].trace = s[c].trace
    /\ \A p \in Parents(s, j) : p = c \/ Key(s[p]) \in S

ClimbInv ==
  current # 0 =>
    /\ Roots(spans, next) = Roots(spans, current)
    /\ spans[next].trace = spans[current].trace
    /\ PassedOf(spans, seen, current)

IInv == TypeInv /\ FoundInv /\ IssueInv /\ (UniqueKeys(spans) => CacheInv /\ ClimbInv)
-----------------------------------------------------------------------------
(* What is over a span.                                                    *)

(* Parents are spans of the document and of the same trace.                *)
LEMMA ParentsInside ==
  ASSUME NEW s, NEW i
  PROVE  \A p \in Parents(s, i) : /\ p \in DOMAIN s /\ s[p].trace = s[i].trace
                                  /\ s[p].id = s[i].parent /\ s[i].name # "run"
  BY DEF Parents, Candidates

(* Ancestors is the smallest closed set around a span.                     *)
LEMMA AncestorsLeast ==
  ASSUME NEW s, NEW i \in DOMAIN s
  PROVE  /\ Ancestors(s, i) \in Closed(s) /\ i \in Ancestors(s, i)
         /\ \A S \in Closed(s) : i \in S => Ancestors(s, i) \subseteq S
<1>1. Ancestors(s, i) \subseteq DOMAIN s
  BY DEF Ancestors
<1>2. ASSUME NEW k \in Ancestors(s, i), NEW p \in Parents(s, k)
      PROVE  p \in Ancestors(s, i)
  <2>1. p \in DOMAIN s
    BY ParentsInside
  <2>2. ASSUME NEW S \in Closed(s), i \in S PROVE p \in S
    <3>1. k \in S
      BY <2>2 DEF Ancestors
    <3> QED
      BY <3>1 DEF Closed
  <2> QED
    BY <2>1, <2>2 DEF Ancestors
<1>3. Ancestors(s, i) \in Closed(s)
  BY <1>1, <1>2 DEF Closed
<1> QED
  BY <1>3 DEF Ancestors

(* A span without parents stands under nothing but itself.                 *)
LEMMA NothingOver ==
  ASSUME NEW s, NEW i \in DOMAIN s, Parents(s, i) \subseteq {i}
  PROVE  Ancestors(s, i) = {i}
<1>1. {i} \in Closed(s)
  BY DEF Closed
<1> QED
  BY <1>1, AncestorsLeast

(* A span that is no run stands under what its one parent stands under.    *)
LEMMA RootsOfParent ==
  ASSUME NEW s, NEW i \in DOMAIN s, NEW p, Parents(s, i) = {p}
  PROVE  Roots(s, i) = Roots(s, p)
<1>0. p \in DOMAIN s /\ s[i].name # "run"
  BY ParentsInside
<1>1. Ancestors(s, p) \cup {i} \in Closed(s)
  <2>1. Ancestors(s, p) \cup {i} \subseteq DOMAIN s
    BY DEF Ancestors
  <2>2. Ancestors(s, p) \in Closed(s) /\ p \in Ancestors(s, p)
    BY <1>0, AncestorsLeast
  <2> QED
    BY <2>1, <2>2 DEF Closed
<1>2. Ancestors(s, i) \subseteq Ancestors(s, p) \cup {i}
  BY <1>1, AncestorsLeast
<1>3. p \in Ancestors(s, i)
  <2>1. Ancestors(s, i) \in Closed(s) /\ i \in Ancestors(s, i)
    BY AncestorsLeast
  <2> QED
    BY <2>1 DEF Closed
<1>4. Ancestors(s, p) \subseteq Ancestors(s, i)
  BY <1>0, <1>3, AncestorsLeast
<1> QED
  BY <1>0, <1>2, <1>4 DEF Roots, IsRoot

(* A climb that returns to a span it has passed was on a cycle.            *)
LEMMA CycleRootless ==
  ASSUME NEW s, UniqueKeys(s), NEW S, NEW c \in DOMAIN s, PassedOf(s, S, c), Key(s[c]) \in S
  PROVE  Roots(s, c) = {}
<1> DEFINE C == {j \in DOMAIN s : Key(s[j]) \in S}
<1>1. C \in Closed(s)
  <2>1. ASSUME NEW k \in C, NEW p \in Parents(s, k) PROVE p \in C
    <3>1. p \in DOMAIN s
      BY ParentsInside
    <3>2. p = c \/ Key(s[p]) \in S
      BY DEF PassedOf
    <3> QED
      BY <3>1, <3>2
  <2> QED
    BY <2>1 DEF Closed
<1>2. c \in C /\ \A j \in C : s[j].name # "run"
  BY DEF PassedOf
<1>3. Ancestors(s, c) \subseteq C
  BY <1>1, <1>2, AncestorsLeast
<1> QED
  BY <1>2, <1>3 DEF Roots, IsRoot
-----------------------------------------------------------------------------
(* The loops.                                                              *)

(* A document is a sequence of spans with sequences of events.             *)
LEMMA DocumentFacts ==
  ASSUME TypeInv
  PROVE  /\ Len(spans) \in Nat /\ DOMAIN spans = 1..Len(spans)
         /\ \A i \in DOMAIN spans : IsSequence(spans[i].events)
         /\ 0 \notin DOMAIN spans /\ next \in Nat /\ next + 1 \in Nat
         /\ next \in DOMAIN spans => next + 1 \in 1..(Len(spans) + 1)
         /\ \A i \in DOMAIN spans : i \in Nat /\ i # 0
  BY DocumentsAssumption DEF TypeInv, IsSequence

(* The spans each loop has passed, when it has passed one more.            *)
LEMMA OneMore ==
  ASSUME TypeInv, next \in DOMAIN spans, spans' = spans, pass' = pass, next' = next + 1
  PROVE  /\ Indexed'  = IF pass = "index" THEN Indexed \cup {next} ELSE Indexed
         /\ Climbed'  = IF pass = "climb" THEN Climbed \cup {next} ELSE Climbed
         /\ Compared' = IF pass = "compare" THEN Compared \cup {next} ELSE Compared
         /\ Checked'  = IF pass = "check" THEN Checked \cup {next} ELSE Checked
         /\ pass = "index" => next \notin Indexed
         /\ pass = "climb" => next \notin Climbed
         /\ pass = "compare" => next \notin Compared
         /\ pass = "check" => next \notin Checked
<1>1. /\ next \in Nat /\ DOMAIN spans \subseteq Nat
      /\ \A i \in DOMAIN spans : i < next' <=> (i < next \/ i = next)
  BY DocumentFacts
<1>2. ~(next < next)
  BY <1>1
<1> QED
  BY <1>1, <1>2 DEF Indexed, Climbed, Compared, Checked

(* What is reported depends on the document and the resolutions.           *)
LEMMA SameFound ==
  ASSUME spans' = spans, found' = found
  PROVE  /\ Nameless' = Nameless /\ Repeated' = Repeated
         /\ BadSpans' = BadSpans /\ BadEvents' = BadEvents
         /\ Lost' = Lost /\ Differing' = Differing
<1>1. Nameless' = Nameless /\ Repeated' = Repeated
  BY DEF Nameless, Repeated
<1>2. BadSpans' = BadSpans /\ BadEvents' = BadEvents
  BY DEF BadSpans, BadEvents
<1>3. Lost' = Lost /\ Differing' = Differing
  BY DEF Lost, Differing, TraceRoots
<1> QED
  BY <1>1, <1>2, <1>3

(* Reporting one more span that should be.                                 *)
LEMMA EachMore ==
  ASSUME NEW kind, NEW S, NEW T, NEW holds \in BOOLEAN,
         next \in T <=> holds
  PROVE  Each(kind, (S \cup {next}) \cap T) = Each(kind, S \cap T) \cup Issue(kind, holds)
  BY DEF Each, Issue

(* Without a climb in progress only the cache matters.                     *)
LEMMA BetweenClimbs ==
  ASSUME UniqueKeys(spans) => CacheInv, UNCHANGED <<spans, cache, found>>, current' = 0
  PROVE  UniqueKeys(spans') => CacheInv' /\ ClimbInv'
  BY DEF CacheInv, ClimbInv

(* The first loop reports bad and repeated identifiers.                    *)
LEMMA IndexSpanStep ==
  ASSUME IInv, IndexSpan PROVE IInv'
<1>1. /\ pass = "index" /\ next \in DOMAIN spans /\ current = 0 /\ next' = next + 1
      /\ UNCHANGED <<spans, pass, current, seen, cache, found>>
      /\ issues' = issues \cup Issue("ids", ~IdsOk(spans[next]))
           \cup Issue("duplicate", \E k \in 1..(next - 1) : Key(spans[k]) = Key(spans[next]))
  BY DEF IndexSpan, At, IInv, TypeInv
<1>2. TypeInv'
  BY <1>1, DocumentFacts DEF IInv, TypeInv
<1>3. /\ Indexed' = Indexed \cup {next} /\ next \notin Indexed
      /\ Climbed' = Climbed /\ Compared' = Compared /\ Checked' = Checked
  BY <1>1, OneMore DEF IInv
<1>4. FoundInv'
  BY <1>1, <1>3 DEF IInv, FoundInv
<1>5. IssueInv'
  <2>1. next \in Nameless <=> ~IdsOk(spans[next])
    BY <1>1 DEF Nameless
  <2>2. next \in Repeated <=> \E k \in 1..(next - 1) : Key(spans[k]) = Key(spans[next])
    BY <1>1 DEF Repeated
  <2>3. /\ Each("ids", (Indexed \cup {next}) \cap Nameless)
             = Each("ids", Indexed \cap Nameless) \cup Issue("ids", ~IdsOk(spans[next]))
        /\ Each("duplicate", (Indexed \cup {next}) \cap Repeated)
             = Each("duplicate", Indexed \cap Repeated) \cup
               Issue("duplicate", \E k \in 1..(next - 1) : Key(spans[k]) = Key(spans[next]))
    BY <2>1, <2>2, EachMore
  <2> QED
    BY <1>1, <1>3, <2>3, SameFound DEF IInv, IssueInv
<1>6. UniqueKeys(spans') => CacheInv' /\ ClimbInv'
  BY <1>1, BetweenClimbs DEF IInv
<1> QED
  BY <1>2, <1>4, <1>5, <1>6 DEF IInv

(* Between loops nothing is reported or resolved.                          *)
LEMMA NextPassStep ==
  ASSUME IInv, NextPass PROVE IInv'
<1>1. /\ pass # "done" /\ next \notin DOMAIN spans /\ next' = 1
      /\ UNCHANGED <<spans, current, seen, cache, found, issues>>
      /\ pass = "index" => pass' = "climb"
      /\ pass = "climb" => pass' = "compare"
      /\ pass = "compare" => pass' = "check"
      /\ pass = "check" => pass' = "done"
  BY DEF NextPass
<1>2. current = 0 /\ Len(spans) \in Nat /\ DOMAIN spans = 1..Len(spans)
      /\ next = Len(spans) + 1
  BY <1>1, DocumentFacts DEF IInv, TypeInv, Below
<1>3. TypeInv'
  BY <1>1, <1>2 DEF IInv, TypeInv
<1>4. \A i \in DOMAIN spans : i < next /\ ~(i < 1)
  BY <1>2
<1>5. /\ Indexed' = Indexed /\ Climbed' = Climbed
      /\ Compared' = Compared /\ Checked' = Checked
  BY <1>1, <1>3, <1>4 DEF Indexed, Climbed, Compared, Checked, IInv, TypeInv
<1>6. FoundInv'
  BY <1>1, <1>5 DEF IInv, FoundInv
<1>7. IssueInv'
  BY <1>1, <1>5, SameFound DEF IInv, IssueInv
<1>8. UniqueKeys(spans') => CacheInv' /\ ClimbInv'
  BY <1>1, <1>2, BetweenClimbs DEF IInv
<1> QED
  BY <1>3, <1>6, <1>7, <1>8 DEF IInv

(* Runs are not climbed from.                                              *)
LEMMA SkipRunStep ==
  ASSUME IInv, SkipRun PROVE IInv'
<1>1. /\ pass = "climb" /\ next \in DOMAIN spans /\ current = 0 /\ next' = next + 1
      /\ spans[next].name = "run"
      /\ UNCHANGED <<spans, pass, current, seen, cache, found, issues>>
  BY DEF SkipRun, At
<1>2. TypeInv'
  BY <1>1, DocumentFacts DEF IInv, TypeInv
<1>3. /\ Climbed' = Climbed \cup {next}
      /\ Indexed' = Indexed /\ Compared' = Compared /\ Checked' = Checked
  BY <1>1, OneMore DEF IInv
<1>4. FoundInv'
  BY <1>1, <1>3 DEF IInv, FoundInv, Below
<1>5. IssueInv'
  BY <1>1, <1>3, SameFound DEF IInv, IssueInv
<1>6. UniqueKeys(spans') => CacheInv' /\ ClimbInv'
  BY <1>1, BetweenClimbs DEF IInv
<1> QED
  BY <1>2, <1>4, <1>5, <1>6 DEF IInv

(* The third loop reports the spans of traces with several roots.          *)
LEMMA CompareRootsStep ==
  ASSUME IInv, CompareRoots PROVE IInv'
<1>1. /\ pass = "compare" /\ next \in DOMAIN spans /\ current = 0 /\ next' = next + 1
      /\ UNCHANGED <<spans, pass, current, seen, cache, found>>
      /\ issues' = issues \cup
           Issue("roots", /\ next \in DOMAIN found /\ IsRootRun(found[next])
                          /\ \E a, b \in TraceRoots(next) : a # b)
  BY DEF CompareRoots, At, IInv, TypeInv
<1>2. TypeInv'
  BY <1>1, DocumentFacts DEF IInv, TypeInv
<1>3. /\ Compared' = Compared \cup {next} /\ next \notin Compared
      /\ Indexed' = Indexed /\ Climbed' = Climbed /\ Checked' = Checked
  BY <1>1, OneMore DEF IInv
<1>4. FoundInv'
  BY <1>1, <1>3 DEF IInv, FoundInv
<1>5. IssueInv'
  <2>1. next \in Differing <=> /\ next \in DOMAIN found /\ IsRootRun(found[next])
                              /\ \E a, b \in TraceRoots(next) : a # b
    BY DEF Differing
  <2>2. Each("roots", (Compared \cup {next}) \cap Differing)
          = Each("roots", Compared \cap Differing) \cup
            Issue("roots", /\ next \in DOMAIN found /\ IsRootRun(found[next])
                           /\ \E a, b \in TraceRoots(next) : a # b)
    BY <2>1, EachMore
  <2> QED
    BY <1>1, <1>3, <2>2, SameFound DEF IInv, IssueInv
<1>6. UniqueKeys(spans') => CacheInv' /\ ClimbInv'
  BY <1>1, BetweenClimbs DEF IInv
<1> QED
  BY <1>2, <1>4, <1>5, <1>6 DEF IInv

(* The last loop reports the spans that break a rule.                      *)
LEMMA CheckSpanStep ==
  ASSUME IInv, CheckSpan PROVE IInv'
<1>1. /\ pass = "check" /\ next \in DOMAIN spans /\ current = 0 /\ next' = next + 1
      /\ UNCHANGED <<spans, pass, current, seen, cache, found>>
      /\ issues' = issues \cup Issue("span", ~SpanOk(spans, spans[next]))
                          \cup Issue("events", ~EventsOk(spans[next]))
  BY DEF CheckSpan, At, IInv, TypeInv
<1>2. TypeInv'
  BY <1>1, DocumentFacts DEF IInv, TypeInv
<1>3. /\ Checked' = Checked \cup {next} /\ next \notin Checked
      /\ Indexed' = Indexed /\ Climbed' = Climbed /\ Compared' = Compared
  BY <1>1, OneMore DEF IInv
<1>4. FoundInv'
  BY <1>1, <1>3 DEF IInv, FoundInv
<1>5. IssueInv'
  <2>1. /\ next \in BadSpans <=> ~SpanOk(spans, spans[next])
        /\ next \in BadEvents <=> ~EventsOk(spans[next])
    BY <1>1 DEF BadSpans, BadEvents
  <2>2. /\ Each("span", (Checked \cup {next}) \cap BadSpans)
             = Each("span", Checked \cap BadSpans) \cup Issue("span", ~SpanOk(spans, spans[next]))
        /\ Each("events", (Checked \cup {next}) \cap BadEvents)
             = Each("events", Checked \cap BadEvents) \cup Issue("events", ~EventsOk(spans[next]))
    BY <2>1, EachMore
  <2> QED
    BY <1>1, <1>3, <2>2, SameFound DEF IInv, IssueInv
<1>6. UniqueKeys(spans') => CacheInv' /\ ClimbInv'
  BY <1>1, BetweenClimbs DEF IInv
<1> QED
  BY <1>2, <1>4, <1>5, <1>6 DEF IInv
-----------------------------------------------------------------------------
(* The climbs.                                                             *)

(* A climb starts at the span it is for.                                   *)
LEMMA StartClimbStep ==
  ASSUME IInv, StartClimb PROVE IInv'
<1>1. /\ pass = "climb" /\ next \in DOMAIN spans /\ spans[next].name # "run"
      /\ current' = next /\ seen' = {}
      /\ UNCHANGED <<spans, pass, next, cache, found, issues>>
  BY DEF StartClimb, At
<1>2. TypeInv'
  BY <1>1 DEF IInv, TypeInv, Below
<1>3. /\ Indexed' = Indexed /\ Climbed' = Climbed
      /\ Compared' = Compared /\ Checked' = Checked
  BY <1>1 DEF Indexed, Climbed, Compared, Checked
<1>4. FoundInv' /\ IssueInv'
  BY <1>1, <1>3, SameFound DEF IInv, FoundInv, IssueInv
<1>5. (UniqueKeys(spans) => CacheInv) => (UniqueKeys(spans') => CacheInv')
  BY <1>1 DEF CacheInv
<1>6. ClimbInv'
  BY <1>1 DEF ClimbInv, PassedOf
<1> QED
  BY <1>2, <1>4, <1>5, <1>6 DEF IInv

(* The loop goes on from a span with exactly one parent.                   *)
LEMMA ResolutionParent ==
  ASSUME FoundInv, Resolution = <<"parent">>
  PROVE  /\ Key(spans[current]) \notin DOMAIN cache
         /\ Key(spans[current]) \notin seen
         /\ spans[current].name # "run"
         /\ \E p : Parents(spans, current) = {p}
<1> DEFINE parents == Candidates(spans, spans[current].trace, spans[current].parent)
<1>1. /\ Key(spans[current]) \notin DOMAIN cache
      /\ Key(spans[current]) \notin seen
      /\ spans[current].name # "run"
      /\ spans[current].parent # NoId /\ parents # {}
      /\ \A p, q \in parents : p = q
  BY DEF Resolution, FoundInv, RootRun
<1>2. Parents(spans, current) = parents
  BY <1>1 DEF Parents
<1> QED
  BY <1>1, <1>2

(* It passes a span and comes to its parent, which stands under the same.  *)
LEMMA ClimbOnStep ==
  ASSUME IInv, ClimbOn PROVE IInv'
<1>1. /\ pass = "climb" /\ next \in DOMAIN spans /\ current # 0
      /\ Resolution = <<"parent">> /\ current' \in Parents(spans, current)
      /\ seen' = seen \cup {Key(spans[current])}
      /\ UNCHANGED <<spans, pass, next, cache, found, issues>>
  BY DEF ClimbOn, At
<1>2. PICK p : Parents(spans, current) = {p}
  BY <1>1, ResolutionParent DEF IInv
<1>3. /\ current \in DOMAIN spans /\ current' = p /\ p \in DOMAIN spans
      /\ spans[p].trace = spans[current].trace /\ spans[current].name # "run"
  BY <1>1, <1>2, ParentsInside DEF IInv, TypeInv
<1>4. TypeInv'
  BY <1>1, <1>3 DEF IInv, TypeInv
<1>5. /\ Indexed' = Indexed /\ Climbed' = Climbed
      /\ Compared' = Compared /\ Checked' = Checked
  BY <1>1 DEF Indexed, Climbed, Compared, Checked
<1>6. FoundInv' /\ IssueInv'
  BY <1>1, <1>5, SameFound DEF IInv, FoundInv, IssueInv
<1>7. ASSUME UniqueKeys(spans) PROVE CacheInv' /\ ClimbInv'
  <2>1. CacheInv'
    BY <1>1, <1>7 DEF IInv, CacheInv
  <2>2. /\ Roots(spans, next) = Roots(spans, current)
        /\ spans[next].trace = spans[current].trace
        /\ PassedOf(spans, seen, current)
    BY <1>1, <1>7 DEF IInv, ClimbInv
  <2>3. Roots(spans, current) = Roots(spans, p)
    BY <1>2, <1>3, RootsOfParent
  <2>4. ASSUME NEW j \in DOMAIN spans, Key(spans[j]) \in seen'
        PROVE  /\ spans[j].name # "run"
               /\ Roots(spans, j) = Roots(spans, p) /\ spans[j].trace = spans[p].trace
               /\ \A q \in Parents(spans, j) : q = p \/ Key(spans[q]) \in seen'
    <3>1. CASE Key(spans[j]) \in seen
      BY <1>1, <1>3, <2>2, <2>3, <3>1 DEF PassedOf
    <3>2. CASE Key(spans[j]) = Key(spans[current])
      <4>1. j = current
        BY <1>3, <1>7, <3>2 DEF UniqueKeys
      <4> QED
        BY <1>2, <1>3, <2>3, <4>1
    <3> QED
      BY <1>1, <2>4, <3>1, <3>2
  <2>5. PassedOf(spans, seen', p)
    BY <2>4 DEF PassedOf
  <2>6. ClimbInv'
    BY <1>1, <1>3, <2>2, <2>3, <2>5 DEF ClimbInv
  <2> QED
    BY <2>1, <2>6
<1> QED
  BY <1>1, <1>4, <1>6, <1>7 DEF IInv

(* When the loop breaks, it is right about the span it has come to: it     *)
(* was cached, closes a cycle, is a run, or has no parent to go on with.   *)
LEMMA ResolutionRight ==
  ASSUME UniqueKeys(spans), CacheInv, current \in DOMAIN spans,
         PassedOf(spans, seen, current), Resolution # <<"parent">>
  PROVE  Resolved(spans, current, Resolution)
<1> DEFINE span == spans[current]
           key == Key(span)
           parents == Candidates(spans, span.trace, span.parent)
<1>1. CASE key \in DOMAIN cache
  BY <1>1 DEF Resolution, CacheInv
<1>2. CASE key \notin DOMAIN cache /\ key \in seen
  <2>1. Roots(spans, current) = {}
    BY <1>2, CycleRootless
  <2>2. Resolution = <<"cycle">> /\ ~IsRootRun(<<"cycle">>)
    BY <1>2 DEF Resolution, IsRootRun
  <2> QED
    BY <2>1, <2>2 DEF Resolved
<1>3. CASE key \notin DOMAIN cache /\ key \notin seen /\ span.name = "run"
  <2>1. Ancestors(spans, current) = {current}
    BY <1>3, NothingOver DEF Parents
  <2>2. CASE span.parent = NoId
    <3>1. Resolution = RootRun(span.id) /\ IsRootRun(RootRun(span.id))
          /\ RootRun(span.id)[2] = span.id
      BY <1>3, <2>2 DEF Resolution, RootRun, IsRootRun
    <3>2. Roots(spans, current) = {current}
      BY <1>3, <2>1, <2>2 DEF Roots, IsRoot
    <3> QED
      BY <3>1, <3>2 DEF Resolved
  <2>3. CASE span.parent # NoId
    <3>1. Resolution = <<"missing_run">> /\ ~IsRootRun(<<"missing_run">>)
      BY <1>3, <2>3 DEF Resolution, IsRootRun
    <3>2. Roots(spans, current) = {}
      BY <2>1, <2>3 DEF Roots, IsRoot
    <3> QED
      BY <3>1, <3>2 DEF Resolved
  <2> QED
    BY <2>2, <2>3
<1>4. CASE key \notin DOMAIN cache /\ key \notin seen /\ span.name # "run"
  <2>1. parents \subseteq DOMAIN spans /\ \A p, q \in parents : p = q
    BY DEF Candidates, UniqueKeys, Key
  <2>2. \/ span.parent = span.id /\ Resolution = <<"self_parent">>
        \/ (span.parent = NoId \/ parents = {}) /\ Resolution = <<"missing_run">>
    BY <1>4, <2>1 DEF Resolution
  <2>3. ~IsRootRun(Resolution)
    BY <2>2 DEF IsRootRun
  <2>4. Parents(spans, current) \subseteq {current}
    <3>1. CASE span.parent = span.id
      <4>1. current \in parents
        BY <3>1 DEF Candidates
      <4> QED
        BY <2>1, <4>1 DEF Parents
    <3>2. CASE span.parent = NoId \/ parents = {}
      BY <3>2 DEF Parents
    <3> QED
      BY <2>2, <3>1, <3>2
  <2>5. Roots(spans, current) = {}
    BY <1>4, <2>4, NothingOver DEF Roots, IsRoot
  <2> QED
    BY <2>3, <2>5 DEF Resolved
<1> QED
  BY <1>1, <1>2, <1>3, <1>4

(* What is right about a span is right about one that stands under the     *)
(* same.                                                                   *)
LEMMA ResolvedSame ==
  ASSUME NEW s, NEW i, NEW j, NEW r, Resolved(s, i, r),
         Roots(s, j) = Roots(s, i), s[j].trace = s[i].trace
  PROVE  Resolved(s, j, r)
  BY DEF Resolved

(* All spans passed on a climb get its resolution.                         *)
LEMMA EndClimbStep ==
  ASSUME IInv, EndClimb PROVE IInv'
<1> DEFINE key == Key(spans[current])
           path == IF key \in DOMAIN cache THEN seen ELSE seen \cup {key}
           res == Resolution
<1>1. /\ pass = "climb" /\ next \in DOMAIN spans /\ current # 0
      /\ res # <<"parent">> /\ cache' = Remembered(path, res)
      /\ found' = [i \in DOMAIN found \cup {next} |-> IF i = next THEN res ELSE found[i]]
      /\ issues' = issues \cup Issue("ancestry", ~IsRootRun(res))
      /\ current' = 0 /\ next' = next + 1
      /\ UNCHANGED <<spans, pass, seen>>
  BY DEF EndClimb, At
<1>2. TypeInv /\ current \in DOMAIN spans /\ next \in Below(spans)
  BY <1>1 DEF IInv, TypeInv
<1>3. TypeInv'
  BY <1>1, <1>2, DocumentFacts DEF TypeInv
<1>4. /\ Climbed' = Climbed \cup {next} /\ next \notin Climbed
      /\ Indexed' = Indexed /\ Compared' = Compared /\ Checked' = Checked
  BY <1>1, <1>2, OneMore
<1>5. next \notin DOMAIN found
  BY <1>4 DEF IInv, FoundInv
<1>6. FoundInv'
  <2>1. DOMAIN found' = Below(spans) \cap Climbed'
    BY <1>1, <1>2, <1>4 DEF IInv, FoundInv
  <2>2. /\ DOMAIN cache' = path \cup DOMAIN cache
        /\ \A k \in DOMAIN cache' : cache'[k] = IF k \in path THEN res ELSE cache[k]
    BY <1>1 DEF Remembered
  <2>3. \A k \in DOMAIN cache' : cache'[k] # <<"parent">>
    BY <1>1, <2>2 DEF IInv, FoundInv
  <2> QED
    BY <1>1, <2>1, <2>3 DEF FoundInv
<1>7. IssueInv'
  <2>1. Lost' = Lost \cup (IF IsRootRun(res) THEN {} ELSE {next})
    <3>1. DOMAIN found' = DOMAIN found \cup {next}
          /\ \A i \in DOMAIN found' : found'[i] = IF i = next THEN res ELSE found[i]
      BY <1>1
    <3> QED
      BY <1>5, <3>1 DEF Lost
  <2>2. Each("ancestry", Lost') = Each("ancestry", Lost) \cup Issue("ancestry", ~IsRootRun(res))
    BY <2>1 DEF Each, Issue
  <2>3. Compared = {} /\ Compared' = {} /\ Checked = {} /\ Checked' = {}
    BY <1>1, <1>4 DEF Compared, Checked
  <2>4. Nameless' = Nameless /\ Repeated' = Repeated
    BY <1>1 DEF Nameless, Repeated
  <2>5. /\ Compared' \cap Differing' = Compared \cap Differing
        /\ Checked' \cap BadSpans' = Checked \cap BadSpans
        /\ Checked' \cap BadEvents' = Checked \cap BadEvents
    BY <2>3
  <2> QED
    BY <1>1, <1>4, <2>2, <2>4, <2>5 DEF IInv, IssueInv
<1>8. ASSUME UniqueKeys(spans) PROVE CacheInv'
  <2>1. /\ CacheInv /\ PassedOf(spans, seen, current)
        /\ Roots(spans, next) = Roots(spans, current)
        /\ spans[next].trace = spans[current].trace
    BY <1>1, <1>8 DEF IInv, ClimbInv
  <2>2. Resolved(spans, current, res)
    BY <1>1, <1>2, <1>8, <2>1, ResolutionRight
  <2>3. ASSUME NEW i \in DOMAIN spans, Key(spans[i]) \in DOMAIN cache'
        PROVE  Resolved(spans, i, cache'[Key(spans[i])])
    <3>1. /\ Key(spans[i]) \in path \/ Key(spans[i]) \in DOMAIN cache
          /\ Key(spans[i]) \in path => cache'[Key(spans[i])] = res
          /\ Key(spans[i]) \notin path => cache'[Key(spans[i])] = cache[Key(spans[i])]
      BY <1>1, <2>3 DEF Remembered
    <3>2. CASE Key(spans[i]) \in path
      <4>1. Key(spans[i]) \in seen \/ i = current
        BY <1>2, <1>8, <3>2 DEF UniqueKeys
      <4>2. Roots(spans, i) = Roots(spans, current) /\ spans[i].trace = spans[current].trace
        BY <2>1, <4>1 DEF PassedOf
      <4> QED
        BY <2>2, <3>1, <3>2, <4>2, ResolvedSame
    <3>3. CASE Key(spans[i]) \notin path
      BY <2>1, <3>1, <3>3 DEF CacheInv
    <3> QED
      BY <3>2, <3>3
  <2>4. ASSUME NEW i \in DOMAIN found' PROVE Resolved(spans, i, found'[i])
    <3>1. CASE i = next
      <4>1. found'[i] = res
        BY <1>1, <3>1
      <4> QED
        BY <2>1, <2>2, <3>1, <4>1, ResolvedSame
    <3>2. CASE i # next
      BY <1>1, <2>1, <3>2 DEF CacheInv
    <3> QED
      BY <3>1, <3>2
  <2> QED
    BY <1>1, <2>3, <2>4 DEF CacheInv
<1>9. ClimbInv'
  BY <1>1 DEF ClimbInv
<1> QED
  BY <1>1, <1>3, <1>6, <1>7, <1>8, <1>9 DEF IInv
-----------------------------------------------------------------------------
(* The invariant, and what it says at the end.                             *)

(* The inductive invariant holds always.                                   *)
LEMMA Invariance == Spec => []IInv
<1>1. Init => IInv
  <2> SUFFICES ASSUME Init PROVE IInv
    OBVIOUS
  <2>1. /\ spans \in Documents /\ pass = "index" /\ next = 1 /\ current = 0
        /\ DOMAIN cache = {} /\ DOMAIN found = {} /\ issues = {}
    BY DEF Init
  <2>2. Len(spans) \in Nat /\ DOMAIN spans = 1..Len(spans)
    BY <2>1, DocumentsAssumption DEF IsSequence
  <2>3. TypeInv
    BY <2>1, <2>2 DEF TypeInv
  <2>4. /\ \A i \in DOMAIN spans : ~(i < next)
        /\ Indexed = {} /\ Climbed = {} /\ Compared = {} /\ Checked = {}
    BY <2>1, <2>2 DEF Indexed, Climbed, Compared, Checked
  <2>5. Lost = {}
    BY <2>1 DEF Lost
  <2>6. IssueInv
    BY <2>1, <2>4, <2>5 DEF IssueInv, Each
  <2> QED
    BY <2>1, <2>3, <2>4, <2>6 DEF IInv, FoundInv, CacheInv, ClimbInv
<1>2. IInv /\ [Next]_vars => IInv'
  <2> SUFFICES ASSUME IInv, [Next]_vars PROVE IInv'
    OBVIOUS
  <2>1. CASE UNCHANGED vars
    <3>1. UNCHANGED <<spans, pass, next, current, seen, cache, found, issues>>
      BY <2>1 DEF vars
    <3>2. /\ Indexed' = Indexed /\ Climbed' = Climbed
          /\ Compared' = Compared /\ Checked' = Checked
      BY <3>1 DEF Indexed, Climbed, Compared, Checked
    <3>3. TypeInv' /\ FoundInv' /\ IssueInv'
      BY <3>1, <3>2, SameFound DEF IInv, TypeInv, FoundInv, IssueInv
    <3>4. (UniqueKeys(spans) => CacheInv /\ ClimbInv)
            => (UniqueKeys(spans') => CacheInv' /\ ClimbInv')
      BY <3>1 DEF CacheInv, ClimbInv
    <3> QED
      BY <3>3, <3>4 DEF IInv
  <2> QED
    BY <2>1, IndexSpanStep, NextPassStep, SkipRunStep, StartClimbStep, ClimbOnStep,
       EndClimbStep, CompareRootsStep, CheckSpanStep DEF Next
<1> QED
  BY <1>1, <1>2, PTL DEF Spec

(* Membership in the report, kind by kind.                                 *)
LEMMA Reported ==
  ASSUME IssueInv, NEW i
  PROVE  /\ <<"ids", i>> \in issues <=> i \in Indexed \cap Nameless
         /\ <<"duplicate", i>> \in issues <=> i \in Indexed \cap Repeated
         /\ <<"ancestry", i>> \in issues <=> i \in Lost
         /\ <<"roots", i>> \in issues <=> i \in Compared \cap Differing
         /\ <<"span", i>> \in issues <=> i \in Checked \cap BadSpans
         /\ <<"events", i>> \in issues <=> i \in Checked \cap BadEvents
  BY DEF IssueInv, Each

(* With unique identifiers, the roots that resolutions name differ exactly *)
(* where the roots do.                                                     *)
LEMMA DifferingTorn ==
  ASSUME UniqueKeys(spans), CacheInv, DOMAIN found = Below(spans),
         NEW i \in DOMAIN found, IsRootRun(found[i])
  PROVE  (\E a, b \in TraceRoots(i) : a # b) <=> Torn(spans, i)
<1>1. ASSUME NEW j \in DOMAIN found, IsRootRun(found[j])
      PROVE  \E k \in DOMAIN spans : /\ Roots(spans, j) = {k} /\ spans[k].id = found[j][2]
                                     /\ spans[k].trace = spans[j].trace
  BY <1>1 DEF CacheInv, Resolved
<1>2. PICK r \in DOMAIN spans : /\ Roots(spans, i) = {r} /\ spans[r].id = found[i][2]
                                /\ spans[r].trace = spans[i].trace
  BY <1>1
<1>3. found[i][2] \in TraceRoots(i)
  BY DEF TraceRoots
<1>4. ASSUME NEW a \in TraceRoots(i), a # found[i][2] PROVE Torn(spans, i)
  <2>1. PICK j \in DOMAIN found : /\ IsRootRun(found[j]) /\ spans[j].trace = spans[i].trace
                                  /\ a = found[j][2]
    BY DEF TraceRoots
  <2>2. PICK k \in DOMAIN spans : Roots(spans, j) = {k} /\ spans[k].id = a
    BY <1>1, <2>1
  <2>3. k # r
    BY <1>2, <1>4, <2>2
  <2> QED
    BY <1>2, <2>1, <2>2, <2>3 DEF Torn, Rootless
<1>5. ASSUME Torn(spans, i) PROVE \E a \in TraceRoots(i) : a # found[i][2]
  <2>1. PICK j \in Below(spans) : /\ spans[j].trace = spans[i].trace
                                  /\ Roots(spans, j) # {} /\ Roots(spans, j) # Roots(spans, i)
    BY <1>5 DEF Torn, Rootless
  <2>2. IsRootRun(found[j])
    BY <2>1 DEF CacheInv, Resolved
  <2>3. PICK k \in DOMAIN spans : /\ Roots(spans, j) = {k} /\ spans[k].id = found[j][2]
                                  /\ spans[k].trace = spans[j].trace
    BY <1>1, <2>1, <2>2
  <2>4. k # r
    BY <1>2, <2>1, <2>3
  <2>5. spans[k].id # spans[r].id
    BY <1>2, <2>1, <2>3, <2>4 DEF UniqueKeys, Key
  <2>6. found[j][2] \in TraceRoots(i)
    BY <2>1, <2>2 DEF TraceRoots
  <2> QED
    BY <1>2, <2>3, <2>5, <2>6
<1>6. (\E a, b \in TraceRoots(i) : a # b) => \E a \in TraceRoots(i) : a # found[i][2]
  OBVIOUS
<1> QED
  BY <1>3, <1>4, <1>5, <1>6

(* The resolutions found are right, so the reports are exact.              *)
LEMMA ExactReports == IInv => AncestryExact
<1> SUFFICES ASSUME IInv, UniqueKeys(spans), pass \in {"check", "done"},
                    NEW i \in DOMAIN spans
             PROVE  /\ <<"ancestry", i>> \in issues <=> i \in Below(spans) /\ Rootless(spans, i)
                    /\ <<"roots", i>> \in issues <=>
                         i \in Below(spans) /\ ~Rootless(spans, i) /\ Torn(spans, i)
  BY DEF AncestryExact
<1>1. CacheInv /\ DOMAIN found = Below(spans) /\ Compared = DOMAIN spans
  BY DEF IInv, FoundInv, Climbed, Compared, Below
<1>2. i \in Below(spans) => (IsRootRun(found[i]) <=> ~Rootless(spans, i))
  BY <1>1 DEF CacheInv, Resolved, Rootless
<1>3. /\ <<"ancestry", i>> \in issues <=> i \in Lost
      /\ <<"roots", i>> \in issues <=> i \in Compared \cap Differing
  BY Reported DEF IInv
<1>4. i \in Lost <=> i \in Below(spans) /\ Rootless(spans, i)
  BY <1>1, <1>2 DEF Lost
<1>5. i \in Differing <=> i \in Below(spans) /\ ~Rootless(spans, i) /\ Torn(spans, i)
  <2>1. i \in Differing <=> /\ i \in DOMAIN found /\ IsRootRun(found[i])
                            /\ \E a, b \in TraceRoots(i) : a # b
    BY DEF Differing
  <2> QED
    BY <1>1, <1>2, <2>1, DifferingTorn
<1> QED
  BY <1>1, <1>3, <1>4, <1>5

(* The validator decides the rules: it accepts a document iff identifiers  *)
(* are unique, every span stands under the one root run of its trace, and  *)
(* every span keeps the rules for itself and its events.                   *)
AcceptedIffValid ==
  pass = "done" => (issues = {} <=> RulesOk(spans) /\ Forest(spans))

(* Repeated identifiers are what the first loop looks for.                 *)
LEMMA NoRepeat ==
  ASSUME TypeInv PROVE Repeated = {} <=> UniqueKeys(spans)
<1>1. DOMAIN spans \subseteq Nat /\ \A i \in DOMAIN spans : 1..(i - 1) \subseteq DOMAIN spans
  BY DocumentFacts
<1>2. ASSUME UniqueKeys(spans) PROVE Repeated = {}
  <2>1. ASSUME NEW i \in DOMAIN spans, NEW k \in 1..(i - 1) PROVE k # i /\ k \in DOMAIN spans
    BY <1>1
  <2> QED
    BY <1>2, <2>1 DEF Repeated, UniqueKeys
<1>3. ASSUME Repeated = {} PROVE UniqueKeys(spans)
  <2>1. SUFFICES ASSUME NEW i \in DOMAIN spans, NEW j \in DOMAIN spans,
                        Key(spans[i]) = Key(spans[j]), i # j
                 PROVE  FALSE
    BY DEF UniqueKeys
  <2>2. i \in 1..(j - 1) \/ j \in 1..(i - 1)
    BY <2>1, DocumentFacts
  <2> QED
    BY <1>3, <2>1, <2>2 DEF Repeated
<1> QED
  BY <1>2, <1>3

(* What is reported at the end is what is wrong.                           *)
LEMMA ValidAtEnd == IInv => AcceptedIffValid
<1> SUFFICES ASSUME IInv, pass = "done"
             PROVE  issues = {} <=> RulesOk(spans) /\ Forest(spans)
  BY DEF AcceptedIffValid
<1>1. Indexed = DOMAIN spans /\ Compared = DOMAIN spans /\ Checked = DOMAIN spans
  BY DEF Indexed, Compared, Checked
<1>2. /\ Nameless \subseteq DOMAIN spans /\ Repeated \subseteq DOMAIN spans
      /\ BadSpans \subseteq DOMAIN spans /\ BadEvents \subseteq DOMAIN spans
      /\ Lost \subseteq DOMAIN spans /\ Differing \subseteq DOMAIN spans
  BY DEF Nameless, Repeated, BadSpans, BadEvents, Lost, Differing, IInv, FoundInv, Below
<1>3. issues = {} <=> /\ Nameless = {} /\ Repeated = {} /\ Lost = {} /\ Differing = {}
                      /\ BadSpans = {} /\ BadEvents = {}
  <2>1. issues = Each("ids", Nameless) \cup Each("duplicate", Repeated)
                   \cup Each("ancestry", Lost) \cup Each("roots", Differing)
                   \cup Each("span", BadSpans) \cup Each("events", BadEvents)
    <3>1. /\ Indexed \cap Nameless = Nameless /\ Indexed \cap Repeated = Repeated
          /\ Compared \cap Differing = Differing
          /\ Checked \cap BadSpans = BadSpans /\ Checked \cap BadEvents = BadEvents
      BY <1>1, <1>2
    <3> QED
      BY <3>1 DEF IInv, IssueInv
  <2>2. ASSUME NEW kind, NEW S PROVE Each(kind, S) = {} <=> S = {}
    BY DEF Each
  <2>3. issues = {} <=>
          /\ Each("ids", Nameless) = {} /\ Each("duplicate", Repeated) = {}
          /\ Each("ancestry", Lost) = {} /\ Each("roots", Differing) = {}
          /\ Each("span", BadSpans) = {} /\ Each("events", BadEvents) = {}
    BY <2>1
  <2> QED
    BY <2>2, <2>3
<1>4. Repeated = {} <=> UniqueKeys(spans)
  BY NoRepeat DEF IInv
<1>5. (Nameless = {} /\ BadSpans = {} /\ BadEvents = {}) <=>
        \A i \in DOMAIN spans :
          IdsOk(spans[i]) /\ SpanOk(spans, spans[i]) /\ EventsOk(spans[i])
  BY DEF Nameless, BadSpans, BadEvents
<1>6. UniqueKeys(spans) => ((Lost = {} /\ Differing = {}) <=> Forest(spans))
  <2>1. ASSUME UniqueKeys(spans), NEW i \in DOMAIN spans
        PROVE  /\ i \in Lost <=> i \in Below(spans) /\ Rootless(spans, i)
               /\ i \in Differing <=> i \in Below(spans) /\ ~Rootless(spans, i) /\ Torn(spans, i)
    BY <1>1, <2>1, ExactReports, Reported DEF AncestryExact, IInv
  <2> QED
    BY <1>2, <2>1 DEF Forest, Below
<1> QED
  BY <1>3, <1>4, <1>5, <1>6 DEF RulesOk

(* What the rules for events leave of an operation.                        *)
LEMMA OneReading ==
  ASSUME NEW span, IsSequence(span.events), span.name = "operation", EventsOk(span)
  PROVE  LET es == span.events
             last == IF Len(es) = 0 THEN "none" ELSE es[Len(es)].name
         IN /\ \A j \in 1..(Len(es) - 1) : es[j].name = "observation"
            /\ last \in {"error", "fault"} => span.status = "error"
            /\ last = "abandoned" => span.status = "unset"
            /\ last \in {"none", "observation"} => span.status = "ok"
<1> DEFINE es == span.events
           last == IF Len(es) = 0 THEN "none" ELSE es[Len(es)].name
           Of(names) == {i \in DOMAIN es : es[i].name \in names}
<1>1. /\ \A i \in DOMAIN es : es[i].name \in EventNames
      /\ \A i, j \in DOMAIN es : es[i].name \in Terminals => j <= i
      /\ Occurrences(span, {"error"}) > 0 \/ Occurrences(span, {"fault"}) > 0
           => span.status = "error"
      /\ Occurrences(span, {"abandoned"}) > 0 => span.status = "unset"
      /\ Occurrences(span, Terminals) > 0 \/ span.status = "ok"
  BY DEF EventsOk, EventOk
<1>2. Len(es) \in Nat /\ DOMAIN es = 1..Len(es)
  BY DEF IsSequence
<1>3. \A i \in DOMAIN es : es[i].name = "observation" \/ es[i].name \in Terminals
  BY <1>1 DEF EventNames, Terminals, Failures
<1>4. \A j \in 1..(Len(es) - 1) : es[j].name = "observation"
  <2>1. ASSUME NEW j \in 1..(Len(es) - 1)
        PROVE  j \in DOMAIN es /\ Len(es) \in DOMAIN es /\ ~(Len(es) <= j)
    BY <1>2
  <2> QED
    BY <1>1, <1>3, <2>1
<1>5. ASSUME NEW names
      PROVE  /\ Occurrences(span, names) > 0 <=> Of(names) # {}
  <2>1. IsFiniteSet(DOMAIN es)
    <3>1. 1 \in Int /\ Len(es) \in Int
      BY <1>2
    <3>2. IsFiniteSet(1..Len(es))
      BY <3>1, FS_Interval
    <3> QED
      BY <1>2, <3>2
  <2>2. IsFiniteSet(Of(names))
    BY <2>1, FS_Subset
  <2>3. Cardinality(Of(names)) \in Nat /\ (Cardinality(Of(names)) = 0 <=> Of(names) = {})
    BY <2>2, FS_CardinalityType, FS_EmptySet
  <2> QED
    BY <2>3 DEF Occurrences
<1>6. CASE Len(es) = 0
  <2>1. Of(Terminals) = {} /\ last = "none"
    BY <1>2, <1>6
  <2> QED
    BY <1>1, <1>4, <1>5, <2>1
<1>7. CASE Len(es) # 0
  <2>1. Len(es) \in DOMAIN es /\ last = es[Len(es)].name
    BY <1>2, <1>7
  <2>2. last = "error" => Of({"error"}) # {}
    BY <2>1
  <2>3. last = "fault" => Of({"fault"}) # {}
    BY <2>1
  <2>4. last = "abandoned" => Of({"abandoned"}) # {}
    BY <2>1
  <2>5. ASSUME last = "observation" PROVE Of(Terminals) = {}
    <3>1. \A i \in DOMAIN es : i = Len(es) \/ i \in 1..(Len(es) - 1)
      BY <1>2
    <3>2. "observation" \notin Terminals
      BY DEF Terminals, Failures
    <3> QED
      BY <1>4, <2>1, <2>5, <3>1, <3>2
  <2>6. last \in EventNames
    BY <1>1, <2>1
  <2>7. last # "none"
    BY <2>6 DEF EventNames
  <2> QED
    BY <1>1, <1>4, <1>5, <2>2, <2>3, <2>4, <2>5, <2>7
<1> QED
  BY <1>6, <1>7

(* A document that keeps the rules has one reading.                        *)
LEMMA ReadingAtEnd == IInv => OneOutcome
<1> SUFFICES ASSUME IInv, Accepted PROVE OneOutcome
  BY DEF OneOutcome
<1>1. RulesOk(spans) /\ Forest(spans)
  BY ValidAtEnd DEF AcceptedIffValid, Accepted
<1>2. \A i \in DOMAIN spans : IsSequence(spans[i].events) /\ EventsOk(spans[i])
  BY <1>1, DocumentFacts DEF RulesOk, IInv
<1> QED
  BY <1>1, <1>2, OneReading DEF OneOutcome, RulesOk
-----------------------------------------------------------------------------
(* In a document of any size, whatever its order, cycles and dead ends, the *)
(* memoised climbs of validate_ancestry report exactly the spans without a  *)
(* root run and those whose trace has several.                              *)
THEOREM ClimbsExact == Spec => []AncestryExact
  BY Invariance, ExactReports, PTL

(* validate_semantics accepts exactly the documents that keep the rules.    *)
THEOREM ValidationExact == Spec => []AcceptedIffValid
  BY Invariance, ValidAtEnd, PTL

(* An accepted document is a forest, and each of its operations has one     *)
(* terminal event at most, the last one, and the status it implies.         *)
THEOREM AcceptedReadsOnce == Spec => []OneOutcome
  BY Invariance, ReadingAtEnd, PTL
-----------------------------------------------------------------------------
(* Positions of spans with intervals.                                      *)
Timed(doc, S) ==
  /\ S \subseteq Int /\ IsFiniteSet(S)
  /\ \A i \in S : doc[i].start \in Int /\ doc[i].end \in Int /\ doc[i].start <= doc[i].end

Disjoint(a, b) == a.end <= b.start \/ b.end <= a.start
Together(a, b) == a.end <= b.start /\ b.end <= a.start

(* The order is total.                                                     *)
LEMMA PrecedesTotal ==
  ASSUME NEW doc, NEW S, Timed(doc, S), NEW i \in S, NEW j \in S
  PROVE  /\ ~Precedes(doc, i, i)
         /\ i # j => Precedes(doc, i, j) \/ Precedes(doc, j, i)
         /\ \A k \in S : Precedes(doc, i, j) /\ Precedes(doc, j, k) => Precedes(doc, i, k)
  BY DEF Timed, Precedes

(* What precedes has an earlier place.                                     *)
LEMMA PlaceEarlier ==
  ASSUME NEW doc, NEW S, Timed(doc, S), NEW i \in S, NEW j \in S, Precedes(doc, i, j)
  PROVE  Place(doc, S, i) < Place(doc, S, j)
<1> DEFINE A == {k \in S : Precedes(doc, k, i)}
           B == {k \in S : Precedes(doc, k, j)}
<1>1. A \subseteq B /\ i \in B /\ i \notin A
  BY PrecedesTotal
<1>2. IsFiniteSet(B)
  BY FS_Subset DEF Timed
<1> HIDE DEF A, B
<1>3. IsFiniteSet(A) /\ Cardinality(A) <= Cardinality(B) /\ Cardinality(A) # Cardinality(B)
  BY <1>1, <1>2, FS_Subset
<1>4. Cardinality(A) \in Nat /\ Cardinality(B) \in Nat
  BY <1>2, <1>3, FS_CardinalityType
<1>5. Cardinality(A) < Cardinality(B)
  BY <1>3, <1>4
<1>6. 1 + Cardinality(A) < 1 + Cardinality(B)
  BY <1>4, <1>5
<1> QED BY <1>6 DEF Place, A, B

(* Every position has a place of its own, and every place is taken.        *)
LEMMA Placed ==
  ASSUME NEW doc, NEW S, Timed(doc, S)
  PROVE  /\ Cardinality(S) \in Nat
         /\ \A i \in S : Place(doc, S, i) \in 1..Cardinality(S)
         /\ \A i, j \in S : Place(doc, S, i) = Place(doc, S, j) => i = j
         /\ \A n \in 1..Cardinality(S) : \E i \in S : Place(doc, S, i) = n
<1> DEFINE N == Cardinality(S)
           f == [i \in S |-> Place(doc, S, i)]
<1>1. IsFiniteSet(S) /\ N \in Nat
  BY FS_CardinalityType DEF Timed
<1>2. ASSUME NEW i \in S PROVE Place(doc, S, i) \in 1..N
  <2> DEFINE A == {k \in S : Precedes(doc, k, i)}
  <2>1. A \in SUBSET (S \ {i})
    BY PrecedesTotal
  <2>2. IsFiniteSet(S \ {i}) /\ Cardinality(S \ {i}) = N - 1
    BY <1>1, FS_RemoveElement
  <2> HIDE DEF A
  <2>3. IsFiniteSet(A) /\ Cardinality(A) <= N - 1
    BY <2>1, <2>2, FS_Subset
  <2>4. Cardinality(A) \in Nat
    BY <2>3, FS_CardinalityType
  <2> HIDE DEF N
  <2>5. 1 + Cardinality(A) \in 1..N
    BY <1>1, <2>3, <2>4
  <2> QED BY <2>5 DEF Place, A
<1>3. ASSUME NEW i \in S, NEW j \in S, Place(doc, S, i) = Place(doc, S, j) PROVE i = j
  <2> SUFFICES ASSUME i # j PROVE FALSE
    OBVIOUS
  <2>1. Place(doc, S, i) \in Int /\ Place(doc, S, j) \in Int
    BY <1>2
  <2>2. CASE Precedes(doc, i, j)
    BY <1>3, <2>1, <2>2, PlaceEarlier
  <2>3. CASE Precedes(doc, j, i)
    BY <1>3, <2>1, <2>3, PlaceEarlier
  <2> QED BY <2>2, <2>3, PrecedesTotal
<1>4. f \in Surjection(S, 1..N)
  <2>1. f \in Injection(S, 1..N)
    <3>1. f \in [S -> 1..N]
      BY <1>2
    <3>2. \A i, j \in S : f[i] = f[j] => i = j
      BY <1>3
    <3> HIDE DEF f, N
    <3> QED BY <3>1, <3>2 DEF Injection, IsInjective
  <2>2. IsFiniteSet(1..N) /\ Cardinality(1..N) = N
    BY <1>1, FS_Interval
  <2> HIDE DEF f, N
  <2>3. N = Cardinality(S)
    BY DEF N
  <2> QED BY <2>1, <2>2, <2>3, FS_Injection
<1>5. \A n \in 1..N : \E i \in S : Place(doc, S, i) = n
  BY <1>4 DEF Surjection
<1> QED BY <1>1, <1>2, <1>3, <1>5

(* InOrder lists the positions, each after those that precede it.          *)
LEMMA Ordered ==
  ASSUME NEW doc, NEW S, Timed(doc, S)
  PROVE  LET order == InOrder(doc, S) IN
         /\ Cardinality(S) \in Nat
         /\ \A n \in 1..Cardinality(S) : order[n] \in S /\ Place(doc, S, order[n]) = n
         /\ \A i \in S : order[Place(doc, S, i)] = i
         /\ \A m, n \in 1..Cardinality(S) : m < n => Precedes(doc, order[m], order[n])
<1> DEFINE order == InOrder(doc, S)
           N == Cardinality(S)
<1>1. /\ N \in Nat
      /\ \A i \in S : Place(doc, S, i) \in 1..N
      /\ \A i, j \in S : Place(doc, S, i) = Place(doc, S, j) => i = j
      /\ \A n \in 1..N : \E i \in S : Place(doc, S, i) = n
  BY Placed
<1>2. \A n \in 1..N : order[n] \in S /\ Place(doc, S, order[n]) = n
  <2> SUFFICES ASSUME NEW n \in 1..N PROVE order[n] \in S /\ Place(doc, S, order[n]) = n
    OBVIOUS
  <2>1. order[n] = CHOOSE i \in S : Place(doc, S, i) = n
    BY DEF InOrder
  <2> QED BY <1>1, <2>1
<1> HIDE DEF order, N
<1>3. \A i \in S : order[Place(doc, S, i)] = i
  BY <1>1, <1>2
<1>4. ASSUME NEW m \in 1..N, NEW n \in 1..N, m < n PROVE Precedes(doc, order[m], order[n])
  <2>1. order[m] \in S /\ order[n] \in S /\ order[m] # order[n]
    BY <1>1, <1>2, <1>4
  <2>2. CASE Precedes(doc, order[n], order[m])
    <3>1. Place(doc, S, order[n]) < Place(doc, S, order[m])
      BY <2>1, <2>2, PlaceEarlier
    <3>2. n < m
      BY <1>2, <3>1
    <3> QED BY <1>1, <1>4, <3>2
  <2> QED BY <2>1, <2>2, PrecedesTotal
<1> QED BY <1>1, <1>2, <1>3, <1>4 DEF order, N

(* A set of numbers has a least element.                                   *)
LEMMA LeastOf ==
  ASSUME NEW D, D \subseteq Nat, D # {}
  PROVE  \E d \in D : \A e \in D : d <= e
<1> DEFINE R == OpToRel(<, Nat)
<1>1. IsWellFoundedOn(R, Nat)
  BY NatLessThanWellFounded
<1>2. \A a, b \in Nat : a < b => <<a, b>> \in R
  BY DEF OpToRel
<1> HIDE DEF R
<1>3. PICK d \in D : \A e \in D : ~(<<e, d>> \in R)
  BY <1>1, WFMin
<1>4. \A e \in D : ~(e < d)
  BY <1>2, <1>3
<1> QED
  BY <1>4

(* Intervals that do not reach into the next one do not reach into any     *)
(* later one, and stay apart if neighbours are.                            *)
LEMMA Chain ==
  ASSUME NEW N \in Nat, NEW s,
         \A n \in 1..N : s[n].start \in Int /\ s[n].end \in Int /\ s[n].start <= s[n].end,
         \A n \in 1..(N - 1) : s[n].end <= s[n + 1].start
  PROVE  \A m, n \in 1..N : m < n =>
           /\ s[m].end <= s[n].start
           /\ (\A k \in 1..(N - 1) : ~Together(s[k], s[k + 1])) => ~Together(s[m], s[n])
<1> DEFINE apart == \A k \in 1..(N - 1) : ~Together(s[k], s[k + 1])
           Good(m, n) == s[m].end <= s[n].start /\ (apart => ~Together(s[m], s[n]))
           bad == {n \in 1..N : \E m \in 1..N : m < n /\ ~Good(m, n)}
<1>1. bad = {}
  <2> SUFFICES ASSUME bad # {} PROVE FALSE
    OBVIOUS
  <2>1. PICK n \in bad : \A e \in bad : n <= e
    <3>1. bad \subseteq Nat
      OBVIOUS
    <3> HIDE DEF bad
    <3> QED BY <3>1, LeastOf
  <2>2. PICK m \in 1..N : m < n /\ ~Good(m, n)
    BY <2>1
  <2>3. n \in 2..N /\ n - 1 \in 1..(N - 1) /\ n - 1 \in 1..N /\ n = (n - 1) + 1
    BY <2>1, <2>2
  <2>4. s[n - 1].end <= s[n].start /\ (apart => ~Together(s[n - 1], s[n]))
    BY <2>3
  <2>5. m # n - 1
    BY <2>2, <2>4
  <2>6. m < n - 1 /\ Good(m, n - 1)
    <3>1. m < n - 1
      BY <2>2, <2>3, <2>5
    <3>2. n - 1 \notin bad
      <4> HIDE DEF bad
      <4> QED BY <2>1, <2>3
    <3> HIDE DEF Good
    <3> QED BY <2>3, <3>1, <3>2
  <2>7. /\ s[m].start \in Int /\ s[m].end \in Int /\ s[m].start <= s[m].end
        /\ s[n].start \in Int /\ s[n].end \in Int /\ s[n].start <= s[n].end
        /\ s[n - 1].start \in Int /\ s[n - 1].end \in Int /\ s[n - 1].start <= s[n - 1].end
    BY <2>3
  <2>8. s[m].end <= s[n].start
    BY <2>4, <2>6, <2>7
  <2>9. Together(s[m], s[n]) => Together(s[m], s[n - 1])
    BY <2>4, <2>6, <2>7 DEF Together
  <2>10. Good(m, n)
    <3> HIDE DEF apart
    <3> QED BY <2>6, <2>8, <2>9
  <2> HIDE DEF Good
  <2> QED BY <2>2, <2>10
<1>2. ASSUME NEW m \in 1..N, NEW n \in 1..N, m < n PROVE Good(m, n)
  <2> HIDE DEF Good
  <2> QED BY <1>1, <1>2
<1> QED BY <1>2

(* The sorted intervals, as a sequence of their own.                       *)
LEMMA Lined ==
  ASSUME NEW doc, NEW S, Timed(doc, S)
  PROVE  LET order == InOrder(doc, S)
             s == [n \in 1..Cardinality(S) |-> doc[order[n]]]
         IN /\ Cardinality(S) \in Nat
            /\ \A n \in 1..Cardinality(S) :
                 s[n].start \in Int /\ s[n].end \in Int /\ s[n].start <= s[n].end
            /\ \A i \in S : Place(doc, S, i) \in 1..Cardinality(S) /\ s[Place(doc, S, i)] = doc[i]
            /\ \A i, j \in S : Place(doc, S, i) = Place(doc, S, j) => i = j
            /\ \A n \in 1..(Cardinality(S) - 1) :
                 \E i, j \in S : i # j /\ s[n] = doc[i] /\ s[n + 1] = doc[j] /\ Precedes(doc, i, j)
<1> DEFINE order == InOrder(doc, S)
           N == Cardinality(S)
           s == [n \in 1..N |-> doc[order[n]]]
<1>1. /\ N \in Nat
      /\ \A n \in 1..N : order[n] \in S /\ Place(doc, S, order[n]) = n
      /\ \A i \in S : order[Place(doc, S, i)] = i
      /\ \A m, n \in 1..N : m < n => Precedes(doc, order[m], order[n])
  BY Ordered
<1>2. /\ \A i \in S : Place(doc, S, i) \in 1..N
      /\ \A i, j \in S : Place(doc, S, i) = Place(doc, S, j) => i = j
  BY Placed
<1> HIDE DEF order, N
<1>3. \A n \in 1..N : s[n].start \in Int /\ s[n].end \in Int /\ s[n].start <= s[n].end
  BY <1>1 DEF Timed
<1>4. \A i \in S : s[Place(doc, S, i)] = doc[i]
  BY <1>1, <1>2
<1>5. ASSUME NEW n \in 1..(N - 1)
      PROVE  \E i, j \in S : i # j /\ s[n] = doc[i] /\ s[n + 1] = doc[j] /\ Precedes(doc, i, j)
  <2>1. n \in 1..N /\ n + 1 \in 1..N /\ n < n + 1
    BY <1>1
  <2>2. order[n] \in S /\ order[n + 1] \in S /\ Precedes(doc, order[n], order[n + 1])
    BY <1>1, <2>1
  <2>3. order[n] # order[n + 1]
    BY <2>2, PrecedesTotal
  <2> QED BY <2>1, <2>2, <2>3
<1> QED BY <1>1, <1>2, <1>3, <1>4, <1>5 DEF order, N

(* Looking at neighbours is exact: the operations beside each other are    *)
(* taken to be in turn iff no two of them overlap, however many there are  *)
(* (replay/otlp.rs).                                                       *)
THEOREM InTurnExact ==
  ASSUME NEW doc, NEW S, Timed(doc, S)
  PROVE  InTurn(doc, S) <=> \A i, j \in S : i # j => Disjoint(doc[i], doc[j])
<1> DEFINE N == Cardinality(S)
           order == InOrder(doc, S)
           s == [n \in 1..N |-> doc[order[n]]]
<1>1. /\ N \in Nat
      /\ \A n \in 1..N : s[n].start \in Int /\ s[n].end \in Int /\ s[n].start <= s[n].end
      /\ \A i \in S : Place(doc, S, i) \in 1..N /\ s[Place(doc, S, i)] = doc[i]
      /\ \A i, j \in S : Place(doc, S, i) = Place(doc, S, j) => i = j
      /\ \A n \in 1..(N - 1) :
           \E i, j \in S : i # j /\ s[n] = doc[i] /\ s[n + 1] = doc[j] /\ Precedes(doc, i, j)
  BY Lined
<1>2. InTurn(doc, S) <=> \A n \in 1..(N - 1) : s[n].end <= s[n + 1].start
  <2>1. \A n \in 1..(N - 1) : s[n] = doc[order[n]] /\ s[n + 1] = doc[order[n + 1]]
    BY <1>1
  <2> QED BY <2>1 DEF InTurn
<1> HIDE DEF s, N, order
<1>3. ASSUME InTurn(doc, S), NEW i \in S, NEW j \in S, i # j PROVE Disjoint(doc[i], doc[j])
  <2> DEFINE m == Place(doc, S, i)
             n == Place(doc, S, j)
  <2>1. m \in 1..N /\ n \in 1..N /\ m # n /\ s[m] = doc[i] /\ s[n] = doc[j]
    BY <1>1, <1>3
  <2>2. \A a, b \in 1..N : a < b => s[a].end <= s[b].start
    BY <1>1, <1>2, <1>3, Chain
  <2> HIDE DEF m, n
  <2>3. m < n \/ n < m
    BY <1>1, <2>1
  <2> QED BY <2>1, <2>2, <2>3 DEF Disjoint
<1>4. ASSUME \A i, j \in S : i # j => Disjoint(doc[i], doc[j]),
             NEW n \in 1..(N - 1)
      PROVE  s[n].end <= s[n + 1].start
  <2>1. PICK i, j \in S : i # j /\ s[n] = doc[i] /\ s[n + 1] = doc[j] /\ Precedes(doc, i, j)
    BY <1>1
  <2>2. Disjoint(doc[i], doc[j])
    BY <1>4, <2>1
  <2>3. doc[i].end <= doc[j].start
    BY <2>1, <2>2 DEF Disjoint, Precedes, Timed
  <2> QED BY <2>1, <2>3
<1> QED BY <1>2, <1>3, <1>4

(* The same with intervals that may stand together in one point.           *)
LEMMA StrictNeighbours ==
  ASSUME NEW doc, NEW S, Timed(doc, S)
  PROVE  LET order == InOrder(doc, S) IN
         (\A n \in 1..(Cardinality(S) - 1) :
            /\ doc[order[n]].end <= doc[order[n + 1]].start
            /\ ~Together(doc[order[n]], doc[order[n + 1]]))
         <=> \A i, j \in S : i # j => Disjoint(doc[i], doc[j]) /\ ~Together(doc[i], doc[j])
<1> DEFINE N == Cardinality(S)
           order == InOrder(doc, S)
           s == [n \in 1..N |-> doc[order[n]]]
           Neighbours == \A n \in 1..(N - 1) : /\ doc[order[n]].end <= doc[order[n + 1]].start
                                               /\ ~Together(doc[order[n]], doc[order[n + 1]])
<1>1. /\ N \in Nat
      /\ \A n \in 1..N : s[n].start \in Int /\ s[n].end \in Int /\ s[n].start <= s[n].end
      /\ \A i \in S : Place(doc, S, i) \in 1..N /\ s[Place(doc, S, i)] = doc[i]
      /\ \A i, j \in S : Place(doc, S, i) = Place(doc, S, j) => i = j
      /\ \A n \in 1..(N - 1) :
           \E i, j \in S : i # j /\ s[n] = doc[i] /\ s[n + 1] = doc[j] /\ Precedes(doc, i, j)
  BY Lined
<1>2. Neighbours <=> \A n \in 1..(N - 1) : s[n].end <= s[n + 1].start /\ ~Together(s[n], s[n + 1])
  <2>1. \A n \in 1..(N - 1) : s[n] = doc[order[n]] /\ s[n + 1] = doc[order[n + 1]]
    BY <1>1
  <2> HIDE DEF s
  <2> QED BY <2>1
<1> HIDE DEF s, N, order, Neighbours
<1>3. ASSUME Neighbours, NEW i \in S, NEW j \in S, i # j
      PROVE  Disjoint(doc[i], doc[j]) /\ ~Together(doc[i], doc[j])
  <2> DEFINE m == Place(doc, S, i)
             n == Place(doc, S, j)
  <2>1. m \in 1..N /\ n \in 1..N /\ m # n /\ s[m] = doc[i] /\ s[n] = doc[j]
    BY <1>1, <1>3
  <2>2. \A a, b \in 1..N : a < b => s[a].end <= s[b].start /\ ~Together(s[a], s[b])
    <3>1. /\ \A k \in 1..(N - 1) : s[k].end <= s[k + 1].start
          /\ \A k \in 1..(N - 1) : ~Together(s[k], s[k + 1])
      BY <1>2, <1>3
    <3>2. \A a, b \in 1..N : a < b =>
            /\ s[a].end <= s[b].start
            /\ (\A k \in 1..(N - 1) : ~Together(s[k], s[k + 1])) => ~Together(s[a], s[b])
      BY <1>1, <3>1, Chain
    <3> QED BY <3>1, <3>2
  <2> HIDE DEF m, n
  <2>3. m < n \/ n < m
    BY <1>1, <2>1
  <2> QED BY <2>1, <2>2, <2>3 DEF Disjoint, Together
<1>4. ASSUME \A i, j \in S : i # j => Disjoint(doc[i], doc[j]) /\ ~Together(doc[i], doc[j]),
             NEW n \in 1..(N - 1)
      PROVE  s[n].end <= s[n + 1].start /\ ~Together(s[n], s[n + 1])
  <2>1. PICK i, j \in S : i # j /\ s[n] = doc[i] /\ s[n + 1] = doc[j] /\ Precedes(doc, i, j)
    BY <1>1
  <2>2. Disjoint(doc[i], doc[j]) /\ ~Together(doc[i], doc[j])
    BY <1>4, <2>1
  <2>3. doc[i].end <= doc[j].start
    BY <2>1, <2>2 DEF Disjoint, Precedes, Timed
  <2> QED BY <2>1, <2>2, <2>3
<1>5. Neighbours <=>
        \A i, j \in S : i # j => Disjoint(doc[i], doc[j]) /\ ~Together(doc[i], doc[j])
  BY <1>2, <1>3, <1>4
<1> QED BY <1>5 DEF Neighbours, N, order

(* Looking at neighbours is exact: children are strictly ordered iff every *)
(* interval is valid and of any two children one ends before the other     *)
(* starts, and not the other way round too (sequential_children).          *)
THEOREM StrictlyOrderedExact ==
  ASSUME NEW count \in Nat, NEW children, Len(children) = count, DOMAIN children = 1..count,
         \A i \in 1..count : children[i].start \in Int /\ children[i].end \in Int
  PROVE  StrictlyOrdered(children) <=>
           /\ \A i \in 1..count : ValidInterval(children[i])
           /\ \A i, j \in 1..count : i # j => /\ Disjoint(children[i], children[j])
                                              /\ ~Together(children[i], children[j])
<1> DEFINE S == DOMAIN children
           valid == \A i \in S : ValidInterval(children[i])
<1>1. Cardinality(S) = count /\ IsFiniteSet(S) /\ S \subseteq Int
  BY FS_Interval
<1>2. CASE ~valid
  BY <1>1, <1>2 DEF StrictlyOrdered
<1>3. CASE valid
  <2>1. Timed(children, S)
    BY <1>1, <1>3 DEF Timed, ValidInterval
  <2> DEFINE order == InOrder(children, S)
             N == Cardinality(S)
  <2>2. (\A n \in 1..(N - 1) :
            /\ children[order[n]].end <= children[order[n + 1]].start
            /\ ~Together(children[order[n]], children[order[n + 1]]))
         <=> \A i, j \in S : i # j => /\ Disjoint(children[i], children[j])
                                      /\ ~Together(children[i], children[j])
    <3> HIDE DEF S
    <3> QED BY <2>1, StrictNeighbours
  <2>3. N = count /\ N \in Nat
    BY <1>1
  <2>4. \A n \in 1..(N - 1) : order[n] \in S /\ order[n + 1] \in S
    <3> HIDE DEF S
    <3>1. \A n \in 1..N : order[n] \in S
      BY <2>1, Ordered
    <3> HIDE DEF N, order
    <3> QED BY <2>3, <3>1
  <2> DEFINE Clash(left, right) == \/ left.end <= right.start /\ right.end <= left.start
                                   \/ left.end > right.start
  <2>5. StrictlyOrdered(children) <=>
          \A n \in 1..(N - 1) : ~Clash(children[order[n]], children[order[n + 1]])
    BY <1>3, <2>3 DEF StrictlyOrdered
  <2> HIDE DEF N, order
  <2>6. \A n \in 1..(N - 1) :
          ~Clash(children[order[n]], children[order[n + 1]]) <=>
            /\ children[order[n]].end <= children[order[n + 1]].start
            /\ ~Together(children[order[n]], children[order[n + 1]])
    BY <2>1, <2>4 DEF Timed, Together
  <2> HIDE DEF Clash
  <2>7. StrictlyOrdered(children) <=>
          \A i, j \in S : i # j => /\ Disjoint(children[i], children[j])
                                   /\ ~Together(children[i], children[j])
    BY <2>2, <2>5, <2>6
  <2> QED BY <1>3, <2>7
<1> QED BY <1>2, <1>3
=============================================================================
