--------------------------- MODULE TraceValidation ---------------------------
(***************************************************************************)
(* validate_semantics and validate_ancestry (specgate-ctsc                 *)
(* validation/trace.rs and validation/trace/ancestry.rs), one loop         *)
(* iteration at a time.                                                    *)
(*                                                                         *)
(* The loaded spans are passed four times: to index them by identifier, to *)
(* find the run over each of them, to compare the runs found within a      *)
(* trace, and to check each span and its events.  The second pass climbs   *)
(* from a span by parent identifiers until it meets a run, a dead end, a   *)
(* span it has already passed or one that an earlier climb resolved: all   *)
(* climbs share one cache.                                                 *)
(*                                                                         *)
(* path and seen hold the same keys and are one variable.  An issue is     *)
(* <<kind, position of the span it is reported for>>.                      *)
(***************************************************************************)
EXTENDS CtscRules

CONSTANT Documents      \* the span sequences that may be loaded

IsSequence(s) == Len(s) \in Nat /\ DOMAIN s = 1..Len(s)

ASSUME DocumentsAssumption ==
  \A d \in Documents : IsSequence(d) /\ \A i \in DOMAIN d : IsSequence(d[i].events)

VARIABLES
  spans,      \* the document
  pass,       \* the loop that runs: "index", "climb", "compare", "check" or "done"
  next,       \* its position
  current,    \* where the climb from spans[next] is, 0 between climbs
  seen,       \* the keys passed on the climb
  cache,      \* the resolutions of earlier climbs, by key
  found,      \* the resolution of each span resolved so far
  issues      \* what has been reported

vars == <<spans, pass, next, current, seen, cache, found, issues>>

(* Resolution                                                              *)
RootRun(id) == <<"root", id>>
IsRootRun(r) == r[1] = "root"

Init ==
  /\ spans \in Documents
  /\ pass = "index"
  /\ next = 1
  /\ current = 0
  /\ seen = {}
  /\ cache = [k \in {} |-> <<"cycle">>]
  /\ found = [i \in {} |-> <<"cycle">>]
  /\ issues = {}

At(loop) == pass = loop /\ next \in DOMAIN spans
Issue(kind, holds) == IF holds THEN {<<kind, next>>} ELSE {}

IndexSpan ==
  /\ At("index")
  /\ issues' = issues \cup Issue("ids", ~IdsOk(spans[next]))
       \cup Issue("duplicate", \E k \in 1..(next - 1) : Key(spans[k]) = Key(spans[next]))
  /\ next' = next + 1
  /\ UNCHANGED <<spans, pass, current, seen, cache, found>>

(* A loop is over.                                                         *)
NextPass ==
  /\ pass # "done" /\ next \notin DOMAIN spans
  /\ pass' = CASE pass = "index"   -> "climb"
               [] pass = "climb"   -> "compare"
               [] pass = "compare" -> "check"
               [] pass = "check"   -> "done"
  /\ next' = 1
  /\ UNCHANGED <<spans, current, seen, cache, found, issues>>

SkipRun ==
  /\ At("climb") /\ current = 0
  /\ spans[next].name = "run"
  /\ next' = next + 1
  /\ UNCHANGED <<spans, pass, current, seen, cache, found, issues>>

StartClimb ==
  /\ At("climb") /\ current = 0
  /\ spans[next].name # "run"
  /\ current' = next
  /\ seen' = {}
  /\ UNCHANGED <<spans, pass, next, cache, found, issues>>

(* One iteration of run_ancestor's loop: how it breaks, if it does.        *)
Resolution ==
  LET span == spans[current]
      parents == Candidates(spans, span.trace, span.parent)
  IN IF Key(span) \in DOMAIN cache THEN cache[Key(span)]
     ELSE IF Key(span) \in seen THEN <<"cycle">>
     ELSE IF span.name = "run"
     THEN IF span.parent = NoId THEN RootRun(span.id) ELSE <<"missing_run">>
     ELSE IF span.parent = span.id THEN <<"self_parent">>
     ELSE IF span.parent = NoId \/ parents = {} THEN <<"missing_run">>
     ELSE IF \E p, q \in parents : p # q THEN <<"multiple_parents">>
     ELSE <<"parent">>

ClimbOn ==
  /\ At("climb") /\ current # 0
  /\ Resolution = <<"parent">>
  /\ current' \in Parents(spans, current)
  /\ seen' = seen \cup {Key(spans[current])}
  /\ UNCHANGED <<spans, pass, next, cache, found, issues>>

(* Mutant: the spans passed on the way are remembered without a run.       *)
RememberedForgetful(path, resolution) ==
  [k \in path \cup DOMAIN cache |->
     IF k = Key(spans[next]) THEN resolution
     ELSE IF k \in path THEN <<"missing_run">> ELSE cache[k]]

Remembered(path, resolution) ==
  [k \in path \cup DOMAIN cache |-> IF k \in path THEN resolution ELSE cache[k]]

EndClimb ==
  LET key == Key(spans[current])
      path == IF key \in DOMAIN cache THEN seen ELSE seen \cup {key}
  IN
  /\ At("climb") /\ current # 0
  /\ Resolution # <<"parent">>
  /\ cache' = Remembered(path, Resolution)
  /\ found' = [i \in DOMAIN found \cup {next} |->
                 IF i = next THEN Resolution ELSE found[i]]
  /\ issues' = issues \cup Issue("ancestry", ~IsRootRun(Resolution))
  /\ current' = 0
  /\ next' = next + 1
  /\ UNCHANGED <<spans, pass, seen>>

(* trace_roots of the trace of spans[i]                                    *)
TraceRoots(i) ==
  {found[j][2] : j \in {k \in DOMAIN found : /\ IsRootRun(found[k])
                                             /\ spans[k].trace = spans[i].trace}}

CompareRoots ==
  /\ At("compare")
  /\ issues' = issues
       \cup Issue("roots", /\ next \in DOMAIN found /\ IsRootRun(found[next])
                           /\ \E a, b \in TraceRoots(next) : a # b)
  /\ next' = next + 1
  /\ UNCHANGED <<spans, pass, current, seen, cache, found>>

CheckSpan ==
  /\ At("check")
  /\ issues' = issues \cup Issue("span", ~SpanOk(spans, spans[next]))
                    \cup Issue("events", ~EventsOk(spans[next]))
  /\ next' = next + 1
  /\ UNCHANGED <<spans, pass, current, seen, cache, found>>

Next == \/ IndexSpan \/ NextPass
        \/ SkipRun \/ StartClimb \/ ClimbOn \/ EndClimb
        \/ CompareRoots \/ CheckSpan

Spec == Init /\ [][Next]_vars
-----------------------------------------------------------------------------
(* What the climbs should find, without climbing: the smallest set of      *)
(* spans that holds a span and the parents of all its members, and the     *)
(* root runs in it.                                                        *)
Closed(s) == {S \in SUBSET DOMAIN s : \A k \in S : Parents(s, k) \subseteq S}
Ancestors(s, i) == {j \in DOMAIN s : \A S \in Closed(s) : i \in S => j \in S}
IsRoot(span) == span.name = "run" /\ span.parent = NoId
Roots(s, i) == {r \in Ancestors(s, i) : IsRoot(s[r])}
Below(s) == {i \in DOMAIN s : s[i].name # "run"}

Rootless(s, i) == Roots(s, i) = {}
Torn(s, i) == \E j \in Below(s) : /\ s[j].trace = s[i].trace
                                 /\ ~Rootless(s, j) /\ Roots(s, j) # Roots(s, i)
Forest(s) == \A i \in Below(s) : ~Rootless(s, i) /\ ~Torn(s, i)

(* The memoised climbs report exactly the spans they should: in a document  *)
(* with unique identifiers, after the loops of validate_ancestry, a span    *)
(* is reported for its ancestry iff no root run stands over it, and for its *)
(* root iff spans of its trace stand under different ones; in whatever      *)
(* order the document lists its spans, whatever cycles and dead ends it     *)
(* has, and whatever the climbs before left in the cache.                   *)
AncestryExact ==
  (UniqueKeys(spans) /\ pass \in {"check", "done"}) =>
    \A i \in DOMAIN spans :
      /\ <<"ancestry", i>> \in issues <=> i \in Below(spans) /\ Rootless(spans, i)
      /\ <<"roots", i>> \in issues <=>
           i \in Below(spans) /\ ~Rootless(spans, i) /\ Torn(spans, i)

Accepted == pass = "done" /\ issues = {}

(* An accepted document is a forest of operations with one reading each:    *)
(* its identifiers are unique, every span stands under the one root run of  *)
(* its trace, and an operation has observations, then at most one terminal  *)
(* event, and the status its outcome implies.  The readers after validation *)
(* (linking, replay, comparison) each look for the parent and the terminal  *)
(* event in a way of their own and rely on this.                            *)
OneOutcome ==
  Accepted =>
    /\ UniqueKeys(spans) /\ Forest(spans)
    /\ \A i \in DOMAIN spans : spans[i].name = "operation" =>
         LET es == spans[i].events
             last == IF Len(es) = 0 THEN "none" ELSE es[Len(es)].name
         IN /\ \A j \in 1..(Len(es) - 1) : es[j].name = "observation"
            /\ last \in {"error", "fault"} => spans[i].status = "error"
            /\ last = "abandoned" => spans[i].status = "unset"
            /\ last \in {"none", "observation"} => spans[i].status = "ok"
=============================================================================
