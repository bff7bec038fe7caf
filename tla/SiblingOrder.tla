----------------------------- MODULE SiblingOrder -----------------------------
(***************************************************************************)
(* Spans that stand beside each other, in the order of their intervals     *)
(* (specgate-ctsc comparison/engine.rs, sequential_children, and           *)
(* replay/otlp.rs).  Both sort them and then look at neighbours only.      *)
(***************************************************************************)
EXTENDS CtscRules

(* By start, then end; the sort is stable.                                 *)
Precedes(spans, i, j) ==
  \/ spans[i].start < spans[j].start
  \/ spans[i].start = spans[j].start /\ spans[i].end < spans[j].end
  \/ spans[i].start = spans[j].start /\ spans[i].end = spans[j].end /\ i < j

(* The positions in S of a document, sorted: a position's place is after   *)
(* all that precede it.                                                    *)
Place(spans, S, i) == 1 + Cardinality({j \in S : Precedes(spans, j, i)})
InOrder(spans, S) == [n \in 1..Cardinality(S) |-> CHOOSE i \in S : Place(spans, S, i) = n]

(* No interval reaches into the next.                                      *)
InTurn(spans, S) ==
  LET order == InOrder(spans, S) IN
  \A n \in 1..(Cardinality(S) - 1) : spans[order[n]].end <= spans[order[n + 1]].start

ShareNoStart(children) ==   \* mutant: only equal starts are refused
  LET order == InOrder(children, DOMAIN children)
  IN \A n \in 1..(Len(children) - 1) :
       children[order[n]].start # children[order[n + 1]].start

(* Children that have valid intervals, in an order that is strict.         *)
StrictlyOrdered(children) ==
  LET order == InOrder(children, DOMAIN children)
      Clash(left, right) == \/ left.end <= right.start /\ right.end <= left.start
                            \/ left.end > right.start
  IN /\ \A i \in DOMAIN children : ValidInterval(children[i])
     /\ \A n \in 1..(Len(children) - 1) :
          ~Clash(children[order[n]], children[order[n + 1]])
=============================================================================
