--------------------------- MODULE RecordingProofs ---------------------------
(***************************************************************************)
(* Proofs about module Recording: the one pass of filter finds a           *)
(* component's whole share of every recording, and what it finds can be    *)
(* encoded.                                                                *)
(*                                                                         *)
(* filter looks at each operation once, in the order they began.  That is  *)
(* enough because of how a session records: identifiers are never given    *)
(* twice, none is the scenario's, and a parent has begun before its        *)
(* children.  RecordedInv says so of the running session and of every      *)
(* capture; the rest is about one capture that is WellRecorded.            *)
(***************************************************************************)
EXTENDS Recording, WellFoundedInduction, FiniteSetTheorems, SequenceTheorems, TLAPS

IsSequence(s) == Len(s) \in Nat /\ s = [i \in 1..Len(s) |-> s[i]]

WellRecorded(ops, scenario) ==
  /\ IsSequence(ops)
  /\ \A i \in DOMAIN ops :
       /\ {"id", "parent", "component"} \subseteq DOMAIN ops[i]
       /\ ops[i].id # scenario
       /\ ops[i].parent = scenario \/ \E j \in 1..(i - 1) : ops[j].id = ops[i].parent
       /\ \A j \in DOMAIN ops : ops[i].id = ops[j].id => i = j
-----------------------------------------------------------------------------
(* Callers.                                                                *)

(* Callers are the least closed set.                                       *)
LEMMA CallersLeast ==
  ASSUME NEW ops, NEW i \in DOMAIN ops
  PROVE  /\ i \in Callers(ops, i)
         /\ Callers(ops, i) \in ClosedUp(ops)
         /\ \A S \in ClosedUp(ops) : i \in S => Callers(ops, i) \subseteq S
<1>1. i \in Callers(ops, i)
  BY DEF Callers
<1>2. Callers(ops, i) \in SUBSET DOMAIN ops
  BY DEF Callers
<1>3. ASSUME NEW k \in Callers(ops, i), NEW p \in ParentsOf(ops, k)
      PROVE  p \in Callers(ops, i)
  <2>1. p \in DOMAIN ops
    BY DEF ParentsOf
  <2>2. ASSUME NEW S \in ClosedUp(ops), i \in S PROVE p \in S
    <3>1. k \in S
      BY <2>2 DEF Callers
    <3>2. ParentsOf(ops, k) \subseteq S
      BY <3>1 DEF ClosedUp
    <3> QED BY <3>2
  <2> QED BY <2>1, <2>2 DEF Callers
<1>4. Callers(ops, i) \in ClosedUp(ops)
  BY <1>2, <1>3 DEF ClosedUp
<1> QED
  BY <1>1, <1>4 DEF Callers

(* The callers of an operation that has a parent are the parent's and it.  *)
LEMMA CallersOfParent ==
  ASSUME NEW ops, NEW i \in DOMAIN ops, NEW p \in DOMAIN ops, ParentsOf(ops, i) = {p}
  PROVE  Callers(ops, i) = Callers(ops, p) \cup {i}
<1> DEFINE C == Callers(ops, p) \cup {i}
<1>1. i \in C /\ C \in ClosedUp(ops)
  <2>1. C \in SUBSET DOMAIN ops
    BY DEF Callers
  <2>2. ASSUME NEW k \in C PROVE ParentsOf(ops, k) \subseteq C
    <3>1. CASE k = i
      BY <3>1, CallersLeast
    <3>2. CASE k \in Callers(ops, p)
      BY <3>2, CallersLeast DEF ClosedUp
    <3> QED BY <2>2, <3>1, <3>2
  <2> QED BY <2>1, <2>2 DEF ClosedUp
<1>2. Callers(ops, i) \subseteq C
  <2> HIDE DEF C
  <2> QED BY <1>1, CallersLeast
<1>3. p \in Callers(ops, i)
  BY CallersLeast DEF ClosedUp
<1>4. C \subseteq Callers(ops, i)
  BY <1>3, CallersLeast
<1> QED
  BY <1>2, <1>4

(* Nothing is over an operation without a parent among the recorded.       *)
LEMMA CallersOfTop ==
  ASSUME NEW ops, NEW i \in DOMAIN ops, ParentsOf(ops, i) = {}
  PROVE  Callers(ops, i) = {i}
<1>1. {i} \in ClosedUp(ops)
  BY DEF ClosedUp
<1> QED
  BY <1>1, CallersLeast

(* Whose share an operation is: its own component's if the scenario called *)
(* it, its parent's share if not.                                          *)
LEMMA OwnedByParent ==
  ASSUME NEW capture, NEW component, WellRecorded(capture.operations, capture.scenario),
         NEW i \in DOMAIN capture.operations
  PROVE  LET ops == capture.operations
             owned == OwnedAt(capture, component)
         IN /\ ops[i].parent = capture.scenario =>
                 (i \in owned <=> ops[i].component = component)
            /\ \A j \in DOMAIN ops : ops[j].id = ops[i].parent =>
                 (i \in owned <=> j \in owned)
<1> DEFINE ops == capture.operations
           owned == OwnedAt(capture, component)
<1>0. \A k \in DOMAIN ops :
        k \in owned <=> \E j \in Callers(ops, k) : /\ ops[j].parent = capture.scenario
                                                   /\ ops[j].component = component
  BY DEF OwnedAt, Outermost
<1>1. ASSUME ops[i].parent = capture.scenario
      PROVE  i \in owned <=> ops[i].component = component
  <2>1. ParentsOf(ops, i) = {}
    BY <1>1 DEF WellRecorded, ParentsOf
  <2>2. Callers(ops, i) = {i}
    BY <2>1, CallersOfTop
  <2> HIDE DEF owned
  <2> QED BY <1>0, <1>1, <2>2
<1>2. ASSUME NEW j \in DOMAIN ops, ops[j].id = ops[i].parent
      PROVE  i \in owned <=> j \in owned
  <2>1. ParentsOf(ops, i) = {j}
    BY <1>2 DEF WellRecorded, ParentsOf
  <2>2. Callers(ops, i) = Callers(ops, j) \cup {i}
    BY <2>1, CallersOfParent
  <2>3. ops[i].parent # capture.scenario
    BY <1>2 DEF WellRecorded
  <2> HIDE DEF owned
  <2> QED BY <1>0, <2>2, <2>3
<1> QED
  BY <1>1, <1>2
-----------------------------------------------------------------------------
(* The pass.                                                               *)

(* A set of numbers has a least element.                                   *)
LEMMA LeastOf ==
  ASSUME NEW D, D \subseteq Nat, D # {}
  PROVE  \E d \in D : \A e \in D : d <= e
<1> DEFINE R == OpToRel(<, Nat)
<1>1. IsWellFoundedOn(R, Nat)
  BY NatLessThanWellFounded
<1>2. \A a, b \in Nat : a < b => <<a, b>> \in R
  BY DEF OpToRel
<1> HIDE DEF R
<1>3. PICK d \in D : \A e \in D : ~(<<e, d>> \in R)
  BY <1>1, WFMin
<1>4. \A e \in D : ~(e < d)
  BY <1>2, <1>3
<1> QED
  BY <1>4

(* What the loop has retained after each operation.                        *)
IsPass(ops, top, f) ==
  f = [n \in 0..Len(ops) |->
         IF n = 0 THEN top
         ELSE IF ops[n].parent \in f[n - 1] THEN f[n - 1] \cup {ops[n].id}
         ELSE f[n - 1]]

(* One iteration of the loop.                                              *)
LEMMA PassStep ==
  ASSUME NEW ops, Len(ops) \in Nat, NEW top, NEW f, IsPass(ops, top, f)
  PROVE  /\ f[0] = top
         /\ \A n \in 1..Len(ops) :
              f[n] = IF ops[n].parent \in f[n - 1] THEN f[n - 1] \cup {ops[n].id} ELSE f[n - 1]
         /\ f = [n \in 0..Len(ops) |-> f[n]]
<1> DEFINE N == Len(ops)
           body(n) == IF n = 0 THEN top
                      ELSE IF ops[n].parent \in f[n - 1] THEN f[n - 1] \cup {ops[n].id}
                      ELSE f[n - 1]
<1>1. f = [n \in 0..N |-> body(n)]
  BY DEF IsPass
<1>2. body(0) = top
  OBVIOUS
<1>3. \A n \in 1..N :
        body(n) = IF ops[n].parent \in f[n - 1] THEN f[n - 1] \cup {ops[n].id} ELSE f[n - 1]
  OBVIOUS
<1> HIDE DEF body
<1>4. \A n \in 0..N : f[n] = body(n)
  BY <1>1
<1>5. f = [n \in 0..N |-> f[n]]
  BY <1>1
<1> QED
  BY <1>2, <1>3, <1>4, <1>5

(* There is one way the loop can go.                                       *)
LEMMA OnePass ==
  ASSUME NEW ops, Len(ops) \in Nat, NEW top, NEW f, NEW g,
         IsPass(ops, top, f), IsPass(ops, top, g)
  PROVE  f = g
<1> DEFINE N == Len(ops)
           D == {n \in 0..N : f[n] # g[n]}
<1>1. /\ f[0] = top /\ g[0] = top
      /\ \A n \in 1..N :
           /\ f[n] = IF ops[n].parent \in f[n - 1] THEN f[n - 1] \cup {ops[n].id} ELSE f[n - 1]
           /\ g[n] = IF ops[n].parent \in g[n - 1] THEN g[n - 1] \cup {ops[n].id} ELSE g[n - 1]
  BY PassStep
<1>2. D = {}
  <2> SUFFICES ASSUME D # {} PROVE FALSE
    OBVIOUS
  <2>0. D \subseteq Nat
    OBVIOUS
  <2>1. PICK d \in D : \A e \in D : d <= e
    <3> HIDE DEF D
    <3> QED BY <2>0, LeastOf
  <2>2. d # 0
    BY <1>1, <2>1
  <2>3. d \in 1..N /\ d - 1 \in 0..N /\ d - 1 \notin D
    BY <2>1, <2>2
  <2>4. f[d - 1] = g[d - 1]
    BY <2>3
  <2>5. f[d] = g[d]
    BY <1>1, <2>3, <2>4
  <2> QED BY <2>1, <2>5
<1>3. \A n \in 0..N : f[n] = g[n]
  BY <1>2
<1>4. f = [n \in 0..N |-> f[n]] /\ g = [n \in 0..N |-> g[n]]
  BY PassStep
<1> QED
  BY <1>3, <1>4

(* So a function that obeys the loop's equations is what it computes.      *)
LEMMA PassedIs ==
  ASSUME NEW ops, Len(ops) \in Nat, NEW top, NEW f, IsPass(ops, top, f)
  PROVE  Passed(ops, top) = f
<1>1. Passed(ops, top) = CHOOSE g : IsPass(ops, top, g)
  BY DEF Passed, IsPass
<1>2. IsPass(ops, top, CHOOSE g : IsPass(ops, top, g))
  OBVIOUS
<1>3. IsPass(ops, top, Passed(ops, top))
  BY <1>1, <1>2
<1> QED
  BY <1>3, OnePass

(* The pass retains the share: after n operations, the component's         *)
(* top-level ones and those of its share among the first n.                *)
LEMMA PassRetains ==
  ASSUME NEW capture, NEW component, WellRecorded(capture.operations, capture.scenario)
  PROVE  KeptAt(capture, component) = OwnedAt(capture, component)
<1> DEFINE ops == capture.operations
           N == Len(ops)
           scenario == capture.scenario
           owned == OwnedAt(capture, component)
           first == {j \in DOMAIN ops : ops[j].parent = scenario /\ ops[j].component = component}
           top == {ops[i].id : i \in first}
           some(n) == top \cup {ops[i].id : i \in {j \in owned : j <= n}}
           f == [n \in 0..N |-> some(n)]
<1>1. N \in Nat /\ DOMAIN ops = 1..N
  BY DEF WellRecorded, IsSequence
<1>2. owned \subseteq DOMAIN ops /\ first \subseteq owned
  BY OwnedByParent DEF OwnedAt
<1>3. \A i \in DOMAIN ops :
        /\ ops[i].id # scenario
        /\ ops[i].parent = scenario \/ \E j \in 1..(i - 1) : ops[j].id = ops[i].parent
        /\ \A j \in DOMAIN ops : ops[i].id = ops[j].id => i = j
  BY DEF WellRecorded
<1>4. \A i, j \in DOMAIN ops : ops[j].id = ops[i].parent => (i \in owned <=> j \in owned)
  BY OwnedByParent
<1>5. \A i \in owned : ops[i].parent = scenario => i \in first
  BY OwnedByParent, <1>2
<1> HIDE DEF owned
<1>6. \A n \in 0..N : f[n] = some(n)
  OBVIOUS
<1>7. f[0] = top
  BY <1>1, <1>2, <1>6
<1>8. ASSUME NEW n \in 1..N
      PROVE  f[n] = IF ops[n].parent \in f[n - 1] THEN f[n - 1] \cup {ops[n].id} ELSE f[n - 1]
  <2>1. n - 1 \in 0..N /\ n \in 0..N /\ n \in DOMAIN ops
    BY <1>1
  <2>2. f[n] = some(n) /\ f[n - 1] = some(n - 1)
    BY <1>6, <2>1
  <2>3. {j \in owned : j <= n} = {j \in owned : j <= n - 1} \cup (owned \cap {n})
    BY <1>1, <1>2
  <2>4. CASE n \in owned /\ ops[n].parent = scenario
    <3>1. ops[n].id \in top
      BY <1>5, <2>4
    <3>2. some(n) = some(n - 1)
      BY <2>3, <3>1
    <3> QED BY <2>2, <3>1, <3>2
  <2>5. CASE n \in owned /\ ops[n].parent # scenario
    <3>1. PICK j \in 1..(n - 1) : ops[j].id = ops[n].parent
      BY <1>3, <2>1, <2>5
    <3>2. j \in owned /\ j <= n - 1
      BY <1>1, <1>4, <2>1, <2>5, <3>1
    <3>3. ops[n].parent \in some(n - 1)
      BY <3>1, <3>2
    <3>4. some(n) = some(n - 1) \cup {ops[n].id}
      BY <2>3, <2>5
    <3> QED BY <2>2, <3>3, <3>4
  <2>6. CASE n \notin owned
    <3>1. some(n) = some(n - 1)
      BY <2>3, <2>6
    <3>2. ASSUME ops[n].parent \in some(n - 1) PROVE FALSE
      <4>1. PICK i \in owned : ops[i].id = ops[n].parent
        BY <1>2, <3>2
      <4>2. n \in owned
        BY <1>2, <1>4, <2>1, <4>1
      <4> QED BY <2>6, <4>2
    <3> QED BY <2>2, <3>1, <3>2
  <2> QED BY <2>4, <2>5, <2>6
<1>9. IsPass(ops, top, f)
  <2> DEFINE g == [n \in 0..N |->
                     IF n = 0 THEN top
                     ELSE IF ops[n].parent \in f[n - 1] THEN f[n - 1] \cup {ops[n].id}
                     ELSE f[n - 1]]
  <2>1. f = [n \in 0..N |-> f[n]]
    OBVIOUS
  <2> HIDE DEF f, top
  <2>2. ASSUME NEW n \in 0..N PROVE f[n] = g[n]
    <3>1. CASE n = 0
      BY <1>7, <3>1
    <3>2. CASE n # 0
      <4>1. n \in 1..N
        BY <1>1, <3>2
      <4>2. f[n] = IF ops[n].parent \in f[n - 1] THEN f[n - 1] \cup {ops[n].id} ELSE f[n - 1]
        BY <1>8, <4>1
      <4> QED BY <3>2, <4>2
    <3> QED BY <3>1, <3>2
  <2>3. f = g
    BY <2>1, <2>2
  <2> QED BY <2>3 DEF IsPass
<1>10. Passed(ops, top) = f
  <2> HIDE DEF f, top
  <2> QED BY <1>1, <1>9, PassedIs
<1>11. f[N] = {ops[i].id : i \in owned}
  <2>1. {j \in owned : j <= N} = owned
    BY <1>1, <1>2
  <2> QED BY <1>1, <1>2, <1>6, <2>1
<1>12. Retained(capture, component) = {ops[i].id : i \in owned}
  <2>1. Retained(capture, component) = IF top = {} THEN {} ELSE Passed(ops, top)[N]
    BY DEF Retained
  <2>2. CASE top # {}
    BY <1>10, <1>11, <2>1, <2>2
  <2>3. ASSUME top = {} PROVE owned = {}
    <3>1. first = {}
      BY <2>3
    <3> SUFFICES ASSUME owned # {} PROVE FALSE
      OBVIOUS
    <3>2. PICK d \in owned : \A e \in owned : d <= e
      BY <1>1, <1>2, LeastOf
    <3>3. ops[d].parent # scenario
      BY <1>5, <3>1
    <3>4. PICK j \in 1..(d - 1) : ops[j].id = ops[d].parent
      BY <1>2, <1>3, <3>3
    <3>5. j \in owned /\ j < d
      BY <1>1, <1>2, <1>4, <3>4
    <3> QED BY <1>1, <1>2, <3>2, <3>5
  <2> QED BY <2>1, <2>2, <2>3
<1>13. \A i \in DOMAIN ops : ops[i].id \in Retained(capture, component) <=> i \in owned
  BY <1>2, <1>3, <1>12
<1> QED
  BY <1>2, <1>13 DEF KeptAt, owned
-----------------------------------------------------------------------------
(* The recording.                                                          *)

SuppliedFirst(ops, supplied) ==
  \A i \in DOMAIN ops : i <= Len(supplied) => ops[i].id = supplied[i]

(* The inductive invariant.                                                *)
RecordedInv ==
  /\ ids \in Identities
  /\ WellRecorded(live.operations, ids.scenario)
  /\ SuppliedFirst(live.operations, ids.supplied)
  /\ IsSequence(captures)
  /\ \A k \in DOMAIN captures : WellRecorded(captures[k].operations, captures[k].scenario)

(* What is in Seq is a sequence.                                           *)
LEMMA SequenceOf ==
  ASSUME NEW S, NEW q \in Seq(S)
  PROVE  IsSequence(q)
<1>1. Len(q) \in Nat /\ q \in [1..Len(q) -> S]
  BY LenProperties
<1> QED
  BY <1>1 DEF IsSequence

(* A sequence with one element more.                                       *)
LEMMA AppendFacts ==
  ASSUME NEW s, IsSequence(s), NEW e
  PROVE  /\ IsSequence(Append(s, e))
         /\ DOMAIN s = 1..Len(s)
         /\ DOMAIN Append(s, e) = 1..(Len(s) + 1)
         /\ Append(s, e)[Len(s) + 1] = e
         /\ \A i \in 1..Len(s) : Append(s, e)[i] = s[i]
<1> DEFINE S == {s[i] : i \in 1..Len(s)} \cup {e}
<1>1. s \in Seq(S) /\ e \in S
  <2>1. s \in [1..Len(s) -> S]
    BY DEF IsSequence
  <2> QED BY <2>1 DEF IsSequence
<1> HIDE DEF S
<1>2. /\ Append(s, e) \in Seq(S) /\ Len(Append(s, e)) = Len(s) + 1 /\ Len(s) \in Nat
      /\ Append(s, e)[Len(s) + 1] = e
      /\ \A i \in 1..Len(s) : Append(s, e)[i] = s[i]
  BY <1>1
<1>3. s \in [1..Len(s) -> S]
  BY <1>1, LenProperties
<1>4. Append(s, e) \in [1..Len(Append(s, e)) -> S]
  BY <1>2, LenProperties
<1>5. IsSequence(Append(s, e))
  BY <1>2, SequenceOf
<1> QED
  BY <1>2, <1>3, <1>4, <1>5

(* Another function over the same positions is a sequence of that length.  *)
LEMMA SameLength ==
  ASSUME NEW s, IsSequence(s), NEW t, t = [i \in DOMAIN s |-> t[i]]
  PROVE  IsSequence(t) /\ DOMAIN t = DOMAIN s
<1> DEFINE S == {t[i] : i \in DOMAIN s}
<1>1. DOMAIN s = 1..Len(s) /\ Len(s) \in Nat
  BY DEF IsSequence
<1>2. t \in [1..Len(s) -> S]
  BY <1>1
<1>3. Len(t) = Len(s)
  <2> HIDE DEF S
  <2>1. t \in Seq(S)
    BY <1>1, <1>2
  <2> QED BY <1>1, <1>2, <2>1
<1> QED
  BY <1>1, <1>2, <1>3 DEF IsSequence

(* next_span finds an identifier, and it is a new one.                     *)
LEMMA FreshSpan ==
  ASSUME NEW ops, ids \in Identities, WellRecorded(ops, ids.scenario), SuppliedFirst(ops, ids.supplied)
  PROVE  /\ NextSpan(ops) \notin {ids.run, ids.scenario}
         /\ \A i \in DOMAIN ops : ops[i].id # NextSpan(ops)
         /\ Len(ops) + 1 <= Len(ids.supplied) => NextSpan(ops) = ids.supplied[Len(ops) + 1]
<1> DEFINE n == Len(ops) + 1
           recorded == {ops[i].id : i \in DOMAIN ops}
           reserved == {ids.run, ids.scenario} \cup recorded
           limit == n + Cardinality(reserved)
           first(id) == id \notin reserved /\ \A smaller \in n..(id - 1) : smaller \in reserved
<1>1. Len(ops) \in Nat /\ n \in Nat /\ DOMAIN ops = 1..Len(ops)
  BY DEF WellRecorded, IsSequence
<1>2. /\ ids.supplied \in Seq(Nat)
      /\ \A i \in DOMAIN ids.supplied :
           /\ ids.supplied[i] \notin {ids.run, ids.scenario}
           /\ \A j \in DOMAIN ids.supplied : ids.supplied[i] = ids.supplied[j] => i = j
  BY IdentitiesAssumption
<1>3. NextSpan(ops) = IF n <= Len(ids.supplied) THEN ids.supplied[n]
                      ELSE CHOOSE id \in n..limit : first(id)
  BY DEF NextSpan
<1>4. CASE n <= Len(ids.supplied)
  <2>1. n \in DOMAIN ids.supplied /\ NextSpan(ops) = ids.supplied[n]
    BY <1>1, <1>2, <1>3, <1>4
  <2>2. ASSUME NEW i \in DOMAIN ops PROVE ops[i].id # ids.supplied[n]
    <3>1. ops[i].id = ids.supplied[i] /\ i \in DOMAIN ids.supplied /\ i # n
      BY <1>1, <1>2, <1>4 DEF SuppliedFirst
    <3> QED BY <1>2, <2>1, <3>1
  <2> QED BY <1>2, <2>1, <2>2
<1>5. CASE ~(n <= Len(ids.supplied))
  <2>1. IsFiniteSet(reserved) /\ Cardinality(reserved) \in Nat
    <3>1. IsFiniteSet(DOMAIN ops)
      BY <1>1, FS_Interval
    <3>2. IsFiniteSet(recorded)
      <4> DEFINE f == [i \in DOMAIN ops |-> ops[i].id]
      <4>1. f \in Surjection(DOMAIN ops, recorded)
        BY DEF Surjection
      <4> QED BY <3>1, <4>1, FS_Surjection
    <3>3. IsFiniteSet({ids.run, ids.scenario})
      <4>1. IsFiniteSet({}) /\ IsFiniteSet({} \cup {ids.run})
        BY FS_EmptySet, FS_AddElement
      <4>2. IsFiniteSet(({} \cup {ids.run}) \cup {ids.scenario})
        BY <4>1, FS_AddElement
      <4>3. ({} \cup {ids.run}) \cup {ids.scenario} = {ids.run, ids.scenario}
        OBVIOUS
      <4> QED BY <4>2, <4>3
    <3>4. IsFiniteSet(reserved)
      BY <3>2, <3>3, FS_Union
    <3> QED BY <3>4, FS_CardinalityType
  <2> HIDE DEF reserved
  <2>2. n..limit \subseteq Nat /\ limit \in Nat
    BY <1>1, <2>1
  <2>3. ~(n..limit \subseteq reserved)
    <3>1. Cardinality(n..limit) = Cardinality(reserved) + 1
      BY <1>1, <2>1, <2>2, FS_Interval
    <3> SUFFICES ASSUME n..limit \subseteq reserved PROVE FALSE
      OBVIOUS
    <3>2. Cardinality(n..limit) <= Cardinality(reserved)
      BY <2>1, FS_Subset
    <3> QED BY <2>1, <3>1, <3>2
  <2> DEFINE free == (n..limit) \ reserved
  <2>4. free # {} /\ free \subseteq Nat
    BY <2>2, <2>3
  <2>5. PICK d \in free : \A e \in free : d <= e
    <3> HIDE DEF free
    <3> QED BY <2>4, LeastOf
  <2>6. d \in n..limit /\ first(d)
    <3>1. ASSUME NEW smaller \in n..(d - 1), smaller \notin reserved PROVE FALSE
      <4>1. smaller \in n..limit /\ smaller < d
        BY <1>1, <2>2, <2>5
      <4> QED BY <2>2, <2>5, <3>1, <4>1
    <3> QED BY <2>5, <3>1
  <2> HIDE DEF first
  <2>7. first(CHOOSE id \in n..limit : first(id))
    BY <2>6
  <2>8. NextSpan(ops) \notin reserved
    BY <1>3, <1>5, <2>7 DEF first
  <2> QED BY <1>5, <2>8 DEF reserved
<1> QED
  BY <1>4, <1>5

(* A session that began another operation is well recorded.                *)
LEMMA BegunWell ==
  ASSUME NEW ops, ids \in Identities, WellRecorded(ops, ids.scenario), SuppliedFirst(ops, ids.supplied),
         NEW new, {"id", "parent", "component"} \subseteq DOMAIN new,
         new.id = NextSpan(ops),
         new.parent = ids.scenario \/ \E j \in DOMAIN ops : ops[j].id = new.parent
  PROVE  WellRecorded(Append(ops, new), ids.scenario) /\ SuppliedFirst(Append(ops, new), ids.supplied)
<1> DEFINE more == Append(ops, new)
           N == Len(ops)
<1>1. IsSequence(ops) /\ N \in Nat
  BY DEF WellRecorded, IsSequence
<1>2. /\ IsSequence(more)
      /\ DOMAIN ops = 1..N
      /\ DOMAIN more = 1..(N + 1)
      /\ more[N + 1] = new
      /\ \A i \in 1..N : more[i] = ops[i]
  BY <1>1, AppendFacts
<1>3. /\ new.id # ids.scenario
      /\ \A i \in DOMAIN ops : ops[i].id # new.id
      /\ N + 1 <= Len(ids.supplied) => new.id = ids.supplied[N + 1]
  BY FreshSpan
<1> HIDE DEF more, N
<1>4. ASSUME NEW i \in 1..N
      PROVE  /\ {"id", "parent", "component"} \subseteq DOMAIN more[i]
             /\ more[i].id # ids.scenario
             /\ more[i].parent = ids.scenario \/ \E j \in 1..(i - 1) : more[j].id = more[i].parent
             /\ \A j \in DOMAIN more : more[i].id = more[j].id => i = j
             /\ i <= Len(ids.supplied) => more[i].id = ids.supplied[i]
  <2>1. i \in DOMAIN ops /\ more[i] = ops[i]
    BY <1>2
  <2>2. /\ {"id", "parent", "component"} \subseteq DOMAIN ops[i]
        /\ ops[i].id # ids.scenario
        /\ ops[i].parent = ids.scenario \/ \E j \in 1..(i - 1) : ops[j].id = ops[i].parent
        /\ \A j \in DOMAIN ops : ops[i].id = ops[j].id => i = j
    BY <2>1 DEF WellRecorded
  <2>3. i <= Len(ids.supplied) => ops[i].id = ids.supplied[i]
    BY <2>1 DEF SuppliedFirst
  <2>4. ops[i].parent = ids.scenario \/ \E j \in 1..(i - 1) : more[j].id = ops[i].parent
    BY <1>1, <1>2, <2>2
  <2>5. ASSUME NEW j \in DOMAIN more, ops[i].id = more[j].id PROVE i = j
    <3>1. CASE j = N + 1
      BY <1>2, <1>3, <2>1, <2>5, <3>1
    <3>2. CASE j \in 1..N
      BY <1>2, <2>2, <2>5, <3>2
    <3> QED BY <1>1, <1>2, <3>1, <3>2
  <2> QED BY <2>1, <2>2, <2>3, <2>4, <2>5
<1>5. /\ more[N + 1].id # ids.scenario
      /\ {"id", "parent", "component"} \subseteq DOMAIN more[N + 1]
      /\ more[N + 1].parent = ids.scenario
           \/ \E j \in 1..((N + 1) - 1) : more[j].id = more[N + 1].parent
      /\ \A j \in DOMAIN more : more[N + 1].id = more[j].id => N + 1 = j
      /\ N + 1 <= Len(ids.supplied) => more[N + 1].id = ids.supplied[N + 1]
  <2>1. new.parent = ids.scenario \/ \E j \in 1..((N + 1) - 1) : more[j].id = new.parent
    <3>1. (N + 1) - 1 = N
      BY <1>1
    <3> QED BY <1>2, <3>1
  <2>2. ASSUME NEW j \in DOMAIN more, new.id = more[j].id PROVE N + 1 = j
    <3>1. CASE j \in 1..N
      BY <1>2, <1>3, <2>2, <3>1
    <3> QED BY <1>1, <1>2, <3>1
  <2> QED BY <1>2, <1>3, <2>1, <2>2
<1>6. \A i \in DOMAIN more : i \in 1..N \/ i = N + 1
  BY <1>1, <1>2
<1> QED
  BY <1>2, <1>4, <1>5, <1>6 DEF WellRecorded, SuppliedFirst, more

(* What is recorded of an operation later leaves its place alone.          *)
LEMMA UpdatedWell ==
  ASSUME NEW ops, NEW scenario, NEW supplied,
         WellRecorded(ops, scenario), SuppliedFirst(ops, supplied),
         NEW new, new = [i \in DOMAIN ops |-> new[i]],
         \A i \in DOMAIN ops : /\ DOMAIN new[i] = DOMAIN ops[i]
                               /\ new[i].id = ops[i].id
                               /\ new[i].parent = ops[i].parent
  PROVE  WellRecorded(new, scenario) /\ SuppliedFirst(new, supplied)
<1>1. IsSequence(new) /\ DOMAIN new = DOMAIN ops
  BY SameLength DEF WellRecorded
<1>2. DOMAIN ops = 1..Len(ops) /\ Len(ops) \in Nat
  BY DEF WellRecorded, IsSequence
<1>3. ASSUME NEW i \in DOMAIN new
      PROVE  /\ {"id", "parent", "component"} \subseteq DOMAIN new[i]
             /\ new[i].id # scenario
             /\ new[i].parent = scenario \/ \E j \in 1..(i - 1) : new[j].id = new[i].parent
             /\ \A j \in DOMAIN new : new[i].id = new[j].id => i = j
  <2>1. /\ {"id", "parent", "component"} \subseteq DOMAIN ops[i]
        /\ ops[i].id # scenario
        /\ ops[i].parent = scenario \/ \E j \in 1..(i - 1) : ops[j].id = ops[i].parent
        /\ \A j \in DOMAIN ops : ops[i].id = ops[j].id => i = j
    BY <1>1 DEF WellRecorded
  <2>2. \A j \in 1..(i - 1) : j \in DOMAIN ops
    BY <1>1, <1>2
  <2>3. new[i].parent = scenario \/ \E j \in 1..(i - 1) : new[j].id = new[i].parent
    BY <1>1, <2>1, <2>2
  <2> QED BY <1>1, <2>1, <2>3
<1>4. SuppliedFirst(new, supplied)
  BY <1>1 DEF SuppliedFirst
<1> QED
  BY <1>1, <1>3, <1>4 DEF WellRecorded
-----------------------------------------------------------------------------
(* Each step of the recording.                                             *)

(* An operation begins with an identifier of its own, under a parent that  *)
(* has begun, and so leaves the running session well recorded.             *)
LEMMA BeginStep ==
  ASSUME RecordedInv, NEW what \in DOMAIN Outcomes,
         NEW parent \in {ids.scenario} \cup {o.id : o \in ToSet(live.operations)},
         Begin(what[1], what[2], parent)
  PROVE  RecordedInv'
<1> DEFINE ops == live.operations
           inputs == SetToSeq(DOMAIN Schemas[what[1]].operations[what[2]].inputs)
           new == [id |-> NextSpan(live.operations), parent |-> parent,
                   component |-> what[1], name |-> what[2],
                   start |-> live.clock, end |-> Unended, status |-> "unset",
                   inputs |-> [i \in DOMAIN inputs |->
                                <<inputs[i], <<"Integer", Len(live.operations)>>>>],
                   observations |-> <<>>,
                   completion |-> [kind |-> "unit", order |-> 0, name |-> "",
                                   value |-> NoValue]]
<1>1. /\ live' = [clock |-> live.clock + 1, order |-> live.order + 1,
                  operations |-> Append(ops, new)]
      /\ UNCHANGED <<ids, pending, captures>>
  BY DEF Begin
<1>2. /\ {"id", "parent", "component"} \subseteq DOMAIN new
      /\ new.id = NextSpan(ops)
      /\ new.parent = parent
  OBVIOUS
<1> HIDE DEF new
<1>3. live.operations' = Append(ops, new)
  BY <1>1
<1>4. parent = ids.scenario \/ \E j \in DOMAIN ops : ops[j].id = parent
  BY DEF ToSet
<1>5. WellRecorded(Append(ops, new), ids.scenario) /\ SuppliedFirst(Append(ops, new), ids.supplied)
  BY <1>2, <1>4, BegunWell DEF RecordedInv
<1> QED
  BY <1>1, <1>3, <1>5 DEF RecordedInv

(* An observation changes nothing an identifier or a parent depends on.    *)
LEMMA ObserveStep ==
  ASSUME RecordedInv, NEW i \in Open, NEW n, NEW v, Observe(i, n, v)
  PROVE  RecordedInv'
<1> DEFINE ops == live.operations
           seen == Append(ops[i].observations, [order |-> live.order, name |-> n, value |-> v])
           new == [ops EXCEPT ![i] = [ops[i] EXCEPT !.observations = seen]]
<1>1. live.operations' = new /\ UNCHANGED <<ids, captures>>
  BY DEF Observe
<1> HIDE DEF seen
<1>2. i \in DOMAIN ops
  BY DEF Open
<1>3. new = [j \in DOMAIN ops |-> new[j]]
  OBVIOUS
<1>4. ASSUME NEW j \in DOMAIN ops
      PROVE  /\ DOMAIN new[j] = DOMAIN ops[j]
             /\ new[j].id = ops[j].id /\ new[j].parent = ops[j].parent
  <2>1. {"id", "parent", "component"} \subseteq DOMAIN ops[j]
    BY DEF RecordedInv, WellRecorded
  <2>2. CASE j = i
    BY <1>2, <2>1, <2>2
  <2>3. CASE j # i
    BY <1>2, <2>3
  <2> QED BY <2>2, <2>3
<1> HIDE DEF new
<1>5. WellRecorded(new, ids.scenario) /\ SuppliedFirst(new, ids.supplied)
  BY <1>3, <1>4, UpdatedWell DEF RecordedInv
<1> QED
  BY <1>1, <1>5 DEF RecordedInv

(* So does the completion of an operation.                                 *)
LEMMA CompleteStep ==
  ASSUME RecordedInv, NEW i \in Open, NEW outcome, Complete(i, outcome)
  PROVE  RecordedInv'
<1> DEFINE ops == live.operations
           end == IF outcome.kind = "unit" THEN live.clock ELSE live.clock + 1
           status == StatusOf(outcome.kind)
           completion == [kind |-> outcome.kind, order |-> live.order,
                          name |-> outcome.name, value |-> outcome.value]
           new == [ops EXCEPT ![i] = [ops[i] EXCEPT !.end = end, !.status = status,
                                                    !.completion = completion]]
<1>1. /\ live.operations' = [ops EXCEPT ![i].end = end, ![i].status = status,
                                        ![i].completion = completion]
      /\ UNCHANGED <<ids, captures>>
  BY DEF Complete
<1> HIDE DEF end, status, completion
<1>2. i \in DOMAIN ops
  BY DEF Open
<1>3. live.operations' = new
  BY <1>1, <1>2
<1>4. new = [j \in DOMAIN ops |-> new[j]]
  OBVIOUS
<1>5. ASSUME NEW j \in DOMAIN ops
      PROVE  /\ DOMAIN new[j] = DOMAIN ops[j]
             /\ new[j].id = ops[j].id /\ new[j].parent = ops[j].parent
  <2>1. {"id", "parent", "component"} \subseteq DOMAIN ops[j]
    BY DEF RecordedInv, WellRecorded
  <2>2. CASE j = i
    BY <1>2, <2>1, <2>2
  <2>3. CASE j # i
    BY <1>2, <2>3
  <2> QED BY <2>2, <2>3
<1> HIDE DEF new
<1>6. WellRecorded(new, ids.scenario) /\ SuppliedFirst(new, ids.supplied)
  BY <1>4, <1>5, UpdatedWell DEF RecordedInv
<1> QED
  BY <1>1, <1>3, <1>6 DEF RecordedInv

(* The capture built at the end of a test is as well recorded as the       *)
(* session it is built from, and the next session starts empty.            *)
LEMMA EndTestStep ==
  ASSUME RecordedInv, EndTest
  PROVE  RecordedInv'
<1> DEFINE capture == Build(Head(pending), live)
<1>1. /\ captures' = IF live.operations = <<>> THEN captures ELSE Append(captures, capture)
      /\ live' = Started /\ ids' = ids
  BY DEF EndTest
<1>2. live.operations' = <<>>
  BY <1>1 DEF Started
<1>3. WellRecorded(<<>>, ids.scenario) /\ SuppliedFirst(<<>>, ids.supplied)
  BY DEF WellRecorded, IsSequence, SuppliedFirst
<1>4. capture.operations = live.operations /\ capture.scenario = ids.scenario
  BY DEF Build
<1>5. WellRecorded(capture.operations, capture.scenario)
  BY <1>4 DEF RecordedInv
<1> HIDE DEF capture
<1>6. CASE live.operations = <<>>
  BY <1>1, <1>2, <1>3, <1>6 DEF RecordedInv
<1>7. CASE live.operations # <<>>
  <2>1. captures' = Append(captures, capture)
    BY <1>1, <1>7
  <2>2. /\ IsSequence(Append(captures, capture))
        /\ Len(captures) \in Nat /\ DOMAIN captures = 1..Len(captures)
        /\ DOMAIN Append(captures, capture) = 1..(Len(captures) + 1)
        /\ Append(captures, capture)[Len(captures) + 1] = capture
        /\ \A k \in 1..Len(captures) : Append(captures, capture)[k] = captures[k]
    BY AppendFacts DEF RecordedInv, IsSequence
  <2>3. ASSUME NEW k \in 1..(Len(captures) + 1)
        PROVE  WellRecorded(Append(captures, capture)[k].operations,
                            Append(captures, capture)[k].scenario)
    <3>1. CASE k = Len(captures) + 1
      BY <1>5, <2>2, <3>1
    <3>2. CASE k \in 1..Len(captures)
      BY <2>2, <3>2 DEF RecordedInv
    <3> QED BY <2>2, <3>1, <3>2
  <2> QED BY <1>1, <1>2, <1>3, <2>1, <2>2, <2>3 DEF RecordedInv
<1> QED
  BY <1>6, <1>7

(* Every recording is well recorded.                                       *)
LEMMA RecordedInvariance == RecordingSpec => []RecordedInv
<1>1. RecordingInit => RecordedInv
  BY DEF RecordingInit, Started, RecordedInv, WellRecorded, IsSequence, SuppliedFirst
<1>2. RecordedInv /\ [RecordingNext]_recording => RecordedInv'
  <2> SUFFICES ASSUME RecordedInv, [RecordingNext]_recording PROVE RecordedInv'
    OBVIOUS
  <2>1. CASE \E what \in DOMAIN Outcomes :
               \E parent \in {ids.scenario} \cup {o.id : o \in ToSet(live.operations)} :
                 Begin(what[1], what[2], parent)
    BY <2>1, BeginStep
  <2>2. CASE \E i \in Open :
               LET o == live.operations[i] IN
               \/ \E n \in DOMAIN Schemas[o.component].operations[o.name].observations :
                    Observe(i, n, <<"Integer", 0>>)
               \/ \E outcome \in Outcomes[<<o.component, o.name>>] : Complete(i, outcome)
    BY <2>2, ObserveStep, CompleteStep
  <2>3. CASE EndTest
    BY <2>3, EndTestStep
  <2>4. CASE UNCHANGED recording
    BY <2>4 DEF recording, RecordedInv
  <2> QED BY <2>1, <2>2, <2>3, <2>4 DEF RecordingNext
<1> QED
  BY <1>1, <1>2, PTL DEF RecordingSpec

(* The bundle of a component is cut from the recording without a loss and  *)
(* without an intruder: for every number of tests, operations and          *)
(* components, and every way calls may nest and overlap, filter's one pass *)
(* keeps exactly what an outermost operation of the component called.      *)
THEOREM FilterComplete == RecordingSpec => []ShareComplete
<1>1. RecordedInv => ShareComplete
  <2> SUFFICES ASSUME RecordedInv, NEW c \in DOMAIN Schemas
               PROVE  Filter(captures, c) = Shares(captures, c)
    BY DEF ShareComplete
  <2>1. \A k \in DOMAIN captures : KeptAt(captures[k], c) = OwnedAt(captures[k], c)
    BY PassRetains DEF RecordedInv
  <2>2. [k \in DOMAIN captures |-> KeptAt(captures[k], c)]
          = [k \in DOMAIN captures |-> OwnedAt(captures[k], c)]
    BY <2>1
  <2> QED BY <2>2 DEF Filter, Shares
<1> QED
  BY <1>1, RecordedInvariance, PTL

(* What encode asks of the spans of a scenario before it numbers them      *)
(* anew: no identifier twice, and a parent that is the scenario or another *)
(* span of it, one that precedes its children.                             *)
ShareResolves ==
  \A c \in DOMAIN Schemas : \A k \in DOMAIN captures :
    LET ops == captures[k].operations
        kept == KeptAt(captures[k], c)
    IN \A i \in kept :
         /\ \A j \in kept : ops[i].id = ops[j].id => i = j
         /\ \/ ops[i].parent = captures[k].scenario
            \/ \E j \in kept : j < i /\ ops[j].id = ops[i].parent

(* encode never refuses a component's share for its identifiers: next_span *)
(* gives none twice, and filter keeps the parent of all it keeps.          *)
THEOREM ShareEncodes == RecordingSpec => []ShareResolves
<1>1. RecordedInv => ShareResolves
  <2> SUFFICES ASSUME RecordedInv, NEW c \in DOMAIN Schemas, NEW k \in DOMAIN captures,
                      NEW i \in KeptAt(captures[k], c)
               PROVE  /\ \A j \in KeptAt(captures[k], c) :
                           captures[k].operations[i].id = captures[k].operations[j].id => i = j
                      /\ \/ captures[k].operations[i].parent = captures[k].scenario
                         \/ \E j \in KeptAt(captures[k], c) :
                              /\ j < i
                              /\ captures[k].operations[j].id = captures[k].operations[i].parent
    BY DEF ShareResolves
  <2> DEFINE capture == captures[k]
             ops == capture.operations
             kept == KeptAt(capture, c)
  <2>1. WellRecorded(ops, capture.scenario)
    BY DEF RecordedInv
  <2>2. kept = OwnedAt(capture, c) /\ kept \subseteq DOMAIN ops
    BY <2>1, PassRetains DEF KeptAt
  <2>3. DOMAIN ops = 1..Len(ops) /\ Len(ops) \in Nat
    BY <2>1 DEF WellRecorded, IsSequence
  <2>4. \A j \in kept : ops[i].id = ops[j].id => i = j
    BY <2>1, <2>2 DEF WellRecorded
  <2>5. ASSUME ops[i].parent # capture.scenario
        PROVE  \E j \in kept : j < i /\ ops[j].id = ops[i].parent
    <3>1. i \in DOMAIN ops
      BY <2>2
    <3>2. PICK j \in 1..(i - 1) : ops[j].id = ops[i].parent
      BY <2>1, <2>5, <3>1 DEF WellRecorded
    <3>3. j \in DOMAIN ops /\ j < i
      BY <2>3, <3>1
    <3>4. i \in OwnedAt(capture, c) <=> j \in OwnedAt(capture, c)
      BY <2>1, <3>1, <3>2, <3>3, OwnedByParent
    <3> QED BY <2>2, <3>2, <3>3, <3>4
  <2> QED BY <2>4, <2>5
<1> QED
  BY <1>1, RecordedInvariance, PTL
=============================================================================
