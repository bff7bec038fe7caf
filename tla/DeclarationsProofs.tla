-------------------------- MODULE DeclarationsProofs --------------------------
(***************************************************************************)
(* Proofs about the two parts of Declarations that are state machines of   *)
(* their own: SetupStaging, for any programs, threads, values and bounds,  *)
(* and RegistryImports, for any documents, files and bounds.               *)
(***************************************************************************)
EXTENDS SetupStaging, RegistryImports, SequenceTheorems, TLAPS
-----------------------------------------------------------------------------
(* SetupStaging.  An operation adopts what is staged, whoever staged it.   *)
(* It gets the inputs of its own receiver because, as long as no failure   *)
(* was reported, whatever is staged for a setup is what every object of    *)
(* that setup was constructed with, on the thread, since a capture was     *)
(* last finished there.                                                    *)

(* The setups whose calls are staged.                                      *)
Recordable ==
  {i \in DOMAIN program.ops : program.ops[i].setup /\ ~program.ops[i].async}

TypeInv ==
  /\ DOMAIN staged = Threads
  /\ epoch \in [Threads -> Nat]
  /\ \A t \in Threads : DOMAIN staged[t] \subseteq Recordable
  /\ \A x \in objects : x.thread \in Threads /\ x.epoch \in 0..epoch[x.thread]

(* The objects whose inputs are staged still, on the thread.               *)
Fresh == {x \in objects : x.known = TRUE /\ x.epoch = epoch[x.thread]}

(* What is staged for the setup of an object is what constructed it.       *)
StagedInv ==
  marked # TRUE =>
    \A x \in Fresh : \A i \in Annotations(x.fn) : program.ops[i].params # <<>> =>
      i \in DOMAIN staged[x.thread] /\ staged[x.thread][i] = x.value

IInv == TypeInv /\ StagedInv /\ InputsOfReceiver
-----------------------------------------------------------------------------
(* Nothing changes that matters to what is staged.                         *)
LEMMA StagingKept ==
  ASSUME TypeInv, StagedInv, UNCHANGED <<program, staged, epoch, objects>>,
         marked = TRUE => marked' = TRUE
  PROVE  TypeInv' /\ StagedInv'
<1>1. TypeInv'
  BY DEF TypeInv, Recordable
<1>2. StagedInv'
  BY DEF StagedInv, Fresh, Annotations
<1> QED
  BY <1>1, <1>2

(* What was recorded stays as it was.                                      *)
LEMMA RecordKept ==
  ASSUME InputsOfReceiver, UNCHANGED <<program, calls>>, marked => marked'
  PROVE  InputsOfReceiver'
  BY DEF InputsOfReceiver

(* A setup stages the inputs of the object it constructs, and reports      *)
(* a failure instead of replacing those of another one.                    *)
LEMMA ConstructStep ==
  ASSUME IInv, NEW t \in Threads, NEW fn, NEW v, Construct(t, fn, v)
  PROVE  IInv'
<1> DEFINE new == [fn |-> fn, value |-> v, thread |-> t, epoch |-> epoch[t],
                   known |-> Requested(t)]
<1>1. /\ objects' = objects \cup {new}
      /\ UNCHANGED <<program, epoch, calls>>
      /\ DOMAIN staged = Threads /\ epoch[t] \in Nat
  BY DEF Construct, IInv, TypeInv
<1>2. Annotations(fn) \subseteq Recordable
  BY DEF Annotations, Recordable
<1>3. \A x \in objects' : x.thread \in Threads /\ x.epoch \in 0..epoch'[x.thread]
  <2>1. new.thread = t /\ new.epoch = epoch[t]
    OBVIOUS
  <2> QED
    BY <1>1, <2>1 DEF IInv, TypeInv
<1>4. CASE ~Requested(t)
  <2>1. UNCHANGED <<staged, marked, failed>>
    BY <1>4 DEF Construct
  <2>2. TypeInv'
    BY <1>1, <1>3, <2>1 DEF IInv, TypeInv, Recordable
  <2>3. new.known = FALSE
    BY <1>4 DEF Requested
  <2>4. Fresh' = Fresh
    BY <1>1, <2>3 DEF Fresh
  <2>5. StagedInv'
    BY <1>1, <2>1, <2>4 DEF IInv, StagedInv, Annotations
  <2> QED
    BY <1>1, <2>1, <2>2, <2>5, RecordKept DEF IInv
<1>5. CASE Requested(t) /\ Conflict(t, fn, v)
  <2>1. marked' = TRUE /\ UNCHANGED staged
    BY <1>5 DEF Construct, MarkError
  <2>2. TypeInv'
    BY <1>1, <1>3, <2>1 DEF IInv, TypeInv, Recordable
  <2> QED
    BY <2>1, <2>2 DEF IInv, StagedInv, InputsOfReceiver
<1>6. CASE Requested(t) /\ ~Conflict(t, fn, v)
  <2> DEFINE S == [i \in DOMAIN staged[t] \cup Annotations(fn) |->
                     IF i \in Annotations(fn) THEN v ELSE staged[t][i]]
  <2>1. staged' = [staged EXCEPT ![t] = S] /\ UNCHANGED <<marked, failed>>
    BY <1>6 DEF Construct
  <2>2. staged'[t] = S /\ \A u \in Threads \ {t} : staged'[u] = staged[u]
    BY <1>1, <2>1
  <2>3. DOMAIN S \subseteq Recordable
    BY <1>2 DEF IInv, TypeInv
  <2>4. TypeInv'
    BY <1>1, <1>3, <2>1, <2>2, <2>3 DEF IInv, TypeInv, Recordable
  <2>5. \A i \in Annotations(fn) : i \in DOMAIN S /\ S[i] = v
    OBVIOUS
  <2>6. \A i \in DOMAIN staged[t] : program.ops[i].params # <<>> =>
          i \in DOMAIN S /\ S[i] = staged[t][i]
    BY <1>6 DEF Conflict
  <2>7. \A f : Annotations(f)' = Annotations(f)
    BY <1>1 DEF Annotations
  <2>8. ASSUME marked' # TRUE, NEW x \in Fresh', NEW i \in Annotations(x.fn),
               program.ops[i].params # <<>>
        PROVE  i \in DOMAIN staged'[x.thread] /\ staged'[x.thread][i] = x.value
    <3>1. CASE x = new
      <4>1. x.fn = fn /\ x.thread = t /\ x.value = v
        BY <3>1
      <4> QED
        BY <2>2, <2>5, <2>8, <4>1
    <3>2. CASE x # new
      <4>1. x \in Fresh /\ x.thread \in Threads
        BY <1>1, <2>8, <3>2 DEF Fresh, IInv, TypeInv
      <4>2. i \in DOMAIN staged[x.thread] /\ staged[x.thread][i] = x.value
        BY <2>1, <2>8, <4>1 DEF IInv, StagedInv
      <4>3. CASE x.thread = t
        BY <2>2, <2>6, <2>8, <4>2, <4>3
      <4>4. CASE x.thread # t
        BY <2>2, <4>1, <4>2, <4>4
      <4> QED
        BY <4>3, <4>4
    <3> QED
      BY <3>1, <3>2
  <2>9. StagedInv'
    BY <1>1, <2>7, <2>8 DEF StagedInv
  <2> QED
    BY <1>1, <2>1, <2>4, <2>9, RecordKept DEF IInv
<1> QED
  BY <1>4, <1>5, <1>6

(* An operation adopts what is staged for its setups, which are the ones   *)
(* that constructed what it was given.                                     *)
LEMMA CallStep ==
  ASSUME IInv, NEW t \in Threads, NEW op \in DOMAIN program.ops,
         NEW given \in Given(op), Call(t, op, given)
  PROVE  IInv'
<1> DEFINE needed == ProducersOf(program, program.ops[op])
           new == [op |-> op, thread |-> t, epoch |-> epoch[t], given |-> given,
                   inputs |-> [i \in needed |-> staged[t][i]]]
<1>1. UNCHANGED <<program, staged, epoch, objects>>
  BY DEF Call
<1>2. \/ marked' = TRUE /\ UNCHANGED calls
      \/ UNCHANGED <<marked, calls>>
      \/ /\ UNCHANGED marked /\ calls' = calls \cup {new}
         /\ needed \subseteq DOMAIN staged[t]
  BY DEF Call, MarkError
<1>3. TypeInv' /\ StagedInv'
  BY <1>1, <1>2, StagingKept DEF IInv
<1>4. CASE (marked' = TRUE \/ UNCHANGED marked) /\ UNCHANGED calls
  BY <1>1, <1>3, <1>4, RecordKept DEF IInv
<1>5. CASE /\ UNCHANGED marked /\ calls' = calls \cup {new}
           /\ needed \subseteq DOMAIN staged[t]
  <2>1. DOMAIN given = needed /\ \A i \in needed : given[i] \in objects
    BY DEF Given
  <2>2. \A i \in needed : given[i].fn = program.ops[i].fn
    BY DEF Call
  <2>3. needed \subseteq Recordable
    BY <1>5 DEF IInv, TypeInv
  <2>4. ASSUME marked # TRUE, NEW i \in needed, given[i].known = TRUE,
               given[i].thread = t, given[i].epoch = epoch[t],
               program.ops[i].params # <<>>
        PROVE  staged[t][i] = given[i].value
    <3>1. i \in Annotations(given[i].fn)
      BY <2>2, <2>3 DEF Annotations, Recordable
    <3>2. given[i] \in Fresh
      BY <2>1, <2>4 DEF Fresh
    <3> QED
      BY <2>4, <3>1, <3>2 DEF IInv, StagedInv
  <2>5. ASSUME ~marked', NEW c \in calls', NEW i \in DOMAIN c.given,
               c.given[i].known, c.given[i].thread = c.thread,
               c.given[i].epoch = c.epoch, program.ops[i].params # <<>>
        PROVE  c.inputs[i] = c.given[i].value
    <3>1. CASE c = new
      <4>1. /\ c.given = given /\ c.thread = t /\ c.epoch = epoch[t] /\ i \in needed
            /\ c.inputs[i] = staged[t][i]
        BY <2>1, <3>1
      <4> QED
        BY <1>5, <2>4, <2>5, <4>1
    <3>2. CASE c \in calls
      BY <1>5, <2>5, <3>2 DEF IInv, InputsOfReceiver
    <3> QED
      BY <1>5, <3>1, <3>2
  <2>6. InputsOfReceiver'
    BY <1>1, <2>5 DEF InputsOfReceiver
  <2> QED
    BY <1>3, <2>6 DEF IInv
<1> QED
  BY <1>2, <1>4, <1>5

(* After a finish no object of the thread is fresh.                        *)
LEMMA FinishStep ==
  ASSUME IInv, NEW t \in Threads, Finish(t)
  PROVE  IInv'
<1>1. /\ UNCHANGED <<program, objects, marked, calls>>
      /\ staged' = [staged EXCEPT ![t] = Nothing]
      /\ epoch' = [epoch EXCEPT ![t] = @ + 1]
  BY DEF Finish
<1>2. /\ DOMAIN staged = Threads /\ DOMAIN epoch = Threads
      /\ \A u \in Threads : epoch[u] \in Nat
      /\ staged'[t] = Nothing /\ epoch'[t] = epoch[t] + 1
      /\ \A u \in Threads \ {t} : staged'[u] = staged[u] /\ epoch'[u] = epoch[u]
  BY <1>1 DEF IInv, TypeInv
<1>3. DOMAIN Nothing = {}
  BY DEF Nothing
<1>4. \A x \in objects : x.epoch \in Nat /\ x.epoch <= epoch[x.thread] /\ x.thread \in Threads
  BY <1>2 DEF IInv, TypeInv
<1>5. TypeInv'
  <2>1. epoch' \in [Threads -> Nat]
    BY <1>1, <1>2 DEF IInv, TypeInv
  <2>2. \A x \in objects : x.epoch \in 0..epoch'[x.thread]
    BY <1>2, <1>4
  <2>3. DOMAIN staged' = Threads /\ \A u \in Threads : DOMAIN staged'[u] \subseteq Recordable
    BY <1>1, <1>2, <1>3 DEF IInv, TypeInv
  <2> QED
    BY <1>1, <1>4, <2>1, <2>2, <2>3 DEF TypeInv, Recordable
<1>6. \A x \in Fresh' : x \in Fresh /\ x.thread # t /\ x.thread \in Threads
  <2> SUFFICES ASSUME NEW x \in Fresh' PROVE x \in Fresh /\ x.thread # t /\ x.thread \in Threads
    OBVIOUS
  <2>1. x \in objects /\ x.known = TRUE /\ x.epoch = epoch'[x.thread]
    BY <1>1 DEF Fresh
  <2>2. x.thread # t
    BY <1>2, <1>4, <2>1
  <2> QED
    BY <1>2, <1>4, <2>1, <2>2 DEF Fresh
<1>7. StagedInv'
  <2>1. \A f : Annotations(f)' = Annotations(f)
    BY <1>1 DEF Annotations
  <2> QED
    BY <1>1, <1>2, <1>6, <2>1 DEF IInv, StagedInv
<1> QED
  BY <1>1, <1>5, <1>7, RecordKept DEF IInv

(* The invariant holds always.                                             *)
LEMMA Invariance == SetupSpec => []IInv
<1>1. SetupInit => IInv
  <2> SUFFICES ASSUME SetupInit PROVE IInv
    OBVIOUS
  <2>1. /\ objects = {} /\ calls = {}
        /\ staged = [t \in Threads |-> Nothing] /\ epoch = [t \in Threads |-> 0]
    BY DEF SetupInit
  <2>2. \A t \in Threads : DOMAIN staged[t] = {}
    BY <2>1 DEF Nothing
  <2> QED
    BY <2>1, <2>2 DEF IInv, TypeInv, StagedInv, Fresh, InputsOfReceiver
<1>2. IInv /\ [SetupNext]_<<program, running>> => IInv'
  <2> SUFFICES ASSUME IInv, [SetupNext]_<<program, running>> PROVE IInv'
    OBVIOUS
  <2>1. ASSUME UNCHANGED <<program, staged, epoch, objects, marked, calls>> PROVE IInv'
    BY <2>1, StagingKept, RecordKept DEF IInv
  <2>2. CASE UNCHANGED <<program, running>>
    BY <2>1, <2>2 DEF running
  <2>3. ASSUME NEW t \in Threads, Start(t) PROVE IInv'
    BY <2>1, <2>3 DEF Start
  <2>4. ASSUME NEW t \in Threads, NEW u \in Threads, Inherit(t, u) PROVE IInv'
    BY <2>1, <2>4 DEF Inherit
  <2> QED
    BY <2>2, <2>3, <2>4, ConstructStep, CallStep, FinishStep DEF SetupNext
<1> QED
  BY <1>1, <1>2, PTL DEF SetupSpec
-----------------------------------------------------------------------------
(* In every program, with any setups stacked on any functions, however     *)
(* constructions, calls and finishes interleave on any threads: an         *)
(* operation of a capture without a reported failure is recorded with the  *)
(* inputs of the objects it was really called with (record_values,         *)
(* folded_inputs).                                                         *)
THEOREM OwnInputs == SetupSpec => []InputsOfReceiver
  BY Invariance, PTL DEF IInv
-----------------------------------------------------------------------------
(* RegistryImports.  load_fs reads files that others replace meanwhile, so *)
(* what it validates is settled import by import: as long as it has no     *)
(* issue, every import it has followed and the document uses was found     *)
(* among the selected, with the bytes it pins.  That says something of the *)
(* author because a document written by hand pins what he relied on, and   *)
(* keeps doing so: its file is written once, under an identity of its own. *)

IsSequence(s) == Len(s) \in Nat /\ s = [i \in 1..Len(s) |-> s[i]]

(* What the author of a document relied on is what its imports pin.        *)
Authored(doc, relied) ==
  /\ Len(doc.imports) \in Nat /\ DOMAIN doc.imports = 1..Len(doc.imports)
  /\ \A i \in DOMAIN doc.imports : DocumentUses(doc, doc.imports[i].registry)
  /\ DOMAIN relied = {doc.imports[i].registry : i \in DOMAIN doc.imports}
  /\ \A r \in DOMAIN relied :
       relied[r] = {Exported(doc.imports[i].digest).type :
                      i \in {k \in DOMAIN doc.imports : doc.imports[k].registry = r}}

(* A document read at a path was published there or written by hand.       *)
Genuine(path, doc, sawn) ==
  IF path \in DOMAIN RegistryOf
  THEN doc.id = RegistryOf[path] /\ doc.id \in DOMAIN sawn /\ Authored(doc, sawn[doc.id])
  ELSE doc \in Registries

FilesInv ==
  /\ \A p \in DOMAIN files : Genuine(p, files[p], saw)
  /\ \A r \in DOMAIN saw : \E p \in DOMAIN files \cap DOMAIN RegistryOf : r = RegistryOf[p]

ReadInv ==
  /\ IsSequence(pending)
  /\ cursor \in Nat /\ cursor <= Len(pending) + 1 /\ entry \in Nat
  /\ \A p \in DOMAIN loaded : Genuine(p, loaded[p], saw)
  /\ \A n \in DOMAIN pending : pending[n] \in DOMAIN loaded

(* One document of each identity, none of which imports one twice.         *)
UniqueIn(docs) ==
  /\ \A p, q \in DOMAIN docs : docs[p].id = docs[q].id => p = q
  /\ \A p \in DOMAIN docs : \A i, j \in DOMAIN docs[p].imports :
       docs[p].imports[i].registry = docs[p].imports[j].registry => i = j

(* An import that is used was found, with the bytes it pins.               *)
Settled(docs, paths, doc, i) ==
  DocumentUses(doc, doc.imports[i].registry) =>
    \E n \in DOMAIN paths : /\ docs[paths[n]].id = doc.imports[i].registry
                            /\ docs[paths[n]] = doc.imports[i].digest

(* The imports followed so far, of the documents written by hand.          *)
Followed(docs, paths, at, import) ==
  \A n \in DOMAIN paths : paths[n] \in DOMAIN RegistryOf =>
    \A i \in DOMAIN docs[paths[n]].imports :
      n < at \/ (n = at /\ i < import) => Settled(docs, paths, docs[paths[n]], i)

FollowedInv ==
  issues = {} => UniqueIn(loaded) /\ Followed(loaded, pending, cursor, entry)

(* A document validated under the name of one written by hand is that one. *)
LinkedInv ==
  linked.issues = {} =>
    \A p \in DOMAIN RegistryOf :
      RegistryOf[p] \in DOMAIN linked.documents => RegistryOf[p] \in DOMAIN saw

ReadingInv == FilesInv /\ ReadInv /\ FollowedInv /\ LinkedInv /\ ImportsExact
-----------------------------------------------------------------------------
(* What a file adds to the documents read.                                 *)
LEMMA InsertedUnique ==
  ASSUME NEW docs, NEW path, path \notin DOMAIN docs, NEW doc, UniqueIn(docs),
         InsertIssues(docs, doc) = {}
  PROVE  UniqueIn(With(docs, path, doc))
<1>1. /\ \A i, j \in DOMAIN doc.imports :
           doc.imports[i].registry = doc.imports[j].registry => i = j
      /\ \A p \in DOMAIN docs : docs[p].id # doc.id
  <2> DEFINE twice == \E i, j \in DOMAIN doc.imports :
                        i # j /\ doc.imports[i].registry = doc.imports[j].registry
             taken == \E p \in DOMAIN docs : docs[p].id = doc.id
  <2>1. Issue("imported twice", twice) = {} /\ Issue("candidates", taken) = {}
    BY DEF InsertIssues
  <2>2. ~twice /\ ~taken
    <3> HIDE DEF twice, taken
    <3> QED BY <2>1 DEF Issue
  <2> QED BY <2>2
<1> DEFINE more == With(docs, path, doc)
<1>2. /\ DOMAIN more = DOMAIN docs \cup {path} /\ more[path] = doc
      /\ \A p \in DOMAIN docs : more[p] = docs[p]
  BY DEF With
<1> HIDE DEF more
<1>3. UniqueIn(more)
  BY <1>1, <1>2 DEF UniqueIn
<1> QED BY <1>3 DEF more

(* What was found stays found while more documents are read and selected.  *)
LEMMA FollowedStays ==
  ASSUME NEW docs, NEW more, NEW paths, NEW longer, NEW at, NEW import,
         Followed(docs, paths, at, import),
         DOMAIN docs \subseteq DOMAIN more,
         \A p \in DOMAIN docs : more[p] = docs[p],
         \A n \in DOMAIN paths : paths[n] \in DOMAIN docs,
         DOMAIN paths \subseteq DOMAIN longer,
         \A n \in DOMAIN paths : longer[n] = paths[n]
  PROVE  \A n \in DOMAIN paths : longer[n] \in DOMAIN RegistryOf =>
           \A i \in DOMAIN more[longer[n]].imports :
             n < at \/ (n = at /\ i < import) => Settled(more, longer, more[longer[n]], i)
<1> SUFFICES ASSUME NEW n \in DOMAIN paths, longer[n] \in DOMAIN RegistryOf,
                    NEW i \in DOMAIN more[longer[n]].imports,
                    n < at \/ (n = at /\ i < import)
             PROVE  Settled(more, longer, more[longer[n]], i)
  OBVIOUS
<1>1. more[longer[n]] = docs[paths[n]] /\ paths[n] \in DOMAIN RegistryOf
  OBVIOUS
<1>2. Settled(docs, paths, docs[paths[n]], i)
  BY <1>1 DEF Followed
<1> QED BY <1>1, <1>2 DEF Settled

(* A file stays genuine when another registry is written.                  *)
LEMMA GenuineStays ==
  ASSUME NEW path, NEW doc, NEW sawn, NEW r, NEW relied, r \notin DOMAIN sawn,
         Genuine(path, doc, sawn)
  PROVE  Genuine(path, doc, With(sawn, r, relied))
<1>1. CASE path \in DOMAIN RegistryOf
  <2>1. doc.id = RegistryOf[path] /\ doc.id \in DOMAIN sawn /\ Authored(doc, sawn[doc.id])
    BY <1>1 DEF Genuine
  <2>2. doc.id \in DOMAIN With(sawn, r, relied) /\ With(sawn, r, relied)[doc.id] = sawn[doc.id]
    BY <2>1 DEF With
  <2> QED BY <1>1, <2>1, <2>2 DEF Genuine
<1>2. CASE path \notin DOMAIN RegistryOf
  BY <1>2 DEF Genuine
<1> QED BY <1>1, <1>2

(* A publication replaces nothing that was written by hand, and nothing    *)
(* that was read.                                                          *)
LEMMA PublishStep ==
  ASSUME ReadingInv, NEW path \in RegistryFiles, NEW doc, Publish(path, doc)
  PROVE  ReadingInv'
<1>1. /\ files' = With(files, path, doc) /\ doc \in Registries /\ saw' = saw
      /\ UNCHANGED loading
  BY DEF Publish
<1>2. path \notin DOMAIN RegistryOf
  BY RegistriesAssumption
<1>3. FilesInv'
  <2>1. \A p \in DOMAIN files' : Genuine(p, files'[p], saw')
    <3> SUFFICES ASSUME NEW p \in DOMAIN files' PROVE Genuine(p, files'[p], saw')
      OBVIOUS
    <3>1. CASE p = path
      BY <1>1, <1>2, <3>1 DEF With, Genuine
    <3>2. CASE p # path
      <4>1. p \in DOMAIN files /\ files'[p] = files[p]
        BY <1>1, <3>2 DEF With
      <4> QED BY <1>1, <4>1 DEF ReadingInv, FilesInv
    <3> QED BY <3>1, <3>2
  <2>2. DOMAIN files \subseteq DOMAIN files'
    BY <1>1 DEF With
  <2> QED BY <1>1, <2>1, <2>2 DEF ReadingInv, FilesInv
<1>4. ReadInv'
  BY <1>1 DEF ReadingInv, ReadInv, loading
<1>5. FollowedInv'
  BY <1>1 DEF ReadingInv, FollowedInv, loading
<1>6. LinkedInv' /\ ImportsExact'
  BY <1>1 DEF ReadingInv, LinkedInv, ImportsExact, loading
<1> QED BY <1>3, <1>4, <1>5, <1>6 DEF ReadingInv

(* What has the domain of a sequence has its length.                       *)
LEMMA LenDomain ==
  ASSUME NEW f, NEW n \in Nat, DOMAIN f = 1..n, f = [i \in 1..n |-> f[i]]
  PROVE  Len(f) = n
  OBVIOUS

(* The imports of a document that is written pin what its author saw.      *)
LEMMA WrittenAuthored ==
  ASSUME NEW id, NEW paths, NEW hint, NEW n \in Nat, DOMAIN paths = 1..n
  PROVE  /\ Importing(id, paths, hint).id = id
         /\ Authored(Importing(id, paths, hint), Relied(paths))
<1> DEFINE doc == Importing(id, paths, hint)
           Target(i) == files[paths[i]]
           relied == Relied(paths)
<1>1. doc.id = id
  BY DEF Importing
<1>2. /\ DOMAIN doc.imports = DOMAIN paths
      /\ \A i \in DOMAIN paths : /\ doc.imports[i].registry = Target(i).id
                                 /\ doc.imports[i].digest = Target(i)
  BY DEF Importing, Digest
<1>3. Len(doc.imports) = n
  BY <1>2, DOMAIN doc.imports = 1..n, LenDomain
<1>4. \A i \in DOMAIN paths : DocumentUses(doc, Target(i).id)
  <2> SUFFICES ASSUME NEW i \in DOMAIN paths PROVE DocumentUses(doc, Target(i).id)
    OBVIOUS
  <2> DEFINE c == doc.components[1]
  <2>1. /\ 1 \in DOMAIN doc.components
        /\ DOMAIN c.dependencies = DOMAIN paths /\ c.dependencies[i].registry = Target(i).id
    BY DEF Importing
  <2>2. c \in ToSet(doc.components) /\ c.dependencies[i] \in ToSet(c.dependencies)
    BY <2>1 DEF ToSet
  <2> QED BY <2>1, <2>2 DEF DocumentUses
<1> HIDE DEF doc
<1>5. DOMAIN relied = {doc.imports[i].registry : i \in DOMAIN doc.imports}
  BY <1>2 DEF Relied
<1>6. ASSUME NEW r \in DOMAIN relied
      PROVE  relied[r] = {Exported(doc.imports[i].digest).type :
                            i \in {k \in DOMAIN doc.imports : doc.imports[k].registry = r}}
  <2>1. relied[r] = {Exported(Target(i)).type : i \in {k \in DOMAIN paths : Target(k).id = r}}
    BY DEF Relied
  <2> QED BY <1>2, <2>1
<1> HIDE DEF relied
<1>7. Authored(doc, relied)
  BY <1>2, <1>3, <1>4, <1>5, <1>6 DEF Authored
<1> QED BY <1>1, <1>7 DEF doc, relied

(* A registry is written by hand once, before anything of it is read.      *)
LEMMA AuthorStep ==
  ASSUME ReadingInv, NEW path \in DOMAIN RegistryOf, NEW n \in Nat, NEW hint,
         NEW paths, DOMAIN paths = 1..n, Author(path, paths, hint)
  PROVE  ReadingInv'
<1> DEFINE id == RegistryOf[path]
           doc == Importing(id, paths, hint)
           relied == Relied(paths)
<1>1. /\ path \notin DOMAIN files
      /\ files' = With(files, path, doc) /\ saw' = With(saw, id, relied)
      /\ UNCHANGED loading
  BY DEF Author
<1>2. id \notin DOMAIN saw
  BY <1>1, RegistriesAssumption DEF ReadingInv, FilesInv
<1>3. doc.id = id /\ Authored(doc, relied)
  BY WrittenAuthored
<1> HIDE DEF doc, relied
<1>4. \A p, d : Genuine(p, d, saw) => Genuine(p, d, saw')
  <2>1. \A p, d : Genuine(p, d, saw) => Genuine(p, d, With(saw, id, relied))
    BY <1>2, GenuineStays
  <2> QED BY <1>1, <2>1
<1>5. /\ DOMAIN saw' = DOMAIN saw \cup {id} /\ saw'[id] = relied
      /\ \A r \in DOMAIN saw : saw'[r] = saw[r]
      /\ DOMAIN files' = DOMAIN files \cup {path} /\ files'[path] = doc
      /\ \A p \in DOMAIN files : files'[p] = files[p]
  BY <1>1, <1>2 DEF With
<1>6. FilesInv'
  <2>1. Genuine(path, doc, saw')
    BY <1>3, <1>5 DEF Genuine
  <2>2. \A p \in DOMAIN files' : Genuine(p, files'[p], saw')
    BY <1>4, <1>5, <2>1 DEF ReadingInv, FilesInv
  <2>3. \A r \in DOMAIN saw' : \E p \in DOMAIN files' \cap DOMAIN RegistryOf : r = RegistryOf[p]
    BY <1>5 DEF ReadingInv, FilesInv
  <2> QED BY <2>2, <2>3 DEF FilesInv
<1>7. ReadInv'
  BY <1>1, <1>4 DEF ReadingInv, ReadInv, loading
<1>8. FollowedInv'
  BY <1>1 DEF ReadingInv, FollowedInv, loading
<1>9. LinkedInv'
  BY <1>1, <1>5 DEF ReadingInv, LinkedInv, loading
<1>10. ImportsExact'
  <2> SUFFICES ASSUME linked.issues = {}, NEW r \in DOMAIN saw' \cap DOMAIN linked.documents,
                      NEW target \in DOMAIN saw'[r]
               PROVE  /\ target \in DOMAIN linked.documents
                      /\ saw'[r][target] = {Exported(linked.documents[target]).type}
    BY <1>1 DEF ImportsExact, loading
  <2>1. r # id
    BY <1>2 DEF ReadingInv, LinkedInv
  <2>2. r \in DOMAIN saw /\ saw'[r] = saw[r]
    BY <1>5, <2>1
  <2> QED BY <2>2 DEF ReadingInv, ImportsExact
<1> QED BY <1>6, <1>7, <1>8, <1>9, <1>10 DEF ReadingInv

(* Reading the root begins a validation.                                   *)
LEMMA StartLoadStep ==
  ASSUME ReadingInv, NEW explicit, StartLoad(explicit)
  PROVE  ReadingInv'
<1>1. /\ UNCHANGED shared /\ linked' = Unvalidated /\ cursor' = 1 /\ entry' = 1
  BY DEF StartLoad
<1>2. FilesInv'
  BY <1>1 DEF ReadingInv, FilesInv, shared
<1>3. LinkedInv' /\ ImportsExact'
  BY <1>1 DEF LinkedInv, ImportsExact, Unvalidated
<1>4. CASE Root \in DOMAIN files
  <2>1. /\ pending' = <<Root>> /\ loaded' = With(Nowhere, Root, files[Root])
        /\ issues' = {} => InsertIssues(Nowhere, files[Root]) = {}
    BY <1>4 DEF StartLoad
  <2>2. DOMAIN loaded' = {Root} /\ loaded'[Root] = files[Root]
    BY <2>1 DEF With, Nowhere
  <2>3. ReadInv'
    <3>1. IsSequence(<<Root>>) /\ Len(<<Root>>) = 1 /\ DOMAIN <<Root>> = {1} /\ <<Root>>[1] = Root
      BY DEF IsSequence
    <3>2. Genuine(Root, files[Root], saw')
      BY <1>1, <1>4 DEF ReadingInv, FilesInv, shared
    <3> QED BY <1>1, <2>1, <2>2, <3>1, <3>2 DEF ReadInv
  <2>4. FollowedInv'
    <3> SUFFICES ASSUME issues' = {} PROVE UniqueIn(loaded') /\ Followed(loaded', pending', 1, 1)
      BY <1>1 DEF FollowedInv
    <3>1. UniqueIn(Nowhere)
      BY DEF UniqueIn, Nowhere
    <3>2. Root \notin DOMAIN Nowhere
      BY DEF Nowhere
    <3>3. UniqueIn(loaded')
      BY <2>1, <3>1, <3>2, InsertedUnique
    <3>4. Followed(loaded', pending', 1, 1)
      <4>1. DOMAIN pending' = {1} /\ pending'[1] = Root
        BY <2>1
      <4>2. Genuine(Root, files[Root], saw)
        BY <1>4 DEF ReadingInv, FilesInv
      <4>3. files[Root].imports = loaded'[Root].imports /\
            \A i \in DOMAIN files[Root].imports : i \in Nat /\ ~(i < 1)
        BY <2>2, <4>2, RegistriesAssumption DEF Genuine, Authored
      <4> QED BY <4>1, <4>3 DEF Followed
    <3> QED BY <3>3, <3>4
  <2> QED BY <1>2, <1>3, <2>3, <2>4 DEF ReadingInv
<1>5. CASE Root \notin DOMAIN files
  <2>1. pending' = <<>> /\ loaded' = Nowhere /\ issues' # {}
    BY <1>5 DEF StartLoad
  <2>2. ReadInv'
    BY <1>1, <2>1 DEF ReadInv, IsSequence, Nowhere
  <2>3. FollowedInv'
    BY <2>1 DEF FollowedInv
  <2> QED BY <1>2, <1>3, <2>2, <2>3 DEF ReadingInv
<1> QED BY <1>4, <1>5

(* Reading one more file.                                                  *)
LEMMA ReadOne ==
  ASSUME ReadingInv, NEW path \in DOMAIN files, path \notin DOMAIN loaded
  PROVE  LET more == With(loaded, path, files[path]) IN
         /\ DOMAIN more = DOMAIN loaded \cup {path}
         /\ \A p \in DOMAIN loaded : more[p] = loaded[p]
         /\ \A p \in DOMAIN more : Genuine(p, more[p], saw)
         /\ issues = {} /\ InsertIssues(loaded, files[path]) = {} => UniqueIn(more)
<1> DEFINE more == With(loaded, path, files[path])
<1>1. /\ DOMAIN more = DOMAIN loaded \cup {path} /\ more[path] = files[path]
      /\ \A p \in DOMAIN loaded : more[p] = loaded[p]
  BY DEF With
<1>2. issues = {} /\ InsertIssues(loaded, files[path]) = {} => UniqueIn(more)
  BY InsertedUnique DEF ReadingInv, FollowedInv
<1> HIDE DEF more
<1>3. \A p \in DOMAIN more : Genuine(p, more[p], saw)
  BY <1>1 DEF ReadingInv, ReadInv, FilesInv
<1> QED BY <1>1, <1>2, <1>3 DEF more

(* A file given with the root is read.                                     *)
LEMMA OpenInputStep ==
  ASSUME ReadingInv, OpenInput
  PROVE  ReadingInv'
<1> DEFINE path == Head(inputs)
<1>1. UNCHANGED <<files, saw, published, stage, pending, cursor, entry, linked>>
  BY DEF OpenInput, shared
<1>2. FilesInv' /\ LinkedInv' /\ ImportsExact'
  BY <1>1 DEF ReadingInv, FilesInv, LinkedInv, ImportsExact
<1>3. CASE UNCHANGED loaded /\ issues \subseteq issues'
  <2>1. ReadInv' /\ FollowedInv'
    BY <1>1, <1>3 DEF ReadingInv, ReadInv, FollowedInv
  <2> QED BY <1>2, <2>1 DEF ReadingInv
<1>4. CASE /\ path \in DOMAIN files /\ path \notin DOMAIN loaded
           /\ issues' = issues \cup InsertIssues(loaded, files[path])
           /\ loaded' = With(loaded, path, files[path])
  <2> HIDE DEF path
  <2>1. /\ DOMAIN loaded' = DOMAIN loaded \cup {path}
        /\ \A p \in DOMAIN loaded : loaded'[p] = loaded[p]
        /\ \A p \in DOMAIN loaded' : Genuine(p, loaded'[p], saw)
        /\ issues' = {} => UniqueIn(loaded')
    BY <1>4, ReadOne
  <2>2. ReadInv'
    BY <1>1, <2>1 DEF ReadingInv, ReadInv
  <2>3. ASSUME issues' = {} PROVE Followed(loaded', pending', cursor', entry')
    <3>1. issues = {}
      BY <1>4, <2>3
    <3>2. /\ Followed(loaded, pending, cursor, entry)
          /\ \A n \in DOMAIN pending : pending[n] \in DOMAIN loaded
      BY <3>1 DEF ReadingInv, FollowedInv, ReadInv
    <3>3. \A n \in DOMAIN pending : pending[n] \in DOMAIN RegistryOf =>
            \A i \in DOMAIN loaded'[pending[n]].imports :
              n < cursor \/ (n = cursor /\ i < entry)
                => Settled(loaded', pending, loaded'[pending[n]], i)
      BY <2>1, <3>2, FollowedStays
    <3> QED BY <1>1, <3>3 DEF Followed
  <2> QED BY <1>2, <2>1, <2>2, <2>3 DEF ReadingInv, FollowedInv
<1> QED BY <1>3, <1>4 DEF OpenInput

(* The next document is visited when the imports of the last are followed. *)
LEMMA NextDocumentStep ==
  ASSUME ReadingInv, NextDocument
  PROVE  ReadingInv'
<1>1. /\ UNCHANGED <<files, saw, published, loaded, pending, issues, linked>>
      /\ cursor' = cursor + 1 /\ entry' = 1 /\ cursor <= Len(pending)
      /\ entry > Len(loaded[pending[cursor]].imports)
  BY DEF NextDocument, Visiting, Visited, shared
<1>2. FilesInv' /\ LinkedInv' /\ ImportsExact'
  BY <1>1 DEF ReadingInv, FilesInv, LinkedInv, ImportsExact
<1>3. ReadInv'
  BY <1>1 DEF ReadingInv, ReadInv, IsSequence
<1>4. FollowedInv'
  <2> SUFFICES ASSUME issues = {} PROVE Followed(loaded, pending, cursor + 1, 1)
    BY <1>1 DEF ReadingInv, FollowedInv
  <2> SUFFICES ASSUME NEW n \in DOMAIN pending, pending[n] \in DOMAIN RegistryOf,
                      NEW i \in DOMAIN loaded[pending[n]].imports,
                      n < cursor + 1 \/ (n = cursor + 1 /\ i < 1)
               PROVE  Settled(loaded, pending, loaded[pending[n]], i)
    BY DEF Followed
  <2> DEFINE doc == loaded[pending[n]]
  <2>1. Genuine(pending[n], doc, saw)
    BY DEF ReadingInv, ReadInv
  <2>2. Len(doc.imports) \in Nat /\ DOMAIN doc.imports = 1..Len(doc.imports)
    BY <2>1 DEF Genuine, Authored
  <2>3. cursor \in Nat /\ entry \in Nat /\ n \in Nat
    BY DEF ReadingInv, ReadInv, IsSequence
  <2>4. n < cursor \/ (n = cursor /\ i < entry)
    <3> HIDE DEF doc
    <3>1. i \in Nat /\ ~(i < 1)
      BY <2>2 DEF doc
    <3>2. CASE n < cursor
      BY <3>2
    <3>3. CASE n = cursor
      <4>1. entry > Len(doc.imports) /\ i \in 1..Len(doc.imports)
        BY <1>1, <2>2, <3>3 DEF doc
      <4> QED BY <2>2, <2>3, <3>1, <3>3, <4>1
    <3> QED BY <2>3, <3>1, <3>2, <3>3
  <2> QED BY <2>4 DEF ReadingInv, FollowedInv, Followed
<1> QED BY <1>2, <1>3, <1>4 DEF ReadingInv

(* A member of Seq(S) is a sequence.                                       *)
LEMMA SequenceOf ==
  ASSUME NEW S, NEW q \in Seq(S)
  PROVE  IsSequence(q)
<1>1. Len(q) \in Nat /\ q \in [1..Len(q) -> S]
  BY LenProperties
<1> QED
  BY <1>1 DEF IsSequence

(* A path is selected.                                                     *)
LEMMA Selected ==
  ASSUME NEW s, IsSequence(s), NEW e
  PROVE  /\ IsSequence(Append(s, e)) /\ Len(Append(s, e)) = Len(s) + 1
         /\ DOMAIN s = 1..Len(s) /\ DOMAIN Append(s, e) = 1..(Len(s) + 1)
         /\ Append(s, e)[Len(s) + 1] = e
         /\ \A i \in 1..Len(s) : Append(s, e)[i] = s[i]
<1> DEFINE S == {s[i] : i \in 1..Len(s)} \cup {e}
<1>1. s \in Seq(S) /\ e \in S
  <2>1. s \in [1..Len(s) -> S]
    BY DEF IsSequence
  <2> QED BY <2>1 DEF IsSequence
<1> HIDE DEF S
<1>2. /\ Append(s, e) \in Seq(S) /\ Len(Append(s, e)) = Len(s) + 1 /\ Len(s) \in Nat
      /\ Append(s, e)[Len(s) + 1] = e
      /\ \A i \in 1..Len(s) : Append(s, e)[i] = s[i]
  BY <1>1
<1>3. Append(s, e) \in [1..Len(Append(s, e)) -> S]
  BY <1>2, LenProperties
<1>4. DOMAIN s = 1..Len(s)
  BY DEF IsSequence
<1>5. IsSequence(Append(s, e))
  BY <1>2, SequenceOf
<1> QED
  BY <1>2, <1>3, <1>4, <1>5

(* An import is followed: a document that is used is found, and has the    *)
(* bytes that are pinned, or an issue is reported.                         *)
LEMMA FollowImportStep ==
  ASSUME ReadingInv, FollowImport
  PROVE  ReadingInv'
<1> DEFINE doc == loaded[pending[cursor]]
           import == doc.imports[entry]
           hinted == import.uri \in DOMAIN files \ DOMAIN loaded
           known == IF hinted THEN With(loaded, import.uri, files[import.uri]) ELSE loaded
           candidates == {p \in DOMAIN known : known[p].id = import.registry}
           ambiguous == \E p, q \in candidates : p # q
           found == CHOOSE p \in candidates : TRUE
           pinned == candidates # {} /\ Pinned(import, known[found])
<1>1. /\ UNCHANGED <<files, saw, published, cursor, linked>>
      /\ entry' = entry + 1 /\ cursor <= Len(pending) /\ loaded' = known
      /\ entry <= Len(doc.imports)
  BY DEF FollowImport, Visiting, Visited, shared
<1>2. issues' = issues
        \cup (IF hinted THEN InsertIssues(loaded, files[import.uri]) ELSE {})
        \cup Issue("unresolved", candidates = {} /\ DocumentUses(doc, import.registry))
        \cup Issue("ambiguous", ambiguous)
        \cup Issue("mismatch", candidates # {} /\ ~ambiguous /\ ~pinned)
  BY DEF FollowImport, Visited
<1>3. pending' = IF pinned /\ ~ambiguous /\ found \notin ToSet(pending)
                 THEN Append(pending, found) ELSE pending
  BY DEF FollowImport, Visited
<1>4. FilesInv' /\ LinkedInv' /\ ImportsExact'
  BY <1>1 DEF ReadingInv, FilesInv, LinkedInv, ImportsExact
<1>5. /\ DOMAIN loaded \subseteq DOMAIN known
      /\ \A p \in DOMAIN loaded : known[p] = loaded[p]
      /\ \A p \in DOMAIN known : Genuine(p, known[p], saw)
      /\ issues' = {} => UniqueIn(known)
  <2>1. CASE hinted
    <3> DEFINE uri == import.uri
    <3> HIDE DEF doc, import
    <3>1. issues' = {} => issues = {} /\ InsertIssues(loaded, files[uri]) = {}
      BY <1>2, <2>1
    <3>2. known = With(loaded, uri, files[uri]) /\ uri \in DOMAIN files /\ uri \notin DOMAIN loaded
      BY <2>1
    <3> HIDE DEF known, uri
    <3> QED BY <3>1, <3>2, ReadOne
  <2>2. CASE ~hinted
    <3>1. known = loaded /\ (issues' = {} => issues = {})
      BY <1>2, <2>2
    <3> QED BY <3>1 DEF ReadingInv, ReadInv, FollowedInv
  <2> QED BY <2>1, <2>2
<1> HIDE DEF known
<1>6. candidates # {} => found \in DOMAIN known /\ known[found].id = import.registry
  OBVIOUS
<1>7. /\ IsSequence(pending) /\ IsSequence(pending') /\ Len(pending') >= Len(pending)
      /\ DOMAIN pending = 1..Len(pending) /\ DOMAIN pending' = 1..Len(pending')
      /\ \A n \in DOMAIN pending : pending'[n] = pending[n] /\ pending[n] \in DOMAIN loaded
      /\ \A n \in DOMAIN pending' : n \in DOMAIN pending \/ (pinned /\ pending'[n] = found)
      /\ pinned /\ ~ambiguous => found \in ToSet(pending')
  <2> HIDE DEF pinned, found, ambiguous
  <2>1. IsSequence(pending) /\ \A n \in DOMAIN pending : pending[n] \in DOMAIN loaded
    BY DEF ReadingInv, ReadInv
  <2>2. DOMAIN pending = 1..Len(pending) /\ Len(pending) \in Nat
    BY <2>1 DEF IsSequence
  <2>3. CASE pinned /\ ~ambiguous /\ found \notin ToSet(pending)
    <3>1. pending' = Append(pending, found)
      BY <1>3, <2>3
    <3>2. /\ IsSequence(pending') /\ Len(pending') = Len(pending) + 1
          /\ DOMAIN pending' = 1..(Len(pending) + 1)
          /\ pending'[Len(pending) + 1] = found
          /\ \A i \in 1..Len(pending) : pending'[i] = pending[i]
      BY <2>1, <3>1, Selected
    <3>3. found \in ToSet(pending')
      BY <2>2, <3>2 DEF ToSet
    <3> QED BY <2>1, <2>2, <2>3, <3>2, <3>3
  <2>4. CASE ~(pinned /\ ~ambiguous /\ found \notin ToSet(pending))
    <3>1. pending' = pending
      BY <1>3, <2>4
    <3> QED BY <2>1, <2>2, <2>4, <3>1
  <2> QED BY <2>3, <2>4
<1>8. ReadInv'
  <2>1. \A n \in DOMAIN pending' : pending'[n] \in DOMAIN known
    BY <1>5, <1>6, <1>7
  <2>2. cursor \in Nat /\ entry \in Nat /\ Len(pending) \in Nat /\ Len(pending') \in Nat
    BY <1>7 DEF ReadingInv, ReadInv, IsSequence
  <2> QED BY <1>1, <1>5, <1>7, <2>1, <2>2 DEF ReadInv
<1>9. FollowedInv'
  <2> SUFFICES ASSUME issues' = {} PROVE Followed(loaded', pending', cursor, entry + 1)
    BY <1>1, <1>5 DEF FollowedInv
  <2>1. /\ issues = {} /\ ~ambiguous
        /\ candidates = {} => ~DocumentUses(doc, import.registry)
        /\ candidates # {} => pinned
    <3> HIDE DEF ambiguous, pinned, candidates, doc, import
    <3> QED BY <1>2 DEF Issue
  <2>2. \A n \in DOMAIN pending : pending'[n] \in DOMAIN RegistryOf =>
          \A i \in DOMAIN known[pending'[n]].imports :
            n < cursor \/ (n = cursor /\ i < entry)
              => Settled(known, pending', known[pending'[n]], i)
    <3>1. Followed(loaded, pending, cursor, entry)
      BY <2>1 DEF ReadingInv, FollowedInv
    <3>2. DOMAIN pending \subseteq DOMAIN pending'
      BY <1>7 DEF IsSequence
    <3>3. DOMAIN loaded \subseteq DOMAIN known /\ \A p \in DOMAIN loaded : known[p] = loaded[p]
      BY <1>5
    <3>4. \A n \in DOMAIN pending : pending[n] \in DOMAIN loaded
      BY <1>7
    <3>5. \A n \in DOMAIN pending : pending'[n] = pending[n]
      BY <1>7
    <3> QED BY <3>1, <3>2, <3>3, <3>4, <3>5, FollowedStays
  <2>3. Settled(known, pending', doc, entry)
    <3> SUFFICES ASSUME DocumentUses(doc, import.registry)
                 PROVE  \E n \in DOMAIN pending' : /\ known[pending'[n]].id = import.registry
                                                   /\ known[pending'[n]] = import.digest
      BY DEF Settled
    <3>1. candidates # {} /\ Pinned(import, known[found]) /\ found \in ToSet(pending')
      BY <1>7, <2>1
    <3>2. known[found] = import.digest /\ known[found].id = import.registry
      BY <1>6, <3>1 DEF Pinned, Digest
    <3> HIDE DEF found, import
    <3>3. PICK n \in DOMAIN pending' : pending'[n] = found
      BY <3>1 DEF ToSet
    <3> QED BY <3>2, <3>3
  <2> SUFFICES ASSUME NEW n \in DOMAIN pending', pending'[n] \in DOMAIN RegistryOf,
                      NEW i \in DOMAIN known[pending'[n]].imports,
                      n < cursor \/ (n = cursor /\ i < entry + 1)
               PROVE  Settled(known, pending', known[pending'[n]], i)
    BY <1>1 DEF Followed
  <2>4. /\ cursor \in Nat /\ entry \in Nat /\ n \in Nat /\ n \in DOMAIN pending
        /\ cursor \in DOMAIN pending
    <3>1. cursor \in Nat /\ entry \in Nat /\ Len(pending) \in Nat /\ Len(pending') \in Nat
      BY <1>7 DEF ReadingInv, ReadInv, IsSequence
    <3>2. n \in Nat /\ n >= 1 /\ n <= cursor
      BY <1>7, <3>1
    <3> QED BY <1>1, <1>7, <3>1, <3>2
  <2>5. CASE n < cursor \/ (n = cursor /\ i < entry)
    <3> HIDE DEF doc, import, candidates, ambiguous, found, pinned
    <3> QED BY <2>2, <2>4, <2>5
  <2>6. CASE n = cursor /\ ~(i < entry)
    <3>1. pending'[n] = pending[n] /\ known[pending'[n]] = doc
      BY <1>5, <1>7, <2>4, <2>6
    <3>2. Genuine(pending[n], doc, saw)
      BY <1>5, <1>7, <2>4, <3>1
    <3>3. i \in Nat
      BY <3>1, <3>2 DEF Genuine, Authored
    <3>4. i = entry
      BY <2>4, <2>6, <3>3
    <3> QED BY <2>3, <3>1, <3>4
  <2> QED BY <2>5, <2>6
<1> QED BY <1>4, <1>8, <1>9 DEF ReadingInv

(* What was validated together is what the imports pin.                    *)
LEMMA EndLoadStep ==
  ASSUME ReadingInv, EndLoad
  PROVE  ReadingInv'
<1> DEFINE selected == ToSet(pending)
           documents == [r \in {loaded[p].id : p \in selected} |->
                           loaded[CHOOSE p \in selected : loaded[p].id = r]]
<1>1. /\ UNCHANGED <<files, saw, published, entry>>
      /\ loaded' = Nowhere /\ pending' = <<>> /\ cursor' = 1 /\ cursor > Len(pending)
      /\ linked' = [issues |-> issues \cup Issue("set", ~SetOk(documents)), documents |-> documents]
  BY DEF EndLoad, shared
<1>2. linked'.documents = documents /\ (linked'.issues = {} => issues = {})
  BY <1>1
<1>3. FilesInv'
  BY <1>1 DEF ReadingInv, FilesInv
<1>4. ReadInv'
  BY <1>1 DEF ReadingInv, ReadInv, Nowhere, IsSequence
<1>5. FollowedInv'
  BY <1>1 DEF FollowedInv, UniqueIn, Followed, Nowhere
<1>6. \A n \in DOMAIN pending : pending[n] \in DOMAIN loaded /\ pending[n] \in selected
  BY DEF ReadingInv, ReadInv, ToSet
<1>7. \A p \in selected : p \in DOMAIN loaded /\ Genuine(p, loaded[p], saw)
                            /\ \E n \in DOMAIN pending : p = pending[n]
  BY DEF ReadingInv, ReadInv, ToSet
<1>8. ASSUME issues = {}, NEW p \in selected
      PROVE  loaded[p].id \in DOMAIN documents /\ documents[loaded[p].id] = loaded[p]
  <2> DEFINE q == CHOOSE q \in selected : loaded[q].id = loaded[p].id
  <2>1. q \in selected /\ loaded[q].id = loaded[p].id
    OBVIOUS
  <2>2. q = p
    <3> HIDE DEF q, selected
    <3> QED BY <1>7, <1>8, <2>1 DEF ReadingInv, FollowedInv, UniqueIn
  <2>3. documents[loaded[p].id] = loaded[q]
    OBVIOUS
  <2> QED BY <2>2, <2>3
<1>9. \A r \in DOMAIN documents : \E p \in selected : r = loaded[p].id
  OBVIOUS
<1> HIDE DEF documents, selected
<1>10. \A p \in selected : \A q \in DOMAIN RegistryOf : loaded[p].id = RegistryOf[q] =>
         p = q /\ loaded[p].id \in DOMAIN saw /\ Authored(loaded[p], saw[loaded[p].id])
  <2> SUFFICES ASSUME NEW p \in selected, NEW q \in DOMAIN RegistryOf, loaded[p].id = RegistryOf[q]
               PROVE  /\ p = q /\ loaded[p].id \in DOMAIN saw
                      /\ Authored(loaded[p], saw[loaded[p].id])
    OBVIOUS
  <2>1. p \in DOMAIN RegistryOf
    BY <1>7, RegistriesAssumption DEF Genuine
  <2>2. loaded[p].id = RegistryOf[p] /\ loaded[p].id \in DOMAIN saw
          /\ Authored(loaded[p], saw[loaded[p].id])
    BY <1>7, <2>1 DEF Genuine
  <2> QED BY <2>1, <2>2, RegistriesAssumption
<1>11. LinkedInv'
  BY <1>1, <1>2, <1>9, <1>10 DEF LinkedInv
<1>12. ImportsExact'
  <2> SUFFICES ASSUME issues = {}, NEW r \in DOMAIN saw \cap DOMAIN documents,
                      NEW target \in DOMAIN saw[r]
               PROVE  /\ target \in DOMAIN documents
                      /\ saw[r][target] = {Exported(documents[target]).type}
    BY <1>1, <1>2 DEF ImportsExact
  <2>1. PICK p \in selected : r = loaded[p].id
    BY <1>9
  <2>2. PICK q \in DOMAIN RegistryOf : r = RegistryOf[q]
    BY DEF ReadingInv, FilesInv
  <2> DEFINE doc == loaded[p]
  <2>3. p \in DOMAIN RegistryOf /\ Authored(doc, saw[r])
    BY <1>10, <2>1, <2>2
  <2>4. PICK n \in DOMAIN pending : p = pending[n]
    BY <1>7
  <2>5. PICK i \in DOMAIN doc.imports : doc.imports[i].registry = target
    BY <2>3 DEF Authored
  <2>6. n < cursor
    <3>1. DOMAIN pending = 1..Len(pending) /\ Len(pending) \in Nat /\ cursor \in Nat
      BY DEF ReadingInv, ReadInv, IsSequence
    <3> QED BY <1>1, <3>1
  <2>7. Settled(loaded, pending, doc, i)
    BY <2>3, <2>4, <2>6 DEF ReadingInv, FollowedInv, Followed
  <2>8. DocumentUses(doc, doc.imports[i].registry)
    BY <2>3 DEF Authored
  <2>9. PICK m \in DOMAIN pending : /\ loaded[pending[m]].id = target
                                    /\ loaded[pending[m]] = doc.imports[i].digest
    BY <2>5, <2>7, <2>8 DEF Settled
  <2>10. target \in DOMAIN documents /\ documents[target] = doc.imports[i].digest
    BY <1>6, <1>8, <2>9
  <2>11. \A k \in DOMAIN doc.imports : doc.imports[k].registry = target <=> k = i
    <3>1. UniqueIn(loaded) /\ p \in DOMAIN loaded
      BY <1>7 DEF ReadingInv, FollowedInv
    <3> QED BY <2>5, <3>1 DEF UniqueIn
  <2>12. saw[r][target] = {Exported(doc.imports[k].digest).type :
                             k \in {k \in DOMAIN doc.imports : doc.imports[k].registry = target}}
    BY <2>3 DEF Authored
  <2> HIDE DEF doc
  <2>13. {k \in DOMAIN doc.imports : doc.imports[k].registry = target} = {i}
    BY <2>11
  <2>14. saw[r][target] = {Exported(doc.imports[i].digest).type}
    BY <2>12, <2>13
  <2> QED BY <2>10, <2>14
<1> QED BY <1>3, <1>4, <1>5, <1>11, <1>12 DEF ReadingInv

(* What is read is genuine, and followed as far as the cursor says.        *)
LEMMA ReadingInvariance == ImportsSpec => []ReadingInv
<1>1. ImportsInit => ReadingInv
  BY DEF ImportsInit, ReadingInv, FilesInv, ReadInv, FollowedInv, LinkedInv, ImportsExact,
         Unvalidated, Nowhere, UniqueIn, Followed, IsSequence
<1>2. ReadingInv /\ [\E doc \in Registries : ImportsNext(doc)]_<<shared, loading>> => ReadingInv'
  <2> SUFFICES ASSUME ReadingInv, [\E doc \in Registries : ImportsNext(doc)]_<<shared, loading>>
               PROVE  ReadingInv'
    OBVIOUS
  <2>1. ASSUME NEW doc \in Registries, NEW path \in RegistryFiles, Publish(path, doc)
        PROVE  ReadingInv'
    BY <2>1, PublishStep
  <2>2. ASSUME NEW path \in DOMAIN RegistryOf,
               NEW paths \in SeqOf(DOMAIN files \ {Root}, MaxExplicit),
               NEW hint \in BOOLEAN, Author(path, paths, hint)
        PROVE  ReadingInv'
    <3>1. PICK n \in 0..MaxExplicit : paths \in [1..n -> DOMAIN files \ {Root}]
      BY DEF SeqOf
    <3>2. n \in Nat /\ DOMAIN paths = 1..n
      BY <3>1, RegistriesAssumption
    <3> QED BY <2>2, <3>2, AuthorStep
  <2>3. ASSUME NEW explicit, StartLoad(explicit) PROVE ReadingInv'
    BY <2>3, StartLoadStep
  <2>4. CASE OpenInput
    BY <2>4, OpenInputStep
  <2>5. CASE FollowImport
    BY <2>5, FollowImportStep
  <2>6. CASE NextDocument
    BY <2>6, NextDocumentStep
  <2>7. CASE EndLoad
    BY <2>7, EndLoadStep
  <2>8. CASE UNCHANGED <<shared, loading>>
    BY <2>8 DEF ReadingInv, FilesInv, ReadInv, FollowedInv, LinkedInv, ImportsExact, shared, loading
  <2>9. ASSUME NEW doc \in Registries, ImportsNext(doc) PROVE ReadingInv'
    BY <2>1, <2>2, <2>3, <2>4, <2>5, <2>6, <2>7, <2>9 DEF ImportsNext
  <2> QED BY <2>8, <2>9
<1> QED BY <1>1, <1>2, PTL DEF ImportsSpec

(* A registry that validates is read with exactly the declarations its     *)
(* author relied on (load_fs), whatever documents are published, wherever, *)
(* also while it is read, and however many registries there are.           *)
THEOREM ReadAsWritten == ImportsSpec => []ImportsExact
  BY ReadingInvariance, PTL DEF ReadingInv
=============================================================================
