--------------------------- MODULE RegistryImports ---------------------------
(***************************************************************************)
(* Registries that import others (specgate-ctsc validation/registry.rs).   *)
(* A registry is published to a file, and published again when its sources *)
(* change; the author of another one imports it by identity, version and   *)
(* digest, and writes its types into declarations.  Validating a registry  *)
(* reads the files it is given and those its imports hint at, one after    *)
(* the other: any of them may be replaced in between.                      *)
(*                                                                         *)
(* A document is [id, version, imports, components].  A digest stands for  *)
(* the bytes it is of, so the digest of a file is the document in it.  An  *)
(* import's uri hint is a path or "".                                      *)
(***************************************************************************)
EXTENDS Integers, FiniteSets, Sequences, SequencesExt

CONSTANTS
  Registries,       \* the documents that are published
  RegistryFiles,    \* where
  RegistryOf,       \* the registries written by hand: path -> identity
  Root,             \* the one that is validated
  MaxPublished,     \* bound on publications
  MaxExplicit,      \* how many registries one imports, or a validation is given
  DocumentOk(_),    \* the declarations of a document are well formed
  TypesUse(_, _),   \* its types refer to a registry
  SetOk(_)          \* documents that make sense together

ASSUME RegistriesAssumption ==
  /\ \A d \in Registries : \A p \in DOMAIN RegistryOf : d.id # RegistryOf[p]
  /\ \A p, q \in DOMAIN RegistryOf : RegistryOf[p] = RegistryOf[q] => p = q
  /\ RegistryFiles \cap DOMAIN RegistryOf = {}
  /\ Root \in DOMAIN RegistryOf
  /\ MaxExplicit \in Nat

VARIABLES
  files,          \* registry documents by path
  saw,            \* what the author of an importing registry relied on
  published
shared == <<files, saw, published>>

VARIABLES
  stage,          \* "idle" or "load", while load_fs runs
  inputs,         \* the paths given that it has not opened
  loaded,         \* the documents it has read, by path
  pending,        \* the paths selected, in order
  cursor, entry,  \* the one that is visited, and the import of it
  issues,         \* what it has reported
  linked          \* the documents last validated together
loading == <<stage, inputs, loaded, pending, cursor, entry, issues, linked>>

Nowhere == [path \in {} |-> 0]
Repeated(s) == \E i, j \in DOMAIN s : i # j /\ s[i] = s[j]
With(f, x, value) == [y \in DOMAIN f \cup {x} |-> IF y = x THEN value ELSE f[y]]

Unvalidated == [issues |-> {"unvalidated"}, documents |-> Nowhere]

ImportsInit ==
  /\ files = Nowhere /\ saw = Nowhere /\ published = 0
  /\ stage = "idle" /\ inputs = <<>> /\ loaded = Nowhere /\ pending = <<>>
  /\ cursor = 1 /\ entry = 1 /\ issues = {}
  /\ linked = Unvalidated
-----------------------------------------------------------------------------
Publish(path, doc) ==
  /\ doc \in Registries
  /\ published < MaxPublished /\ published' = published + 1
  /\ files' = With(files, path, doc)
  /\ UNCHANGED <<saw, loading>>

(* A type another registry declares, and the component it is of.           *)
Exported(doc) ==
  LET c == CHOOSE c \in ToSet(doc.components) : c.types # <<>>
  IN [component |-> c.id, type |-> c.types[1]]

Digest(doc) == doc

(* The document an author writes on the types of the given ones.           *)
Importing(id, paths, hint) ==
  LET Target(i) == files[paths[i]]
      Import(i) == [registry |-> Target(i).id, version |-> Target(i).version,
                    digest |-> Digest(Target(i)), uri |-> IF hint THEN paths[i] ELSE ""]
      Needs(i) == [component |-> Exported(Target(i)).component, registry |-> Target(i).id]
      Field(i) == [name |-> Target(i).id,
                   type |-> <<"named", Exported(Target(i)).type.name,
                              Exported(Target(i)).component, Target(i).id>>]
  IN [id |-> id, version |-> "1", imports |-> [i \in DOMAIN paths |-> Import(i)],
      components |-> <<[id |-> id, dependencies |-> [i \in DOMAIN paths |-> Needs(i)],
                        operations |-> <<>>,
                        types |-> <<[name |-> "Wrap",
                           shape |-> <<"record", [i \in DOMAIN paths |-> Field(i)]>>]>>]>>]

(* What it is written on, by registry.                                     *)
Relied(paths) ==
  [r \in {files[paths[i]].id : i \in DOMAIN paths} |->
     {Exported(files[paths[i]]).type : i \in {k \in DOMAIN paths : files[paths[k]].id = r}}]

(* A registry of its own is written, by hand, on the types that the        *)
(* registries at the given paths declare now.                              *)
Author(path, paths, hint) ==
  /\ path \notin DOMAIN files /\ paths # <<>> /\ ~Repeated(paths)
  /\ files' = With(files, path, Importing(RegistryOf[path], paths, hint))
  /\ saw' = With(saw, RegistryOf[path], Relied(paths))
  /\ UNCHANGED <<published, loading>>
-----------------------------------------------------------------------------
(* load_fs.                                                                *)

Issue(kind, holds) == IF holds THEN {kind} ELSE {}

(* load_file and insert_candidate: two files of one registry are an issue. *)
InsertIssues(known, doc) ==
  Issue("shape", ~DocumentOk(doc))
    \cup Issue("imported twice", \E i, j \in DOMAIN doc.imports :
                 i # j /\ doc.imports[i].registry = doc.imports[j].registry)
    \cup Issue("candidates", \E p \in DOMAIN known : known[p].id = doc.id)

(* The root is the first file read; without it nothing is selected.        *)
StartLoad(explicit) ==
  LET readable == Root \in DOMAIN files IN
  /\ stage = "idle" /\ stage' = "load" /\ inputs' = explicit
  /\ loaded' = IF readable THEN With(Nowhere, Root, files[Root]) ELSE Nowhere
  /\ pending' = IF readable THEN <<Root>> ELSE <<>>
  /\ cursor' = 1 /\ entry' = 1
  /\ issues' = (IF readable THEN InsertIssues(Nowhere, files[Root]) ELSE {"unreadable"})
                 \cup Issue("given twice", Repeated(<<Root>> \o explicit))
  /\ linked' = Unvalidated
  /\ UNCHANGED shared

OpenInput ==
  LET path == Head(inputs) IN
  /\ stage = "load" /\ inputs # <<>> /\ inputs' = Tail(inputs)
  /\ IF path \in DOMAIN loaded THEN UNCHANGED <<loaded, issues>>
     ELSE IF path \notin DOMAIN files
     THEN issues' = issues \cup {"unreadable"} /\ UNCHANGED loaded
     ELSE /\ issues' = issues \cup InsertIssues(loaded, files[path])
          /\ loaded' = With(loaded, path, files[path])
  /\ UNCHANGED <<stage, pending, cursor, entry, linked, shared>>

DocumentUses(doc, registry) ==
  \/ \E c \in ToSet(doc.components) : \E d \in ToSet(c.dependencies) : d.registry = registry
  \/ TypesUse(doc, registry)

(* Mutant: a version is enough.                                            *)
PinnedByVersion(import, doc) == doc.version = import.version

Pinned(import, doc) == doc.version = import.version /\ Digest(doc) = import.digest

Visited == loaded[pending[cursor]]
Visiting == stage = "load" /\ inputs = <<>> /\ cursor <= Len(pending)

(* One import of the document that is visited.                             *)
FollowImport ==
  LET import == Visited.imports[entry]
      hinted == import.uri \in DOMAIN files \ DOMAIN loaded
      known == IF hinted THEN With(loaded, import.uri, files[import.uri]) ELSE loaded
      candidates == {p \in DOMAIN known : known[p].id = import.registry}
      ambiguous == \E p, q \in candidates : p # q
      found == CHOOSE p \in candidates : TRUE
      pinned == candidates # {} /\ Pinned(import, known[found])
  IN
  /\ Visiting /\ entry <= Len(Visited.imports)
  /\ loaded' = known
  /\ issues' = issues
       \cup (IF hinted THEN InsertIssues(loaded, files[import.uri]) ELSE {})
       \cup Issue("unresolved", candidates = {} /\ DocumentUses(Visited, import.registry))
       \cup Issue("ambiguous", ambiguous)
       \cup Issue("mismatch", candidates # {} /\ ~ambiguous /\ ~pinned)
  /\ pending' = IF pinned /\ ~ambiguous /\ found \notin ToSet(pending)
                THEN Append(pending, found) ELSE pending
  /\ entry' = entry + 1
  /\ UNCHANGED <<stage, inputs, cursor, linked, shared>>

NextDocument ==
  /\ Visiting /\ entry > Len(Visited.imports)
  /\ cursor' = cursor + 1 /\ entry' = 1
  /\ UNCHANGED <<stage, inputs, loaded, pending, issues, linked, shared>>

(* The selected documents by identity, checked as a whole.                 *)
EndLoad ==
  LET documents == [r \in {loaded[p].id : p \in ToSet(pending)} |->
                      loaded[CHOOSE p \in ToSet(pending) : loaded[p].id = r]]
  IN
  /\ stage = "load" /\ inputs = <<>> /\ cursor > Len(pending)
  /\ linked' = [issues |-> issues \cup Issue("set", ~SetOk(documents)), documents |-> documents]
  /\ stage' = "idle" /\ loaded' = Nowhere /\ pending' = <<>>
  /\ cursor' = 1 /\ issues' = {}
  /\ UNCHANGED <<inputs, entry, shared>>
-----------------------------------------------------------------------------
Paths == RegistryFiles \cup DOMAIN RegistryOf

(* A step that shares the given document, or uses what is shared.          *)
ImportsNext(doc) ==
  \/ \E path \in RegistryFiles : Publish(path, doc)
  \/ \E path \in DOMAIN RegistryOf, paths \in SeqOf(DOMAIN files \ {Root}, MaxExplicit), hint \in BOOLEAN :
       Author(path, paths, hint)
  \/ \E explicit \in SeqOf(Paths, MaxExplicit) : StartLoad(explicit)
  \/ OpenInput \/ FollowImport \/ NextDocument \/ EndLoad

ImportsSpec ==
  ImportsInit /\ [][\E doc \in Registries : ImportsNext(doc)]_<<shared, loading>>
-----------------------------------------------------------------------------
(* A registry that validates is read with the declarations its author saw, *)
(* and so is every registry it imports, whatever was published since or    *)
(* while it was read, and whichever files the validation was given.        *)
ImportsExact ==
  linked.issues = {} =>
    \A r \in DOMAIN saw \cap DOMAIN linked.documents : \A target \in DOMAIN saw[r] :
      /\ target \in DOMAIN linked.documents
      /\ saw[r][target] = {Exported(linked.documents[target]).type}
=============================================================================
