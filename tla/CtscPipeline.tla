---------------------------- MODULE CtscPipeline ----------------------------
(***************************************************************************)
(* The life of a recording: the tests of a package are captured (module    *)
(* Recording), one component's share is encoded and published (specgate-cli*)
(* capture/encoding.rs), the bundle is validated, decoded for replay, its  *)
(* calls are made again on a candidate (specgate-cli replay/runner.rs),    *)
(* the candidate's trace is encoded (replay/output.rs) and compared.       *)
(***************************************************************************)
EXTENDS CtscReplay, Recording

VARIABLES
  phase,        \* "record", "refused", "published", "decoded",
                \* "undecodable", "replayed" or "compared"
  selected,     \* the component the bundle is of
  bundle,       \* what was published, or NoBundle
  decoded,      \* the scenarios replay decoded
  changed,      \* does the candidate behave differently in one operation?
  candidate,    \* the candidate's captures
  report        \* what comparing reported

vars == <<recording, phase, selected, bundle, decoded, changed, candidate, report>>

NoOne == "none"

(* A step of the test run.                                                 *)
Record ==
  /\ phase = "record" /\ RecordingNext
  /\ UNCHANGED <<phase, selected, bundle, decoded, changed, candidate, report>>

Publish(component) ==
  LET b == EncodeBundle(captures, component, "target", Schemas) IN
  /\ phase = "record" /\ pending = <<>>
  /\ selected' = component
  /\ bundle' = b
  /\ phase' = IF b = NoBundle THEN "refused" ELSE "published"
  /\ UNCHANGED <<recording, decoded, changed, candidate, report>>
-----------------------------------------------------------------------------
(* The replay.                                                             *)

Decode ==
  /\ phase = "published"
  /\ decoded' = DecodeBundle(bundle)
  /\ phase' = IF decoded' = <<>> THEN "undecodable" ELSE "decoded"
  /\ UNCHANGED <<recording, selected, bundle, changed, candidate, report>>

(* An operation and what was recorded under it, by position.               *)
Under(ops, i) ==
  LET in[j \in 1..Len(ops)] ==
        \/ j = i
        \/ j > i /\ LET p == Position(ops, ops[j].parent) IN p # 0 /\ in[p]
  IN SelectSeq([j \in DOMAIN ops |-> j], LAMBDA j : in[j])

(* A candidate that does what the reference did: every decoded call is     *)
(* made once the one before, and all it started, has ended, and brings     *)
(* back what the reference recorded under it.                              *)
Rerun(k) ==
  LET ops == Filter(captures, selected)[k].operations
      scenarioAt == NextId(Filter(captures, selected), Reference, k)  \* its place in the trace
      calls == [n \in DOMAIN decoded[k].positions |-> decoded[k].positions[n] - scenarioAt]
      Block(n) == Under(ops, calls[n])
      Ends(n) == {ops[j].end : j \in ToSet(Block(n))}
      Clock(n) == 2 + Total([m \in 1..(n - 1) |-> Max(Ends(m)) - ops[calls[m]].start + 1])
      Base(n) == 2 + Total([m \in 1..(n - 1) |-> Len(Block(m))])
      Made(n) ==
        [i \in DOMAIN Block(n) |->
          LET o == ops[Block(n)[i]]
              p == SelectInSeq(Block(n), LAMBDA j : ops[j].id = o.parent)
              shift == Clock(n) - ops[calls[n]].start
          IN [o EXCEPT !.id = Base(n) + i, !.parent = IF p = 0 THEN 2 ELSE Base(n) + p,
                       !.start = @ + shift, !.end = @ + shift]]
  IN [name |-> decoded[k].name, run |-> 1, scenario |-> 2, status |-> "ok", start |-> 1,
      end |-> Clock(Len(calls) + 1),
      operations |-> FlattenSeq([n \in DOMAIN calls |-> Made(n)])]

WithStatus(capture) ==
  [capture EXCEPT !.status = IF \E o \in ToSet(capture.operations) : o.status = "error"
                             THEN "error" ELSE "ok"]

(* The candidate is run ...                                                *)
Replay ==
  /\ phase = "decoded"
  /\ candidate' = [k \in DOMAIN decoded |-> WithStatus(Rerun(k))]
  /\ phase' = "replayed"
  /\ UNCHANGED <<recording, selected, bundle, decoded, changed, report>>

(* ... and may have ended one operation differently.                       *)
Deviate(k, i, outcome) ==
  LET old == candidate[k].operations[i].completion
      new == [kind |-> outcome.kind, order |-> old.order,
              name |-> outcome.name, value |-> outcome.value]
  IN
  /\ phase = "replayed" /\ ~changed /\ new # old
  /\ candidate' = [candidate EXCEPT ![k] = WithStatus([@ EXCEPT
                     !.operations[i].completion = new,
                     !.operations[i].status = StatusOf(outcome.kind)])]
  /\ changed' = TRUE
  /\ UNCHANGED <<recording, phase, selected, bundle, decoded, report>>

(* output::write, then `specgate compare': a candidate trace that does not *)
(* link to the reference's registry is not written.                        *)
CompareReplay ==
  LET registry == bundle[2]
      raw == EncodeTrace(candidate, MetadataOf("candidate", "rust", registry), Candidate)
  IN
  /\ phase = "replayed"
  /\ report' = IF raw = <<>> THEN Error("encoding")
               ELSE IF ~Linked(raw, registry) THEN Error("unlinked")
               ELSE CompareLoaded(ParseDocument(bundle[3]), ParseDocument(raw), registry)
  /\ phase' = "compared"
  /\ UNCHANGED <<recording, selected, bundle, decoded, changed, candidate>>
-----------------------------------------------------------------------------
Init ==
  /\ RecordingInit
  /\ phase = "record"
  /\ selected = NoOne
  /\ bundle = NoBundle
  /\ decoded = <<>>
  /\ changed = FALSE
  /\ candidate = <<>>
  /\ report = {}

Next ==
  \/ Record
  \/ \E c \in DOMAIN Schemas : Publish(c)
  \/ Decode
  \/ Replay
  \/ \E k \in DOMAIN candidate : \E i \in DOMAIN candidate[k].operations :
       LET o == candidate[k].operations[i] IN
       \E outcome \in Outcomes[<<o.component, o.name>>] : Deviate(k, i, outcome)
  \/ CompareReplay

Spec == Init /\ [][Next]_vars
-----------------------------------------------------------------------------
(* Properties.                                                             *)

(* What the capture command writes, `specgate validate' accepts: the encoder *)
(* keeps every rule of the trace, linking and bundle validators, for every   *)
(* recording the runtime can make.                                           *)
PublishedIsValid == phase = "published" => BundleOk(bundle)

(* A recording of the selected component is never refused: span identifiers  *)
(* are unique, parents resolve and what declared operations do links to      *)
(* their registry.                                                           *)
RefusedOnlyIfEmpty == phase = "refused" => Shares(captures, selected) = <<>>

Overlap(a, b) == a.end > b.start /\ b.end > a.start
Replayable(capture, ops) ==
  /\ \A i \in DOMAIN ops : /\ ops[i].observations = <<>>
                           /\ ops[i].parent = capture.scenario =>
                                ops[i].completion.kind # "abandoned"
  /\ \A i, j \in DOMAIN ops : (i # j /\ ops[i].parent = ops[j].parent) =>
                                ~Overlap(ops[i], ops[j])

(* Replay makes the recorded calls: a published bundle decodes unless it     *)
(* holds an observation, an abandoned call or overlapping siblings, and then *)
(* each scenario is the component's outermost calls, in the order the test   *)
(* made them, with the inputs it gave.                                       *)
DecodedFaithful ==
  LET kept == Filter(captures, selected)
      TopCalls(capture) ==
        SelectSeq(capture.operations, LAMBDA o : o.parent = capture.scenario)
      Inputs(o) == {<<p[1], p[2][2]>> : p \in ToSet(o.inputs)}
      Read(d) == {<<n, d[4][n][2][2]>> : n \in DOMAIN d[4]}
  IN /\ phase = "undecodable" =>
          \E k \in DOMAIN kept : ~Replayable(kept[k], kept[k].operations)
     /\ phase = "decoded" =>
          /\ \A k \in DOMAIN kept : Replayable(kept[k], kept[k].operations)
          /\ [k \in DOMAIN kept |->
                <<kept[k].name, [i \in DOMAIN TopCalls(kept[k]) |->
                   LET o == TopCalls(kept[k])[i] IN <<o.component, o.name, Inputs(o)>>]>>]
             = [k \in DOMAIN decoded |->
                <<decoded[k].name, [i \in DOMAIN decoded[k].operations |->
                   LET d == decoded[k].operations[i] IN <<d[2], d[3], Read(d)>>]>>]

(* The verdict of a replay is exact: comparing reports nothing iff every     *)
(* operation of the candidate, nested ones included, ended as it did in the  *)
(* reference, although the two traces have their own identifiers and clocks. *)
VerdictExact == phase = "compared" => (report = {} <=> ~changed)
=============================================================================
