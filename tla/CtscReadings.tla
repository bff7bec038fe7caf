---------------------------- MODULE CtscReadings ----------------------------
(***************************************************************************)
(* One value of a reference and of a candidate trace, read by the trace    *)
(* validator, the linked validator, the comparison and replay              *)
(* (specgate-ctsc validation/linked.rs, comparison/engine.rs,              *)
(* replay/otlp.rs).  The readers share no code, only the JSON.  The         *)
(* candidate trace is another producer's, or the one replay writes after    *)
(* linking a candidate to the reference operation (specgate-cli replay).    *)
(***************************************************************************)
EXTENDS ReplayBinding

CONSTANTS Types,           \* declared types to try
          Captured,        \* values the encoder writes
          Foreign,         \* JSON values of other producers
          Registry,        \* component id -> registry and named types
          Component,       \* the component whose operation declares the type
          Candidates       \* candidate implementations to link

Side == {"reference", "candidate"}
Raws == {Encode(v) : v \in Captured} \cup Foreign

VARIABLES type,      \* the declared type
          raw,       \* [Side -> the JSON value]
          loaded,    \* [Side -> AnyValue, Invalid or "unread"]
          linked,    \* [Side -> BOOLEAN], once both are loaded
          verdict,   \* "none", "rejected", "equal" or "mismatch"
          input,     \* [Side -> replay input, Invalid or "unread"]
          plan       \* Unplanned, Refused, or <<phase, candidate, observed, calls>>

vars == <<type, raw, loaded, linked, verdict, input, plan>>

Unread    == <<"unread">>
Unplanned == <<"unplanned">>
Refused   == <<"refused">>

Init ==
  /\ type \in Types
  /\ raw \in [Side -> Raws]
  /\ loaded = [s \in Side |-> Unread]
  /\ linked = [s \in Side |-> FALSE]
  /\ verdict = "none"
  /\ input = [s \in Side |-> Unread]
  /\ plan = Unplanned

(* load_trace of both documents.                                           *)
LoadTraces ==
  /\ \A s \in Side : loaded[s] = Unread
  /\ loaded' = [s \in Side |-> Load(raw[s])]
  /\ UNCHANGED <<type, raw, linked, verdict, input, plan>>

Accepted(v) == v # Invalid /\ ValidValue(v, type, Component, Registry)

CompareWritten(a, b) == a = b   \* mutant: no canonical form

(* compare_value.  Absent canonical forms compare equal.                   *)
CompareValue(a, b) ==
  CanonicalValue(a, type, Component, Registry) = CanonicalValue(b, type, Component, Registry)

(* compare_loaded: validation, then linkage, then comparison, each only    *)
(* when the one before reported nothing for either trace.                  *)
Compare ==
  /\ verdict = "none"
  /\ \A s \in Side : loaded[s] # Unread
  /\ linked' = [s \in Side |-> Accepted(loaded[s])]
  /\ verdict' = IF \E s \in Side : ~Accepted(loaded[s]) THEN "rejected"
                ELSE IF CompareValue(loaded["reference"], loaded["candidate"])
                THEN "equal" ELSE "mismatch"
  /\ UNCHANGED <<type, raw, loaded, input, plan>>

(* decode_operation's reading of the input, in a bundle of either trace.   *)
DecodeInputs ==
  /\ \A s \in Side : input[s] = Unread
  /\ input' = [s \in Side |-> ReadInput(raw[s], type)]
  /\ UNCHANGED <<type, raw, loaded, linked, verdict, plan>>

(* Types replay has an input for.                                          *)
RECURSIVE Replayable(_)
Replayable(t) ==
  CASE t[1] = "prim" -> t[2] # "bytes"
    [] t[1] \in {"coll", "optional"} -> Replayable(t[2])
    [] t[1] = "map" -> Replayable(t[2]) /\ Replayable(t[3])
    [] t[1] = "tuple" -> \A i \in DOMAIN t[2] : Replayable(t[2][i])
    [] OTHER -> FALSE

(* The bundle's registry: an operation that returns what it is given, or    *)
(* has no input where replay has none for the type, and a helper that it    *)
(* may call.                                                                *)
RegistryOp(name, inputs, output) ==
  [name |-> name, inputs |-> inputs, output |-> output,
   errors |-> <<<<"Failed", NoPayload>>>>, empty |-> FALSE]
Echo == RegistryOp("echo", IF Replayable(type) THEN <<<<"x", type>>>> ELSE <<>>, type)
Helper == RegistryOp("helper", <<>>, <<"prim", "i32">>)

Outcomes == {v \in Captured : Encode(v) = raw["reference"]}

(* build_plan for a bundle of the reference trace, before there is a         *)
(* candidate trace.                                                          *)
LinkCandidate(c, observed) ==
  /\ plan = Unplanned
  /\ raw["candidate"] = raw["reference"] /\ \A s \in Side : loaded[s] = Unread
  /\ IF Replayable(type) THEN input["reference"] \notin {Unread, Invalid}
     ELSE Outcomes # {} /\ Accepted(Load(raw["reference"]))
  /\ plan' = IF BuildPlan({Echo}, IF observed THEN {Helper} ELSE {}, c, Component, Registry)
             THEN <<"planned", c, observed, FALSE>> ELSE Refused
  /\ UNCHANGED <<type, raw, loaded, linked, verdict, input>>

(* What the candidate's runtime records: the input it was given, through    *)
(* the test harness or not, or the outcome the reference recorded.          *)
Recorded(op, harness) ==
  IF op.inputs = <<>> THEN CHOOSE v \in Outcomes : TRUE
  ELSE LET native == RenderValue(input["reference"], op.inputs[1][2])
           given == IF harness /\ native # Invalid
                    THEN InputDecode(ToNativeValue(native), op.inputs[1][2]) ELSE native
       IN IF given = Invalid THEN Invalid ELSE ToNativeValue(given)

(* Execution of the plan: the harness or a generated program runs the        *)
(* candidate, its capture is converted and written as the candidate trace.   *)
Execute(harness, calls) ==
  /\ plan[1] = "planned"
  /\ LET c == plan[2]
         op == Found(Echo, c)
         recorded == Recorded(op, harness)
         converted == IF recorded = Invalid THEN Invalid
                      ELSE ConvertValue(type, DeclaredAs(op.output), recorded,
                                        Component, Registry, c.types)
         failed == converted = Invalid
                     \/ (calls /\ Rejected(Helper, c, Component, Registry))
     IN /\ calls => Declares(c, Helper)
        /\ plan' = <<IF failed THEN "failed" ELSE "run", c, plan[3], calls>>
        /\ raw' = IF failed THEN raw ELSE [raw EXCEPT !["candidate"] = Encode(converted)]
        /\ input' = [input EXCEPT !["candidate"] = ReadInput(raw'["candidate"], type)]
  /\ UNCHANGED <<type, loaded, linked, verdict>>

Next ==
  \/ LoadTraces \/ Compare \/ DecodeInputs
  \/ \E c \in Candidates, observed \in BOOLEAN : LinkCandidate(c, observed)
  \/ \E harness, calls \in BOOLEAN : Execute(harness, calls)

Spec == Init /\ [][Next]_vars
-----------------------------------------------------------------------------
(* What it means for two values of a type to be the same, without a        *)
(* canonical form: unordered collections match under some bijection.       *)

RECURSIVE Same(_, _, _)
Same(a, b, t) ==
  CASE t[1] = "prim" -> a = b
    [] t[1] = "named" -> Same(a, b, Definition(t, Component, Registry))
    [] t[1] = "coll" ->
         /\ Len(a[2]) = Len(b[2])
         /\ LET orders == IF t[3] THEN {[i \in DOMAIN a[2] |-> i]}
                          ELSE {p \in [DOMAIN a[2] -> DOMAIN a[2]] : IsInjective(p)}
            IN \E p \in orders : \A i \in DOMAIN a[2] : Same(a[2][i], b[2][p[i]], t[2])
    [] t[1] = "map" /\ StringMap(t) ->
         /\ DOMAIN a[2] = DOMAIN b[2]
         /\ \A k \in DOMAIN a[2] : Same(a[2][k], b[2][k], t[3])
    [] t[1] = "map" /\ ~StringMap(t) ->
         LET SameEntry(x, y) == /\ Same(x[2]["key"], y[2]["key"], t[2])
                                /\ Same(x[2]["value"], y[2]["value"], t[3])
         IN /\ Len(a[2]) = Len(b[2])
            /\ \A i \in DOMAIN a[2] :
                 IF t[4] THEN SameEntry(a[2][i], b[2][i])
                 ELSE \E j \in DOMAIN b[2] : SameEntry(a[2][i], b[2][j])
    [] t[1] = "tuple" -> \A i \in DOMAIN a[2] : Same(a[2][i], b[2][i], t[2][i])
    [] t[1] = "record" -> \A f \in DOMAIN t[2] : Same(a[2][f], b[2][f], t[2][f])
    [] t[1] \in {"optional", "union"} ->
         /\ DOMAIN a[2] = DOMAIN b[2]
         /\ \A k \in DOMAIN a[2] :
              LET s == IF t[1] = "union" THEN t[2][k] ELSE t[2]
              IN a[2][k] = b[2][k] \/ (s # NoPayload /\ k # "None"
                                       /\ Same(a[2][k], b[2][k], s))

(* Comparison means sameness: two values that both passed linked validation *)
(* are reported equal exactly when they denote the same value of the type,  *)
(* whatever order an unordered collection or map was written in.  Absent    *)
(* canonical forms would compare equal, so this also says that validation   *)
(* lets none through.                                                       *)
EqualMeansSame ==
  verdict \in {"equal", "mismatch"} =>
    (verdict = "equal" <=> Same(loaded["reference"], loaded["candidate"], type))

(* Replay decodes no input that the validator would refuse: an input the    *)
(* decoder accepts is a valid value of its declared type, although replay    *)
(* checks it with a reader of its own.                                       *)
DecoderSound ==
  \A s \in Side : (verdict # "none" /\ input[s] \notin {Unread, Invalid}) => linked[s]

(* Replay decodes every valid input that is spelled as the encoder spells    *)
(* it: of a validated replayable value it refuses only foreign spellings.    *)
DecoderComplete ==
  \A s \in Side :
    (/\ Replayable(type) /\ linked[s] /\ input[s] # Unread
     /\ \E v \in Captured : raw[s] = Encode(v)) => input[s] # Invalid

(* Replay and comparison agree on which inputs are the same.                 *)
DecodedSameAsCompared ==
  (verdict \in {"equal", "mismatch"} /\ \A s \in Side : input[s] \notin {Unread, Invalid})
    => (verdict = "equal" <=> input["reference"] = input["candidate"])

(* What linking lets through, replay carries across unchanged: a planned     *)
(* replay of a candidate that returns what it is given, and calls the helper *)
(* only if the reference did, neither panics nor fails, and its trace        *)
(* compares equal, whichever Rust type stores the input.                     *)
PlannedReplaysEqual ==
  (plan[1] \in {"failed", "run"} /\ (plan[4] => plan[3])) =>
    plan[1] = "run" /\ verdict \in {"none", "equal"}
=============================================================================
