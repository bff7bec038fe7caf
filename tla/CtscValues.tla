----------------------------- MODULE CtscValues -----------------------------
(***************************************************************************)
(* CTSC values in their three readings (specgate-ctsc capture/encoding.rs  *)
(* and capture/otlp.rs, validation/otlp.rs, validation/otlp/schema.rs,     *)
(* validation/trace/fields.rs and validation/linked.rs,                    *)
(* replay/otlp/wire.rs and replay/otlp/value.rs).                          *)
(*                                                                         *)
(* The encoder writes a captured value as an OTLP-JSON AnyValue; the       *)
(* validator and the comparison parse that JSON, check it against the      *)
(* registry's type and bring it to canonical form; replay reads the same   *)
(* JSON with a stricter wire model and decodes it to a typed input.        *)
(*                                                                         *)
(* Every value, type and JSON node is a tuple headed by its kind.          *)
(* Numbers keep their widths as the sets I32, U32, I64 and U64; a text is  *)
(* a word, a decimal numeral (canonical or zero-padded) or one of the      *)
(* symbolic doubles; the bytes a base64 text stands for are that text.      *)
(***************************************************************************)
EXTENDS Integers, FiniteSets, Sequences, SequencesExt, CtscTexts

CONSTANTS
  I32, U32, I64, U64,   \* the integers each width holds
  Single                \* the doubles <<"int"|"frac", n>> that an f32 holds

ASSUME WidthAssumption ==
  /\ I32 \subseteq I64 /\ U32 \subseteq I64
  /\ U32 \subseteq U64 /\ U64 \subseteq Nat

Invalid == <<"invalid">>   \* an issue was reported, or None

AllValid(s) == \A i \in DOMAIN s : s[i] # Invalid
MapSeq(Op(_), s) == [i \in DOMAIN s |-> Op(s[i])]
NoDuplicates(s) == Cardinality(ToSet(s)) = Len(s)
-----------------------------------------------------------------------------
(* JSON scalars: <<"str", text>>, <<"num", double>>, <<"bool", b>>;        *)
(* a double is <<"int", n>> or <<"frac", n>>, never both the same number.  *)
ParseInteger(json, width) ==
  CASE json[1] = "num" /\ json[2][1] = "int" /\ json[2][2] \in width -> json[2]
    [] json[1] = "str" /\ IsNumeral(json[2]) /\ json[2][2] \in width -> <<"int", json[2][2]>>
    [] OTHER -> Invalid

ParseDouble(json) ==
  CASE json[1] = "num" -> <<"finite", json[2]>>
    [] json[1] = "str" /\ json[2][1] = "symbol" -> json[2]
    [] json[1] = "str" /\ IsNumeral(json[2]) -> <<"finite", <<"int", json[2][2]>>>>
    [] OTHER -> Invalid

NotBase64 == {Word("!"), Symbol("-Infinity")}
DecodeBase64(json) ==
  IF json[1] = "str" /\ json[2] \notin NotBase64 THEN json[2] ELSE Invalid
-----------------------------------------------------------------------------
(* A JSON AnyValue object is <<"obj", fields>>, fields a function from the *)
(* <<spelling, variant>> keys present; a nested values array is a sequence *)
(* and a kvlist a sequence of <<key, AnyValue>>.                           *)

ValueKeys == {"string", "bool", "int", "double", "bytes", "array", "kvlist"}
Obj(spelling, variant, json) ==
  <<"obj", [k \in {<<spelling, variant>>} |-> json]>>
Camel(variant, json) == Obj("camel", variant, json)

RECURSIVE Encode(_)

(* any_value: what the encoder writes for a captured value.                *)
Encode(v) ==
  CASE v[1] = "String"   -> Camel("string", <<"str", v[2]>>)
    [] v[1] = "Integer"  -> Camel("int", <<"str", Digits(v[2])>>)
    [] v[1] = "Unsigned" -> Camel("string", <<"str", Digits(v[2])>>)
    [] v[1] = "Float"    -> Camel("double", IF v[2][1] = "symbol"
                                            THEN <<"str", v[2]>>
                                            ELSE <<"num", v[2]>>)
    [] v[1] = "Bool"     -> Camel("bool", <<"bool", v[2]>>)
    [] v[1] \in {"List", "Set"} -> Camel("array", <<"arr", MapSeq(Encode, v[2])>>)
    [] v[1] = "Map"      ->
         Camel("kvlist", <<"kv", [i \in DOMAIN v[2] |->
                                   <<v[2][i][1], Encode(v[2][i][2])>>]>>)

RECURSIVE SchemaOk(_)

(* The protobuf schema: known fields only, at most one value field, and    *)
(* scalars that deserialize.                                               *)
SchemaOk(raw) ==
  LET fields == raw[2] IN
  /\ Cardinality(DOMAIN fields) <= 1
  /\ \A k \in DOMAIN fields :
       LET j == fields[k] IN
       CASE k[2] = "string" -> j[1] = "str"
         [] k[2] = "bool"   -> j[1] = "bool"
         [] k[2] = "int"    -> ParseInteger(j, I64) # Invalid
         [] k[2] = "double" -> ParseDouble(j) # Invalid
         [] k[2] = "bytes"  -> DecodeBase64(j) # Invalid
         [] k[2] = "array"  -> j[1] = "arr" /\ \A i \in DOMAIN j[2] : SchemaOk(j[2][i])
         [] k[2] = "kvlist" -> j[1] = "kv" /\ \A i \in DOMAIN j[2] : SchemaOk(j[2][i][2])
         [] k[2] = "strindex" -> ParseInteger(j, I32) # Invalid
         [] OTHER -> FALSE

RECURSIVE ParseValue(_)

(* parse_value: exactly one variant, no duplicate kvlist key.              *)
ParseValue(raw) ==
  LET fields == raw[2]
      key == CHOOSE k \in DOMAIN fields : TRUE
      j == fields[key]
  IN IF Cardinality(DOMAIN fields) # 1 THEN Invalid
     ELSE IF key[2] \notin ValueKeys THEN Invalid
     ELSE CASE key[2] = "string" /\ j[1] = "str" -> <<"string", j[2]>>
            [] key[2] = "bool" /\ j[1] = "bool"  -> <<"bool", j[2]>>
            [] key[2] = "int" /\ ParseInteger(j, I64) # Invalid ->
                 ParseInteger(j, I64)
            [] key[2] = "double" /\ ParseDouble(j) # Invalid ->
                 <<"double", ParseDouble(j)>>
            [] key[2] = "bytes" /\ DecodeBase64(j) # Invalid ->
                 <<"bytes", DecodeBase64(j)>>
            [] key[2] = "array" /\ j[1] = "arr" ->
                 LET items == MapSeq(ParseValue, j[2])
                 IN IF AllValid(items) THEN <<"array", items>> ELSE Invalid
            [] key[2] = "kvlist" /\ j[1] = "kv" ->
                 LET keys  == [i \in DOMAIN j[2] |-> j[2][i][1]]
                     items == [i \in DOMAIN j[2] |-> ParseValue(j[2][i][2])]
                 IN IF NoDuplicates(keys) /\ AllValid(items)
                    THEN <<"kvlist", [k \in ToSet(keys) |->
                                       items[CHOOSE i \in DOMAIN keys : keys[i] = k]]>>
                    ELSE Invalid
            [] OTHER -> Invalid

(* What a validated document holds at this place.                          *)
Load(raw) == IF SchemaOk(raw) THEN ParseValue(raw) ELSE Invalid
-----------------------------------------------------------------------------
(* Registry types: <<"prim", p>>, <<"named", name, component, registry>>   *)
(* (either may be Absent), <<"coll", items, ordered, unique>>,             *)
(* <<"map", keys, values, ordered>>, <<"tuple", items>>,                   *)
(* <<"record", [name -> type]>>, <<"optional", type>> and                  *)
(* <<"union", [variant -> type or NoPayload]>>.  A registry set maps a     *)
(* component id to the registry it is from and its named types.            *)

Absent    == "absent"
NoPayload == <<"none">>
StringMap(t) == ~t[4] /\ t[2] = <<"prim", "string">>

Target(t, component) == IF t[3] = Absent THEN component ELSE t[3]
Resolves(t, component, registry) ==
  LET c == Target(t, component) IN
  /\ c \in DOMAIN registry
  /\ t[4] \in {Absent, registry[c].from}
  /\ t[2] \in DOMAIN registry[c].types
Definition(t, component, registry) ==
  registry[Target(t, component)].types[t[2]]

ValidPrimitive(v, p) ==
  CASE p = "unit"   -> v[1] = "kvlist" /\ DOMAIN v[2] = {}
    [] p = "string" -> v[1] = "string"
    [] p = "bool"   -> v[1] = "bool"
    [] p = "i32"    -> v[1] = "int" /\ v[2] \in I32
    [] p = "i64"    -> v[1] = "int"
    [] p = "u32"    -> v[1] = "int" /\ v[2] \in U32
    [] p = "u64"    -> v[1] = "string" /\ v[2][1] = "digits" /\ v[2][2] \in U64
    [] p = "f32"    -> v[1] = "double" /\ (v[2][1] = "finite" => v[2][2] \in Single)
    [] p = "f64"    -> v[1] = "double"
    [] p = "bytes"  -> v[1] = "bytes"
    [] OTHER        -> FALSE

CanonicalPrimitive(v, p) ==
  CASE p = "unit" /\ v[1] = "kvlist" -> IF DOMAIN v[2] = {} THEN <<"unit">> ELSE Invalid
    [] p = "string" /\ v[1] = "string" -> <<"string", v[2]>>
    [] p = "bool" /\ v[1] = "bool"     -> <<"bool", v[2]>>
    [] p \in {"i32", "i64", "u32"} /\ v[1] = "int" -> <<"integer", v[2]>>
    [] p = "u64" /\ v[1] = "string"    ->
         IF IsNumeral(v[2]) /\ v[2][2] \in U64 THEN <<"integer", v[2][2]>> ELSE Invalid
    [] p \in {"f32", "f64"} /\ v[1] = "double" -> <<"float", v[2]>>
    [] p = "bytes" /\ v[1] = "bytes"   -> <<"bytes", v[2]>>
    [] OTHER -> Invalid

IsEntry(e) == e[1] = "kvlist" /\ DOMAIN e[2] = {"key", "value"}

RECURSIVE CanonicalValue(_, _, _, _)

(* canonical_value.  Sorting an unordered collection makes any two of its  *)
(* orders equal: it becomes the bag of its elements.  The entries of an    *)
(* unordered map become a function, the last of two equal keys winning.    *)
CanonicalValue(v, t, component, registry) ==
  LET Sub(x, s) == CanonicalValue(x, s, component, registry)
      Some(tag, parts, whole) == IF AllValid(parts) THEN <<tag, whole>> ELSE Invalid
  IN
  CASE t[1] = "prim"  -> CanonicalPrimitive(v, t[2])
    [] t[1] = "named" -> IF Resolves(t, component, registry)
                         THEN CanonicalValue(v, Definition(t, component, registry),
                                             Target(t, component), registry)
                         ELSE Invalid
    [] t[1] = "coll" /\ v[1] = "array" ->
         LET items == [i \in DOMAIN v[2] |-> Sub(v[2][i], t[2])]
         IN IF t[3] THEN Some("list", items, items) ELSE Some("bag", items, ToBag(items))
    [] t[1] = "map" /\ StringMap(t) /\ v[1] = "kvlist" ->
         LET items == [k \in DOMAIN v[2] |-> Sub(v[2][k], t[3])]
         IN Some("stringmap", items, items)
    [] t[1] = "map" /\ ~StringMap(t) /\ v[1] = "array" ->
         LET Entry(e) ==
               IF e[1] # "kvlist" THEN Invalid
               ELSE IF ~({"key", "value"} \subseteq DOMAIN e[2]) THEN Invalid
               ELSE LET k == Sub(e[2]["key"], t[2])
                        x == Sub(e[2]["value"], t[3])
                    IN IF k = Invalid \/ x = Invalid THEN Invalid ELSE <<k, x>>
             entries == MapSeq(Entry, v[2])
             keys == {entries[i][1] : i \in DOMAIN entries}
             Latest(k) == SelectLastInSeq(entries, LAMBDA e : e[1] = k)
         IN IF ~AllValid(entries) THEN Invalid
            ELSE IF t[4] THEN <<"orderedmap", entries>>
            ELSE <<"map", [k \in keys |-> entries[Latest(k)][2]]>>
    [] t[1] = "tuple" /\ v[1] = "array" ->
         IF Len(v[2]) # Len(t[2]) THEN Invalid
         ELSE LET items == [i \in DOMAIN v[2] |-> Sub(v[2][i], t[2][i])]
              IN Some("tuple", items, items)
    [] t[1] = "record" /\ v[1] = "kvlist" ->
         IF ~(DOMAIN t[2] \subseteq DOMAIN v[2]) THEN Invalid
         ELSE LET items == [f \in DOMAIN t[2] |-> Sub(v[2][f], t[2][f])]
              IN Some("record", items, items)
    [] t[1] \in {"optional", "union"} /\ v[1] = "kvlist" ->
         IF DOMAIN v[2] = {} THEN Invalid
         ELSE LET tag == CHOOSE k \in DOMAIN v[2] : TRUE   \* the first entry
                  variants == IF t[1] = "union" THEN t[2]
                              ELSE [k \in {"None", "Some"} |->
                                     IF k = "Some" THEN t[2] ELSE NoPayload]
                  payload == IF tag \notin DOMAIN variants THEN Invalid
                             ELSE IF variants[tag] = NoPayload
                             THEN CanonicalPrimitive(v[2][tag], "unit")
                             ELSE Sub(v[2][tag], variants[tag])
              IN IF payload = Invalid THEN Invalid ELSE <<"variant", tag, payload>>
    [] OTHER -> Invalid

RECURSIVE ValidValue(_, _, _, _)

(* validate_value: no issue is reported for v at type t.                   *)
ValidValue(v, t, component, registry) ==
  LET Sub(x, s) == ValidValue(x, s, component, registry)
      Canonical(x, s) == CanonicalValue(x, s, component, registry)
  IN
  CASE t[1] = "prim"  -> ValidPrimitive(v, t[2])
    [] t[1] = "named" -> /\ Resolves(t, component, registry)
                         /\ ValidValue(v, Definition(t, component, registry),
                                       Target(t, component), registry)
    [] t[1] = "coll"  ->
         /\ v[1] = "array"
         /\ \A i \in DOMAIN v[2] : Sub(v[2][i], t[2])
         /\ t[4] => NoDuplicates([i \in DOMAIN v[2] |-> Canonical(v[2][i], t[2])])
    [] t[1] = "map" /\ StringMap(t) ->
         v[1] = "kvlist" /\ \A k \in DOMAIN v[2] : Sub(v[2][k], t[3])
    [] t[1] = "map" /\ ~StringMap(t) ->
         /\ v[1] = "array"
         /\ \A i \in DOMAIN v[2] : /\ IsEntry(v[2][i])
                                   /\ Sub(v[2][i][2]["key"], t[2])
                                   /\ Sub(v[2][i][2]["value"], t[3])
         /\ NoDuplicates([i \in DOMAIN v[2] |-> Canonical(v[2][i][2]["key"], t[2])])
    [] t[1] = "tuple" ->
         /\ v[1] = "array" /\ Len(v[2]) = Len(t[2])
         /\ \A i \in DOMAIN v[2] : Sub(v[2][i], t[2][i])
    [] t[1] = "record" ->
         /\ v[1] = "kvlist" /\ DOMAIN v[2] = DOMAIN t[2]
         /\ \A f \in DOMAIN t[2] : Sub(v[2][f], t[2][f])
    [] t[1] = "optional" ->
         /\ v[1] = "kvlist" /\ Cardinality(DOMAIN v[2]) = 1
         /\ \A tag \in DOMAIN v[2] :
              \/ tag = "None" /\ ValidPrimitive(v[2][tag], "unit")
              \/ tag = "Some" /\ Sub(v[2][tag], t[2])
    [] t[1] = "union" ->
         /\ v[1] = "kvlist" /\ Cardinality(DOMAIN v[2]) = 1
         /\ \A tag \in DOMAIN v[2] :
              /\ tag \in DOMAIN t[2]
              /\ IF t[2][tag] = NoPayload THEN ValidPrimitive(v[2][tag], "unit")
                 ELSE Sub(v[2][tag], t[2][tag])
    [] OTHER -> FALSE
-----------------------------------------------------------------------------
(* Replay's reading.  The wire model takes the camel-case spelling, int64  *)
(* as text only, a double as a number or any text.                         *)

RECURSIVE WireOk(_)
WireOk(raw) ==
  LET fields == raw[2] IN
  /\ Cardinality(DOMAIN fields) = 1
  /\ \A k \in DOMAIN fields :
       LET j == fields[k] IN
       /\ k[1] = "camel"
       /\ CASE k[2] \in {"string", "int", "bytes"} -> j[1] = "str"
            [] k[2] = "bool"   -> j[1] = "bool"
            [] k[2] = "double" -> j[1] \in {"num", "str"}
            [] k[2] = "array"  -> j[1] = "arr" /\ \A i \in DOMAIN j[2] : WireOk(j[2][i])
            [] k[2] = "kvlist" -> j[1] = "kv" /\ \A i \in DOMAIN j[2] : WireOk(j[2][i][2])
            [] OTHER -> FALSE

Variant(raw) == (CHOOSE k \in DOMAIN raw[2] : TRUE)[2]
Payload(raw) == LET j == raw[2][CHOOSE k \in DOMAIN raw[2] : TRUE] IN j[2]

DecodeAnyWidth(raw, width) ==   \* mutant: the range check dropped
  IF Variant(raw) = "int" THEN ParseInteger(<<"str", Payload(raw)>>, I64) ELSE Invalid
DecodeSigned(raw, width) ==     \* mutant: the i32 range used for u32
  IF Variant(raw) = "int" THEN ParseInteger(<<"str", Payload(raw)>>, width \cap I32)
  ELSE Invalid

DecodeInteger(raw, width) ==
  IF Variant(raw) = "int" THEN ParseInteger(<<"str", Payload(raw)>>, I64 \cap width)
  ELSE Invalid

DecodeFloatLossy(raw, narrow) ==   \* mutant: every symbol decoded as NaN
  IF Variant(raw) # "double" THEN Invalid
  ELSE LET j == raw[2][CHOOSE k \in DOMAIN raw[2] : TRUE] IN
       CASE j[1] = "num" /\ (narrow => j[2] \in Single) -> <<"finite", j[2]>>
         [] j[1] = "str" /\ j[2][1] = "symbol" -> Symbol("NaN")
         [] OTHER -> Invalid

DecodeFloat(raw, narrow) ==
  IF Variant(raw) # "double" THEN Invalid
  ELSE LET j == raw[2][CHOOSE k \in DOMAIN raw[2] : TRUE] IN
       CASE j[1] = "num" /\ (narrow => j[2] \in Single) -> <<"finite", j[2]>>
         [] j[1] = "str" /\ j[2][1] = "symbol" -> j[2]
         [] OTHER -> Invalid

DecodePrimitive(raw, p) ==
  LET Some(tag, x) == IF x = Invalid THEN Invalid ELSE <<tag, x>> IN
  CASE p = "unit" -> IF Variant(raw) = "kvlist" /\ Payload(raw) = <<>>
                     THEN <<"unit">> ELSE Invalid
    [] p = "string" -> IF Variant(raw) = "string" THEN <<"string", Payload(raw)>> ELSE Invalid
    [] p = "bool"   -> IF Variant(raw) = "bool" THEN <<"bool", Payload(raw)>> ELSE Invalid
    [] p = "i32"    -> Some("i32", DecodeInteger(raw, I32))
    [] p = "i64"    -> Some("i64", DecodeInteger(raw, I64))
    [] p = "u32"    -> Some("u32", DecodeInteger(raw, U32))
    [] p = "u64"    -> IF /\ Variant(raw) = "string"
                          /\ Payload(raw)[1] = "digits" /\ Payload(raw)[2] \in U64
                       THEN <<"u64", Payload(raw)[2]>> ELSE Invalid
    [] p = "f32"    -> Some("f32", DecodeFloat(raw, TRUE))
    [] p = "f64"    -> Some("f64", DecodeFloat(raw, FALSE))
    [] OTHER        -> Invalid      \* bytes has no replay input

RECURSIVE DecodeValue(_, _)

(* decode_value: the typed replay input, or Invalid.  Named, record and    *)
(* union types have none.                                                  *)
DecodeValue(raw, t) ==
  LET items == IF Variant(raw) \in {"array", "kvlist"} THEN Payload(raw) ELSE <<>> IN
  CASE t[1] = "prim" -> DecodePrimitive(raw, t[2])
    [] t[1] = "coll" /\ Variant(raw) = "array" ->
         LET values == [i \in DOMAIN items |-> DecodeValue(items[i], t[2])] IN
         IF ~AllValid(values) \/ (t[4] /\ ~NoDuplicates(values)) THEN Invalid
         ELSE IF t[3] THEN <<"list", values>>
         ELSE IF t[4] THEN <<"set", ToSet(values)>>
         ELSE <<"sorted", ToBag(values)>>
    [] t[1] = "optional" /\ Variant(raw) = "kvlist" ->
         IF Len(items) # 1 THEN Invalid
         ELSE LET inner == CASE items[1][1] = "Some" -> DecodeValue(items[1][2], t[2])
                             [] items[1][1] = "None" -> DecodePrimitive(items[1][2], "unit")
                             [] OTHER -> Invalid
              IN IF inner = Invalid THEN Invalid ELSE <<items[1][1], inner>>
    [] t[1] = "map" /\ ~StringMap(t) /\ Variant(raw) = "array" ->
         LET Field(e, f) == SelectInSeq(Payload(e), LAMBDA x : x[1] = f)
             Entry(e) ==
               IF Variant(e) # "kvlist" THEN Invalid
               ELSE IF Field(e, "key") = 0 \/ Field(e, "value") = 0 \/ Len(Payload(e)) # 2
               THEN Invalid
               ELSE LET k == DecodeValue(Payload(e)[Field(e, "key")][2], t[2])
                        x == DecodeValue(Payload(e)[Field(e, "value")][2], t[3])
                    IN IF k = Invalid \/ x = Invalid THEN Invalid ELSE <<k, x>>
             entries == MapSeq(Entry, items)
         IN IF ~AllValid(entries) THEN Invalid
            ELSE IF ~NoDuplicates([i \in DOMAIN entries |-> entries[i][1]]) THEN Invalid
            ELSE IF t[4] THEN <<"entries", entries>>
            ELSE <<"sortedentries", ToBag(entries)>>
    [] t[1] = "map" /\ StringMap(t) /\ Variant(raw) = "kvlist" ->
         LET keys   == [i \in DOMAIN items |-> items[i][1]]
             values == [i \in DOMAIN items |-> DecodeValue(items[i][2], t[3])]
         IN IF AllValid(values) /\ NoDuplicates(keys)
            THEN <<"map", [k \in ToSet(keys) |->
                            values[CHOOSE i \in DOMAIN keys : keys[i] = k]]>>
            ELSE Invalid
    [] t[1] = "tuple" /\ Variant(raw) = "array" ->
         IF Len(items) # Len(t[2]) THEN Invalid
         ELSE LET values == [i \in DOMAIN items |-> DecodeValue(items[i], t[2][i])]
              IN IF AllValid(values) THEN <<"tuple", values>> ELSE Invalid
    [] OTHER -> Invalid

ReadInput(raw, t) == IF WireOk(raw) THEN DecodeValue(raw, t) ELSE Invalid
=============================================================================
