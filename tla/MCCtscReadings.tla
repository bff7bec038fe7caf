--------------------------- MODULE MCCtscReadings ---------------------------
EXTENDS CtscReadings

(* Widths small enough to step over every bound: -2 is only an i64, -1 an   *)
(* i32 but no u32, 2 a u32 but no i32, 3 only a u64.                        *)
MCI32 == -1..1
MCU32 == 0..2
MCI64 == -2..2
MCU64 == 0..3
MCSingle == {<<"int", n>> : n \in -2..3}

Num(n)  == <<"Integer", n>>
Str(w)  == <<"String", Word(w)>>
List(s) == <<"List", s>>
Map(s)  == <<"Map", s>>
Unit    == Map(<<>>)
Entry(k, v) == Map(<<<<"key", k>>, <<"value", v>>>>)

MCCaptured ==
  {Num(n) : n \in -2..2} \cup {<<"Unsigned", n>> : n \in {0, 3}}
  \cup {Str("a"), <<"Bool", TRUE>>, Unit}
  \cup {<<"Float", <<"int", 1>>>>, <<"Float", <<"frac", 1>>>>, <<"Float", Symbol("NaN")>>,
        <<"Float", Symbol("Infinity")>>}
  \cup {List(<<>>), List(<<Num(0), Num(1)>>), List(<<Num(1), Num(0)>>),
        List(<<Num(0), Num(0)>>), List(<<Num(0), Str("a")>>)}
  \cup {Map(<<<<"Some", Num(0)>>>>), Map(<<<<"None", Unit>>>>), Map(<<<<"Some", Unit>>>>),
        Map(<<<<"None", Num(0)>>>>), Map(<<<<"None", Unit>>, <<"Some", Num(0)>>>>)}
  \cup {List(<<Entry(Num(0), Str("a")), Entry(Num(1), Str("b"))>>),
        List(<<Entry(Num(1), Str("b")), Entry(Num(0), Str("a"))>>),
        List(<<Entry(Num(0), Str("a")), Entry(Num(0), Str("b"))>>),
        List(<<Entry(Str("k"), Num(0))>>), List(<<Map(<<<<"key", Num(0)>>>>)>>)}
  \cup {List(<<Map(<<<<"Some", Num(0)>>>>), Map(<<<<"None", Unit>>>>)>>),
        List(<<Map(<<<<"None", Unit>>>>), Map(<<<<"Some", Num(0)>>>>)>>)}

Number(n) == <<"num", <<"int", n>>>>
Text(t)   == <<"str", t>>
MCForeign ==
  { Camel("int", Number(0)), Obj("snake", "int", Text(Digits(0))),
    Camel("int", Text(Padded(0))), Camel("int", Text(Word("a"))),
    Camel("string", Text(Padded(0))), Camel("string", Number(0)),
    Camel("double", Text(Digits(1))), Camel("double", Text(Word("a"))),
    Camel("bytes", Text(Word("a"))), Camel("bytes", Text(Word("!"))),
    Camel("strindex", Number(0)),
    <<"obj", [k \in {} |-> Number(0)]>>,
    <<"obj", [k \in {<<"camel", "int">>, <<"snake", "int">>} |-> Number(0)]>>,
    Camel("kvlist", <<"kv", <<<<"Some", Encode(Num(0))>>, <<"Some", Encode(Num(1))>>>>>>),
    Camel("array", <<"arr", <<Camel("int", Number(0)), Camel("int", Number(1))>>>>),
    Camel("array", <<"arr", <<Camel("kvlist", <<"kv", <<
        <<"value", Encode(Str("a"))>>, <<"key", Encode(Num(0))>>>>>>)>>>>),
    Camel("array", <<"arr", <<Camel("kvlist", <<"kv", <<
        <<"key", Encode(Num(0))>>, <<"key", Encode(Num(1))>>>>>>)>>>>) }

P(p) == <<"prim", p>>
MCTypes ==
  {P(p) : p \in {"unit", "string", "bool", "i32", "i64", "u32", "u64",
                 "f32", "f64", "bytes"}}
  \cup {<<"coll", P("i32"), o, u>> : o, u \in BOOLEAN}
  \cup {<<"coll", <<"optional", P("i32")>>, FALSE, TRUE>>}
  \cup {<<"map", P("string"), P("i32"), o>> : o \in BOOLEAN}
  \cup {<<"map", P("i32"), P("string"), o>> : o \in BOOLEAN}
  \cup {<<"tuple", <<P("i32"), P("string")>>>>, <<"tuple", <<P("i32"), P("i64")>>>>,
        <<"optional", P("i32")>>, <<"optional", P("unit")>>}
  \cup {<<"named", "Tagged", Absent, Absent>>, <<"named", "Tagged", "c2", "r2">>,
        <<"named", "Tagged", "c2", "r1">>, <<"named", "Entry", Absent, Absent>>,
        <<"coll", <<"named", "Entry", Absent, Absent>>, FALSE, FALSE>>}

MCRegistry ==
  [c \in {"c1", "c2"} |->
    IF c = "c1"
    THEN [from |-> "r1",
          types |-> [n \in {"Tagged", "Entry"} |->
            IF n = "Tagged"
            THEN <<"union", [v \in {"Some", "None"} |-> IF v = "Some" THEN P("i32") ELSE NoPayload]>>
            ELSE <<"record", [f \in {"key", "value"} |-> IF f = "key" THEN P("i32") ELSE P("string")]>>]]
    ELSE [from |-> "r2",
          types |-> [n \in {"Tagged"} |-> <<"union", [v \in {"Some"} |-> NoPayload]>>]]]

R(n) == <<n>>
MCStorage ==
  {R(n) : n \in {"()", "String", "&str", "bool", "i32", "i64", "u32", "u64", "f32", "f64"}}
  \cup {<<c, R("i32")>> : c \in {"Vec", "HashSet", "BTreeSet", "Option"}}
  \cup {<<"Vec", R("&str")>>, <<"Option", R("()")>>, <<"BTreeSet", <<"Option", R("i32")>>>>,
        <<"Vec", <<"Option", R("i32")>>>>, <<"BTreeMap", R("String"), R("i32")>>,
        <<"HashMap", R("i32"), R("String")>>,
        <<"Vec", <<"tuple", <<R("String"), R("i32")>>>>>>,
        <<"Vec", <<"tuple", <<R("i32"), R("String")>>>>>>,
        <<"tuple", <<R("i32"), R("String")>>>>, <<"tuple", <<R("i32"), R("i64")>>>>,
        <<"struct", "Tagged">>, <<"struct", "Entry">>, <<"Vec", <<"struct", "Entry">>>>,
        <<"HashSet", <<"struct", "Entry">>>>}

CandidateOp(name, inputs, output) ==
  [name |-> name, inputs |-> inputs, output |-> output, errors |-> <<<<"Failed", NoPayload>>>>,
   empty |-> FALSE, public |-> TRUE, setup |-> FALSE, consumes |-> FALSE]

(* A candidate whose Tagged carries a wider payload.                        *)
MCWider == [MCRegistry EXCEPT !["c1"].types["Tagged"] =
              <<"union", [v \in {"Some", "None"} |-> IF v = "Some" THEN P("i64") ELSE NoPayload]>>]

MCCandidates ==
  LET Given(n) == CandidateOp("echo", <<<<"x", n>>>>, n)
      Help(n) == CandidateOp("helper", <<>>, n)
      Linked(ops) == [ops |-> ops, types |-> MCRegistry]
      plain == Given(R("i32"))
  IN {Linked(<<Given(n)>>) : n \in MCStorage}
     \cup {[ops |-> <<CandidateOp("echo", <<>>, <<"struct", s>>)>>, types |-> m] :
             s \in {"Tagged", "Entry"}, m \in {MCRegistry, MCWider}}
     \cup {Linked(<<CandidateOp("echo", <<>>, <<c, <<"struct", "Entry">>>>)>>) :
             c \in {"Vec", "HashSet"}}
     \cup {Linked(<<plain, Help(n)>>) : n \in {R("i32"), R("String")}}
     \cup {Linked(ops) : ops \in
             { <<>>, <<plain, plain>>, <<plain, [plain EXCEPT !.setup = TRUE]>>,
               <<[plain EXCEPT !.public = FALSE]>>, <<[plain EXCEPT !.consumes = TRUE]>>,
               <<[plain EXCEPT !.inputs = <<<<"y", R("i32")>>>>]>>,
               <<[plain EXCEPT !.errors = <<>>]>>, <<[plain EXCEPT !.empty = TRUE]>>,
               <<[plain EXCEPT !.output = NoPayload]>>, <<[plain EXCEPT !.output = R("i64")]>> }}
=============================================================================
