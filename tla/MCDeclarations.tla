---------------------------- MODULE MCDeclarations ----------------------------
(* Small programs for Declarations: every way of using a type across three *)
(* components, every way of attaching up to two setups to an operation,    *)
(* some programs that are run and two versions of a published library.     *)
EXTENDS Declarations

MCNameOrder ==
  <<"", "Bare", "Conf", "Db", "Held", "Item", "Kind", "Opts", "OptsToo", "Part", "Recv", "Tree",
    "a", "a.json", "app", "b", "b.json", "error", "item", "level", "lib", "lib.json", "load",
    "mid", "mid.json", "o", "part", "q", "root", "root.json", "run", "stop", "util", "x", "y">>

S == Type("String")
I == Type("i32")
Item == Type("Item")
Part == Type("Part")

ParamTypes ==
  {I, Type("i8"), Item, Of("&", <<Item>>), Of("[]", <<S>>), Of("Vec", <<Part>>),
   Of("HashMap", <<S, Item>>), Of("HashSet", <<Of("(,)", <<Item, I>>)>>),
   Of("Option", <<Unit>>), Type("Value"), Type("Gone")}
ReturnTypes ==
  {Unit, Of("Option", <<Of("Vec", <<Item>>)>>), Of("Option", <<Unit>>),
   Of("Option", <<Of("&", <<Unit>>)>>), Of("Result", <<Unit, Part>>),
   Of("Result", <<Item, S>>), Of("Vec", <<Of("Result", <<I, S>>)>>)}
CsParamTypes ==
  {Type("string"), Item, Of("List", <<Part>>), Of("map", <<Type("string"), Item>>)}

Signatures == (ParamTypes \X {Unit}) \cup ({S} \X ReturnTypes)

(* What the other components declare, and what app declares itself.        *)
PartDefs ==
  {<<>>, <<Struct("util", "Part", <<Param("x", I)>>)>>,
   <<Struct("util", "Part", <<Param("item", Item)>>)>>,
   <<Enum("util", "Part", <<Variant("A", <<>>, NoTuple), Variant("B", <<>>, <<I, Part>>)>>),
     Struct("util", "Held", <<Param("x", Part)>>)>>}
ItemDefs ==
  {<<Struct("lib", "Item", <<Param("part", t)>>)>> : t \in {I, Of("Vec", <<Part>>), Item}}
    \cup {<<Enum("lib", "Item", <<Variant("V", <<>>, <<Part>>)>>)>>,
          <<Enum("lib", "Item", <<>>)>>}
LocalDefs ==
  {<<>>, <<Struct("app", "Item", <<Param("x", Part)>>)>>,
   <<Enum("app", "Kind", <<Variant("K", <<Param("item", Item)>>, NoTuple)>>)>>,
   <<Struct("util", "Item", <<Param("x", I)>>)>>}
LibOps == {<<>>, <<Operation("lib", "load", <<>>, Of("Vec", <<Part>>))>>}

TypePrograms ==
  {Linked("rust", <<Operation("app", "run", <<Param("a", s[1])>>, s[2])>> \o ops,
           parts \o items \o local) :
     s \in Signatures, ops \in LibOps, parts \in PartDefs, items \in ItemDefs, local \in LocalDefs}
CsPrograms ==
  {Linked("csharp", <<Operation("app", "run", <<Param("a", t)>>, Item)>>,
           items \o <<Struct("util", "Part", <<Param("x", Type("string"))>>)>> \o local) :
     t \in CsParamTypes, local \in LocalDefs,
     items \in {<<Struct("lib", "Item", <<Param("part", Of("List", <<Part>>))>>)>>}}

(* Setups of one operation.                                                *)
Opts == [Struct("app", "Opts", <<Param("level", I), Param("part", I)>>) EXCEPT !.property = TRUE]
OptsToo == [Opts EXCEPT !.name = "OptsToo"]
Tree == [Struct("app", "Tree", <<Param("x", Type("Tree"))>>) EXCEPT !.property = TRUE]
Held(name) == Struct("app", name, <<>>)
SetupTypes == <<Held("Db"), Held("Recv")>>
SetupParams == {<<Param("x", I)>>, <<Param("o", Of("&", <<Type("Opts")>>))>>}
SetupChoices ==
  {<<fills, params, Type(returns)>> :
     fills \in {"", "a", "q"}, params \in SetupParams, returns \in {"Db", "Recv"}}
OpParams ==
  {<<>>, <<Param("a", Type("Db"))>>, <<Param("a", Type("Db")), Param("b", Type("Db"))>>,
   <<Param("o", Type("Opts"))>>, <<Param("y", I), Param("a", Type("Db"))>>}

Attach(params, method, setups) ==
  Linked("rust",
          <<[Operation("app", "run", params, Unit) EXCEPT !.method = method]>>
            \o [i \in DOMAIN setups |->
                  Setup("app", "run", <<"f", "g">>[i], setups[i][1],
                        setups[i][2], setups[i][3])],
          SetupTypes \o <<Opts>>)
SetupPrograms ==
  {Attach(params, method, setups) :
     params \in OpParams, method \in BOOLEAN,
     setups \in {<<>>} \cup {<<s>> : s \in SetupChoices} \cup (SetupChoices \X SetupChoices)}
    \cup {[Attach(<<Param("o", Type("Opts"))>>, FALSE, <<>>) EXCEPT !.types = @ \o <<OptsToo>>],
          [Attach(<<Param("a", Type("Tree"))>>, FALSE, <<>>) EXCEPT !.types = @ \o <<Tree>>],
          [Attach(<<>>, FALSE, <<>>) EXCEPT !.ops[1].public = FALSE],
          [Attach(<<>>, FALSE, <<<<"", <<>>, Type("Db")>>>>) EXCEPT !.ops[2].name = "stop"]}

(* The programs that are run.                                              *)
New(op, fn, params) == Setup("app", op, fn, "", params, Type("Recv"))
Method(op) == [Operation("app", op, <<>>, Unit) EXCEPT !.method = TRUE]
MCExecuted ==
  {Linked("rust", <<Method("run"), New("run", "f", <<Param("x", I)>>),
                     Method("stop"), New("stop", "f", <<Param("x", I)>>)>>, SetupTypes),
   Linked("rust", <<[Method("run") EXCEPT !.params = <<Param("a", Type("Db"))>>],
                     New("run", "f", <<Param("x", I)>>),
                     Setup("app", "run", "g", "a", <<Param("y", I)>>, Type("Db"))>>, SetupTypes),
   Linked("rust", <<Method("run"), [New("run", "f", <<Param("x", I)>>) EXCEPT !.async = TRUE]>>,
           SetupTypes),
   Linked("rust", <<Method("run"), New("run", "f", <<>>),
                     Operation("lib", "load", <<>>, Unit),
                     Setup("lib", "load", "h", "q", <<>>, Unit)>>, SetupTypes)}

MCLibrary ==
  {Linked("rust", <<>>, <<Struct("lib", "Item", <<Param("part", t)>>)>>) : t \in {I, S}}

MCRegistries == {EncodeDocument("lib", "1", <<BuildSchema(p, "lib")>>) : p \in MCLibrary}
MCRegistryOf == [path \in {"mid.json", "root.json"} |-> IF path = "mid.json" THEN "mid" ELSE "root"]

MCPrograms == TypePrograms \cup CsPrograms \cup SetupPrograms \cup MCExecuted \cup MCLibrary
=============================================================================
