--------------------------- MODULE MCCtscPipeline ---------------------------
EXTENDS CtscPipeline

Range32 == -1..9
MCSingle == {}
Done(kind) == [kind |-> kind, name |-> "", value |-> NoValue]
Gives(n) == [kind |-> "result", name |-> "", value |-> <<"Integer", n>>]
Fails == [kind |-> "error", name |-> "e", value |-> NoValue]

(* f of c1 takes an input, emits an observation and returns or fails;       *)
(* g of c2 returns nothing or is dropped.                                   *)
MCSchemas ==
  [c \in {"c1", "c2"} |->
    [from |-> c, types |-> [t \in {} |-> {}],
     operations |->
       IF c = "c1"
       THEN [o \in {"f"} |->
              [inputs |-> [n \in {"x"} |-> <<"prim", "i32">>],
               observations |-> [n \in {"o"} |-> <<"prim", "i32">>],
               outcomes |-> [result |-> <<"prim", "i32">>, empty |-> FALSE,
                             errors |-> [e \in {"e"} |-> NoType]]]]
       ELSE [o \in {"g"} |->
              [inputs |-> [n \in {} |-> NoType], observations |-> [n \in {} |-> NoType],
               outcomes |-> [result |-> NoType, empty |-> FALSE,
                             errors |-> [e \in {} |-> NoType]]]]]]
MCOutcomes ==
  [o \in {<<"c1", "f">>, <<"c2", "g">>} |->
    IF o[1] = "c1" THEN {Gives(0), Fails} ELSE {Done("unit"), Done("abandoned")}]

(* A library test and one of an integration test binary.                    *)
MCTests == <<[library |-> TRUE, binary |-> "lib", test |-> <<"t">>],
             [library |-> FALSE, binary |-> "it", test |-> <<"t">>]>>

(* Identifiers that generated ones run into.                                *)
MCIdentities == {[run |-> 2, scenario |-> 3, supplied |-> <<>>],
                 [run |-> 1, scenario |-> 3, supplied |-> <<2>>]}
=============================================================================
