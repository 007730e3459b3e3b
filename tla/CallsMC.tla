------------------------------- MODULE CallsMC ------------------------------
(* Values of the constants of Calls: eleven signatures, members of the     *)
(* union of one to four bits.                                              *)
EXTENDS Calls, TLC

CONSTANTS o1, o2, f1, d1, v1, v2, v3, c1, c2, l1, l2

MCSpan == [m \in IntMembers |->
             CASE m = "byte" -> 2 [] m = "word" -> 4 [] m = "dword" -> 8 [] OTHER -> 16]

MCClass == [o \in Object |->
              CASE o \in {o1, o2} -> "object" [] o = f1 -> "function" [] o = d1 -> "delegate"
                [] OTHER -> "value"]

MCFunction == <<"number", "flag", "address", "value", "function", "mixed", "enumAddress",
                "lent", "copied", "handle", "valueAddress">>

P(t) == [type |-> t, byRef |-> FALSE]

R(t) == [type |-> t, byRef |-> TRUE]

MCParams == [f \in Functions |->
  CASE f = "number"   -> <<P("int8")>>
    [] f = "flag"     -> <<P("enum")>>
    [] f = "address"  -> <<R("int16")>>
    [] f = "value"    -> <<P("value")>>
    [] f = "function" -> <<P("function@")>>
    [] f = "mixed"    -> <<P("object@"), P("int16")>>
    [] f = "lent"     -> <<R("object"), P("int16")>>
    [] f = "copied"   -> <<P("object")>>
    [] f = "handle"   -> <<P("object@")>>
    [] f = "valueAddress" -> <<R("value")>>
    [] OTHER          -> <<R("enum")>>]

MCReturns == [f \in Functions |->
  CASE f \in {"number", "address"} -> "int64" [] f \in {"mixed", "lent"} -> "object@"
    [] f = "value" -> "value" [] f = "flag" -> "enum" [] OTHER -> "void"]

MCPassed == {<<"int8">>, <<"enum">>, <<"int16">>, <<"value">>, <<"function@">>,
             <<"object@", "int16">>, <<"object@", "int8">>, <<"object@", "opaque">>}

MCNumbers == [t \in Scalars |->
  CASE Member(t) = "byte" -> {1} [] Member(t) = "word" -> {2}
    [] Member(t) = "dword" -> {5} [] OTHER -> {9}]

MCSymmetry == Permutations({v2, v3}) \cup Permutations({l1, l2})
=============================================================================
