------------------------------ MODULE ArraysMC ------------------------------
(* Values of the constants of Arrays: words of three bits, and a header    *)
(* that leaves room for three elements of two bytes.                       *)
EXTENDS Arrays

CONSTANTS a1, a2, o1, o2

MCRank == [x \in Elem |-> IF x = Null THEN 0 ELSE IF x = o1 THEN 1 ELSE 2]

MCElementSize == [k \in Kinds |-> IF k = "primitive" THEN 1 ELSE 2]

MCArray == {a1, a2}

MCMaxLen == [a \in MCArray |-> IF a = a1 THEN 4 ELSE 1]
=============================================================================
