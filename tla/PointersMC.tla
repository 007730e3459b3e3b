------------------------------ MODULE PointersMC ----------------------------
(* Two CASRefPtr, two CASObjPtr, the result handler of one context.        *)
EXTENDS Pointers, TLC

CONSTANTS p1, p2, q1, q2, h1, o1, o2, o3

MCKind == [p \in Pointer |-> IF p \in {p1, p2} THEN "ref"
                             ELSE IF p = h1 THEN "handler" ELSE "obj"]

MCSymmetry == Permutations(Object) \cup Permutations({p1, p2}) \cup Permutations({q1, q2})
=============================================================================
