------------------------------ MODULE EventsMC ------------------------------
(* Values of the constants of Events: three functions, two of them of one   *)
(* module, the third of another.                                            *)
EXTENDS Events

CONSTANTS e1, e2, f1, f2, f3, m1, m2

(* f1 and f3 are of m1, f2 is of m2. *)
MCModuleOf == [f \in Function |-> IF f = f2 THEN m2 ELSE m1]

(* m1 goes before m2. *)
MCRank == [m \in Module |-> IF m = m1 THEN 1 ELSE 2]
=============================================================================
