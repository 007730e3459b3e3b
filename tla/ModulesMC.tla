----------------------------- MODULE ModulesMC -----------------------------
(* Values of the constants of Modules: three descriptors, two of them of   *)
(* one priority, and identifiers for two.                                  *)
EXTENDS Modules, TLC

CONSTANTS d1, d2, d3, n1, n2, m1, m2, s1, s2, s3, u1

MCDescriptor == {d1, d2, d3}

(* d2 goes before the others. *)
MCPriority == [d \in MCDescriptor |-> IF d = d2 THEN 1 ELSE 0]

Symmetry ==
  Permutations(Name) \cup Permutations(Module) \cup Permutations(Script)
    \cup Permutations({d1, d3})
=============================================================================
