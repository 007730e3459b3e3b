-------------------------------- MODULE HostMC ------------------------------
(* Two managers; events Main, Cat::Turn and Cat::Main of two access bits,  *)
(* in namespace Events.                                                    *)
EXTENDS Host, TLC

CONSTANTS e1, e2, e3, m1, m2, a1, a2

MCSymbol == {"::", "Events", "Cat", "Main", "Turn"}

MCCategory == [e \in Event |-> IF e = e1 THEN <<>> ELSE <<"Cat">>]

MCName == [e \in Event |-> IF e = e2 THEN <<"Turn">> ELSE <<"Main">>]

MCMask == [e \in Event |-> IF e = e1 THEN {1, 2} ELSE {2}]

MCNamespace == <<"Events">>

MCScriptMask == {{1}, {2}}

MCSymmetry == Permutations(Manager) \cup Permutations(Argument)
=============================================================================
