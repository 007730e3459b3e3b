---------------------------- MODULE DictionaryMC ----------------------------
(***************************************************************************)
(* Two dictionaries, of two keys and of one, an any and two objects.       *)
(***************************************************************************)
EXTENDS Dictionary, TLC

CONSTANTS d1, d2, a1, k1, k2

MCKeys == (d1 :> {k1, k2}) @@ (d2 :> {k1}) @@ (a1 :> {k1})

Symmetry == Permutations(Object)
=============================================================================
