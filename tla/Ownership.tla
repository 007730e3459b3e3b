------------------------------ MODULE Ownership -----------------------------
(***************************************************************************)
(* What reference counting promises, without counts: an object lives from  *)
(* its creation to the step in which its last owner lets go of it, and no  *)
(* longer.  Owners are pointers and loose references: those that somebody  *)
(* has outside of pointers and must release.                               *)
(*                                                                         *)
(* Nothing is promised once the objects or pointers have been misused.     *)
(***************************************************************************)
EXTENDS Integers

CONSTANTS Object, Pointer, Null

VARIABLES
  own,     \* the object each pointer owns
  loose,   \* loose references to each object
  live,    \* objects that exist
  misused

vars == <<own, loose, live, misused>>

Owned(o) == loose[o] > 0 \/ \E p \in Pointer : own[p] = o

Init ==
  /\ own = [p \in Pointer |-> Null]
  /\ loose = [o \in Object |-> 0]
  /\ live = {}
  /\ misused = FALSE

(* Objects without an owner are gone.                                      *)
Survive == live' = {o \in live : Owned(o)'}

Create(o) ==
  /\ o \notin live
  /\ loose' = [loose EXCEPT ![o] = 1]
  /\ live' = live \cup {o}
  /\ UNCHANGED own

Share(o) ==
  /\ o \in live
  /\ loose' = [loose EXCEPT ![o] = @ + 1]
  /\ UNCHANGED <<own, live>>

Drop(o) ==
  /\ loose[o] > 0
  /\ loose' = [loose EXCEPT ![o] = @ - 1]
  /\ UNCHANGED own
  /\ Survive

(* A pointer lets go of what it owns, and becomes one of the owners of a   *)
(* living object, or of none.                                              *)
Point(p, x) ==
  /\ x \in live \cup {Null}
  /\ own' = [own EXCEPT ![p] = x]
  /\ UNCHANGED loose
  /\ Survive

(* It takes over a loose reference.                                        *)
Take(p, x) ==
  /\ loose[x] > 0
  /\ loose' = [loose EXCEPT ![x] = @ - 1]
  /\ own' = [own EXCEPT ![p] = x]
  /\ Survive

(* It takes over what another pointer owns.                                *)
Move(p, q) ==
  /\ own' = [own EXCEPT ![p] = own[q], ![q] = Null]
  /\ UNCHANGED loose
  /\ Survive

(* It gives what it owns to the caller.                                    *)
Give(p) ==
  /\ own[p] # Null
  /\ own' = [own EXCEPT ![p] = Null]
  /\ loose' = [loose EXCEPT ![own[p]] = @ + 1]
  /\ UNCHANGED live

Owners ==
  \/ \E o \in Object : Create(o) \/ Share(o) \/ Drop(o)
  \/ \E p \in Pointer, x \in Object \cup {Null} : Point(p, x)
  \/ \E p \in Pointer, x \in Object : Take(p, x)
  \/ \E p, q \in Pointer : p # q /\ Move(p, q)
  \/ \E p \in Pointer : Give(p)

Next == misused' \/ (~misused /\ ~misused' /\ Owners)

Spec == Init /\ [][Next]_vars
=============================================================================
