------------------------------- MODULE Pointers -----------------------------
(***************************************************************************)
(* Pointers that count references: CASRefPtr over as::SetRefPointer,       *)
(* CASObjPtr over as::SetObjPointer, and the result handler of a context.  *)
(*                                                                         *)
(* The release of a last reference runs a destructor, which may be a       *)
(* script's and may use any pointer.  If a pointer is being assigned at    *)
(* that time, it still points at the object that dies: the assignment goes *)
(* on when the destructor is done, and may find that what it was to assign *)
(* is gone.  The code leaves it to its users that neither happens: a use   *)
(* against that is careless, and nothing is promised after it.             *)
(*                                                                         *)
(* The type info of a CASObjPtr, kept alive by its engine, is left out.    *)
(***************************************************************************)
EXTENDS Integers, Sequences, FiniteSets

CONSTANTS
  Object,   \* cells for objects
  Pointer,  \* cells for pointers: null before they are constructed
  Kind,     \* of each: "ref", "obj" or "handler"
  Null,     \* the null pointer, or no pointer
  MaxLoose, \* bound: loose references to an object
  MaxDepth  \* bound: destructors within one another

ASSUME PointerAssumption ==
  /\ IsFiniteSet(Pointer)
  /\ Kind \in [Pointer -> {"ref", "obj", "handler"}]
  /\ Null \notin Object \cup Pointer
  /\ MaxLoose \in Nat

VARIABLES
  ptr,      \* what each pointer points at
  refs,     \* references to each object; 0 when the cell is free
  loose,    \* ghost: references that somebody has outside of pointers
  leaked,   \* ghost: references that nobody has
  at,       \* the assignment in progress of each pointer
  stack,    \* pointers being assigned, while a destructor runs; innermost first
  careless, \* ghost: the host or a script was
  fault     \* a deleted object was used

vars == <<ptr, refs, loose, leaked, at, stack, careless, fault>>

Idle == [how |-> "idle", to |-> Null, src |-> Null]

Init ==
  /\ ptr = [p \in Pointer |-> Null]
  /\ refs = [o \in Object |-> 0]
  /\ loose = [o \in Object |-> 0]
  /\ leaked = [o \in Object |-> 0]
  /\ at = [p \in Pointer |-> Idle]
  /\ stack = <<>>
  /\ careless = FALSE /\ fault = FALSE

-----------------------------------------------------------------------------
(* What a pointer owns: nothing while the destructor of what it owned runs.*)
Owns(p) == IF at[p] = Idle THEN ptr[p] ELSE Null

Assigned == {p \in Pointer : at[p] # Idle}

Busy == Assigned \cup {at[p].src : p \in Assigned}

InFlight == {at[p].to : p \in Assigned} \ {Null}

Acts == ~careless /\ ~fault /\ Len(stack) < MaxDepth

CarelessIf(cond) == careless' = cond

Crashes == fault' = TRUE /\ UNCHANGED <<ptr, refs, loose>>

(* What the pointers point at, and the counts, after an assignment of x.   *)
(* Mutants: the pointer that was moved from keeps its object; a reference  *)
(* that is taken over is added to.                                         *)
PointedShared(p, f, x) == [ptr EXCEPT ![p] = x]

Pointed(p, f, x) ==
  [r \in Pointer |-> IF r = p THEN x
                     ELSE IF f.how = "move" /\ r = f.src THEN Null ELSE ptr[r]]

ReferencedTwice(f, x, counts) ==
  [o \in Object |-> IF f.how # "move" /\ o = x THEN counts[o] + 1 ELSE counts[o]]

Referenced(f, x, counts) ==
  [o \in Object |-> IF f.how = "add" /\ o = x THEN counts[o] + 1 ELSE counts[o]]

(* The end of an assignment, when the old object has been released: the    *)
(* new one gets a reference, or the one it had before is taken over, that  *)
(* of another pointer with "move".  CASObjPtr reads the other pointer      *)
(* only now, CASRefPtr has read it before.                                 *)
Completes(p, f, counts) ==
  LET x == IF f.src # Null /\ Kind[p] = "obj" THEN ptr[f.src] ELSE f.to IN
  IF x # Null /\ counts[x] = 0 THEN Crashes
  ELSE /\ refs' = Referenced(f, x, counts)
       /\ ptr' = Pointed(p, f, x)
       /\ loose' = IF f.how = "take" /\ loose[x] > 0
                   THEN [loose EXCEPT ![x] = @ - 1] ELSE loose
       /\ UNCHANGED fault

(* An assignment: the old object is released first.                        *)
Assign(p, f) ==
  LET o == ptr[p] IN
  /\ UNCHANGED leaked
  /\ IF o = Null
     THEN Completes(p, f, refs) /\ UNCHANGED <<at, stack>>
     ELSE IF refs[o] = 0
     THEN Crashes /\ UNCHANGED <<at, stack>>
     ELSE IF refs[o] = 1
     THEN /\ refs' = [refs EXCEPT ![o] = 0]
          /\ at' = [at EXCEPT ![p] = f]
          /\ stack' = <<p>> \o stack
          /\ UNCHANGED <<ptr, loose, fault>>
     ELSE /\ Completes(p, f, [refs EXCEPT ![o] = @ - 1])
          /\ UNCHANGED <<at, stack>>

(* It is careless to assign to a pointer that an assignment in progress    *)
(* uses, or to release an object that one is about to assign.              *)
Disturbs(p) == p \in Busy \/ ptr[p] \in InFlight

(* The destructor is done.                                                 *)
DestructorReturns ==
  /\ ~fault /\ stack # <<>>
  /\ LET p == Head(stack) IN
     /\ Completes(p, at[p], refs)
     /\ at' = [at EXCEPT ![p] = Idle]
  /\ stack' = Tail(stack)
  /\ UNCHANGED <<leaked, careless>>

-----------------------------------------------------------------------------
(* Operations of pointers.                                                 *)

(* Set of an object that the caller has a pointer or loose reference to.   *)
(* It is careless to set a pointer to what it alone keeps alive.           *)
Set(p, x) ==
  /\ Acts
  /\ Kind[p] # "handler"
  /\ x # Null => loose[x] > 0 \/ \E q \in Pointer : ptr[q] = x /\ at[q] = Idle
  /\ CarelessIf(Disturbs(p) \/ (x # Null /\ ptr[p] = x /\ refs[x] = 1))
  /\ Assign(p, [how |-> "add", to |-> x, src |-> Null])

(* Set with bTransferOwnership.  It is careless to hand over an object     *)
(* that an assignment in progress is about to use.                         *)
SetOwned(p, x) ==
  /\ Acts
  /\ Kind[p] # "handler" /\ loose[x] > 0
  /\ CarelessIf(Disturbs(p) \/ x \in InFlight)
  /\ Assign(p, [how |-> "take", to |-> x, src |-> Null])

(* operator= of an object: nothing is done if it is that of the pointer.   *)
AssignObject(p, x) == Kind[p] = "ref" /\ ptr[p] # x /\ Set(p, x)

(* Copy constructors and assignments.                                      *)
Copy(p, q) ==
  /\ Acts
  /\ p # q /\ Kind[p] = Kind[q] /\ Kind[p] # "handler"
  /\ CarelessIf(\/ Disturbs(p) \/ at[q] # Idle
                \/ Kind[p] = "obj" /\ q \in Busy)
  /\ Assign(p, IF Kind[p] = "obj" THEN [how |-> "add", to |-> Null, src |-> q]
               ELSE [how |-> "add", to |-> ptr[q], src |-> Null])

(* Move constructors and assignments.                                      *)
Move(p, q) ==
  /\ Acts
  /\ p # q /\ Kind[p] = Kind[q] /\ Kind[p] # "handler"
  /\ CarelessIf(Disturbs(p) \/ q \in Busy)
  /\ Assign(p, [how |-> "move", to |-> IF Kind[p] = "obj" THEN Null ELSE ptr[q],
                src |-> q])

(* Reset, and the destructor.                                              *)
Reset(p) == ptr[p] # Null /\ Set(p, Null)

(* The caller gets the reference.  It is careless to take it from a        *)
(* pointer that is being assigned.                                         *)
ReleaseOwnership(p) ==
  /\ Acts
  /\ Kind[p] # "handler" /\ ptr[p] # Null
  /\ loose[ptr[p]] + leaked[ptr[p]] < MaxLoose
  /\ CarelessIf(p \in Busy)
  /\ loose' = [loose EXCEPT ![ptr[p]] = @ + 1]
  /\ ptr' = [ptr EXCEPT ![p] = Null]
  /\ UNCHANGED <<refs, leaked, at, stack, fault>>

(* The new handler gets a reference before the old one is released.        *)
SetContextResultHandler(p, h) ==
  /\ Acts
  /\ Kind[p] = "handler"
  /\ h # Null => loose[h] > 0 \/ \E q \in Pointer : ptr[q] = h /\ at[q] = Idle
  /\ CarelessIf(ptr[p] # Null /\ ptr[p] # h /\ ptr[p] \in InFlight)
  /\ refs' = [o \in Object |-> refs[o] + (IF o = h THEN 1 ELSE 0)
                                 - (IF o = ptr[p] THEN 1 ELSE 0)]
  /\ ptr' = [ptr EXCEPT ![p] = h]
  /\ UNCHANGED <<loose, leaked, at, stack, fault>>

-----------------------------------------------------------------------------
(* Objects.                                                                *)

(* CreateObjectInstance.                                                   *)
Create(o) ==
  /\ Acts
  /\ refs[o] = 0 /\ \A p \in Pointer : ptr[p] # o
  /\ refs' = [refs EXCEPT ![o] = 1]
  /\ loose' = [loose EXCEPT ![o] = 1]
  /\ UNCHANGED <<ptr, leaked, at, stack, careless, fault>>

DropReference(o) ==
  /\ Acts
  /\ loose[o] > 0
  /\ CarelessIf(o \in InFlight)
  /\ refs' = [refs EXCEPT ![o] = @ - 1]
  /\ loose' = [loose EXCEPT ![o] = @ - 1]
  /\ UNCHANGED <<ptr, leaked, at, stack, fault>>

(* Cast_UpCast_Ref and Cast_DownCast_Ref.  The caller gets a reference, or *)
(* null when the downcast fails: the object keeps the reference it got.    *)
Cast(o, fails) ==
  /\ Acts
  /\ loose[o] > 0 /\ loose[o] + leaked[o] < MaxLoose
  /\ refs' = [refs EXCEPT ![o] = @ + 1]
  /\ IF fails THEN leaked' = [leaked EXCEPT ![o] = @ + 1] /\ UNCHANGED loose
     ELSE loose' = [loose EXCEPT ![o] = @ + 1] /\ UNCHANGED leaked
  /\ UNCHANGED <<ptr, at, stack, careless, fault>>

Next ==
  \/ DestructorReturns
  \/ \E p \in Pointer, x \in Object :
       Set(p, x) \/ SetOwned(p, x) \/ AssignObject(p, x)
  \/ \E p \in Pointer, x \in Object \cup {Null} : SetContextResultHandler(p, x)
  \/ \E p, q \in Pointer : Copy(p, q) \/ Move(p, q)
  \/ \E p \in Pointer : Reset(p) \/ ReleaseOwnership(p)
  \/ \E o \in Object : Create(o) \/ DropReference(o)
  \/ \E o \in Object, fails \in BOOLEAN : Cast(o, fails)

Spec == Init /\ [][Next]_vars

-----------------------------------------------------------------------------
(* Properties.                                                             *)

Assignment ==
  [how: {"idle", "add", "take", "move"}, to: Object \cup {Null},
   src: Pointer \cup {Null}]

TypeOK ==
  /\ ptr \in [Pointer -> Object \cup {Null}]
  /\ refs \in [Object -> Nat] /\ loose \in [Object -> Nat]
  /\ leaked \in [Object -> Nat]
  /\ at \in [Pointer -> Assignment]
  /\ stack \in Seq(Pointer)
  /\ careless \in BOOLEAN /\ fault \in BOOLEAN

PointersTo(o) == {p \in Pointer : Owns(p) = o}

(* Unless somebody was careless, an object has as many references as       *)
(* pointers own it and others have to it, destructors that use pointers in *)
(* the middle of an assignment included.                                   *)
RefsBalanced ==
  ~careless =>
    \A o \in Object : refs[o] = loose[o] + leaked[o] + Cardinality(PointersTo(o))

(* Nor is a deleted object used.                                           *)
NoFault == ~careless => ~fault

(* The counts implement ownership: every object lives until its last owner *)
(* lets go of it, and no longer.  A leaked reference is one that somebody  *)
(* should have.                                                            *)
Owning == INSTANCE Ownership WITH
  own <- [p \in Pointer |-> Owns(p)],
  loose <- [o \in Object |-> loose[o] + leaked[o]],
  live <- {o \in Object : refs[o] > 0},
  misused <- careless

Implements == Owning!Spec
=============================================================================
