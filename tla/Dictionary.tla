----------------------------- MODULE Dictionary -----------------------------
(***************************************************************************)
(* CScriptDictionary, whose values may be of any type, and CScriptAny,     *)
(* which holds one such value.  Numbers and how Get converts them are left *)
(* out.                                                                    *)
(*                                                                         *)
(* A slot is what holds a value: a node of a dictionary's map, or an any.  *)
(* A value may own an object or a reference to one, or to a dictionary or  *)
(* any.  When it is freed the last reference to an object may go, whose    *)
(* destructor is script code that uses the same containers: C++ has read   *)
(* the value before, and writes to the slot after.  What C++ has still to  *)
(* do is `stack`; each of its frames runs without scripts, but for that of *)
(* a destructor.  Constructors and opAssign of objects are taken not to    *)
(* touch containers.                                                       *)
(*                                                                         *)
(* The collector of the engine has a reference to each container, and      *)
(* destroys the container when that is the last one.  The code leaves it   *)
(* to its users that destructors keep off the value that is being freed    *)
(* and insert nothing into a dictionary that is being emptied: a use       *)
(* against that is careless, and nothing is promised after it.             *)
(***************************************************************************)
EXTENDS Integers, Sequences, FiniteSets

CONSTANTS
  Dict,      \* cells for dictionaries
  AnyCell,   \* cells for anys
  Object,    \* cells for objects
  Keys,      \* of each container: one for an any
  Null,      \* the null handle
  MaxDepth,  \* bound: destructors within one another
  MaxHeld    \* bound: handles that scripts have

Container == Dict \cup AnyCell
Thing     == Object \cup Container
Slot      == UNION {{c} \X Keys[c] : c \in Container}

ASSUME CellsAssumption ==
  /\ IsFiniteSet(Thing) /\ Dict \cap AnyCell = {} /\ Object \cap Container = {}
  /\ Null \notin Thing
ASSUME KeysAssumption ==
  /\ \A c \in Container : IsFiniteSet(Keys[c])
  /\ \A c \in AnyCell : Cardinality(Keys[c]) = 1
  /\ Null \notin Slot

VARIABLES
  val,       \* the value of each slot; Gone where the map has no node
  refs,      \* references to each thing; 0 when it is free
  held,      \* what scripts have a handle to
  typeRefs,  \* references that anys have to types
  stack,     \* what C++ has still to do, next first
  careless,  \* ghost: a script or the host was
  fault      \* undefined behaviour, or a failed assertion

vars == <<val, refs, held, typeRefs, stack, careless, fault>>

Gone  == [type |-> "gone", to |-> Null]
(* A number, or no value: nothing to release.                             *)
Empty == [type |-> "none", to |-> Null]

Handle(t) == [type |-> "handle", to |-> t]
Copy(o)   == [type |-> "object", to |-> o]

Owner(s) == s[1]

SlotsOf(c) == {s \in Slot : Owner(s) = c}

Init ==
  /\ val = [s \in Slot |-> Gone]
  /\ refs = [t \in Thing |-> 0]
  /\ held = {} /\ typeRefs = 0
  /\ stack = <<>>
  /\ careless = FALSE /\ fault = "none"

-----------------------------------------------------------------------------
(* Values.                                                                 *)

(* asTYPEID_MASK_OBJECT.                                                   *)
Holds(v) == v.type \in {"handle", "object"}

(* FreeValue, and FreeObject of an any.  Mutant: handles only.             *)
FreeingHandles(s) ==
  IF val[s].type = "handle" THEN <<[do |-> "free", at |-> s]>> ELSE <<>>

Freeing(s) == IF Holds(val[s]) THEN <<[do |-> "free", at |-> s]>> ELSE <<>>

Storing(s, v, from) == <<[do |-> "store", at |-> s, val |-> v, from |-> from]>>

(* DeleteAll: each value is freed, then the nodes go.  Mutant: no value is.*)
WalkingNone(c) == <<[do |-> "clear", of |-> c]>>

Walking(c) ==
  <<[do |-> "walk", of |-> c, todo |-> {s \in SlotsOf(c) : val[s] # Gone}],
    [do |-> "clear", of |-> c]>>

Dying(t) == \E i \in DOMAIN stack : stack[i].do = "destructor" /\ stack[i].of = t

Unused(t) ==
  /\ refs[t] = 0 /\ ~Dying(t)
  /\ \A s \in Slot : val[s].to # t
  /\ \A i \in DOMAIN stack : stack[i].do = "clear" => stack[i].of # t

(* The assertion of the destructor: a node that goes holds nothing.        *)
Destroyed(slots) ==
  IF \E s \in slots : Holds(val[s]) THEN fault' = "held" /\ UNCHANGED val
  ELSE /\ val' = [s \in Slot |-> IF s \in slots THEN Gone ELSE val[s]]
       /\ UNCHANGED fault

-----------------------------------------------------------------------------
(* What C++ does next.                                                     *)

Doing(do) == fault = "none" /\ stack # <<>> /\ Head(stack).do = do

Script == UNCHANGED <<held, careless>>

(* The slot is empty again; the any releases the type of the value, too.  *)
Emptied(s) ==
  /\ val' = [val EXCEPT ![s] = Empty]
  /\ typeRefs' = IF Owner(s) \in AnyCell THEN typeRefs - 1 ELSE typeRefs

(* A value that owns its thing is freed, a destructor running in between   *)
(* when that was the last reference.                                       *)
Free ==
  LET s == Head(stack).at  t == val[s].to IN
  /\ Doing("free")
  /\ IF t = Null
     THEN Emptied(s) /\ stack' = Tail(stack) /\ UNCHANGED <<refs, fault>>
     ELSE IF refs[t] = 0
     THEN fault' = "dead" /\ UNCHANGED <<val, typeRefs, refs, stack>>
     ELSE /\ refs' = [refs EXCEPT ![t] = @ - 1]
          /\ IF refs[t] > 1 THEN Emptied(s) /\ stack' = Tail(stack)
             ELSE /\ stack' = <<[do |-> "destructor", of |-> t],
                                [do |-> "cleared", at |-> s]>> \o Tail(stack)
                  /\ UNCHANGED <<val, typeRefs>>
          /\ UNCHANGED fault
  /\ Script

DestructorReturns ==
  /\ Doing("destructor")
  /\ stack' = Tail(stack)
  /\ UNCHANGED <<val, refs, typeRefs, fault>> /\ Script

(* The rest of FreeValue and FreeObject, when the destructor has run.      *)
Cleared ==
  LET s == Head(stack).at IN
  /\ Doing("cleared")
  /\ IF val[s] = Gone THEN fault' = "freed" /\ UNCHANGED <<val, typeRefs>>
     ELSE Emptied(s) /\ UNCHANGED fault
  /\ stack' = Tail(stack)
  /\ UNCHANGED refs /\ Script

(* The rest of Set, Store and operator= of an any: the value is written,   *)
(* which is a reference to what a handle points at or a copy of an object. *)
(* It is read where the caller has it only now.                            *)
Store ==
  LET f == Head(stack)  s == f.at
      v == IF f.from = s /\ f.val.type = "handle" THEN Handle(Null) ELSE f.val
  IN
  /\ Doing("store")
  /\ IF val[s] = Gone \/ (f.from \in Slot /\ val[f.from] = Gone)
     THEN fault' = "freed" /\ UNCHANGED <<val, refs>>
     ELSE IF Holds(v) /\ v.to # Null /\ refs[v.to] = 0
     THEN fault' = "dead" /\ UNCHANGED <<val, refs>>
     ELSE /\ UNCHANGED fault
          /\ IF v.type = "object"
             THEN \E o \in Object :
                    /\ Unused(o)
                    /\ val' = [val EXCEPT ![s] = Copy(o)]
                    /\ refs' = [refs EXCEPT ![o] = 1]
             ELSE /\ val' = [val EXCEPT ![s] = v]
                  /\ refs' = IF Holds(v) /\ v.to # Null
                             THEN [refs EXCEPT ![v.to] = @ + 1] ELSE refs
  /\ stack' = Tail(stack)
  /\ UNCHANGED typeRefs /\ Script

(* The rest of Delete.                                                     *)
Erase ==
  LET s == Head(stack).at IN
  /\ Doing("erase")
  /\ IF val[s] = Gone THEN fault' = "freed" /\ UNCHANGED val ELSE Destroyed({s})
  /\ stack' = Tail(stack)
  /\ UNCHANGED <<refs, typeRefs>> /\ Script

(* The loop of DeleteAll, in the order of the map, which is a hash map.    *)
Walk ==
  LET f == Head(stack)  todo == {s \in f.todo : val[s] # Gone} IN
  /\ Doing("walk")
  /\ IF todo = {} THEN stack' = Tail(stack)
     ELSE \E s \in todo :
            stack' = Freeing(s) \o <<[f EXCEPT !.todo = todo \ {s}]>> \o Tail(stack)
  /\ UNCHANGED <<val, refs, typeRefs, fault>> /\ Script

(* dict.clear(), or the end of the container.                              *)
Clear ==
  /\ Doing("clear")
  /\ Destroyed(SlotsOf(Head(stack).of))
  /\ stack' = Tail(stack)
  /\ UNCHANGED <<refs, typeRefs>> /\ Script

(* operator= of a dictionary, when the old values are gone: objects are    *)
(* copied, handles are shared.                                             *)
CopyAll ==
  LET f == Head(stack)
      Source(s) == val[<<f.from, s[2]>>]
      filled == {s \in SlotsOf(f.of) : <<f.from, s[2]>> \in Slot}
      copied == {s \in filled : Source(s).type = "object"}
  IN
  /\ Doing("assign")
  /\ \E new \in [copied -> {o \in Object : Unused(o)}] :
       /\ \A s, t \in copied : new[s] = new[t] => s = t
       /\ val' = [s \in Slot |-> IF s \in copied THEN Copy(new[s])
                                 ELSE IF s \in filled THEN Source(s) ELSE val[s]]
       /\ refs' = [t \in Thing |-> refs[t]
                     + Cardinality({s \in copied : new[s] = t})
                     + Cardinality({s \in filled : Source(s) = Handle(t)})]
  /\ stack' = Tail(stack)
  /\ UNCHANGED <<typeRefs, fault>> /\ Script

Continues ==
  \/ Free \/ DestructorReturns \/ Cleared \/ Store \/ Erase
  \/ Walk \/ Clear \/ CopyAll

-----------------------------------------------------------------------------
(* What a call disturbs.                                                   *)

(* Values that are being freed: they still point at what may be dying.     *)
Freed == {stack[i].at : i \in {j \in DOMAIN stack : stack[j].do = "cleared"}}

(* Slots that C++ comes back to.                                           *)
Busy ==
  Freed \cup {stack[i].at : i \in {j \in DOMAIN stack : stack[j].do \in {"store", "erase"}}}
        \cup ({stack[i].from : i \in {j \in DOMAIN stack : stack[j].do = "store"}} \cap Slot)

Walks(f, c) == f.do = "walk" /\ f.of = c

(* A dictionary that is being emptied takes no new nodes, and its nodes no *)
(* new values behind the loop: it may be past them.                        *)
Past(s) ==
  \E i \in DOMAIN stack :
    Walks(stack[i], Owner(s)) /\ (val[s] = Gone \/ s \notin stack[i].todo)

(* What C++ has still to do when there is a node for s: one that is made   *)
(* may have any place in the map, ahead of a loop over it or behind, and   *)
(* may have the others placed anew.                                        *)
Placed(s) ==
  LET walks(f) == Walks(f, Owner(s))
      nodes == {n \in SlotsOf(Owner(s)) : n = s \/ val[n] # Gone} IN
  IF val[s] # Gone \/ \A i \in DOMAIN stack : ~walks(stack[i]) THEN {stack}
  ELSE {[i \in DOMAIN stack |->
           IF walks(stack[i]) THEN [stack[i] EXCEPT !.todo = ahead] ELSE stack[i]] :
          ahead \in SUBSET nodes}

Clearing(c) == \E i \in DOMAIN stack : stack[i].do = "clear" /\ stack[i].of = c

(* What a call in progress uses: the engine has a reference to it.         *)
InUse(t) ==
  \E i \in DOMAIN stack :
    LET f == stack[i] IN
    \/ f.do \in {"free", "cleared", "store", "erase"} /\ Owner(f.at) = t
    \/ f.do = "store" /\ (f.val.to = t \/ (f.from \in Slot /\ Owner(f.from) = t))
    \/ f.do \in {"walk", "clear", "assign"} /\ f.of = t
    \/ f.do = "assign" /\ f.from = t

-----------------------------------------------------------------------------
(* What scripts and hosts call.                                            *)

Destructors == {i \in DOMAIN stack : stack[i].do = "destructor"}

Acts ==
  /\ fault = "none" /\ ~careless
  /\ stack # <<>> => Head(stack).do = "destructor"
  /\ Cardinality(Destructors) <= MaxDepth

Does(frames) == stack' = frames \o stack

CarelessIf(cond) == careless' = cond

(* Arguments: numbers, handles, and objects that scripts have.             *)
Arguments ==
  {Empty} \cup {Handle(t) : t \in held}
    \cup {Copy(o) : o \in held \cap Object}

(* Init of a dictionary with the reference of the caller and that of the   *)
(* collector, empty or filled from a list.                                 *)
NewDictionary(c, s, v) ==
  /\ Unused(c) /\ Cardinality(held) < MaxHeld
  /\ held' = held \cup {c}
  /\ refs' = [refs EXCEPT ![c] = 2]
  /\ IF s \in SlotsOf(c)
     THEN val' = [val EXCEPT ![s] = Empty] /\ Does(Storing(s, v, Null))
     ELSE UNCHANGED <<val, stack>>
  /\ UNCHANGED <<typeRefs, careless, fault>>

NewAny(c, v) ==
  /\ Unused(c) /\ Cardinality(held) < MaxHeld
  /\ held' = held \cup {c}
  /\ refs' = [refs EXCEPT ![c] = 2]
  /\ \E s \in SlotsOf(c) :
       val' = [val EXCEPT ![s] = Empty] /\ Does(Storing(s, v, Null))
  /\ typeRefs' = IF Holds(v) THEN typeRefs + 1 ELSE typeRefs
  /\ UNCHANGED <<careless, fault>>

NewObject(o) ==
  /\ Unused(o) /\ Cardinality(held) < MaxHeld
  /\ held' = held \cup {o}
  /\ refs' = [refs EXCEPT ![o] = 1]
  /\ UNCHANGED <<val, typeRefs, stack, careless, fault>>

DropHandle(t) ==
  /\ t \in held /\ ~InUse(t)
  /\ held' = held \ {t}
  /\ refs' = [refs EXCEPT ![t] = @ - 1]
  /\ Does(IF refs[t] = 1 THEN <<[do |-> "destructor", of |-> t]>> ELSE <<>>)
  /\ UNCHANGED <<val, typeRefs, careless, fault>>

(* Dictionary Set, opAssign of a value, Store of an any, which adds a      *)
(* reference to the type first.  The node is made if there is none.        *)
SetTo(s, v, from) ==
  /\ val' = IF val[s] = Gone THEN [val EXCEPT ![s] = Empty] ELSE val
  /\ \E rest \in Placed(s) : stack' = Freeing(s) \o Storing(s, v, from) \o rest
  /\ typeRefs' = IF Owner(s) \in AnyCell /\ Holds(v) THEN typeRefs + 1 ELSE typeRefs
  /\ UNCHANGED <<refs, held, fault>>

Set(s, v) ==
  /\ Owner(s) \in held
  /\ CarelessIf(s \in Busy \/ Past(s))
  /\ SetTo(s, v, Null)

(* The value of another slot: opAssign of a dictionary value, operator= of *)
(* an any.  A value that is assigned to itself is freed before it is read. *)
SetFrom(s, t) ==
  /\ {Owner(s), Owner(t)} \subseteq held
  /\ val[t] # Gone /\ (Owner(s) \in AnyCell <=> Owner(t) \in AnyCell)
  /\ CarelessIf(s \in Busy \/ Past(s) \/ t \in Freed \/ (s = t /\ Holds(val[t])))
  /\ SetTo(s, val[t], t)

(* operator[]: the node is made if there is none.                          *)
Index(s) ==
  /\ Owner(s) \in held \cap Dict /\ val[s] = Gone
  /\ CarelessIf(Past(s))
  /\ val' = [val EXCEPT ![s] = Empty]
  /\ stack' \in Placed(s)
  /\ UNCHANGED <<refs, held, typeRefs, fault>>

(* Get and Retrieve of a handle, when the types fit: RefCastObject adds a  *)
(* reference.                                                              *)
GetHandle(s) ==
  LET t == val[s].to IN
  /\ Owner(s) \in held
  /\ Holds(val[s]) /\ t \notin held \cup {Null} /\ Cardinality(held) < MaxHeld
  /\ CarelessIf(s \in Freed)
  /\ IF refs[t] = 0 THEN fault' = "dead" /\ UNCHANGED <<refs, held>>
     ELSE /\ refs' = [refs EXCEPT ![t] = @ + 1]
          /\ held' = held \cup {t}
          /\ UNCHANGED fault
  /\ UNCHANGED <<val, typeRefs, stack>>

Delete(s) ==
  /\ Owner(s) \in held \cap Dict /\ val[s] # Gone
  /\ CarelessIf(s \in Busy)
  /\ Does(Freeing(s) \o <<[do |-> "erase", at |-> s]>>)
  /\ UNCHANGED <<val, refs, held, typeRefs, fault>>

DisturbedBy(c) == Clearing(c) \/ SlotsOf(c) \cap Busy # {}

DeleteAll(c) ==
  /\ c \in held \cap Dict
  /\ CarelessIf(DisturbedBy(c))
  /\ Does(Walking(c))
  /\ UNCHANGED <<val, refs, held, typeRefs, fault>>

(* operator= of a dictionary, also to itself, which empties it.            *)
Assign(c, d) ==
  /\ {c, d} \subseteq held \cap Dict
  /\ CarelessIf(DisturbedBy(c) \/ SlotsOf(d) \cap Freed # {})
  /\ Does(Walking(c) \o <<[do |-> "assign", of |-> c, from |-> d]>>)
  /\ UNCHANGED <<val, refs, held, typeRefs, fault>>

-----------------------------------------------------------------------------
(* The collector.                                                          *)

(* What EnumReferences reports of the containers of a set.                 *)
Enumerated(set, t) ==
  Cardinality({s \in Slot : Owner(s) \in set /\ Holds(val[s]) /\ val[s].to = t})

(* References to each of a set come from the collector and from the set.   *)
Garbage(set) ==
  \A c \in set : refs[c] > 0 /\ refs[c] = 1 + Enumerated(set, c)

(* ReleaseAllReferences and ReleaseAllHandles, called for garbage that     *)
(* refers to garbage.                                                      *)
Collect(c) ==
  /\ ~InUse(c) /\ refs[c] > 1
  /\ \E set \in SUBSET Container : c \in set /\ Garbage(set)
  /\ Does(IF c \in Dict THEN Walking(c) ELSE Freeing(CHOOSE s \in SlotsOf(c) : TRUE))
  /\ UNCHANGED <<val, refs, held, typeRefs, careless, fault>>

(* The last reference: the destructor.                                     *)
Sweep(c) ==
  /\ ~InUse(c) /\ refs[c] = 1
  /\ refs' = [refs EXCEPT ![c] = 0]
  /\ Does(IF c \in Dict THEN Walking(c)
          ELSE Freeing(CHOOSE s \in SlotsOf(c) : TRUE) \o <<[do |-> "clear", of |-> c]>>)
  /\ UNCHANGED <<val, held, typeRefs, careless, fault>>

-----------------------------------------------------------------------------
Calls ==
  \/ \E c \in Dict, v \in Arguments : \E s \in SlotsOf(c) \cup {Null} : NewDictionary(c, s, v)
  \/ \E c \in AnyCell, v \in Arguments : NewAny(c, v)
  \/ \E o \in Object : NewObject(o)
  \/ \E t \in held : DropHandle(t)
  \/ \E s \in Slot :
       \/ \E v \in Arguments : Set(s, v)
       \/ \E t \in Slot : SetFrom(s, t)
       \/ Index(s) \/ GetHandle(s) \/ Delete(s)
  \/ \E c \in Dict : DeleteAll(c) \/ \E d \in Dict : Assign(c, d)
  \/ \E c \in Container : Collect(c) \/ Sweep(c)

Next == Continues \/ (Acts /\ Calls)

Spec == Init /\ [][Next]_vars

-----------------------------------------------------------------------------
(* Properties.                                                             *)

(* Every thing has as many references as scripts, values and the collector *)
(* have to it, and every type as many as anys hold values of it, at any    *)
(* point of any operation, whatever destructors do that keep off the value *)
(* being freed and put nothing where the loop of DeleteAll may not find    *)
(* it: nothing is leaked, and nothing is released twice.                   *)
RefsBalanced ==
  fault = "none" /\ ~careless =>
    /\ \A t \in Thing :
         refs[t] = (IF t \in held THEN 1 ELSE 0)
                     + (IF t \in Container /\ refs[t] > 0 THEN 1 ELSE 0)
                     + Cardinality({s \in Slot \ Freed : Holds(val[s]) /\ val[s].to = t})
    /\ typeRefs = Cardinality({s \in Slot : Owner(s) \in AnyCell /\ Holds(val[s])})
                    + Cardinality({i \in DOMAIN stack :
                                     /\ stack[i].do = "store" /\ Holds(stack[i].val)
                                     /\ Owner(stack[i].at) \in AnyCell})

(* Nothing else than a careless destructor, or a value assigned to itself, *)
(* makes the code use a node that was erased or an object that was         *)
(* deleted, or destroy a value that holds an object, which its destructor  *)
(* asserts never to happen.                                                *)
FaultHasCause == fault # "none" => careless
=============================================================================
