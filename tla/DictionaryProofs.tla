-------------------------- MODULE DictionaryProofs --------------------------
(***************************************************************************)
(* Proofs about Dictionary: for any dictionaries, anys and objects, and    *)
(* destructors that use them while values are freed, to any depth.         *)
(***************************************************************************)
EXTENDS Dictionary, FiniteSetTheorems, TLAPS

-----------------------------------------------------------------------------
(* Types.                                                                  *)

Values ==
  {v \in [type : {"gone", "none", "handle", "object"}, to : Thing \cup {Null}] :
     /\ v.type \in {"gone", "none"} => v.to = Null
     /\ v.type = "object" => v.to \in Object}

Frames ==
  [do : {"free", "cleared", "erase"}, at : Slot]
    \cup [do : {"store"}, at : Slot, val : Values, from : Slot \cup {Null}]
    \cup [do : {"destructor"}, of : Thing]
    \cup [do : {"walk"}, of : Dict, todo : SUBSET Slot]
    \cup [do : {"clear"}, of : Container]
    \cup [do : {"assign"}, of : Dict, from : Dict]

Types ==
  /\ val \in [Slot -> Values] /\ refs \in [Thing -> Nat] /\ held \subseteq Thing
  /\ typeRefs \in Int /\ stack \in Seq(Frames)

-----------------------------------------------------------------------------
(* What holds between steps.                                               *)

Frees(f) == f.do \in {"free", "cleared"}

(* What a frame relies on, wherever it is.                                 *)
Sound(f, v, handles) ==
  /\ Frees(f) => Holds(v[f.at])
  /\ f.do = "store" =>
       /\ v[f.at] # Gone /\ Owner(f.at) \in handles /\ f.val # Gone
       /\ f.from \in Slot => v[f.from] = f.val
       /\ f.from = f.at => ~Holds(f.val)
       /\ f.from = Null /\ Holds(f.val) => f.val.to \in handles
  /\ f.do = "erase" => v[f.at] # Gone
  /\ f.do = "walk" => f.todo \subseteq SlotsOf(f.of)
  /\ f.do = "assign" => f.of \in handles

(* What the frame that is next relies on.                                  *)
Ready(f, v) ==
  /\ f.do \in {"store", "erase"} => ~Holds(v[f.at])
  /\ f.do = "walk" => \A s \in SlotsOf(f.of) : Holds(v[s]) => s \in f.todo
  /\ f.do = "clear" => \A s \in SlotsOf(f.of) : ~Holds(v[s])
  /\ f.do = "assign" => \A s \in SlotsOf(f.of) : v[s] = Gone

(* A frame and the one before it, after which it will be ready.            *)
Precedes(f, g, v) ==
  /\ g.do # "free"
  /\ g.do = "cleared" => f.do = "destructor"
  /\ g.do \in {"store", "erase"} => Frees(f) /\ f.at = g.at
  /\ g.do = "walk" =>
       /\ Frees(f) /\ Owner(f.at) = g.of
       /\ \A s \in SlotsOf(g.of) : Holds(v[s]) => s \in g.todo \/ s = f.at
  /\ g.do = "clear" =>
       IF g.of \in Dict THEN f.do = "walk" /\ f.of = g.of
       ELSE Frees(f) /\ Owner(f.at) = g.of
  /\ g.do = "assign" => f.do = "clear" /\ f.of = g.of
  /\ f.do = "walk" => g.do = "clear" /\ g.of = f.of

(* A frame keeps off what those after it rely on.                          *)
KeepsOff(f, s) ==
  /\ Frees(f) \/ f.do \in {"store", "erase"} => f.at # s
  /\ f.do \in {"walk", "clear", "assign"} => Owner(s) # f.of

Apart(f, g) ==
  /\ g.do = "cleared" =>
       /\ KeepsOff(f, g.at)
       /\ f.do = "store" => f.from # g.at
       /\ f.do = "assign" => Owner(g.at) # f.from
  /\ g.do = "store" /\ g.from \in Slot => KeepsOff(f, g.from)
  /\ g.do = "walk" =>
       /\ f.do = "store" /\ Owner(f.at) = g.of => f.at \in g.todo
       /\ f.do = "assign" => f.of # g.of

Ordered(frames, v, handles) ==
  /\ \A i \in DOMAIN frames : Sound(frames[i], v, handles)
  /\ \A i, j \in DOMAIN frames : i < j => Apart(frames[i], frames[j])
  /\ \A i \in DOMAIN frames : i + 1 \in DOMAIN frames => Precedes(frames[i], frames[i + 1], v)
  /\ \A i \in DOMAIN frames : frames[i].do = "walk" => i + 1 \in DOMAIN frames

Proceeds(frames, v, handles) ==
  Ordered(frames, v, handles) /\ (frames # <<>> => Ready(frames[1], v))

(* A container that is gone has no nodes, but while it is being cleared.   *)
Vacant ==
  \A c \in Container : refs[c] = 0 => Clearing(c) \/ \A s \in SlotsOf(c) : val[s] = Gone

IInv ==
  \/ careless
  \/ /\ fault = "none" /\ Types /\ Proceeds(stack, val, held) /\ Vacant
     /\ RefsBalanced

-----------------------------------------------------------------------------
(* Slots, values and frames.                                               *)

LEMMA SlotFacts ==
  /\ IsFiniteSet(Slot) /\ Null \notin Slot
  /\ \A s \in Slot : Owner(s) \in Container /\ s \in SlotsOf(Owner(s)) /\ s[2] \in Keys[Owner(s)]
  /\ \A c \in Container : \A k \in Keys[c] : <<c, k>> \in Slot
  /\ \A c : \A s : s \in SlotsOf(c) <=> s \in Slot /\ Owner(s) = c
<1> DEFINE Of(c) == {c} \X Keys[c]
           All == {Of(c) : c \in Container}
<1>1. IsFiniteSet(Container)
  BY CellsAssumption, FS_Subset DEF Thing
<1>2. IsFiniteSet(All)
  <2> DEFINE slots == [c \in Container |-> Of(c)]
  <2>1. slots \in Surjection(Container, All)
    <3>1. \A x \in All : \E c \in Container : slots[c] = x
      OBVIOUS
    <3>2. slots \in [Container -> All]
      OBVIOUS
    <3> HIDE DEF slots, All
    <3> QED BY <3>1, <3>2 DEF Surjection
  <2> QED BY <1>1, <2>1, FS_Surjection
<1>3. \A c \in Container : IsFiniteSet(Of(c))
  BY KeysAssumption, FS_Product, FS_Singleton
<1>4. IsFiniteSet(Slot)
  BY <1>2, <1>3, FS_UNION DEF Slot
<1>5. ASSUME NEW s \in Slot PROVE Owner(s) \in Container /\ s[2] \in Keys[Owner(s)]
  BY <1>5 DEF Slot, Owner
<1>6. \A c \in Container : \A k \in Keys[c] : <<c, k>> \in Slot
  BY DEF Slot
<1>7. \A c : \A s : s \in SlotsOf(c) <=> s \in Slot /\ Owner(s) = c
  BY DEF SlotsOf
<1> QED BY <1>4, <1>5, <1>6, <1>7, KeysAssumption

LEMMA AnySlot ==
  ASSUME NEW c \in AnyCell
  PROVE  \E s \in Slot : SlotsOf(c) = {s}
<1>1. IsFiniteSet(Keys[c]) /\ Cardinality(Keys[c]) = 1 /\ c \in Container
  BY KeysAssumption DEF Container
<1>2. PICK k : Keys[c] = {k}
  BY <1>1, FS_Singleton
<1>3. <<c, k>> \in Slot
  BY <1>1, <1>2, SlotFacts
<1>4. ASSUME NEW s \in SlotsOf(c) PROVE s = <<c, k>>
  BY <1>2, <1>4 DEF SlotsOf, Slot, Owner
<1>5. <<c, k>> \in SlotsOf(c)
  BY <1>3 DEF SlotsOf, Owner
<1> QED BY <1>3, <1>4, <1>5

(* What there is of values.                                                *)
LEMMA ValueFacts ==
  /\ Gone \in Values /\ Empty \in Values /\ Gone # Empty
  /\ ~Holds(Gone) /\ ~Holds(Empty)
  /\ \A t \in Thing \cup {Null} : Handle(t) \in Values /\ Holds(Handle(t)) /\ Handle(t).to = t
  /\ \A o \in Object : Copy(o) \in Values /\ Holds(Copy(o)) /\ Copy(o).to = o
  /\ \A t : Handle(t).type = "handle" /\ Copy(t).type = "object"
  /\ Null \notin Thing /\ Object \subseteq Thing /\ Container \subseteq Thing
  /\ Dict \subseteq Container /\ AnyCell \subseteq Container /\ Dict \cap AnyCell = {}
BY CellsAssumption DEF Values, Gone, Empty, Handle, Copy, Holds, Thing, Container

LEMMA ValueKinds ==
  ASSUME NEW v \in Values
  PROVE  /\ v.to \in Thing \cup {Null}
         /\ Holds(v) => v # Gone /\ v # Empty
         /\ v.type = "handle" => v = Handle(v.to) /\ Holds(v)
         /\ v.type = "object" => v.to \in Object /\ Holds(v)
         /\ Holds(v) <=> v.type \in {"handle", "object"}
<1>1. v = [type |-> v.type, to |-> v.to]
  BY DEF Values
<1> QED BY <1>1 DEF Values, Holds, Gone, Empty, Handle

LEMMA FrameTypes ==
  /\ \A s \in Slot : /\ [do |-> "free", at |-> s] \in Frames
                     /\ [do |-> "cleared", at |-> s] \in Frames
                     /\ [do |-> "erase", at |-> s] \in Frames
  /\ \A s \in Slot, v \in Values, t \in Slot \cup {Null} :
       [do |-> "store", at |-> s, val |-> v, from |-> t] \in Frames
  /\ \A t \in Thing : [do |-> "destructor", of |-> t] \in Frames
  /\ \A c \in Dict, x \in SUBSET Slot : [do |-> "walk", of |-> c, todo |-> x] \in Frames
  /\ \A c \in Container : [do |-> "clear", of |-> c] \in Frames
  /\ \A c, d \in Dict : [do |-> "assign", of |-> c, from |-> d] \in Frames
BY DEF Frames

LEMMA FrameKinds ==
  ASSUME NEW f \in Frames
  PROVE  /\ f.do \in {"free", "cleared", "erase", "store", "destructor", "walk", "clear", "assign"}
         /\ Frees(f) \/ f.do \in {"erase", "store"} => f.at \in Slot
         /\ f.do = "store" => f.val \in Values /\ f.from \in Slot \cup {Null}
         /\ f.do = "destructor" => f.of \in Thing
         /\ f.do = "walk" => f.of \in Dict /\ f.todo \subseteq Slot
         /\ f.do = "clear" => f.of \in Container
         /\ f.do = "assign" => f.of \in Dict /\ f.from \in Dict
         /\ Frees(f) <=> f.do \in {"free", "cleared"}
BY DEF Frames, Frees

-----------------------------------------------------------------------------
(* Sequences of frames.                                                    *)

LEMMA TailFacts ==
  ASSUME NEW st \in Seq(Frames), st # <<>>
  PROVE  /\ 1 \in DOMAIN st /\ Head(st) = st[1] /\ st[1] \in Frames
         /\ Tail(st) \in Seq(Frames) /\ Len(Tail(st)) = Len(st) - 1 /\ Len(st) \in Nat \ {0}
         /\ DOMAIN st = 1..Len(st) /\ DOMAIN Tail(st) = 1..(Len(st) - 1)
         /\ \A i \in DOMAIN Tail(st) : i + 1 \in DOMAIN st /\ Tail(st)[i] = st[i + 1]
OBVIOUS

LEMMA ConsFacts ==
  ASSUME NEW st \in Seq(Frames), NEW f \in Frames
  PROVE  /\ <<f>> \o st \in Seq(Frames) /\ (<<f>> \o st)[1] = f /\ <<f>> \o st # <<>>
         /\ DOMAIN (<<f>> \o st) = 1..(Len(st) + 1) /\ DOMAIN st = 1..Len(st) /\ Len(st) \in Nat
         /\ \A i \in DOMAIN st : (<<f>> \o st)[i + 1] = st[i]
OBVIOUS

LEMMA SameFrames ==
  ASSUME NEW s \in Seq(Frames), NEW t \in Seq(Frames), Len(s) = Len(t),
         \A i \in 1..Len(s) : s[i] = t[i]
  PROVE  s = t
OBVIOUS

LEMMA Joined ==
  ASSUME NEW st \in Seq(Frames), NEW f \in Frames, NEW g \in Frames
  PROVE  /\ (<<f>> \o <<g>>) \o st = <<f>> \o (<<g>> \o st)
         /\ <<f, g>> = <<f>> \o <<g>>
         /\ <<>> \o st = st
<1>1. <<>> \in Seq(Frames) /\ <<f>> \in Seq(Frames) /\ <<g>> \in Seq(Frames)
  OBVIOUS
<1>2. \A s, t, u \in Seq(Frames) : (s \o t) \o u = s \o (t \o u)
  OBVIOUS
<1>3. <<>> \o st = st
  OBVIOUS
<1>4. <<f, g>> = <<f>> \o <<g>>
  <2> DEFINE s == <<f, g>>
             t == <<f>> \o <<g>>
  <2>1. s \in Seq(Frames) /\ Len(s) = 2 /\ s[1] = f /\ s[2] = g
    OBVIOUS
  <2>2. t \in Seq(Frames) /\ Len(t) = 2 /\ t[1] = f /\ t[2] = g
    OBVIOUS
  <2> HIDE DEF s, t
  <2>3. s = t
    BY <2>1, <2>2, SameFrames
  <2> QED BY <2>3 DEF s, t
<1> QED BY <1>1, <1>2, <1>3, <1>4

-----------------------------------------------------------------------------
(* What is to be done, with a frame more or less.                          *)

LEMMA OrderedTail ==
  ASSUME NEW st \in Seq(Frames), NEW v, NEW h, st # <<>>, Ordered(st, v, h)
  PROVE  /\ Ordered(Tail(st), v, h) /\ Sound(st[1], v, h)
         /\ \A i \in DOMAIN Tail(st) : Apart(st[1], Tail(st)[i]) /\ Tail(st)[i].do # "free"
         /\ Tail(st) # <<>> => Precedes(st[1], Tail(st)[1], v)
         /\ st[1].do = "walk" => Tail(st) # <<>>
<1> DEFINE u == Tail(st)
<1>1. /\ 1 \in DOMAIN st /\ u \in Seq(Frames) /\ Len(st) \in Nat \ {0} /\ DOMAIN st = 1..Len(st)
      /\ DOMAIN u = 1..(Len(st) - 1) /\ \A i \in DOMAIN u : i + 1 \in DOMAIN st /\ u[i] = st[i + 1]
  BY TailFacts
<1> HIDE DEF u
<1>2. u # <<>> <=> 1 \in DOMAIN u
  BY <1>1
<1>3. \A i \in DOMAIN u : Sound(u[i], v, h)
  BY <1>1 DEF Ordered
<1>4. \A i, j \in DOMAIN u : i < j => Apart(u[i], u[j])
  <2> TAKE i, j \in DOMAIN u
  <2> HAVE i < j
  <2>1. i + 1 \in DOMAIN st /\ j + 1 \in DOMAIN st /\ i + 1 < j + 1
    BY <1>1
  <2> QED BY <1>1, <2>1 DEF Ordered
<1>5. \A i \in DOMAIN u : i + 1 \in DOMAIN u => Precedes(u[i], u[i + 1], v)
  <2> TAKE i \in DOMAIN u
  <2> HAVE i + 1 \in DOMAIN u
  <2>1. i + 1 \in DOMAIN st /\ (i + 1) + 1 \in DOMAIN st /\ u[i] = st[i + 1] /\ u[i + 1] = st[(i + 1) + 1]
    BY <1>1
  <2> QED BY <2>1 DEF Ordered
<1>6. \A i \in DOMAIN u : u[i].do = "walk" => i + 1 \in DOMAIN u
  <2> TAKE i \in DOMAIN u
  <2> HAVE u[i].do = "walk"
  <2>1. i + 1 \in DOMAIN st /\ st[i + 1].do = "walk"
    BY <1>1
  <2>2. (i + 1) + 1 \in DOMAIN st
    BY <2>1 DEF Ordered
  <2> QED BY <1>1, <2>2
<1>7. ASSUME NEW i \in DOMAIN u PROVE Apart(st[1], u[i]) /\ u[i].do # "free"
  <2>1. i + 1 \in DOMAIN st /\ 1 < i + 1 /\ u[i] = st[i + 1] /\ i \in DOMAIN st
    BY <1>1
  <2>2. Apart(st[1], st[i + 1]) /\ Precedes(st[i], st[i + 1], v)
    BY <1>1, <2>1 DEF Ordered
  <2> QED BY <2>1, <2>2 DEF Precedes
<1>8. u # <<>> => Precedes(st[1], u[1], v)
  <2> HAVE u # <<>>
  <2>1. 1 + 1 \in DOMAIN st /\ u[1] = st[1 + 1]
    BY <1>1, <1>2
  <2> QED BY <1>1, <2>1 DEF Ordered
<1>9. st[1].do = "walk" => u # <<>>
  <2> HAVE st[1].do = "walk"
  <2>1. 1 + 1 \in DOMAIN st
    BY <1>1 DEF Ordered
  <2> QED BY <1>1, <1>2, <2>1
<1>10. Sound(st[1], v, h)
  BY <1>1 DEF Ordered
<1> USE DEF u
<1> QED BY <1>3, <1>4, <1>5, <1>6, <1>7, <1>8, <1>9, <1>10 DEF Ordered

LEMMA OrderedCons ==
  ASSUME NEW st \in Seq(Frames), NEW f \in Frames, NEW v, NEW h, Ordered(st, v, h),
         Sound(f, v, h), \A i \in DOMAIN st : Apart(f, st[i]),
         st # <<>> => Precedes(f, st[1], v), f.do = "walk" => st # <<>>
  PROVE  Ordered(<<f>> \o st, v, h)
<1> DEFINE u == <<f>> \o st
<1>1. /\ u \in Seq(Frames) /\ u[1] = f /\ DOMAIN u = 1..(Len(st) + 1) /\ DOMAIN st = 1..Len(st)
      /\ Len(st) \in Nat /\ \A i \in DOMAIN st : u[i + 1] = st[i]
  BY ConsFacts
<1>2. st # <<>> <=> 1 \in DOMAIN st
  BY <1>1
<1> HIDE DEF u
<1>3. \A i \in DOMAIN u : i = 1 \/ (i - 1 \in DOMAIN st /\ u[i] = st[i - 1])
  <2> TAKE i \in DOMAIN u
  <2>1. i # 1 => i - 1 \in DOMAIN st /\ (i - 1) + 1 = i
    BY <1>1
  <2>2. i # 1 => u[(i - 1) + 1] = st[i - 1]
    BY <1>1, <2>1
  <2> QED BY <2>1, <2>2
<1>4. \A i \in DOMAIN u : Sound(u[i], v, h)
  BY <1>1, <1>3 DEF Ordered
<1>5. \A i, j \in DOMAIN u : i < j => Apart(u[i], u[j])
  <2> TAKE i, j \in DOMAIN u
  <2> HAVE i < j
  <2>1. j - 1 \in DOMAIN st /\ u[j] = st[j - 1]
    BY <1>1, <1>3
  <2>2. CASE i = 1
    BY <1>1, <2>1, <2>2
  <2>3. CASE i # 1
    <3>1. i - 1 \in DOMAIN st /\ u[i] = st[i - 1] /\ i - 1 < j - 1
      BY <1>1, <1>3, <2>3
    <3> QED BY <2>1, <3>1 DEF Ordered
  <2> QED BY <2>2, <2>3
<1>6. \A i \in DOMAIN u : i + 1 \in DOMAIN u => Precedes(u[i], u[i + 1], v)
  <2> TAKE i \in DOMAIN u
  <2> HAVE i + 1 \in DOMAIN u
  <2>1. i \in DOMAIN st /\ u[i + 1] = st[i]
    BY <1>1
  <2>2. CASE i = 1
    BY <1>1, <1>2, <2>1, <2>2
  <2>3. CASE i # 1
    <3>1. i - 1 \in DOMAIN st /\ u[i] = st[i - 1] /\ (i - 1) + 1 = i
      BY <1>1, <1>3, <2>3
    <3>2. Precedes(st[i - 1], st[(i - 1) + 1], v)
      BY <2>1, <3>1 DEF Ordered
    <3> QED BY <2>1, <3>1, <3>2
  <2> QED BY <2>2, <2>3
<1>7. \A i \in DOMAIN u : u[i].do = "walk" => i + 1 \in DOMAIN u
  <2> TAKE i \in DOMAIN u
  <2> HAVE u[i].do = "walk"
  <2>1. CASE i = 1
    BY <1>1, <1>2, <2>1
  <2>2. CASE i # 1
    <3>1. i - 1 \in DOMAIN st /\ st[i - 1].do = "walk"
      BY <1>3, <2>2
    <3>2. (i - 1) + 1 \in DOMAIN st
      BY <3>1 DEF Ordered
    <3> QED BY <1>1, <3>2
  <2> QED BY <2>1, <2>2
<1> USE DEF u
<1> QED BY <1>4, <1>5, <1>6, <1>7 DEF Ordered

(* Other values and handles: the loops that empty containers have no new   *)
(* values to free but those ahead.                                         *)
LEMMA OrderedAs ==
  ASSUME NEW st \in Seq(Frames), NEW v, NEW h, NEW w, NEW k, Ordered(st, v, h),
         \A i \in DOMAIN st : Sound(st[i], w, k),
         \A i \in DOMAIN st : \A s \in Slot :
           st[i].do = "walk" /\ Owner(s) = st[i].of /\ Holds(w[s]) => Holds(v[s]) \/ s \in st[i].todo
  PROVE  Ordered(st, w, k)
<1>1. ASSUME NEW i \in DOMAIN st, i + 1 \in DOMAIN st PROVE Precedes(st[i], st[i + 1], w)
  <2>1. Precedes(st[i], st[i + 1], v)
    BY <1>1 DEF Ordered
  <2>2. ASSUME st[i + 1].do = "walk"
        PROVE  \A s \in SlotsOf(st[i + 1].of) : Holds(w[s]) => s \in st[i + 1].todo \/ s = st[i].at
    BY <1>1, <2>1, <2>2 DEF Precedes, SlotsOf
  <2> QED BY <2>1, <2>2 DEF Precedes
<1> QED BY <1>1 DEF Ordered

LEMMA NothingOrdered == \A v, h : Ordered(<<>>, v, h) /\ Proceeds(<<>>, v, h)
BY DEF Ordered, Proceeds

-----------------------------------------------------------------------------
(* Counting.                                                               *)

One(x, y) == IF x = y THEN 1 ELSE 0

Count(f, x) == Cardinality({s \in Slot : f[s] = x})

SameBut(f, g, s) == \A u \in Slot : u # s => g[u] = f[u]

LEMMA CountType ==
  ASSUME NEW f, NEW x
  PROVE  /\ IsFiniteSet({s \in Slot : f[s] = x}) /\ Count(f, x) \in Nat
         /\ Count(f, x) > 0 <=> \E s \in Slot : f[s] = x
<1> DEFINE S == {s \in Slot : f[s] = x}
<1>1. S \subseteq Slot
  OBVIOUS
<1>2. S # {} <=> \E s \in Slot : f[s] = x
  OBVIOUS
<1> HIDE DEF S
<1>3. IsFiniteSet(S)
  BY <1>1, SlotFacts, FS_Subset
<1>4. Cardinality(S) \in Nat /\ (Cardinality(S) = 0 <=> S = {})
  BY <1>3, FS_CardinalityType, FS_EmptySet
<1> QED BY <1>2, <1>3, <1>4 DEF S, Count

LEMMA CountChange ==
  ASSUME NEW f, NEW g, NEW s \in Slot, SameBut(f, g, s)
  PROVE  \A x : Count(g, x) = Count(f, x) - One(f[s], x) + One(g[s], x)
<1> TAKE x
<1> DEFINE F == {u \in Slot : f[u] = x}
           G == {u \in Slot : g[u] = x}
           A == {u \in Slot : u # s /\ f[u] = x}
<1>1. F = (IF f[s] = x THEN A \cup {s} ELSE A) /\ G = (IF g[s] = x THEN A \cup {s} ELSE A)
  BY DEF SameBut
<1>2. s \notin A /\ A \subseteq Slot
  OBVIOUS
<1>3. Count(f, x) = Cardinality(F) /\ Count(g, x) = Cardinality(G)
  BY DEF Count
<1> HIDE DEF F, G, A
<1>4. IsFiniteSet(A)
  BY <1>2, SlotFacts, FS_Subset
<1>5. Cardinality(A) \in Nat /\ Cardinality(A \cup {s}) = Cardinality(A) + 1
  BY <1>2, <1>4, FS_CardinalityType, FS_AddElement
<1> QED BY <1>1, <1>3, <1>5 DEF One

LEMMA CountSame ==
  ASSUME NEW f, NEW g, \A u \in Slot : g[u] = f[u]
  PROVE  \A x : Count(g, x) = Count(f, x)
<1> TAKE x
<1>1. {u \in Slot : g[u] = x} = {u \in Slot : f[u] = x}
  OBVIOUS
<1> QED BY <1>1 DEF Count

(* The things that values refer to, but those that are being freed.        *)
Refers(v, freed) == [s \in Slot |-> IF s \notin freed /\ Holds(v[s]) THEN v[s].to ELSE Null]

(* The anys that hold a value.                                             *)
Typed(v) == [s \in Slot |-> IF Owner(s) \in AnyCell /\ Holds(v[s]) THEN 1 ELSE 0]

FreedBy(frames) == {frames[i].at : i \in {j \in DOMAIN frames : frames[j].do = "cleared"}}

(* Values to be stored in anys, whose types are referred to already.       *)
Awaited(f) == f.do = "store" /\ Holds(f.val) /\ Owner(f.at) \in AnyCell

ComingBy(f) == IF Awaited(f) THEN 1 ELSE 0

Coming(frames) == {i \in DOMAIN frames : Awaited(frames[i])}

LEMMA FreedFacts ==
  ASSUME NEW st \in Seq(Frames), NEW f \in Frames
  PROVE  /\ FreedBy(<<f>> \o st) = FreedBy(st) \cup (IF f.do = "cleared" THEN {f.at} ELSE {})
         /\ \A s : s \in FreedBy(st) <=> \E i \in DOMAIN st : st[i].do = "cleared" /\ st[i].at = s
<1> DEFINE u == <<f>> \o st
<1>1. /\ u[1] = f /\ DOMAIN u = 1..(Len(st) + 1) /\ DOMAIN st = 1..Len(st)
      /\ Len(st) \in Nat /\ \A i \in DOMAIN st : u[i + 1] = st[i]
  BY ConsFacts
<1> HIDE DEF u
<1>2. \A s : s \in FreedBy(st) <=> \E i \in DOMAIN st : st[i].do = "cleared" /\ st[i].at = s
  BY DEF FreedBy
<1>3. \A s : s \in FreedBy(u) <=> \E i \in DOMAIN u : u[i].do = "cleared" /\ u[i].at = s
  BY DEF FreedBy
<1>4. \A i \in DOMAIN st : i + 1 \in DOMAIN u
  BY <1>1
<1>5. \A i \in DOMAIN u : i = 1 \/ (i - 1 \in DOMAIN st /\ u[i] = st[i - 1])
  <2> TAKE i \in DOMAIN u
  <2>1. i # 1 => i - 1 \in DOMAIN st /\ (i - 1) + 1 = i
    BY <1>1
  <2>2. i # 1 => u[(i - 1) + 1] = st[i - 1]
    BY <1>1, <2>1
  <2> QED BY <2>1, <2>2
<1>6. 1 \in DOMAIN u
  BY <1>1
<1>7. ASSUME NEW s
      PROVE  s \in FreedBy(u) <=> s \in FreedBy(st) \/ (f.do = "cleared" /\ s = f.at)
  BY <1>1, <1>2, <1>3, <1>4, <1>5, <1>6
<1>8. FreedBy(u) = FreedBy(st) \cup (IF f.do = "cleared" THEN {f.at} ELSE {})
  BY <1>7
<1> QED BY <1>2, <1>8 DEF u

LEMMA FreedAre ==
  ASSUME NEW st
  PROVE  \A s : s \in FreedBy(st) <=> \E i \in DOMAIN st : st[i].do = "cleared" /\ st[i].at = s
BY DEF FreedBy

LEMMA ComingFacts ==
  ASSUME NEW st \in Seq(Frames), NEW f \in Frames
  PROVE  /\ Cardinality(Coming(st)) \in Nat
         /\ Cardinality(Coming(<<f>> \o st)) = Cardinality(Coming(st)) + ComingBy(f)
<1> DEFINE u == <<f>> \o st
           S == Coming(st)
           T == {i \in DOMAIN u : i # 1 /\ Awaited(u[i])}
           next == [i \in S |-> i + 1]
<1>1. /\ u[1] = f /\ DOMAIN u = 1..(Len(st) + 1) /\ DOMAIN st = 1..Len(st)
      /\ Len(st) \in Nat /\ \A i \in DOMAIN st : u[i + 1] = st[i]
  BY ConsFacts
<1> HIDE DEF u
<1>2. S \subseteq 1..Len(st) /\ S \subseteq Nat
  BY <1>1 DEF Coming
<1>3. IsFiniteSet(S)
  <2>1. IsFiniteSet(1..Len(st))
    BY <1>1, FS_Interval
  <2> HIDE DEF S
  <2> QED BY <1>2, <2>1, FS_Subset
<1>4. \A i \in S : i + 1 \in T
  BY <1>1 DEF Coming
<1>5. \A j \in T : j - 1 \in S /\ (j - 1) + 1 = j
  <2> TAKE j \in T
  <2>1. j - 1 \in DOMAIN st /\ (j - 1) + 1 = j
    BY <1>1
  <2>2. u[(j - 1) + 1] = st[j - 1]
    BY <1>1, <2>1
  <2> QED BY <2>1, <2>2 DEF Coming
<1>6. Coming(u) = (IF Awaited(f) THEN T \cup {1} ELSE T) /\ 1 \notin T
  <2>1. 1 \in DOMAIN u
    BY <1>1
  <2> QED BY <1>1, <2>1 DEF Coming
<1> HIDE DEF S, T
<1>7. next \in Bijection(S, T)
  <2>1. next \in [S -> T]
    BY <1>4
  <2>2. \A t \in T : \E s \in S : next[s] = t
    BY <1>5
  <2>3. \A a, b \in S : next[a] = next[b] => a = b
    BY <1>2
  <2> HIDE DEF next
  <2> QED BY <2>1, <2>2, <2>3 DEF Bijection, Injection, IsInjective, Surjection
<1> HIDE DEF next
<1>8. IsFiniteSet(T) /\ Cardinality(T) = Cardinality(S)
  BY <1>3, <1>7, FS_Bijection DEF ExistsBijection
<1>9. Cardinality(S) \in Nat /\ Cardinality(T \cup {1}) = Cardinality(T) + 1
  BY <1>3, <1>6, <1>8, FS_CardinalityType, FS_AddElement
<1> QED BY <1>6, <1>8, <1>9 DEF ComingBy, S, u

-----------------------------------------------------------------------------
(* References.                                                             *)

Has(h, t) == IF t \in h THEN 1 ELSE 0

Collected(r, t) == IF t \in Container /\ r[t] > 0 THEN 1 ELSE 0

(* What is counted agrees with the counts: things that slots refer to, and *)
(* types of the values that anys hold or are about to.                     *)
Sums(r, h, tr, to, typed, coming) ==
  /\ \A t \in Thing : r[t] = Has(h, t) + Collected(r, t) + Count(to, t)
  /\ tr = Count(typed, 1) + coming

Balance(v, r, h, tr, frames) ==
  /\ \A t \in Thing :
       r[t] = (IF t \in h THEN 1 ELSE 0) + (IF t \in Container /\ r[t] > 0 THEN 1 ELSE 0)
                + Cardinality({s \in Slot \ FreedBy(frames) : Holds(v[s]) /\ v[s].to = t})
  /\ tr = Cardinality({s \in Slot : Owner(s) \in AnyCell /\ Holds(v[s])})
            + Cardinality({i \in DOMAIN frames :
                             /\ frames[i].do = "store" /\ Holds(frames[i].val)
                             /\ Owner(frames[i].at) \in AnyCell})

LEMMA BalanceDef ==
  /\ RefsBalanced <=> (fault = "none" /\ ~careless => Balance(val, refs, held, typeRefs, stack))
  /\ RefsBalanced' <=>
       (fault' = "none" /\ ~careless' => Balance(val', refs', held', typeRefs', stack'))
BY DEF RefsBalanced, Balance, Freed, FreedBy

LEMMA BalanceSums ==
  ASSUME NEW v, NEW r, NEW h, NEW tr, NEW st
  PROVE  Balance(v, r, h, tr, st) <=>
           Sums(r, h, tr, Refers(v, FreedBy(st)), Typed(v), Cardinality(Coming(st)))
<1> DEFINE To(t) == {s \in Slot \ FreedBy(st) : Holds(v[s]) /\ v[s].to = t}
           Anys == {s \in Slot : Owner(s) \in AnyCell /\ Holds(v[s])}
           Stores == {i \in DOMAIN st : /\ st[i].do = "store" /\ Holds(st[i].val)
                                        /\ Owner(st[i].at) \in AnyCell}
<1>1. \A t \in Thing : To(t) = {s \in Slot : Refers(v, FreedBy(st))[s] = t}
  BY ValueFacts DEF Refers
<1>2. Anys = {s \in Slot : Typed(v)[s] = 1}
  BY DEF Typed
<1>3. Stores = Coming(st)
  BY DEF Coming, Awaited
<1>4. \A t \in Thing : Cardinality(To(t)) = Count(Refers(v, FreedBy(st)), t)
  BY <1>1 DEF Count
<1>5. Cardinality(Anys) = Count(Typed(v), 1) /\ Cardinality(Stores) = Cardinality(Coming(st))
  BY <1>2, <1>3 DEF Count
<1>6. Balance(v, r, h, tr, st) <=>
        /\ \A t \in Thing : r[t] = Has(h, t) + Collected(r, t)
                                        + Cardinality(To(t))
        /\ tr = Cardinality(Anys) + Cardinality(Stores)
  BY DEF Balance, Has, Collected
<1> HIDE DEF To, Anys, Stores
<1> QED BY <1>4, <1>5, <1>6 DEF Sums

(* What is referred to exists, and a container has the reference of the    *)
(* collector besides; nothing refers to what has no references.            *)
LEMMA Alive ==
  ASSUME NEW r \in [Thing -> Nat], NEW h, NEW tr, NEW to, NEW typed, NEW n,
         Sums(r, h, tr, to, typed, n), NEW t \in Thing
  PROVE  /\ t \in h \/ (\E s \in Slot : to[s] = t) =>
              r[t] > 0 /\ (t \in Container => r[t] > 1)
         /\ r[t] = 0 => t \notin h /\ Count(to, t) = 0
         /\ r[t] = 1 /\ t \in Container => t \notin h /\ Count(to, t) = 0
<1>1. /\ Count(to, t) \in Nat /\ (Count(to, t) > 0 <=> \E s \in Slot : to[s] = t)
      /\ r[t] \in Nat
  BY CountType
<1>2. r[t] = Has(h, t) + Collected(r, t) + Count(to, t)
  BY DEF Sums
<1> DEFINE n1 == r[t]
           n2 == Count(to, t)
<1> HIDE DEF n1, n2
<1>3. n1 \in Nat /\ n2 \in Nat /\ n1 = Has(h, t) + (IF t \in Container /\ n1 > 0 THEN 1 ELSE 0) + n2
  BY <1>1, <1>2 DEF n1, n2, Collected
<1>4. /\ t \in h \/ n2 > 0 => n1 > 0 /\ (t \in Container => n1 > 1)
      /\ n1 = 0 => t \notin h /\ n2 = 0
      /\ n1 = 1 /\ t \in Container => t \notin h /\ n2 = 0
  BY <1>3 DEF Has
<1> QED BY <1>1, <1>4 DEF n1, n2

LEMMA SumsKept ==
  ASSUME NEW r, NEW h, NEW tr, NEW to, NEW typed, NEW n, Sums(r, h, tr, to, typed, n),
         NEW new, NEW kinds, \A u \in Slot : new[u] = to[u] /\ kinds[u] = typed[u]
  PROVE  Sums(r, h, tr, new, kinds, n)
<1>1. \A x : Count(new, x) = Count(to, x) /\ Count(kinds, x) = Count(typed, x)
  BY CountSame
<1> QED BY <1>1 DEF Sums

(* The value of one slot changes.                                          *)
Shifts(r, tr, to, typed, n, s, q, x, new, kinds, m) ==
  /\ r \in [Thing -> Nat] /\ tr \in Int /\ n \in Nat
  /\ q \in [Thing -> Nat] /\ x \in Int /\ m \in Nat
  /\ \A u \in Slot : u # s => new[u] = to[u] /\ kinds[u] = typed[u]
  /\ \A t \in Thing : q[t] = r[t] - One(to[s], t) + One(new[s], t)
  /\ \A c \in Container : q[c] > 0 <=> r[c] > 0
  /\ x = tr - One(typed[s], 1) + One(kinds[s], 1) + (m - n)

LEMMA SumsChange ==
  ASSUME NEW r, NEW h, NEW tr, NEW to, NEW typed, NEW n, Sums(r, h, tr, to, typed, n),
         NEW s \in Slot, NEW q, NEW x, NEW new, NEW kinds, NEW m,
         Shifts(r, tr, to, typed, n, s, q, x, new, kinds, m)
  PROVE  Sums(q, h, x, new, kinds, m)
<1>3. /\ r \in [Thing -> Nat] /\ tr \in Int /\ n \in Nat
      /\ q \in [Thing -> Nat] /\ x \in Int /\ m \in Nat
      /\ \A u \in Slot : u # s => new[u] = to[u] /\ kinds[u] = typed[u]
      /\ \A t \in Thing : q[t] = r[t] - One(to[s], t) + One(new[s], t)
      /\ \A c \in Container : q[c] > 0 <=> r[c] > 0
      /\ x = tr - One(typed[s], 1) + One(kinds[s], 1) + (m - n)
  BY DEF Shifts
<1>1. ASSUME NEW t \in Thing
      PROVE  q[t] = Has(h, t) + Collected(q, t) + Count(new, t)
  <2>7. SameBut(to, new, s)
    BY <1>3 DEF SameBut
  <2>8. Count(new, t) = Count(to, t) - One(to[s], t) + One(new[s], t)
    BY <2>7, CountChange
  <2>9. Count(to, t) \in Nat
    BY CountType, Zenon
  <2>1. Count(new, t) = Count(to, t) - One(to[s], t) + One(new[s], t) /\ Count(to, t) \in Nat
    BY <2>8, <2>9
  <2>2. r[t] = Has(h, t) + Collected(r, t) + Count(to, t)
    BY DEF Sums
  <2>3. Collected(q, t) = Collected(r, t)
    BY <1>3 DEF Collected
  <2>4. q[t] = r[t] - One(to[s], t) + One(new[s], t)
    BY <1>3
  <2> DEFINE a == Has(h, t)
             b == Collected(r, t)
             d == One(to[s], t)
             e == One(new[s], t)
  <2>5. a \in Nat /\ b \in Nat /\ d \in Nat /\ e \in Nat
    BY DEF One, Has, Collected
  <2> HIDE DEF a, b, d, e
  <2>6. q[t] = a + b + Count(new, t)
    BY <1>3, <2>1, <2>2, <2>4, <2>5 DEF a, b, d, e
  <2> QED BY <2>3, <2>6 DEF a, b
<1>2. x = Count(kinds, 1) + m
  <2>4. SameBut(typed, kinds, s)
    BY <1>3 DEF SameBut
  <2>5. Count(kinds, 1) = Count(typed, 1) - One(typed[s], 1) + One(kinds[s], 1)
    BY <2>4, CountChange
  <2>6. Count(typed, 1) \in Nat
    BY CountType, Zenon
  <2>1. Count(kinds, 1) = Count(typed, 1) - One(typed[s], 1) + One(kinds[s], 1)
        /\ Count(typed, 1) \in Nat
    BY <2>5, <2>6
  <2>2. tr = Count(typed, 1) + n
    BY DEF Sums
  <2>3. One(typed[s], 1) \in Nat /\ One(kinds[s], 1) \in Nat
    BY DEF One
  <2> QED BY <1>3, <2>1, <2>2, <2>3
<1> QED BY <1>1, <1>2 DEF Sums

(* The references or the handles to one thing change.                      *)
LEMMA SumsAt ==
  ASSUME NEW r, NEW h, NEW tr, NEW to, NEW typed, NEW n, Sums(r, h, tr, to, typed, n),
         NEW q, NEW k, NEW t \in Thing,
         \A u \in Thing : u # t => q[u] = r[u] /\ (u \in k <=> u \in h),
         q[t] = Has(k, t) + Collected(q, t) + Count(to, t)
  PROVE  Sums(q, k, tr, to, typed, n)
<1>1. ASSUME NEW u \in Thing, u # t
      PROVE  q[u] = Has(k, u) + Collected(q, u) + Count(to, u)
  <2>1. r[u] = Has(h, u) + Collected(r, u) + Count(to, u)
    BY DEF Sums
  <2>2. q[u] = r[u] /\ Has(k, u) = Has(h, u) /\ Collected(q, u) = Collected(r, u)
    BY <1>1 DEF Has, Collected
  <2> QED BY <2>1, <2>2
<1> QED BY <1>1 DEF Sums

-----------------------------------------------------------------------------
(* The invariant of a careful program, of any values.                      *)

Clears(frames, c) == \E i \in DOMAIN frames : frames[i].do = "clear" /\ frames[i].of = c

Vacated(v, r, frames) ==
  \A c \in Container : r[c] = 0 => Clears(frames, c) \/ \A s \in SlotsOf(c) : v[s] = Gone

Good(v, r, h, tr, frames) ==
  /\ v \in [Slot -> Values] /\ r \in [Thing -> Nat] /\ h \subseteq Thing /\ tr \in Int
  /\ frames \in Seq(Frames)
  /\ Proceeds(frames, v, h) /\ Vacated(v, r, frames)
  /\ Sums(r, h, tr, Refers(v, FreedBy(frames)), Typed(v), Cardinality(Coming(frames)))

LEMMA GoodNow ==
  /\ IInv /\ ~careless => fault = "none" /\ Good(val, refs, held, typeRefs, stack)
  /\ careless' \/ (fault' = "none" /\ Good(val', refs', held', typeRefs', stack')) => IInv'
<1>1. ASSUME IInv, ~careless
      PROVE  fault = "none" /\ Good(val, refs, held, typeRefs, stack)
  <2>1. fault = "none" /\ Types /\ Proceeds(stack, val, held) /\ Vacant /\ RefsBalanced
    BY <1>1 DEF IInv
  <2>2. Vacated(val, refs, stack)
    BY <2>1 DEF Vacant, Vacated, Clearing, Clears
  <2>3. Balance(val, refs, held, typeRefs, stack)
    BY <1>1, <2>1, BalanceDef
  <2> QED BY <2>1, <2>2, <2>3, BalanceSums DEF Good, Types
<1>2. ASSUME ~careless', fault' = "none", Good(val', refs', held', typeRefs', stack')
      PROVE  IInv'
  <2>1. Balance(val', refs', held', typeRefs', stack')
    BY <1>2, BalanceSums DEF Good
  <2>2. RefsBalanced'
    BY <2>1, BalanceDef
  <2>3. Vacated(val', refs', stack')
    BY <1>2 DEF Good
  <2>4. Vacant'
    BY <2>3 DEF Vacant, Vacated, Clearing, Clears
  <2>5. Types'
    BY <1>2 DEF Good, Types
  <2>6. Proceeds(stack, val, held)'
    BY <1>2 DEF Good
  <2> QED BY <1>2, <2>2, <2>4, <2>5, <2>6 DEF IInv
<1>3. careless' => IInv'
  BY DEF IInv
<1> QED BY <1>1, <1>2, <1>3

LEMMA ClearsFacts ==
  ASSUME NEW st \in Seq(Frames), NEW f \in Frames
  PROVE  \A c : Clears(<<f>> \o st, c) <=> (f.do = "clear" /\ f.of = c) \/ Clears(st, c)
<1> DEFINE u == <<f>> \o st
<1>1. /\ u[1] = f /\ DOMAIN u = 1..(Len(st) + 1) /\ DOMAIN st = 1..Len(st)
      /\ Len(st) \in Nat /\ \A i \in DOMAIN st : u[i + 1] = st[i]
  BY ConsFacts
<1> HIDE DEF u
<1>2. \A i \in DOMAIN u : i = 1 \/ (i - 1 \in DOMAIN st /\ u[i] = st[i - 1])
  <2> TAKE i \in DOMAIN u
  <2>1. i # 1 => i - 1 \in DOMAIN st /\ (i - 1) + 1 = i
    BY <1>1
  <2>2. i # 1 => u[(i - 1) + 1] = st[i - 1]
    BY <1>1, <2>1
  <2> QED BY <2>1, <2>2
<1>3. 1 \in DOMAIN u /\ \A i \in DOMAIN st : i + 1 \in DOMAIN u
  BY <1>1
<1>4. \A c : Clears(u, c) <=> (f.do = "clear" /\ f.of = c) \/ Clears(st, c)
  BY <1>1, <1>2, <1>3 DEF Clears
<1> QED BY <1>4 DEF u

(* The frame that is next, and the rest.                                   *)
Heads(f, u, v, h) ==
  /\ f \in Frames /\ u \in Seq(Frames) /\ Ordered(u, v, h)
  /\ \A i \in DOMAIN u : /\ u[i] \in Frames /\ Sound(u[i], v, h)
                         /\ Apart(f, u[i]) /\ u[i].do # "free"
  /\ u # <<>> => 1 \in DOMAIN u /\ Precedes(f, u[1], v)
  /\ f.do = "walk" => u # <<>>

(* What a frame adds to those after it.                                    *)
Adds(f, u, st) ==
  /\ f \in Frames /\ u \in Seq(Frames) /\ st \in Seq(Frames) /\ st # <<>> /\ st[1] = f
  /\ FreedBy(st) = FreedBy(u) \cup (IF f.do = "cleared" THEN {f.at} ELSE {})
  /\ Cardinality(Coming(u)) \in Nat
  /\ Cardinality(Coming(st)) = Cardinality(Coming(u)) + ComingBy(f)
  /\ \A c : Clears(st, c) <=> (f.do = "clear" /\ f.of = c) \/ Clears(u, c)

LEMMA Adding ==
  ASSUME NEW u \in Seq(Frames), NEW f \in Frames, NEW st, st = <<f>> \o u
  PROVE  Adds(f, u, st)
<1>1. st \in Seq(Frames) /\ st # <<>> /\ st[1] = f
  BY ConsFacts
<1>2. FreedBy(<<f>> \o u) = FreedBy(u) \cup (IF f.do = "cleared" THEN {f.at} ELSE {})
  BY FreedFacts
<1>3. /\ Cardinality(Coming(u)) \in Nat
      /\ Cardinality(Coming(<<f>> \o u)) = Cardinality(Coming(u)) + ComingBy(f)
  BY ComingFacts
<1>4. \A c : Clears(<<f>> \o u, c) <=> (f.do = "clear" /\ f.of = c) \/ Clears(u, c)
  BY ClearsFacts
<1> QED BY <1>1, <1>2, <1>3, <1>4, Zenon DEF Adds

LEMMA Working ==
  ASSUME NEW v, NEW r, NEW h, NEW tr, NEW st, Good(v, r, h, tr, st), st # <<>>
  PROVE  \E f, u : /\ f = Head(st) /\ u = Tail(st) /\ Heads(f, u, v, h) /\ Adds(f, u, st)
                  /\ Sound(f, v, h) /\ Ready(f, v)
<1> DEFINE f == Head(st)
           u == Tail(st)
<1>1. st \in Seq(Frames) /\ Ordered(st, v, h) /\ Ready(st[1], v)
  BY DEF Good, Proceeds
<1>2. /\ f \in Frames /\ u \in Seq(Frames) /\ f = st[1]
      /\ DOMAIN u = 1..(Len(st) - 1) /\ Len(st) \in Nat \ {0}
      /\ Len(u) = Len(st) - 1 /\ \A i \in DOMAIN u : u[i] = st[i + 1]
  BY <1>1, TailFacts
<1>4. /\ Ordered(u, v, h) /\ Sound(f, v, h)
      /\ \A i \in DOMAIN u : Apart(f, u[i]) /\ u[i].do # "free"
      /\ u # <<>> => Precedes(f, u[1], v)
      /\ f.do = "walk" => u # <<>>
  BY <1>1, <1>2, OrderedTail
<1> HIDE DEF f, u
<1>3. st = <<f>> \o u
  <2> DEFINE w == <<f>> \o u
  <2>1. /\ w \in Seq(Frames) /\ w[1] = f /\ DOMAIN w = 1..(Len(u) + 1)
        /\ \A i \in DOMAIN u : w[i + 1] = u[i]
    BY <1>2, ConsFacts
  <2> HIDE DEF w
  <2>2. Len(w) = Len(st)
    BY <1>2, <2>1
  <2>3. ASSUME NEW i \in 1..Len(st) PROVE w[i] = st[i]
    <3>1. CASE i = 1
      BY <1>2, <2>1, <3>1
    <3>2. CASE i # 1
      <4>1. i - 1 \in DOMAIN u /\ (i - 1) + 1 = i
        BY <1>2, <3>2
      <4>2. w[(i - 1) + 1] = u[i - 1] /\ u[i - 1] = st[(i - 1) + 1]
        BY <1>2, <2>1, <4>1
      <4> QED BY <4>1, <4>2
    <3> QED BY <3>1, <3>2
  <2>4. w = st
    BY <1>1, <2>1, <2>2, <2>3, SameFrames
  <2> QED BY <2>4 DEF w
<1>5. \A i \in DOMAIN u : u[i] \in Frames /\ Sound(u[i], v, h)
  BY <1>2, <1>4 DEF Ordered
<1>6. u # <<>> => 1 \in DOMAIN u
  BY <1>2
<1>7. Adds(f, u, st)
  BY <1>2, <1>3, Adding
<1>8. Heads(f, u, v, h)
  BY <1>2, <1>4, <1>5, <1>6 DEF Heads
<1>9. f = Head(st) /\ u = Tail(st)
  BY DEF f, u
<1> QED BY <1>1, <1>2, <1>4, <1>7, <1>8, <1>9

(* A frame that is put before others.                                      *)
Fits(f, u, v, h) ==
  /\ f \in Frames /\ u \in Seq(Frames) /\ Ordered(u, v, h) /\ Sound(f, v, h)
  /\ \A i \in DOMAIN u : Apart(f, u[i])
  /\ u # <<>> => Precedes(f, u[1], v)
  /\ f.do = "walk" => u # <<>>

LEMMA Pushing ==
  ASSUME NEW v, NEW h, NEW f, NEW u, Fits(f, u, v, h), NEW st, st = <<f>> \o u
  PROVE  /\ Ordered(st, v, h) /\ Adds(f, u, st)
         /\ Ready(f, v) => Proceeds(st, v, h)
<1>1. Ordered(st, v, h)
  BY OrderedCons DEF Fits
<1>2. Adds(f, u, st)
  BY Adding DEF Fits
<1>3. st[1] = f
  BY <1>2 DEF Adds
<1> QED BY <1>1, <1>2, <1>3 DEF Proceeds

(* The value of one slot changes, and what refers to its thing and type.   *)
Moves(v, r, tr, st, w, q, x, u, s) ==
  /\ \A y \in Slot : y # s => w[y] = v[y] /\ (y \in FreedBy(u) <=> y \in FreedBy(st))
  /\ \A t \in Thing : q[t] = r[t] - One(Refers(v, FreedBy(st))[s], t)
                                  + One(Refers(w, FreedBy(u))[s], t)
  /\ \A c \in Container : q[c] > 0 <=> r[c] > 0
  /\ x = tr - Typed(v)[s] + Typed(w)[s] + (Cardinality(Coming(u)) - Cardinality(Coming(st)))

LEMMA GoodAt ==
  ASSUME NEW v, NEW r, NEW h, NEW tr, NEW st, Good(v, r, h, tr, st),
         NEW w \in [Slot -> Values], NEW q \in [Thing -> Nat], NEW x \in Int,
         NEW u \in Seq(Frames), Proceeds(u, w, h), Vacated(w, q, u),
         Cardinality(Coming(u)) \in Nat, Cardinality(Coming(st)) \in Nat,
         NEW s \in Slot, Moves(v, r, tr, st, w, q, x, u, s)
  PROVE  Good(w, q, h, x, u)
<1> DEFINE to == Refers(v, FreedBy(st))
           new == Refers(w, FreedBy(u))
           typed == Typed(v)
           kinds == Typed(w)
           n == Cardinality(Coming(st))
           m == Cardinality(Coming(u))
<1>1. /\ r \in [Thing -> Nat] /\ tr \in Int /\ n \in Nat /\ m \in Nat
      /\ Sums(r, h, tr, to, typed, n)
  BY DEF Good
<1>2. \A y \in Slot : y # s => new[y] = to[y] /\ kinds[y] = typed[y]
  BY DEF Moves, Refers, Typed
<1>3. typed[s] \in {0, 1} /\ kinds[s] \in {0, 1}
  BY DEF Typed
<1>4. /\ \A t \in Thing : q[t] = r[t] - One(to[s], t) + One(new[s], t)
      /\ \A c \in Container : q[c] > 0 <=> r[c] > 0
      /\ x = tr - typed[s] + kinds[s] + (m - n)
  BY DEF Moves
<1> HIDE DEF to, new, typed, kinds, n, m
<1>5. One(typed[s], 1) = typed[s] /\ One(kinds[s], 1) = kinds[s]
  BY <1>3 DEF One
<1>6. x = tr - One(typed[s], 1) + One(kinds[s], 1) + (m - n)
  BY <1>4, <1>5
<1>7. Sums(q, h, x, new, kinds, m)
  <2>1. Shifts(r, tr, to, typed, n, s, q, x, new, kinds, m)
    BY <1>1, <1>2, <1>4, <1>6 DEF Shifts
  <2> QED BY <1>1, <2>1, SumsChange
<1>8. h \subseteq Thing
  BY DEF Good
<1> QED BY <1>7, <1>8 DEF Good, new, kinds, m

LEMMA VacatedAs ==
  ASSUME NEW v, NEW r, NEW st, Vacated(v, r, st), NEW w, NEW q, NEW u,
         \A c \in Container : q[c] = 0 => r[c] = 0,
         \A c \in Container : Clears(st, c) => Clears(u, c) \/ \A s \in SlotsOf(c) : w[s] = Gone,
         \A s \in Slot : v[s] = Gone => w[s] = Gone \/ r[Owner(s)] # 0
  PROVE  Vacated(w, q, u)
BY DEF Vacated, SlotsOf

(* A frame may rely on the same with other values of other slots.          *)
LEMMA SoundAs ==
  ASSUME NEW g \in Frames, NEW v, NEW h, NEW w, NEW k, Sound(g, v, h),
         Frees(g) => w[g.at] = v[g.at],
         g.do \in {"store", "erase"} => w[g.at] # Gone,
         g.do = "store" /\ g.from \in Slot => w[g.from] = v[g.from],
         g.do = "store" => Owner(g.at) \in k,
         g.do = "store" /\ g.from = Null /\ Holds(g.val) => g.val.to \in k,
         g.do = "assign" => g.of \in k
  PROVE  Sound(g, w, k)
BY DEF Sound, Frees

LEMMA SoundHandles ==
  ASSUME NEW g \in Frames, NEW v, NEW h, Sound(g, v, h)
  PROVE  /\ g.do = "store" => Owner(g.at) \in h /\ v[g.at] # Gone
         /\ g.do = "store" /\ g.from = Null /\ Holds(g.val) => g.val.to \in h
         /\ g.do = "assign" => g.of \in h
         /\ g.do = "erase" => v[g.at] # Gone
BY DEF Sound

-----------------------------------------------------------------------------
(* Values are freed.                                                       *)

(* A slot is empty when its value has been freed, and what waited for that *)
(* is next.                                                                *)
LEMMA EmptiedFrames ==
  ASSUME NEW v \in [Slot -> Values], NEW h, NEW f, NEW u, Heads(f, u, v, h), Frees(f),
         NEW w, w = [v EXCEPT ![f.at] = Empty]
  PROVE  Proceeds(u, w, h)
<1>1. f \in Frames /\ f.at \in Slot /\ u \in Seq(Frames)
  BY FrameKinds DEF Heads
<1>2. w[f.at] = Empty /\ \A s \in Slot : s # f.at => w[s] = v[s]
  BY <1>1
<1>3. ASSUME NEW i \in DOMAIN u PROVE Sound(u[i], w, h)
  <2> DEFINE g == u[i]
  <2>1. g \in Frames /\ Sound(g, v, h) /\ Apart(f, g) /\ g.do # "free"
    BY DEF Heads
  <2> HIDE DEF g
  <2>2. Frees(g) => g.do = "cleared" /\ g.at \in Slot /\ g.at # f.at
    BY <2>1, FrameKinds DEF Apart, KeepsOff
  <2>3. g.do \in {"store", "erase"} => w[g.at] # Gone
    BY <1>2, <2>1, FrameKinds, ValueFacts, SoundHandles
  <2>4. g.do = "store" /\ g.from \in Slot => g.from # f.at
    BY <2>1 DEF Apart, KeepsOff
  <2>5. Frees(g) => w[g.at] = v[g.at]
    BY <1>2, <2>2
  <2>6. g.do = "store" /\ g.from \in Slot => w[g.from] = v[g.from]
    BY <1>2, <2>4
  <2>7. /\ g.do = "store" => Owner(g.at) \in h
        /\ g.do = "store" /\ g.from = Null /\ Holds(g.val) => g.val.to \in h
        /\ g.do = "assign" => g.of \in h
    BY <2>1, SoundHandles
  <2>8. Sound(g, w, h)
    BY <2>1, <2>3, <2>5, <2>6, <2>7 DEF Sound
  <2> QED BY <2>8 DEF g
<1>4. \A s \in Slot : Holds(w[s]) => Holds(v[s]) /\ s # f.at
  BY <1>2, ValueFacts
<1>5. Ordered(u, w, h)
  <2>1. Ordered(u, v, h)
    BY DEF Heads
  <2> QED BY <1>1, <1>3, <1>4, <2>1, OrderedAs
<1>6. ASSUME u # <<>> PROVE Ready(u[1], w)
  <2> DEFINE g == u[1]
  <2>1. g \in Frames /\ Precedes(f, g, v) /\ g.do # "free"
    BY <1>6 DEF Heads
  <2> HIDE DEF g
  <2>2. f.do \in {"free", "cleared"}
    BY DEF Frees
  <2>3. g.do \in {"store", "erase"} => ~Holds(w[g.at])
    BY <1>2, <2>1, ValueFacts DEF Precedes
  <2>4. g.do = "walk" => \A s \in SlotsOf(g.of) : Holds(w[s]) => s \in g.todo
    BY <1>4, <2>1, SlotFacts DEF Precedes
  <2>5. g.do = "clear" => \A s \in SlotsOf(g.of) : ~Holds(w[s])
    <3> HAVE g.do = "clear"
    <3>1. g.of \in Container /\ g.of \notin Dict /\ Owner(f.at) = g.of
      BY <2>1, <2>2, FrameKinds DEF Precedes
    <3>2. PICK s \in Slot : SlotsOf(g.of) = {s}
      BY <3>1, AnySlot DEF Container
    <3>3. s = f.at
      BY <1>1, <3>1, <3>2, SlotFacts
    <3> QED BY <1>2, <3>2, <3>3, ValueFacts
  <2>6. g.do # "assign"
    BY <2>1, <2>2 DEF Precedes
  <2>7. Ready(g, w)
    BY <2>3, <2>4, <2>5, <2>6 DEF Ready
  <2> QED BY <2>7 DEF g
<1> QED BY <1>5, <1>6 DEF Proceeds

(* What a step does that empties a slot.                                   *)
LEMMA EmptiedGood ==
  ASSUME NEW v, NEW r, NEW h, NEW tr, NEW st, Good(v, r, h, tr, st),
         NEW f, NEW u, Heads(f, u, v, h), Adds(f, u, st), Frees(f), v[f.at] # Gone,
         NEW w, w = [v EXCEPT ![f.at] = Empty],
         NEW q \in [Thing -> Nat],
         \A t \in Thing : q[t] = r[t] - One(Refers(v, FreedBy(st))[f.at], t),
         \A c \in Container : q[c] > 0 <=> r[c] > 0
  PROVE  Good(w, q, h, tr - Typed(v)[f.at], u)
<1>1. /\ v \in [Slot -> Values] /\ r \in [Thing -> Nat] /\ tr \in Int /\ Vacated(v, r, st)
      /\ f \in Frames /\ f.at \in Slot /\ u \in Seq(Frames)
  BY FrameKinds DEF Heads, Good
<1>2. PICK s \in Slot : s = f.at
  BY <1>1
<1>3. w \in [Slot -> Values] /\ w[s] = Empty /\ \A y \in Slot : y # s => w[y] = v[y]
  BY <1>1, <1>2, ValueFacts
<1>4. Proceeds(u, w, h)
  BY <1>1, EmptiedFrames
<1>5. f.do \in {"free", "cleared"}
  BY DEF Frees
<1>6. /\ Cardinality(Coming(u)) \in Nat /\ Cardinality(Coming(st)) = Cardinality(Coming(u))
      /\ \A c : Clears(st, c) => Clears(u, c)
      /\ \A y : y # s => (y \in FreedBy(u) <=> y \in FreedBy(st))
  BY <1>2, <1>5 DEF Adds, ComingBy, Awaited
<1>7. Vacated(w, q, u)
  <2>1. \A c \in Container : q[c] = 0 => r[c] = 0
    <3> TAKE c \in Container
    <3>1. q[c] \in Nat /\ r[c] \in Nat
      BY <1>1 DEF Thing
    <3> QED BY <3>1
  <2>2. \A y \in Slot : v[y] = Gone => w[y] = Gone
    BY <1>2, <1>3
  <2> QED BY <1>1, <1>6, <2>1, <2>2 DEF Vacated
<1>8. Refers(w, FreedBy(u))[s] = Null /\ Typed(w)[s] = 0 /\ Typed(v)[s] \in {0, 1}
  BY <1>3, ValueFacts DEF Refers, Typed
<1>9. Moves(v, r, tr, st, w, q, tr - Typed(v)[s], u, s)
  <2>1. \A t \in Thing : q[t] = r[t] - One(Refers(v, FreedBy(st))[s], t)
                                     + One(Refers(w, FreedBy(u))[s], t)
    <3> TAKE t \in Thing
    <3>1. One(Null, t) = 0 /\ q[t] \in Nat
      BY ValueFacts DEF One
    <3>2. q[t] = r[t] - One(Refers(v, FreedBy(st))[s], t)
      BY <1>2
    <3> DEFINE n == r[t] - One(Refers(v, FreedBy(st))[s], t)
    <3> HIDE DEF n
    <3>3. n + 0 = n
      BY <3>1, <3>2 DEF n
    <3> QED BY <1>8, <3>1, <3>2, <3>3 DEF n
  <2>2. tr - Typed(v)[s]
          = tr - Typed(v)[s] + Typed(w)[s] + (Cardinality(Coming(u)) - Cardinality(Coming(st)))
    BY <1>1, <1>6, <1>8
  <2> QED BY <1>3, <1>6, <2>1, <2>2 DEF Moves
<1>10. tr - Typed(v)[s] \in Int
  BY <1>1, <1>8
<1>11. Cardinality(Coming(st)) \in Nat
  BY <1>6
<1>12. Good(w, q, h, tr - Typed(v)[s], u)
  <2> DEFINE x == tr - Typed(v)[s]
  <2> HIDE DEF x
  <2>1. x \in Int /\ Moves(v, r, tr, st, w, q, x, u, s)
    BY <1>9, <1>10 DEF x
  <2>2. Good(w, q, h, x, u)
    BY <1>1, <1>3, <1>4, <1>6, <1>7, <1>11, <2>1, GoodAt
  <2> QED BY <2>2 DEF x
<1> QED BY <1>2, <1>12

LEMMA FreeStep ==
  ASSUME fault = "none", Good(val, refs, held, typeRefs, stack), Free
  PROVE  fault' = "none" /\ Good(val', refs', held', typeRefs', stack')
<1>1. stack # <<>> /\ Head(stack).do = "free" /\ held' = held
  BY DEF Free, Doing, Script
<1>2. PICK f, u : /\ f = Head(stack) /\ u = Tail(stack) /\ Heads(f, u, val, held)
                  /\ Adds(f, u, stack) /\ Sound(f, val, held) /\ Ready(f, val)
  BY <1>1, Working
<1>3. /\ val \in [Slot -> Values] /\ refs \in [Thing -> Nat] /\ held \subseteq Thing /\ typeRefs \in Int
      /\ Vacated(val, refs, stack)
      /\ Sums(refs, held, typeRefs, Refers(val, FreedBy(stack)), Typed(val), Cardinality(Coming(stack)))
  BY DEF Good
<1>4. f \in Frames /\ u \in Seq(Frames) /\ f.do = "free" /\ Frees(f) /\ f.at \in Slot
  BY <1>1, <1>2, FrameKinds DEF Heads, Frees
<1>5. PICK s \in Slot, t \in Thing \cup {Null} : s = f.at /\ t = val[s].to /\ Holds(val[s])
  BY <1>2, <1>3, <1>4, ValueKinds DEF Sound
<1>6. /\ FreedBy(stack) = FreedBy(u) /\ Cardinality(Coming(u)) \in Nat
      /\ Cardinality(Coming(stack)) = Cardinality(Coming(u))
      /\ \A c : Clears(stack, c) <=> Clears(u, c)
  BY <1>2, <1>4 DEF Adds, ComingBy, Awaited
<1>7. s \notin FreedBy(u)
  <2>1. ASSUME NEW i \in DOMAIN u, u[i].do = "cleared" PROVE u[i].at # s
    BY <1>2, <1>4, <1>5, <2>1 DEF Heads, Apart, KeepsOff
  <2> QED BY <2>1, FreedAre
<1>8. Refers(val, FreedBy(stack))[s] = t
  BY <1>5, <1>6, <1>7 DEF Refers
<1>9. t # Null => t \in Thing /\ refs[t] \in Nat /\ refs[t] > 0 /\ (t \in Container => refs[t] > 1)
  BY <1>3, <1>5, <1>8, Alive
<1>10. /\ Typed(val)[s] = (IF Owner(s) \in AnyCell THEN 1 ELSE 0) /\ val[s] # Gone
  BY <1>5, ValueFacts DEF Typed
<1>11. CASE t = Null \/ refs[t] > 1
  <2> DEFINE w == [val EXCEPT ![s] = Empty]
             q == IF t = Null THEN refs ELSE [refs EXCEPT ![t] = @ - 1]
             x == typeRefs - Typed(val)[s]
  <2>1. fault' = fault /\ stack' = u /\ val' = w /\ typeRefs' = x /\ refs' = q
    <3>1. typeRefs = typeRefs - 0
      BY <1>3
    <3>2. Free /\ ~(t # Null /\ refs[t] = 0)
      BY <1>9
    <3> QED BY <1>2, <1>5, <1>10, <1>11, <3>1, <3>2 DEF Free, Emptied
  <2>2. q \in [Thing -> Nat]
    BY <1>3, <1>9, <1>11
  <2>3. \A y \in Thing : q[y] = refs[y] - One(t, y)
    BY <1>3, <1>9, ValueFacts DEF One
  <2>4. \A c \in Container : q[c] > 0 <=> refs[c] > 0
    <3> TAKE c \in Container
    <3>1. c \in Thing /\ refs[c] \in Nat
      BY <1>3 DEF Thing
    <3> QED BY <1>3, <1>9, <1>11, <3>1
  <2> HIDE DEF w, q, x
  <2>5. Good(w, q, held, typeRefs - Typed(val)[s], u)
    BY <1>2, <1>4, <1>5, <1>8, <1>10, <2>2, <2>3, <2>4, EmptiedGood DEF w
  <2> QED BY <1>1, <2>1, <2>5 DEF x
<1>12. CASE t # Null /\ refs[t] = 1
  <2> DEFINE cl == [do |-> "cleared", at |-> s]
             de == [do |-> "destructor", of |-> t]
             q == [refs EXCEPT ![t] = @ - 1]
  <2>1. cl \in Frames /\ de \in Frames /\ t \in Thing /\ t \notin Container
    <3>1. t \in Thing /\ t \notin Container
      BY <1>9, <1>12
    <3> QED BY <3>1, FrameTypes
  <2>2. PICK k : k = <<cl>> \o u
    OBVIOUS
  <2>3. PICK st : st = <<de>> \o k
    OBVIOUS
  <2>4. <<de, cl>> \o u = st
    <3> HIDE DEF cl, de
    <3> QED BY <1>4, <2>1, <2>2, <2>3, Joined, SMTT(60)
  <2>5. fault' = fault /\ stack' = st /\ val' = val /\ typeRefs' = typeRefs /\ refs' = q
    <3>1. stack' = <<de, cl>> \o u /\ fault' = fault /\ val' = val /\ typeRefs' = typeRefs /\ refs' = q
      BY <1>2, <1>5, <1>12 DEF Free
    <3> QED BY <2>4, <3>1
  <2>6. Ordered(k, val, held) /\ Adds(cl, u, k)
    <3>1. Sound(cl, val, held)
      BY <1>5 DEF Sound, Frees
    <3>2. \A i \in DOMAIN u : Apart(cl, u[i])
      BY <1>2, <1>4, <1>5 DEF Heads, Apart, KeepsOff, Frees
    <3>3. u # <<>> => Precedes(cl, u[1], val)
      BY <1>2, <1>4, <1>5 DEF Heads, Precedes, Frees
    <3>4. Ordered(u, val, held)
      BY <1>2 DEF Heads
    <3>5. cl.do # "walk"
      OBVIOUS
    <3> HIDE DEF cl
    <3>6. Fits(cl, u, val, held)
      BY <1>4, <2>1, <3>1, <3>2, <3>3, <3>4, <3>5 DEF Fits
    <3> QED BY <2>2, <3>6, Pushing
  <2>7. Ordered(st, val, held) /\ Adds(de, k, st) /\ Proceeds(st, val, held)
    <3>1. Sound(de, val, held) /\ Ready(de, val)
      BY DEF Sound, Frees, Ready
    <3>2. \A i \in DOMAIN k : Apart(de, k[i])
      BY DEF Apart, KeepsOff, Frees
    <3>3. k # <<>> /\ k[1] = cl /\ k \in Seq(Frames)
      BY <2>6 DEF Adds
    <3>4. Precedes(de, k[1], val)
      BY <3>3 DEF Precedes
    <3>5. de.do # "walk"
      OBVIOUS
    <3> HIDE DEF de
    <3>6. Fits(de, k, val, held)
      BY <2>1, <2>6, <3>1, <3>2, <3>3, <3>4, <3>5 DEF Fits
    <3> QED BY <2>3, <3>1, <3>6, Pushing
  <2>8. st \in Seq(Frames) /\ FreedBy(st) = FreedBy(u) \cup {s} /\ \A c : Clears(st, c) <=> Clears(u, c)
    BY <2>6, <2>7 DEF Adds
  <2>9. Cardinality(Coming(st)) = Cardinality(Coming(stack)) /\ Cardinality(Coming(stack)) \in Nat
    <3>1. ComingBy(cl) = 0 /\ ComingBy(de) = 0
      BY DEF ComingBy, Awaited
    <3> QED BY <1>6, <2>6, <2>7, <3>1 DEF Adds
  <2>10. q \in [Thing -> Nat] /\ \A y \in Thing : q[y] = refs[y] - One(t, y)
    BY <1>3, <1>9, <1>12, <2>1, ValueFacts DEF One
  <2>11. \A c \in Container : q[c] = refs[c]
    BY <1>3, <2>1 DEF Thing
  <2>12. Vacated(val, q, st)
    BY <1>3, <1>6, <2>8, <2>11 DEF Vacated
  <2>13. Refers(val, FreedBy(st))[s] = Null
    BY <2>8 DEF Refers
  <2> HIDE DEF cl, de, q
  <2>14. Moves(val, refs, typeRefs, stack, val, q, typeRefs, st, s)
    <3>1. \A y \in Thing : q[y] = refs[y] - One(Refers(val, FreedBy(stack))[s], y)
                                     + One(Refers(val, FreedBy(st))[s], y)
      <4> TAKE y \in Thing
      <4>1. One(Null, y) = 0 /\ q[y] \in Nat
        BY <2>10, ValueFacts DEF One
      <4>2. q[y] = refs[y] - One(t, y)
        BY <2>10
      <4> DEFINE n == refs[y] - One(t, y)
      <4> HIDE DEF n
      <4>3. n + 0 = n
        BY <4>1, <4>2 DEF n
      <4> QED BY <1>8, <2>13, <4>1, <4>2, <4>3 DEF n
    <3>2. typeRefs = typeRefs - Typed(val)[s] + Typed(val)[s]
                       + (Cardinality(Coming(st)) - Cardinality(Coming(stack)))
      <4>1. Typed(val)[s] \in Int
        BY <1>10
      <4> QED BY <1>3, <2>9, <4>1
    <3>3. \A y \in Slot : y # s => (y \in FreedBy(st) <=> y \in FreedBy(stack))
      BY <1>6, <2>8
    <3> QED BY <2>11, <3>1, <3>2, <3>3 DEF Moves
  <2>15. Good(val, q, held, typeRefs, st)
    BY <1>3, <2>7, <2>8, <2>9, <2>10, <2>12, <2>14, GoodAt
  <2> QED BY <1>1, <2>5, <2>15
<1> QED BY <1>9, <1>11, <1>12

LEMMA ClearedStep ==
  ASSUME fault = "none", Good(val, refs, held, typeRefs, stack), Cleared
  PROVE  fault' = "none" /\ Good(val', refs', held', typeRefs', stack')
<1>1. stack # <<>> /\ Head(stack).do = "cleared" /\ held' = held /\ refs' = refs
  BY DEF Cleared, Doing, Script
<1>2. PICK f, u : /\ f = Head(stack) /\ u = Tail(stack) /\ Heads(f, u, val, held)
                  /\ Adds(f, u, stack) /\ Sound(f, val, held) /\ Ready(f, val)
  BY <1>1, Working
<1>3. val \in [Slot -> Values] /\ refs \in [Thing -> Nat] /\ typeRefs \in Int
  BY DEF Good
<1>4. f \in Frames /\ u \in Seq(Frames) /\ f.do = "cleared" /\ Frees(f) /\ f.at \in Slot
  BY <1>1, <1>2, FrameKinds DEF Heads, Frees
<1>5. PICK s \in Slot : s = f.at /\ Holds(val[s]) /\ val[s] # Gone
  BY <1>2, <1>3, <1>4, ValueFacts DEF Sound
<1>6. Refers(val, FreedBy(stack))[s] = Null
  BY <1>2, <1>4, <1>5 DEF Refers, Adds
<1>7. Typed(val)[s] = (IF Owner(s) \in AnyCell THEN 1 ELSE 0)
  BY <1>5 DEF Typed
<1> DEFINE w == [val EXCEPT ![s] = Empty]
           x == typeRefs - Typed(val)[s]
<1>8. fault' = fault /\ stack' = u /\ val' = w /\ typeRefs' = x
  <2>1. typeRefs = typeRefs - 0
    BY <1>3
  <2> QED BY <1>2, <1>5, <1>7, <2>1 DEF Cleared, Emptied
<1>9. \A y \in Thing : refs[y] = refs[y] - One(Refers(val, FreedBy(stack))[s], y)
  <2> TAKE y \in Thing
  <2>1. refs[y] \in Nat /\ One(Null, y) = 0
    BY <1>3, ValueFacts DEF One
  <2> QED BY <1>6, <2>1
<1> HIDE DEF w, x
<1>10. PICK q : q = refs
  OBVIOUS
<1>11. /\ q \in [Thing -> Nat] /\ \A c \in Container : q[c] > 0 <=> refs[c] > 0
       /\ \A y \in Thing : q[y] = refs[y] - One(Refers(val, FreedBy(stack))[s], y)
  BY <1>3, <1>9, <1>10
<1>12. Good(w, q, held, typeRefs - Typed(val)[s], u)
  BY <1>2, <1>4, <1>5, <1>11, EmptiedGood, SMTT(60) DEF w
<1> QED BY <1>1, <1>8, <1>10, <1>12 DEF x

-----------------------------------------------------------------------------
(* Nodes come and go that hold nothing.                                    *)

Calm(v, w) == \A y \in Slot : w[y] = v[y] \/ (~Holds(v[y]) /\ ~Holds(w[y]))

LEMMA SumsCalm ==
  ASSUME NEW r, NEW h, NEW tr \in Int, NEW v, NEW freed, NEW n \in Nat,
         Sums(r, h, tr, Refers(v, freed), Typed(v), n),
         NEW w, Calm(v, w), NEW m \in Nat, NEW x \in Int, x = tr + (m - n)
  PROVE  Sums(r, h, x, Refers(w, freed), Typed(w), m)
<1>1. PICK to, typed, new, kinds : /\ to = Refers(v, freed) /\ typed = Typed(v)
                                   /\ new = Refers(w, freed) /\ kinds = Typed(w)
  OBVIOUS
<1>2. \A y \in Slot : new[y] = to[y] /\ kinds[y] = typed[y]
  BY <1>1 DEF Calm, Refers, Typed
<1>3. Sums(r, h, tr, new, kinds, n)
  BY <1>1, <1>2, SumsKept
<1>4. Count(kinds, 1) \in Nat
  BY CountType
<1>5. tr = Count(kinds, 1) + n
  BY <1>3 DEF Sums
<1>6. x = Count(kinds, 1) + m
  BY <1>4, <1>5
<1>7. Sums(r, h, x, new, kinds, m)
  BY <1>3, <1>6 DEF Sums
<1> QED BY <1>1, <1>7

LEMMA GoodCalm ==
  ASSUME NEW v, NEW r, NEW h, NEW tr, NEW st, Good(v, r, h, tr, st),
         NEW w \in [Slot -> Values], Calm(v, w), NEW u \in Seq(Frames), Proceeds(u, w, h),
         Vacated(w, r, u), FreedBy(u) = FreedBy(st),
         Cardinality(Coming(u)) \in Nat, Cardinality(Coming(st)) \in Nat,
         NEW x \in Int, x = tr + (Cardinality(Coming(u)) - Cardinality(Coming(st)))
  PROVE  Good(w, r, h, x, u)
<1>1. PICK n, m, freed : n = Cardinality(Coming(st)) /\ m = Cardinality(Coming(u)) /\ freed = FreedBy(st)
  OBVIOUS
<1>2. r \in [Thing -> Nat] /\ h \subseteq Thing /\ tr \in Int
      /\ Sums(r, h, tr, Refers(v, freed), Typed(v), n)
  BY <1>1 DEF Good
<1>3. n \in Nat /\ m \in Nat /\ x = tr + (m - n)
  BY <1>1
<1>4. Sums(r, h, x, Refers(w, freed), Typed(w), m)
  BY <1>2, <1>3, SumsCalm
<1> QED BY <1>1, <1>2, <1>4 DEF Good

(* What is next when a frame is done that other frames do not wait for.    *)
LEMMA DoneFrames ==
  ASSUME NEW v, NEW h, NEW f, NEW u, Heads(f, u, v, h),
         f.do \in {"destructor", "erase", "store", "assign"}, u # <<>>
  PROVE  u[1] \in Frames /\ u[1].do \in {"cleared", "destructor"} /\ \A w : Ready(u[1], w)
<1> DEFINE g == u[1]
<1>1. g \in Frames /\ Precedes(f, g, v)
  BY DEF Heads
<1> HIDE DEF g
<1>2. ~Frees(f) /\ f.do \notin {"walk", "clear"}
  BY DEF Frees
<1>3. g.do \in {"cleared", "destructor"}
  BY <1>1, <1>2, FrameKinds DEF Precedes
<1>4. \A w : Ready(g, w)
  BY <1>3 DEF Ready
<1> QED BY <1>1, <1>3, <1>4 DEF g

LEMMA DestructorStep ==
  ASSUME fault = "none", Good(val, refs, held, typeRefs, stack), DestructorReturns
  PROVE  fault' = "none" /\ Good(val', refs', held', typeRefs', stack')
<1>1. /\ stack # <<>> /\ Head(stack).do = "destructor" /\ stack' = Tail(stack)
      /\ val' = val /\ refs' = refs /\ typeRefs' = typeRefs /\ fault' = fault /\ held' = held
  BY DEF DestructorReturns, Doing, Script
<1>2. PICK f, u : /\ f = Head(stack) /\ u = Tail(stack) /\ Heads(f, u, val, held)
                  /\ Adds(f, u, stack) /\ Sound(f, val, held) /\ Ready(f, val)
  BY <1>1, Working
<1>3. /\ u \in Seq(Frames) /\ FreedBy(stack) = FreedBy(u) /\ Cardinality(Coming(u)) \in Nat
      /\ Cardinality(Coming(stack)) = Cardinality(Coming(u))
      /\ \A c : Clears(stack, c) <=> Clears(u, c)
  BY <1>1, <1>2 DEF Adds, ComingBy, Awaited
<1>4. Proceeds(u, val, held)
  BY <1>1, <1>2, DoneFrames DEF Heads, Proceeds
<1>5. Vacated(val, refs, u)
  BY <1>3 DEF Good, Vacated
<1>6. Good(val, refs, held, typeRefs, u)
  BY <1>3, <1>4, <1>5 DEF Good
<1> QED BY <1>1, <1>2, <1>6

(* What C++ comes back to, the next frame keeps off.                       *)
LEMMA HeadsKeepOff ==
  ASSUME NEW v, NEW h, NEW f, NEW u, Heads(f, u, v, h), NEW i \in DOMAIN u,
         u[i].do \in {"cleared", "store", "erase"}, i # 1 \/ ~Frees(f)
  PROVE  KeepsOff(f, u[i].at)
<1>1. CASE u[i].do = "cleared"
  BY <1>1 DEF Heads, Apart
<1>2. CASE u[i].do \in {"store", "erase"}
  <2>1. u \in Seq(Frames) /\ DOMAIN u = 1..Len(u) /\ Len(u) \in Nat
    BY DEF Heads
  <2>2. i # 1
    BY <1>2, <2>1 DEF Heads, Precedes
  <2>3. PICK j \in DOMAIN u : i = j + 1
    <3>1. i - 1 \in DOMAIN u /\ i = (i - 1) + 1
      BY <2>1, <2>2
    <3> QED BY <3>1
  <2>4. Precedes(u[j], u[j + 1], v) /\ u[j].do # "free"
    BY <2>3 DEF Heads, Ordered
  <2>5. u[j].do = "cleared" /\ u[j].at = u[i].at
    BY <1>2, <2>3, <2>4 DEF Precedes, Frees
  <2> QED BY <2>5 DEF Heads, Apart
<1> QED BY <1>1, <1>2

LEMMA EraseStep ==
  ASSUME fault = "none", Good(val, refs, held, typeRefs, stack), Erase
  PROVE  fault' = "none" /\ Good(val', refs', held', typeRefs', stack')
<1>1. /\ stack # <<>> /\ Head(stack).do = "erase" /\ stack' = Tail(stack)
      /\ refs' = refs /\ typeRefs' = typeRefs /\ held' = held
  BY DEF Erase, Doing, Script
<1>2. PICK f, u : /\ f = Head(stack) /\ u = Tail(stack) /\ Heads(f, u, val, held)
                  /\ Adds(f, u, stack) /\ Sound(f, val, held) /\ Ready(f, val)
  BY <1>1, Working
<1>3. /\ u \in Seq(Frames) /\ FreedBy(stack) = FreedBy(u) /\ Cardinality(Coming(u)) \in Nat
      /\ Cardinality(Coming(stack)) = Cardinality(Coming(u))
      /\ \A c : Clears(stack, c) <=> Clears(u, c)
  BY <1>1, <1>2 DEF Adds, ComingBy, Awaited
<1>4. val \in [Slot -> Values] /\ refs \in [Thing -> Nat] /\ typeRefs \in Int
  BY DEF Good
<1>5. f.do = "erase" /\ f \in Frames /\ ~Frees(f)
  BY <1>1, <1>2 DEF Heads, Frees
<1>6. PICK s \in Slot : s = f.at /\ ~Holds(val[s]) /\ val[s] # Gone
  BY <1>2, <1>5, FrameKinds DEF Sound, Ready
<1>7. PICK w : w = [val EXCEPT ![s] = Gone]
  OBVIOUS
<1>8. w \in [Slot -> Values] /\ w[s] = Gone /\ \A y \in Slot : y # s => w[y] = val[y]
  BY <1>4, <1>7, ValueFacts
<1>9. fault' = fault /\ val' = w
  <2>1. Destroyed({s})
    BY <1>2, <1>5, <1>6 DEF Erase
  <2>2. fault' = fault /\ val' = [y \in Slot |-> IF y \in {s} THEN Gone ELSE val[y]]
    BY <1>6, <2>1 DEF Destroyed
  <2>3. w = [y \in Slot |-> w[y]] /\ \A y \in Slot : w[y] = IF y \in {s} THEN Gone ELSE val[y]
    BY <1>8
  <2> QED BY <2>2, <2>3
<1>10. ASSUME NEW i \in DOMAIN u PROVE Sound(u[i], w, held)
  <2> DEFINE g == u[i]
  <2>1. g \in Frames /\ Sound(g, val, held) /\ Apart(f, g) /\ g.do # "free"
    BY <1>2 DEF Heads
  <2>2. g.do \in {"cleared", "store", "erase"} => g.at # s
    <3> HAVE g.do \in {"cleared", "store", "erase"}
    <3>1. KeepsOff(f, u[i].at)
      BY <1>2, <1>5, HeadsKeepOff
    <3> QED BY <1>5, <1>6, <3>1 DEF KeepsOff
  <2> HIDE DEF g
  <2>3. Frees(g) => g.do = "cleared" /\ g.at \in Slot
    BY <2>1, FrameKinds
  <2>4. Frees(g) => w[g.at] = val[g.at]
    BY <1>8, <2>2, <2>3
  <2>5. g.do \in {"store", "erase"} => w[g.at] # Gone
    BY <1>8, <2>1, <2>2, FrameKinds, SoundHandles
  <2>6. g.do = "store" /\ g.from \in Slot => w[g.from] = val[g.from]
    BY <1>5, <1>6, <1>8, <2>1 DEF Apart, KeepsOff
  <2>7. /\ g.do = "store" => Owner(g.at) \in held
        /\ g.do = "store" /\ g.from = Null /\ Holds(g.val) => g.val.to \in held
        /\ g.do = "assign" => g.of \in held
    BY <2>1, SoundHandles
  <2>8. Sound(g, w, held)
    BY <2>1, <2>4, <2>5, <2>6, <2>7 DEF Sound
  <2> QED BY <2>8 DEF g
<1>11. \A y \in Slot : Holds(w[y]) => Holds(val[y])
  BY <1>8, ValueFacts
<1>12. Ordered(u, w, held)
  BY <1>2, <1>3, <1>10, <1>11, OrderedAs DEF Heads
<1>13. Proceeds(u, w, held)
  BY <1>2, <1>5, <1>12, DoneFrames DEF Proceeds
<1>14. Calm(val, w)
  BY <1>6, <1>8, ValueFacts DEF Calm
<1>15. Vacated(w, refs, u)
  BY <1>3, <1>8, SlotFacts DEF Good, Vacated
<1>16. typeRefs = typeRefs + (Cardinality(Coming(u)) - Cardinality(Coming(stack)))
  BY <1>3, <1>4
<1>17. Good(w, refs, held, typeRefs, u)
  BY <1>3, <1>4, <1>8, <1>13, <1>14, <1>15, <1>16, GoodCalm
<1> QED BY <1>1, <1>2, <1>9, <1>17

LEMMA ClearStep ==
  ASSUME fault = "none", Good(val, refs, held, typeRefs, stack), Clear
  PROVE  fault' = "none" /\ Good(val', refs', held', typeRefs', stack')
<1>1. /\ stack # <<>> /\ Head(stack).do = "clear" /\ stack' = Tail(stack)
      /\ refs' = refs /\ typeRefs' = typeRefs /\ held' = held
  BY DEF Clear, Doing, Script
<1>2. PICK f, u : /\ f = Head(stack) /\ u = Tail(stack) /\ Heads(f, u, val, held)
                  /\ Adds(f, u, stack) /\ Sound(f, val, held) /\ Ready(f, val)
  BY <1>1, Working
<1>3. val \in [Slot -> Values] /\ refs \in [Thing -> Nat] /\ typeRefs \in Int
  BY DEF Good
<1>4. f.do = "clear" /\ f \in Frames /\ ~Frees(f)
  BY <1>1, <1>2 DEF Heads, Frees
<1>5. PICK c \in Container : c = f.of /\ \A s \in SlotsOf(c) : ~Holds(val[s])
  BY <1>2, <1>4, FrameKinds DEF Ready
<1>6. /\ u \in Seq(Frames) /\ FreedBy(stack) = FreedBy(u) /\ Cardinality(Coming(u)) \in Nat
      /\ Cardinality(Coming(stack)) = Cardinality(Coming(u))
      /\ \A d : d # c => (Clears(stack, d) <=> Clears(u, d))
  BY <1>2, <1>4, <1>5 DEF Adds, ComingBy, Awaited
<1>7. PICK w : w = [s \in Slot |-> IF s \in SlotsOf(c) THEN Gone ELSE val[s]]
  OBVIOUS
<1>8. /\ w \in [Slot -> Values]
      /\ \A s \in Slot : (Owner(s) = c => w[s] = Gone) /\ (Owner(s) # c => w[s] = val[s])
  BY <1>3, <1>7, ValueFacts, SlotFacts
<1>9. fault' = fault /\ val' = w
  <2>1. Destroyed(SlotsOf(c))
    BY <1>2, <1>5 DEF Clear
  <2> QED BY <1>5, <1>7, <2>1 DEF Destroyed
<1>10. ASSUME NEW i \in DOMAIN u PROVE Sound(u[i], w, held)
  <2> DEFINE g == u[i]
  <2>1. g \in Frames /\ Sound(g, val, held) /\ Apart(f, g) /\ g.do # "free"
    BY <1>2 DEF Heads
  <2>2. g.do \in {"cleared", "store", "erase"} => Owner(g.at) # c
    <3> HAVE g.do \in {"cleared", "store", "erase"}
    <3>1. KeepsOff(f, u[i].at)
      BY <1>2, <1>4, HeadsKeepOff
    <3> QED BY <1>4, <1>5, <3>1 DEF KeepsOff
  <2> HIDE DEF g
  <2>3. Frees(g) => g.do = "cleared" /\ g.at \in Slot
    BY <2>1, FrameKinds
  <2>4. Frees(g) => w[g.at] = val[g.at]
    BY <1>8, <2>2, <2>3
  <2>5. g.do \in {"store", "erase"} => w[g.at] # Gone
    BY <1>8, <2>1, <2>2, FrameKinds, SoundHandles
  <2>6. g.do = "store" /\ g.from \in Slot => w[g.from] = val[g.from]
    BY <1>4, <1>5, <1>8, <2>1 DEF Apart, KeepsOff
  <2>7. /\ g.do = "store" => Owner(g.at) \in held
        /\ g.do = "store" /\ g.from = Null /\ Holds(g.val) => g.val.to \in held
        /\ g.do = "assign" => g.of \in held
    BY <2>1, SoundHandles
  <2>8. Sound(g, w, held)
    BY <2>1, <2>4, <2>5, <2>6, <2>7 DEF Sound
  <2> QED BY <2>8 DEF g
<1>11. \A s \in Slot : Holds(w[s]) => Holds(val[s])
  BY <1>8, ValueFacts
<1>12. Ordered(u, w, held)
  BY <1>2, <1>6, <1>10, <1>11, OrderedAs DEF Heads
<1>13. ASSUME u # <<>> PROVE Ready(u[1], w)
  <2> DEFINE g == u[1]
  <2>1. g \in Frames /\ Precedes(f, g, val)
    BY <1>2, <1>13 DEF Heads
  <2> HIDE DEF g
  <2>2. g.do \in {"cleared", "destructor", "assign"} /\ (g.do = "assign" => g.of = c)
    BY <1>4, <1>5, <2>1, FrameKinds DEF Precedes
  <2>3. Ready(g, w)
    BY <1>8, <2>2, SlotFacts DEF Ready
  <2> QED BY <2>3 DEF g
<1>14. Proceeds(u, w, held)
  BY <1>12, <1>13 DEF Proceeds
<1>15. Calm(val, w)
  BY <1>5, <1>8, ValueFacts, SlotFacts DEF Calm
<1>16. Vacated(w, refs, u)
  <2>1. ASSUME NEW d \in Container, refs[d] = 0
        PROVE  Clears(u, d) \/ \A s \in SlotsOf(d) : w[s] = Gone
    <3>1. Clears(stack, d) \/ \A s \in SlotsOf(d) : val[s] = Gone
      BY <2>1 DEF Good, Vacated
    <3> QED BY <1>6, <1>8, <3>1, SlotFacts
  <2> QED BY <2>1 DEF Vacated
<1>17. typeRefs = typeRefs + (Cardinality(Coming(u)) - Cardinality(Coming(stack)))
  BY <1>3, <1>6
<1>18. Cardinality(Coming(stack)) \in Nat
  BY <1>6
<1>19. Good(w, refs, held, typeRefs, u)
  BY <1>3, <1>6, <1>8, <1>14, <1>15, <1>16, <1>17, <1>18, GoodCalm
<1> QED BY <1>1, <1>2, <1>9, <1>19

-----------------------------------------------------------------------------
(* Values are stored.                                                      *)

Referred(z) == IF Holds(z) THEN z.to ELSE Null

(* What storing a value of the kind that was waited for does.              *)
LEMMA StoredGood ==
  ASSUME NEW v, NEW r, NEW h, NEW tr, NEW st, Good(v, r, h, tr, st),
         NEW f, NEW u, Heads(f, u, v, h), Adds(f, u, st), Sound(f, v, h), Ready(f, v),
         f.do = "store", NEW z \in Values, z # Gone, Holds(z) <=> Holds(f.val),
         NEW w, w = [v EXCEPT ![f.at] = z],
         NEW q \in [Thing -> Nat],
         \A t \in Thing : q[t] = r[t] + One(Referred(z), t),
         \A c \in Container : q[c] > 0 <=> r[c] > 0
  PROVE  Good(w, q, h, tr, u)
<1>1. /\ v \in [Slot -> Values] /\ r \in [Thing -> Nat] /\ tr \in Int /\ Vacated(v, r, st)
      /\ f \in Frames /\ u \in Seq(Frames) /\ ~Frees(f)
  BY DEF Heads, Good, Frees
<1>2. PICK s \in Slot : s = f.at /\ ~Holds(v[s]) /\ v[s] # Gone
  BY <1>1, FrameKinds DEF Sound, Ready
<1>3. w \in [Slot -> Values] /\ w[s] = z /\ \A y \in Slot : y # s => w[y] = v[y]
  BY <1>1, <1>2
<1>4. /\ Cardinality(Coming(u)) \in Nat
      /\ Cardinality(Coming(st)) = Cardinality(Coming(u)) + ComingBy(f)
      /\ FreedBy(st) = FreedBy(u) /\ \A c : Clears(st, c) <=> Clears(u, c)
  BY DEF Adds
<1>5. ASSUME NEW i \in DOMAIN u PROVE Sound(u[i], w, h)
  <2> DEFINE g == u[i]
  <2>1. g \in Frames /\ Sound(g, v, h) /\ Apart(f, g) /\ g.do # "free"
    BY DEF Heads
  <2> HIDE DEF g
  <2>2. Frees(g) => g.do = "cleared" /\ g.at \in Slot /\ g.at # s
    BY <1>2, <2>1, FrameKinds DEF Apart, KeepsOff
  <2>3. Frees(g) => w[g.at] = v[g.at]
    BY <1>3, <2>2
  <2>4. g.do \in {"store", "erase"} => w[g.at] # Gone
    BY <1>3, <2>1, FrameKinds, SoundHandles
  <2>5. g.do = "store" /\ g.from \in Slot => w[g.from] = v[g.from]
    BY <1>2, <1>3, <2>1 DEF Apart, KeepsOff
  <2>6. /\ g.do = "store" => Owner(g.at) \in h
        /\ g.do = "store" /\ g.from = Null /\ Holds(g.val) => g.val.to \in h
        /\ g.do = "assign" => g.of \in h
    BY <2>1, SoundHandles
  <2>7. Sound(g, w, h)
    BY <2>1, <2>3, <2>4, <2>5, <2>6 DEF Sound
  <2> QED BY <2>7 DEF g
<1>6. ASSUME NEW i \in DOMAIN u, NEW y \in Slot,
             u[i].do = "walk", Owner(y) = u[i].of, Holds(w[y])
      PROVE  Holds(v[y]) \/ y \in u[i].todo
  BY <1>2, <1>3, <1>6 DEF Heads, Apart
<1>7. Ordered(u, w, h)
  BY <1>1, <1>5, <1>6, OrderedAs DEF Heads
<1>8. Proceeds(u, w, h)
  BY <1>7, DoneFrames DEF Proceeds
<1>9. Vacated(w, q, u)
  <2>1. \A c \in Container : q[c] = 0 => r[c] = 0
    <3> TAKE c \in Container
    <3>1. q[c] \in Nat /\ r[c] \in Nat
      BY <1>1 DEF Thing
    <3> QED BY <3>1
  <2>2. \A y \in Slot : v[y] = Gone => w[y] = Gone
    BY <1>2, <1>3
  <2> QED BY <1>1, <1>4, <2>1, <2>2 DEF Vacated
<1>10. s \notin FreedBy(u)
  <2>1. ASSUME NEW i \in DOMAIN u, u[i].do = "cleared" PROVE u[i].at # s
    BY <1>2, <2>1 DEF Heads, Apart, KeepsOff
  <2> QED BY <2>1, FreedAre
<1>11. Refers(v, FreedBy(st))[s] = Null /\ Refers(w, FreedBy(u))[s] = Referred(z)
  BY <1>2, <1>3, <1>10 DEF Refers, Referred
<1>12. Typed(v)[s] = 0 /\ Typed(w)[s] = ComingBy(f)
  BY <1>2, <1>3 DEF Typed, ComingBy, Awaited
<1>13. Moves(v, r, tr, st, w, q, tr, u, s)
  <2>1. \A t \in Thing : q[t] = r[t] - One(Refers(v, FreedBy(st))[s], t)
                                     + One(Refers(w, FreedBy(u))[s], t)
    <3> TAKE t \in Thing
    <3>1. One(Null, t) = 0 /\ r[t] \in Nat
      BY <1>1, ValueFacts DEF One
    <3>2. q[t] = (r[t] - 0) + One(Referred(z), t)
      BY <3>1
    <3> QED BY <1>11, <3>1, <3>2
  <2>2. tr = tr - Typed(v)[s] + Typed(w)[s] + (Cardinality(Coming(u)) - Cardinality(Coming(st)))
    <3>1. ComingBy(f) \in Nat
      BY DEF ComingBy
    <3> QED BY <1>1, <1>4, <1>12, <3>1
  <2> QED BY <1>3, <1>4, <2>1, <2>2 DEF Moves
<1>14. Cardinality(Coming(st)) \in Nat
  BY <1>4 DEF ComingBy
<1> QED BY <1>1, <1>3, <1>4, <1>8, <1>9, <1>13, <1>14, GoodAt

LEMMA StoreStep ==
  ASSUME fault = "none", Good(val, refs, held, typeRefs, stack), Store
  PROVE  fault' = "none" /\ Good(val', refs', held', typeRefs', stack')
<1>1. /\ stack # <<>> /\ Head(stack).do = "store" /\ stack' = Tail(stack)
      /\ typeRefs' = typeRefs /\ held' = held
  BY DEF Store, Doing, Script
<1>2. PICK f, u : /\ f = Head(stack) /\ u = Tail(stack) /\ Heads(f, u, val, held)
                  /\ Adds(f, u, stack) /\ Sound(f, val, held) /\ Ready(f, val)
  BY <1>1, Working
<1>3. /\ val \in [Slot -> Values] /\ refs \in [Thing -> Nat] /\ held \subseteq Thing
      /\ Sums(refs, held, typeRefs, Refers(val, FreedBy(stack)), Typed(val), Cardinality(Coming(stack)))
  BY DEF Good
<1>4. f \in Frames /\ u \in Seq(Frames) /\ f.do = "store"
  BY <1>1, <1>2 DEF Heads
<1>5. PICK s \in Slot, v \in Values, from \in Slot \cup {Null} :
        s = f.at /\ v = f.val /\ from = f.from
  BY <1>4, FrameKinds
<1>6. /\ val[s] # Gone /\ v # Gone /\ ~Holds(val[s])
      /\ from \in Slot => val[from] = v
      /\ from = s => ~Holds(v)
      /\ from = Null /\ Holds(v) => v.to \in held
  BY <1>2, <1>4, <1>5 DEF Sound, Ready
<1>7. ASSUME Holds(v), v.to # Null
      PROVE  v.to \in Thing /\ refs[v.to] \in Nat /\ refs[v.to] > 0
  <2>1. v.to \in Thing
    BY <1>7, ValueKinds
  <2>2. CASE from = Null
    BY <1>3, <1>6, <1>7, <2>1, <2>2, Alive
  <2>3. CASE from \in Slot
    <3>1. from \notin FreedBy(u)
      <4>1. ASSUME NEW i \in DOMAIN u, u[i].do = "cleared" PROVE u[i].at # from
        BY <1>2, <1>4, <1>5, <4>1 DEF Heads, Apart
      <4> QED BY <4>1, FreedAre
    <3>2. FreedBy(stack) = FreedBy(u)
      BY <1>2, <1>4 DEF Adds
    <3>3. Refers(val, FreedBy(stack))[from] = v.to
      BY <1>6, <1>7, <2>3, <3>1, <3>2 DEF Refers
    <3> QED BY <1>3, <2>1, <2>3, <3>3, Alive
  <2> QED BY <2>2, <2>3
<1>8. ~(f.from = s /\ f.val.type = "handle")
  BY <1>5, <1>6, ValueKinds
<1>9. ~(val[s] = Gone \/ (from \in Slot /\ val[from] = Gone))
      /\ ~(Holds(v) /\ v.to # Null /\ refs[v.to] = 0)
  BY <1>6, <1>7
<1>10. /\ fault' = fault
       /\ IF v.type = "object"
          THEN \E o \in Object :
                 Unused(o) /\ val' = [val EXCEPT ![s] = Copy(o)] /\ refs' = [refs EXCEPT ![o] = 1]
          ELSE /\ val' = [val EXCEPT ![s] = v]
               /\ refs' = IF Holds(v) /\ v.to # Null
                          THEN [refs EXCEPT ![v.to] = @ + 1] ELSE refs
  BY <1>2, <1>5, <1>8, <1>9, Zenon DEF Store
<1>11. ASSUME NEW z \in Values, z # Gone, Holds(z) <=> Holds(v), val' = [val EXCEPT ![s] = z],
              refs' \in [Thing -> Nat], \A t \in Thing : refs'[t] = refs[t] + One(Referred(z), t),
              \A c \in Container : refs'[c] > 0 <=> refs[c] > 0
       PROVE  Good(val', refs', held', typeRefs', stack')
  <2>1. PICK w, q : w = [val EXCEPT ![s] = z] /\ q = refs'
    OBVIOUS
  <2>2. /\ q \in [Thing -> Nat] /\ \A t \in Thing : q[t] = refs[t] + One(Referred(z), t)
        /\ \A c \in Container : q[c] > 0 <=> refs[c] > 0
    BY <1>11, <2>1
  <2>3. /\ Heads(f, u, val, held) /\ Adds(f, u, stack) /\ Sound(f, val, held) /\ Ready(f, val)
        /\ f.do = "store" /\ z \in Values /\ z # Gone /\ (Holds(z) <=> Holds(f.val))
        /\ w = [val EXCEPT ![f.at] = z]
    BY <1>2, <1>4, <1>5, <1>11, <2>1
  <2>4. Good(w, q, held, typeRefs, u)
    BY <2>2, <2>3, StoredGood, ZenonT(60)
  <2> QED BY <1>1, <1>2, <1>11, <2>1, <2>4
<1>12. CASE v.type = "object"
  <2>1. PICK o \in Object :
          Unused(o) /\ val' = [val EXCEPT ![s] = Copy(o)] /\ refs' = [refs EXCEPT ![o] = 1]
    BY <1>10, <1>12
  <2>2. refs[o] = 0 /\ o \in Thing /\ o \notin Container
    BY <2>1, CellsAssumption DEF Unused, Thing
  <2>3. Copy(o) \in Values /\ Holds(Copy(o)) /\ Copy(o) # Gone /\ Referred(Copy(o)) = o /\ Holds(v)
    BY <1>12, ValueFacts, ValueKinds DEF Referred
  <2>4. refs' \in [Thing -> Nat] /\ \A t \in Thing : refs'[t] = refs[t] + One(o, t)
    BY <1>3, <2>1, <2>2 DEF One
  <2>5. \A c \in Container : refs'[c] > 0 <=> refs[c] > 0
    BY <1>3, <2>1, <2>2 DEF Thing
  <2> QED BY <1>10, <1>11, <2>1, <2>3, <2>4, <2>5
<1>13. CASE v.type # "object" /\ Holds(v) /\ v.to # Null
  <2>1. val' = [val EXCEPT ![s] = v] /\ refs' = [refs EXCEPT ![v.to] = @ + 1]
    BY <1>10, <1>13
  <2>2. refs' \in [Thing -> Nat] /\ \A t \in Thing : refs'[t] = refs[t] + One(Referred(v), t)
    BY <1>3, <1>7, <1>13, <2>1 DEF One, Referred
  <2>3. \A c \in Container : refs'[c] > 0 <=> refs[c] > 0
    BY <1>3, <1>7, <1>13, <2>1 DEF Thing
  <2> QED BY <1>6, <1>10, <1>11, <2>1, <2>2, <2>3
<1>14. CASE v.type # "object" /\ ~(Holds(v) /\ v.to # Null)
  <2>1. val' = [val EXCEPT ![s] = v] /\ refs' = refs
    BY <1>10, <1>14
  <2>2. Referred(v) = Null
    BY <1>14 DEF Referred
  <2>3. \A t \in Thing : refs'[t] = refs[t] + One(Referred(v), t)
    BY <1>3, <2>1, <2>2, ValueFacts DEF One
  <2> QED BY <1>3, <1>6, <1>10, <1>11, <2>1, <2>3
<1> QED BY <1>12, <1>13, <1>14

-----------------------------------------------------------------------------
(* Containers are emptied.                                                 *)

(* The loop goes on, with what it frees before it.                         *)
LEMMA WalkGoesOn ==
  ASSUME NEW v \in [Slot -> Values], NEW h, NEW f, NEW u, Heads(f, u, v, h), f.do = "walk",
         NEW todo, todo \subseteq f.todo, NEW s, s \in todo, f.todo \subseteq SlotsOf(f.of),
         \A y \in SlotsOf(f.of) : Holds(v[y]) => y \in todo,
         NEW w, w = [do |-> "walk", of |-> f.of, todo |-> todo \ {s}],
         NEW k, k = <<w>> \o u
  PROVE  /\ Ordered(k, v, h) /\ Adds(w, u, k)
         /\ ~Holds(v[s]) => Proceeds(k, v, h)
         /\ Holds(v[s]) => \A fr, st : fr = [do |-> "free", at |-> s] /\ st = <<fr>> \o k =>
              Proceeds(st, v, h) /\ Adds(fr, k, st)
<1>1. f \in Frames /\ u \in Seq(Frames) /\ f.of \in Dict /\ ~Frees(f)
  BY FrameKinds DEF Heads, Frees
<1>2. s \in Slot /\ Owner(s) = f.of /\ todo \subseteq Slot
  BY <1>1, SlotFacts
<1>3. w.do = "walk" /\ w.of = f.of /\ w.todo = todo \ {s} /\ ~Frees(w)
  BY DEF Frees
<1>4. w \in Frames
  BY <1>1, <1>2, FrameTypes
<1>5. Ordered(k, v, h) /\ Adds(w, u, k) /\ (Ready(w, v) => Proceeds(k, v, h))
  <2>1. Sound(w, v, h)
    BY <1>3 DEF Sound
  <2>2. \A i \in DOMAIN u : Apart(w, u[i])
    BY <1>1, <1>3 DEF Heads, Apart, KeepsOff
  <2>3. u # <<>>
    BY DEF Heads
  <2>4. Precedes(w, u[1], v)
    BY <1>1, <1>3, <2>3 DEF Heads, Precedes
  <2>5. Ordered(u, v, h)
    BY DEF Heads
  <2>6. Fits(w, u, v, h)
    BY <1>1, <1>4, <2>1, <2>2, <2>3, <2>4, <2>5 DEF Fits
  <2> QED BY <2>6, Pushing
<1>6. ~Holds(v[s]) => Ready(w, v)
  BY <1>3 DEF Ready
<1>7. ASSUME Holds(v[s]), NEW fr, NEW st, fr = [do |-> "free", at |-> s], st = <<fr>> \o k
      PROVE  Proceeds(st, v, h) /\ Adds(fr, k, st)
  <2>1. fr.do = "free" /\ fr.at = s /\ fr \in Frames /\ Frees(fr)
    BY <1>2, <1>7, FrameTypes DEF Frees
  <2>2. Sound(fr, v, h) /\ Ready(fr, v)
    BY <1>7, <2>1 DEF Sound, Ready
  <2>3. k \in Seq(Frames) /\ k # <<>> /\ k[1] = w
    BY <1>5 DEF Adds
  <2>4. Precedes(fr, k[1], v)
    BY <1>2, <1>3, <2>1, <2>3 DEF Precedes
  <2>5. Apart(fr, w)
    BY <1>3, <2>1 DEF Apart
  <2>6. ASSUME NEW i \in DOMAIN u PROVE Apart(fr, u[i])
    <3>1. Apart(f, u[i])
      BY DEF Heads
    <3> QED BY <1>2, <2>1, <3>1 DEF Apart, KeepsOff, Frees
  <2>7. \A i \in DOMAIN k : Apart(fr, k[i])
    <3> TAKE i \in DOMAIN k
    <3>1. /\ DOMAIN k = 1..(Len(u) + 1) /\ DOMAIN u = 1..Len(u) /\ Len(u) \in Nat
          /\ \A j \in DOMAIN u : k[j + 1] = u[j]
      BY <1>1, <1>4, ConsFacts
    <3>2. CASE i = 1
      BY <2>3, <2>5, <3>2
    <3>3. CASE i # 1
      <4>1. i - 1 \in DOMAIN u /\ (i - 1) + 1 = i
        BY <3>1, <3>3
      <4>2. k[(i - 1) + 1] = u[i - 1]
        BY <3>1, <4>1
      <4> QED BY <2>6, <4>1, <4>2
    <3> QED BY <3>2, <3>3
  <2>8. fr.do # "walk"
    BY <2>1
  <2>9. Fits(fr, k, v, h)
    BY <1>5, <2>1, <2>2, <2>3, <2>4, <2>7, <2>8 DEF Fits
  <2> QED BY <1>7, <2>2, <2>9, Pushing
<1> QED BY <1>5, <1>6, <1>7

LEMMA WalkStep ==
  ASSUME fault = "none", Good(val, refs, held, typeRefs, stack), Walk
  PROVE  fault' = "none" /\ Good(val', refs', held', typeRefs', stack')
<1>1. /\ stack # <<>> /\ Head(stack).do = "walk"
      /\ val' = val /\ refs' = refs /\ typeRefs' = typeRefs /\ held' = held /\ fault' = fault
  BY DEF Walk, Doing, Script
<1>2. PICK f, u : /\ f = Head(stack) /\ u = Tail(stack) /\ Heads(f, u, val, held)
                  /\ Adds(f, u, stack) /\ Sound(f, val, held) /\ Ready(f, val)
  BY <1>1, Working
<1>3. val \in [Slot -> Values] /\ typeRefs \in Int /\ Vacated(val, refs, stack)
  BY DEF Good
<1>4. f \in Frames /\ u \in Seq(Frames) /\ f.do = "walk" /\ f.of \in Dict /\ f.todo \subseteq SlotsOf(f.of)
  BY <1>1, <1>2, FrameKinds DEF Heads, Sound
<1>5. /\ FreedBy(stack) = FreedBy(u) /\ Cardinality(Coming(u)) \in Nat
      /\ Cardinality(Coming(stack)) = Cardinality(Coming(u))
      /\ \A c : Clears(stack, c) <=> Clears(u, c)
  BY <1>2, <1>4 DEF Adds, ComingBy, Awaited
<1>6. PICK todo : todo = {s \in f.todo : val[s] # Gone}
  OBVIOUS
<1>7. todo \subseteq f.todo /\ \A y \in SlotsOf(f.of) : Holds(val[y]) => y \in todo
  BY <1>2, <1>4, <1>6, ValueFacts DEF Ready
<1>8. ASSUME NEW st, st \in Seq(Frames), stack' = st, Proceeds(st, val, held),
             FreedBy(st) = FreedBy(u), Cardinality(Coming(st)) = Cardinality(Coming(u)),
             \A c : Clears(st, c) <=> Clears(u, c)
      PROVE  fault' = "none" /\ Good(val', refs', held', typeRefs', stack')
  <2>1. Vacated(val, refs, st)
    BY <1>3, <1>5, <1>8 DEF Vacated
  <2>2. Good(val, refs, held, typeRefs, st)
    BY <1>5, <1>8, <2>1 DEF Good
  <2> QED BY <1>1, <1>8, <2>2
<1>9. CASE todo = {}
  <2>1. stack' = u
    BY <1>2, <1>6, <1>9 DEF Walk
  <2>2. u # <<>> /\ u[1].do = "clear" /\ u[1].of = f.of
    BY <1>2, <1>4 DEF Heads, Precedes
  <2>3. Ready(u[1], val)
    BY <1>7, <1>9, <2>2 DEF Ready
  <2>4. Proceeds(u, val, held)
    BY <1>2, <2>3 DEF Heads, Proceeds
  <2> QED BY <1>4, <1>8, <2>1, <2>4
<1>10. CASE todo # {}
  <2>1. PICK s \in todo : stack' = Freeing(s) \o <<[f EXCEPT !.todo = todo \ {s}]>> \o Tail(stack)
    BY <1>2, <1>6, <1>10 DEF Walk
  <2>2. PICK w : w = [do |-> "walk", of |-> f.of, todo |-> todo \ {s}]
    OBVIOUS
  <2>3. [f EXCEPT !.todo = todo \ {s}] = w
    <3>1. f \in [do : {"walk"}, of : Dict, todo : SUBSET Slot]
      BY <1>4 DEF Frames
    <3> QED BY <2>2, <3>1
  <2>4. PICK k : k = <<w>> \o u
    OBVIOUS
  <2>5. s \in Slot /\ w \in Frames
    <3>1. s \in Slot /\ todo \subseteq Slot
      BY <1>4, <1>7, SlotFacts
    <3> QED BY <1>4, <2>2, <3>1, FrameTypes
  <2>6. /\ Ordered(k, val, held) /\ Adds(w, u, k)
        /\ ~Holds(val[s]) => Proceeds(k, val, held)
        /\ Holds(val[s]) => \A fr, st : fr = [do |-> "free", at |-> s] /\ st = <<fr>> \o k =>
             Proceeds(st, val, held) /\ Adds(fr, k, st)
    BY <1>2, <1>3, <1>4, <1>7, <2>2, <2>4, WalkGoesOn, ZenonT(60)
  <2>7. /\ k \in Seq(Frames) /\ FreedBy(k) = FreedBy(u) /\ Cardinality(Coming(k)) = Cardinality(Coming(u))
        /\ \A c : Clears(k, c) <=> Clears(u, c)
    BY <2>2, <2>6 DEF Adds, ComingBy, Awaited
  <2>8. CASE ~Holds(val[s])
    <3>1. stack' = (<<>> \o <<w>>) \o u
      BY <1>2, <2>1, <2>3, <2>8 DEF Freeing
    <3>2. <<>> \o <<w>> = <<w>>
      BY <2>5
    <3>3. stack' = k
      BY <2>4, <3>1, <3>2
    <3> QED BY <1>8, <2>6, <2>7, <2>8, <3>3
  <2>9. CASE Holds(val[s])
    <3>1. PICK fr, st : fr = [do |-> "free", at |-> s] /\ st = <<fr>> \o k
      OBVIOUS
    <3>2. Proceeds(st, val, held) /\ Adds(fr, k, st)
      BY <2>6, <2>9, <3>1
    <3>3. stack' = (<<fr>> \o <<w>>) \o u
      BY <1>2, <2>1, <2>3, <2>9, <3>1 DEF Freeing
    <3>4. fr \in Frames
      BY <2>5, <3>1, FrameTypes
    <3>5. stack' = st
      BY <1>4, <2>4, <2>5, <3>1, <3>3, <3>4, Joined, ZenonT(60)
    <3>7. fr.do = "free"
      BY <3>1
    <3>6. /\ st \in Seq(Frames) /\ FreedBy(st) = FreedBy(k) /\ Cardinality(Coming(st)) = Cardinality(Coming(k))
          /\ \A c : Clears(st, c) <=> Clears(k, c)
      BY <2>7, <3>2, <3>7 DEF Adds, ComingBy, Awaited
    <3> QED BY <1>8, <2>7, <3>2, <3>5, <3>6
  <2> QED BY <2>8, <2>9
<1> QED BY <1>1, <1>9, <1>10

-----------------------------------------------------------------------------
(* Scripts call.                                                           *)

Idle(st) == st # <<>> => st[1].do = "destructor"

LEMMA ActsIdle ==
  ASSUME Good(val, refs, held, typeRefs, stack), Acts
  PROVE  Idle(stack) /\ ~careless
<1>1. stack \in Seq(Frames)
  BY DEF Good
<1>2. stack # <<>> => Head(stack) = stack[1]
  BY <1>1, TailFacts
<1> QED BY <1>2 DEF Acts, Idle

(* Nodes are added that hold nothing, and handles.                         *)
Grown(v, w) == \A y \in Slot : w[y] = v[y] \/ (v[y] = Gone /\ w[y] = Empty)

LEMMA GrownCalm ==
  ASSUME NEW v, NEW w, Grown(v, w)
  PROVE  /\ Calm(v, w)
         /\ \A y \in Slot : Holds(w[y]) => Holds(v[y]) /\ w[y] = v[y]
         /\ \A y \in Slot : v[y] # Gone => w[y] = v[y]
         /\ \A y \in Slot : Holds(v[y]) => w[y] = v[y]
BY ValueFacts DEF Grown, Calm

LEMMA OrderedGrown ==
  ASSUME NEW st \in Seq(Frames), NEW v, NEW h, NEW w, NEW k, Ordered(st, v, h),
         Grown(v, w), h \subseteq k
  PROVE  Ordered(st, w, k)
<1>1. ASSUME NEW i \in DOMAIN st PROVE Sound(st[i], w, k)
  <2> DEFINE g == st[i]
  <2>1. g \in Frames /\ Sound(g, v, h)
    BY DEF Ordered
  <2> HIDE DEF g
  <2>2. Frees(g) => w[g.at] = v[g.at]
    BY <2>1, FrameKinds, GrownCalm DEF Sound
  <2>3. g.do \in {"store", "erase"} => w[g.at] # Gone
    BY <2>1, FrameKinds, GrownCalm, SoundHandles
  <2>4. g.do = "store" /\ g.from \in Slot => w[g.from] = v[g.from]
    BY <2>1, GrownCalm DEF Sound
  <2>5. /\ g.do = "store" => Owner(g.at) \in k
        /\ g.do = "store" /\ g.from = Null /\ Holds(g.val) => g.val.to \in k
        /\ g.do = "assign" => g.of \in k
    BY <2>1, SoundHandles
  <2>6. Sound(g, w, k)
    BY <2>1, <2>2, <2>3, <2>4, <2>5 DEF Sound
  <2> QED BY <2>6 DEF g
<1>2. \A y \in Slot : Holds(w[y]) => Holds(v[y])
  BY GrownCalm
<1> QED BY <1>1, <1>2, OrderedAs

LEMMA Lists ==
  ASSUME NEW u \in Seq(Frames), NEW f \in Frames, NEW k, k = <<f>> \o u,
         NEW g, Apart(g, f), \A i \in DOMAIN u : Apart(g, u[i])
  PROVE  \A i \in DOMAIN k : Apart(g, k[i])
<1> TAKE i \in DOMAIN k
<1>1. /\ DOMAIN k = 1..(Len(u) + 1) /\ DOMAIN u = 1..Len(u) /\ Len(u) \in Nat
      /\ k[1] = f /\ \A j \in DOMAIN u : k[j + 1] = u[j]
  BY ConsFacts
<1>2. CASE i = 1
  BY <1>1, <1>2
<1>3. CASE i # 1
  <2>1. i - 1 \in DOMAIN u /\ (i - 1) + 1 = i
    BY <1>1, <1>3
  <2>2. k[(i - 1) + 1] = u[i - 1]
    BY <1>1, <2>1
  <2> QED BY <2>1, <2>2
<1> QED BY <1>2, <1>3

(* A frame, and before it the value that it waits for to be freed.         *)
Waits(b, u, v, s) ==
  LET fr == [do |-> "free", at |-> s] IN
  IF Holds(v[s]) THEN Precedes(fr, b, v) /\ Apart(fr, b) /\ \A i \in DOMAIN u : Apart(fr, u[i])
                 ELSE Ready(b, v)

Before(v, s) == IF Holds(v[s]) THEN <<[do |-> "free", at |-> s]>> ELSE <<>>

(* What a frame adds, a value being freed before it or not.                *)
Comes(st, b, u) ==
  /\ st \in Seq(Frames) /\ FreedBy(st) = FreedBy(u) /\ Cardinality(Coming(u)) \in Nat
  /\ Cardinality(Coming(st)) = Cardinality(Coming(u)) + ComingBy(b)
  /\ \A c : Clears(st, c) <=> (b.do = "clear" /\ b.of = c) \/ Clears(u, c)

LEMMA FreeingFirst ==
  ASSUME NEW v, NEW h, NEW b, NEW u, Fits(b, u, v, h), NEW s \in Slot, Waits(b, u, v, s),
         b.do # "cleared", NEW st, st = (Before(v, s) \o <<b>>) \o u
  PROVE  Proceeds(st, v, h) /\ Comes(st, b, u)
<1>1. PICK k : k = <<b>> \o u
  OBVIOUS
<1>2. Ordered(k, v, h) /\ Adds(b, u, k) /\ (Ready(b, v) => Proceeds(k, v, h))
  BY <1>1, Pushing
<1>3. b \in Frames /\ u \in Seq(Frames)
  BY DEF Fits
<1>4. k \in Seq(Frames) /\ k # <<>> /\ k[1] = b /\ Comes(k, b, u)
  BY <1>2 DEF Adds, Comes
<1>5. CASE ~Holds(v[s])
  <2>1. st = (<<>> \o <<b>>) \o u
    BY <1>5 DEF Before
  <2>2. <<>> \o <<b>> = <<b>>
    BY <1>3
  <2>3. st = k
    BY <1>1, <2>1, <2>2
  <2>4. Ready(b, v)
    BY <1>5 DEF Waits
  <2> QED BY <1>2, <1>4, <2>3, <2>4
<1>6. CASE Holds(v[s])
  <2>1. PICK fr : fr = [do |-> "free", at |-> s]
    OBVIOUS
  <2>2. Precedes(fr, b, v) /\ Apart(fr, b) /\ \A i \in DOMAIN u : Apart(fr, u[i])
    BY <1>6, <2>1 DEF Waits
  <2>3. fr \in Frames /\ fr.do = "free" /\ fr.at = s
    BY <2>1, FrameTypes
  <2>4. Sound(fr, v, h) /\ Ready(fr, v)
    BY <1>6, <2>3 DEF Sound, Ready
  <2>5. st = <<fr>> \o k
    <3>1. st = (<<fr>> \o <<b>>) \o u
      BY <1>6, <2>1 DEF Before
    <3> QED BY <1>1, <1>3, <2>3, <3>1, Joined
  <2>6. \A i \in DOMAIN k : Apart(fr, k[i])
    BY <1>1, <1>3, <2>2, Lists
  <2>7. Fits(fr, k, v, h)
    BY <1>2, <1>4, <2>2, <2>3, <2>4, <2>6 DEF Fits
  <2>8. Proceeds(st, v, h) /\ Adds(fr, k, st)
    BY <2>4, <2>5, <2>7, Pushing
  <2>9. ComingBy(fr) = 0
    BY <2>3 DEF ComingBy, Awaited
  <2>10. Cardinality(Coming(st)) = Cardinality(Coming(k))
    BY <2>8, <2>9 DEF Adds
  <2>11. /\ st \in Seq(Frames) /\ FreedBy(st) = FreedBy(k)
         /\ \A c : Clears(st, c) <=> Clears(k, c)
    BY <2>3, <2>8 DEF Adds
  <2>12. Comes(st, b, u)
    BY <1>4, <2>10, <2>11 DEF Comes
  <2> QED BY <2>8, <2>12
<1> QED BY <1>5, <1>6

(* Where C++ does not come back to.                                        *)
Untouched(s, st) ==
  \A i \in DOMAIN st : /\ st[i].do = "cleared" => st[i].at # s
                       /\ st[i].do = "store" => st[i].from # s

LEMMA NotBusy ==
  ASSUME NEW s \in Slot
  PROVE  /\ s \notin Busy => Untouched(s, stack)
         /\ s \notin Freed <=> s \notin FreedBy(stack)
         /\ s \notin Freed <=> \A i \in DOMAIN stack : stack[i].do = "cleared" => stack[i].at # s
         /\ ~Past(s) => \A i \in DOMAIN stack :
              stack[i].do = "walk" /\ Owner(s) = stack[i].of => s \in stack[i].todo
         /\ ~Past(s) => Placed(s) = {stack}
<1>1. s \notin Freed <=> \A i \in DOMAIN stack : stack[i].do = "cleared" => stack[i].at # s
  BY DEF Freed
<1>2. s \notin Busy => s \notin Freed /\ \A i \in DOMAIN stack : stack[i].do = "store" => stack[i].from # s
  BY DEF Busy
<1>3. Freed = FreedBy(stack)
  BY DEF Freed, FreedBy
<1>4. ~Past(s) => \A i \in DOMAIN stack :
        stack[i].do = "walk" /\ Owner(s) = stack[i].of => s \in stack[i].todo
  BY DEF Past, Walks
<1>5. ~Past(s) => Placed(s) = {stack}
  BY DEF Past, Placed
<1> QED BY <1>1, <1>2, <1>3, <1>4, <1>5 DEF Untouched

LEMMA FreeApart ==
  ASSUME NEW s, NEW st, Untouched(s, st), NEW i \in DOMAIN st
  PROVE  Apart([do |-> "free", at |-> s], st[i])
<1> DEFINE fr == [do |-> "free", at |-> s]
<1>1. fr.do = "free" /\ fr.at = s
  OBVIOUS
<1> HIDE DEF fr
<1>2. Apart(fr, st[i])
  BY <1>1 DEF Untouched, Apart, KeepsOff
<1> QED BY <1>2 DEF fr

(* A node for a slot that has none.                                        *)
Node(v, s) == IF v[s] = Gone THEN [v EXCEPT ![s] = Empty] ELSE v

LEMMA Noded ==
  ASSUME NEW v \in [Slot -> Values], NEW s \in Slot, NEW w, w = Node(v, s)
  PROVE  /\ w \in [Slot -> Values] /\ Grown(v, w) /\ w[s] # Gone /\ (Holds(w[s]) <=> Holds(v[s]))
         /\ \A y \in Slot : y # s => w[y] = v[y]
BY ValueFacts DEF Grown, Node

LEMMA VacatedHeld ==
  ASSUME NEW v, NEW r, NEW h, NEW tr, NEW st, Good(v, r, h, tr, st),
         NEW s \in Slot, Owner(s) \in h, NEW w, \A y \in Slot : y # s => w[y] = v[y],
         NEW u, \A c : Clears(st, c) => Clears(u, c)
  PROVE  Vacated(w, r, u)
<1>1. r \in [Thing -> Nat]
      /\ Sums(r, h, tr, Refers(v, FreedBy(st)), Typed(v), Cardinality(Coming(st)))
      /\ Owner(s) \in Thing /\ Vacated(v, r, st)
  BY SlotFacts, ValueFacts DEF Good
<1>2. r[Owner(s)] # 0
  BY <1>1, Alive
<1> QED BY <1>1, <1>2, SlotFacts DEF Vacated

LEMMA SetGood ==
  ASSUME Good(val, refs, held, typeRefs, stack), Idle(stack),
         NEW s \in Slot, NEW v \in Values, NEW from \in Slot \cup {Null},
         v # Gone, Owner(s) \in held, s \notin Busy, ~Past(s),
         from \in Slot => from \notin Freed /\ val[from] = v,
         from = s => ~Holds(v), from = Null /\ Holds(v) => v.to \in held,
         SetTo(s, v, from)
  PROVE  fault' = fault /\ Good(val', refs', held', typeRefs', stack')
<1>1. PICK w, b, st, x :
        /\ w = Node(val, s)
        /\ b = [do |-> "store", at |-> s, val |-> v, from |-> from]
        /\ st = (Before(val, s) \o <<b>>) \o stack
        /\ x = IF Owner(s) \in AnyCell /\ Holds(v) THEN typeRefs + 1 ELSE typeRefs
  OBVIOUS
<1>2. /\ val' = w /\ stack' = st /\ typeRefs' = x
      /\ refs' = refs /\ held' = held /\ fault' = fault
  <2>1. Placed(s) = {stack}
    BY NotBusy
  <2> QED BY <1>1, <2>1 DEF SetTo, Freeing, Storing, Before, Node
<1>3. /\ val \in [Slot -> Values] /\ stack \in Seq(Frames) /\ typeRefs \in Int
      /\ Ordered(stack, val, held)
  BY DEF Good, Proceeds
<1>4. /\ w \in [Slot -> Values] /\ Grown(val, w) /\ w[s] # Gone /\ (Holds(w[s]) <=> Holds(val[s]))
      /\ \A y \in Slot : y # s => w[y] = val[y]
  BY <1>1, <1>3, Noded
<1>5. /\ b.do = "store" /\ b.at = s /\ b.val = v /\ b.from = from /\ b \in Frames /\ ~Frees(b)
      /\ Null \notin Slot
  BY <1>1, FrameTypes, SlotFacts DEF Frees
<1>6. Untouched(s, stack)
  BY NotBusy
<1>7. Fits(b, stack, w, held)
  <2>1. Ordered(stack, w, held)
    BY <1>3, <1>4, OrderedGrown
  <2>2. Sound(b, w, held)
    <3>1. from \in Slot => w[from] = v
      BY <1>4, GrownCalm
    <3> QED BY <1>4, <1>5, <3>1 DEF Sound
  <2>3. ASSUME NEW i \in DOMAIN stack PROVE Apart(b, stack[i])
    <3>1. stack[i].do = "cleared" => stack[i].at # s /\ stack[i].at # from
      <4>1. stack[i].do = "cleared" => stack[i].at \in Slot
        BY <1>3, FrameKinds DEF Frees
      <4>2. from \in Slot => (stack[i].do = "cleared" => stack[i].at # from)
        BY NotBusy
      <4> QED BY <1>5, <1>6, <4>1, <4>2 DEF Untouched
    <3>2. stack[i].do = "store" => stack[i].from # s
      BY <1>6 DEF Untouched
    <3>3. stack[i].do = "walk" /\ Owner(s) = stack[i].of => s \in stack[i].todo
      BY NotBusy
    <3> QED BY <1>5, <3>1, <3>2, <3>3 DEF Apart, KeepsOff
  <2>4. stack # <<>> => Precedes(b, stack[1], w)
    BY <1>5 DEF Idle, Precedes
  <2> QED BY <1>3, <1>5, <2>1, <2>2, <2>3, <2>4 DEF Fits
<1>8. Waits(b, stack, w, s)
  <2>1. ASSUME Holds(w[s])
        PROVE  Precedes([do |-> "free", at |-> s], b, w) /\ Apart([do |-> "free", at |-> s], b)
    <3> DEFINE fr == [do |-> "free", at |-> s]
    <3>1. fr.do = "free" /\ fr.at = s /\ Frees(fr)
      BY DEF Frees
    <3>2. val[s] # Gone /\ w[s] = val[s] /\ from # s
      BY <1>4, <2>1, GrownCalm, ValueFacts
    <3> HIDE DEF fr
    <3>3. Precedes(fr, b, w) /\ Apart(fr, b)
      BY <1>5, <3>1, <3>2 DEF Precedes, Apart, KeepsOff
    <3> QED BY <3>3 DEF fr
  <2>2. \A i \in DOMAIN stack : Apart([do |-> "free", at |-> s], stack[i])
    BY <1>6, FreeApart
  <2>3. ~Holds(w[s]) => Ready(b, w)
    BY <1>5 DEF Ready
  <2> QED BY <2>1, <2>2, <2>3 DEF Waits
<1>15. Proceeds(st, w, held) /\ Comes(st, b, stack)
  <2>1. Before(val, s) = Before(w, s)
    BY <1>4 DEF Before
  <2>2. b.do # "cleared" /\ st = (Before(w, s) \o <<b>>) \o stack
    BY <1>1, <1>5, <2>1
  <2> QED BY <1>7, <1>8, <2>2, FreeingFirst
<1>9. /\ st \in Seq(Frames) /\ FreedBy(st) = FreedBy(stack)
      /\ Cardinality(Coming(stack)) \in Nat
      /\ Cardinality(Coming(st)) = Cardinality(Coming(stack)) + ComingBy(b)
      /\ \A c : Clears(st, c) <=> (b.do = "clear" /\ b.of = c) \/ Clears(stack, c)
  BY <1>15 DEF Comes
<1>10. Vacated(w, refs, st)
  BY <1>4, <1>9, VacatedHeld
<1>11. ComingBy(b) \in Nat /\ x \in Int /\ x = typeRefs + ComingBy(b)
  BY <1>1, <1>3, <1>5 DEF ComingBy, Awaited
<1>12. Cardinality(Coming(st)) \in Nat
       /\ x = typeRefs + (Cardinality(Coming(st)) - Cardinality(Coming(stack)))
  BY <1>3, <1>9, <1>11
<1>13. Calm(val, w)
  BY <1>4, GrownCalm
<1>14. Good(w, refs, held, x, st)
  BY <1>4, <1>9, <1>10, <1>11, <1>12, <1>13, <1>15, GoodCalm
<1> QED BY <1>2, <1>14

LEMMA SetStep ==
  ASSUME fault = "none", Good(val, refs, held, typeRefs, stack), Idle(stack),
         NEW s \in Slot, NEW v \in Arguments, Set(s, v)
  PROVE  careless' \/ (fault' = "none" /\ Good(val', refs', held', typeRefs', stack'))
<1>1. SUFFICES ASSUME ~careless' PROVE fault' = "none" /\ Good(val', refs', held', typeRefs', stack')
  OBVIOUS
<1>2. Owner(s) \in held /\ s \notin Busy /\ ~Past(s) /\ SetTo(s, v, Null)
  BY <1>1 DEF Set, CarelessIf
<1>3. held \subseteq Thing
  BY DEF Good
<1>4. v \in Values /\ v # Gone /\ (Holds(v) => v.to \in held)
  BY <1>3, ValueFacts DEF Arguments
<1>5. Null \notin Slot /\ Null # s
  BY SlotFacts
<1> QED BY <1>2, <1>4, <1>5, SetGood

LEMMA SetFromStep ==
  ASSUME fault = "none", Good(val, refs, held, typeRefs, stack), Idle(stack),
         NEW s \in Slot, NEW t \in Slot, SetFrom(s, t)
  PROVE  careless' \/ (fault' = "none" /\ Good(val', refs', held', typeRefs', stack'))
<1>1. SUFFICES ASSUME ~careless' PROVE fault' = "none" /\ Good(val', refs', held', typeRefs', stack')
  OBVIOUS
<1>2. PICK v : v = val[t]
  OBVIOUS
<1>3. /\ Owner(s) \in held /\ s \notin Busy /\ ~Past(s) /\ SetTo(s, v, t)
      /\ t \notin Freed /\ (t = s => ~Holds(v)) /\ v # Gone
  BY <1>1, <1>2 DEF SetFrom, CarelessIf
<1>4. v \in Values
  BY <1>2 DEF Good
<1>5. t # Null
  BY SlotFacts
<1> QED BY <1>2, <1>3, <1>4, <1>5, SetGood

LEMMA IndexStep ==
  ASSUME fault = "none", Good(val, refs, held, typeRefs, stack), Idle(stack),
         NEW s \in Slot, Index(s)
  PROVE  careless' \/ (fault' = "none" /\ Good(val', refs', held', typeRefs', stack'))
<1> SUFFICES ASSUME ~careless'
             PROVE fault' = "none" /\ Good(val', refs', held', typeRefs', stack')
  OBVIOUS
<1>1. PICK w : w = Node(val, s)
  OBVIOUS
<1>2. /\ Owner(s) \in held /\ val' = w /\ refs' = refs /\ held' = held /\ typeRefs' = typeRefs
      /\ stack' = stack /\ fault' = fault
  <2>1. ~Past(s) /\ stack' \in Placed(s)
    BY DEF Index, CarelessIf
  <2>2. stack' = stack
    BY <2>1, NotBusy
  <2> QED BY <1>1, <2>2 DEF Index, Node
<1>3. /\ val \in [Slot -> Values] /\ stack \in Seq(Frames) /\ typeRefs \in Int
      /\ Ordered(stack, val, held)
  BY DEF Good, Proceeds
<1>4. w \in [Slot -> Values] /\ Grown(val, w) /\ \A y \in Slot : y # s => w[y] = val[y]
  BY <1>1, <1>3, Noded
<1>5. Proceeds(stack, w, held)
  <2>1. Ordered(stack, w, held)
    BY <1>3, <1>4, OrderedGrown
  <2>2. stack # <<>> => Ready(stack[1], w)
    BY DEF Idle, Ready
  <2> QED BY <2>1, <2>2 DEF Proceeds
<1>6. Vacated(w, refs, stack)
  BY <1>2, <1>4, VacatedHeld
<1>7. Calm(val, w)
  BY <1>4, GrownCalm
<1>8. Good(w, refs, held, typeRefs, stack)
  <2>1. \A y \in Slot : /\ Refers(w, FreedBy(stack))[y] = Refers(val, FreedBy(stack))[y]
                        /\ Typed(w)[y] = Typed(val)[y]
    BY <1>7 DEF Calm, Refers, Typed
  <2>2. PICK to, typed, n, new, kinds :
          /\ to = Refers(val, FreedBy(stack)) /\ typed = Typed(val)
          /\ new = Refers(w, FreedBy(stack)) /\ kinds = Typed(w) /\ n = Cardinality(Coming(stack))
    OBVIOUS
  <2>3. Sums(refs, held, typeRefs, to, typed, n)
    BY <2>2 DEF Good
  <2>4. Sums(refs, held, typeRefs, new, kinds, n)
    BY <2>1, <2>2, <2>3, SumsKept
  <2> QED BY <1>3, <1>4, <1>5, <1>6, <2>2, <2>4 DEF Good
<1> QED BY <1>2, <1>8

LEMMA DeleteStep ==
  ASSUME fault = "none", Good(val, refs, held, typeRefs, stack), Idle(stack),
         NEW s \in Slot, Delete(s)
  PROVE  careless' \/ (fault' = "none" /\ Good(val', refs', held', typeRefs', stack'))
<1>1. SUFFICES ASSUME ~careless' PROVE fault' = "none" /\ Good(val', refs', held', typeRefs', stack')
  OBVIOUS
<1>2. PICK b, st : b = [do |-> "erase", at |-> s] /\ st = (Before(val, s) \o <<b>>) \o stack
  OBVIOUS
<1>3. /\ Owner(s) \in held /\ val[s] # Gone /\ s \notin Busy /\ stack' = st
      /\ val' = val /\ refs' = refs /\ held' = held /\ typeRefs' = typeRefs /\ fault' = fault
  BY <1>1, <1>2 DEF Delete, CarelessIf, Does, Freeing, Before
<1>4. /\ val \in [Slot -> Values] /\ stack \in Seq(Frames) /\ typeRefs \in Int
      /\ Ordered(stack, val, held) /\ Vacated(val, refs, stack)
  BY DEF Good, Proceeds
<1>5. b.do = "erase" /\ b.at = s /\ b \in Frames /\ ~Frees(b)
  BY <1>2, FrameTypes DEF Frees
<1>6. Untouched(s, stack)
  BY <1>3, NotBusy
<1>7. Fits(b, stack, val, held)
  <2>1. Sound(b, val, held)
    BY <1>3, <1>5 DEF Sound
  <2>2. \A i \in DOMAIN stack : Apart(b, stack[i])
    BY <1>5, <1>6 DEF Apart, KeepsOff, Untouched
  <2>3. stack # <<>> => Precedes(b, stack[1], val)
    BY <1>5 DEF Idle, Precedes
  <2> QED BY <1>4, <1>5, <2>1, <2>2, <2>3 DEF Fits
<1>8. Waits(b, stack, val, s)
  <2>1. Precedes([do |-> "free", at |-> s], b, val) /\ Apart([do |-> "free", at |-> s], b)
    <3> DEFINE fr == [do |-> "free", at |-> s]
    <3>1. fr.do = "free" /\ fr.at = s /\ Frees(fr)
      BY DEF Frees
    <3> HIDE DEF fr
    <3>2. Precedes(fr, b, val) /\ Apart(fr, b)
      BY <1>5, <3>1 DEF Precedes, Apart
    <3> QED BY <3>2 DEF fr
  <2>2. \A i \in DOMAIN stack : Apart([do |-> "free", at |-> s], stack[i])
    BY <1>6, FreeApart
  <2>3. ~Holds(val[s]) => Ready(b, val)
    BY <1>5 DEF Ready
  <2> QED BY <2>1, <2>2, <2>3 DEF Waits
<1>15. Proceeds(st, val, held) /\ Comes(st, b, stack)
  <2>1. b.do # "cleared"
    BY <1>5
  <2> QED BY <1>2, <1>7, <1>8, <2>1, FreeingFirst
<1>9. /\ st \in Seq(Frames) /\ FreedBy(st) = FreedBy(stack)
      /\ Cardinality(Coming(stack)) \in Nat
      /\ Cardinality(Coming(st)) = Cardinality(Coming(stack)) + ComingBy(b)
      /\ \A c : Clears(st, c) <=> (b.do = "clear" /\ b.of = c) \/ Clears(stack, c)
  BY <1>15 DEF Comes
<1>10. Cardinality(Coming(st)) = Cardinality(Coming(stack))
  BY <1>5, <1>9 DEF ComingBy, Awaited
<1>11. Vacated(val, refs, st)
  BY <1>4, <1>9 DEF Vacated
<1>12. Good(val, refs, held, typeRefs, st)
  BY <1>9, <1>10, <1>11, <1>15 DEF Good
<1> QED BY <1>3, <1>12

(* What C++ comes back to is not of a container.                           *)
Spares(c, g) ==
  /\ g.do = "cleared" => Owner(g.at) # c
  /\ g.do = "store" /\ g.from \in Slot => Owner(g.from) # c

LEMMA NotDisturbed ==
  ASSUME NEW c \in Container, stack \in Seq(Frames)
  PROVE  /\ ~DisturbedBy(c) \/ ~InUse(c) => \A i \in DOMAIN stack : Spares(c, stack[i])
         /\ Clearing(c) <=> Clears(stack, c)
<1>1. ASSUME ~DisturbedBy(c), NEW i \in DOMAIN stack PROVE Spares(c, stack[i])
  <2> DEFINE g == stack[i]
  <2>1. g \in Frames
    BY <1>1
  <2>2. \A s \in Slot : Owner(s) = c => s \notin Busy
    BY <1>1, SlotFacts DEF DisturbedBy
  <2>3. g.do = "cleared" => g.at \in Busy
    BY <1>1 DEF Busy, Freed
  <2>4. g.do = "store" /\ g.from \in Slot => g.from \in Busy
    BY <1>1 DEF Busy
  <2> HIDE DEF g
  <2>5. g.do = "cleared" => g.at \in Slot
    BY <2>1, FrameKinds DEF Frees
  <2>6. Spares(c, g)
    BY <2>2, <2>3, <2>4, <2>5 DEF Spares
  <2> QED BY <2>6 DEF g
<1>2. ASSUME ~InUse(c), NEW i \in DOMAIN stack PROVE Spares(c, stack[i])
  BY <1>2 DEF InUse, Spares
<1> QED BY <1>1, <1>2 DEF Clearing, Clears

LEMMA WalksClear ==
  ASSUME NEW st, NEW v, NEW h, Ordered(st, v, h), NEW i \in DOMAIN st, st[i].do = "walk"
  PROVE  Clears(st, st[i].of)
BY DEF Ordered, Precedes, Clears

(* A container is to be emptied.                                           *)
LEMMA WalkFrames ==
  ASSUME NEW v \in [Slot -> Values], NEW h, NEW c \in Dict, NEW u \in Seq(Frames),
         Ordered(u, v, h), \A i \in DOMAIN u : Spares(c, u[i]),
         u # <<>> => u[1].do = "destructor" \/ (u[1].do = "assign" /\ u[1].of = c),
         NEW wk, wk = [do |-> "walk", of |-> c, todo |-> {s \in SlotsOf(c) : v[s] # Gone}],
         NEW cl, cl = [do |-> "clear", of |-> c],
         NEW st, st = <<wk, cl>> \o u
  PROVE  Proceeds(st, v, h) /\ Comes(st, cl, u)
<1>1. cl.do = "clear" /\ cl.of = c /\ cl \in Frames
  BY FrameTypes, ValueFacts
<1>2. /\ wk.do = "walk" /\ wk.of = c /\ wk \in Frames /\ wk.todo \subseteq SlotsOf(c)
      /\ \A s \in SlotsOf(c) : Holds(v[s]) => s \in wk.todo
  <2>1. {s \in SlotsOf(c) : v[s] # Gone} \in SUBSET Slot
    BY SlotFacts
  <2> QED BY <2>1, FrameTypes, ValueFacts
<1>3. PICK k : k = <<cl>> \o u
  OBVIOUS
<1>4. st = <<wk>> \o k
  <2>1. wk \in Frames /\ cl \in Frames
    BY <1>1, <1>2
  <2>2. /\ (<<wk>> \o <<cl>>) \o u = <<wk>> \o (<<cl>> \o u)
        /\ <<wk, cl>> = <<wk>> \o <<cl>>
    BY ONLY <2>1, u \in Seq(Frames), Joined
  <2>3. st = <<wk, cl>> \o u
    OBVIOUS
  <2> QED BY <1>3, <2>2, <2>3
<1>5. Ordered(k, v, h) /\ Adds(cl, u, k)
  <2>1. Sound(cl, v, h)
    BY <1>1 DEF Sound, Frees
  <2>2. \A i \in DOMAIN u : Apart(cl, u[i])
    BY <1>1 DEF Apart, KeepsOff, Spares, Frees
  <2>3. u # <<>> => Precedes(cl, u[1], v)
    BY <1>1 DEF Precedes
  <2>4. cl.do # "walk"
    BY <1>1
  <2>5. Fits(cl, u, v, h)
    BY <1>1, <2>1, <2>2, <2>3, <2>4 DEF Fits
  <2> QED BY <1>3, <2>5, Pushing
<1>6. k \in Seq(Frames) /\ k # <<>> /\ k[1] = cl
  BY <1>5 DEF Adds
<1>7. Proceeds(st, v, h) /\ Adds(wk, k, st)
  <2>1. Sound(wk, v, h) /\ Ready(wk, v)
    BY <1>2 DEF Sound, Frees, Ready
  <2>2. \A i \in DOMAIN u : Apart(wk, u[i])
    BY <1>2 DEF Apart, KeepsOff, Spares, Frees
  <2>3. Apart(wk, cl)
    BY <1>1 DEF Apart
  <2>4. \A i \in DOMAIN k : Apart(wk, k[i])
    BY <1>1, <1>3, <2>2, <2>3, Lists
  <2>5. Precedes(wk, k[1], v)
    BY <1>1, <1>2, <1>6 DEF Precedes
  <2>6. Fits(wk, k, v, h)
    BY <1>2, <1>5, <1>6, <2>1, <2>4, <2>5 DEF Fits
  <2> QED BY <1>4, <2>1, <2>6, Pushing
<1>8. ComingBy(wk) = 0
  BY <1>2 DEF ComingBy, Awaited
<1>9. /\ Cardinality(Coming(st)) = Cardinality(Coming(k)) + 0 /\ Cardinality(Coming(k)) \in Nat
      /\ st \in Seq(Frames)
  BY <1>7, <1>8 DEF Adds
<1>10. FreedBy(st) = FreedBy(k) /\ \A d : Clears(st, d) <=> Clears(k, d)
  BY <1>2, <1>7 DEF Adds
<1>11. /\ Cardinality(Coming(k)) = Cardinality(Coming(u)) + ComingBy(cl) /\ FreedBy(k) = FreedBy(u)
       /\ Cardinality(Coming(u)) \in Nat
       /\ \A d : Clears(k, d) <=> (cl.do = "clear" /\ cl.of = d) \/ Clears(u, d)
  BY <1>1, <1>5 DEF Adds
<1>12. Cardinality(Coming(st)) = Cardinality(Coming(u)) + ComingBy(cl)
  BY <1>9, <1>11
<1> QED BY <1>7, <1>9, <1>10, <1>11, <1>12 DEF Comes

(* Nothing changes but what is to be done.                                 *)
LEMMA GoodPushed ==
  ASSUME NEW v, NEW r, NEW h, NEW tr, NEW u, Good(v, r, h, tr, u),
         NEW b, NEW st, Proceeds(st, v, h), Comes(st, b, u), b.do # "store"
  PROVE  Good(v, r, h, tr, st)
<1>1. /\ st \in Seq(Frames) /\ FreedBy(st) = FreedBy(u) /\ \A c : Clears(u, c) => Clears(st, c)
  BY DEF Comes
<1>2. Cardinality(Coming(st)) = Cardinality(Coming(u))
  BY DEF Comes, ComingBy, Awaited
<1>3. Vacated(v, r, st)
  BY <1>1 DEF Good, Vacated
<1> QED BY <1>1, <1>2, <1>3 DEF Good

LEMMA DeleteAllStep ==
  ASSUME fault = "none", Good(val, refs, held, typeRefs, stack), Idle(stack),
         NEW c \in Dict, DeleteAll(c)
  PROVE  careless' \/ (fault' = "none" /\ Good(val', refs', held', typeRefs', stack'))
<1>1. SUFFICES ASSUME ~careless' PROVE fault' = "none" /\ Good(val', refs', held', typeRefs', stack')
  OBVIOUS
<1>2. PICK wk, cl, st : /\ wk = [do |-> "walk", of |-> c, todo |-> {s \in SlotsOf(c) : val[s] # Gone}]
                        /\ cl = [do |-> "clear", of |-> c] /\ st = <<wk, cl>> \o stack
  OBVIOUS
<1>3. /\ ~DisturbedBy(c) /\ stack' = st
      /\ val' = val /\ refs' = refs /\ held' = held /\ typeRefs' = typeRefs /\ fault' = fault
  BY <1>1, <1>2 DEF DeleteAll, CarelessIf, Does, Walking
<1>4. val \in [Slot -> Values] /\ stack \in Seq(Frames) /\ Ordered(stack, val, held)
  BY DEF Good, Proceeds
<1>5. \A i \in DOMAIN stack : Spares(c, stack[i])
  BY <1>3, <1>4, NotDisturbed, ValueFacts
<1>6. Proceeds(st, val, held) /\ Comes(st, cl, stack)
  BY <1>2, <1>4, <1>5, WalkFrames DEF Idle
<1>7. cl.do # "store"
  BY <1>2
<1>8. Good(val, refs, held, typeRefs, st)
  BY <1>6, <1>7, GoodPushed
<1> QED BY <1>3, <1>8

LEMMA AssignStep ==
  ASSUME fault = "none", Good(val, refs, held, typeRefs, stack), Idle(stack),
         NEW c \in Dict, NEW d \in Dict, Assign(c, d)
  PROVE  careless' \/ (fault' = "none" /\ Good(val', refs', held', typeRefs', stack'))
<1>1. SUFFICES ASSUME ~careless' PROVE fault' = "none" /\ Good(val', refs', held', typeRefs', stack')
  OBVIOUS
<1>2. PICK wk, cl, as, k, st :
        /\ wk = [do |-> "walk", of |-> c, todo |-> {s \in SlotsOf(c) : val[s] # Gone}]
        /\ cl = [do |-> "clear", of |-> c] /\ as = [do |-> "assign", of |-> c, from |-> d]
        /\ k = <<as>> \o stack /\ st = <<wk, cl>> \o k
  OBVIOUS
<1>3. /\ ~DisturbedBy(c) /\ SlotsOf(d) \cap Freed = {} /\ c \in held
      /\ stack' = (<<wk, cl>> \o <<as>>) \o stack
      /\ val' = val /\ refs' = refs /\ held' = held /\ typeRefs' = typeRefs /\ fault' = fault
  BY <1>1, <1>2 DEF Assign, CarelessIf, Does, Walking
<1>4. val \in [Slot -> Values] /\ stack \in Seq(Frames) /\ Ordered(stack, val, held)
  BY DEF Good, Proceeds
<1>5. \A i \in DOMAIN stack : Spares(c, stack[i])
  BY <1>3, <1>4, NotDisturbed, ValueFacts
<1>6. as.do = "assign" /\ as.of = c /\ as.from = d /\ as \in Frames
  BY <1>2, FrameTypes
<1>7. Ordered(k, val, held) /\ Adds(as, stack, k)
  <2>1. Sound(as, val, held)
    BY <1>3, <1>6 DEF Sound, Frees
  <2>2. ASSUME NEW i \in DOMAIN stack PROVE Apart(as, stack[i])
    <3>1. Spares(c, stack[i]) /\ stack[i] \in Frames
      BY <1>4, <1>5
    <3>2. stack[i].do = "cleared" => Owner(stack[i].at) # d
      <4> HAVE stack[i].do = "cleared"
      <4>1. stack[i].at \in Freed /\ stack[i].at \in Slot
        BY <3>1, FrameKinds DEF Freed, Frees
      <4> QED BY <1>3, <4>1, SlotFacts
    <3>3. stack[i].do = "walk" => stack[i].of # c
      <4>1. ~Clears(stack, c)
        BY <1>3, <1>4, NotDisturbed, ValueFacts DEF DisturbedBy
      <4> QED BY <1>4, <4>1, WalksClear
    <3> QED BY <1>6, <3>1, <3>2, <3>3 DEF Apart, KeepsOff, Spares, Frees
  <2>3. stack # <<>> => Precedes(as, stack[1], val)
    BY <1>6 DEF Idle, Precedes
  <2>4. Fits(as, stack, val, held)
    BY <1>4, <1>6, <2>1, <2>2, <2>3 DEF Fits
  <2> QED BY <1>2, <2>4, Pushing
<1>8. k \in Seq(Frames) /\ k # <<>> /\ k[1] = as /\ Comes(k, as, stack)
  BY <1>6, <1>7 DEF Adds, Comes
<1>9. \A i \in DOMAIN k : Spares(c, k[i])
  <2>1. /\ DOMAIN k = 1..(Len(stack) + 1) /\ DOMAIN stack = 1..Len(stack) /\ Len(stack) \in Nat
        /\ \A j \in DOMAIN stack : k[j + 1] = stack[j]
    BY <1>2, <1>4, <1>6, ConsFacts
  <2> TAKE i \in DOMAIN k
  <2>2. CASE i = 1
    BY <1>6, <1>8, <2>2 DEF Spares
  <2>3. CASE i # 1
    <3>1. i - 1 \in DOMAIN stack /\ (i - 1) + 1 = i
      BY <2>1, <2>3
    <3>2. k[(i - 1) + 1] = stack[i - 1]
      BY <2>1, <3>1
    <3> QED BY <1>5, <3>1, <3>2
  <2> QED BY <2>2, <2>3
<1>10. Proceeds(st, val, held) /\ Comes(st, cl, k)
  BY <1>2, <1>4, <1>6, <1>7, <1>8, <1>9, WalkFrames
<1>11. stack' = st
  <2>1. wk \in Frames /\ cl \in Frames
    <3>1. {s \in SlotsOf(c) : val[s] # Gone} \in SUBSET Slot
      BY SlotFacts
    <3> QED BY <1>2, <3>1, FrameTypes, ValueFacts
  <2>2. <<wk, cl>> \in Seq(Frames) /\ <<as>> \in Seq(Frames)
    <3>1. \A x, y \in Frames : <<x, y>> \in Seq(Frames) /\ <<x>> \in Seq(Frames)
      OBVIOUS
    <3> QED BY <1>6, <2>1, <3>1
  <2>3. \A s, t, u \in Seq(Frames) : (s \o t) \o u = s \o (t \o u)
    OBVIOUS
  <2>4. (<<wk, cl>> \o <<as>>) \o stack = <<wk, cl>> \o (<<as>> \o stack)
    BY <1>4, <2>2, <2>3
  <2> QED BY <1>2, <1>3, <2>4
<1>12. Comes(st, cl, stack)
  <2>1. ComingBy(as) = 0 /\ ComingBy(cl) = 0
    BY <1>2, <1>6 DEF ComingBy, Awaited
  <2>2. Cardinality(Coming(st)) = Cardinality(Coming(stack)) + ComingBy(cl)
    BY <1>8, <1>10, <2>1 DEF Comes
  <2> QED BY <1>6, <1>8, <1>10, <2>2 DEF Comes
<1>13. cl.do # "store"
  BY <1>2
<1>14. Good(val, refs, held, typeRefs, st)
  BY <1>10, <1>12, <1>13, GoodPushed
<1> QED BY <1>3, <1>11, <1>14

-----------------------------------------------------------------------------
(* Things come and go.                                                     *)

(* What is counted of one thing changes.                                   *)
Counted(r, h, q, k, to, t) ==
  /\ q \in [Thing -> Nat] /\ k \subseteq Thing
  /\ \A y \in Thing : y # t => q[y] = r[y] /\ (y \in k <=> y \in h)
  /\ q[t] = Has(k, t) + Collected(q, t) + Count(to, t)

LEMMA GoodCounted ==
  ASSUME NEW v, NEW r, NEW h, NEW tr, NEW st, Good(v, r, h, tr, st),
         NEW t \in Thing, NEW q, NEW k, Counted(r, h, q, k, Refers(v, FreedBy(st)), t),
         NEW w \in [Slot -> Values], Calm(v, w), NEW u \in Seq(Frames), Proceeds(u, w, k),
         Vacated(w, q, u), FreedBy(u) = FreedBy(st),
         Cardinality(Coming(u)) \in Nat, Cardinality(Coming(st)) \in Nat,
         NEW x \in Int, x = tr + (Cardinality(Coming(u)) - Cardinality(Coming(st)))
  PROVE  Good(w, q, k, x, u)
<1>1. PICK n, m, freed, to, typed :
        /\ n = Cardinality(Coming(st)) /\ m = Cardinality(Coming(u)) /\ freed = FreedBy(st)
        /\ to = Refers(v, freed) /\ typed = Typed(v)
  OBVIOUS
<1>2. tr \in Int /\ Sums(r, h, tr, to, typed, n)
  BY <1>1 DEF Good
<1>3. /\ q \in [Thing -> Nat] /\ k \subseteq Thing
      /\ \A y \in Thing : y # t => q[y] = r[y] /\ (y \in k <=> y \in h)
      /\ q[t] = Has(k, t) + Collected(q, t) + Count(to, t)
  BY <1>1 DEF Counted
<1>4. Sums(q, k, tr, to, typed, n)
  BY <1>2, <1>3, SumsAt
<1>5. n \in Nat /\ m \in Nat /\ x = tr + (m - n)
  BY <1>1
<1>6. Sums(q, k, x, Refers(w, freed), Typed(w), m)
  BY <1>1, <1>2, <1>4, <1>5, SumsCalm
<1> QED BY <1>1, <1>3, <1>6 DEF Good

(* A thing that nothing refers to.                                         *)
LEMMA UnusedFacts ==
  ASSUME Good(val, refs, held, typeRefs, stack), NEW t \in Thing, Unused(t)
  PROVE  /\ refs[t] = 0 /\ t \notin held /\ Count(Refers(val, FreedBy(stack)), t) = 0
         /\ t \in Container => \A s \in SlotsOf(t) : val[s] = Gone
         /\ \A i \in DOMAIN stack : stack[i].do = "walk" => stack[i].of # t
<1>1. /\ refs \in [Thing -> Nat] /\ Ordered(stack, val, held) /\ Vacated(val, refs, stack)
      /\ Sums(refs, held, typeRefs, Refers(val, FreedBy(stack)), Typed(val), Cardinality(Coming(stack)))
  BY DEF Good, Proceeds
<1>2. refs[t] = 0 /\ ~Clears(stack, t)
  BY DEF Unused, Clears
<1>3. t \notin held /\ Count(Refers(val, FreedBy(stack)), t) = 0
  BY <1>1, <1>2, Alive
<1>4. t \in Container => \A s \in SlotsOf(t) : val[s] = Gone
  BY <1>1, <1>2 DEF Vacated
<1>5. \A i \in DOMAIN stack : stack[i].do = "walk" => stack[i].of # t
  BY <1>1, <1>2, WalksClear
<1> QED BY <1>2, <1>3, <1>4, <1>5

LEMMA NewObjectStep ==
  ASSUME fault = "none", Good(val, refs, held, typeRefs, stack), Idle(stack),
         NEW o \in Object, NewObject(o)
  PROVE  fault' = "none" /\ Good(val', refs', held', typeRefs', stack')
<1>1. PICK q, k : q = [refs EXCEPT ![o] = 1] /\ k = held \cup {o}
  OBVIOUS
<1>2. /\ Unused(o) /\ held' = k /\ refs' = q /\ val' = val /\ typeRefs' = typeRefs /\ stack' = stack
      /\ fault' = fault
  BY <1>1 DEF NewObject
<1>3. /\ val \in [Slot -> Values] /\ refs \in [Thing -> Nat] /\ held \subseteq Thing
      /\ stack \in Seq(Frames) /\ typeRefs \in Int
      /\ Ordered(stack, val, held) /\ Vacated(val, refs, stack)
      /\ Sums(refs, held, typeRefs, Refers(val, FreedBy(stack)), Typed(val), Cardinality(Coming(stack)))
  BY DEF Good, Proceeds
<1>4. o \in Thing /\ o \notin Container
  BY CellsAssumption DEF Thing
<1>5. Counted(refs, held, q, k, Refers(val, FreedBy(stack)), o)
  <2>1. Count(Refers(val, FreedBy(stack)), o) = 0
    BY <1>2, <1>4, UnusedFacts
  <2>2. q[o] = 1 /\ Has(k, o) = 1 /\ Collected(q, o) = 0
    BY <1>1, <1>3, <1>4 DEF Has, Collected
  <2>3. q \in [Thing -> Nat] /\ k \subseteq Thing
        /\ \A y \in Thing : y # o => q[y] = refs[y] /\ (y \in k <=> y \in held)
    BY <1>1, <1>3, <1>4
  <2> QED BY <2>1, <2>2, <2>3 DEF Counted
<1>6. Proceeds(stack, val, k)
  <2>1. Grown(val, val) /\ held \subseteq k
    BY <1>1 DEF Grown
  <2>2. Ordered(stack, val, k)
    BY <1>3, <2>1, OrderedGrown
  <2>3. stack # <<>> => Ready(stack[1], val)
    BY DEF Idle, Ready
  <2> QED BY <2>2, <2>3 DEF Proceeds
<1>7. Vacated(val, q, stack)
  BY <1>1, <1>3, <1>4 DEF Vacated
<1>8. Sums(q, k, typeRefs, Refers(val, FreedBy(stack)), Typed(val), Cardinality(Coming(stack)))
  <2>1. PICK to, typed, n : /\ to = Refers(val, FreedBy(stack)) /\ typed = Typed(val)
                            /\ n = Cardinality(Coming(stack))
    OBVIOUS
  <2>2. Sums(refs, held, typeRefs, to, typed, n) /\ Counted(refs, held, q, k, to, o)
    BY <1>3, <1>5, <2>1
  <2>3. Sums(q, k, typeRefs, to, typed, n)
    BY <1>4, <2>2, SumsAt DEF Counted
  <2> QED BY <2>1, <2>3
<1>9. Good(val, q, k, typeRefs, stack)
  BY <1>3, <1>5, <1>6, <1>7, <1>8 DEF Good, Counted
<1> QED BY <1>2, <1>9

LEMMA GetHandleStep ==
  ASSUME fault = "none", Good(val, refs, held, typeRefs, stack), Idle(stack),
         NEW s \in Slot, GetHandle(s)
  PROVE  careless' \/ (fault' = "none" /\ Good(val', refs', held', typeRefs', stack'))
<1>1. SUFFICES ASSUME ~careless' PROVE fault' = "none" /\ Good(val', refs', held', typeRefs', stack')
  OBVIOUS
<1>2. PICK t, q, k : t = val[s].to /\ q = [refs EXCEPT ![t] = @ + 1] /\ k = held \cup {t}
  OBVIOUS
<1>3. /\ val \in [Slot -> Values] /\ refs \in [Thing -> Nat] /\ held \subseteq Thing
      /\ stack \in Seq(Frames) /\ typeRefs \in Int
      /\ Ordered(stack, val, held) /\ Vacated(val, refs, stack)
      /\ Sums(refs, held, typeRefs, Refers(val, FreedBy(stack)), Typed(val), Cardinality(Coming(stack)))
  BY DEF Good, Proceeds
<1>4. /\ Holds(val[s]) /\ t # Null /\ t \notin held /\ s \notin Freed
      /\ val' = val /\ typeRefs' = typeRefs /\ stack' = stack
  BY <1>1, <1>2 DEF GetHandle, CarelessIf
<1>5. t \in Thing
  BY <1>2, <1>3, <1>4, ValueKinds
<1>6. refs[t] \in Nat /\ refs[t] > 0
  <2>1. Refers(val, FreedBy(stack))[s] = t
    BY <1>2, <1>4, NotBusy DEF Refers
  <2> QED BY <1>3, <1>5, <2>1, Alive
<1>7. refs' = q /\ held' = k /\ fault' = fault
  BY <1>2, <1>6 DEF GetHandle
<1>8. /\ q \in [Thing -> Nat] /\ k \subseteq Thing /\ q[t] = refs[t] + 1
      /\ \A y \in Thing : y # t => q[y] = refs[y] /\ (y \in k <=> y \in held)
  BY <1>2, <1>3, <1>5
<1>9. Has(k, t) = Has(held, t) + 1 /\ Collected(q, t) = Collected(refs, t)
  BY <1>2, <1>4, <1>6, <1>8 DEF Has, Collected
<1>10. Sums(q, k, typeRefs, Refers(val, FreedBy(stack)), Typed(val), Cardinality(Coming(stack)))
  <2>1. PICK to, typed, n : /\ to = Refers(val, FreedBy(stack)) /\ typed = Typed(val)
                            /\ n = Cardinality(Coming(stack))
    OBVIOUS
  <2>2. Sums(refs, held, typeRefs, to, typed, n)
    BY <1>3, <2>1
  <2>3. refs[t] = Has(held, t) + Collected(refs, t) + Count(to, t) /\ Count(to, t) \in Nat
    BY <1>5, <2>2, CountType DEF Sums
  <2>4. Has(held, t) \in Nat /\ Collected(refs, t) \in Nat
    BY DEF Has, Collected
  <2>5. q[t] = Has(k, t) + Collected(q, t) + Count(to, t)
    BY <1>8, <1>9, <2>3, <2>4
  <2>6. Sums(q, k, typeRefs, to, typed, n)
    BY <1>5, <1>8, <2>2, <2>5, SumsAt
  <2> QED BY <2>1, <2>6
<1>11. Proceeds(stack, val, k)
  <2>1. Grown(val, val) /\ held \subseteq k
    BY <1>2 DEF Grown
  <2>2. Ordered(stack, val, k)
    BY <1>3, <2>1, OrderedGrown
  <2>3. stack # <<>> => Ready(stack[1], val)
    BY DEF Idle, Ready
  <2> QED BY <2>2, <2>3 DEF Proceeds
<1>12. Vacated(val, q, stack)
  BY <1>3, <1>6, <1>8, ValueFacts DEF Vacated
<1>13. Good(val, q, k, typeRefs, stack)
  BY <1>3, <1>8, <1>10, <1>11, <1>12 DEF Good
<1> QED BY <1>4, <1>7, <1>13

LEMMA DropHandleStep ==
  ASSUME fault = "none", Good(val, refs, held, typeRefs, stack), Idle(stack),
         NEW t \in held, DropHandle(t)
  PROVE  fault' = "none" /\ Good(val', refs', held', typeRefs', stack')
<1>1. PICK q, k, de : /\ q = [refs EXCEPT ![t] = @ - 1] /\ k = held \ {t}
                      /\ de = [do |-> "destructor", of |-> t]
  OBVIOUS
<1>2. /\ ~InUse(t) /\ held' = k /\ refs' = q /\ val' = val /\ typeRefs' = typeRefs /\ fault' = fault
      /\ stack' = (IF refs[t] = 1 THEN <<de>> ELSE <<>>) \o stack
  BY <1>1 DEF DropHandle, Does
<1>3. /\ val \in [Slot -> Values] /\ refs \in [Thing -> Nat] /\ held \subseteq Thing
      /\ stack \in Seq(Frames) /\ typeRefs \in Int
      /\ Ordered(stack, val, held) /\ Vacated(val, refs, stack)
      /\ Sums(refs, held, typeRefs, Refers(val, FreedBy(stack)), Typed(val), Cardinality(Coming(stack)))
  BY DEF Good, Proceeds
<1>4. t \in Thing /\ refs[t] \in Nat /\ refs[t] > 0 /\ (t \in Container => refs[t] > 1)
  BY <1>3, Alive
<1>5. /\ q \in [Thing -> Nat] /\ k \subseteq Thing /\ q[t] = refs[t] - 1
      /\ \A y \in Thing : y # t => q[y] = refs[y] /\ (y \in k <=> y \in held)
  BY <1>1, <1>3, <1>4
<1>6. Has(held, t) = 1 /\ Has(k, t) = 0 /\ Collected(q, t) = Collected(refs, t)
  BY <1>1, <1>4, <1>5 DEF Has, Collected
<1>7. Sums(q, k, typeRefs, Refers(val, FreedBy(stack)), Typed(val), Cardinality(Coming(stack)))
  <2>1. PICK to, typed, n : /\ to = Refers(val, FreedBy(stack)) /\ typed = Typed(val)
                            /\ n = Cardinality(Coming(stack))
    OBVIOUS
  <2>2. Sums(refs, held, typeRefs, to, typed, n)
    BY <1>3, <2>1
  <2>3. refs[t] = 1 + Collected(refs, t) + Count(to, t) /\ Count(to, t) \in Nat
    BY <1>4, <1>6, <2>2, CountType DEF Sums
  <2>4. Collected(refs, t) \in Nat
    BY DEF Collected
  <2>5. q[t] = 0 + Collected(q, t) + Count(to, t)
    BY <1>5, <1>6, <2>3, <2>4
  <2>6. Sums(q, k, typeRefs, to, typed, n)
    BY <1>4, <1>5, <1>6, <2>2, <2>5, SumsAt
  <2> QED BY <2>1, <2>6
<1>8. Ordered(stack, val, k)
  <2>1. ASSUME NEW i \in DOMAIN stack PROVE Sound(stack[i], val, k)
    <3> DEFINE g == stack[i]
    <3>1. g \in Frames /\ Sound(g, val, held)
      BY <1>3 DEF Ordered
    <3>2. /\ g.do = "store" => Owner(g.at) # t /\ g.val.to # t
          /\ g.do = "assign" => g.of # t
      BY <1>2 DEF InUse
    <3> HIDE DEF g
    <3>3. Sound(g, val, k)
      BY <1>1, <3>1, <3>2, ValueFacts DEF Sound
    <3> QED BY <3>3 DEF g
  <2> QED BY <1>3, <2>1, OrderedAs
<1>9. Vacated(val, q, stack)
  <2>1. \A c \in Container : q[c] = 0 => refs[c] = 0
    BY <1>4, <1>5, ValueFacts
  <2> QED BY <1>3, <2>1 DEF Vacated
<1>10. Good(val, q, k, typeRefs, stack)
  <2>1. stack # <<>> => Ready(stack[1], val)
    BY DEF Idle, Ready
  <2> QED BY <1>3, <1>5, <1>7, <1>8, <1>9, <2>1 DEF Good, Proceeds
<1>11. CASE refs[t] # 1
  <2>1. stack' = stack
    BY <1>2, <1>3, <1>11
  <2> QED BY <1>2, <1>10, <2>1
<1>12. CASE refs[t] = 1
  <2>1. PICK st : st = <<de>> \o stack
    OBVIOUS
  <2>2. stack' = st
    BY <1>2, <1>12, <2>1
  <2>3. de.do = "destructor" /\ de \in Frames
    BY <1>1, <1>4, FrameTypes
  <2>4. Sound(de, val, k) /\ Ready(de, val)
    BY <2>3 DEF Sound, Frees, Ready
  <2>5. \A i \in DOMAIN stack : Apart(de, stack[i])
    BY <2>3 DEF Apart, KeepsOff, Frees
  <2>6. stack # <<>> => Precedes(de, stack[1], val)
    BY <2>3 DEF Idle, Precedes
  <2>7. Fits(de, stack, val, k)
    BY <1>3, <1>8, <2>3, <2>4, <2>5, <2>6 DEF Fits
  <2>8. Proceeds(st, val, k) /\ Adds(de, stack, st)
    BY <2>1, <2>4, <2>7, Pushing
  <2>9. Comes(st, de, stack)
    BY <2>3, <2>8 DEF Adds, Comes
  <2>10. Good(val, q, k, typeRefs, st)
    BY <1>10, <2>3, <2>8, <2>9, GoodPushed
  <2> QED BY <1>2, <2>2, <2>10
<1> QED BY <1>11, <1>12

(* A container that is made, with a first value to be stored.              *)
LEMMA NewStored ==
  ASSUME Good(val, refs, held, typeRefs, stack), Idle(stack),
         NEW c \in Container, Unused(c), NEW s \in SlotsOf(c), NEW v \in Arguments,
         NEW w, w = [val EXCEPT ![s] = Empty], NEW q, q = [refs EXCEPT ![c] = 2],
         NEW k, k = held \cup {c}, NEW b, b = [do |-> "store", at |-> s, val |-> v, from |-> Null],
         NEW st, st = <<b>> \o stack, NEW x \in Int, x = typeRefs + ComingBy(b)
  PROVE  Good(w, q, k, x, st)
<1>1. /\ val \in [Slot -> Values] /\ refs \in [Thing -> Nat] /\ held \subseteq Thing
      /\ stack \in Seq(Frames) /\ typeRefs \in Int
      /\ Ordered(stack, val, held) /\ Vacated(val, refs, stack)
  BY DEF Good, Proceeds
<1>2. c \in Thing /\ s \in Slot /\ Owner(s) = c
  BY SlotFacts, ValueFacts
<1>3. /\ refs[c] = 0 /\ c \notin held /\ Count(Refers(val, FreedBy(stack)), c) = 0
      /\ val[s] = Gone /\ \A i \in DOMAIN stack : stack[i].do = "walk" => stack[i].of # c
  BY <1>2, UnusedFacts
<1>4. v \in Values /\ v # Gone /\ (Holds(v) => v.to \in k)
  BY <1>1, ValueFacts DEF Arguments
<1>5. /\ b.do = "store" /\ b.at = s /\ b.val = v /\ b.from = Null /\ b \in Frames /\ ~Frees(b)
      /\ Null \notin Slot /\ s # Null
  BY <1>2, <1>4, FrameTypes, SlotFacts DEF Frees
<1>6. w \in [Slot -> Values] /\ w[s] = Empty /\ Grown(val, w)
  BY <1>1, <1>2, <1>3, ValueFacts DEF Grown
<1>7. Counted(refs, held, q, k, Refers(val, FreedBy(stack)), c)
  <2>1. q[c] = 2 /\ Has(k, c) = 1 /\ Collected(q, c) = 1
    BY <1>1, <1>2 DEF Has, Collected
  <2>2. q \in [Thing -> Nat] /\ k \subseteq Thing
        /\ \A y \in Thing : y # c => q[y] = refs[y] /\ (y \in k <=> y \in held)
    BY <1>1, <1>2
  <2> QED BY <1>3, <2>1, <2>2 DEF Counted
<1>8. Fits(b, stack, w, k)
  <2>1. Ordered(stack, w, k)
    BY <1>1, <1>6, OrderedGrown
  <2>2. Sound(b, w, k)
    BY <1>2, <1>4, <1>5, <1>6, ValueFacts DEF Sound
  <2>3. ASSUME NEW i \in DOMAIN stack PROVE Apart(b, stack[i])
    <3> DEFINE g == stack[i]
    <3>1. g \in Frames /\ Sound(g, val, held) /\ (g.do = "walk" => g.of # c)
      BY <1>1, <1>3 DEF Ordered
    <3> HIDE DEF g
    <3>2. g.do = "cleared" => g.at \in Slot /\ g.at # s
      BY <1>3, <3>1, FrameKinds, ValueFacts DEF Sound, Frees
    <3>3. g.do = "store" /\ g.from \in Slot => g.from # s
      BY <1>3, <3>1 DEF Sound
    <3>4. Apart(b, g)
      BY <1>2, <1>5, <3>1, <3>2, <3>3 DEF Apart, KeepsOff
    <3> QED BY <3>4 DEF g
  <2>4. stack # <<>> => Precedes(b, stack[1], w)
    BY <1>5 DEF Idle, Precedes
  <2> QED BY <1>1, <1>5, <2>1, <2>2, <2>3, <2>4 DEF Fits
<1>9. Proceeds(st, w, k) /\ Adds(b, stack, st)
  <2>1. Ready(b, w)
    BY <1>5, <1>6, ValueFacts DEF Ready
  <2> QED BY <1>8, <2>1, Pushing
<1>10. /\ st \in Seq(Frames) /\ FreedBy(st) = FreedBy(stack) /\ Cardinality(Coming(stack)) \in Nat
       /\ Cardinality(Coming(st)) = Cardinality(Coming(stack)) + ComingBy(b)
       /\ \A d : Clears(stack, d) => Clears(st, d)
  BY <1>5, <1>9 DEF Adds
<1>11. ComingBy(b) \in Nat
  BY DEF ComingBy
<1>12. Cardinality(Coming(st)) \in Nat
       /\ x = typeRefs + (Cardinality(Coming(st)) - Cardinality(Coming(stack)))
  BY <1>1, <1>10, <1>11
<1>13. Vacated(w, q, st)
  <2>1. ASSUME NEW d \in Container, q[d] = 0
        PROVE  Clears(st, d) \/ \A y \in SlotsOf(d) : w[y] = Gone
    <3>1. d # c /\ refs[d] = 0
      BY <1>1, <1>2, <2>1, ValueFacts
    <3>2. Clears(stack, d) \/ \A y \in SlotsOf(d) : val[y] = Gone
      BY <1>1, <3>1 DEF Vacated
    <3>3. \A y \in SlotsOf(d) : w[y] = val[y]
      BY <1>1, <1>2, <3>1, SlotFacts
    <3> QED BY <1>10, <3>2, <3>3
  <2> QED BY <2>1 DEF Vacated
<1>14. Calm(val, w)
  BY <1>6, GrownCalm
<1> QED BY <1>2, <1>6, <1>7, <1>9, <1>10, <1>12, <1>13, <1>14, GoodCounted

LEMMA NewAnyStep ==
  ASSUME fault = "none", Good(val, refs, held, typeRefs, stack), Idle(stack),
         NEW c \in AnyCell, NEW v \in Arguments, NewAny(c, v)
  PROVE  fault' = "none" /\ Good(val', refs', held', typeRefs', stack')
<1>1. PICK s \in SlotsOf(c) : val' = [val EXCEPT ![s] = Empty] /\ Does(Storing(s, v, Null))
  BY DEF NewAny
<1>2. PICK w, q, k, b, st, x :
        /\ w = [val EXCEPT ![s] = Empty] /\ q = [refs EXCEPT ![c] = 2] /\ k = held \cup {c}
        /\ b = [do |-> "store", at |-> s, val |-> v, from |-> Null] /\ st = <<b>> \o stack
        /\ x = IF Holds(v) THEN typeRefs + 1 ELSE typeRefs
  OBVIOUS
<1>3. /\ Unused(c) /\ val' = w /\ refs' = q /\ held' = k /\ stack' = st /\ typeRefs' = x
      /\ fault' = fault
  BY <1>1, <1>2 DEF NewAny, Does, Storing
<1>4. c \in Container /\ Owner(s) = c
  BY SlotFacts, ValueFacts
<1>5. x \in Int /\ x = typeRefs + ComingBy(b)
  <2>1. typeRefs \in Int
    BY DEF Good
  <2> QED BY <1>2, <1>4, <2>1 DEF ComingBy, Awaited
<1>6. Good(w, q, k, x, st)
  BY <1>2, <1>3, <1>4, <1>5, NewStored
<1> QED BY <1>3, <1>6

LEMMA NewDictionaryStep ==
  ASSUME fault = "none", Good(val, refs, held, typeRefs, stack), Idle(stack),
         NEW c \in Dict, NEW v \in Arguments, NEW s \in SlotsOf(c) \cup {Null},
         NewDictionary(c, s, v)
  PROVE  fault' = "none" /\ Good(val', refs', held', typeRefs', stack')
<1>1. PICK q, k : q = [refs EXCEPT ![c] = 2] /\ k = held \cup {c}
  OBVIOUS
<1>2. Unused(c) /\ refs' = q /\ held' = k /\ typeRefs' = typeRefs /\ fault' = fault
  BY <1>1 DEF NewDictionary
<1>3. c \in Container /\ c \in Thing /\ c \notin AnyCell
  BY ValueFacts
<1>4. /\ val \in [Slot -> Values] /\ refs \in [Thing -> Nat] /\ held \subseteq Thing
      /\ stack \in Seq(Frames) /\ typeRefs \in Int
      /\ Ordered(stack, val, held) /\ Vacated(val, refs, stack)
      /\ Sums(refs, held, typeRefs, Refers(val, FreedBy(stack)), Typed(val), Cardinality(Coming(stack)))
  BY DEF Good, Proceeds
<1>5. CASE s \in SlotsOf(c)
  <2>1. PICK w, b, st :
          /\ w = [val EXCEPT ![s] = Empty] /\ st = <<b>> \o stack
          /\ b = [do |-> "store", at |-> s, val |-> v, from |-> Null]
    OBVIOUS
  <2>2. val' = w /\ stack' = st
    BY <1>5, <2>1 DEF NewDictionary, Does, Storing
  <2>3. Owner(s) = c
    BY <1>5, SlotFacts
  <2>4. typeRefs = typeRefs + ComingBy(b)
    <3>1. ComingBy(b) = 0
      BY <1>3, <2>1, <2>3 DEF ComingBy, Awaited
    <3> QED BY <1>4, <3>1
  <2>5. Good(w, q, k, typeRefs, st)
    BY <1>1, <1>2, <1>3, <1>4, <1>5, <2>1, <2>4, NewStored
  <2> QED BY <1>2, <2>2, <2>5
<1>6. CASE s \notin SlotsOf(c)
  <2>1. val' = val /\ stack' = stack
    BY <1>6 DEF NewDictionary
  <2>2. /\ q \in [Thing -> Nat] /\ k \subseteq Thing /\ q[c] = 2
        /\ \A y \in Thing : y # c => q[y] = refs[y] /\ (y \in k <=> y \in held)
    BY <1>1, <1>3, <1>4
  <2>3. Has(k, c) = 1 /\ Collected(q, c) = 1
    BY <1>1, <1>3, <2>2 DEF Has, Collected
  <2>4. Count(Refers(val, FreedBy(stack)), c) = 0
    BY <1>2, <1>3, UnusedFacts
  <2>5. Sums(q, k, typeRefs, Refers(val, FreedBy(stack)), Typed(val), Cardinality(Coming(stack)))
    <3>1. PICK to, typed, n : /\ to = Refers(val, FreedBy(stack)) /\ typed = Typed(val)
                              /\ n = Cardinality(Coming(stack))
      OBVIOUS
    <3>2. Sums(refs, held, typeRefs, to, typed, n)
      BY <1>4, <3>1
    <3>3. q[c] = Has(k, c) + Collected(q, c) + Count(to, c)
      BY <2>2, <2>3, <2>4, <3>1
    <3>4. Sums(q, k, typeRefs, to, typed, n)
      BY <1>3, <2>2, <3>2, <3>3, SumsAt
    <3> QED BY <3>1, <3>4
  <2>6. Ordered(stack, val, k)
    <3>1. Grown(val, val) /\ held \subseteq k
      BY <1>1 DEF Grown
    <3> QED BY <1>4, <3>1, OrderedGrown
  <2>7. stack # <<>> => Ready(stack[1], val)
    BY DEF Idle, Ready
  <2>8. Vacated(val, q, stack)
    BY <1>4, <2>2, ValueFacts DEF Vacated
  <2>9. Good(val, q, k, typeRefs, stack)
    BY <1>4, <2>2, <2>5, <2>6, <2>7, <2>8 DEF Good, Proceeds
  <2> QED BY <1>2, <2>1, <2>9
<1> QED BY <1>5, <1>6

(* The value of an any is to be freed.                                     *)
LEMMA FreeOnly ==
  ASSUME NEW v, NEW h, NEW u \in Seq(Frames), Ordered(u, v, h), Idle(u),
         NEW s \in Slot, Untouched(s, u), NEW st, st = Before(v, s) \o u
  PROVE  Proceeds(st, v, h) /\ Comes(st, [do |-> "free", at |-> s], u)
<1>1. PICK fr : fr = [do |-> "free", at |-> s]
  OBVIOUS
<1>2. fr.do = "free" /\ fr.at = s /\ fr \in Frames
  BY <1>1, FrameTypes
<1>3. ComingBy(fr) = 0
  BY <1>2 DEF ComingBy, Awaited
<1>4. CASE Holds(v[s])
  <2>1. st = <<fr>> \o u
    BY <1>1, <1>4 DEF Before
  <2>2. Sound(fr, v, h) /\ Ready(fr, v)
    BY <1>2, <1>4 DEF Sound, Ready
  <2>3. \A i \in DOMAIN u : Apart(fr, u[i])
    BY <1>1, FreeApart
  <2>4. u # <<>> => Precedes(fr, u[1], v)
    BY <1>2 DEF Idle, Precedes
  <2>5. Fits(fr, u, v, h)
    BY <1>2, <2>2, <2>3, <2>4 DEF Fits
  <2>6. Proceeds(st, v, h) /\ Adds(fr, u, st)
    BY <2>1, <2>2, <2>5, Pushing
  <2>7. Comes(st, fr, u)
    BY <1>2, <2>6 DEF Adds, Comes
  <2> QED BY <1>1, <2>6, <2>7
<1>5. CASE ~Holds(v[s])
  <2>1. st = u
    BY <1>5 DEF Before
  <2>2. u # <<>> => Ready(u[1], v)
    BY DEF Idle, Ready
  <2>3. Proceeds(st, v, h)
    BY <2>1, <2>2 DEF Proceeds
  <2>4. Cardinality(Coming(u)) \in Nat
    BY <1>2, ComingFacts
  <2>5. Cardinality(Coming(st)) = Cardinality(Coming(u)) + ComingBy(fr)
    BY <1>3, <2>1, <2>4
  <2>6. Comes(st, fr, u)
    BY <1>2, <2>1, <2>4, <2>5 DEF Comes
  <2> QED BY <1>1, <2>3, <2>6
<1> QED BY <1>4, <1>5

LEMMA AnyUntouched ==
  ASSUME NEW c \in AnyCell, ~InUse(c)
  PROVE  /\ (CHOOSE s \in SlotsOf(c) : TRUE) \in Slot
         /\ SlotsOf(c) = {CHOOSE s \in SlotsOf(c) : TRUE}
         /\ Owner(CHOOSE s \in SlotsOf(c) : TRUE) = c
         /\ Untouched(CHOOSE s \in SlotsOf(c) : TRUE, stack)
<1>1. PICK s \in Slot : SlotsOf(c) = {s}
  BY AnySlot
<1>2. (CHOOSE y \in SlotsOf(c) : TRUE) = s
  BY <1>1
<1>3. Owner(s) = c
  BY <1>1, SlotFacts
<1>4. Untouched(s, stack)
  BY <1>3 DEF InUse, Untouched
<1> QED BY <1>1, <1>2, <1>3, <1>4

LEMMA CollectStep ==
  ASSUME fault = "none", Good(val, refs, held, typeRefs, stack), Idle(stack),
         NEW c \in Container, Collect(c)
  PROVE  fault' = "none" /\ Good(val', refs', held', typeRefs', stack')
<1>1. /\ ~InUse(c) /\ val' = val /\ refs' = refs /\ held' = held /\ typeRefs' = typeRefs /\ fault' = fault
  BY DEF Collect
<1>2. val \in [Slot -> Values] /\ stack \in Seq(Frames) /\ Ordered(stack, val, held)
  BY DEF Good, Proceeds
<1>3. CASE c \in Dict
  <2>1. PICK wk, cl, st : /\ wk = [do |-> "walk", of |-> c, todo |-> {s \in SlotsOf(c) : val[s] # Gone}]
                          /\ cl = [do |-> "clear", of |-> c] /\ st = <<wk, cl>> \o stack
    OBVIOUS
  <2>2. stack' = st
    BY <1>3, <2>1 DEF Collect, Does, Walking
  <2>3. \A i \in DOMAIN stack : Spares(c, stack[i])
    BY <1>1, <1>2, NotDisturbed
  <2>4. Proceeds(st, val, held) /\ Comes(st, cl, stack)
    BY <1>2, <1>3, <2>1, <2>3, WalkFrames DEF Idle
  <2>5. cl.do # "store"
    BY <2>1
  <2>6. Good(val, refs, held, typeRefs, st)
    BY <2>4, <2>5, GoodPushed
  <2> QED BY <1>1, <2>2, <2>6
<1>4. CASE c \notin Dict
  <2>1. c \in AnyCell
    BY <1>4 DEF Container
  <2>2. PICK s, st, fr : /\ s = (CHOOSE y \in SlotsOf(c) : TRUE) /\ st = Before(val, s) \o stack
                         /\ fr = [do |-> "free", at |-> s]
    OBVIOUS
  <2>3. stack' = st
    BY <1>4, <2>2 DEF Collect, Does, Freeing, Before
  <2>4. s \in Slot /\ Untouched(s, stack)
    BY <1>1, <2>1, <2>2, AnyUntouched
  <2>5. Proceeds(st, val, held) /\ Comes(st, fr, stack)
    BY <1>2, <2>2, <2>4, FreeOnly
  <2>6. fr.do # "store"
    BY <2>2
  <2>7. Good(val, refs, held, typeRefs, st)
    BY <2>5, <2>6, GoodPushed
  <2> QED BY <1>1, <2>3, <2>7
<1> QED BY <1>3, <1>4

LEMMA SweepStep ==
  ASSUME fault = "none", Good(val, refs, held, typeRefs, stack), Idle(stack),
         NEW c \in Container, Sweep(c)
  PROVE  fault' = "none" /\ Good(val', refs', held', typeRefs', stack')
<1>1. PICK q, cl : q = [refs EXCEPT ![c] = 0] /\ cl = [do |-> "clear", of |-> c]
  OBVIOUS
<1>2. /\ ~InUse(c) /\ refs[c] = 1
      /\ val' = val /\ refs' = q /\ held' = held /\ typeRefs' = typeRefs /\ fault' = fault
  BY <1>1 DEF Sweep
<1>3. /\ val \in [Slot -> Values] /\ refs \in [Thing -> Nat] /\ held \subseteq Thing
      /\ stack \in Seq(Frames) /\ typeRefs \in Int
      /\ Ordered(stack, val, held) /\ Vacated(val, refs, stack) /\ c \in Thing
      /\ Sums(refs, held, typeRefs, Refers(val, FreedBy(stack)), Typed(val), Cardinality(Coming(stack)))
  BY ValueFacts DEF Good, Proceeds
<1>4. cl.do = "clear" /\ cl.of = c /\ cl \in Frames
  BY <1>1, FrameTypes
<1>5. PICK st : stack' = st /\ Proceeds(st, val, held) /\ Comes(st, cl, stack)
  <2>1. CASE c \in Dict
    <3>1. PICK wk, st : /\ wk = [do |-> "walk", of |-> c, todo |-> {s \in SlotsOf(c) : val[s] # Gone}]
                        /\ st = <<wk, cl>> \o stack
      OBVIOUS
    <3>2. stack' = st
      BY <1>1, <2>1, <3>1 DEF Sweep, Does, Walking
    <3>3. \A i \in DOMAIN stack : Spares(c, stack[i])
      BY <1>2, <1>3, NotDisturbed
    <3>4. Proceeds(st, val, held) /\ Comes(st, cl, stack)
      BY <1>1, <1>3, <2>1, <3>1, <3>3, WalkFrames DEF Idle
    <3> QED BY <3>2, <3>4
  <2>2. CASE c \notin Dict
    <3>1. c \in AnyCell
      BY <2>2 DEF Container
    <3>2. PICK s, st : /\ s = (CHOOSE y \in SlotsOf(c) : TRUE)
                       /\ st = (Before(val, s) \o <<cl>>) \o stack
      OBVIOUS
    <3>3. stack' = st
      BY <1>1, <2>2, <3>2 DEF Sweep, Does, Freeing, Before
    <3>4. s \in Slot /\ Untouched(s, stack) /\ SlotsOf(c) = {s} /\ Owner(s) = c
      BY <1>2, <3>1, <3>2, AnyUntouched
    <3>5. Fits(cl, stack, val, held)
      <4>1. Sound(cl, val, held)
        BY <1>4 DEF Sound, Frees
      <4>2. \A i \in DOMAIN stack : Spares(c, stack[i])
        BY <1>2, <1>3, NotDisturbed
      <4>3. \A i \in DOMAIN stack : Apart(cl, stack[i])
        BY <1>4, <4>2 DEF Apart, KeepsOff, Spares, Frees
      <4>4. stack # <<>> => Precedes(cl, stack[1], val)
        BY <1>4 DEF Idle, Precedes
      <4> QED BY <1>3, <1>4, <4>1, <4>3, <4>4 DEF Fits
    <3>6. Waits(cl, stack, val, s)
      <4>1. Precedes([do |-> "free", at |-> s], cl, val) /\ Apart([do |-> "free", at |-> s], cl)
        <5> DEFINE fr == [do |-> "free", at |-> s]
        <5>1. fr.do = "free" /\ fr.at = s /\ Frees(fr)
          BY DEF Frees
        <5> HIDE DEF fr
        <5>2. Precedes(fr, cl, val) /\ Apart(fr, cl)
          BY <1>4, <2>2, <3>4, <5>1 DEF Precedes, Apart
        <5> QED BY <5>2 DEF fr
      <4>2. \A i \in DOMAIN stack : Apart([do |-> "free", at |-> s], stack[i])
        BY <3>4, FreeApart
      <4>3. ~Holds(val[s]) => Ready(cl, val)
        BY <1>4, <3>4 DEF Ready
      <4> QED BY <4>1, <4>2, <4>3 DEF Waits
    <3>7. cl.do # "cleared"
      BY <1>4
    <3>8. Proceeds(st, val, held) /\ Comes(st, cl, stack)
      BY <3>2, <3>4, <3>5, <3>6, <3>7, FreeingFirst
    <3> QED BY <3>3, <3>8
  <2> QED BY <2>1, <2>2
<1>6. /\ st \in Seq(Frames) /\ FreedBy(st) = FreedBy(stack) /\ Clears(st, c)
      /\ \A d : Clears(stack, d) => Clears(st, d)
  BY <1>4, <1>5 DEF Comes
<1>7. Cardinality(Coming(st)) = Cardinality(Coming(stack)) /\ Cardinality(Coming(stack)) \in Nat
  BY <1>4, <1>5 DEF Comes, ComingBy, Awaited
<1>8. /\ q \in [Thing -> Nat] /\ q[c] = 0 /\ \A y \in Thing : y # c => q[y] = refs[y]
  BY <1>1, <1>3
<1>9. Sums(q, held, typeRefs, Refers(val, FreedBy(stack)), Typed(val), Cardinality(Coming(stack)))
  <2>1. PICK to, typed, n : /\ to = Refers(val, FreedBy(stack)) /\ typed = Typed(val)
                            /\ n = Cardinality(Coming(stack))
    OBVIOUS
  <2>2. Sums(refs, held, typeRefs, to, typed, n)
    BY <1>3, <2>1
  <2>3. c \notin held /\ Count(to, c) = 0
    BY <1>2, <1>3, <2>2, Alive
  <2>4. q[c] = Has(held, c) + Collected(q, c) + Count(to, c)
    BY <1>8, <2>3 DEF Has, Collected
  <2>5. Sums(q, held, typeRefs, to, typed, n)
    BY <1>3, <1>8, <2>2, <2>4, SumsAt
  <2> QED BY <2>1, <2>5
<1>10. Vacated(val, q, st)
  <2>1. \A d \in Container : d # c => q[d] = refs[d]
    BY <1>8, ValueFacts
  <2> QED BY <1>3, <1>6, <2>1 DEF Vacated
<1>11. Good(val, q, held, typeRefs, st)
  BY <1>3, <1>5, <1>6, <1>7, <1>8, <1>9, <1>10 DEF Good
<1> QED BY <1>2, <1>5, <1>11

-----------------------------------------------------------------------------
(* A dictionary is filled with the values of another.                      *)

Parts(A, B, C) ==
  /\ A \subseteq Slot /\ B \subseteq Slot /\ C \subseteq Slot
  /\ A \cap B = {} /\ A \cap C = {} /\ B \cap C = {}

LEMMA UnionCount ==
  ASSUME NEW A, NEW B, NEW C, Parts(A, B, C)
  PROVE  /\ Cardinality(A \cup B \cup C) = Cardinality(A) + Cardinality(B) + Cardinality(C)
         /\ Cardinality(A) \in Nat /\ Cardinality(B) \in Nat /\ Cardinality(C) \in Nat
         /\ (B = {} <=> Cardinality(B) = 0) /\ (C = {} <=> Cardinality(C) = 0)
<1>0. /\ A \subseteq Slot /\ B \subseteq Slot /\ C \subseteq Slot
      /\ A \cap B = {} /\ A \cap C = {} /\ B \cap C = {}
  BY DEF Parts
<1>1. IsFiniteSet(A) /\ IsFiniteSet(B) /\ IsFiniteSet(C)
  BY <1>0, SlotFacts, FS_Subset
<1>2. Cardinality(A \cup B) = Cardinality(A) + Cardinality(B) /\ IsFiniteSet(A \cup B)
  <2>1. /\ IsFiniteSet(A \cup B) /\ IsFiniteSet(A \cap B)
        /\ Cardinality(A \cup B) = Cardinality(A) + Cardinality(B) - Cardinality(A \cap B)
    BY <1>1, FS_Union, FS_Intersection
  <2>2. Cardinality(A \cap B) = 0
    BY <1>0, FS_EmptySet
  <2>3. Cardinality(A) \in Nat /\ Cardinality(B) \in Nat
    BY <1>1, FS_CardinalityType
  <2> QED BY <2>1, <2>2, <2>3
<1>3. Cardinality((A \cup B) \cup C) = Cardinality(A \cup B) + Cardinality(C)
  <2> DEFINE D == A \cup B
  <2>0. D \cap C = {}
    BY <1>0
  <2> HIDE DEF D
  <2>1. Cardinality(D \cup C) = Cardinality(D) + Cardinality(C) - Cardinality(D \cap C)
    BY <1>1, <1>2, FS_Union DEF D
  <2>2. Cardinality(D \cap C) = 0
    BY <2>0, FS_EmptySet
  <2>3. Cardinality(D) \in Nat /\ Cardinality(C) \in Nat
    BY <1>1, <1>2, FS_CardinalityType DEF D
  <2>4. Cardinality(D \cup C) = Cardinality(D) + Cardinality(C)
    BY <2>1, <2>2, <2>3
  <2> QED BY <2>4 DEF D
<1>4. Cardinality(A) \in Nat /\ Cardinality(B) \in Nat /\ Cardinality(C) \in Nat
  BY <1>1, FS_CardinalityType
<1>5. (B = {} <=> Cardinality(B) = 0) /\ (C = {} <=> Cardinality(C) = 0)
  BY <1>1, FS_EmptySet
<1> QED BY <1>2, <1>3, <1>4, <1>5

LEMMA CopyAllStep ==
  ASSUME fault = "none", Good(val, refs, held, typeRefs, stack), CopyAll
  PROVE  fault' = "none" /\ Good(val', refs', held', typeRefs', stack')
<1>1. /\ stack # <<>> /\ Head(stack).do = "assign" /\ stack' = Tail(stack)
      /\ typeRefs' = typeRefs /\ held' = held /\ fault' = fault
  BY DEF CopyAll, Doing, Script
<1>2. PICK f, u : /\ f = Head(stack) /\ u = Tail(stack) /\ Heads(f, u, val, held)
                  /\ Adds(f, u, stack) /\ Sound(f, val, held) /\ Ready(f, val)
  BY <1>1, Working
<1>3. /\ val \in [Slot -> Values] /\ refs \in [Thing -> Nat] /\ typeRefs \in Int /\ held \subseteq Thing
      /\ Vacated(val, refs, stack)
      /\ Sums(refs, held, typeRefs, Refers(val, FreedBy(stack)), Typed(val), Cardinality(Coming(stack)))
  BY DEF Good
<1>4. f.do = "assign" /\ f \in Frames /\ ~Frees(f) /\ u \in Seq(Frames)
  BY <1>1, <1>2 DEF Heads, Frees
<1>5. PICK c \in Dict, d \in Dict : c = f.of /\ d = f.from /\ c \in held
                                    /\ \A s \in SlotsOf(c) : val[s] = Gone
  BY <1>2, <1>4, FrameKinds DEF Sound, Ready
<1>6. /\ FreedBy(stack) = FreedBy(u) /\ Cardinality(Coming(u)) \in Nat
      /\ Cardinality(Coming(stack)) = Cardinality(Coming(u))
      /\ \A e : Clears(stack, e) <=> Clears(u, e)
  BY <1>2, <1>4 DEF Adds, ComingBy, Awaited
<1> DEFINE Source(s) == val[<<d, s[2]>>]
<1>7. PICK filled, copied :
        /\ filled = {s \in SlotsOf(c) : <<d, s[2]>> \in Slot}
        /\ copied = {s \in filled : Source(s).type = "object"}
  OBVIOUS
<1>8. PICK new \in [copied -> {o \in Object : Unused(o)}] :
        /\ val' = [s \in Slot |-> IF s \in copied THEN Copy(new[s])
                                  ELSE IF s \in filled THEN Source(s) ELSE val[s]]
        /\ refs' = [t \in Thing |-> refs[t]
                      + Cardinality({s \in copied : new[s] = t})
                      + Cardinality({s \in filled : Source(s) = Handle(t)})]
  <2> DEFINE From(s) == val[<<Head(stack).from, s[2]>>]
             full == {s \in SlotsOf(Head(stack).of) : <<Head(stack).from, s[2]>> \in Slot}
             cop == {s \in full : From(s).type = "object"}
  <2>1. PICK new \in [cop -> {o \in Object : Unused(o)}] :
          /\ val' = [s \in Slot |-> IF s \in cop THEN Copy(new[s])
                                    ELSE IF s \in full THEN From(s) ELSE val[s]]
          /\ refs' = [t \in Thing |-> refs[t] + Cardinality({s \in cop : new[s] = t})
                                              + Cardinality({s \in full : From(s) = Handle(t)})]
    BY Zenon DEF CopyAll
  <2>2. Head(stack).of = c /\ Head(stack).from = d
    BY <1>2, <1>5
  <2>3. full = filled
    BY <1>7, <2>2
  <2>4. \A s : From(s) = Source(s)
    BY <2>2
  <2>5. cop = copied
    BY <1>7, <2>3, <2>4
  <2>6. \A t : {s \in cop : new[s] = t} = {s \in copied : new[s] = t}
    BY <2>5
  <2>7. \A t : {s \in full : From(s) = Handle(t)} = {s \in filled : Source(s) = Handle(t)}
    BY <2>3, <2>4
  <2> HIDE DEF From, full, cop
  <2>8. /\ val' = [s \in Slot |-> IF s \in copied THEN Copy(new[s])
                                  ELSE IF s \in filled THEN Source(s) ELSE val[s]]
        /\ refs' = [t \in Thing |-> refs[t] + Cardinality({s \in copied : new[s] = t})
                                            + Cardinality({s \in filled : Source(s) = Handle(t)})]
    BY <2>1, <2>3, <2>4, <2>5, <2>6, <2>7
  <2> QED BY <2>5, <2>8
<1>9. /\ copied \subseteq filled /\ filled \subseteq SlotsOf(c) /\ filled \subseteq Slot
      /\ \A s \in filled : <<d, s[2]>> \in Slot /\ Source(s) \in Values
      /\ \A s \in filled : s \in copied <=> Source(s).type = "object"
  BY <1>3, <1>7, SlotFacts
<1>10. PICK w, q : w = val' /\ q = refs'
  OBVIOUS
<1>11. /\ \A s \in copied : new[s] \in Object /\ w[s] = Copy(new[s])
       /\ \A s \in filled : s \notin copied => w[s] = Source(s)
       /\ \A s \in Slot : s \notin filled => w[s] = val[s]
       /\ w \in [Slot -> Values]
  <2>1. \A s \in copied : new[s] \in Object
    OBVIOUS
  <2>2. \A s \in copied : Copy(new[s]) \in Values
    BY <2>1, ValueFacts
  <2> QED BY <1>3, <1>8, <1>9, <1>10, <2>1, <2>2
<1>12. \A y \in Slot : val[y] # Gone => w[y] = val[y]
  BY <1>5, <1>9, <1>11
<1>13. \A y \in Slot : Owner(y) # c => w[y] = val[y]
  BY <1>9, <1>11, SlotFacts
<1>14. ASSUME NEW i \in DOMAIN u PROVE Sound(u[i], w, held)
  <2> DEFINE g == u[i]
  <2>1. g \in Frames /\ Sound(g, val, held)
    BY <1>2 DEF Heads
  <2> HIDE DEF g
  <2>2. Frees(g) => w[g.at] = val[g.at]
    BY <1>12, <2>1, FrameKinds, ValueFacts DEF Sound
  <2>3. g.do \in {"store", "erase"} => w[g.at] # Gone
    BY <1>12, <2>1, FrameKinds, SoundHandles
  <2>4. g.do = "store" /\ g.from \in Slot => w[g.from] = val[g.from]
    BY <1>12, <2>1 DEF Sound
  <2>5. /\ g.do = "store" => Owner(g.at) \in held
        /\ g.do = "store" /\ g.from = Null /\ Holds(g.val) => g.val.to \in held
        /\ g.do = "assign" => g.of \in held
    BY <2>1, SoundHandles
  <2>6. Sound(g, w, held)
    BY <2>1, <2>2, <2>3, <2>4, <2>5 DEF Sound
  <2> QED BY <2>6 DEF g
<1>15. ASSUME NEW i \in DOMAIN u, NEW y \in Slot,
              u[i].do = "walk", Owner(y) = u[i].of, Holds(w[y])
       PROVE  Holds(val[y]) \/ y \in u[i].todo
  <2>1. Owner(y) # c
    BY <1>2, <1>4, <1>5, <1>15 DEF Heads, Apart
  <2> QED BY <1>13, <1>15, <2>1
<1>16. Ordered(u, w, held)
  BY <1>2, <1>4, <1>14, <1>15, OrderedAs DEF Heads
<1>17. Proceeds(u, w, held)
  BY <1>2, <1>4, <1>16, DoneFrames DEF Proceeds
<1> DEFINE A(t) == {s \in copied : new[s] = t}
           B(t) == {s \in filled : Source(s) = Handle(t)}
<1>18. ASSUME NEW s \in Slot, s \in FreedBy(u) PROVE Owner(s) # c /\ Owner(s) # d
  <2>1. PICK i \in DOMAIN u : u[i].do = "cleared" /\ u[i].at = s
    BY <1>18, FreedAre
  <2> QED BY <1>2, <1>4, <1>5, <2>1 DEF Heads, Apart, KeepsOff
<1>19. ASSUME NEW t \in Thing, B(t) # {} PROVE refs[t] > 0
  <2>1. PICK s \in filled : Source(s) = Handle(t)
    BY <1>19
  <2>2. PICK y \in Slot : y = <<d, s[2]>>
    BY <1>9, <2>1
  <2>3. Owner(y) = d /\ val[y] = Handle(t)
    BY <2>1, <2>2 DEF Owner
  <2>4. y \notin FreedBy(u)
    BY <1>18, <2>3
  <2>5. Refers(val, FreedBy(stack))[y] = t
    BY <1>6, <2>3, <2>4, ValueFacts DEF Refers
  <2> QED BY <1>3, <2>5, Alive
<1>20. ASSUME NEW t \in Thing, t \in Container PROVE A(t) = {}
  BY <1>11, <1>20, CellsAssumption
<1> DEFINE to == Refers(val, FreedBy(stack))
           next == Refers(w, FreedBy(u))
<1>21. ASSUME NEW s \in Slot, NEW t \in Thing
       PROVE  next[s] = t <=> to[s] = t \/ s \in A(t) \/ s \in B(t)
  <2>0. Null # t
    BY ValueFacts
  <2>1. CASE s \notin SlotsOf(c)
    <3>1. w[s] = val[s] /\ s \notin filled
      BY <1>9, <1>11, <2>1
    <3> QED BY <1>6, <1>9, <3>1 DEF Refers
  <2>2. CASE s \in SlotsOf(c) /\ s \notin filled
    <3>1. w[s] = Gone /\ val[s] = Gone /\ s \notin copied
      BY <1>5, <1>9, <1>11, <2>2
    <3> QED BY <2>0, <2>2, <3>1, ValueFacts DEF Refers
  <2>3. CASE s \in filled
    <3>1. s \in SlotsOf(c) /\ val[s] = Gone /\ s \notin FreedBy(u)
      BY <1>5, <1>9, <1>18, <2>3, SlotFacts
    <3>2. to[s] # t /\ (next[s] = t <=> Holds(w[s]) /\ w[s].to = t)
      BY <2>0, <3>1, ValueFacts DEF Refers
    <3>3. CASE s \in copied
      <4>1. s \notin B(t)
        BY <1>9, <2>3, <3>3, ValueFacts
      <4>2. Holds(w[s]) /\ w[s].to = new[s]
        BY <1>11, <3>3, ValueFacts
      <4> QED BY <3>2, <3>3, <4>1, <4>2
    <3>4. CASE s \notin copied
      <4>1. w[s] = Source(s) /\ w[s] \in Values /\ w[s].type # "object"
        BY <1>9, <1>11, <2>3, <3>4
      <4>2. Holds(w[s]) /\ w[s].to = t <=> w[s] = Handle(t)
        BY <4>1, ValueKinds, ValueFacts
      <4> QED BY <2>3, <3>2, <3>4, <4>1, <4>2
    <3> QED BY <3>3, <3>4
  <2> QED BY <1>9, <2>1, <2>2, <2>3
<1>22. ASSUME NEW s \in Slot, NEW t \in Thing
       PROVE  /\ s \in A(t) => s \notin B(t) /\ to[s] # t
              /\ s \in B(t) => to[s] # t
  <2>1. s \in filled => to[s] # t
    BY <1>5, <1>9, ValueFacts DEF Refers
  <2>2. s \in copied => Source(s) # Handle(t)
    BY <1>9, ValueFacts
  <2> QED BY <1>9, <2>1, <2>2
<1>23. ASSUME NEW t \in Thing
       PROVE  /\ Count(next, t) = Count(to, t) + Cardinality(A(t)) + Cardinality(B(t))
              /\ Count(to, t) \in Nat /\ Cardinality(A(t)) \in Nat /\ Cardinality(B(t)) \in Nat
              /\ (A(t) = {} <=> Cardinality(A(t)) = 0) /\ (B(t) = {} <=> Cardinality(B(t)) = 0)
  <2> DEFINE T == {s \in Slot : to[s] = t}
             N == {s \in Slot : next[s] = t}
  <2>1. A(t) \subseteq Slot /\ B(t) \subseteq Slot /\ T \subseteq Slot
    BY <1>9
  <2>2. N = T \cup A(t) \cup B(t)
    BY <1>21, <2>1
  <2>3. T \cap A(t) = {} /\ T \cap B(t) = {} /\ A(t) \cap B(t) = {}
    BY <1>22, <2>1
  <2>4. Count(next, t) = Cardinality(N) /\ Count(to, t) = Cardinality(T)
    BY DEF Count
  <2>5. PICK a, b, n, p : a = A(t) /\ b = B(t) /\ n = N /\ p = T
    OBVIOUS
  <2> HIDE DEF A, B, T, N, to, next
  <2>6. Parts(p, a, b) /\ n = p \cup a \cup b
    BY <2>1, <2>2, <2>3, <2>5 DEF Parts
  <2>7. /\ Cardinality(n) = Cardinality(p) + Cardinality(a) + Cardinality(b)
        /\ Cardinality(p) \in Nat /\ Cardinality(a) \in Nat /\ Cardinality(b) \in Nat
        /\ (a = {} <=> Cardinality(a) = 0) /\ (b = {} <=> Cardinality(b) = 0)
    BY <2>6, UnionCount
  <2> QED BY <2>4, <2>5, <2>7
<1>24. \A t \in Thing : q[t] = refs[t] + Cardinality(A(t)) + Cardinality(B(t))
  BY <1>8, <1>10
<1>25. q \in [Thing -> Nat]
  <2>1. q = [t \in Thing |-> q[t]]
    BY <1>8, <1>10
  <2>2. ASSUME NEW t \in Thing PROVE q[t] \in Nat
    <3> HIDE DEF A, B
    <3> QED BY <1>3, <1>23, <1>24
  <2> QED BY <2>1, <2>2
<1>26. Typed(w) = Typed(val)
  <2>1. c \notin AnyCell
    BY ValueFacts
  <2> QED BY <1>13, <2>1 DEF Typed
<1> HIDE DEF A, B, to, next
<1>27. ASSUME NEW t \in Thing
       PROVE  q[t] = Has(held, t) + Collected(q, t) + Count(next, t)
  <2>1. refs[t] = Has(held, t) + Collected(refs, t) + Count(to, t)
    BY <1>3 DEF Sums, to
  <2>2. Collected(q, t) = Collected(refs, t)
    <3>1. t \in Container => Cardinality(A(t)) = 0
      BY <1>20, <1>23
    <3>2. refs[t] = 0 => Cardinality(B(t)) = 0
      BY <1>19, <1>23
    <3>3. refs[t] \in Nat
      BY <1>3
    <3> QED BY <1>23, <1>24, <3>1, <3>2, <3>3 DEF Collected
  <2>3. Has(held, t) \in Nat /\ Collected(refs, t) \in Nat
    BY DEF Has, Collected
  <2> QED BY <1>23, <1>24, <2>1, <2>2, <2>3
<1>28. typeRefs = Count(Typed(w), 1) + Cardinality(Coming(u))
  BY <1>3, <1>6, <1>26 DEF Sums
<1>29. Sums(q, held, typeRefs, Refers(w, FreedBy(u)), Typed(w), Cardinality(Coming(u)))
  BY <1>27, <1>28 DEF Sums, next
<1>30. Vacated(w, q, u)
  <2>1. ASSUME NEW e \in Container, q[e] = 0
        PROVE  Clears(u, e) \/ \A s \in SlotsOf(e) : w[s] = Gone
    <3>1. e \in Thing /\ refs[e] \in Nat
      BY <1>3, ValueFacts
    <3>2. refs[e] = 0
      BY <1>23, <1>24, <2>1, <3>1
    <3>3. e # c
      BY <1>3, <1>5, <3>1, <3>2, Alive
    <3>4. Clears(stack, e) \/ \A s \in SlotsOf(e) : val[s] = Gone
      BY <1>3, <3>2 DEF Vacated
    <3>5. \A s \in SlotsOf(e) : w[s] = val[s]
      BY <1>13, <3>3, SlotFacts
    <3> QED BY <1>6, <3>4, <3>5
  <2> QED BY <2>1 DEF Vacated
<1>31. Good(w, q, held, typeRefs, u)
  BY <1>3, <1>4, <1>11, <1>17, <1>25, <1>29, <1>30 DEF Good
<1> QED BY <1>1, <1>2, <1>10, <1>31

-----------------------------------------------------------------------------
(* All steps.                                                              *)

LEMMA InitGood == Init => IInv
<1> SUFFICES ASSUME Init PROVE IInv
  OBVIOUS
<1>1. /\ val = [s \in Slot |-> Gone] /\ refs = [t \in Thing |-> 0] /\ held = {} /\ typeRefs = 0
      /\ stack = <<>> /\ fault = "none"
  BY DEF Init
<1>2. Types
  BY <1>1, ValueFacts DEF Types
<1>3. Proceeds(stack, val, held)
  BY <1>1, NothingOrdered
<1>4. Vacant
  BY <1>1, SlotFacts DEF Vacant
<1>5. Balance(val, refs, held, typeRefs, stack)
  <2>1. \A s \in Slot : Refers(val, FreedBy(stack))[s] = Null /\ Typed(val)[s] = 0
    BY <1>1, ValueFacts DEF Refers, Typed
  <2>2. \A t \in Thing : t # Null
    BY ValueFacts
  <2>3. \A t \in Thing : ~(\E s \in Slot : Refers(val, FreedBy(stack))[s] = t)
    BY <2>1, <2>2
  <2>4. ~(\E s \in Slot : Typed(val)[s] = 1)
    BY <2>1
  <2>5. PICK to, typed : to = Refers(val, FreedBy(stack)) /\ typed = Typed(val)
    OBVIOUS
  <2>6. ASSUME NEW t \in Thing PROVE Count(to, t) = 0
    <3>1. Count(to, t) \in Nat /\ ~(Count(to, t) > 0)
      BY <2>3, <2>5, CountType
    <3> QED BY <3>1
  <2>7. Count(typed, 1) = 0
    <3>1. Count(typed, 1) \in Nat /\ ~(Count(typed, 1) > 0)
      BY <2>4, <2>5, CountType
    <3> QED BY <3>1
  <2>8. Cardinality(Coming(stack)) = 0
    <3>1. Coming(stack) = {}
      BY <1>1 DEF Coming
    <3> QED BY <3>1, FS_EmptySet
  <2>9. Sums(refs, held, typeRefs, to, typed, Cardinality(Coming(stack)))
    BY <1>1, <2>6, <2>7, <2>8 DEF Sums, Has, Collected
  <2> QED BY <2>5, <2>9, BalanceSums
<1>6. RefsBalanced
  BY <1>5, BalanceDef
<1> QED BY <1>1, <1>2, <1>3, <1>4, <1>6 DEF IInv

LEMMA ContinuesGood ==
  ASSUME fault = "none", Good(val, refs, held, typeRefs, stack), Continues
  PROVE  fault' = "none" /\ Good(val', refs', held', typeRefs', stack')
BY FreeStep, DestructorStep, ClearedStep, StoreStep, EraseStep, WalkStep, ClearStep, CopyAllStep
   DEF Continues

LEMMA CallsGood ==
  ASSUME fault = "none", Good(val, refs, held, typeRefs, stack), Acts, Calls
  PROVE  careless' \/ (fault' = "none" /\ Good(val', refs', held', typeRefs', stack'))
<1>1. Idle(stack)
  BY ActsIdle
<1>2. CASE \E c \in Dict, v \in Arguments : \E s \in SlotsOf(c) \cup {Null} : NewDictionary(c, s, v)
  BY <1>1, <1>2, NewDictionaryStep
<1>3. CASE \E c \in AnyCell, v \in Arguments : NewAny(c, v)
  BY <1>1, <1>3, NewAnyStep
<1>4. CASE \E o \in Object : NewObject(o)
  BY <1>1, <1>4, NewObjectStep
<1>5. CASE \E t \in held : DropHandle(t)
  BY <1>1, <1>5, DropHandleStep
<1>6. ASSUME NEW s \in Slot,
             \/ \E v \in Arguments : Set(s, v)
             \/ \E t \in Slot : SetFrom(s, t)
             \/ Index(s) \/ GetHandle(s) \/ Delete(s)
      PROVE  careless' \/ (fault' = "none" /\ Good(val', refs', held', typeRefs', stack'))
  <2>1. CASE \E v \in Arguments : Set(s, v)
    BY <1>1, <2>1, SetStep
  <2>2. CASE \E t \in Slot : SetFrom(s, t)
    BY <1>1, <2>2, SetFromStep
  <2>3. CASE Index(s)
    BY <1>1, <2>3, IndexStep
  <2>4. CASE GetHandle(s)
    BY <1>1, <2>4, GetHandleStep
  <2>5. CASE Delete(s)
    BY <1>1, <2>5, DeleteStep
  <2> QED BY <1>6, <2>1, <2>2, <2>3, <2>4, <2>5
<1>7. ASSUME NEW c \in Dict, DeleteAll(c) \/ \E d \in Dict : Assign(c, d)
      PROVE  careless' \/ (fault' = "none" /\ Good(val', refs', held', typeRefs', stack'))
  <2>1. CASE DeleteAll(c)
    BY <1>1, <2>1, DeleteAllStep
  <2>2. CASE \E d \in Dict : Assign(c, d)
    BY <1>1, <2>2, AssignStep
  <2> QED BY <1>7, <2>1, <2>2
<1>8. ASSUME NEW c \in Container, Collect(c) \/ Sweep(c)
      PROVE  careless' \/ (fault' = "none" /\ Good(val', refs', held', typeRefs', stack'))
  <2>1. CASE Collect(c)
    BY <1>1, <2>1, CollectStep
  <2>2. CASE Sweep(c)
    BY <1>1, <2>2, SweepStep
  <2> QED BY <1>8, <2>1, <2>2
<1> QED BY <1>2, <1>3, <1>4, <1>5, <1>6, <1>7, <1>8, Zenon DEF Calls

LEMMA NextGood == IInv /\ [Next]_vars => IInv'
<1> SUFFICES ASSUME IInv, [Next]_vars PROVE IInv'
  OBVIOUS
<1>1. CASE UNCHANGED vars
  BY <1>1 DEF vars, IInv, Types, Proceeds, Ordered, Vacant, Clearing, RefsBalanced, Freed
<1>2. CASE Next /\ careless
  <2>1. Continues
    BY <1>2 DEF Next, Acts
  <2>2. careless' = careless
    BY <2>1 DEF Continues, Free, DestructorReturns, Cleared, Store, Erase, Walk, Clear, CopyAll, Script
  <2> QED BY <1>2, <2>2, GoodNow
<1>3. CASE Next /\ ~careless
  <2>1. fault = "none" /\ Good(val, refs, held, typeRefs, stack)
    BY <1>3, GoodNow
  <2>2. CASE Continues
    BY <2>1, <2>2, ContinuesGood, GoodNow
  <2>3. CASE Acts /\ Calls
    BY <2>1, <2>3, CallsGood, GoodNow
  <2> QED BY <1>3, <2>2, <2>3 DEF Next
<1> QED BY <1>1, <1>2, <1>3

-----------------------------------------------------------------------------
(* Whatever C++ has still to do, deep in destructors, every frame of it    *)
(* relies on what the frames before it keep or bring about, unless a       *)
(* script or the host was careless.                                        *)
THEOREM DictionaryInvariant == Spec => []IInv
<1>1. Init => IInv
  BY InitGood
<1>2. IInv /\ [Next]_vars => IInv'
  BY NextGood
<1> QED BY <1>1, <1>2, PTL DEF Spec

(* The counts of dictionaries, anys, objects and types agree with what     *)
(* refers to them, at every point of every operation: whatever is stored,  *)
(* copied, erased, collected or destroyed within destructors, nothing is   *)
(* leaked and nothing is released twice.                                   *)
THEOREM ReferencesBalance == Spec => []RefsBalanced
<1>1. IInv => RefsBalanced
  BY DEF IInv, RefsBalanced
<1> QED BY <1>1, DictionaryInvariant, PTL

(* No node that was erased is used, no object that was deleted, and no     *)
(* value is destroyed that holds an object, as its destructor asserts, but *)
(* for a careless destructor or a value assigned to itself.                *)
THEOREM FaultsHaveCauses == Spec => []FaultHasCause
<1>1. IInv => FaultHasCause
  BY DEF IInv, FaultHasCause
<1> QED BY <1>1, DictionaryInvariant, PTL
=============================================================================
