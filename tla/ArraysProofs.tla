---------------------------- MODULE ArraysProofs ----------------------------
(***************************************************************************)
(* Proofs about Arrays: for any number of arrays and elements, words of    *)
(* any size and walks within one another to any depth, sorting loses no    *)
(* element and sorts when the comparisons are those of an order, an array  *)
(* that is inserted into an array, or into itself, is there whole, and     *)
(* references balance and no pointer dangles until a callback uses an      *)
(* array that is being walked.                                             *)
(***************************************************************************)
EXTENDS Arrays, FiniteSetTheorems, SequenceTheorems, TLAPS

-----------------------------------------------------------------------------
(* What holds between steps.                                               *)

(* The frames of walks, one field for each of their locals.                *)
Records ==
  [op : {"sort", "find", "equal", "copy", "destruct"},
   arr : Array, other : Array, from : Nat, to : Nat, i : Nat, j : Int, tmp : Elem,
   how : {"none", "asc", "desc", "less", "close", "delete", "waiting", "copying"},
   phase : {"run", "script"}, moved : BOOLEAN, honest : BOOLEAN, bag : [Elem -> Nat]]

(* What the locals of a walk are, whatever happens to the array.           *)
Frames ==
  {f \in Records :
     /\ f.from <= f.j
     /\ f.op = "destruct" => f.from <= f.to /\ f.how \in {"close", "delete"}
     /\ f.op = "sort" => f.j < f.i /\ f.i < f.to /\ f.how # "delete"}

(* Types of the variables that sorting and inserting depend on.            *)
Types ==
  /\ buf \in [Array -> Seq(Elem) \cup {NoBuffer}]
  /\ held \subseteq Object
  /\ stack \in Seq(Frames)
  /\ reentered \in BOOLEAN

(* Walks are over arrays that exist; one that is released has no other.    *)
Buffers ==
  \A k \in DOMAIN stack :
    /\ buf[stack[k].arr] # NoBuffer /\ buf[stack[k].other] # NoBuffer
    /\ stack[k].how = "delete" =>
         \A l \in DOMAIN stack : l # k => stack[k].arr \notin {stack[l].arr, stack[l].other}

(* An element goes before another, or may: less, or what sortDesc asks.    *)
InOrder(how, x, y) == IF how = "desc" THEN Rank[x] >= Rank[y] ELSE Rank[x] <= Rank[y]

(* The part of an array that has been sorted, but for the slot at j + 2,   *)
(* and what is behind that slot, where tmp may go.                         *)
Ordered(f, s) ==
  /\ \A x, y \in (f.from + 1)..(f.i + 1) :
       x < y /\ x # f.j + 2 /\ y # f.j + 2 => InOrder(f.how, s[x], s[y])
  /\ \A y \in (f.j + 3)..(f.i + 1) : InOrder(f.how, f.tmp, s[y])

(* What a sort has done of an array and has left to do.                    *)
Sorted(f, s) ==
  /\ f.to <= Len(s)
  /\ Bag([s EXCEPT ![f.j + 2] = f.tmp], f.from, f.to) = f.bag
  /\ f.honest => Ordered(f, s)

(* A sort is the outermost walk and the only one over its array.           *)
Sorts ==
  fault = "none" /\ ~reentered =>
    \A k \in DOMAIN stack : stack[k].op = "sort" =>
      /\ k = Len(stack)
      /\ \A l \in DOMAIN stack : l # k => stack[l].arr # stack[k].arr
      /\ Sorted(stack[k], buf[stack[k].arr])

(* The inductive invariant.                                                *)
IInv == Types /\ Buffers /\ Sorts

-----------------------------------------------------------------------------
(* Facts about arrays and walks.                                           *)

(* What is in a buffer is no mark for a missing one.                       *)
LEMMA BufferTypes ==
  /\ NoBuffer \notin Seq(Elem)
  /\ Types => \A a \in Array : buf[a] # NoBuffer => buf[a] \in Seq(Elem)
<1>1. NoBuffer \notin Seq(Elem)
  <2>1. SUFFICES ASSUME NoBuffer \in Seq(Elem) PROVE FALSE
    OBVIOUS
  <2>2. Len(NoBuffer) = 1
    BY DEF NoBuffer
  <2>3. NoBuffer[1] \in Elem
    BY <2>1, <2>2
  <2> QED BY <2>3, SetsAssumption DEF NoBuffer, Elem
<1> QED BY <1>1 DEF Types

LEMMA TopFrame ==
  ASSUME Types, stack # <<>>
  PROVE  /\ 1 \in DOMAIN stack /\ Top = stack[1] /\ Top \in Frames
         /\ Tail(stack) \in Seq(Frames) /\ Len(Tail(stack)) = Len(stack) - 1
         /\ \A k \in DOMAIN Tail(stack) : k + 1 \in DOMAIN stack /\ Tail(stack)[k] = stack[k + 1]
BY DEF Types, Top

LEMMA Joined ==
  ASSUME NEW F \in Seq(Frames), NEW S \in Seq(Frames)
  PROVE  LET t == F \o S IN
         /\ t \in Seq(Frames) /\ Len(t) = Len(F) + Len(S)
         /\ \A k \in DOMAIN t :
              \/ k \in DOMAIN F /\ t[k] = F[k]
              \/ k > Len(F) /\ k - Len(F) \in DOMAIN S /\ t[k] = S[k - Len(F)]
OBVIOUS

LEMMA FrameTypes ==
  ASSUME NEW f \in Frames
  PROVE  /\ f \in Records
         /\ f.arr \in Array /\ f.other \in Array /\ f.from \in Nat /\ f.to \in Nat
         /\ f.i \in Nat /\ f.j \in Nat /\ f.tmp \in Elem
         /\ f.honest \in BOOLEAN /\ f.moved \in BOOLEAN /\ f.from <= f.j
         /\ f.op = "destruct" => f.from <= f.to /\ f.how \in {"close", "delete"}
         /\ f.op = "sort" => f.j < f.i /\ f.i < f.to /\ f.how # "delete"
BY DEF Frames, Records

(* A walk goes on: what it is over stays, and a sort has no other locals.  *)
Like(f, g) ==
  /\ g.op = f.op /\ g.arr = f.arr /\ g.other = f.other
  /\ g.how = "delete" => f.how = "delete"
  /\ f.op = "sort" =>
       /\ g.from = f.from /\ g.to = f.to /\ g.i = f.i /\ g.j = f.j /\ g.tmp = f.tmp
       /\ g.how = f.how /\ g.honest = f.honest /\ g.bag = f.bag

LEMMA LikeSorted ==
  ASSUME NEW f, NEW g, NEW s, Like(f, g), f.op = "sort", Sorted(f, s)
  PROVE  Sorted(g, s)
BY DEF Like, Sorted, Ordered

-----------------------------------------------------------------------------
(* Steps by what they do to walks and buffers.                             *)

(* Walks start, go on or neither; a sort's array changes only when a       *)
(* callback uses it.                                                       *)
LEMMA WalksKeep ==
  ASSUME IInv, fault = "none",
         NEW F \in Seq(Frames), NEW S \in Seq(Frames),
         Len(S) = Len(stack), \A k \in DOMAIN stack : Like(stack[k], S[k]),
         stack' = F \o S,
         buf' \in [Array -> Seq(Elem) \cup {NoBuffer}],
         held' \subseteq Object, reentered' \in BOOLEAN, reentered => reentered',
         \A x \in Array : Walked(x) => buf'[x] # NoBuffer,
         \A k \in DOMAIN F :
           /\ buf'[F[k].arr] # NoBuffer /\ buf'[F[k].other] # NoBuffer
           /\ F[k].op # "sort"
           /\ F[k].how = "delete" => Len(F) = 1 /\ ~Walked(F[k].arr),
         \A k \in DOMAIN F, l \in DOMAIN stack :
           stack[l].how = "delete" => stack[l].arr \notin {F[k].arr, F[k].other},
         ~reentered' => \A k \in DOMAIN stack : stack[k].op = "sort" =>
           /\ buf'[stack[k].arr] = buf[stack[k].arr]
           /\ \A l \in DOMAIN F : F[l].arr # stack[k].arr
  PROVE  IInv'
<1> DEFINE t == F \o S
           n == Len(F)
<1>0. n \in Nat /\ stack \in Seq(Frames) /\ Len(stack) \in Nat /\ DOMAIN stack = 1..Len(stack)
      /\ DOMAIN S = DOMAIN stack /\ DOMAIN F = 1..n
  BY DEF IInv, Types
<1>1. /\ t \in Seq(Frames) /\ Len(t) = n + Len(stack) /\ stack' = t
      /\ \A k \in DOMAIN t :
           \/ k \in DOMAIN F /\ t[k] = F[k]
           \/ k > n /\ k - n \in DOMAIN stack /\ t[k] = S[k - n] /\ Like(stack[k - n], t[k])
  <2>1. /\ t \in Seq(Frames) /\ Len(t) = Len(F) + Len(S)
        /\ \A k \in DOMAIN t :
             \/ k \in DOMAIN F /\ t[k] = F[k]
             \/ k > Len(F) /\ k - Len(F) \in DOMAIN S /\ t[k] = S[k - Len(F)]
    BY Joined
  <2> QED BY <2>1, <1>0
<1>2. DOMAIN t = 1..(n + Len(stack))
  BY <1>1, <1>0
<1> HIDE DEF t, n
<1>3. Types'
  BY <1>1 DEF IInv, Types
<1>4. Buffers'
  <2> SUFFICES ASSUME NEW k \in DOMAIN t
               PROVE  /\ buf'[t[k].arr] # NoBuffer /\ buf'[t[k].other] # NoBuffer
                      /\ t[k].how = "delete" => \A l \in DOMAIN t : l # k =>
                           t[k].arr \notin {t[l].arr, t[l].other}
    BY <1>1 DEF Buffers
  <2>1. CASE k \in DOMAIN F /\ t[k] = F[k]
    <3>1. buf'[t[k].arr] # NoBuffer /\ buf'[t[k].other] # NoBuffer
      BY <2>1
    <3>2. ASSUME t[k].how = "delete", NEW l \in DOMAIN t, l # k
          PROVE  t[k].arr \notin {t[l].arr, t[l].other}
      <4>1. n = 1 /\ ~Walked(F[k].arr)
        BY <2>1, <3>2 DEF n
      <4>2. l \notin DOMAIN F
        BY <4>1, <3>2, <2>1, <1>0
      <4>3. l - n \in DOMAIN stack /\ Like(stack[l - n], t[l])
        BY <4>2, <1>1
      <4> QED BY <4>1, <4>3, <2>1 DEF Walked, Like
    <3> QED BY <3>1, <3>2
  <2>2. CASE k > n /\ k - n \in DOMAIN stack /\ Like(stack[k - n], t[k])
    <3>0. stack[k - n] \in Frames
      BY <2>2, <1>0
    <3>1. Walked(t[k].arr) /\ Walked(t[k].other) /\ t[k].arr \in Array /\ t[k].other \in Array
      BY <2>2, <3>0, FrameTypes DEF Walked, Like
    <3>2. ASSUME t[k].how = "delete", NEW l \in DOMAIN t, l # k
          PROVE  t[k].arr \notin {t[l].arr, t[l].other}
      <4>0. stack[k - n].how = "delete" /\ stack[k - n].arr = t[k].arr
        BY <2>2, <3>2 DEF Like
      <4>1. CASE l \in DOMAIN F /\ t[l] = F[l]
        BY <4>0, <4>1, <2>2
      <4>2. CASE l > n /\ l - n \in DOMAIN stack /\ Like(stack[l - n], t[l])
        <5>1. l - n # k - n
          BY <3>2, <2>2, <4>2, <1>0, <1>2
        <5>2. stack[k - n].arr \notin {stack[l - n].arr, stack[l - n].other}
          BY <5>1, <4>0, <4>2, <2>2 DEF IInv, Buffers
        <5> QED BY <5>2, <4>0, <4>2 DEF Like
      <4> QED BY <4>1, <4>2, <1>1
    <3> QED BY <3>1, <3>2
  <2> QED BY <2>1, <2>2, <1>1
<1>5. Sorts'
  <2> SUFFICES ASSUME ~reentered', NEW k \in DOMAIN t, t[k].op = "sort"
               PROVE  /\ k = Len(t)
                      /\ \A l \in DOMAIN t : l # k => t[l].arr # t[k].arr
                      /\ Sorted(t[k], buf'[t[k].arr])
    <3> QED BY <1>1 DEF Sorts
  <2> DEFINE m == k - n
  <2>1. k > n /\ m \in DOMAIN stack /\ Like(stack[m], t[k]) /\ stack[m].op = "sort"
    BY <1>1 DEF Like
  <2>2. /\ m = Len(stack)
        /\ \A l \in DOMAIN stack : l # m => stack[l].arr # stack[m].arr
        /\ Sorted(stack[m], buf[stack[m].arr])
    BY <2>1 DEF IInv, Sorts
  <2>3. buf'[stack[m].arr] = buf[stack[m].arr] /\ t[k].arr = stack[m].arr
    BY <2>1 DEF Like
  <2>4. k = Len(t)
    <3>1. k \in Int /\ k - n = Len(stack)
      BY <2>2, <1>2, <1>0
    <3> QED BY <3>1, <1>1, <1>0
  <2>5. Sorted(t[k], buf'[t[k].arr])
    <3> HIDE DEF m
    <3> QED BY <2>1, <2>2, <2>3, LikeSorted
  <2>6. ASSUME NEW l \in DOMAIN t, l # k PROVE t[l].arr # t[k].arr
    <3>1. CASE l \in DOMAIN F /\ t[l] = F[l]
      BY <3>1, <2>1, <2>3
    <3>2. CASE l > n /\ l - n \in DOMAIN stack /\ Like(stack[l - n], t[l])
      <4>1. l - n # m
        BY <2>6, <3>2, <2>1, <1>0, <1>2
      <4> QED BY <4>1, <3>2, <2>2, <2>3 DEF Like
    <3> QED BY <3>1, <3>2, <1>1
  <2> QED BY <2>4, <2>5, <2>6
<1> QED BY <1>3, <1>4, <1>5 DEF IInv

(* Nothing that is relevant here changes, but for a handle or a fault.     *)
LEMMA NothingWalks ==
  ASSUME IInv, fault = "none", buf' = buf, stack' = stack,
         held' \subseteq Object, reentered' \in BOOLEAN, reentered => reentered'
  PROVE  IInv'
BY DEF IInv, Types, Buffers, Sorts

(* Undefined behaviour is the end of it. *)
LEMMA FaultEnds ==
  ASSUME IInv, fault' # "none", buf' \in [Array -> Seq(Elem)  \cup {NoBuffer}],
         \A x \in Array : buf[x] # NoBuffer => buf'[x] # NoBuffer,
         stack' = stack, held' \subseteq Object, reentered' \in BOOLEAN
  PROVE  IInv'
<1>1. stack \in Seq(Frames) /\ \A k \in DOMAIN stack : stack[k] \in Frames
  BY DEF IInv, Types
<1>2. Buffers'
  BY <1>1, FrameTypes DEF IInv, Buffers
<1>3. Types' /\ Sorts'
  BY DEF IInv, Types, Sorts
<1> QED BY <1>2, <1>3 DEF IInv

(* The innermost walk ends; what it deletes is walked by no other. *)
LEMMA WalkEnds ==
  ASSUME IInv, fault = "none", stack # <<>>, Top.op # "sort",
         stack' = Tail(stack),
         buf' \in [Array -> Seq(Elem) \cup {NoBuffer}],
         \A x \in Array : x # Top.arr => buf'[x] = buf[x],
         buf'[Top.arr] = NoBuffer => Top.how = "delete",
         held' \subseteq Object, reentered' = reentered
  PROVE  IInv'
<1> DEFINE t == Tail(stack)
<1>1. /\ 1 \in DOMAIN stack /\ Top = stack[1] /\ Top \in Frames
      /\ t \in Seq(Frames) /\ Len(t) = Len(stack) - 1
      /\ \A k \in DOMAIN t : k + 1 \in DOMAIN stack /\ t[k] = stack[k + 1]
  BY TopFrame DEF IInv
<1>2. /\ stack' = t /\ stack \in Seq(Frames) /\ Len(stack) \in Nat
      /\ DOMAIN t = 1..Len(t) /\ DOMAIN stack = 1..Len(stack)
  BY <1>1 DEF IInv, Types
<1> HIDE DEF t
<1>3. Types'
  BY <1>1, <1>2 DEF IInv, Types
<1>4. ASSUME NEW k \in DOMAIN t PROVE k + 1 # 1 /\ stack[k + 1] \in Frames
  BY <1>1, <1>2
<1>5. Buffers'
  <2> SUFFICES ASSUME NEW k \in DOMAIN t
               PROVE  /\ buf'[t[k].arr] # NoBuffer /\ buf'[t[k].other] # NoBuffer
                      /\ t[k].how = "delete" => \A l \in DOMAIN t : l # k =>
                           t[k].arr \notin {t[l].arr, t[l].other}
    BY <1>2 DEF Buffers
  <2> DEFINE f == stack[k + 1]
  <2>1. f \in Frames /\ k + 1 \in DOMAIN stack /\ t[k] = f /\ f.arr \in Array /\ f.other \in Array
    BY <1>1, <1>4, FrameTypes
  <2>2. buf[f.arr] # NoBuffer /\ buf[f.other] # NoBuffer
    BY <2>1 DEF IInv, Buffers
  <2>3. Top.how = "delete" => Top.arr \notin {f.arr, f.other}
    BY <1>1, <1>4, <2>1 DEF IInv, Buffers
  <2>4. buf'[f.arr] # NoBuffer /\ buf'[f.other] # NoBuffer
    <3> HIDE DEF f
    <3> QED BY <2>1, <2>2, <2>3
  <2>5. ASSUME t[k].how = "delete", NEW l \in DOMAIN t, l # k
        PROVE  t[k].arr \notin {t[l].arr, t[l].other}
    <3>1. l + 1 # k + 1 /\ l + 1 \in DOMAIN stack /\ t[l] = stack[l + 1]
      BY <2>5, <1>1, <1>2
    <3> QED BY <3>1, <2>1, <2>5 DEF IInv, Buffers
  <2> QED BY <2>1, <2>4, <2>5
<1>6. Sorts'
  <2> SUFFICES ASSUME ~reentered, NEW k \in DOMAIN t, t[k].op = "sort"
               PROVE  /\ k = Len(t)
                      /\ \A l \in DOMAIN t : l # k => t[l].arr # t[k].arr
                      /\ Sorted(t[k], buf'[t[k].arr])
    BY <1>2 DEF Sorts
  <2>1. /\ k + 1 \in DOMAIN stack /\ t[k] = stack[k + 1] /\ stack[k + 1].op = "sort"
        /\ t[k].arr \in Array
    BY <1>1, <1>4, FrameTypes
  <2>2. /\ k + 1 = Len(stack)
        /\ \A l \in DOMAIN stack : l # k + 1 => stack[l].arr # stack[k + 1].arr
        /\ Sorted(stack[k + 1], buf[stack[k + 1].arr])
    BY <2>1 DEF IInv, Sorts
  <2>3. k = Len(t)
    BY <2>2, <1>1, <1>2
  <2>4. Top.arr # t[k].arr
    BY <2>1, <2>2, <1>1, <1>4
  <2>5. ASSUME NEW l \in DOMAIN t, l # k PROVE t[l].arr # t[k].arr
    <3>1. l + 1 # k + 1 /\ l + 1 \in DOMAIN stack /\ t[l] = stack[l + 1]
      BY <2>5, <1>1, <1>2
    <3> QED BY <3>1, <2>1, <2>2
  <2> QED BY <2>1, <2>2, <2>3, <2>4, <2>5
<1> QED BY <1>3, <1>5, <1>6 DEF IInv

(* A walk that goes on, and may store an element.                          *)
LEMMA WalkGoesOn ==
  ASSUME IInv, fault = "none", stack # <<>>, Top.op # "sort",
         NEW g \in Frames, Like(Top, g), stack' = <<g>> \o Tail(stack),
         buf' \in [Array -> Seq(Elem) \cup {NoBuffer}],
         \A x \in Array : x # Top.arr => buf'[x] = buf[x],
         buf'[Top.arr] # NoBuffer,
         held' \subseteq Object, reentered' = reentered
  PROVE  IInv'
<1> DEFINE S == <<g>> \o Tail(stack)
           F == <<>>
<1>1. /\ 1 \in DOMAIN stack /\ Top = stack[1] /\ Top \in Frames
      /\ Tail(stack) \in Seq(Frames) /\ Len(Tail(stack)) = Len(stack) - 1
      /\ \A k \in DOMAIN Tail(stack) : k + 1 \in DOMAIN stack /\ Tail(stack)[k] = stack[k + 1]
  BY TopFrame DEF IInv
<1>2. stack \in Seq(Frames) /\ Len(stack) \in Nat /\ DOMAIN stack = 1..Len(stack)
  BY DEF IInv, Types
<1>3. S \in Seq(Frames) /\ Len(S) = Len(stack) /\ DOMAIN S = 1..Len(stack) /\ S[1] = g
  BY <1>1, <1>2
<1>4. ASSUME NEW k \in DOMAIN stack, k # 1 PROVE S[k] = stack[k]
  <2>1. k - 1 \in DOMAIN Tail(stack) /\ S[k] = Tail(stack)[k - 1] /\ k - 1 + 1 = k
    BY <1>4, <1>1, <1>2
  <2> QED BY <2>1, <1>1
<1>5. \A k \in DOMAIN stack : Like(stack[k], S[k])
  <2>1. ASSUME NEW k \in DOMAIN stack, k # 1 PROVE Like(stack[k], S[k])
    BY <2>1, <1>4 DEF Like
  <2> QED BY <2>1, <1>1, <1>3
<1>6. \A x \in Array : Walked(x) => buf'[x] # NoBuffer
  BY DEF Walked, IInv, Buffers
<1>7. reentered' \in BOOLEAN
  BY DEF IInv, Types
<1>8. ~reentered' => \A k \in DOMAIN stack : stack[k].op = "sort" =>
        buf'[stack[k].arr] = buf[stack[k].arr]
  <2> SUFFICES ASSUME ~reentered', NEW k \in DOMAIN stack, stack[k].op = "sort"
               PROVE  buf'[stack[k].arr] = buf[stack[k].arr]
    OBVIOUS
  <2>1. k # 1 /\ stack[k] \in Frames /\ stack[k].arr \in Array
    BY <1>1, <1>2, FrameTypes
  <2>2. stack[1].arr # stack[k].arr
    BY <2>1, <1>1 DEF IInv, Sorts
  <2> QED BY <2>1, <2>2, <1>1
<1>9. F \in Seq(Frames) /\ DOMAIN F = {} /\ F \o S = S /\ stack' = S
  BY <1>3
<1> HIDE DEF S, F
<1> QED BY <1>3, <1>5, <1>6, <1>7, <1>8, <1>9, WalksKeep

(* What holds of the locals of a walk that begins.                         *)
LEMMA MadeFrame ==
  ASSUME NEW op \in {"sort", "find", "equal", "copy", "destruct"},
         NEW a \in Array, NEW b \in Array, NEW from \in Nat, NEW to \in Nat
  PROVE  /\ Frame(op, a, b, from, to) \in Records
         /\ Frame(op, a, b, from, to).j = from
         /\ op \in {"find", "equal", "copy"} => Frame(op, a, b, from, to) \in Frames
         /\ op \in {"find", "copy"} => \A x \in Elem :
              [Frame(op, a, b, from, to) EXCEPT !.tmp = x] \in Frames
         /\ op = "copy" => [Frame(op, a, b, from, to) EXCEPT !.how = "waiting"] \in Frames
         /\ op = "destruct" /\ from <= to => \A how \in {"close", "delete"} :
              [Frame(op, a, b, from, to) EXCEPT !.how = how] \in Frames
<1> DEFINE g == Frame(op, a, b, from, to)
<1>1. [x \in Elem |-> 0] \in [Elem -> Nat] /\ Null \in Elem
  BY DEF Elem
<1>2. g \in Records
  BY <1>1 DEF Frame, Records
<1>3. /\ g.op = op /\ g.from = from /\ g.to = to /\ g.j = from
  BY DEF Frame
<1> HIDE DEF g
<1>4. op \in {"find", "equal", "copy"} => g \in Frames
  BY <1>2, <1>3 DEF Frames
<1>5. ASSUME op \in {"find", "copy"}, NEW x \in Elem PROVE [g EXCEPT !.tmp = x] \in Frames
  <2>1. [g EXCEPT !.tmp = x] \in Records
    BY <1>2 DEF Records
  <2> QED BY <2>1, <1>2, <1>3, <1>5 DEF Frames, Records
<1>6. ASSUME op = "copy" PROVE [g EXCEPT !.how = "waiting"] \in Frames
  <2>1. [g EXCEPT !.how = "waiting"] \in Records
    BY <1>2 DEF Records
  <2> QED BY <2>1, <1>2, <1>3, <1>6 DEF Frames, Records
<1>7. ASSUME op = "destruct", from <= to, NEW how \in {"close", "delete"}
      PROVE  [g EXCEPT !.how = how] \in Frames
  <2>1. [g EXCEPT !.how = how] \in Records
    BY <1>2, <1>7 DEF Records
  <2> QED BY <2>1, <1>2, <1>3, <1>7 DEF Frames, Records
<1> QED BY <1>2, <1>3, <1>4, <1>5, <1>6, <1>7 DEF g

(* The walk that destroys the elements from..to of a buffer that shrinks    *)
(* or is deleted.                                                          *)
Destructs(a, from, to, how) == [Frame("destruct", a, a, from, to) EXCEPT !.how = how]

LEMMA DestructFrame ==
  ASSUME NEW a \in Array, NEW from \in Nat, NEW to \in Nat, from <= to,
         NEW how \in {"close", "delete"}
  PROVE  LET g == Destructs(a, from, to, how) IN
         g \in Frames /\ g.op = "destruct" /\ g.how = how /\ g.arr = a /\ g.other = a
<1> DEFINE f == Frame("destruct", a, a, from, to)
<1>1. f \in Records /\ f.op = "destruct" /\ f.arr = a /\ f.other = a
  BY MadeFrame DEF Frame
<1>2. \A h \in {"close", "delete"} : [f EXCEPT !.how = h] \in Frames
  BY MadeFrame
<1> HIDE DEF f
<1>3. [f EXCEPT !.how = how] \in Frames
  BY <1>2
<1>4. /\ [f EXCEPT !.how = how].op = "destruct" /\ [f EXCEPT !.how = how].how = how
      /\ [f EXCEPT !.how = how].arr = a /\ [f EXCEPT !.how = how].other = a
  BY <1>1 DEF Records
<1> QED BY <1>3, <1>4 DEF f, Destructs

(* A walk whose array gets a new buffer is the same walk.                  *)
LEMMA MovedLike ==
  ASSUME Types, NEW a \in Array
  PROVE  /\ Moved(a) \in Seq(Frames) /\ Len(Moved(a)) = Len(stack)
         /\ \A k \in DOMAIN stack : Like(stack[k], Moved(a)[k])
         /\ stack \in Seq(Frames) /\ \A k \in DOMAIN stack : Like(stack[k], stack[k])
<1> DEFINE m(k) == stack[k].moved \/ a \in {stack[k].arr, stack[k].other}
           g(k) == [stack[k] EXCEPT !.moved = m(k)]
<1>1. stack \in Seq(Frames) /\ Len(stack) \in Nat /\ DOMAIN stack = 1..Len(stack)
  BY DEF Types
<1>2. ASSUME NEW k \in DOMAIN stack
      PROVE  g(k) \in Frames /\ Like(stack[k], g(k))
  <2>1. stack[k] \in Frames
    BY <1>1
  <2>2. stack[k] \in Records /\ m(k) \in BOOLEAN
    BY <2>1, FrameTypes
  <2> HIDE DEF m
  <2>3. g(k) \in Records
    BY <2>2 DEF Records
  <2>4. /\ g(k).op = stack[k].op /\ g(k).arr = stack[k].arr /\ g(k).other = stack[k].other
        /\ g(k).from = stack[k].from /\ g(k).to = stack[k].to /\ g(k).i = stack[k].i
        /\ g(k).j = stack[k].j /\ g(k).tmp = stack[k].tmp /\ g(k).how = stack[k].how
        /\ g(k).honest = stack[k].honest /\ g(k).bag = stack[k].bag
    BY <2>2 DEF Records
  <2>5. g(k) \in Frames
    BY <2>1, <2>3, <2>4 DEF Frames
  <2> QED BY <2>4, <2>5 DEF Like
<1>3. Moved(a) = [k \in DOMAIN stack |-> g(k)]
  BY DEF Moved
<1> HIDE DEF g
<1>4. Moved(a) \in Seq(Frames) /\ Len(Moved(a)) = Len(stack)
  <2>1. [k \in 1..Len(stack) |-> g(k)] \in Seq(Frames)
    BY <1>1, <1>2
  <2> QED BY <2>1, <1>1, <1>3
<1>5. \A k \in DOMAIN stack : Like(stack[k], Moved(a)[k])
  BY <1>2, <1>3
<1>6. \A k \in DOMAIN stack : Like(stack[k], stack[k])
  BY DEF Like
<1> QED BY <1>1, <1>4, <1>5, <1>6

-----------------------------------------------------------------------------
(* Elements.                                                               *)

LEMMA ConstructedTypes ==
  ASSUME NEW n \in Nat, NEW new \in Constructed(n)
  PROVE  new \in Seq(Elem) /\ Len(new) = n /\ (kind # "object" => new = [k \in 1..n |-> Null])
<1>1. Null \in Elem /\ Object \subseteq Elem
  BY DEF Elem
<1>2. CASE kind # "object"
  <2>1. new = [k \in 1..n |-> Null]
    BY <1>2 DEF Constructed
  <2> QED BY <2>1, <1>1, <1>2
<1>3. CASE kind = "object"
  <2>1. new \in [1..n -> {o \in Object : refs[o] = 0} \cup {Null}]
    BY <1>3 DEF Constructed
  <2>2. new \in [1..n -> Elem]
    BY <2>1, <1>1
  <2> QED BY <2>2, <1>3
<1> QED BY <1>2, <1>3

LEMMA Appended ==
  ASSUME NEW p \in Seq(Elem), NEW q \in Seq(Elem)
  PROVE  LET t == p \o q IN
         /\ t \in Seq(Elem) /\ Len(t) = Len(p) + Len(q) /\ DOMAIN t = 1..(Len(p) + Len(q))
         /\ \A k \in 1..(Len(p) + Len(q)) : /\ k <= Len(p) => t[k] = p[k]
                                            /\ k > Len(p) => t[k] = q[k - Len(p)]
OBVIOUS

LEMMA SplicedTypes ==
  ASSUME NEW s \in Seq(Elem), NEW at \in 0..Len(s), NEW new \in Seq(Elem)
  PROVE  LET t == Spliced(s, at, new)  n == Len(new) IN
         /\ t \in Seq(Elem) /\ Len(t) = Len(s) + n
         /\ \A k \in 1..Len(t) :
              /\ k <= at => t[k] = s[k]
              /\ k > at /\ k <= at + n => t[k] = new[k - at]
              /\ k > at + n => t[k] = s[k - n]
<1> DEFINE p == SubSeq(s, 1, at)
           q == SubSeq(s, at + 1, Len(s))
<1>1. /\ p \in Seq(Elem) /\ Len(p) = at /\ \A k \in 1..at : p[k] = s[k]
      /\ q \in Seq(Elem) /\ Len(q) = Len(s) - at
      /\ \A k \in 1..(Len(s) - at) : q[k] = s[at + k]
  OBVIOUS
<1>2. Spliced(s, at, new) = p \o new \o q
  BY DEF Spliced
<1> HIDE DEF p, q
<1> DEFINE r == p \o new
<1>3. /\ r \in Seq(Elem) /\ Len(r) = at + Len(new)
      /\ \A k \in 1..Len(r) : /\ k <= at => r[k] = s[k]
                              /\ k > at => r[k] = new[k - at]
  <2> HIDE DEF r
  <2>1. /\ r \in Seq(Elem) /\ Len(r) = Len(p) + Len(new)
        /\ \A k \in 1..(Len(p) + Len(new)) : /\ k <= Len(p) => r[k] = p[k]
                                             /\ k > Len(p) => r[k] = new[k - Len(p)]
    BY <1>1, Appended DEF r
  <2>2. Len(p) = at /\ Len(r) = at + Len(new)
    BY <2>1, <1>1
  <2>3. ASSUME NEW k \in 1..Len(r)
        PROVE  (k <= at => r[k] = s[k]) /\ (k > at => r[k] = new[k - at])
    <3>0. k \in 1..(Len(p) + Len(new)) /\ Len(p) = at
      BY <2>1, <2>2
    <3>1. (k <= at => r[k] = p[k]) /\ (k > at => r[k] = new[k - at])
      <4>1. (k <= Len(p) => r[k] = p[k]) /\ (k > Len(p) => r[k] = new[k - Len(p)])
        BY <3>0, <2>1
      <4> QED BY <4>1, <3>0
    <3>2. k <= at => p[k] = s[k]
      BY <1>1
    <3> QED BY <3>1, <3>2
  <2> QED BY <2>1, <2>2, <2>3
<1>4. p \o new \o q = r \o q
  OBVIOUS
<1> HIDE DEF r
<1> DEFINE t == r \o q
<1>5. /\ t \in Seq(Elem) /\ Len(t) = Len(s) + Len(new)
      /\ \A k \in 1..Len(t) :
           /\ k <= at + Len(new) => t[k] = r[k]
           /\ k > at + Len(new) => t[k] = q[k - (at + Len(new))]
  <2> HIDE DEF t
  <2>1. /\ t \in Seq(Elem) /\ Len(t) = Len(r) + Len(q)
        /\ \A k \in 1..(Len(r) + Len(q)) : /\ k <= Len(r) => t[k] = r[k]
                                           /\ k > Len(r) => t[k] = q[k - Len(r)]
    BY <1>1, <1>3, Appended DEF t
  <2>2. /\ Len(r) + Len(q) = Len(s) + Len(new) /\ Len(r) = at + Len(new)
        /\ Len(t) = Len(s) + Len(new)
    BY <2>1, <1>1, <1>3
  <2>3. ASSUME NEW k \in 1..Len(t)
        PROVE  /\ k <= at + Len(new) => t[k] = r[k]
               /\ k > at + Len(new) => t[k] = q[k - (at + Len(new))]
    <3>0. k \in 1..(Len(r) + Len(q)) /\ Len(r) = at + Len(new)
      BY <2>1, <2>2
    <3>1. (k <= Len(r) => t[k] = r[k]) /\ (k > Len(r) => t[k] = q[k - Len(r)])
      BY <3>0, <2>1
    <3> QED BY <3>1, <3>0
  <2> QED BY <2>1, <2>2, <2>3
<1>6. Spliced(s, at, new) = t
  BY <1>2, <1>4
<1> HIDE DEF t
<1>7. ASSUME NEW k \in 1..Len(t)
      PROVE  /\ k <= at => t[k] = s[k]
             /\ k > at /\ k <= at + Len(new) => t[k] = new[k - at]
             /\ k > at + Len(new) => t[k] = s[k - Len(new)]
  <2>1. CASE k <= at + Len(new)
    <3>1. t[k] = r[k] /\ k \in 1..Len(r)
      BY <2>1, <1>5, <1>3
    <3> QED BY <3>1, <2>1, <1>3
  <2>2. CASE k > at + Len(new)
    <3>1. t[k] = q[k - (at + Len(new))] /\ k - (at + Len(new)) \in 1..(Len(s) - at)
      BY <2>2, <1>5
    <3>2. q[k - (at + Len(new))] = s[at + (k - (at + Len(new)))]
      BY <3>1, <1>1
    <3>3. at + (k - (at + Len(new))) = k - Len(new)
      OBVIOUS
    <3> QED BY <3>1, <3>2, <3>3, <2>2
  <2> QED BY <2>1, <2>2
<1> QED BY <1>5, <1>6, <1>7

LEMMA WithoutTypes ==
  ASSUME NEW s \in Seq(Elem), NEW at \in Nat, NEW n \in Nat, at + n <= Len(s)
  PROVE  Without(s, at, n) \in Seq(Elem)
BY DEF Without

LEMMA ValuesTypes ==
  ASSUME Types
  PROVE  Values \subseteq Elem
BY DEF Types, Values, Elem

LEMMA StoredTypes ==
  ASSUME NEW old \in Elem, NEW new \in Elem
  PROVE  Stored(old, new) \in Elem
BY DEF Stored

(* What InsertAt leaves of an array with a gap.                            *)
LEMMA FilledTypes ==
  ASSUME NEW s \in Seq(Elem), NEW at \in 0..Len(s), NEW src \in Seq(Elem), NEW new \in Seq(Elem),
         Len(new) = Len(src), NEW self \in BOOLEAN, self => src = s
  PROVE  LET t == Spliced(s, at, new)
             u == Filled(t, at, Len(src), src, self)
         IN /\ u \in Seq(Elem) /\ Len(u) = Len(s) + Len(src)
            /\ kind # "object" => u = Spliced(s, at, src)
<1> DEFINE n == Len(src)
           t == Spliced(s, at, new)
           v == Spliced(s, at, src)
           u == Filled(t, at, n, src, self)
           L == Len(s) + n
<1>1. /\ t \in Seq(Elem) /\ Len(t) = L
      /\ \A k \in 1..L :
           /\ k <= at => t[k] = s[k]
           /\ k > at /\ k <= at + n => t[k] = new[k - at]
           /\ k > at + n => t[k] = s[k - n]
  <2> HIDE DEF t
  <2>1. /\ t \in Seq(Elem) /\ Len(t) = Len(s) + Len(new)
        /\ \A k \in 1..Len(t) :
             /\ k <= at => t[k] = s[k]
             /\ k > at /\ k <= at + Len(new) => t[k] = new[k - at]
             /\ k > at + Len(new) => t[k] = s[k - Len(new)]
    BY SplicedTypes DEF t
  <2> QED BY <2>1
<1>2. /\ v \in Seq(Elem) /\ Len(v) = L
      /\ \A k \in 1..L :
           /\ k <= at => v[k] = s[k]
           /\ k > at /\ k <= at + n => v[k] = src[k - at]
           /\ k > at + n => v[k] = s[k - n]
  <2> HIDE DEF v
  <2>1. /\ v \in Seq(Elem) /\ Len(v) = Len(s) + Len(src)
        /\ \A k \in 1..Len(v) :
             /\ k <= at => v[k] = s[k]
             /\ k > at /\ k <= at + Len(src) => v[k] = src[k - at]
             /\ k > at + Len(src) => v[k] = s[k - Len(src)]
    BY SplicedTypes DEF v
  <2> QED BY <2>1
<1>3. n \in Nat /\ L \in Nat /\ at \in Nat /\ Len(s) \in Nat /\ at <= Len(s)
  OBVIOUS
<1>4. u = [k \in 1..L |->
             IF k <= at \/ k > at + n THEN t[k]
             ELSE IF ~self THEN Stored(t[k], src[k - at])
             ELSE IF k <= 2 * at THEN Stored(t[k], t[k - at])
             ELSE Stored(t[k], t[at + n + (k - 2 * at)])]
  BY <1>1 DEF Filled
<1> HIDE DEF t, u, v, L, n
<1>5. ASSUME NEW k \in 1..L
      PROVE  u[k] = IF k <= at \/ k > at + n THEN t[k] ELSE Stored(t[k], src[k - at])
  <2>1. CASE k <= at \/ k > at + n \/ ~self
    BY <2>1, <1>4
  <2>2. CASE k > at /\ k <= at + n /\ self /\ k <= 2 * at
    <3>1. t[k - at] = s[k - at]
      BY <2>2, <1>1, <1>3
    <3>2. u[k] = Stored(t[k], t[k - at])
      BY <2>2, <1>4, <1>3
    <3>3. s = src /\ (k <= at \/ k > at + n) = FALSE
      BY <2>2, <1>3
    <3> QED BY <3>1, <3>2, <3>3
  <2>3. CASE k > at /\ k <= at + n /\ self /\ k > 2 * at
    <3> DEFINE x == at + n + (k - 2 * at)
    <3>1. x \in 1..L /\ x > at + n /\ x - n = k - at
      BY <2>3, <1>3 DEF L, n
    <3>2. u[k] = Stored(t[k], t[x])
      BY <2>3, <1>4, <1>3
    <3> HIDE DEF x
    <3>3. t[x] = s[k - at]
      BY <3>1, <1>1
    <3>4. s = src /\ (k <= at \/ k > at + n) = FALSE
      BY <2>3, <1>3
    <3> QED BY <3>2, <3>3, <3>4
  <2> QED BY <2>1, <2>2, <2>3, <1>3
<1>6. ASSUME NEW k \in 1..L PROVE u[k] \in Elem
  <2>1. t[k] \in Elem
    BY <1>1
  <2>2. CASE k > at /\ k <= at + n
    <3>1. src[k - at] \in Elem
      BY <2>2, <1>3 DEF n
    <3> QED BY <3>1, <2>1, <1>5, StoredTypes
  <2> QED BY <2>1, <2>2, <1>5, <1>3
<1>7. u \in Seq(Elem) /\ Len(u) = L
  <2>1. u \in [1..L -> Elem]
    BY <1>4, <1>6
  <2> QED BY <2>1, <1>3
<1>8. ASSUME kind # "object" PROVE u = v
  <2>1. ASSUME NEW k \in 1..L PROVE u[k] = v[k]
    <3>1. \A x, y : Stored(x, y) = y
      BY <1>8 DEF Stored
    <3>2. u[k] = IF k <= at \/ k > at + n THEN t[k] ELSE src[k - at]
      BY <3>1, <1>5
    <3>3. CASE k <= at
      BY <3>2, <3>3, <1>1, <1>2
    <3>4. CASE k > at /\ k <= at + n
      BY <3>2, <3>4, <1>2, <1>3
    <3>5. CASE k > at + n
      BY <3>2, <3>5, <1>1, <1>2
    <3> QED BY <3>3, <3>4, <3>5, <1>3
  <2>2. /\ u \in Seq(Elem) /\ v \in Seq(Elem) /\ Len(u) = Len(v)
        /\ \A k \in 1..Len(u) : u[k] = v[k]
    BY <2>1, <1>2, <1>7
  <2> QED BY <2>2, SeqEqual
<1> QED BY <1>7, <1>8 DEF L, n, u, t, v

-----------------------------------------------------------------------------
(* Calls of scripts.                                                       *)

(* A script uses an array, and says so when the array is walked.           *)
CalledOf(a) ==
  /\ IInv /\ fault = "none" /\ a \in Array /\ Exists(a)
  /\ held' \subseteq Object /\ reentered' \in BOOLEAN
  /\ reentered \/ Walked(a) => reentered'

(* The walks that a call starts.                                           *)
Starts(F, a) ==
  /\ F \in Seq(Frames)
  /\ \A k \in DOMAIN F : /\ F[k].op # "sort" /\ F[k].how # "delete"
                         /\ F[k].arr = a /\ Exists(F[k].other)

LEMMA StartsNothing == \A a : Starts(<<>>, a)
BY DEF Starts

LEMMA CallStarts ==
  ASSUME NEW a \in Array, CalledOf(a), NEW F, Starts(F, a),
         NEW S \in Seq(Frames), NEW e \in Seq(Elem),
         Len(S) = Len(stack), \A k \in DOMAIN stack : Like(stack[k], S[k]),
         stack' = F \o S, buf' = [buf EXCEPT ![a] = e]
  PROVE  IInv'
<1>1. buf \in [Array -> Seq(Elem) \cup {NoBuffer}] /\ NoBuffer \notin Seq(Elem)
  BY BufferTypes DEF CalledOf, IInv, Types
<1>2. buf' \in [Array -> Seq(Elem) \cup {NoBuffer}]
  BY <1>1
<1>3. \A x \in Array : buf[x] # NoBuffer => buf'[x] # NoBuffer
  BY <1>1
<1>4. \A x \in Array : Walked(x) => buf'[x] # NoBuffer
  BY <1>3 DEF Walked, CalledOf, IInv, Buffers
<1>5. F \in Seq(Frames) /\ \A k \in DOMAIN F : F[k].other \in Array
  BY FrameTypes DEF Starts
<1>6. \A k \in DOMAIN F :
        /\ buf'[F[k].arr] # NoBuffer /\ buf'[F[k].other] # NoBuffer
        /\ F[k].op # "sort"
        /\ F[k].how = "delete" => Len(F) = 1 /\ ~Walked(F[k].arr)
  BY <1>3, <1>5 DEF Starts, Exists, CalledOf
<1>7. \A k \in DOMAIN F, l \in DOMAIN stack :
        stack[l].how = "delete" => stack[l].arr \notin {F[k].arr, F[k].other}
  BY DEF Exists, Starts, CalledOf
<1>8. ~reentered' => \A k \in DOMAIN stack : stack[k].op = "sort" =>
        /\ buf'[stack[k].arr] = buf[stack[k].arr]
        /\ \A l \in DOMAIN F : F[l].arr # stack[k].arr
  <2> SUFFICES ASSUME ~reentered', NEW k \in DOMAIN stack
               PROVE  /\ buf'[stack[k].arr] = buf[stack[k].arr]
                      /\ \A l \in DOMAIN F : F[l].arr # stack[k].arr
    OBVIOUS
  <2>1. stack[k].arr # a
    BY DEF Walked, CalledOf
  <2>2. stack[k] \in Frames /\ stack[k].arr \in Array
    BY FrameTypes DEF CalledOf, IInv, Types
  <2> QED BY <2>1, <2>2, <1>1 DEF Starts
<1>9. /\ IInv /\ fault = "none" /\ held' \subseteq Object /\ reentered' \in BOOLEAN
      /\ reentered => reentered'
  BY DEF CalledOf
<1> QED BY <1>2, <1>4, <1>5, <1>6, <1>7, <1>8, <1>9, WalksKeep

(* Undefined behaviour in a call. *)
LEMMA CallFails ==
  ASSUME NEW a \in Array, CalledOf(a), NEW what, what # "none", Fails(what)
  PROVE  IInv'
<1>1. /\ fault' # "none" /\ buf' = buf /\ stack' = stack
      /\ IInv /\ held' \subseteq Object /\ reentered' \in BOOLEAN
  BY DEF Fails, CalledOf, arrays
<1>2. buf' \in [Array -> Seq(Elem) \cup {NoBuffer}]
  BY <1>1 DEF IInv, Types
<1> QED BY <1>1, <1>2, FaultEnds

LEMMA CallRefuses ==
  ASSUME NEW a \in Array, CalledOf(a), NEW F, Starts(F, a),
         stack' = F \o stack, buf' = buf
  PROVE  IInv'
<1>1. Types
  BY DEF CalledOf, IInv
<1>2. buf[a] \in Seq(Elem)
  BY <1>1, BufferTypes DEF CalledOf, Exists
<1>3. buf' = [buf EXCEPT ![a] = buf[a]]
  BY <1>1 DEF Types
<1>4. stack \in Seq(Frames) /\ \A k \in DOMAIN stack : Like(stack[k], stack[k])
  BY <1>1, MovedLike
<1> QED BY <1>2, <1>3, <1>4, CallStarts

LEMMA CallReplaces ==
  ASSUME NEW a \in Array, CalledOf(a), NEW F, Starts(F, a), NEW e \in Seq(Elem),
         NEW added, NEW released, Replaced(a, e, added, released, F)
  PROVE  IInv'
<1>1. Types
  BY DEF CalledOf, IInv
<1>2. CASE Fails("dead")
  BY <1>2, CallFails
<1>3. CASE /\ buf' = [buf EXCEPT ![a] = e]
           /\ stack' = F \o (IF cap[a] < Len(e) THEN Moved(a) ELSE stack)
  <2> DEFINE S == IF cap[a] < Len(e) THEN Moved(a) ELSE stack
  <2>1. S \in Seq(Frames) /\ Len(S) = Len(stack)
        /\ \A k \in DOMAIN stack : Like(stack[k], S[k])
    BY <1>1, MovedLike
  <2> HIDE DEF S
  <2>2. stack' = F \o S
    BY <1>3 DEF S
  <2> QED BY <1>3, <2>1, <2>2, CallStarts
<1> QED BY <1>2, <1>3 DEF Replaced

LEMMA CallShrinks ==
  ASSUME NEW a \in Array, CalledOf(a), NEW F, Starts(F, a), NEW at \in Nat, NEW n \in Nat,
         Shrinks(a, at, n, F)
  PROVE  IInv'
<1> DEFINE g == Destructs(a, at, at + n, "close")
           G == <<g>> \o F
<1> HIDE DEF g
<1>1. g \in Frames /\ g.op = "destruct" /\ g.how = "close" /\ g.arr = a /\ g.other = a
  <2>1. at + n \in Nat /\ at <= at + n
    OBVIOUS
  <2> QED BY <2>1, DestructFrame DEF g
<1>3. F \in Seq(Frames) /\ <<g>> \in Seq(Frames)
  BY <1>1 DEF Starts
<1>4. /\ G \in Seq(Frames)
      /\ \A k \in DOMAIN G : G[k] = g \/ \E l \in DOMAIN F : G[k] = F[l]
  BY <1>3, Joined
<1> HIDE DEF G
<1>5. Exists(a)
  BY DEF CalledOf
<1>6. Starts(G, a)
  BY <1>1, <1>4, <1>5 DEF Starts
<1>7. stack \in Seq(Frames)
  BY DEF CalledOf, IInv, Types
<1>8. stack' = G \o stack /\ buf' = buf
  <2>1. stack' = <<g>> \o F \o stack /\ buf' = buf
    BY DEF Shrinks, arrays, g, Destructs
  <2>2. <<g>> \o F \o stack = G \o stack
    BY DEF G
  <2> QED BY <2>1, <2>2
<1> QED BY <1>6, <1>8, CallRefuses

LEMMA CallResizes ==
  ASSUME NEW a \in Array, CalledOf(a), NEW F, Starts(F, a),
         NEW delta \in Int, NEW at \in Nat, ResizeBy(a, delta, at, F)
  PROVE  IInv'
<1> DEFINE n    == Len(buf[a])
           down == IF -delta > n THEN n ELSE -delta
           from == IF at > n - down THEN n - down ELSE at
<1>1. buf[a] \in Seq(Elem) /\ n \in Nat
  BY BufferTypes DEF CalledOf, Exists, IInv
<1>2. CASE Fails("wrapped")
  BY <1>2, CallFails
<1>3. CASE delta < 0 /\ down > 0 /\ Shrinks(a, from, down, F)
  <2>1. down \in Nat /\ n - down \in Nat
    BY <1>1, <1>3
  <2>2. from \in Nat
    <3> HIDE DEF down
    <3> QED BY <1>1, <2>1
  <2> HIDE DEF down, from
  <2> QED BY <2>1, <2>2, <1>3, CallShrinks
<1>4. CASE delta > 0 /\ \E new \in Constructed(delta) :
             Replaced(a, Spliced(buf[a], IF at > n THEN n ELSE at, new),
                      IF kind = "object" THEN new ELSE <<>>, <<>>, F)
  <2>1. PICK new \in Constructed(delta) :
             Replaced(a, Spliced(buf[a], IF at > n THEN n ELSE at, new),
                      IF kind = "object" THEN new ELSE <<>>, <<>>, F)
    BY <1>4
  <2>2. new \in Seq(Elem)
    BY <1>4, ConstructedTypes
  <2>3. (IF at > n THEN n ELSE at) \in 0..Len(buf[a])
    BY <1>1
  <2>4. Spliced(buf[a], IF at > n THEN n ELSE at, new) \in Seq(Elem)
    BY <2>2, <2>3, <1>1, SplicedTypes
  <2> QED BY <2>1, <2>4, CallReplaces
<1>5. CASE Refuses(F)
  <2>1. stack' = F \o stack /\ buf' = buf
    BY <1>5 DEF Refuses, arrays
  <2> QED BY <2>1, CallRefuses
<1>6. \/ Fails("wrapped")
      \/ delta < 0 /\ down > 0 /\ Shrinks(a, from, down, F)
      \/ delta > 0 /\ \E new \in Constructed(delta) :
           Replaced(a, Spliced(buf[a], IF at > n THEN n ELSE at, new),
                    IF kind = "object" THEN new ELSE <<>>, <<>>, F)
      \/ Refuses(F)
  BY DEF ResizeBy
<1> HIDE DEF n, down, from
<1> QED BY <1>2, <1>3, <1>4, <1>5, <1>6

(* Words are numbers. *)
LEMMA WordTypes ==
  /\ Word \in Nat /\ Word > 0 /\ Word - 1 \in Nat /\ -(Word \div 2) \in Int
  /\ Uints \subseteq Nat
  /\ \A x \in Int : Uint(x) \in Nat /\ Signed(x) \in Int
<1>1. Word \in Nat /\ Word > 0
  BY WordAssumption
<1>2. Uints \subseteq Nat
  BY <1>1 DEF Uints
<1>3. ASSUME NEW x \in Int PROVE Uint(x) \in Nat /\ Signed(x) \in Int
  BY <1>1 DEF Uint, Signed
<1> QED BY <1>1, <1>2, <1>3

LEMMA ReleaseKeeps ==
  ASSUME NEW a \in Array, IInv, fault = "none", Exists(a), Release(a)
  PROVE  IInv'
<1> DEFINE n == Len(buf[a])
           g == Destructs(a, 0, n, "delete")
           F == <<g>>
<1>1. Types /\ buf[a] \in Seq(Elem)
  BY BufferTypes DEF IInv, Exists
<1>2. g \in Frames /\ g.op = "destruct" /\ g.how = "delete" /\ g.arr = a /\ g.other = a
  <2>1. n \in Nat /\ 0 <= n
    BY <1>1
  <2> HIDE DEF n
  <2> QED BY <2>1, DestructFrame
<1>3. /\ ~Walked(a) /\ stack' = F \o stack /\ buf' = buf
      /\ held' \subseteq Object /\ reentered' \in BOOLEAN /\ (reentered => reentered')
  BY <1>1 DEF Release, arrays, Outside, Types, Destructs
<1> HIDE DEF g, n
<1>4. F \in Seq(Frames) /\ Len(F) = 1 /\ \A k \in DOMAIN F : F[k] = g
  BY <1>2
<1> HIDE DEF F
<1>5. /\ stack \in Seq(Frames) /\ \A k \in DOMAIN stack : Like(stack[k], stack[k])
      /\ buf' \in [Array -> Seq(Elem) \cup {NoBuffer}]
  BY <1>1, <1>3, MovedLike DEF Types
<1>6. \A x \in Array : Walked(x) => buf'[x] # NoBuffer
  BY <1>3 DEF Walked, IInv, Buffers
<1>7. \A k \in DOMAIN F :
        /\ buf'[F[k].arr] # NoBuffer /\ buf'[F[k].other] # NoBuffer
        /\ F[k].op # "sort"
        /\ F[k].how = "delete" => Len(F) = 1 /\ ~Walked(F[k].arr)
  BY <1>2, <1>3, <1>4 DEF Exists
<1>8. \A k \in DOMAIN F, l \in DOMAIN stack :
        stack[l].how = "delete" => stack[l].arr \notin {F[k].arr, F[k].other}
  BY <1>2, <1>3, <1>4 DEF Walked
<1>9. ~reentered' => \A k \in DOMAIN stack : stack[k].op = "sort" =>
        /\ buf'[stack[k].arr] = buf[stack[k].arr]
        /\ \A l \in DOMAIN F : F[l].arr # stack[k].arr
  BY <1>2, <1>3, <1>4 DEF Walked
<1> QED BY <1>3, <1>4, <1>5, <1>6, <1>7, <1>8, <1>9, WalksKeep

(* A new array is not being walked.                                        *)
LEMMA CreateKeeps ==
  ASSUME NEW a \in Array, NEW e \in Seq(Elem), IInv, fault = "none", ~Walked(a),
         buf' = [buf EXCEPT ![a] = e], stack' = stack, held' = held, reentered' = reentered
  PROVE  IInv'
<1> DEFINE F == <<>>
<1>1. Types /\ NoBuffer \notin Seq(Elem)
  BY BufferTypes DEF IInv
<1>2. F \in Seq(Frames) /\ DOMAIN F = {} /\ stack' = F \o stack
  BY <1>1 DEF Types
<1> HIDE DEF F
<1>3. /\ stack \in Seq(Frames) /\ \A k \in DOMAIN stack : Like(stack[k], stack[k])
      /\ \A k \in DOMAIN stack : stack[k].arr \in Array /\ stack[k].other \in Array
  <2>1. stack \in Seq(Frames) /\ \A k \in DOMAIN stack : stack[k] \in Frames
    BY <1>1 DEF Types
  <2> QED BY <2>1, <1>1, MovedLike, FrameTypes
<1>4. buf' \in [Array -> Seq(Elem) \cup {NoBuffer}]
  BY <1>1 DEF Types
<1>5. \A x \in Array : Walked(x) => buf'[x] = buf[x] /\ buf[x] # NoBuffer
  BY <1>1 DEF Walked, IInv, Buffers, Types
<1>6. \A k \in DOMAIN stack : stack[k].op = "sort" => buf'[stack[k].arr] = buf[stack[k].arr]
  BY <1>3, <1>5 DEF Walked
<1>7. held' \subseteq Object /\ reentered' \in BOOLEAN
  BY <1>1 DEF Types
<1> QED BY <1>2, <1>3, <1>4, <1>5, <1>6, <1>7, WalksKeep

LEMMA CreatesKeep ==
  ASSUME NEW a \in Array, NEW n \in Nat, IInv, fault = "none",
         Create(a, n) \/ \E v \in Values : CreateFilled(a, n, v)
  PROVE  IInv'
<1>1. CASE Create(a, n)
  <2>1. PICK new \in Constructed(n) : buf' = [buf EXCEPT ![a] = new]
    BY <1>1 DEF Create
  <2>2. new \in Seq(Elem)
    BY <2>1, ConstructedTypes
  <2>3. ~Walked(a) /\ stack' = stack /\ held' = held /\ reentered' = reentered
    BY <1>1 DEF Create, Outside
  <2> QED BY <2>1, <2>2, <2>3, CreateKeeps
<1>2. ASSUME NEW v \in Values, CreateFilled(a, n, v) PROVE IInv'
  <2>1. v \in Elem
    BY ValuesTypes DEF IInv
  <2>2. [k \in 1..n |-> v] \in Seq(Elem)
    BY <2>1
  <2>3. /\ ~Walked(a) /\ stack' = stack /\ held' = held /\ reentered' = reentered
        /\ buf' = [buf EXCEPT ![a] = [k \in 1..n |-> v]]
    BY <1>2 DEF CreateFilled, Outside
  <2> QED BY <2>2, <2>3, CreateKeeps
<1> QED BY <1>1, <1>2

(* What a call that changes an array, or uses another one, says.           *)
LEMMA UsesCalled ==
  ASSUME NEW a \in Array, IInv, fault = "none", Exists(a), Outside,
         NEW b, Uses(a, b)
  PROVE  CalledOf(a)
<1>1. reentered \in BOOLEAN /\ held' \subseteq Object /\ Walked(a) \in BOOLEAN
      /\ Dying(b) \in BOOLEAN
  BY DEF IInv, Types, Outside, Walked, Dying
<1> QED BY <1>1 DEF CalledOf, Uses

LEMMA ReserveKeeps ==
  ASSUME NEW a \in Array, IInv, fault = "none", Exists(a), NEW n \in Uints, Reserve(a, n)
  PROVE  IInv'
<1>1. CalledOf(a)
  BY UsesCalled DEF Reserve, Changes
<1>2. /\ Types /\ buf[a] \in Seq(Elem) /\ buf' = buf /\ stack' = Moved(a)
  BY BufferTypes DEF IInv, Exists, Reserve
<1>3. buf' = [buf EXCEPT ![a] = buf[a]]
  BY <1>2 DEF Types
<1>4. /\ Moved(a) \in Seq(Frames) /\ Len(Moved(a)) = Len(stack)
      /\ \A k \in DOMAIN stack : Like(stack[k], Moved(a)[k])
  BY <1>2, MovedLike
<1>5. stack' = <<>> \o Moved(a)
  BY <1>2, <1>4
<1> QED BY <1>1, <1>2, <1>3, <1>4, <1>5, StartsNothing, CallStarts

LEMMA ResizeKeeps ==
  ASSUME NEW a \in Array, IInv, fault = "none", Exists(a), NEW n \in Uints, Resize(a, n)
  PROVE  IInv'
<1>1. CASE reentered' = reentered /\ Refuses(<<>>)
  <2>1. buf' = buf /\ stack' = <<>> \o stack /\ held' = held /\ reentered' = reentered
    BY <1>1 DEF Refuses, arrays, Resize, Outside
  <2>2. stack' = stack /\ held' \subseteq Object /\ reentered' \in BOOLEAN
    BY <2>1 DEF IInv, Types
  <2> QED BY <2>1, <2>2, NothingWalks
<1>2. CASE Changes(a) /\ ResizeBy(a, Difference(a, n), Word - 1, <<>>)
  <2>1. CalledOf(a)
    BY <1>2, UsesCalled DEF Resize, Changes
  <2>2. buf[a] \in Seq(Elem)
    BY BufferTypes DEF IInv, Exists
  <2>3. n - Len(buf[a]) \in Int
    BY <2>2, WordTypes
  <2>4. Difference(a, n) \in Int /\ Word - 1 \in Nat
    <3> DEFINE x == n - Len(buf[a])
               u == Uint(x)
    <3>1. Difference(a, n) = Signed(u)
      BY DEF Difference
    <3>2. x \in Int
      BY <2>3 DEF x
    <3> HIDE DEF x
    <3>3. u \in Int
      BY <3>2, WordTypes
    <3> HIDE DEF u
    <3> QED BY <3>1, <3>3, WordTypes
  <2> QED BY <1>2, <2>1, <2>4, StartsNothing, CallResizes
<1> QED BY <1>1, <1>2 DEF Resize

LEMMA RemoveRangeKeeps ==
  ASSUME NEW a \in Array, IInv, fault = "none", Exists(a), NEW start \in Uints, NEW n \in Uints,
         RemoveRange(a, start, n)
  PROVE  IInv'
<1> DEFINE len == Len(buf[a])
           m == Capped(start, n, len)
<1>1. CalledOf(a)
  BY UsesCalled DEF RemoveRange, Changes
<1>2. buf[a] \in Seq(Elem) /\ len \in Nat /\ start \in Nat /\ n \in Nat /\ start <= len
  <2>1. buf[a] \in Seq(Elem)
    BY BufferTypes DEF IInv, Exists
  <2>2. start \in Nat /\ n \in Nat
    BY WordTypes
  <2> QED BY <2>1, <2>2 DEF RemoveRange
<1>3. CASE Fails("wrapped")
  BY <1>1, <1>3, CallFails
<1>4. CASE Shrinks(a, start, m, <<>>)
  <2>1. m \in Nat
    <3> HIDE DEF len
    <3> QED BY <1>2 DEF Capped
  <2> HIDE DEF m
  <2> QED BY <1>1, <1>2, <1>4, <2>1, StartsNothing, CallShrinks
<1> QED BY <1>3, <1>4 DEF RemoveRange

LEMMA RemoveAtKeeps ==
  ASSUME NEW a \in Array, IInv, fault = "none", Exists(a), NEW n \in Uints, RemoveAt(a, n)
  PROVE  IInv'
<1>1. CalledOf(a) /\ ResizeBy(a, -1, n, <<>>)
  BY UsesCalled DEF RemoveAt, Changes
<1>2. n \in Nat /\ -1 \in Int
  BY WordTypes
<1> QED BY <1>1, <1>2, StartsNothing, CallResizes

LEMMA InsertAtKeeps ==
  ASSUME NEW a \in Array, IInv, fault = "none", Exists(a), NEW index \in Uints, NEW v \in Values,
         InsertAt(a, index, v)
  PROVE  IInv'
<1> DEFINE s == buf[a]
<1>1. CalledOf(a)
  BY UsesCalled DEF InsertAt, Changes
<1>2. s \in Seq(Elem) /\ v \in Elem /\ index \in 0..Len(s)
  <2>1. s \in Seq(Elem) /\ v \in Elem
    BY BufferTypes, ValuesTypes DEF IInv, Exists
  <2>2. index \in Nat
    BY WordTypes
  <2> QED BY <2>1, <2>2 DEF InsertAt
<1>3. ASSUME NEW new \in Constructed(1), NEW x, x = Stored(new[1], v),
             Replaced(a, Spliced(s, index, <<x>>), <<x>>, <<>>, <<>>)
      PROVE  IInv'
  <2>1. new \in Seq(Elem) /\ Len(new) = 1
    BY ConstructedTypes
  <2>2. new[1] \in Elem
    BY <2>1
  <2>3. x \in Elem
    BY <1>2, <1>3, <2>2, StoredTypes
  <2>4. <<x>> \in Seq(Elem)
    BY <2>3
  <2>5. Spliced(s, index, <<x>>) \in Seq(Elem)
    BY <1>2, <2>4, SplicedTypes
  <2> QED BY <1>1, <1>3, <2>5, StartsNothing, CallReplaces
<1>4. CASE Refuses(<<>>)
  <2>1. stack' = <<>> \o stack /\ buf' = buf
    BY <1>4 DEF Refuses, arrays
  <2> QED BY <2>1, <1>1, StartsNothing, CallRefuses
<1>5. ASSUME index # Len(s), NEW x, x = Stored(s[index + 1], v),
             Replaced(a, [s EXCEPT ![index + 1] = x], <<x>>, <<s[index + 1]>>, <<>>)
      PROVE  IInv'
  <2>1. index + 1 \in 1..Len(s) /\ s[index + 1] \in Elem
    BY <1>2, <1>5
  <2>2. x \in Elem
    BY <2>1, <1>2, <1>5, StoredTypes
  <2>3. [s EXCEPT ![index + 1] = x] \in Seq(Elem)
    BY <1>2, <2>1, <2>2
  <2> QED BY <1>1, <1>5, <2>3, StartsNothing, CallReplaces
<1> QED BY <1>3, <1>4, <1>5 DEF InsertAt

LEMMA InsertArrayKeeps ==
  ASSUME NEW a \in Array, NEW b \in Array, IInv, fault = "none", Exists(a), NEW index \in Uints,
         InsertArray(a, index, b)
  PROVE  IInv'
<1> DEFINE s == buf[a]
           n == Len(buf[b])
           m == IF a = b THEN index ELSE n
           e == [k \in DOMAIN s |->
                   IF index < k /\ k <= index + m
                   THEN Stored(s[k], buf[b][k - index]) ELSE s[k]]
<1>1. CalledOf(a)
  BY UsesCalled DEF InsertArray
<1>2. s \in Seq(Elem) /\ buf[b] \in Seq(Elem) /\ n \in Nat /\ index \in 0..Len(s)
  <2>1. s \in Seq(Elem) /\ buf[b] \in Seq(Elem)
    BY BufferTypes DEF IInv, Exists, InsertArray
  <2>2. index \in Nat
    BY WordTypes
  <2> QED BY <2>1, <2>2 DEF InsertArray
<1>3. ASSUME NEW new \in Constructed(n), NEW t,
             t = Filled(Spliced(s, index, new), index, n, buf[b], a = b),
             Replaced(a, t, t, s, <<>>)
      PROVE  IInv'
  <2>1. new \in Seq(Elem) /\ Len(new) = n
    BY <1>2, ConstructedTypes
  <2>2. (a = b) \in BOOLEAN /\ (a = b => buf[b] = s)
    OBVIOUS
  <2>3. t \in Seq(Elem)
    BY <1>2, <1>3, <2>1, <2>2, FilledTypes
  <2> QED BY <1>1, <1>3, <2>3, StartsNothing, CallReplaces
<1>4. CASE Replaced(a, e, e, s, <<>>)
  <2>1. m \in Nat /\ (index < Len(s) => m <= n \/ a = b)
    BY <1>2
  <2>2. ASSUME NEW k \in 1..Len(s), index < k, k <= index + m
        PROVE  buf[b][k - index] \in Elem
    <3>1. k - index \in 1..n
      <4>1. CASE a = b
        BY <1>2, <2>2, <4>1
      <4>2. CASE a # b
        BY <1>2, <2>2, <4>2
      <4> QED BY <4>1, <4>2
    <3> QED BY <3>1, <1>2
  <2>3. ASSUME NEW k \in 1..Len(s) PROVE e[k] \in Elem
    <3>1. s[k] \in Elem
      BY <1>2
    <3>2. CASE index < k /\ k <= index + m
      <4>1. e[k] = Stored(s[k], buf[b][k - index])
        BY <3>2, <1>2
      <4> QED BY <4>1, <3>1, <3>2, <2>2, StoredTypes
    <3>3. CASE ~(index < k /\ k <= index + m)
      <4>1. e[k] = s[k]
        BY <3>3, <1>2
      <4> QED BY <4>1, <3>1
    <3> QED BY <3>2, <3>3
  <2>4. e \in [1..Len(s) -> Elem]
    <3>1. DOMAIN e = 1..Len(s) /\ e = [k \in 1..Len(s) |-> e[k]]
      BY <1>2
    <3> HIDE DEF e
    <3> QED BY <3>1, <2>3
  <2>5. e \in Seq(Elem)
    <3> HIDE DEF e
    <3> QED BY <1>2, <2>4
  <2> HIDE DEF e
  <2> QED BY <1>1, <1>4, <2>5, StartsNothing, CallReplaces
<1>5. \/ \E new \in Constructed(n) :
           LET t == Filled(Spliced(s, index, new), index, n, buf[b], a = b) IN
           Replaced(a, t, t, s, <<>>)
      \/ Replaced(a, e, e, s, <<>>)
  BY DEF InsertArray
<1> HIDE DEF e, n
<1> QED BY <1>3, <1>4, <1>5

LEMMA AssignKeeps ==
  ASSUME NEW a \in Array, NEW b \in Array, IInv, fault = "none", Exists(a), Assign(a, b)
  PROVE  IInv'
<1> DEFINE g == [Frame("copy", a, b, 0, 0) EXCEPT !.how = "waiting"]
           d == Difference(a, Len(buf[b]))
<1>1. CalledOf(a) /\ Exists(b) /\ ResizeBy(a, d, Word - 1, <<g>>)
  BY UsesCalled DEF Assign
<1>2. d \in Int /\ Word - 1 \in Nat
  <2>1. buf[a] \in Seq(Elem) /\ buf[b] \in Seq(Elem)
    BY <1>1, BufferTypes DEF IInv, Exists
  <2> DEFINE x == Len(buf[b]) - Len(buf[a])
             u == Uint(x)
  <2>2. d = Signed(u)
    BY DEF Difference
  <2>3. x \in Int
    BY <2>1
  <2> HIDE DEF x, d
  <2>4. u \in Int
    BY <2>3, WordTypes
  <2> HIDE DEF u
  <2> QED BY <2>2, <2>4, WordTypes
<1>3. g \in Frames /\ g.op = "copy" /\ g.how = "waiting" /\ g.arr = a /\ g.other = b
  <2> DEFINE f == Frame("copy", a, b, 0, 0)
  <2>1. f \in Records /\ f.op = "copy" /\ f.arr = a /\ f.other = b
    BY MadeFrame DEF Frame
  <2>2. [f EXCEPT !.how = "waiting"] \in Frames
    BY MadeFrame
  <2> HIDE DEF f
  <2>3. /\ [f EXCEPT !.how = "waiting"].op = "copy" /\ [f EXCEPT !.how = "waiting"].how = "waiting"
        /\ [f EXCEPT !.how = "waiting"].arr = a /\ [f EXCEPT !.how = "waiting"].other = b
    BY <2>1 DEF Records
  <2> QED BY <2>2, <2>3 DEF f
<1> HIDE DEF g, d
<1>4. Starts(<<g>>, a)
  BY <1>1, <1>3 DEF Starts
<1> QED BY <1>1, <1>2, <1>4, CallResizes

LEMMA ReverseKeeps ==
  ASSUME NEW a \in Array, IInv, fault = "none", Exists(a), Reverse(a)
  PROVE  IInv'
<1> DEFINE n == Len(buf[a])
           e == [k \in 1..n |-> buf[a][n - k + 1]]
<1>1. CalledOf(a)
  BY UsesCalled DEF Reverse, Changes
<1>2. Types /\ buf[a] \in Seq(Elem) /\ n \in Nat
  BY BufferTypes DEF IInv, Exists
<1>3. \A k \in 1..n : n - k + 1 \in 1..n
  <2> HIDE DEF n
  <2> QED BY <1>2
<1>4. e \in Seq(Elem)
  <2>1. \A k \in 1..n : buf[a][n - k + 1] \in Elem
    BY <1>2, <1>3
  <2> HIDE DEF n
  <2> QED BY <2>1, <1>2
<1>5. buf' = [buf EXCEPT ![a] = e] /\ stack' = <<>> \o stack
  BY <1>2 DEF Reverse, Types
<1> HIDE DEF e
<1>6. stack \in Seq(Frames) /\ \A k \in DOMAIN stack : Like(stack[k], stack[k])
  BY <1>2, MovedLike
<1> QED BY <1>1, <1>4, <1>5, <1>6, StartsNothing, CallStarts

(* A scan begins where no walk is in progress. *)
LEMMA ScanStarts ==
  ASSUME NEW a \in Array, IInv, fault = "none", Exists(a), stack = <<>>,
         NEW g \in Frames, g.op \in {"find", "equal"}, g.how = "none", g.arr = a, Exists(g.other),
         held' = held, reentered' \in BOOLEAN, reentered => reentered',
         buf' = buf, stack' = <<g>> \o stack
  PROVE  IInv'
<1>1. CalledOf(a)
  BY DEF CalledOf, Walked, IInv, Types
<1>2. Starts(<<g>>, a)
  BY DEF Starts
<1> QED BY <1>1, <1>2, CallRefuses

LEMMA EqualKeeps ==
  ASSUME NEW a \in Array, NEW b \in Array, IInv, fault = "none", Exists(a), Equal(a, b)
  PROVE  IInv'
<1> DEFINE g == Frame("equal", a, b, 0, 0)
<1>1. g \in Frames /\ g.op = "equal" /\ g.how = "none" /\ g.arr = a /\ g.other = b
  <2>1. g \in Frames
    BY MadeFrame
  <2> QED BY <2>1 DEF Frame
<1>2. /\ Exists(b) /\ stack = <<>> /\ held' = held /\ buf' = buf /\ stack' = <<g>> \o stack
      /\ reentered' = (reentered \/ Dying(a) \/ Dying(b))
  BY DEF Equal, Outermost, Outside, arrays
<1>3. reentered' \in BOOLEAN /\ (reentered => reentered')
  BY <1>2 DEF IInv, Types, Dying
<1> HIDE DEF g
<1> QED BY <1>1, <1>2, <1>3, ScanStarts

LEMMA FindKeeps ==
  ASSUME NEW a \in Array, IInv, fault = "none", Exists(a), NEW startAt \in Uints, NEW v \in Values,
         Find(a, startAt, v)
  PROVE  IInv'
<1> DEFINE f == Frame("find", a, a, startAt, Len(buf[a]))
           g == [f EXCEPT !.tmp = v]
<1>1. startAt \in Nat /\ Len(buf[a]) \in Nat /\ v \in Elem
  <2>1. buf[a] \in Seq(Elem)
    BY BufferTypes DEF IInv, Exists
  <2>2. v \in Elem
    BY ValuesTypes DEF IInv
  <2>3. startAt \in Nat
    BY WordTypes
  <2> QED BY <2>1, <2>2, <2>3
<1>2. g \in Frames /\ g.op = "find" /\ g.how = "none" /\ g.arr = a /\ g.other = a
  <2>1. f \in Records /\ f.op = "find" /\ f.arr = a /\ f.other = a /\ f.how = "none"
    BY <1>1, MadeFrame DEF Frame
  <2>2. \A x \in Elem : [f EXCEPT !.tmp = x] \in Frames
    BY <1>1, MadeFrame
  <2> HIDE DEF f
  <2>3. g \in Frames
    BY <1>1, <2>2
  <2> QED BY <2>1, <2>3 DEF Records
<1>3. /\ stack = <<>> /\ held' = held /\ buf' = buf /\ stack' = <<g>> \o stack
      /\ reentered' = (reentered \/ Dying(a))
  BY DEF Find, Outermost, Outside, arrays, Looks
<1>4. reentered' \in BOOLEAN /\ (reentered => reentered')
  BY <1>3 DEF IInv, Types, Dying
<1> HIDE DEF g
<1> QED BY <1>2, <1>3, <1>4, ScanStarts

(* What scripts do with handles.                                           *)
LEMMA HandlesKeep ==
  ASSUME IInv, fault = "none",
         \/ \E a \in Array, n \in Uints : Exists(a) /\ At(a, n)
         \/ \E o \in Object : NewObject(o) \/ DropHandle(o)
  PROVE  IInv'
<1>0. Types
  BY DEF IInv
<1>1. ASSUME NEW a \in Array, NEW n \in Uints, Exists(a), At(a, n) PROVE IInv'
  <2>1. buf' = buf /\ stack' = stack
    BY <1>1 DEF At, Fails, arrays
  <2>2. buf[a] \in Seq(Elem) /\ n \in Nat
    BY <1>1, WordTypes, BufferTypes DEF IInv, Exists
  <2>3. buf[a][n + 1] \in Elem
    BY <1>1, <2>2 DEF At
  <2>4. held' \subseteq Object
    BY <1>0, <1>1, <2>3 DEF At, Types, Elem
  <2>5. reentered' \in BOOLEAN /\ (reentered => reentered')
    BY <1>0, <1>1 DEF At, Looks, Types, Dying
  <2> QED BY <2>1, <2>4, <2>5, NothingWalks
<1>2. ASSUME NEW o \in Object, NewObject(o) \/ DropHandle(o) PROVE IInv'
  <2>1. buf' = buf /\ stack' = stack /\ reentered' = reentered
    BY <1>2 DEF NewObject, DropHandle, Fails, arrays
  <2>2. held' \subseteq Object /\ reentered' \in BOOLEAN
    BY <1>0, <1>2, <2>1 DEF NewObject, DropHandle, Types
  <2> QED BY <2>1, <2>2, NothingWalks
<1> QED BY <1>1, <1>2

-----------------------------------------------------------------------------
(* Steps of walks other than sorts.                                        *)

(* The locals of a walk after a step of it.                                *)
LEMMA SteppedFrame ==
  ASSUME NEW f \in Frames, f.op # "sort", NEW p \in {"run", "script"}
  PROVE  /\ [f EXCEPT !.phase = p] \in Frames /\ Like(f, [f EXCEPT !.phase = p])
         /\ [f EXCEPT !.j = @ + 1] \in Frames /\ Like(f, [f EXCEPT !.j = @ + 1])
         /\ [f EXCEPT !.j = @ + 1, !.phase = p] \in Frames
         /\ Like(f, [f EXCEPT !.j = @ + 1, !.phase = p])
<1>1. f \in Records /\ f.j \in Nat /\ f.j + 1 \in Int /\ f.from \in Nat /\ f.from <= f.j + 1
  BY FrameTypes
<1>2. [f EXCEPT !.phase = p] \in Frames /\ Like(f, [f EXCEPT !.phase = p])
  <2> DEFINE g == [f EXCEPT !.phase = p]
  <2>1. g \in Records
    BY <1>1 DEF Records
  <2>2. /\ g.op = f.op /\ g.arr = f.arr /\ g.other = f.other /\ g.from = f.from
        /\ g.to = f.to /\ g.j = f.j /\ g.how = f.how
    BY <1>1 DEF Records
  <2> HIDE DEF g
  <2>3. g \in Frames
    BY <2>1, <2>2 DEF Frames
  <2> QED BY <2>2, <2>3 DEF Like, g
<1>3. [f EXCEPT !.j = @ + 1] \in Frames /\ Like(f, [f EXCEPT !.j = @ + 1])
  <2> DEFINE g == [f EXCEPT !.j = @ + 1]
  <2>1. g \in Records
    BY <1>1 DEF Records
  <2>2. /\ g.op = f.op /\ g.arr = f.arr /\ g.other = f.other /\ g.from = f.from
        /\ g.to = f.to /\ g.j = f.j + 1 /\ g.how = f.how
    BY <1>1 DEF Records
  <2> HIDE DEF g
  <2>3. g \in Frames
    BY <1>1, <2>1, <2>2 DEF Frames
  <2> QED BY <2>2, <2>3 DEF Like, g
<1>4. /\ [f EXCEPT !.j = @ + 1, !.phase = p] \in Frames
      /\ Like(f, [f EXCEPT !.j = @ + 1, !.phase = p])
  <2> DEFINE g == [f EXCEPT !.j = @ + 1, !.phase = p]
  <2>1. g \in Records
    BY <1>1 DEF Records
  <2>2. /\ g.op = f.op /\ g.arr = f.arr /\ g.other = f.other /\ g.from = f.from
        /\ g.to = f.to /\ g.j = f.j + 1 /\ g.how = f.how
    BY <1>1 DEF Records
  <2> HIDE DEF g
  <2>3. g \in Frames
    BY <1>1, <2>1, <2>2 DEF Frames
  <2> QED BY <2>2, <2>3 DEF Like, g
<1> QED BY <1>2, <1>3, <1>4

(* A step of a walk that stores nothing.                                   *)
WalkSteps ==
  /\ IInv /\ fault = "none" /\ stack # <<>> /\ Top.op # "sort"
  /\ held' = held /\ reentered' = reentered

LEMMA QuietStep ==
  ASSUME WalkSteps, buf' = buf, NEW g \in Frames, Like(Top, g), Goes(g)
  PROVE  IInv'
<1>1. /\ IInv /\ fault = "none" /\ stack # <<>> /\ Top.op # "sort" /\ Types
      /\ held' \subseteq Object /\ reentered' = reentered
  BY DEF WalkSteps, IInv, Types
<1>2. 1 \in DOMAIN stack /\ Top = stack[1]
  BY <1>1, TopFrame
<1>3. buf'[Top.arr] # NoBuffer /\ buf' \in [Array -> Seq(Elem) \cup {NoBuffer}]
  BY <1>1, <1>2 DEF IInv, Buffers, Types
<1> QED BY <1>1, <1>3, WalkGoesOn DEF Goes

LEMMA QuietEnd ==
  ASSUME WalkSteps, buf' = buf, Ends
  PROVE  IInv'
<1>1. /\ IInv /\ fault = "none" /\ stack # <<>> /\ Top.op # "sort" /\ Types
      /\ held' \subseteq Object /\ reentered' = reentered
  BY DEF WalkSteps, IInv, Types
<1>2. 1 \in DOMAIN stack /\ Top = stack[1]
  BY <1>1, TopFrame
<1>3. buf'[Top.arr] # NoBuffer /\ buf' \in [Array -> Seq(Elem) \cup {NoBuffer}]
  BY <1>1, <1>2 DEF IInv, Buffers, Types
<1> QED BY <1>1, <1>3, WalkEnds DEF Ends

LEMMA WalkFails ==
  ASSUME WalkSteps, fault' # "none", buf' = buf, stack' = stack
  PROVE  IInv'
<1>1. /\ IInv /\ held' \subseteq Object /\ reentered' \in BOOLEAN
      /\ buf' \in [Array -> Seq(Elem) \cup {NoBuffer}]
  BY DEF WalkSteps, IInv, Types
<1> QED BY <1>1, FaultEnds

LEMMA DestructKeeps ==
  ASSUME IInv, fault = "none", stack # <<>>,
         DestructStep \/ DestructEnds \/ DestructorReturns
  PROVE  IInv'
<1> DEFINE f == Top
           s == buf[f.arr]
<1>0. f \in Frames /\ f.arr \in Array /\ s \in Seq(Elem) /\ f.op # "sort" /\ WalkSteps
  <2>1. Types /\ f.op # "sort" /\ WalkSteps
    BY DEF IInv, WalkSteps, DestructStep, DestructEnds, DestructorReturns, Inside
  <2>2. f \in Frames /\ 1 \in DOMAIN stack /\ f = stack[1]
    BY <2>1, TopFrame
  <2>3. f.arr \in Array /\ s # NoBuffer
    BY <2>2, FrameTypes DEF IInv, Buffers
  <2> QED BY <2>1, <2>2, <2>3, BufferTypes
<1> HIDE DEF s
<1>1. ASSUME NEW what, what # "none", Fails(what) PROVE IInv'
  <2>1. fault' # "none" /\ buf' = buf /\ stack' = stack
    BY <1>1 DEF Fails, arrays
  <2> QED BY <1>0, <2>1, WalkFails
<1>2. CASE DestructStep
  <2>1. CASE Goes([f EXCEPT !.j = @ + 1]) /\ UNCHANGED arrays
    <3>1. buf' = buf
      BY <2>1 DEF arrays
    <3> HIDE DEF f
    <3>2. [f EXCEPT !.j = @ + 1] \in Frames /\ Like(f, [f EXCEPT !.j = @ + 1])
      BY <1>0, SteppedFrame
    <3> QED BY <2>1, <3>1, <3>2, <1>0, QuietStep DEF f
  <2>2. ASSUME NEW p \in {"run", "script"}, Goes([f EXCEPT !.j = @ + 1, !.phase = p]),
               UNCHANGED arrays
        PROVE  IInv'
    <3>1. buf' = buf
      BY <2>2 DEF arrays
    <3> HIDE DEF f
    <3>2. /\ [f EXCEPT !.j = @ + 1, !.phase = p] \in Frames
          /\ Like(f, [f EXCEPT !.j = @ + 1, !.phase = p])
      BY <1>0, SteppedFrame
    <3> QED BY <2>2, <3>1, <3>2, <1>0, QuietStep DEF f
  <2>3. \/ Fails("freed") \/ Fails("stale") \/ Fails("dead")
        \/ Goes([f EXCEPT !.j = @ + 1]) /\ UNCHANGED arrays
        \/ \E p \in {"run", "script"} :
             Goes([f EXCEPT !.j = @ + 1, !.phase = p]) /\ UNCHANGED arrays
    BY <1>2 DEF DestructStep
  <2> QED BY <2>1, <2>2, <2>3, <1>1
<1>3. CASE DestructEnds
  <2> DEFINE e == IF f.how = "close" THEN Without(s, f.from, f.to - f.from) ELSE NoBuffer
  <2>1. CASE Fails("overrun")
    BY <2>1, <1>1
  <2>2. CASE ~(f.how = "close" /\ Len(s) < f.to) /\ buf' = [buf EXCEPT ![f.arr] = e] /\ Ends
    <3>1. /\ f.op = "destruct" /\ f.from <= f.to /\ f.how \in {"close", "delete"}
          /\ f.from \in Nat /\ f.to \in Nat
      BY <1>3, <1>0, FrameTypes DEF DestructEnds
    <3>2. e \in Seq(Elem) \/ (e = NoBuffer /\ f.how = "delete")
      <4>1. CASE f.how = "close"
        <5>1. f.to - f.from \in Nat /\ f.from + (f.to - f.from) <= Len(s)
          BY <4>1, <3>1, <2>2, <1>0
        <5> QED BY <5>1, <4>1, <3>1, <1>0, WithoutTypes
      <4> QED BY <4>1, <3>1
    <3> HIDE DEF e, f
    <3>3. Types /\ NoBuffer \notin Seq(Elem)
      BY BufferTypes DEF IInv
    <3>4. /\ buf' \in [Array -> Seq(Elem) \cup {NoBuffer}]
          /\ \A x \in Array : x # f.arr => buf'[x] = buf[x]
          /\ buf'[f.arr] = NoBuffer => f.how = "delete"
      BY <2>2, <3>2, <3>3, <1>0 DEF Types
    <3>5. held' \subseteq Object /\ reentered' = reentered
      BY <1>0, <3>3 DEF WalkSteps, Types
    <3> QED BY <1>0, <2>2, <3>4, <3>5, WalkEnds DEF Ends, f
  <2> QED BY <1>3, <2>1, <2>2 DEF DestructEnds, s
<1>4. CASE DestructorReturns
  <2>1. Goes([f EXCEPT !.phase = "run"]) /\ buf' = buf
    BY <1>4 DEF DestructorReturns, arrays
  <2> HIDE DEF f
  <2>2. [f EXCEPT !.phase = "run"] \in Frames /\ Like(f, [f EXCEPT !.phase = "run"])
    BY <1>0, SteppedFrame
  <2> QED BY <2>1, <2>2, <1>0, QuietStep DEF f
<1> QED BY <1>2, <1>3, <1>4

LEMMA CopyKeeps ==
  ASSUME IInv, fault = "none", stack # <<>>, CopyStarts \/ CopyStep \/ CopyEnds
  PROVE  IInv'
<1> DEFINE f == Top
           d == buf[f.arr]
           s == buf[f.other]
<1>0. /\ f \in Frames /\ f.arr \in Array /\ f.other \in Array
      /\ d \in Seq(Elem) /\ s \in Seq(Elem) /\ f.op = "copy" /\ WalkSteps /\ Types
  <2>1. Types /\ f.op = "copy" /\ WalkSteps
    BY DEF IInv, WalkSteps, CopyStarts, CopyStep, CopyEnds, Inside
  <2>2. f \in Frames /\ 1 \in DOMAIN stack /\ f = stack[1]
    BY <2>1, TopFrame
  <2>3. f.arr \in Array /\ f.other \in Array /\ d # NoBuffer /\ s # NoBuffer
    BY <2>2, FrameTypes DEF IInv, Buffers
  <2> QED BY <2>1, <2>2, <2>3, BufferTypes
<1> HIDE DEF d, s
<1>1. CASE CopyStarts
  <2> DEFINE to == IF Len(d) > Len(s) THEN Len(s) ELSE Len(d)
             g == [f EXCEPT !.how = "copying", !.moved = FALSE, !.to = to]
  <2>1. Goes(g) /\ buf' = buf
    BY <1>1 DEF CopyStarts, arrays, d, s
  <2>2. to \in Nat
    BY <1>0
  <2> HIDE DEF f, to
  <2>3. f \in Records /\ f.from <= f.j
    BY <1>0, FrameTypes
  <2>4. g \in Records
    BY <2>2, <2>3 DEF Records
  <2>5. /\ g.op = "copy" /\ g.arr = f.arr /\ g.other = f.other /\ g.from = f.from
        /\ g.j = f.j /\ g.how = "copying"
    BY <2>3, <1>0 DEF Records
  <2> HIDE DEF g
  <2>6. g \in Frames /\ Like(f, g)
    BY <2>3, <2>4, <2>5, <1>0 DEF Frames, Like
  <2> QED BY <2>1, <2>6, <1>0, QuietStep DEF f
<1>2. CASE CopyStep
  <2>1. ASSUME NEW what, what # "none", Fails(what) PROVE IInv'
    <3>1. fault' # "none" /\ buf' = buf /\ stack' = stack
      BY <2>1 DEF Fails, arrays
    <3> QED BY <1>0, <3>1, WalkFails
  <2>2. ASSUME NEW p \in {"run", "script"}, f.j < Len(d), f.j < Len(s),
               buf' = [buf EXCEPT ![f.arr][f.j + 1] = Stored(d[f.j + 1], s[f.j + 1])],
               Goes([f EXCEPT !.j = @ + 1, !.phase = p])
        PROVE  IInv'
    <3> DEFINE x == Stored(d[f.j + 1], s[f.j + 1])
               e == [d EXCEPT ![f.j + 1] = x]
               g == [f EXCEPT !.j = @ + 1, !.phase = p]
    <3>1. buf' = [buf EXCEPT ![f.arr] = e]
      BY <2>2, <1>0 DEF Types, d
    <3> HIDE DEF f
    <3>2. f.j \in Nat /\ f.j + 1 \in 1..Len(d) /\ f.j + 1 \in 1..Len(s)
      <4>1. f.j \in Nat
        BY <1>0, FrameTypes
      <4> QED BY <4>1, <2>2, <1>0
    <3>3. x \in Elem
      <4>1. d[f.j + 1] \in Elem /\ s[f.j + 1] \in Elem
        BY <3>2, <1>0
      <4> QED BY <4>1, StoredTypes
    <3> HIDE DEF x
    <3>4. e \in Seq(Elem)
      BY <3>2, <3>3, <1>0
    <3>5. g \in Frames /\ Like(f, g)
      BY <1>0, SteppedFrame
    <3> HIDE DEF e, g
    <3>6. /\ buf' \in [Array -> Seq(Elem) \cup {NoBuffer}]
          /\ \A y \in Array : y # f.arr => buf'[y] = buf[y]
          /\ buf'[f.arr] # NoBuffer
      BY <3>1, <3>4, <1>0, BufferTypes DEF Types
    <3>7. /\ held' \subseteq Object /\ reentered' = reentered /\ f = Top
          /\ stack' = <<g>> \o Tail(stack)
      BY <1>0, <2>2 DEF WalkSteps, Types, Goes, f, g
    <3> QED BY <3>5, <3>6, <3>7, <1>0, WalkGoesOn
  <2>3. \/ Fails("freed") \/ Fails("stale") \/ Fails("dead")
        \/ \E p \in {"run", "script"} :
             /\ ~(f.j >= Len(d) \/ f.j >= Len(s))
             /\ buf' = [buf EXCEPT ![f.arr][f.j + 1] = Stored(d[f.j + 1], s[f.j + 1])]
             /\ Goes([f EXCEPT !.j = @ + 1, !.phase = p])
    BY <1>2 DEF CopyStep, d, s
  <2>4. ~(f.j >= Len(d) \/ f.j >= Len(s)) => f.j < Len(d) /\ f.j < Len(s)
    <3>1. f.j \in Nat
      BY <1>0, FrameTypes
    <3> QED BY <3>1, <1>0
  <2> HIDE DEF f
  <2> QED BY <2>1, <2>2, <2>3, <2>4
<1>3. CASE CopyEnds
  <2>1. Ends /\ buf' = buf
    BY <1>3 DEF CopyEnds, arrays
  <2> QED BY <2>1, <1>0, QuietEnd
<1> QED BY <1>1, <1>2, <1>3

LEMMA ScanKeeps ==
  ASSUME IInv, fault = "none", stack # <<>>,
         ScanStep \/ \E equal \in BOOLEAN : ScanReturns(equal)
  PROVE  IInv'
<1> DEFINE f == Top
<1>0. f \in Frames /\ f.op # "sort" /\ WalkSteps
  <2>1. Types /\ f.op # "sort" /\ WalkSteps
    BY DEF IInv, WalkSteps, ScanStep, ScanReturns, Inside
  <2> QED BY <2>1, TopFrame
<1>1. CASE Ends /\ buf' = buf
  BY <1>1, <1>0, QuietEnd
<1>2. CASE fault' # "none" /\ buf' = buf /\ stack' = stack
  BY <1>2, <1>0, WalkFails
<1>3. CASE Goes([f EXCEPT !.phase = "script"]) /\ buf' = buf
  <2> HIDE DEF f
  <2>1. [f EXCEPT !.phase = "script"] \in Frames /\ Like(f, [f EXCEPT !.phase = "script"])
    BY <1>0, SteppedFrame
  <2> QED BY <2>1, <1>3, <1>0, QuietStep DEF f
<1>4. CASE Goes([f EXCEPT !.j = @ + 1]) /\ buf' = buf
  <2> HIDE DEF f
  <2>1. [f EXCEPT !.j = @ + 1] \in Frames /\ Like(f, [f EXCEPT !.j = @ + 1])
    BY <1>0, SteppedFrame
  <2> QED BY <2>1, <1>4, <1>0, QuietStep DEF f
<1>5. CASE Goes([f EXCEPT !.j = @ + 1, !.phase = "run"]) /\ buf' = buf
  <2> HIDE DEF f
  <2>1. /\ [f EXCEPT !.j = @ + 1, !.phase = "run"] \in Frames
        /\ Like(f, [f EXCEPT !.j = @ + 1, !.phase = "run"])
    BY <1>0, SteppedFrame
  <2> QED BY <2>1, <1>5, <1>0, QuietStep DEF f
<1>6. ASSUME ScanStep
      PROVE  /\ buf' = buf
             /\ \/ Ends
                \/ fault' # "none" /\ stack' = stack
                \/ Goes([f EXCEPT !.phase = "script"])
                \/ Goes([f EXCEPT !.j = @ + 1])
  BY <1>6 DEF ScanStep, arrays
<1>7. ASSUME NEW equal \in BOOLEAN, ScanReturns(equal)
      PROVE  /\ buf' = buf
             /\ Ends \/ Goes([f EXCEPT !.j = @ + 1, !.phase = "run"])
  BY <1>7 DEF ScanReturns, arrays
<1> HIDE DEF f
<1> QED BY <1>1, <1>2, <1>3, <1>4, <1>5, <1>6, <1>7

-----------------------------------------------------------------------------
(* Sorting: what is in a part of an array, and in which order.             *)

LEMMA PartOf ==
  ASSUME NEW s \in Seq(Elem), NEW from \in Nat, NEW to \in 0..Len(s)
  PROVE  LET t == SubSeq(s, from + 1, to) IN
         /\ DOMAIN t = 1..(to - from)
         /\ \A k \in 1..(to - from) : t[k] = s[from + k]
<1>1. to \in Int /\ Len(s) \in Nat /\ to <= Len(s)
  OBVIOUS
<1> QED BY <1>1

LEMMA BagTypes ==
  ASSUME NEW s \in Seq(Elem), NEW from \in Nat, NEW to \in 0..Len(s)
  PROVE  Bag(s, from, to) \in [Elem -> Nat]
<1> DEFINE t == SubSeq(s, from + 1, to)
           D == 1..(to - from)
<1>1. DOMAIN t = D
  BY PartOf
<1>2. IsFiniteSet(D)
  BY FS_Interval
<1>3. ASSUME NEW x \in Elem PROVE Occurrences(t, x) \in Nat
  <2> DEFINE O == {k \in DOMAIN t : t[k] = x}
  <2>1. O \in SUBSET D
    BY <1>1
  <2>2. IsFiniteSet(O)
    BY <1>2, <2>1, FS_Subset
  <2> QED BY <2>2, FS_CardinalityType DEF Occurrences
<1> QED BY <1>3 DEF Bag

(* Two elements of the part change places.                                 *)
LEMMA SwapBag ==
  ASSUME NEW s \in Seq(Elem), NEW from \in Nat, NEW to \in 0..Len(s),
         NEW p \in (from + 1)..to, NEW q \in (from + 1)..to, NEW t \in Seq(Elem),
         Len(t) = Len(s), t[p] = s[q], t[q] = s[p],
         \A k \in (from + 1)..to : k # p /\ k # q => t[k] = s[k]
  PROVE  Bag(t, from, to) = Bag(s, from, to)
<1> DEFINE n == to - from
           S == SubSeq(s, from + 1, to)
           T == SubSeq(t, from + 1, to)
           w == [k \in 1..n |-> IF k = p - from THEN q - from
                                ELSE IF k = q - from THEN p - from ELSE k]
<1>0. to \in Int /\ p \in Int /\ q \in Int
  OBVIOUS
<1>1. /\ DOMAIN S = 1..n /\ \A k \in 1..n : S[k] = s[from + k]
      /\ DOMAIN T = 1..n /\ \A k \in 1..n : T[k] = t[from + k]
  <2>1. DOMAIN S = 1..n /\ \A k \in 1..n : S[k] = s[from + k]
    BY PartOf
  <2>2. DOMAIN T = 1..n /\ \A k \in 1..n : T[k] = t[from + k]
    BY PartOf
  <2> QED BY <2>1, <2>2
<1> HIDE DEF S, T
<1>2. ASSUME NEW k \in 1..n PROVE w[k] \in 1..n /\ w[w[k]] = k /\ T[k] = S[w[k]]
  <2>1. p - from \in 1..n /\ q - from \in 1..n /\ from + (p - from) = p /\ from + (q - from) = q
    BY <1>0
  <2>2. CASE k = p - from
    <3>1. w[k] = q - from /\ w[q - from] = k
      BY <2>1, <2>2
    <3>2. T[k] = t[p] /\ S[q - from] = s[q]
      BY <2>1, <2>2, <1>1
    <3> QED BY <3>1, <3>2, <2>1
  <2>3. CASE k # p - from /\ k = q - from
    <3>1. w[k] = p - from /\ w[p - from] = k
      BY <2>1, <2>3
    <3>2. T[k] = t[q] /\ S[p - from] = s[p]
      BY <2>1, <2>3, <1>1
    <3> QED BY <3>1, <3>2, <2>1
  <2>4. CASE k # p - from /\ k # q - from
    <3>1. w[k] = k
      BY <2>4
    <3>2. from + k \in (from + 1)..to /\ from + k # p /\ from + k # q
      BY <2>4, <1>0
    <3>3. T[k] = t[from + k] /\ S[k] = s[from + k] /\ t[from + k] = s[from + k]
      BY <3>2, <1>1
    <3> QED BY <3>1, <3>3
  <2> QED BY <2>2, <2>3, <2>4
<1>3. w \in [1..n -> 1..n]
  BY <1>2
<1> HIDE DEF w
<1>4. IsFiniteSet(1..n)
  BY <1>0, FS_Interval
<1>5. ASSUME NEW x \in Elem PROVE Occurrences(T, x) = Occurrences(S, x)
  <2> DEFINE V == {k \in 1..n : T[k] = x}
             W == {k \in 1..n : S[k] = x}
             up == [k \in V |-> w[k]]
  <2>1. IsFiniteSet(V)
    BY <1>4, FS_Subset
  <2>2. \A k \in V : w[k] \in W /\ w[w[k]] = k
    BY <1>2
  <2>3. \A k \in W : w[k] \in V /\ w[w[k]] = k
    BY <1>2
  <2> HIDE DEF V, W
  <2>4. up \in [V -> W] /\ (\A k, l \in V : up[k] = up[l] => k = l)
        /\ (\A k \in W : \E l \in V : up[l] = k)
    BY <2>2, <2>3
  <2> HIDE DEF up
  <2>5. up \in Bijection(V, W)
    <3>1. up \in Injection(V, W)
      BY <2>4 DEF Injection, IsInjective
    <3>2. up \in Surjection(V, W)
      BY <2>4 DEF Surjection
    <3> QED BY <3>1, <3>2 DEF Bijection
  <2>6. Cardinality(W) = Cardinality(V)
    <3>1. ExistsBijection(V, W)
      BY <2>5 DEF ExistsBijection
    <3> QED BY <2>1, <3>1, FS_Bijection
  <2> QED BY <2>6, <1>1 DEF Occurrences, V, W
<1> QED BY <1>5 DEF Bag, S, T

LEMMA Stores ==
  ASSUME NEW s \in Seq(Elem), NEW k \in 1..Len(s), NEW x \in Elem
  PROVE  LET t == [s EXCEPT ![k] = x] IN
         /\ t \in Seq(Elem) /\ Len(t) = Len(s) /\ t[k] = x
         /\ \A l \in 1..Len(s) : l # k => t[l] = s[l]
OBVIOUS

LEMMA RankTypes == \A x \in Elem : Rank[x] \in Nat /\ Rank[Null] <= Rank[x]
BY RankAssumption DEF Elem

(* All of a part is in order.                                              *)
InFullOrder(f, s, last) ==
  \A x, y \in (f.from + 1)..last : x < y => InOrder(f.how, s[x], s[y])

(* What the answer of a comparison that counts says.                       *)
LEMMA AnswerOrders ==
  ASSUME NEW f, NEW s, NEW answer \in {"yes", "no", "failed"},
         f.tmp \in Elem, s[f.j + 1] \in Elem,
         Native(f, s) => answer = (IF NativeAnswer(f, s) THEN "yes" ELSE "no"),
         answer # "failed",
         Native(f, s) \/ ((answer = "yes") = Before(f, f.tmp, s[f.j + 1]))
  PROVE  /\ answer = "yes" => InOrder(f.how, f.tmp, s[f.j + 1])
         /\ answer # "yes" => InOrder(f.how, s[f.j + 1], f.tmp)
<1> DEFINE x == f.tmp
           y == s[f.j + 1]
<1>1. /\ Rank[x] \in Nat /\ Rank[y] \in Nat /\ Rank[Null] \in Nat
      /\ Rank[Null] <= Rank[x] /\ Rank[Null] <= Rank[y]
  BY RankTypes DEF Elem
<1>2. CASE (answer = "yes") = Before(f, x, y)
  BY <1>1, <1>2 DEF Before, InOrder
<1>3. CASE Native(f, s) /\ kind = "primitive"
  <2>1. answer = (IF Before(f, x, y) THEN "yes" ELSE "no")
    BY <1>3 DEF NativeAnswer
  <2> QED BY <1>1, <2>1 DEF Before, InOrder
<1>4. CASE Native(f, s) /\ kind # "primitive"
  <2>1. x = Null \/ y = Null
    BY <1>4 DEF Native
  <2>2. answer = (IF (IF f.how = "desc" THEN y ELSE x) = Null THEN "yes" ELSE "no")
    BY <1>4 DEF NativeAnswer
  <2> QED BY <1>1, <2>1, <2>2 DEF InOrder
<1> QED BY <1>2, <1>3, <1>4

(* tmp goes before the element at j: that one moves up, and tmp may go to  *)
(* where it was.                                                           *)
LEMMA Shifted ==
  ASSUME NEW f \in Frames, f.op = "sort", NEW s \in Seq(Elem), Sorted(f, s),
         NEW t, t = [s EXCEPT ![f.j + 2] = s[f.j + 1]]
  PROVE  /\ t \in Seq(Elem) /\ Len(t) = Len(s)
         /\ Bag([t EXCEPT ![f.j + 1] = f.tmp], f.from, f.to) = f.bag
<1> DEFINE p == f.j + 1
           q == f.j + 2
           v == [s EXCEPT ![q] = f.tmp]
           u == [t EXCEPT ![p] = f.tmp]
<1>1. /\ f.from \in Nat /\ f.to \in Nat /\ f.i \in Nat /\ f.j \in Nat /\ f.tmp \in Elem
      /\ f.from <= f.j /\ f.j < f.i /\ f.i < f.to /\ f.to <= Len(s)
  BY FrameTypes DEF Sorted
<1>2. p \in 1..Len(s) /\ q \in 1..Len(s) /\ p # q
  BY <1>1
<1>3. t \in Seq(Elem) /\ Len(t) = Len(s)
  <2> DEFINE e == s[p]
  <2>1. e \in Elem
    BY <1>2
  <2>2. t = [s EXCEPT ![q] = e]
    OBVIOUS
  <2> HIDE DEF p, q, e
  <2>3. [s EXCEPT ![q] = e] \in Seq(Elem) /\ Len([s EXCEPT ![q] = e]) = Len(s)
    BY <2>1, <1>2, Stores
  <2> QED BY <2>2, <2>3
<1>4. /\ v \in Seq(Elem) /\ Len(v) = Len(s)
      /\ u \in Seq(Elem) /\ Len(u) = Len(s)
  <2> HIDE DEF p, q
  <2> QED BY <1>1, <1>2, <1>3
<1>5. /\ u[p] = v[q] /\ u[q] = v[p]
      /\ \A k \in 1..Len(s) : k # p /\ k # q => u[k] = v[k]
  <2> HIDE DEF p, q
  <2>1. t = [s EXCEPT ![q] = s[p]]
    BY DEF p, q
  <2> QED BY <2>1, <1>2, <1>3
<1>6. /\ p \in (f.from + 1)..f.to /\ q \in (f.from + 1)..f.to /\ f.to \in 0..Len(v)
      /\ \A k \in (f.from + 1)..f.to : k # p /\ k # q => u[k] = v[k]
  <2>0. p \in (f.from + 1)..f.to /\ q \in (f.from + 1)..f.to
    BY <1>1
  <2>1. p \in (f.from + 1)..f.to /\ q \in (f.from + 1)..f.to /\ f.to \in 0..Len(v)
    <3> HIDE DEF p, q, v
    <3> QED BY <1>1, <1>4, <2>0
  <2>2. \A k \in (f.from + 1)..f.to : k \in 1..Len(s)
    BY <1>1
  <2> QED BY <2>1, <2>2, <1>5
<1> HIDE DEF p, q, v, u
<1>7. Bag(u, f.from, f.to) = Bag(v, f.from, f.to)
  <2> DEFINE from == f.from
             to == f.to
  <2>1. /\ from \in Nat /\ to \in 0..Len(v) /\ p \in (from + 1)..to /\ q \in (from + 1)..to
        /\ \A k \in (from + 1)..to : k # p /\ k # q => u[k] = v[k]
    BY <1>1, <1>6
  <2>2. Len(u) = Len(v)
    BY <1>4
  <2> HIDE DEF from, to
  <2>3. Bag(u, from, to) = Bag(v, from, to)
    BY <2>1, <2>2, <1>4, <1>5, SwapBag
  <2> QED BY <2>3 DEF from, to
<1>8. Bag(v, f.from, f.to) = f.bag
  BY DEF Sorted, v, q
<1> QED BY <1>3, <1>7, <1>8 DEF u, p

LEMMA ShiftedOrder ==
  ASSUME NEW f \in Frames, f.op = "sort", NEW s \in Seq(Elem), Sorted(f, s), f.honest,
         InOrder(f.how, f.tmp, s[f.j + 1]),
         NEW t, t = [s EXCEPT ![f.j + 2] = s[f.j + 1]]
  PROVE  /\ \A x, y \in (f.from + 1)..(f.i + 1) :
              x < y /\ x # f.j + 1 /\ y # f.j + 1 => InOrder(f.how, t[x], t[y])
         /\ \A y \in (f.j + 2)..(f.i + 1) : InOrder(f.how, f.tmp, t[y])
<1> DEFINE lo == f.from + 1
           hi == f.i + 1
           p == f.j + 1
           q == f.j + 2
<1>1. /\ f.from \in Nat /\ f.i \in Nat /\ f.j \in Nat /\ f.to \in Nat /\ f.from <= f.j
      /\ f.j < f.i /\ f.i < f.to /\ f.to <= Len(s) /\ Len(s) \in Nat
  BY FrameTypes DEF Sorted
<1>2. /\ lo \in Int /\ hi \in Int /\ p \in Int /\ q = p + 1 /\ lo <= p /\ q <= hi
      /\ p \in lo..hi /\ q \in lo..hi /\ \A x \in lo..hi : x \in 1..Len(s)
  <2>1. /\ lo \in Int /\ hi \in Int /\ p \in Int /\ q = p + 1 /\ lo <= p /\ q <= hi
        /\ 1 <= lo /\ hi <= Len(s) /\ Len(s) \in Int
    <3>1. lo \in Int /\ hi \in Int /\ p \in Int
      BY <1>1
    <3>2. q = p + 1 /\ lo <= p /\ 1 <= lo
      BY <1>1
    <3>3. q <= hi
      BY <1>1
    <3>4. hi <= Len(s)
      BY <1>1
    <3> QED BY <3>1, <3>2, <3>3, <3>4, <1>1
  <2> HIDE DEF lo, hi, p, q
  <2>2. p \in lo..hi /\ q \in lo..hi
    BY <2>1
  <2>3. ASSUME NEW x \in lo..hi PROVE x \in 1..Len(s)
    BY <2>1
  <2> QED BY <2>1, <2>2, <2>3
<1>3. /\ \A x, y \in lo..hi : x < y /\ x # q /\ y # q => InOrder(f.how, s[x], s[y])
      /\ \A y \in (q + 1)..hi : InOrder(f.how, f.tmp, s[y])
  <2>1. q + 1 = f.j + 3
    BY <1>1
  <2> QED BY <2>1 DEF Sorted, Ordered
<1>4. \A x \in lo..hi : t[x] = IF x = q THEN s[p] ELSE s[x]
  <2> HIDE DEF lo, hi, p, q
  <2>1. t = [s EXCEPT ![q] = s[p]]
    BY DEF p, q
  <2> QED BY <2>1, <1>2
<1>5. InOrder(f.how, f.tmp, s[p])
  OBVIOUS
<1> HIDE DEF lo, hi, p, q
<1>6. ASSUME NEW x \in lo..hi, NEW y \in lo..hi, x < y, x # p, y # p
      PROVE  InOrder(f.how, t[x], t[y])
  <2>1. CASE x = q
    BY <2>1, <1>2, <1>3, <1>4, <1>6
  <2>2. CASE y = q
    BY <2>2, <1>2, <1>3, <1>4, <1>6
  <2>3. CASE x # q /\ y # q
    BY <2>3, <1>3, <1>4, <1>6
  <2> QED BY <2>1, <2>2, <2>3
<1>7. ASSUME NEW y \in q..hi PROVE InOrder(f.how, f.tmp, t[y])
  <2>1. y \in lo..hi
    BY <1>2
  <2>2. CASE y = q
    BY <2>1, <2>2, <1>4, <1>5
  <2>3. CASE y # q
    <3>1. y \in (q + 1)..hi
      BY <2>3, <1>2
    <3> QED BY <3>1, <2>1, <2>3, <1>3, <1>4
  <2> QED BY <2>2, <2>3
<1> QED BY <1>6, <1>7 DEF lo, hi, p, q

(* tmp goes to the slot that is left, first or behind what goes before it. *)
LEMMA SettledOrder ==
  ASSUME NEW f \in Frames, NEW s \in Seq(Elem), NEW q \in Int, f.tmp \in Elem,
         f.i < Len(s), f.from < q, q <= f.i + 1,
         \A x, y \in (f.from + 1)..(f.i + 1) :
           x < y /\ x # q /\ y # q => InOrder(f.how, s[x], s[y]),
         \A y \in (q + 1)..(f.i + 1) : InOrder(f.how, f.tmp, s[y]),
         q = f.from + 1 \/ InOrder(f.how, s[q - 1], f.tmp)
  PROVE  InFullOrder(f, [s EXCEPT ![q] = f.tmp], f.i + 1)
<1> DEFINE lo == f.from + 1
           hi == f.i + 1
           u == [s EXCEPT ![q] = f.tmp]
<1>1. f.from \in Nat /\ f.i \in Nat
  BY FrameTypes
<1>2. /\ lo \in Int /\ hi \in Int /\ lo <= q /\ q <= hi
      /\ \A x \in lo..hi : x \in 1..Len(s)
  BY <1>1
<1>3. \A x \in lo..hi : u[x] = (IF x = q THEN f.tmp ELSE s[x]) /\ s[x] \in Elem
  <2> HIDE DEF lo, hi
  <2> QED BY <1>2
<1>4. /\ \A x, y \in lo..hi : x < y /\ x # q /\ y # q => InOrder(f.how, s[x], s[y])
      /\ \A y \in (q + 1)..hi : InOrder(f.how, f.tmp, s[y])
      /\ q = lo \/ InOrder(f.how, s[q - 1], f.tmp)
  OBVIOUS
<1> HIDE DEF lo, hi, u
<1>5. ASSUME NEW x \in lo..hi, NEW y \in lo..hi, x < y PROVE InOrder(f.how, u[x], u[y])
  <2>1. CASE x = q
    <3>1. y \in (q + 1)..hi /\ y # q
      BY <2>1, <1>2, <1>5
    <3> QED BY <3>1, <2>1, <1>3, <1>4
  <2>2. CASE y = q /\ x = q - 1
    <3>1. q # lo /\ x # q
      BY <2>2, <1>2
    <3> QED BY <3>1, <2>2, <1>3, <1>4
  <2>3. CASE y = q /\ x # q - 1
    <3>1. q - 1 \in lo..hi /\ x < q - 1 /\ q # lo /\ q - 1 # q /\ x # q
      BY <2>3, <1>2, <1>5
    <3>2. InOrder(f.how, s[x], s[q - 1]) /\ InOrder(f.how, s[q - 1], f.tmp)
      BY <3>1, <1>4
    <3>3. /\ Rank[s[x]] \in Nat /\ Rank[s[q - 1]] \in Nat /\ Rank[f.tmp] \in Nat
      BY <3>1, <1>3, RankTypes
    <3>4. InOrder(f.how, s[x], f.tmp)
      BY <3>2, <3>3 DEF InOrder
    <3> QED BY <3>1, <3>4, <2>3, <1>3
  <2>4. CASE x # q /\ y # q
    BY <2>4, <1>3, <1>4, <1>5
  <2> QED BY <2>1, <2>2, <2>3, <2>4
<1> QED BY <1>5 DEF InFullOrder, lo, hi, u

-----------------------------------------------------------------------------
(* Steps of sorts.                                                         *)

(* The walk at element i, when the part before it is done.                 *)
Reaches(f, i, s, g) ==
  /\ g.op = "sort" /\ g.arr = f.arr /\ g.other = f.other /\ g.how = f.how
  /\ (f.to <= Len(s) /\ Bag(s, f.from, f.to) = f.bag /\ (f.honest => InFullOrder(f, s, i)))
       => Sorted(g, s)

LEMMA ComparesMakes ==
  ASSUME NEW f \in Records, f.op = "sort", f.how # "delete", NEW i \in Nat, f.from < i,
         NEW s \in Seq(Elem), NEW after, Compares(f, i, s, after)
  PROVE  \/ i >= f.to /\ stack' = after /\ fault' = fault
         \/ fault' = "stale" /\ stack' = stack
         \/ \E g \in Frames : stack' = <<g>> \o after /\ fault' = fault /\ Reaches(f, i, s, g)
<1>1. CASE i >= f.to
  BY <1>1 DEF Compares
<1>2. CASE ~(i >= f.to) /\ i >= Len(s)
  BY <1>2 DEF Compares
<1>3. CASE ~(i >= f.to) /\ ~(i >= Len(s))
  <2> DEFINE p == IF Native([f EXCEPT !.i = i, !.j = i - 1, !.tmp = s[i + 1]], s)
                  THEN "run" ELSE "script"
             x == s[i + 1]
             g == [f EXCEPT !.i = i, !.j = i - 1, !.tmp = x, !.phase = p]
  <2>1. stack' = <<g>> \o after /\ fault' = fault
    BY <1>3 DEF Compares
  <2>2. p \in {"run", "script"}
    OBVIOUS
  <2>3. f.from \in Nat /\ f.to \in Nat /\ f.honest \in BOOLEAN
    BY DEF Records
  <2>4. x \in Elem /\ i < f.to /\ i < Len(s) /\ i + 1 \in 1..Len(s) /\ i - 1 \in Nat
        /\ f.from <= i - 1 /\ i - 1 < i
    BY <1>3, <2>3
  <2> HIDE DEF p
  <2>5. g \in Records
    <3> DEFINE h == [f EXCEPT !.i = i, !.j = i - 1]
    <3>1. i - 1 \in Int
      BY <2>4
    <3>2. h \in Records
      BY <3>1 DEF Records
    <3>3. g = [h EXCEPT !.tmp = x, !.phase = p]
      OBVIOUS
    <3> HIDE DEF h, g, x
    <3>4. [h EXCEPT !.tmp = x, !.phase = p] \in Records
      BY <2>2, <2>4, <3>2 DEF Records
    <3> QED BY <3>3, <3>4
  <2>6. /\ g.op = "sort" /\ g.arr = f.arr /\ g.other = f.other /\ g.how = f.how
        /\ g.from = f.from /\ g.to = f.to /\ g.i = i /\ g.j = i - 1 /\ g.tmp = x
        /\ g.honest = f.honest /\ g.bag = f.bag
    BY DEF Records
  <2> HIDE DEF g
  <2>7. g \in Frames
    BY <2>4, <2>5, <2>6 DEF Frames
  <2>8. ASSUME f.to <= Len(s), Bag(s, f.from, f.to) = f.bag,
               f.honest => InFullOrder(f, s, i)
        PROVE  Sorted(g, s)
    <3>1. g.j + 2 = i + 1 /\ g.i + 1 = i + 1 /\ g.j + 3 = i + 2
      BY <2>6
    <3>2. [s EXCEPT ![g.j + 2] = g.tmp] = s
      BY <3>1, <2>6
    <3>3. ASSUME f.honest PROVE Ordered(g, s)
      <4>1. ASSUME NEW y \in (f.from + 1)..(i + 1), y # i + 1 PROVE y \in (f.from + 1)..i
        BY <4>1, <2>3
      <4>2. (i + 2)..(i + 1) = {}
        OBVIOUS
      <4> QED BY <4>1, <4>2, <3>1, <3>3, <2>6, <2>8 DEF Ordered, InFullOrder
    <3> QED BY <3>2, <3>3, <2>6, <2>8 DEF Sorted
  <2>9. Reaches(f, i, s, g)
    BY <2>6, <2>8 DEF Reaches
  <2> QED BY <2>1, <2>7, <2>9
<1> QED BY <1>1, <1>2, <1>3

(* A sort that goes on, or is done.                                        *)
LEMMA SortGoesOn ==
  ASSUME IInv, stack # <<>>, Top.op = "sort",
         NEW e \in Seq(Elem), buf' = [buf EXCEPT ![Top.arr] = e],
         held' = held, reentered' = reentered, fault = "none",
         NEW g \in Frames, g.op = "sort", g.arr = Top.arr, g.other = Top.other, g.how # "delete",
         ~reentered => Sorted(g, e),
         stack' = <<g>> \o Tail(stack)
  PROVE  IInv'
<1> DEFINE t == <<g>> \o Tail(stack)
<1>1. /\ 1 \in DOMAIN stack /\ Top = stack[1] /\ Top \in Frames
      /\ Tail(stack) \in Seq(Frames) /\ Len(Tail(stack)) = Len(stack) - 1
      /\ \A k \in DOMAIN Tail(stack) : k + 1 \in DOMAIN stack /\ Tail(stack)[k] = stack[k + 1]
  BY TopFrame DEF IInv
<1>2. stack \in Seq(Frames) /\ Len(stack) \in Nat /\ DOMAIN stack = 1..Len(stack) /\ Types
  BY DEF IInv, Types
<1>3. t \in Seq(Frames) /\ Len(t) = Len(stack) /\ DOMAIN t = DOMAIN stack /\ t[1] = g
  BY <1>1, <1>2
<1>4. ASSUME NEW k \in DOMAIN stack, k # 1 PROVE t[k] = stack[k]
  <2>1. k - 1 \in DOMAIN Tail(stack) /\ t[k] = Tail(stack)[k - 1] /\ k - 1 + 1 = k
    BY <1>4, <1>1, <1>2
  <2> QED BY <2>1, <1>1
<1>5. stack' = t
  OBVIOUS
<1> HIDE DEF t
<1>6. /\ Top.arr \in Array /\ buf' \in [Array -> Seq(Elem) \cup {NoBuffer}]
      /\ buf'[Top.arr] = e
      /\ \A x \in Array : buf[x] # NoBuffer => buf'[x] # NoBuffer
  <2>1. Top.arr \in Array
    BY <1>1, FrameTypes
  <2> QED BY <2>1, <1>2, BufferTypes DEF Types
<1>7. Types'
  BY <1>2, <1>3, <1>5, <1>6 DEF Types
<1>8. \A k \in DOMAIN stack :
        /\ t[k].arr = stack[k].arr /\ t[k].other = stack[k].other
        /\ stack[k].arr \in Array /\ stack[k].other \in Array
        /\ t[k].how = "delete" => stack[k].how = "delete"
  <2> TAKE k \in DOMAIN stack
  <2>1. stack[k].arr \in Array /\ stack[k].other \in Array
    <3>1. stack[k] \in Frames
      BY <1>2
    <3> QED BY <3>1, FrameTypes
  <2> QED BY <2>1, <1>1, <1>3, <1>4
<1>9. Buffers'
  <2> SUFFICES ASSUME NEW k \in DOMAIN stack
               PROVE  /\ buf'[t[k].arr] # NoBuffer /\ buf'[t[k].other] # NoBuffer
                      /\ t[k].how = "delete" => \A l \in DOMAIN stack : l # k =>
                           t[k].arr \notin {t[l].arr, t[l].other}
    BY <1>3, <1>5 DEF Buffers
  <2>1. buf[stack[k].arr] # NoBuffer /\ buf[stack[k].other] # NoBuffer
    BY DEF IInv, Buffers
  <2>2. buf'[t[k].arr] # NoBuffer /\ buf'[t[k].other] # NoBuffer
    BY <2>1, <1>6, <1>8
  <2>3. ASSUME t[k].how = "delete", NEW l \in DOMAIN stack, l # k
        PROVE  t[k].arr \notin {t[l].arr, t[l].other}
    <3>1. stack[k].arr \notin {stack[l].arr, stack[l].other}
      BY <2>3, <1>8 DEF IInv, Buffers
    <3> QED BY <3>1, <1>8
  <2> QED BY <2>2, <2>3
<1>10. Sorts'
  <2> SUFFICES ASSUME ~reentered
               PROVE  Len(t) = 1 /\ Sorted(t[1], buf'[t[1].arr])
    BY <1>3, <1>2, <1>5 DEF Sorts
  <2>1. Len(stack) = 1
    BY <1>1 DEF IInv, Sorts
  <2> QED BY <2>1, <1>3, <1>6
<1> QED BY <1>7, <1>9, <1>10 DEF IInv

LEMMA SortEnds ==
  ASSUME IInv, stack # <<>>, Top.op = "sort",
         NEW e \in Seq(Elem), buf' = [buf EXCEPT ![Top.arr] = e],
         held' = held, reentered' = reentered, fault = "none",
         stack' = Tail(stack)
  PROVE  IInv'
<1> DEFINE t == Tail(stack)
<1>1. /\ 1 \in DOMAIN stack /\ Top = stack[1] /\ Top \in Frames
      /\ t \in Seq(Frames) /\ Len(t) = Len(stack) - 1
      /\ \A k \in DOMAIN t : k + 1 \in DOMAIN stack /\ t[k] = stack[k + 1]
  BY TopFrame DEF IInv
<1>2. /\ stack \in Seq(Frames) /\ Len(stack) \in Nat /\ DOMAIN stack = 1..Len(stack) /\ Types
      /\ DOMAIN t = 1..Len(t)
  BY <1>1 DEF IInv, Types
<1>3. stack' = t
  OBVIOUS
<1> HIDE DEF t
<1>4. /\ buf' \in [Array -> Seq(Elem) \cup {NoBuffer}]
      /\ \A x \in Array : buf[x] # NoBuffer => buf'[x] # NoBuffer
  <2>1. Top.arr \in Array
    BY <1>1, FrameTypes
  <2> QED BY <2>1, <1>2, BufferTypes DEF Types
<1>5. Types'
  BY <1>1, <1>2, <1>3, <1>4 DEF Types
<1>6. \A k \in DOMAIN stack : stack[k].arr \in Array /\ stack[k].other \in Array
  <2> TAKE k \in DOMAIN stack
  <2>1. stack[k] \in Frames
    BY <1>2
  <2> QED BY <2>1, FrameTypes
<1>7. Buffers'
  <2> SUFFICES ASSUME NEW k \in DOMAIN t
               PROVE  /\ buf'[t[k].arr] # NoBuffer /\ buf'[t[k].other] # NoBuffer
                      /\ t[k].how = "delete" => \A l \in DOMAIN t : l # k =>
                           t[k].arr \notin {t[l].arr, t[l].other}
    BY <1>3 DEF Buffers
  <2>1. k + 1 \in DOMAIN stack /\ t[k] = stack[k + 1]
    BY <1>1
  <2>2. buf'[t[k].arr] # NoBuffer /\ buf'[t[k].other] # NoBuffer
    BY <2>1, <1>4, <1>6 DEF IInv, Buffers
  <2>3. ASSUME t[k].how = "delete", NEW l \in DOMAIN t, l # k
        PROVE  t[k].arr \notin {t[l].arr, t[l].other}
    <3>1. l + 1 # k + 1 /\ l + 1 \in DOMAIN stack /\ t[l] = stack[l + 1]
      BY <2>3, <1>1, <1>2
    <3> QED BY <3>1, <2>1, <2>3 DEF IInv, Buffers
  <2> QED BY <2>2, <2>3
<1>8. Sorts'
  <2> SUFFICES ASSUME ~reentered PROVE DOMAIN t = {}
    BY <1>3 DEF Sorts
  <2>1. Len(stack) = 1
    BY <1>1 DEF IInv, Sorts
  <2> QED BY <2>1, <1>1, <1>2
<1> QED BY <1>5, <1>7, <1>8 DEF IInv

(* A sort begins where no walk is in progress. *)
LEMMA SortingKeeps ==
  ASSUME IInv, fault = "none", NEW a \in Array, Exists(a), stack = <<>>,
         NEW from \in Int, NEW to \in Int, from >= 0 \/ from + 1 >= to, to <= Len(buf[a]),
         NEW how \in {"asc", "desc", "less"}, Sorting(a, how, from, to),
         buf' = buf, held' = held, reentered' \in BOOLEAN, reentered => reentered'
  PROVE  IInv'
<1> DEFINE s == buf[a]
           b == Bag(s, from, to)
           f0 == Frame("sort", a, a, from, to)
           f == [f0 EXCEPT !.how = how, !.bag = b]
<1>0. Types /\ s \in Seq(Elem) /\ s # NoBuffer /\ held' \subseteq Object
      /\ buf' \in [Array -> Seq(Elem) \cup {NoBuffer}]
  BY BufferTypes DEF IInv, Exists, Types
<1>1. Compares(f, from + 1, s, stack)
  BY DEF Sorting
<1>2. CASE from + 1 >= to
  <2>1. f.to = to
    BY DEF Frame
  <2> HIDE DEF f
  <2>2. stack' = stack
    BY <1>1, <1>2, <2>1 DEF Compares
  <2> QED BY <2>2, <1>0, NothingWalks
<1>3. CASE ~(from + 1 >= to)
  <2>1. from \in Nat /\ to \in Nat /\ from + 1 \in Nat /\ from < from + 1 /\ to \in 0..Len(s)
    <3>1. Len(s) \in Nat
      BY <1>0
    <3> HIDE DEF s
    <3> QED BY <1>3, <3>1 DEF s
  <2>2. f0 \in Records /\ f0.from = from /\ f0.to = to /\ f0.arr = a /\ f0.other = a
        /\ f0.op = "sort"
    BY <2>1, MadeFrame DEF Frame
  <2>3. b \in [Elem -> Nat]
    BY <1>0, <2>1, BagTypes
  <2> HIDE DEF f0, b
  <2>4. f \in Records
    BY <2>2, <2>3 DEF Records
  <2>5. /\ f.op = "sort" /\ f.from = from /\ f.to = to /\ f.arr = a /\ f.other = a
        /\ f.how = how /\ f.bag = b
    BY <2>2 DEF Records
  <2> HIDE DEF f, s
  <2> DEFINE i == from + 1
  <2>i. i \in Nat /\ f.from < i /\ Compares(f, i, s, stack) /\ f.how # "delete"
    BY <1>1, <2>1, <2>5
  <2> HIDE DEF i
  <2>6. \/ i >= f.to /\ stack' = stack /\ fault' = fault
        \/ fault' = "stale" /\ stack' = stack
        \/ \E g \in Frames : stack' = <<g>> \o stack /\ fault' = fault /\ Reaches(f, i, s, g)
    BY <1>0, <2>i, <2>4, <2>5, ComparesMakes
  <2>7. CASE stack' = stack
    BY <2>7, <1>0, NothingWalks
  <2>8. ASSUME NEW g \in Frames, stack' = <<g>> \o stack, fault' = fault, Reaches(f, i, s, g)
        PROVE  IInv'
    <3>1. InFullOrder(f, s, i)
      BY <2>1, <2>5 DEF InFullOrder, i
    <3>2. f.to <= Len(s) /\ Bag(s, f.from, f.to) = f.bag
      BY <2>5 DEF b, s
    <3>3. /\ Sorted(g, s) /\ g.op = "sort"
          /\ g.arr = f.arr /\ g.other = f.other /\ g.how = f.how
      BY <3>1, <3>2, <2>8 DEF Reaches
    <3>4. stack' = <<g>>
      BY <2>8
    <3>5. g.arr = a /\ g.other = a /\ g.how # "delete" /\ buf'[a] = s
      BY <2>5, <3>3 DEF s
    <3>6. <<g>> \in Seq(Frames) /\ DOMAIN <<g>> = {1} /\ Len(<<g>>) = 1 /\ <<g>>[1] = g
      OBVIOUS
    <3>7. Types'
      BY <1>0, <3>4, <3>6 DEF Types
    <3>8. Buffers'
      BY <1>0, <3>4, <3>5, <3>6 DEF Buffers
    <3>9. Sorts'
      BY <3>3, <3>4, <3>5, <3>6 DEF Sorts
    <3> QED BY <3>7, <3>8, <3>9 DEF IInv
  <2> QED BY <2>6, <2>7, <2>8
<1> QED BY <1>2, <1>3

LEMMA SortKeeps ==
  ASSUME IInv, fault = "none", NEW a \in Array, Exists(a), NEW startAt \in Uints, NEW n \in Uints,
         SortLess(a, startAt, n) \/ \E how \in {"asc", "desc"} : Sort(a, how, startAt, n)
  PROVE  IInv'
<1> DEFINE len == Len(buf[a])
<1>0. /\ startAt \in Nat /\ n \in Nat /\ startAt + n \in Nat /\ len \in Nat
  <2>1. buf[a] \in Seq(Elem)
    BY BufferTypes DEF IInv, Exists
  <2>2. startAt \in Nat /\ n \in Nat
    BY WordTypes
  <2> QED BY <2>1, <2>2
<1>1. CASE SortLess(a, startAt, n)
  <2> DEFINE to == IF startAt + n > len THEN len ELSE startAt + n
  <2>1. /\ stack = <<>> /\ Sorting(a, "less", startAt, to)
        /\ buf' = buf /\ held' = held /\ Changes(a)
    BY <1>1 DEF SortLess, arrays, Outermost, Outside
  <2>2. to \in Int /\ to <= len /\ startAt \in Int /\ startAt >= 0
    BY <1>0
  <2>3. reentered' \in BOOLEAN /\ (reentered => reentered')
    BY <2>1 DEF Changes, Uses, IInv, Types, Walked, Dying
  <2> HIDE DEF to
  <2> QED BY <2>1, <2>2, <2>3, SortingKeeps
<1>2. ASSUME NEW how \in {"asc", "desc"}, Sort(a, how, startAt, n) PROVE IInv'
  <2> DEFINE start == Signed(startAt)
             end == Signed(Uint(startAt + n))
  <2>1. /\ stack = <<>> /\ buf' = buf /\ held' = held /\ Changes(a) /\ end <= len
        /\ IF start < 0 /\ start + 1 < end
           THEN fault' = "wrapped" /\ UNCHANGED stack
           ELSE Sorting(a, how, start, end)
    BY <1>2 DEF Sort, arrays, Outermost, Outside
  <2>2. start \in Int /\ end \in Int
    <3>1. Uint(startAt + n) \in Int
      BY <1>0, WordTypes
    <3> QED BY <3>1, <1>0, WordTypes
  <2>3. reentered' \in BOOLEAN /\ (reentered => reentered')
    BY <2>1 DEF Changes, Uses, IInv, Types, Walked, Dying
  <2> HIDE DEF start, end
  <2>4. CASE fault' = "wrapped" /\ stack' = stack
    <3>1. held' \subseteq Object /\ buf' \in [Array -> Seq(Elem) \cup {NoBuffer}]
      BY <2>1 DEF IInv, Types
    <3> QED BY <3>1, <2>1, <2>3, <2>4, FaultEnds
  <2>5. CASE ~(start < 0 /\ start + 1 < end) /\ Sorting(a, how, start, end)
    <3>1. start >= 0 \/ start + 1 >= end
      BY <2>2, <2>5
    <3> QED BY <3>1, <2>1, <2>2, <2>3, <2>5, SortingKeeps
  <2> QED BY <2>1, <2>4, <2>5
<1> QED BY <1>1, <1>2

(* A comparison of a sort returns.                                         *)
LEMMA SortStepKeeps ==
  ASSUME IInv, fault = "none", stack # <<>>, NEW answer \in {"yes", "no", "failed"},
         SortStep(answer)
  PROVE  IInv'
<1> DEFINE f  == Top
           a  == f.arr
           s  == buf[a]
           up == answer = "yes"
           j  == IF up THEN f.j - 1 ELSE f.j
           t  == IF up THEN Placed(s, f.j, s[f.j + 1]) ELSE s
           h  == f.honest /\ answer # "failed"
                   /\ (Native(f, s) \/ up = Before(f, f.tmp, s[f.j + 1]))
           u  == Placed(t, j, f.tmp)
<1>0. /\ Types /\ f \in Frames /\ a \in Array /\ s \in Seq(Elem) /\ f.op = "sort"
      /\ held' = held /\ reentered' = reentered /\ held' \subseteq Object
  <2>1. Types /\ f.op = "sort" /\ held' = held /\ reentered' = reentered
    BY DEF IInv, SortStep, Inside
  <2>2. f \in Frames /\ 1 \in DOMAIN stack /\ f = stack[1]
    BY <2>1, TopFrame
  <2>3. a \in Array /\ s # NoBuffer
    BY <2>2, FrameTypes DEF IInv, Buffers
  <2> QED BY <2>1, <2>2, <2>3, BufferTypes DEF Types
<1>1. /\ f \in Records /\ f.from \in Nat /\ f.to \in Nat /\ f.i \in Nat /\ f.j \in Nat
      /\ f.tmp \in Elem /\ f.honest \in BOOLEAN
      /\ f.from <= f.j /\ f.j < f.i /\ f.i < f.to
  BY <1>0, FrameTypes
<1>2. ~reentered => Len(stack) = 1 /\ Sorted(f, s)
  <2>1. 1 \in DOMAIN stack /\ f = stack[1]
    BY <1>0, TopFrame
  <2> QED BY <2>1, <1>0 DEF IInv, Sorts
<1>3. CASE f.j + 1 >= Len(s)
  <2>1. fault' = "stale" /\ buf' = buf /\ stack' = stack
    BY <1>3 DEF SortStep
  <2> QED BY <2>1, <1>0, FaultEnds DEF Types
<1>4. CASE ~(f.j + 1 >= Len(s))
  <2>1. /\ Native(f, s) => answer = (IF NativeAnswer(f, s) THEN "yes" ELSE "no")
        /\ IF up /\ j >= f.from
           THEN /\ buf' = [buf EXCEPT ![a] = t]
                /\ Goes([f EXCEPT !.j = j, !.honest = h,
                           !.phase = IF Native([f EXCEPT !.j = j, !.honest = h], t)
                                     THEN "run" ELSE "script"])
                /\ fault' = fault
           ELSE /\ buf' = [buf EXCEPT ![a] = u]
                /\ Compares([f EXCEPT !.honest = h], f.i + 1, u, Tail(stack))
    BY <1>4 DEF SortStep
  <2> HIDE DEF f, a, s
  <2>2. /\ f.j + 1 \in 1..Len(s) /\ f.j + 2 \in 1..Len(s) /\ s[f.j + 1] \in Elem
    <3>1. f.j + 1 \in 1..Len(s) /\ f.j + 2 \in 1..Len(s)
      BY <1>0, <1>1, <1>4
    <3> QED BY <3>1, <1>0
  <2>3. h \in BOOLEAN /\ (h => f.honest)
    BY <1>1
  <2>4. h => /\ up => InOrder(f.how, f.tmp, s[f.j + 1])
             /\ ~up => InOrder(f.how, s[f.j + 1], f.tmp)
    BY <1>1, <2>1, <2>2, AnswerOrders
  <2>5. t \in Seq(Elem) /\ Len(t) = Len(s)
    BY <1>0, <2>2, Stores DEF Placed
  <2>6. up => t = [s EXCEPT ![f.j + 2] = s[f.j + 1]]
    BY DEF Placed
  <2>7. f.i < f.to /\ ~reentered => f.to <= Len(s) /\ f.i < Len(s)
    BY <1>0, <1>1, <1>2 DEF Sorted
  <2> HIDE DEF h, t
  <2>8. CASE up /\ j >= f.from
    <3> DEFINE p == IF Native([f EXCEPT !.j = j, !.honest = h], t) THEN "run" ELSE "script"
               g == [f EXCEPT !.j = j, !.honest = h, !.phase = p]
    <3>1. /\ buf' = [buf EXCEPT ![a] = t] /\ stack' = <<g>> \o Tail(stack)
      BY <2>1, <2>8 DEF Goes, f
    <3>2. p \in {"run", "script"} /\ j = f.j - 1 /\ j \in Int /\ j < f.i
      BY <2>8, <1>1
    <3> HIDE DEF p
    <3>3. g \in Records
      <4> DEFINE k == [f EXCEPT !.j = j, !.honest = h]
      <4>1. k \in Records
        BY <1>1, <2>3, <3>2 DEF Records
      <4>2. g = [k EXCEPT !.phase = p]
        OBVIOUS
      <4> HIDE DEF k, g
      <4>3. [k EXCEPT !.phase = p] \in Records
        BY <4>1, <3>2 DEF Records
      <4> QED BY <4>2, <4>3
    <3>4. /\ g.op = "sort" /\ g.arr = f.arr /\ g.other = f.other /\ g.how = f.how
          /\ g.from = f.from /\ g.to = f.to /\ g.i = f.i /\ g.j = j /\ g.tmp = f.tmp
          /\ g.honest = h /\ g.bag = f.bag
      BY <1>0, <1>1 DEF Records
    <3> HIDE DEF g
    <3>6. g.how # "delete"
      <4>1. f.how # "delete"
        BY <1>0, FrameTypes
      <4> QED BY <4>1, <3>4
    <3>5. g \in Frames
      BY <3>2, <3>3, <3>4, <3>6, <2>8, <1>1 DEF Frames
    <3>7. ASSUME ~reentered PROVE Sorted(g, t)
      <4>1. Bag([t EXCEPT ![f.j + 1] = f.tmp], f.from, f.to) = f.bag
        BY <1>0, <1>2, <2>6, <2>8, <3>7, Shifted
      <4>2. g.j + 2 = f.j + 1 /\ g.j + 3 = f.j + 2
        BY <3>2, <3>4, <1>1
      <4>3. ASSUME h PROVE Ordered(g, t)
        <5>1. /\ \A x, y \in (f.from + 1)..(f.i + 1) :
                   x < y /\ x # f.j + 1 /\ y # f.j + 1 => InOrder(f.how, t[x], t[y])
              /\ \A y \in (f.j + 2)..(f.i + 1) : InOrder(f.how, f.tmp, t[y])
          BY <1>0, <1>2, <2>3, <2>4, <2>6, <2>8, <3>7, <4>3, ShiftedOrder
        <5> QED BY <5>1, <4>2, <3>4 DEF Ordered
      <4>4. g.to <= Len(t)
        BY <1>2, <3>7, <3>4, <2>5 DEF Sorted
      <4> QED BY <4>1, <4>2, <4>3, <4>4, <3>4 DEF Sorted
    <3> QED BY <3>1, <3>4, <3>5, <3>6, <3>7, <1>0, <2>5, SortGoesOn DEF f, a
  <2>9. CASE ~(up /\ j >= f.from)
    <3> DEFINE k == [f EXCEPT !.honest = h]
               i == f.i + 1
               q == j + 2
    <3>1. /\ buf' = [buf EXCEPT ![a] = u] /\ Compares(k, i, u, Tail(stack))
      BY <2>1, <2>9
    <3>2. /\ j \in Int /\ q \in 1..Len(s) /\ q <= f.i + 1 /\ f.from < q
          /\ up => f.j = f.from /\ q = f.j + 1 /\ q = f.from + 1
          /\ ~up => q = f.j + 2 /\ q - 1 = f.j + 1
      <4>1. CASE up
        <5>1. j = f.j - 1 /\ f.j - 1 < f.from
          BY <2>9, <4>1, <1>1
        <5>2. f.j = f.from /\ q = f.j + 1
          BY <5>1, <1>1
        <5> HIDE DEF q, j
        <5>3. j \in Int /\ q = f.from + 1
          BY <5>1, <5>2, <1>1
        <5>4. q \in 1..Len(s) /\ q <= f.i + 1 /\ f.from < q
          BY <5>2, <1>1, <2>2
        <5> QED BY <5>2, <5>3, <5>4, <4>1
      <4>2. CASE ~up
        <5>1. j = f.j /\ q = f.j + 2
          BY <4>2
        <5> HIDE DEF q, j
        <5>2. j \in Int /\ q - 1 = f.j + 1
          BY <5>1, <1>1
        <5>3. q \in 1..Len(s) /\ q <= f.i + 1 /\ f.from < q
          BY <5>1, <1>1, <2>2
        <5> QED BY <5>1, <5>2, <5>3, <4>2
      <4> QED BY <4>1, <4>2
    <3>3. u = [t EXCEPT ![q] = f.tmp]
      BY DEF Placed
    <3> HIDE DEF u, q, j
    <3>4. u \in Seq(Elem) /\ Len(u) = Len(s)
      BY <2>5, <3>2, <3>3, <1>1, Stores
    <3>5. k \in Records
      BY <1>1, <2>3 DEF Records
    <3>6. /\ k.op = "sort" /\ k.arr = f.arr /\ k.other = f.other /\ k.how = f.how
          /\ k.from = f.from /\ k.to = f.to /\ k.honest = h /\ k.bag = f.bag
          /\ k.how # "delete"
      BY <1>0, <1>1, FrameTypes DEF Records
    <3>7. i \in Nat /\ k.from < i
      BY <1>1, <3>6
    <3>8. ASSUME ~reentered PROVE Bag(u, f.from, f.to) = f.bag
      <4>1. CASE up
        <5>1. Bag([t EXCEPT ![f.j + 1] = f.tmp], f.from, f.to) = f.bag
          BY <1>0, <1>2, <2>6, <4>1, <3>8, Shifted
        <5> QED BY <5>1, <4>1, <3>2, <3>3
      <4>2. CASE ~up
        <5>1. t = s
          BY <4>2 DEF t
        <5>2. u = [s EXCEPT ![f.j + 2] = f.tmp]
          BY <5>1, <4>2, <3>2, <3>3
        <5> QED BY <5>2, <1>2, <3>8 DEF Sorted
      <4> QED BY <4>1, <4>2
    <3>9. ASSUME ~reentered, h PROVE InFullOrder(f, u, f.i + 1)
      <4>0. Sorted(f, s) /\ f.honest /\ f.i < Len(s)
        BY <3>9, <1>1, <1>2, <2>3, <2>7
      <4>1. CASE up
        <5>1. /\ \A x, y \in (f.from + 1)..(f.i + 1) :
                   x < y /\ x # f.j + 1 /\ y # f.j + 1 => InOrder(f.how, t[x], t[y])
              /\ \A y \in (f.j + 2)..(f.i + 1) : InOrder(f.how, f.tmp, t[y])
          BY <1>0, <4>0, <2>4, <2>6, <4>1, <3>9, ShiftedOrder
        <5>2. q = f.j + 1 /\ q + 1 = f.j + 2 /\ q = f.from + 1 /\ q \in Int
          BY <4>1, <3>2, <1>1
        <5>3. InFullOrder(f, [t EXCEPT ![q] = f.tmp], f.i + 1)
          BY <5>1, <5>2, <3>2, <1>0, <1>1, <2>5, <4>0, SettledOrder
        <5> QED BY <5>3, <3>3
      <4>2. CASE ~up
        <5>1. t = s /\ q = f.j + 2 /\ q - 1 = f.j + 1 /\ q + 1 = f.j + 3 /\ q \in Int
          BY <4>2, <3>2, <1>1 DEF t
        <5>2. /\ \A x, y \in (f.from + 1)..(f.i + 1) :
                   x < y /\ x # q /\ y # q => InOrder(f.how, s[x], s[y])
              /\ \A y \in (q + 1)..(f.i + 1) : InOrder(f.how, f.tmp, s[y])
              /\ InOrder(f.how, s[q - 1], f.tmp)
          BY <5>1, <4>0, <4>2, <3>9, <2>4 DEF Sorted, Ordered
        <5>3. InFullOrder(f, [s EXCEPT ![q] = f.tmp], f.i + 1)
          BY <5>1, <5>2, <3>2, <1>0, <1>1, <4>0, SettledOrder
        <5> QED BY <5>1, <5>3, <3>3
      <4> QED BY <4>1, <4>2
    <3> HIDE DEF k
    <3>10. \/ i >= k.to /\ stack' = Tail(stack) /\ fault' = fault
           \/ fault' = "stale" /\ stack' = stack
           \/ \E g \in Frames :
                stack' = <<g>> \o Tail(stack) /\ fault' = fault /\ Reaches(k, i, u, g)
      <4> HIDE DEF i
      <4> QED BY <3>1, <3>4, <3>5, <3>6, <3>7, ComparesMakes
    <3>11. CASE stack' = Tail(stack)
      BY <3>1, <3>4, <3>11, <1>0, SortEnds DEF f, a
    <3>12. CASE fault' = "stale" /\ stack' = stack
      <4>1. /\ buf' \in [Array -> Seq(Elem) \cup {NoBuffer}]
            /\ \A x \in Array : buf[x] # NoBuffer => buf'[x] # NoBuffer
            /\ reentered' \in BOOLEAN
        BY <1>0, <3>1, <3>4, BufferTypes DEF Types
      <4> QED BY <4>1, <3>12, <1>0, FaultEnds
    <3>13. ASSUME NEW g \in Frames, stack' = <<g>> \o Tail(stack), Reaches(k, i, u, g)
           PROVE  IInv'
      <4>1. g.op = "sort" /\ g.arr = f.arr /\ g.other = f.other /\ g.how # "delete"
        <5>1. f.how # "delete"
          BY <1>0, FrameTypes
        <5> QED BY <5>1, <3>13, <3>6 DEF Reaches
      <4>2. ASSUME ~reentered PROVE Sorted(g, u)
        <5>1. k.to <= Len(u) /\ Bag(u, k.from, k.to) = k.bag
          BY <4>2, <2>7, <3>4, <3>6, <3>8, <1>1
        <5>2. k.honest => InFullOrder(k, u, i)
          BY <4>2, <3>6, <3>9 DEF InFullOrder
        <5> QED BY <5>1, <5>2, <3>13 DEF Reaches
      <4> QED BY <4>1, <4>2, <3>1, <3>4, <3>13, <1>0, SortGoesOn DEF f, a
    <3> QED BY <3>10, <3>11, <3>12, <3>13
  <2> QED BY <2>8, <2>9
<1> QED BY <1>3, <1>4

-----------------------------------------------------------------------------
(* All steps.                                                              *)

LEMMA InitInv == Init => IInv
<1> SUFFICES ASSUME Init PROVE IInv
  OBVIOUS
<1>1. stack = <<>> /\ stack \in Seq(Frames) /\ DOMAIN stack = {}
  BY DEF Init
<1>2. buf \in [Array -> Seq(Elem) \cup {NoBuffer}] /\ held \subseteq Object /\ reentered \in BOOLEAN
  BY DEF Init
<1> QED BY <1>1, <1>2 DEF IInv, Types, Buffers, Sorts

LEMMA CallsKeep ==
  ASSUME IInv, fault = "none", NEW a \in Array, Exists(a), Calls(a)
  PROVE  IInv'
<1>1. CASE Release(a) \/ Reverse(a)
  BY <1>1, ReleaseKeeps, ReverseKeeps
<1>2. ASSUME NEW n \in Uints, Reserve(a, n) \/ Resize(a, n) \/ RemoveAt(a, n) \/ At(a, n)
      PROVE  IInv'
  BY <1>2, ReserveKeeps, ResizeKeeps, RemoveAtKeeps, HandlesKeep
<1>3. ASSUME NEW n \in Uints, NEW v \in Values, InsertAt(a, n, v) \/ Find(a, n, v)
      PROVE  IInv'
  BY <1>3, InsertAtKeeps, FindKeeps
<1>4. ASSUME NEW n \in Uints, NEW b \in Array, InsertArray(a, n, b) PROVE IInv'
  BY <1>4, InsertArrayKeeps
<1>5. ASSUME NEW n \in Uints, NEW m \in Uints, RemoveRange(a, n, m) PROVE IInv'
  BY <1>5, RemoveRangeKeeps
<1>6. ASSUME NEW n \in Uints, NEW m \in Uints,
             SortLess(a, n, m) \/ \E how \in {"asc", "desc"} : Sort(a, how, n, m)
      PROVE  IInv'
  BY <1>6, SortKeeps
<1>7. ASSUME NEW b \in Array, Assign(a, b) \/ Equal(a, b) PROVE IInv'
  BY <1>7, AssignKeeps, EqualKeeps
<1> QED BY <1>1, <1>2, <1>3, <1>4, <1>5, <1>6, <1>7 DEF Calls

LEMMA NextInv == IInv /\ [Next]_vars => IInv'
<1> SUFFICES ASSUME IInv, [Next]_vars PROVE IInv'
  OBVIOUS
<1>1. CASE fault = "none" /\ stack # <<>> /\ Walks
  <2>1. CASE DestructStep \/ DestructEnds \/ DestructorReturns
    BY <1>1, <2>1, DestructKeeps
  <2>2. CASE CopyStarts \/ CopyStep \/ CopyEnds
    BY <1>1, <2>2, CopyKeeps
  <2>3. CASE \E answer \in {"yes", "no", "failed"} : SortStep(answer)
    BY <1>1, <2>3, SortStepKeeps
  <2>4. CASE ScanStep \/ \E equal \in BOOLEAN : ScanReturns(equal)
    BY <1>1, <2>4, ScanKeeps
  <2> QED BY <1>1, <2>1, <2>2, <2>3, <2>4 DEF Walks
<1>2. CASE ScriptRuns /\ Scripts
  <2>0. fault = "none"
    BY <1>2 DEF ScriptRuns
  <2>1. ASSUME NEW a \in Array, Exists(a), Calls(a) PROVE IInv'
    BY <2>0, <2>1, CallsKeep
  <2>2. ASSUME NEW a \in Array, NEW n \in Uints,
               Create(a, n) \/ \E v \in Values : CreateFilled(a, n, v)
        PROVE  IInv'
    <3>1. n \in Nat
      BY WordTypes
    <3> QED BY <2>0, <2>2, <3>1, CreatesKeep
  <2>3. ASSUME NEW o \in Object, NewObject(o) \/ DropHandle(o) PROVE IInv'
    BY <2>0, <2>3, HandlesKeep
  <2> QED BY <1>2, <2>1, <2>2, <2>3 DEF Scripts
<1>3. CASE UNCHANGED vars
  <2>1. /\ buf' = buf /\ stack' = stack /\ held' = held
        /\ reentered' = reentered /\ fault' = fault
    BY <1>3 DEF vars, arrays
  <2>2. Types' /\ Buffers'
    BY <2>1 DEF IInv, Types, Buffers
  <2>3. Sorts'
    BY <2>1 DEF IInv, Sorts
  <2> QED BY <2>2, <2>3 DEF IInv
<1> QED BY <1>1, <1>2, <1>3 DEF Next

(* Walks over arrays, one within another, keep to buffers that exist, and  *)
(* sorts to what they have put in order.                                   *)
THEOREM InvariantHolds == Spec => []IInv
<1>1. Init => IInv
  BY InitInv
<1>2. IInv /\ [Next]_vars => IInv'
  BY NextInv
<1> QED BY <1>1, <1>2, PTL DEF Spec

-----------------------------------------------------------------------------
(* The properties.                                                         *)

(* A sort keeps the elements of the part of the array that it sorts, and   *)
(* keeps what it has done in order: Sort and Less of CScriptArray.         *)
THEOREM SortingIsSound == Spec => []SortsElements
<1>1. IInv => SortsElements
  <2> SUFFICES ASSUME IInv, NEW k \in DOMAIN stack, stack[k].op = "sort",
                      fault = "none", ~reentered
               PROVE  LET f == stack[k]  s == Settled(f) IN
                      /\ Bag(s, f.from, f.to) = f.bag
                      /\ f.honest => \A x, y \in (f.from + 1)..(f.i + 1) :
                           x < y /\ f.j + 2 \notin {x, y} =>
                             ~Before(f, buf[f.arr][y], buf[f.arr][x])
    BY DEF SortsElements
  <2> DEFINE f == stack[k]
             s == buf[f.arr]
  <2>1. f \in Frames /\ f.arr \in Array /\ f.from \in Nat /\ f.i \in Nat /\ f.i < f.to
        /\ f.to \in Nat
    <3>1. f \in Frames
      BY DEF IInv, Types
    <3> QED BY <3>1, FrameTypes
  <2>2. Sorted(f, s) /\ s \in Seq(Elem)
    BY <2>1, BufferTypes DEF IInv, Sorts, Buffers
  <2> HIDE DEF f, s
  <2>3. Bag(Settled(f), f.from, f.to) = f.bag
    BY <2>2 DEF Sorted, Settled, s
  <2>4. ASSUME f.honest, NEW x \in (f.from + 1)..(f.i + 1), NEW y \in (f.from + 1)..(f.i + 1),
               x < y, f.j + 2 \notin {x, y}
        PROVE  ~Before(f, s[y], s[x])
    <3>1. InOrder(f.how, s[x], s[y])
      BY <2>2, <2>4 DEF Sorted, Ordered
    <3>2. x \in 1..Len(s) /\ y \in 1..Len(s)
      BY <2>1, <2>2 DEF Sorted
    <3>3. Rank[s[x]] \in Nat /\ Rank[s[y]] \in Nat
      BY <2>2, <3>2, RankTypes
    <3> QED BY <3>1, <3>3 DEF InOrder, Before
  <2> QED BY <2>3, <2>4 DEF f, s
<1> QED BY <1>1, InvariantHolds, PTL

(* InsertAt for an array leaves the elements of that array, all of them    *)
(* and in order, between those that were there, though it makes room       *)
(* first, and copies from both sides of the gap when the arrays are one.   *)
THEOREM InsertingIsWhole == Spec => InsertsWhole
<1> DEFINE Whole ==
      \A a, b \in Array, at \in Uints :
        /\ kind # "object"
        /\ NoBuffer \notin {buf[a], buf'[a], buf[b]}
        /\ Len(buf'[a]) > Len(buf[a])
        /\ InsertArray(a, at, b)
        => buf'[a] = Spliced(buf[a], at, buf[b])
<1>1. IInv => [Whole]_buf
  <2> SUFFICES ASSUME IInv, NEW a \in Array, NEW b \in Array, NEW at \in Uints,
                      kind # "object", NoBuffer \notin {buf[a], buf'[a], buf[b]},
                      Len(buf'[a]) > Len(buf[a]), InsertArray(a, at, b)
               PROVE  buf'[a] = Spliced(buf[a], at, buf[b])
    OBVIOUS
  <2> DEFINE s == buf[a]
             n == Len(buf[b])
             m == IF a = b THEN at ELSE n
             e == [k \in DOMAIN s |->
                     IF at < k /\ k <= at + m THEN Stored(s[k], buf[b][k - at]) ELSE s[k]]
  <2>1. /\ Types /\ s \in Seq(Elem) /\ buf[b] \in Seq(Elem) /\ n \in Nat /\ at \in 0..Len(s)
    <3>1. Types /\ s \in Seq(Elem) /\ buf[b] \in Seq(Elem)
      BY BufferTypes DEF IInv
    <3>2. at \in Nat
      BY WordTypes
    <3> QED BY <3>1, <3>2 DEF InsertArray
  <2>2. ASSUME NEW t, Replaced(a, t, t, s, <<>>) PROVE buf'[a] = t
    <3>1. CASE Fails("dead")
      <4>1. buf' = buf
        BY <3>1 DEF Fails, arrays
      <4> QED BY <4>1, <2>1
    <3>2. CASE buf' = [buf EXCEPT ![a] = t]
      BY <3>2, <2>1 DEF Types
    <3> QED BY <2>2, <3>1, <3>2 DEF Replaced
  <2>3. ASSUME NEW new \in Constructed(n), NEW t,
               t = Filled(Spliced(s, at, new), at, n, buf[b], a = b),
               Replaced(a, t, t, s, <<>>)
        PROVE  buf'[a] = Spliced(s, at, buf[b])
    <3>1. new \in Seq(Elem) /\ Len(new) = n
      BY <2>1, ConstructedTypes
    <3>2. (a = b) \in BOOLEAN /\ (a = b => buf[b] = s)
      OBVIOUS
    <3>3. t = Spliced(s, at, buf[b])
      <4> DEFINE src == buf[b]
                 self == (a = b)
      <4>1. /\ src \in Seq(Elem) /\ Len(new) = Len(src)
            /\ self \in BOOLEAN /\ (self => src = s)
        BY <2>1, <3>1, <3>2
      <4>2. t = Filled(Spliced(s, at, new), at, Len(src), src, self)
        BY <2>3
      <4> HIDE DEF s, n, src, self
      <4>3. kind # "object" =>
              Filled(Spliced(s, at, new), at, Len(src), src, self) = Spliced(s, at, src)
        BY <2>1, <3>1, <4>1, FilledTypes
      <4> QED BY <4>2, <4>3 DEF src
    <3> QED BY <2>2, <2>3, <3>3
  <2>4. CASE Replaced(a, e, e, s, <<>>)
    <3>1. buf'[a] = e
      BY <2>2, <2>4
    <3>2. Len(e) = Len(s)
      BY <2>1
    <3> QED BY <3>1, <3>2, <2>1
  <2>5. \/ \E new \in Constructed(n) :
             LET t == Filled(Spliced(s, at, new), at, n, buf[b], a = b) IN
             Replaced(a, t, t, s, <<>>)
        \/ Replaced(a, e, e, s, <<>>)
    BY DEF InsertArray
  <2> HIDE DEF e, n
  <2> QED BY <2>3, <2>4, <2>5
<1> QED BY <1>1, InvariantHolds, PTL DEF InsertsWhole

-----------------------------------------------------------------------------
(* References.  What is promised of them ends with the first use of an     *)
(* array that is being walked.                                             *)

(* Walks that store to their array, or destroy what is in it.              *)
Writes(f) == f.op \in {"sort", "copy", "destruct"}

(* What a walk relies on of the buffers: they are where they were, and as  *)
(* long.  The slot that a sort has emptied still has the element that was  *)
(* taken, or the one that has moved up.                                    *)
Steady(f, b) ==
  LET d == b[f.arr]  s == b[f.other] IN
  /\ ~f.moved
  /\ f.op = "destruct" =>
       /\ f.to <= Len(d)
       /\ f.how = "delete" => f.from = 0 /\ f.to = Len(d)
  /\ f.op = "copy" => f.how = "waiting" \/ (f.to <= Len(d) /\ f.to <= Len(s))
  /\ f.op = "find" => f.to <= Len(d)
  /\ f.op = "equal" => Len(d) = Len(s)
  /\ f.op = "sort" =>
       /\ f.to <= Len(d)
       /\ d[f.j + 2] = f.tmp \/ (f.j + 1 < f.i /\ d[f.j + 2] = d[f.j + 3])

(* A walk within another stores into no array of that one, and has nothing *)
(* to do with one that loses elements.  Only Assign destroys elements of   *)
(* an array that it will copy to.                                          *)
Apart(f, g) ==
  /\ g.op = "destruct" => g.arr \notin {f.arr, f.other}
  /\ Writes(f) =>
       \/ f.arr \notin {g.arr, g.other}
       \/ /\ f.op = "destruct" /\ g.op = "copy" /\ g.how = "waiting"
          /\ f.arr = g.arr /\ f.arr # g.other

Walking(st, b) ==
  /\ \A k \in DOMAIN st : Steady(st[k], b)
  /\ \A k, l \in DOMAIN st : k < l => Apart(st[k], st[l])

(* Contents of an array, of any walks and buffers.                         *)
Content(st, b, a) ==
  LET sorts == {k \in DOMAIN st : st[k].op = "sort" /\ st[k].arr = a}
      dies  == {k \in DOMAIN st : st[k].op = "destruct" /\ st[k].arr = a}
  IN IF b[a] = NoBuffer THEN <<>>
     ELSE IF sorts # {}
     THEN LET f == st[CHOOSE k \in sorts : TRUE] IN [b[f.arr] EXCEPT ![f.j + 2] = f.tmp]
     ELSE IF dies # {}
     THEN LET f == st[CHOOSE k \in dies : TRUE] IN
          SubSeq(b[a], 1, f.from) \o SubSeq(b[a], f.j + 1, Len(b[a]))
     ELSE b[a]

(* The slots of all arrays that refer to an object, and a script's handle. *)
All(st, b) == [a \in Array |-> Content(st, b, a)]

Places(c, o) == UNION {{a} \X {k \in DOMAIN c[a] : c[a][k] = o} : a \in DOMAIN c}

Has(h, o) == IF o \in h THEN 1 ELSE 0

Balanced(c, r, h) == \A o \in Object : r[o] = Cardinality(Places(c, o)) + Has(h, o)

(* Until a callback uses a walked array: walks find what they rely on, and *)
(* references are those of slots and scripts.                              *)
Careful(k, st, b, r, h) ==
  /\ k \in Kinds /\ r \in [Object -> Nat] /\ h \subseteq Object
  /\ k # "handle" => h = {}
  /\ Walking(st, b)
  /\ k # "primitive" => Balanced(All(st, b), r, h)

(* The inductive invariant of references.                                  *)
RInv ==
  /\ IInv /\ FaultHasCause
  /\ fault = "none" /\ ~reentered => Careful(kind, stack, buf, refs, held)

-----------------------------------------------------------------------------
(* Counting.                                                               *)

One(x, y) == IF x = y THEN 1 ELSE 0

(* Occurrences in a sequence are finitely many.                            *)
LEMMA OccurrencesType ==
  ASSUME NEW s, IsFiniteSet(DOMAIN s), NEW o
  PROVE  /\ IsFiniteSet({k \in DOMAIN s : s[k] = o})
         /\ Occurrences(s, o) \in Nat
         /\ Occurrences(s, o) > 0 <=> \E k \in DOMAIN s : s[k] = o
<1> DEFINE S == {k \in DOMAIN s : s[k] = o}
<1>1. IsFiniteSet(S)
  <2>1. S \in SUBSET DOMAIN s
    OBVIOUS
  <2> HIDE DEF S
  <2> QED BY <2>1, FS_Subset
<1>2. Cardinality(S) \in Nat
  BY <1>1, FS_CardinalityType
<1>3. Cardinality(S) = 0 <=> S = {}
  BY <1>1, FS_EmptySet
<1>4. S # {} <=> \E k \in DOMAIN s : s[k] = o
  OBVIOUS
<1> HIDE DEF S
<1>5. Cardinality(S) > 0 <=> S # {}
  BY <1>2, <1>3
<1> QED BY <1>1, <1>2, <1>4, <1>5 DEF Occurrences, S

LEMMA OccurrencesCounts ==
  ASSUME NEW s, IsFiniteSet(DOMAIN s), NEW o
  PROVE  /\ Occurrences(s, o) \in Nat
         /\ Occurrences(s, o) > 0 <=> \E k \in DOMAIN s : s[k] = o
BY OccurrencesType

LEMMA OccurrencesNothing == \A o : Occurrences(<<>>, o) = 0
<1>1. \A o : {k \in DOMAIN <<>> : <<>>[k] = o} = {}
  OBVIOUS
<1> QED BY <1>1, FS_EmptySet DEF Occurrences

LEMMA OccurrencesSingle == \A x, o : Occurrences(<<x>>, o) = One(x, o)
<1> SUFFICES ASSUME NEW x, NEW o PROVE Occurrences(<<x>>, o) = One(x, o)
  OBVIOUS
<1>1. {k \in DOMAIN <<x>> : <<x>>[k] = o} = IF x = o THEN {1} ELSE {}
  OBVIOUS
<1> QED BY <1>1, FS_EmptySet, FS_Singleton DEF Occurrences, One

(* One element changes.                                                    *)
LEMMA OccurrencesChange ==
  ASSUME NEW s, IsFiniteSet(DOMAIN s), NEW i \in DOMAIN s, NEW t, DOMAIN t = DOMAIN s,
         \A k \in DOMAIN s : k # i => t[k] = s[k], NEW o
  PROVE  Occurrences(t, o) = Occurrences(s, o) - One(s[i], o) + One(t[i], o)
<1> DEFINE S == {k \in DOMAIN s : s[k] = o}
           T == {k \in DOMAIN t : t[k] = o}
<1>1. IsFiniteSet(S) /\ Cardinality(S) \in Nat
  BY OccurrencesType DEF Occurrences
<1>2. IsFiniteSet(S \cup {i}) /\ Cardinality(S \cup {i}) =
        IF i \in S THEN Cardinality(S) ELSE Cardinality(S) + 1
  BY <1>1, FS_AddElement
<1>3. IsFiniteSet(S \ {i}) /\ Cardinality(S \ {i}) =
        IF i \in S THEN Cardinality(S) - 1 ELSE Cardinality(S)
  BY <1>1, FS_RemoveElement
<1>4. i \in S <=> s[i] = o
  OBVIOUS
<1>5. T = IF t[i] = o THEN S \cup {i} ELSE S \ {i}
  OBVIOUS
<1> HIDE DEF S, T
<1>6. Cardinality(T) = Cardinality(S) - One(s[i], o) + One(t[i], o)
  BY <1>1, <1>2, <1>3, <1>4, <1>5 DEF One
<1> QED BY <1>6 DEF Occurrences, S, T

(* One sequence of a family changes.                                       *)
LEMMA PlacesChange ==
  ASSUME NEW F, IsFiniteSet(DOMAIN F), \A j \in DOMAIN F : IsFiniteSet(DOMAIN F[j]),
         NEW i \in DOMAIN F, NEW G, DOMAIN G = DOMAIN F, IsFiniteSet(DOMAIN G[i]),
         \A j \in DOMAIN F : j # i => G[j] = F[j], NEW o
  PROVE  /\ Cardinality(Places(F, o)) \in Nat
         /\ Occurrences(F[i], o) \in Nat /\ Occurrences(G[i], o) \in Nat
         /\ Occurrences(F[i], o) <= Cardinality(Places(F, o))
         /\ Cardinality(Places(G, o)) =
              Cardinality(Places(F, o)) - Occurrences(F[i], o) + Occurrences(G[i], o)
<1> DEFINE In(s) == {k \in DOMAIN s : s[k] = o}
           R == UNION {{j} \X In(F[j]) : j \in DOMAIN F \ {i}}
<1>1. ASSUME NEW j \in DOMAIN F
      PROVE  IsFiniteSet(In(F[j])) /\ IsFiniteSet({j} \X In(F[j]))
  <2>1. IsFiniteSet(In(F[j]))
    <3> DEFINE s == F[j]
    <3>1. IsFiniteSet(DOMAIN s)
      OBVIOUS
    <3> HIDE DEF s
    <3>2. IsFiniteSet({k \in DOMAIN s : s[k] = o})
      BY <3>1, OccurrencesType
    <3> QED BY <3>2 DEF s
  <2>2. IsFiniteSet({j})
    BY FS_Singleton
  <2> HIDE DEF In
  <2> QED BY <2>1, <2>2, FS_Product
<1>2. IsFiniteSet(R)
  <2> DEFINE D == DOMAIN F \ {i}
             Part(j) == {j} \X In(F[j])
             P == {Part(j) : j \in D}
  <2>1. IsFiniteSet(D)
    BY FS_Difference
  <2>2. IsFiniteSet(P)
    <3> DEFINE f == [j \in D |-> Part(j)]
    <3>1. f \in Surjection(D, P)
      <4> HIDE DEF D, Part
      <4> QED BY DEF Surjection
    <3> HIDE DEF D, P, f
    <3> QED BY <2>1, <3>1, FS_Surjection
  <2>3. \A T \in P : IsFiniteSet(T)
    BY <1>1
  <2> QED BY <2>2, <2>3, FS_UNION
<1>3. ASSUME NEW s, IsFiniteSet(DOMAIN s)
      PROVE  /\ IsFiniteSet(R \cup ({i} \X In(s))) /\ Occurrences(s, o) \in Nat
             /\ Cardinality(R \cup ({i} \X In(s))) = Cardinality(R) + Occurrences(s, o)
  <2>1. IsFiniteSet(In(s)) /\ Cardinality(In(s)) \in Nat /\ Cardinality(In(s)) = Occurrences(s, o)
    BY <1>3, OccurrencesType DEF Occurrences
  <2>2. IsFiniteSet({i}) /\ Cardinality({i}) = 1
    BY FS_Singleton
  <2> DEFINE A == In(s)
             X == {i} \X A
  <2>3. R \cap X = {}
    OBVIOUS
  <2> HIDE DEF R, A
  <2>4. IsFiniteSet(X) /\ Cardinality(X) = Cardinality(A)
    <3>1. IsFiniteSet(X) /\ Cardinality(X) = Cardinality({i}) * Cardinality(A)
      BY <2>1, <2>2, FS_Product DEF A
    <3>2. \A n \in Nat : 1 * n = n
      OBVIOUS
    <3> HIDE DEF X
    <3> QED BY <2>1, <2>2, <3>1, <3>2 DEF A
  <2> HIDE DEF X
  <2>5. Cardinality(R \cap X) = 0
    BY <2>3, FS_EmptySet
  <2>6. Cardinality(R) \in Nat
    BY <1>2, FS_CardinalityType
  <2>7. IsFiniteSet(R \cup X)
        /\ Cardinality(R \cup X) = Cardinality(R) + Cardinality(X) - Cardinality(R \cap X)
    BY <1>2, <2>4, FS_Union
  <2>8. Cardinality(X) = Occurrences(s, o)
    BY <2>1, <2>4 DEF A
  <2>9. Occurrences(s, o) \in Nat
    BY <1>3, OccurrencesType
  <2>10. Cardinality(R \cup X) = Cardinality(R) + Occurrences(s, o)
    BY <2>5, <2>6, <2>7, <2>8, <2>9
  <2> QED BY <2>7, <2>9, <2>10 DEF X, A
<1>4. Places(F, o) = R \cup ({i} \X In(F[i])) /\ Places(G, o) = R \cup ({i} \X In(G[i]))
  BY DEF Places
<1>5. Cardinality(R) \in Nat
  BY <1>2, FS_CardinalityType
<1> HIDE DEF R, In
<1>6. /\ Cardinality(Places(F, o)) = Cardinality(R) + Occurrences(F[i], o) /\ Occurrences(F[i], o) \in Nat
      /\ Cardinality(Places(G, o)) = Cardinality(R) + Occurrences(G[i], o) /\ Occurrences(G[i], o) \in Nat
  BY <1>3, <1>4
<1> QED BY <1>5, <1>6

LEMMA PlacesType ==
  ASSUME NEW F, IsFiniteSet(DOMAIN F), \A j \in DOMAIN F : IsFiniteSet(DOMAIN F[j]), NEW o
  PROVE  /\ Cardinality(Places(F, o)) \in Nat
         /\ \A i \in DOMAIN F :
              Occurrences(F[i], o) \in Nat /\ Occurrences(F[i], o) <= Cardinality(Places(F, o))
<1>1. CASE DOMAIN F = {}
  <2>1. Places(F, o) = {}
    BY <1>1 DEF Places
  <2> QED BY <1>1, <2>1, FS_EmptySet
<1>2. ASSUME NEW i \in DOMAIN F
      PROVE  /\ Cardinality(Places(F, o)) \in Nat
             /\ Occurrences(F[i], o) \in Nat /\ Occurrences(F[i], o) <= Cardinality(Places(F, o))
  BY PlacesChange
<1> QED BY <1>1, <1>2

LEMMA ElemOccurrences ==
  ASSUME NEW s \in Seq(Elem), NEW o
  PROVE  /\ IsFiniteSet(DOMAIN s) /\ Occurrences(s, o) \in Nat
         /\ Occurrences(s, o) > 0 <=> \E k \in DOMAIN s : s[k] = o
<1>1. DOMAIN s = 1..Len(s) /\ Len(s) \in Nat
  OBVIOUS
<1>2. IsFiniteSet(DOMAIN s)
  BY <1>1, FS_Interval
<1> QED BY <1>2, OccurrencesCounts

(* Two sequences that are the same but for the order.                      *)
Rearranged(s, t, w) ==
  /\ \A k \in 1..Len(t) : w[k] \in 1..Len(s) /\ t[k] = s[w[k]]
  /\ \A k, l \in 1..Len(t) : w[k] = w[l] => k = l
  /\ \A k \in 1..Len(s) : \E l \in 1..Len(t) : w[l] = k

LEMMA OccurrencesMoved ==
  ASSUME NEW s \in Seq(Elem), NEW t \in Seq(Elem), NEW w, Rearranged(s, t, w), NEW o
  PROVE  Occurrences(t, o) = Occurrences(s, o)
<1> DEFINE V == {k \in DOMAIN t : t[k] = o}
           W == {k \in DOMAIN s : s[k] = o}
           up == [k \in V |-> w[k]]
<1>0. DOMAIN t = 1..Len(t) /\ DOMAIN s = 1..Len(s)
  OBVIOUS
<1>1. IsFiniteSet(V)
  BY ElemOccurrences, FS_Subset
<1>2. \A k \in V : w[k] \in W
  BY <1>0 DEF Rearranged
<1>5. \A k, l \in V : w[k] = w[l] => k = l
  BY <1>0 DEF Rearranged
<1>6. \A k \in W : \E l \in V : w[l] = k
  BY <1>0 DEF Rearranged
<1> HIDE DEF V, W
<1>7. up \in [V -> W] /\ (\A k, l \in V : up[k] = up[l] => k = l)
      /\ (\A k \in W : \E l \in V : up[l] = k)
  BY <1>2, <1>5, <1>6
<1> HIDE DEF up
<1>3. up \in Injection(V, W) /\ up \in Surjection(V, W)
  BY <1>7 DEF Injection, IsInjective, Surjection
<1>4. Cardinality(W) = Cardinality(V)
  <2>1. ExistsBijection(V, W)
    BY <1>3 DEF ExistsBijection, Bijection
  <2> QED BY <1>1, <2>1, FS_Bijection
<1> QED BY <1>4 DEF Occurrences, V, W

LEMMA OccurrencesJoined ==
  ASSUME NEW p \in Seq(Elem), NEW q \in Seq(Elem), NEW o
  PROVE  Occurrences(p \o q, o) = Occurrences(p, o) + Occurrences(q, o)
<1> DEFINE t == p \o q
           P == {k \in DOMAIN p : p[k] = o}
           Q == {k \in DOMAIN q : q[k] = o}
           V == {k \in DOMAIN t : t[k] = o}
           R == {k \in DOMAIN t : k > Len(p) /\ t[k] = o}
           n == Len(p)
<1>1. /\ DOMAIN p = 1..n /\ DOMAIN q = 1..Len(q) /\ DOMAIN t = 1..(n + Len(q))
      /\ n \in Nat /\ Len(q) \in Nat
      /\ \A k \in 1..(n + Len(q)) : (k <= n => t[k] = p[k]) /\ (k > n => t[k] = q[k - n])
  BY Appended
<1>2. IsFiniteSet(P) /\ IsFiniteSet(Q)
  BY ElemOccurrences, FS_Subset
<1> HIDE DEF t, n
<1>3. V = P \cup R /\ P \cap R = {}
  BY <1>1 DEF n
<1> DEFINE up == [k \in Q |-> n + k]
<1>4. \A k \in Q : n + k \in R
  BY <1>1 DEF n
<1>5. \A k \in R : k - n \in Q /\ n + (k - n) = k
  BY <1>1 DEF n
<1>6. \A k \in Q : k \in Int
  BY <1>1
<1> HIDE DEF P, Q, V, R
<1>7. up \in [Q -> R] /\ (\A k, l \in Q : up[k] = up[l] => k = l)
      /\ (\A k \in R : \E l \in Q : up[l] = k)
  BY <1>1, <1>4, <1>5, <1>6
<1> HIDE DEF up
<1>8. up \in Injection(Q, R) /\ up \in Surjection(Q, R)
  BY <1>7 DEF Injection, IsInjective, Surjection
<1>9. IsFiniteSet(R) /\ Cardinality(R) = Cardinality(Q)
  <2>1. ExistsBijection(Q, R)
    BY <1>8 DEF ExistsBijection, Bijection
  <2> QED BY <1>2, <2>1, FS_Bijection
<1>10. Cardinality(V) = Cardinality(P) + Cardinality(R)
  <2>1. Cardinality(P \cap R) = 0
    BY <1>3, FS_EmptySet
  <2>2. Cardinality(P) \in Nat /\ Cardinality(R) \in Nat
    BY <1>2, <1>9, FS_CardinalityType
  <2>3. Cardinality(P \cup R) = Cardinality(P) + Cardinality(R) - Cardinality(P \cap R)
    BY <1>2, <1>9, FS_Union
  <2> QED BY <1>3, <2>1, <2>2, <2>3
<1> QED BY <1>9, <1>10 DEF Occurrences, P, Q, V, t

(* A sequence in two parts.                                                *)
LEMMA OccurrencesCut ==
  ASSUME NEW s \in Seq(Elem), NEW at \in 0..Len(s), NEW o
  PROVE  /\ SubSeq(s, 1, at) \in Seq(Elem) /\ SubSeq(s, at + 1, Len(s)) \in Seq(Elem)
         /\ s = SubSeq(s, 1, at) \o SubSeq(s, at + 1, Len(s))
         /\ Occurrences(s, o) =
              Occurrences(SubSeq(s, 1, at), o) + Occurrences(SubSeq(s, at + 1, Len(s)), o)
<1> DEFINE p == SubSeq(s, 1, at)
           q == SubSeq(s, at + 1, Len(s))
<1>1. /\ p \in Seq(Elem) /\ Len(p) = at /\ \A k \in 1..at : p[k] = s[k]
      /\ q \in Seq(Elem) /\ Len(q) = Len(s) - at
      /\ \A k \in 1..(Len(s) - at) : q[k] = s[at + k]
  OBVIOUS
<1> HIDE DEF p, q
<1>2. s = p \o q
  <2> DEFINE t == p \o q
  <2>1. /\ t \in Seq(Elem) /\ Len(t) = Len(p) + Len(q)
        /\ \A k \in 1..(Len(p) + Len(q)) : /\ k <= Len(p) => t[k] = p[k]
                                           /\ k > Len(p) => t[k] = q[k - Len(p)]
    BY <1>1, Appended
  <2> HIDE DEF t
  <2>2. Len(t) = Len(s) /\ Len(p) = at
    BY <1>1, <2>1
  <2>3. ASSUME NEW k \in 1..Len(s) PROVE t[k] = s[k]
    <3>1. k \in 1..(Len(p) + Len(q))
      BY <2>1, <2>2
    <3>2. CASE k <= at
      BY <3>1, <3>2, <2>1, <2>2, <1>1
    <3>3. CASE k > at
      <4>1. t[k] = q[k - at] /\ k - at \in 1..(Len(s) - at)
        BY <3>1, <3>3, <2>1, <2>2
      <4>2. q[k - at] = s[at + (k - at)]
        BY <4>1, <1>1
      <4> QED BY <4>1, <4>2
    <3> QED BY <3>2, <3>3
  <2>4. t = s
    BY <2>1, <2>2, <2>3, SeqEqual
  <2> QED BY <2>4 DEF t
<1>3. Occurrences(p \o q, o) = Occurrences(p, o) + Occurrences(q, o)
  BY <1>1, OccurrencesJoined
<1> QED BY <1>1, <1>2, <1>3 DEF p, q

(* The part from an element on starts with the element.                    *)
LEMMA OccurrencesNext ==
  ASSUME NEW s \in Seq(Elem), NEW j \in Nat, j < Len(s), NEW o
  PROVE  /\ SubSeq(s, j + 1, Len(s)) \in Seq(Elem)
         /\ SubSeq(s, j + 2, Len(s)) \in Seq(Elem)
         /\ Occurrences(SubSeq(s, j + 1, Len(s)), o) =
              One(s[j + 1], o) + Occurrences(SubSeq(s, j + 2, Len(s)), o)
<1> DEFINE q == SubSeq(s, j + 1, Len(s))
           r == SubSeq(s, j + 2, Len(s))
           x == s[j + 1]
<1>1. /\ q \in Seq(Elem) /\ r \in Seq(Elem) /\ x \in Elem
      /\ Len(q) = Len(s) - j /\ Len(r) = Len(s) - j - 1
      /\ \A k \in 1..(Len(s) - j) : q[k] = s[j + k]
      /\ \A k \in 1..(Len(s) - j - 1) : r[k] = s[j + 1 + k]
  OBVIOUS
<1> HIDE DEF q, r
<1>2. q[1] = x
  BY <1>1
<1> HIDE DEF x
<1>3. <<x>> \in Seq(Elem) /\ Len(<<x>>) = 1 /\ <<x>>[1] = x
  BY <1>1
<1>4. q = <<x>> \o r
  <2> DEFINE t == <<x>> \o r
  <2>1. /\ t \in Seq(Elem) /\ Len(t) = 1 + Len(r)
        /\ \A k \in 1..(1 + Len(r)) : /\ k <= 1 => t[k] = <<x>>[k]
                                      /\ k > 1 => t[k] = r[k - 1]
    BY <1>1, <1>3, Appended
  <2> HIDE DEF t
  <2>2. Len(t) = Len(q)
    BY <1>1, <2>1
  <2>3. ASSUME NEW k \in 1..Len(q) PROVE t[k] = q[k]
    <3>1. k \in 1..(1 + Len(r)) /\ k \in 1..(Len(s) - j)
      BY <2>1, <2>2, <1>1
    <3>2. CASE k = 1
      BY <3>1, <3>2, <2>1, <1>2, <1>3
    <3>3. CASE k > 1
      <4>1. t[k] = r[k - 1] /\ k - 1 \in 1..(Len(s) - j - 1)
        BY <3>1, <3>3, <2>1
      <4>2. r[k - 1] = s[j + 1 + (k - 1)] /\ q[k] = s[j + k] /\ j + 1 + (k - 1) = j + k
        BY <3>1, <4>1, <1>1
      <4> QED BY <4>1, <4>2
    <3> QED BY <3>1, <3>2, <3>3
  <2>4. t = q
    BY <1>1, <2>1, <2>2, <2>3, SeqEqual
  <2> QED BY <2>4 DEF t
<1>5. Occurrences(<<x>> \o r, o) = Occurrences(<<x>>, o) + Occurrences(r, o)
  BY <1>1, <1>3, OccurrencesJoined
<1>6. Occurrences(<<x>>, o) = One(x, o)
  BY OccurrencesSingle
<1> QED BY <1>1, <1>4, <1>5, <1>6 DEF q, r, x

LEMMA OccurrencesSpliced ==
  ASSUME NEW s \in Seq(Elem), NEW at \in 0..Len(s), NEW new \in Seq(Elem), NEW o
  PROVE  Occurrences(Spliced(s, at, new), o) = Occurrences(s, o) + Occurrences(new, o)
<1> DEFINE p == SubSeq(s, 1, at)
           q == SubSeq(s, at + 1, Len(s))
<1>1. p \in Seq(Elem) /\ q \in Seq(Elem) /\ Occurrences(s, o) = Occurrences(p, o) + Occurrences(q, o)
  BY OccurrencesCut
<1>2. Spliced(s, at, new) = (p \o new) \o q
  <2>1. Spliced(s, at, new) = p \o new \o q
    BY DEF Spliced
  <2> QED BY <2>1
<1> HIDE DEF p, q
<1>3. p \o new \in Seq(Elem)
  BY <1>1
<1>4. Occurrences(p \o new, o) = Occurrences(p, o) + Occurrences(new, o)
  BY <1>1, OccurrencesJoined
<1> DEFINE r == p \o new
<1>6. Occurrences(r \o q, o) = Occurrences(r, o) + Occurrences(q, o)
  <2> HIDE DEF r
  <2>1. r \in Seq(Elem)
    BY <1>3 DEF r
  <2> QED BY <2>1, <1>1, OccurrencesJoined
<1>5. Occurrences(p, o) \in Nat /\ Occurrences(q, o) \in Nat /\ Occurrences(new, o) \in Nat
  BY <1>1, ElemOccurrences
<1> QED BY <1>1, <1>2, <1>4, <1>5, <1>6

LEMMA OccurrencesReversed ==
  ASSUME NEW s \in Seq(Elem), NEW t \in Seq(Elem), Len(t) = Len(s),
         \A k \in 1..Len(s) : t[k] = s[Len(s) - k + 1], NEW o
  PROVE  Occurrences(t, o) = Occurrences(s, o)
<1> DEFINE w == [k \in 1..Len(s) |-> Len(s) - k + 1]
<1>1. Len(s) \in Nat /\ \A k \in 1..Len(s) : Len(s) - k + 1 \in 1..Len(s)
  OBVIOUS
<1>2. \A k \in 1..Len(t) : w[k] \in 1..Len(s) /\ t[k] = s[w[k]]
  BY <1>1
<1>3. \A k, l \in 1..Len(t) : w[k] = w[l] => k = l
  BY <1>1
<1>4. ASSUME NEW k \in 1..Len(s) PROVE \E l \in 1..Len(t) : w[l] = k
  <2>1. Len(s) - k + 1 \in 1..Len(t) /\ w[Len(s) - k + 1] = k
    BY <1>1
  <2> QED BY <2>1
<1> HIDE DEF w
<1>5. Rearranged(s, t, w)
  BY <1>2, <1>3, <1>4 DEF Rearranged
<1> QED BY <1>5, OccurrencesMoved

(* Two elements change places.                                             *)
LEMMA OccurrencesSwapped ==
  ASSUME NEW s \in Seq(Elem), NEW p \in 1..Len(s), NEW q \in 1..Len(s), NEW t \in Seq(Elem),
         Len(t) = Len(s), t[p] = s[q], t[q] = s[p],
         \A k \in 1..Len(s) : k # p /\ k # q => t[k] = s[k], NEW o \in Elem
  PROVE  Occurrences(t, o) = Occurrences(s, o)
<1>1. /\ 0 \in Nat /\ Len(s) \in 0..Len(s) /\ p \in (0 + 1)..Len(s) /\ q \in (0 + 1)..Len(s)
      /\ \A k \in (0 + 1)..Len(s) : k # p /\ k # q => t[k] = s[k]
  OBVIOUS
<1>2. Bag(t, 0, Len(s)) = Bag(s, 0, Len(s))
  BY <1>1, SwapBag
<1>3. SubSeq(t, 0 + 1, Len(s)) = t /\ SubSeq(s, 0 + 1, Len(s)) = s
  OBVIOUS
<1>4. /\ Bag(t, 0, Len(s))[o] = Occurrences(SubSeq(t, 0 + 1, Len(s)), o)
      /\ Bag(s, 0, Len(s))[o] = Occurrences(SubSeq(s, 0 + 1, Len(s)), o)
  BY DEF Bag
<1> QED BY <1>2, <1>3, <1>4

LEMMA OccurrencesStored ==
  ASSUME NEW s \in Seq(Elem), NEW k \in 1..Len(s), NEW x \in Elem, NEW o
  PROVE  /\ [s EXCEPT ![k] = x] \in Seq(Elem)
         /\ Occurrences([s EXCEPT ![k] = x], o) = Occurrences(s, o) - One(s[k], o) + One(x, o)
<1> DEFINE t == [s EXCEPT ![k] = x]
<1>1. /\ t \in Seq(Elem) /\ DOMAIN t = DOMAIN s /\ k \in DOMAIN s /\ t[k] = x
      /\ \A l \in DOMAIN s : l # k => t[l] = s[l]
  OBVIOUS
<1>2. IsFiniteSet(DOMAIN s)
  BY ElemOccurrences
<1> HIDE DEF t
<1>3. Occurrences(t, o) = Occurrences(s, o) - One(s[k], o) + One(t[k], o)
  BY <1>1, <1>2, OccurrencesChange
<1> QED BY <1>1, <1>3 DEF t

(* Objects of handles that are null, and of no elements.                   *)
LEMMA OccurrencesNull ==
  ASSUME NEW n \in Nat, NEW o \in Object
  PROVE  Occurrences([k \in 1..n |-> Null], o) = 0
<1>1. {k \in DOMAIN [l \in 1..n |-> Null] : [l \in 1..n |-> Null][k] = o} = {}
  BY SetsAssumption
<1> QED BY <1>1, FS_EmptySet DEF Occurrences

-----------------------------------------------------------------------------
(* Balances.                                                               *)

LEMMA BalancePlaces ==
  ASSUME NEW c \in [Array -> Seq(Elem)], NEW o
  PROVE  /\ Cardinality(Places(c, o)) \in Nat
         /\ \A a \in Array : Occurrences(c[a], o) \in Nat
                             /\ Occurrences(c[a], o) <= Cardinality(Places(c, o))
<1>1. IsFiniteSet(DOMAIN c) /\ DOMAIN c = Array
  BY SetsAssumption
<1>2. \A j \in DOMAIN c : IsFiniteSet(DOMAIN c[j])
  BY ElemOccurrences
<1> QED BY <1>1, <1>2, PlacesType

(* What is referred to is alive.                                           *)
LEMMA Alive ==
  ASSUME NEW c \in [Array -> Seq(Elem)], NEW r \in [Object -> Int], NEW h, Balanced(c, r, h),
         NEW o \in Object
  PROVE  /\ r[o] \in Nat
         /\ \A a \in Array :
              /\ Occurrences(c[a], o) \in Nat /\ Occurrences(c[a], o) <= r[o]
              /\ (\E k \in DOMAIN c[a] : c[a][k] = o) => r[o] > 0
         /\ o \in h => r[o] > 0
<1>1. r[o] = Cardinality(Places(c, o)) + Has(h, o) /\ Has(h, o) \in Nat /\ r[o] \in Int
  BY DEF Balanced, Has
<1>2. /\ Cardinality(Places(c, o)) \in Nat
      /\ \A a \in Array : Occurrences(c[a], o) \in Nat
                          /\ Occurrences(c[a], o) <= Cardinality(Places(c, o))
  BY BalancePlaces
<1>3. ASSUME NEW a \in Array
      PROVE  /\ Occurrences(c[a], o) \in Nat /\ Occurrences(c[a], o) <= r[o]
             /\ (\E k \in DOMAIN c[a] : c[a][k] = o) => r[o] > 0
  <2>1. Occurrences(c[a], o) \in Nat /\ Occurrences(c[a], o) <= r[o]
    BY <1>1, <1>2
  <2>2. Occurrences(c[a], o) > 0 <=> \E k \in DOMAIN c[a] : c[a][k] = o
    BY ElemOccurrences
  <2> QED BY <2>1, <2>2, <1>1
<1>4. o \in h => r[o] > 0
  BY <1>1, <1>2 DEF Has
<1>5. r[o] \in Nat
  BY <1>1, <1>2
<1> QED BY <1>3, <1>4, <1>5

(* Families of which one sequence differs.                                 *)
Listed(F) == IsFiniteSet(DOMAIN F) /\ \A j \in DOMAIN F : IsFiniteSet(DOMAIN F[j])

Differ(F, G, i) ==
  /\ i \in DOMAIN F /\ DOMAIN G = DOMAIN F /\ IsFiniteSet(DOMAIN G[i])
  /\ \A j \in DOMAIN F : j # i => G[j] = F[j]

LEMMA PlacesChanged ==
  ASSUME NEW F, NEW G, NEW i, Listed(F), Differ(F, G, i), NEW o
  PROVE  /\ Cardinality(Places(F, o)) \in Nat
         /\ Occurrences(F[i], o) \in Nat /\ Occurrences(G[i], o) \in Nat
         /\ Occurrences(F[i], o) <= Cardinality(Places(F, o))
         /\ Cardinality(Places(G, o)) =
              Cardinality(Places(F, o)) - Occurrences(F[i], o) + Occurrences(G[i], o)
BY PlacesChange DEF Listed, Differ

(* A count changes as the contents of one array and the handles do.        *)
Follows(c, d, a, r, u, h, g) ==
  /\ c \in [Array -> Seq(Elem)] /\ d \in [Array -> Seq(Elem)]
  /\ \A x \in Array : x # a => d[x] = c[x]
  /\ \A o \in Object :
       u[o] - r[o] = Occurrences(d[a], o) - Occurrences(c[a], o) + Has(g, o) - Has(h, o)

LEMMA Rebalances ==
  ASSUME NEW a \in Array, NEW r \in [Object -> Int], NEW u \in [Object -> Int], NEW h, NEW g,
         NEW c, NEW d, Balanced(c, r, h), Follows(c, d, a, r, u, h, g)
  PROVE  Balanced(d, u, g) /\ u \in [Object -> Nat]
<1>2. /\ c \in [Array -> Seq(Elem)] /\ d \in [Array -> Seq(Elem)]
      /\ \A x \in Array : x # a => d[x] = c[x]
  BY DEF Follows
<1>1. ASSUME NEW o \in Object
      PROVE  u[o] = Cardinality(Places(d, o)) + Has(g, o) /\ u[o] \in Nat
  <2>1. IsFiniteSet(DOMAIN c) /\ DOMAIN c = Array /\ DOMAIN d = Array
    BY <1>2, SetsAssumption
  <2>2. IsFiniteSet(DOMAIN d[a]) /\ \A j \in DOMAIN c : IsFiniteSet(DOMAIN c[j])
    BY <1>2, ElemOccurrences
  <2>3. /\ Cardinality(Places(c, o)) \in Nat
        /\ Occurrences(c[a], o) \in Nat /\ Occurrences(d[a], o) \in Nat
        /\ Occurrences(c[a], o) <= Cardinality(Places(c, o))
        /\ Cardinality(Places(d, o)) =
             Cardinality(Places(c, o)) - Occurrences(c[a], o) + Occurrences(d[a], o)
    <3>1. Listed(c) /\ Differ(c, d, a)
      BY <1>2, <2>1, <2>2 DEF Listed, Differ
    <3> QED BY <3>1, PlacesChanged
  <2>4. r[o] = Cardinality(Places(c, o)) + Has(h, o)
    BY DEF Balanced
  <2>5. Has(g, o) \in Nat /\ Has(h, o) \in Nat /\ u[o] \in Int
    BY DEF Has
  <2>6. u[o] - r[o] = Occurrences(d[a], o) - Occurrences(c[a], o) + Has(g, o) - Has(h, o)
    BY DEF Follows
  <2>7. r[o] \in Int
    OBVIOUS
  <2>8. ASSUME NEW x, x = u[o], NEW y, y = r[o], NEW p, p = Cardinality(Places(c, o)),
               NEW q, q = Cardinality(Places(d, o)), NEW m, m = Occurrences(c[a], o),
               NEW n, n = Occurrences(d[a], o), NEW v, v = Has(g, o), NEW w, w = Has(h, o)
        PROVE  x = q + v /\ x \in Nat
    <3>1. /\ p \in Nat /\ m \in Nat /\ n \in Nat /\ m <= p /\ q = p - m + n
          /\ y = p + w /\ v \in Nat /\ w \in Nat /\ x \in Int /\ x - y = n - m + v - w
      BY <2>3, <2>4, <2>5, <2>6, <2>8
    <3> QED BY <3>1
  <2> QED BY <2>8
<1> QED BY <1>1 DEF Balanced

-----------------------------------------------------------------------------
(* Contents, from the walks that are over an array.                        *)

Holds(f, a) == f.op \in {"sort", "destruct"} /\ f.arr = a

Shown(f, s) ==
  IF f.op = "sort" THEN [s EXCEPT ![f.j + 2] = f.tmp]
  ELSE SubSeq(s, 1, f.from) \o SubSeq(s, f.j + 1, Len(s))

Plain(b, a) == IF b[a] = NoBuffer THEN <<>> ELSE b[a]

(* At most one sort or destruction is over an array.                       *)
LEMMA HoldsOnce ==
  ASSUME NEW st \in Seq(Frames), NEW b, Walking(st, b), NEW a,
         NEW k \in DOMAIN st, NEW l \in DOMAIN st, Holds(st[k], a), Holds(st[l], a)
  PROVE  k = l
<1>1. ASSUME NEW p \in DOMAIN st, NEW q \in DOMAIN st, p < q PROVE ~(Holds(st[p], a) /\ Holds(st[q], a))
  <2>1. Apart(st[p], st[q])
    BY <1>1 DEF Walking
  <2> QED BY <2>1 DEF Apart, Holds, Writes
<1>2. DOMAIN st = 1..Len(st) /\ Len(st) \in Nat
  OBVIOUS
<1>3. ~(k < l) /\ ~(l < k)
  BY <1>1
<1> QED BY <1>2, <1>3

LEMMA ContentPlain ==
  ASSUME NEW st, NEW b, NEW a, \A k \in DOMAIN st : ~Holds(st[k], a)
  PROVE  Content(st, b, a) = Plain(b, a)
<1>1. /\ {k \in DOMAIN st : st[k].op = "sort" /\ st[k].arr = a} = {}
      /\ {k \in DOMAIN st : st[k].op = "destruct" /\ st[k].arr = a} = {}
  BY DEF Holds
<1> QED BY <1>1 DEF Content, Plain

LEMMA ContentShown ==
  ASSUME NEW st \in Seq(Frames), NEW b, Walking(st, b), NEW a, b[a] # NoBuffer,
         NEW k \in DOMAIN st, Holds(st[k], a)
  PROVE  Content(st, b, a) = Shown(st[k], b[a])
<1> DEFINE sorts == {l \in DOMAIN st : st[l].op = "sort" /\ st[l].arr = a}
           dies  == {l \in DOMAIN st : st[l].op = "destruct" /\ st[l].arr = a}
<1>1. \A l \in sorts \cup dies : l = k
  <2>1. \A l \in sorts \cup dies : l \in DOMAIN st /\ Holds(st[l], a)
    BY DEF Holds
  <2> QED BY <2>1, HoldsOnce
<1>2. CASE st[k].op = "sort"
  <2>1. sorts = {k} /\ st[k].arr = a
    BY <1>1, <1>2 DEF Holds
  <2>2. (CHOOSE l \in sorts : TRUE) = k
    BY <2>1
  <2> QED BY <2>1, <2>2, <1>2 DEF Content, Shown
<1>3. CASE st[k].op = "destruct"
  <2>1. sorts = {} /\ dies = {k}
    BY <1>1, <1>3 DEF Holds
  <2>2. (CHOOSE l \in dies : TRUE) = k
    BY <2>1
  <2> QED BY <2>1, <2>2, <1>3 DEF Content, Shown
<1> QED BY <1>2, <1>3 DEF Holds

(* Contents are sequences of elements.                                     *)
LEMMA ShownTypes ==
  ASSUME NEW f \in Frames, NEW s \in Seq(Elem), f.op = "destruct" => f.to <= Len(s),
         f.op \in {"sort", "destruct"}
  PROVE  Shown(f, s) \in Seq(Elem)
<1>1. f.tmp \in Elem /\ f.from \in Nat /\ f.to \in Nat /\ f.j \in Nat /\ Len(s) \in Nat
      /\ (f.op = "destruct" => f.from <= f.to)
  BY FrameTypes
<1>2. CASE f.op = "sort"
  <2>1. f.j + 2 \in Int
    BY <1>1
  <2> DEFINE t == [s EXCEPT ![f.j + 2] = f.tmp]
  <2>2. Len(s) \in Nat /\ DOMAIN s = 1..Len(s) /\ \A k \in 1..Len(s) : s[k] \in Elem
    OBVIOUS
  <2>3. t \in [1..Len(s) -> Elem]
    BY <1>1, <2>1, <2>2
  <2> HIDE DEF t
  <2>4. t \in Seq(Elem)
    BY <2>2, <2>3
  <2> QED BY <2>4, <1>2 DEF Shown, t
<1>3. CASE f.op = "destruct"
  <2>1. f.from \in 0..Len(s)
    BY <1>1, <1>3
  <2>2. SubSeq(s, 1, f.from) \in Seq(Elem)
    BY <2>1
  <2>3. SubSeq(s, f.j + 1, Len(s)) \in Seq(Elem)
    BY <1>1
  <2>4. \A p, q \in Seq(Elem) : p \o q \in Seq(Elem)
    OBVIOUS
  <2> QED BY <2>2, <2>3, <2>4, <1>3 DEF Shown
<1> QED BY <1>2, <1>3

LEMMA ContentTypes ==
  ASSUME NEW st \in Seq(Frames), NEW b \in [Array -> Seq(Elem) \cup {NoBuffer}], Walking(st, b),
         NEW a \in Array
  PROVE  Content(st, b, a) \in Seq(Elem)
<1>1. b[a] = NoBuffer \/ b[a] \in Seq(Elem)
  OBVIOUS
<1>2. CASE b[a] = NoBuffer
  BY <1>2 DEF Content
<1>3. CASE b[a] \in Seq(Elem) /\ b[a] # NoBuffer
  <2>1. CASE \A k \in DOMAIN st : ~Holds(st[k], a)
    BY <2>1, <1>3, ContentPlain DEF Plain
  <2>2. ASSUME NEW k \in DOMAIN st, Holds(st[k], a) PROVE Content(st, b, a) \in Seq(Elem)
    <3>1. Content(st, b, a) = Shown(st[k], b[a])
      BY <2>2, <1>3, ContentShown
    <3>2. st[k] \in Frames /\ st[k].op \in {"sort", "destruct"} /\ st[k].arr = a
      BY <2>2 DEF Holds
    <3>3. Steady(st[k], b)
      BY DEF Walking
    <3>4. st[k].op = "destruct" => st[k].to <= Len(b[a])
      BY <3>2, <3>3 DEF Steady
    <3> QED BY <3>1, <3>2, <3>4, <1>3, ShownTypes
  <2> QED BY <2>1, <2>2
<1> QED BY <1>1, <1>2, <1>3

LEMMA AllTypes ==
  ASSUME NEW st \in Seq(Frames), NEW b \in [Array -> Seq(Elem) \cup {NoBuffer}], Walking(st, b)
  PROVE  All(st, b) \in [Array -> Seq(Elem)]
BY ContentTypes DEF All

-----------------------------------------------------------------------------
(* One walk on top of others.                                              *)

Pushed(g, T) == <<g>> \o T

(* A sequence of walks by its first and the others.                        *)
Stacked(P, g, T) ==
  /\ P \in Seq(Frames) /\ Len(P) = Len(T) + 1 /\ DOMAIN P \subseteq Int
  /\ 1 \in DOMAIN P /\ P[1] = g
  /\ \A k \in DOMAIN T : k + 1 \in DOMAIN P /\ P[k + 1] = T[k] /\ k \in Int /\ k > 0
  /\ \A k \in DOMAIN P : k = 1 \/ (k > 1 /\ k - 1 \in DOMAIN T /\ P[k] = T[k - 1])

LEMMA PushedParts ==
  ASSUME NEW g \in Frames, NEW T \in Seq(Frames)
  PROVE  Stacked(Pushed(g, T), g, T)
<1> DEFINE P == Pushed(g, T)
<1>1. P \in Seq(Frames) /\ Len(P) = Len(T) + 1 /\ P[1] = g
      /\ \A k \in 2..(Len(T) + 1) : P[k] = T[k - 1]
  BY DEF Pushed
<1>2. DOMAIN P = 1..(Len(T) + 1) /\ DOMAIN T = 1..Len(T) /\ Len(T) \in Nat
  BY <1>1
<1> HIDE DEF P
<1>3. \A k \in DOMAIN T : k + 1 \in DOMAIN P /\ P[k + 1] = T[k] /\ k \in Int /\ k > 0
  BY <1>1, <1>2
<1>4. \A k \in DOMAIN P : k = 1 \/ (k > 1 /\ k - 1 \in DOMAIN T /\ P[k] = T[k - 1])
  BY <1>1, <1>2
<1>5. 1 \in DOMAIN P /\ DOMAIN P \subseteq Int
  BY <1>2
<1> QED BY <1>1, <1>3, <1>4, <1>5 DEF Stacked, P

LEMMA WalkingPush ==
  ASSUME NEW g \in Frames, NEW T \in Seq(Frames), NEW b,
         Walking(T, b), Steady(g, b), \A k \in DOMAIN T : Apart(g, T[k])
  PROVE  Walking(Pushed(g, T), b)
<1> DEFINE P == Pushed(g, T)
<1>0. Stacked(P, g, T)
  BY PushedParts
<1> HIDE DEF P
<1>1. /\ P \in Seq(Frames) /\ P[1] = g /\ 1 \in DOMAIN P /\ DOMAIN P \subseteq Int
      /\ \A k \in DOMAIN T : k + 1 \in DOMAIN P /\ P[k + 1] = T[k] /\ k \in Int /\ k > 0
      /\ \A k \in DOMAIN P : k = 1 \/ (k > 1 /\ k - 1 \in DOMAIN T /\ P[k] = T[k - 1])
  BY <1>0 DEF Stacked
<1>2. \A k \in DOMAIN P : Steady(P[k], b)
  BY <1>1 DEF Walking
<1>3. ASSUME NEW k \in DOMAIN P, NEW l \in DOMAIN P, k < l PROVE Apart(P[k], P[l])
  <2>1. l # 1 /\ l > 1 /\ l - 1 \in DOMAIN T /\ P[l] = T[l - 1]
    BY <1>1, <1>3
  <2>2. CASE k = 1
    BY <2>1, <2>2, <1>1
  <2>3. CASE k > 1 /\ k - 1 \in DOMAIN T /\ P[k] = T[k - 1]
    <3>1. k - 1 < l - 1
      BY <1>1, <1>3
    <3> QED BY <3>1, <2>1, <2>3 DEF Walking
  <2> QED BY <2>2, <2>3, <1>1
<1> QED BY <1>2, <1>3 DEF Walking, P

LEMMA WalkingPop ==
  ASSUME NEW g \in Frames, NEW T \in Seq(Frames), NEW b, Walking(Pushed(g, T), b)
  PROVE  Walking(T, b) /\ Steady(g, b) /\ \A k \in DOMAIN T : Apart(g, T[k])
<1> DEFINE P == Pushed(g, T)
<1>0. Stacked(P, g, T)
  BY PushedParts
<1> HIDE DEF P
<1>1. /\ P \in Seq(Frames) /\ P[1] = g /\ 1 \in DOMAIN P /\ DOMAIN P \subseteq Int
      /\ \A k \in DOMAIN T : k + 1 \in DOMAIN P /\ P[k + 1] = T[k] /\ k \in Int /\ k > 0
      /\ \A k \in DOMAIN P : k = 1 \/ (k > 1 /\ k - 1 \in DOMAIN T /\ P[k] = T[k - 1])
  BY <1>0 DEF Stacked
<1>2. Steady(g, b) /\ \A k \in DOMAIN T : Steady(T[k], b)
  BY <1>1 DEF Walking, P
<1>3. ASSUME NEW k \in DOMAIN T PROVE Apart(g, T[k])
  <2>1. 1 < k + 1
    BY <1>1
  <2>2. Apart(P[1], P[k + 1])
    BY <2>1, <1>1 DEF Walking, P
  <2> QED BY <2>2, <1>1
<1>4. ASSUME NEW k \in DOMAIN T, NEW l \in DOMAIN T, k < l PROVE Apart(T[k], T[l])
  <2>1. k + 1 < l + 1
    BY <1>1, <1>4
  <2>2. Apart(P[k + 1], P[l + 1])
    BY <2>1, <1>1 DEF Walking, P
  <2> QED BY <2>2, <1>1
<1> QED BY <1>2, <1>3, <1>4 DEF Walking

(* Walks rely on their own arrays only, and a copy that waits on neither.  *)
LEMMA WalkingElsewhere ==
  ASSUME NEW T \in Seq(Frames), NEW b, NEW c, Walking(T, b),
         \A k \in DOMAIN T :
           \/ T[k].op = "copy" /\ T[k].how = "waiting"
           \/ c[T[k].arr] = b[T[k].arr] /\ c[T[k].other] = b[T[k].other]
  PROVE  Walking(T, c)
<1>1. ASSUME NEW k \in DOMAIN T PROVE Steady(T[k], c)
  <2>1. Steady(T[k], b)
    BY DEF Walking
  <2>2. CASE T[k].op = "copy" /\ T[k].how = "waiting"
    BY <2>1, <2>2 DEF Steady
  <2>3. CASE c[T[k].arr] = b[T[k].arr] /\ c[T[k].other] = b[T[k].other]
    BY <2>1, <2>3 DEF Steady
  <2> QED BY <2>2, <2>3
<1> QED BY <1>1 DEF Walking

LEMMA ContentElsewhere ==
  ASSUME NEW T \in Seq(Frames), NEW b, NEW c, Walking(T, b), Walking(T, c), NEW a, c[a] = b[a]
  PROVE  Content(T, c, a) = Content(T, b, a)
<1>1. CASE b[a] = NoBuffer
  BY <1>1 DEF Content
<1>2. CASE b[a] # NoBuffer
  <2>1. CASE \A k \in DOMAIN T : ~Holds(T[k], a)
    BY <2>1, ContentPlain DEF Plain
  <2>2. ASSUME NEW k \in DOMAIN T, Holds(T[k], a) PROVE Content(T, c, a) = Content(T, b, a)
    <3>1. Content(T, b, a) = Shown(T[k], b[a]) /\ Content(T, c, a) = Shown(T[k], c[a])
      BY <2>2, <1>2, ContentShown
    <3> QED BY <3>1
  <2> QED BY <2>1, <2>2
<1> QED BY <1>1, <1>2

LEMMA ContentPushed ==
  ASSUME NEW g \in Frames, NEW T \in Seq(Frames), NEW b, Walking(Pushed(g, T), b), NEW a,
         b[a] # NoBuffer
  PROVE  /\ Holds(g, a) => Content(Pushed(g, T), b, a) = Shown(g, b[a])
         /\ ~Holds(g, a) => Content(Pushed(g, T), b, a) = Content(T, b, a)
         /\ Holds(g, a) => Content(T, b, a) = b[a]
<1> DEFINE P == Pushed(g, T)
<1>0. Stacked(P, g, T)
  BY PushedParts
<1>2. Walking(T, b)
  BY WalkingPop
<1>3. Walking(P, b)
  OBVIOUS
<1> HIDE DEF P
<1>1. /\ P \in Seq(Frames) /\ P[1] = g /\ 1 \in DOMAIN P /\ DOMAIN P \subseteq Int
      /\ \A k \in DOMAIN T : k + 1 \in DOMAIN P /\ P[k + 1] = T[k] /\ k \in Int /\ k > 0
      /\ \A k \in DOMAIN P : k = 1 \/ (k > 1 /\ k - 1 \in DOMAIN T /\ P[k] = T[k - 1])
  BY <1>0 DEF Stacked
<1>4. ASSUME Holds(g, a)
      PROVE  Content(P, b, a) = Shown(g, b[a]) /\ Content(T, b, a) = b[a]
  <2>1. Content(P, b, a) = Shown(P[1], b[a])
    BY <1>1, <1>3, <1>4, ContentShown
  <2>2. ASSUME NEW k \in DOMAIN T PROVE ~Holds(T[k], a)
    <3>1. Holds(P[k + 1], a) => k + 1 = 1
      BY <1>1, <1>3, <1>4, HoldsOnce
    <3> QED BY <3>1, <1>1
  <2>3. Content(T, b, a) = Plain(b, a)
    BY <2>2, ContentPlain
  <2> QED BY <2>1, <2>3, <1>1 DEF Plain
<1>5. ASSUME ~Holds(g, a) PROVE Content(P, b, a) = Content(T, b, a)
  <2>1. CASE \A k \in DOMAIN T : ~Holds(T[k], a)
    <3>1. \A k \in DOMAIN P : ~Holds(P[k], a)
      BY <2>1, <1>1, <1>5
    <3>2. Content(P, b, a) = Plain(b, a) /\ Content(T, b, a) = Plain(b, a)
      BY <2>1, <3>1, ContentPlain
    <3> QED BY <3>2
  <2>2. ASSUME NEW k \in DOMAIN T, Holds(T[k], a) PROVE Content(P, b, a) = Content(T, b, a)
    <3>1. Content(T, b, a) = Shown(T[k], b[a])
      BY <2>2, <1>2, ContentShown
    <3>2. Content(P, b, a) = Shown(P[k + 1], b[a])
      BY <2>2, <1>1, <1>3, ContentShown
    <3> QED BY <3>1, <3>2, <1>1
  <2> QED BY <2>1, <2>2
<1> QED BY <1>4, <1>5 DEF P

-----------------------------------------------------------------------------
(* Steps by what they do to contents.                                      *)

Buffered(b) == b \in [Array -> Seq(Elem) \cup {NoBuffer}]

(* Counts follow what one array and the handles of scripts gain or lose.   *)
Changing(k, st, b, r, h, tt, c, u, g, a) ==
  /\ \A x \in Array : x # a => Content(tt, c, x) = Content(st, b, x)
  /\ k = "primitive" => u = r
  /\ k # "primitive" => \A o \in Object :
       u[o] - r[o] = Occurrences(Content(tt, c, a), o) - Occurrences(Content(st, b, a), o)
                       + Has(g, o) - Has(h, o)

LEMMA KeepsCareful ==
  ASSUME NEW k, NEW st \in Seq(Frames), NEW b, Buffered(b), NEW r, NEW h,
         Careful(k, st, b, r, h),
         NEW tt \in Seq(Frames), NEW c, Buffered(c), Walking(tt, c),
         NEW u \in [Object -> Int], NEW g \in SUBSET Object, k # "handle" => g = {},
         NEW a \in Array, Changing(k, st, b, r, h, tt, c, u, g, a)
  PROVE  Careful(k, tt, c, u, g)
<1>1. /\ k \in Kinds /\ r \in [Object -> Nat] /\ h \subseteq Object /\ Walking(st, b)
      /\ k # "primitive" => Balanced(All(st, b), r, h)
  BY DEF Careful
<1>2. CASE k = "primitive"
  BY <1>1, <1>2 DEF Careful, Changing
<1>3. CASE k # "primitive"
  <2> DEFINE C == All(st, b)
             D == All(tt, c)
  <2>1. C \in [Array -> Seq(Elem)] /\ D \in [Array -> Seq(Elem)]
    BY <1>1, AllTypes DEF Buffered
  <2>2. \A x \in Array : C[x] = Content(st, b, x) /\ D[x] = Content(tt, c, x)
    BY DEF All
  <2>3. Balanced(C, r, h) /\ r \in [Object -> Int]
    BY <1>1, <1>3
  <2> HIDE DEF C, D
  <2>4. \A x \in Array : x # a => D[x] = C[x]
    BY <2>2 DEF Changing
  <2>5. \A o \in Object :
          u[o] - r[o] = Occurrences(D[a], o) - Occurrences(C[a], o) + Has(g, o) - Has(h, o)
    BY <2>2, <1>3 DEF Changing
  <2>6. Balanced(D, u, g) /\ u \in [Object -> Nat]
    <3>1. Follows(C, D, a, r, u, h, g)
      BY <2>1, <2>4, <2>5 DEF Follows
    <3> QED BY <2>3, <3>1, Rebalances
  <2> QED BY <2>6, <1>1 DEF Careful, D
<1> QED BY <1>2, <1>3

(* Nothing is promised but before the first use of a walked array.         *)
Sane ==
  /\ IInv /\ fault = "none" /\ ~reentered
  /\ Careful(kind, stack, buf, refs, held)

Fine ==
  /\ fault' \in {"none", "wrapped"}
  /\ fault' = "none" => Careful(kind', stack', buf', refs', held')

LEMMA SaneTypes ==
  ASSUME Sane
  PROVE  /\ stack \in Seq(Frames) /\ Buffered(buf) /\ Walking(stack, buf)
         /\ kind \in Kinds /\ refs \in [Object -> Nat] /\ held \subseteq Object
         /\ kind # "handle" => held = {}
         /\ \A k \in DOMAIN stack : /\ stack[k] \in Frames /\ stack[k].arr \in Array /\ stack[k].other \in Array
                                    /\ buf[stack[k].arr] # NoBuffer /\ buf[stack[k].other] # NoBuffer
         /\ \A a \in Array : buf[a] # NoBuffer => buf[a] \in Seq(Elem)
<1>1. stack \in Seq(Frames) /\ Buffered(buf)
  BY DEF Sane, IInv, Types, Buffered
<1>2. /\ Walking(stack, buf) /\ kind \in Kinds /\ refs \in [Object -> Nat] /\ held \subseteq Object
      /\ kind # "handle" => held = {}
  BY DEF Sane, Careful
<1>3. ASSUME NEW k \in DOMAIN stack
      PROVE  stack[k] \in Frames /\ buf[stack[k].arr] # NoBuffer /\ buf[stack[k].other] # NoBuffer
  BY <1>1 DEF Sane, IInv, Buffers
<1>4. \A f \in Frames : f.arr \in Array /\ f.other \in Array
  BY FrameTypes
<1> QED BY <1>1, <1>2, <1>3, <1>4 DEF Buffered

LEMMA MovedNone ==
  ASSUME Sane, NEW a, ~Walked(a)
  PROVE  Moved(a) = stack
<1>1. stack \in Seq(Frames)
  BY SaneTypes
<1>2. ASSUME NEW k \in DOMAIN stack
      PROVE  [stack[k] EXCEPT !.moved = @ \/ a \in {stack[k].arr, stack[k].other}] = stack[k]
  <2>1. stack[k] \in Records /\ stack[k].moved \in BOOLEAN
    BY <1>1, FrameTypes
  <2>2. a \notin {stack[k].arr, stack[k].other}
    BY DEF Walked
  <2>3. (stack[k].moved \/ a \in {stack[k].arr, stack[k].other}) = stack[k].moved
    BY <2>1, <2>2
  <2>4. [stack[k] EXCEPT !.moved = stack[k].moved] = stack[k]
    BY <2>1 DEF Records
  <2> QED BY <2>3, <2>4
<1>3. Moved(a) = [k \in DOMAIN stack |-> stack[k]]
  BY <1>2 DEF Moved
<1>4. stack = [k \in DOMAIN stack |-> stack[k]]
  BY <1>1
<1> QED BY <1>3, <1>4

(* What a call leaves to be done when it returns: a copy, or nothing.      *)
Copies(a, b) == [Frame("copy", a, b, 0, 0) EXCEPT !.how = "waiting"]

Waiting(F, a) ==
  \/ F = <<>>
  \/ \E b \in Array : a # b /\ ~Dying(b) /\ F = <<Copies(a, b)>>

LEMMA CopiesFrame ==
  ASSUME NEW a \in Array, NEW b \in Array
  PROVE  /\ Copies(a, b) \in Frames /\ Copies(a, b).op = "copy" /\ Copies(a, b).how = "waiting"
         /\ Copies(a, b).arr = a /\ Copies(a, b).other = b /\ ~Copies(a, b).moved
<1> DEFINE f == Frame("copy", a, b, 0, 0)
<1>1. [f EXCEPT !.how = "waiting"] \in Frames /\ f \in Records
  BY MadeFrame
<1>2. f.op = "copy" /\ f.arr = a /\ f.other = b /\ f.moved = FALSE
  BY DEF Frame
<1> HIDE DEF f
<1> DEFINE g == [f EXCEPT !.how = "waiting"]
<1>3. g.op = "copy" /\ g.how = "waiting" /\ g.arr = a /\ g.other = b /\ g.moved = FALSE
  BY <1>1, <1>2 DEF Records
<1>4. Copies(a, b) = g /\ g \in Frames
  BY <1>1 DEF Copies, f
<1> HIDE DEF g
<1> QED BY <1>3, <1>4

(* The walks, and what a call leaves: they take any elements of an array   *)
(* that is walked by none of them.                                         *)
Ready(T, a) ==
  /\ T \in Seq(Frames)
  /\ \A c : Buffered(c) /\ (\A x \in Array : x # a => c[x] = buf[x]) =>
       /\ Walking(T, c)
       /\ \A x \in Array : x # a => Content(T, c, x) = Content(stack, buf, x)
       /\ Content(T, c, a) = Plain(c, a)
  /\ \A k \in DOMAIN T :
       \/ a \notin {T[k].arr, T[k].other}
       \/ T[k].op = "copy" /\ T[k].how = "waiting" /\ T[k].arr = a /\ T[k].other # a

LEMMA WaitingReady ==
  ASSUME Sane, NEW a \in Array, ~Walked(a), NEW F, Waiting(F, a)
  PROVE  Ready(F \o stack, a) /\ Content(stack, buf, a) = Plain(buf, a) /\ F \in Seq(Frames)
<1>1. /\ stack \in Seq(Frames) /\ Buffered(buf) /\ Walking(stack, buf)
      /\ \A k \in DOMAIN stack : stack[k].arr \in Array /\ stack[k].other \in Array
  BY SaneTypes
<1>2. \A k \in DOMAIN stack : a \notin {stack[k].arr, stack[k].other} /\ ~Holds(stack[k], a)
  BY DEF Walked, Holds
<1>3. ASSUME NEW c, Buffered(c), \A x \in Array : x # a => c[x] = buf[x]
      PROVE  /\ Walking(stack, c)
             /\ \A x \in Array : x # a => Content(stack, c, x) = Content(stack, buf, x)
             /\ Content(stack, c, a) = Plain(c, a)
  <2>1. \A k \in DOMAIN stack : c[stack[k].arr] = buf[stack[k].arr] /\ c[stack[k].other] = buf[stack[k].other]
    BY <1>1, <1>2, <1>3
  <2>2. Walking(stack, c)
    BY <1>1, <2>1, WalkingElsewhere
  <2>3. \A x \in Array : x # a => Content(stack, c, x) = Content(stack, buf, x)
    BY <1>1, <1>3, <2>2, ContentElsewhere
  <2>4. Content(stack, c, a) = Plain(c, a)
    BY <1>2, ContentPlain
  <2> QED BY <2>2, <2>3, <2>4
<1>4. Content(stack, buf, a) = Plain(buf, a)
  BY <1>2, ContentPlain
<1>5. Ready(stack, a)
  BY <1>1, <1>2, <1>3 DEF Ready
<1>6. CASE F = <<>>
  <2>1. F \o stack = stack /\ F \in Seq(Frames)
    BY <1>1, <1>6
  <2> QED BY <2>1, <1>4, <1>5
<1>7. ASSUME NEW b \in Array, a # b, ~Dying(b), F = <<Copies(a, b)>>
      PROVE  Ready(F \o stack, a) /\ F \in Seq(Frames)
  <2> DEFINE f == Copies(a, b)
             T == Pushed(f, stack)
  <2>1. f \in Frames /\ f.op = "copy" /\ f.how = "waiting" /\ f.arr = a /\ f.other = b /\ ~f.moved
    BY CopiesFrame
  <2> HIDE DEF f
  <2>2. F \o stack = T /\ F \in Seq(Frames)
    BY <1>7, <2>1 DEF f, Pushed
  <2>3. Stacked(T, f, stack)
    BY <1>1, <2>1, PushedParts
  <2> HIDE DEF T
  <2>4. \A k \in DOMAIN stack : Apart(f, stack[k])
    BY <1>2, <1>7, <2>1 DEF Apart, Writes, Dying
  <2>5. \A k \in DOMAIN T : T[k] = f \/ \E l \in DOMAIN stack : T[k] = stack[l]
    BY <2>3 DEF Stacked
  <2>6. \A k \in DOMAIN T : ~Holds(T[k], a)
    BY <2>1, <2>5, <1>2 DEF Holds
  <2>7. ASSUME NEW c, Buffered(c), \A x \in Array : x # a => c[x] = buf[x]
        PROVE  /\ Walking(T, c)
               /\ \A x \in Array : x # a => Content(T, c, x) = Content(stack, buf, x)
               /\ Content(T, c, a) = Plain(c, a)
    <3>1. Walking(stack, c) /\ \A x \in Array : x # a => Content(stack, c, x) = Content(stack, buf, x)
      BY <1>3, <2>7
    <3>2. Steady(f, c)
      BY <2>1 DEF Steady
    <3>3. Walking(T, c)
      BY <1>1, <2>1, <2>4, <3>1, <3>2, WalkingPush DEF T
    <3>4. ASSUME NEW x \in Array, x # a PROVE Content(T, c, x) = Content(stack, buf, x)
      <4>1. CASE c[x] = NoBuffer
        <5>1. Content(T, c, x) = <<>> /\ Content(stack, c, x) = <<>>
          BY <4>1 DEF Content
        <5> QED BY <5>1, <3>1, <3>4
      <4>2. CASE c[x] # NoBuffer
        <5>1. ~Holds(f, x)
          BY <2>1 DEF Holds
        <5>2. Content(T, c, x) = Content(stack, c, x)
          BY <1>1, <2>1, <3>3, <4>2, <5>1, ContentPushed DEF T
        <5> QED BY <5>2, <3>1, <3>4
      <4> QED BY <4>1, <4>2
    <3>5. Content(T, c, a) = Plain(c, a)
      BY <2>6, ContentPlain
    <3> QED BY <3>3, <3>4, <3>5
  <2>8. \A k \in DOMAIN T :
          \/ a \notin {T[k].arr, T[k].other}
          \/ T[k].op = "copy" /\ T[k].how = "waiting" /\ T[k].arr = a /\ T[k].other # a
    BY <2>1, <2>5, <1>2, <1>7
  <2>9. T \in Seq(Frames)
    BY <2>3 DEF Stacked
  <2>10. Ready(T, a)
    BY <2>7, <2>8, <2>9 DEF Ready
  <2> QED BY <2>2, <2>10
<1> QED BY <1>4, <1>6, <1>7 DEF Waiting

-----------------------------------------------------------------------------
(* Calls, and the counts.                                                  *)

(* An object has at least the references of any array.                     *)
LEMMA ContentAlive ==
  ASSUME Sane, kind # "primitive", NEW o \in Object
  PROVE  /\ refs[o] \in Nat
         /\ \A a \in Array :
              /\ Occurrences(Content(stack, buf, a), o) \in Nat
              /\ Occurrences(Content(stack, buf, a), o) <= refs[o]
              /\ (\E k \in DOMAIN Content(stack, buf, a) : Content(stack, buf, a)[k] = o) => refs[o] > 0
         /\ o \in held => refs[o] > 0
<1> DEFINE C == All(stack, buf)
<1>1. /\ C \in [Array -> Seq(Elem)] /\ refs \in [Object -> Int] /\ Balanced(C, refs, held)
      /\ \A a \in Array : C[a] = Content(stack, buf, a)
  <2>1. C \in [Array -> Seq(Elem)] /\ refs \in [Object -> Int]
    BY SaneTypes, AllTypes DEF Buffered
  <2>2. \A a \in Array : C[a] = Content(stack, buf, a)
    BY DEF All
  <2> QED BY <2>1, <2>2 DEF Sane, Careful
<1> HIDE DEF C
<1>2. /\ refs[o] \in Nat
      /\ \A a \in Array :
           /\ Occurrences(C[a], o) \in Nat /\ Occurrences(C[a], o) <= refs[o]
           /\ (\E k \in DOMAIN C[a] : C[a][k] = o) => refs[o] > 0
      /\ o \in held => refs[o] > 0
  BY <1>1, Alive
<1>3. ASSUME NEW a \in Array
      PROVE  /\ Occurrences(Content(stack, buf, a), o) \in Nat
             /\ Occurrences(Content(stack, buf, a), o) <= refs[o]
             /\ (\E k \in DOMAIN Content(stack, buf, a) : Content(stack, buf, a)[k] = o) => refs[o] > 0
  <2>1. C[a] = Content(stack, buf, a)
    BY <1>1
  <2>2. /\ Occurrences(C[a], o) \in Nat /\ Occurrences(C[a], o) <= refs[o]
        /\ (\E k \in DOMAIN C[a] : C[a][k] = o) => refs[o] > 0
    BY <1>2, Zenon
  <2> QED BY <2>1, <2>2, Zenon
<1> QED BY <1>2, <1>3

(* A sort has a second reference to the element that it moves.             *)
LEMMA ElementsAlive ==
  ASSUME Sane, kind # "primitive", NEW b \in Array, buf[b] # NoBuffer, ~Dying(b),
         NEW k \in DOMAIN buf[b], buf[b][k] \in Object
  PROVE  refs[buf[b][k]] > 0
<1> DEFINE s == buf[b]
           C == Content(stack, buf, b)
<1>1. s \in Seq(Elem) /\ stack \in Seq(Frames) /\ Walking(stack, buf)
  BY SaneTypes
<1>2. ASSUME NEW l \in DOMAIN C, C[l] = s[k] PROVE refs[s[k]] > 0
  BY <1>2, ContentAlive
<1>3. CASE \A l \in DOMAIN stack : ~Holds(stack[l], b)
  <2>1. C = s
    BY <1>3, ContentPlain DEF Plain
  <2> HIDE DEF C, s
  <2> QED BY <2>1, <1>2 DEF s
<1>4. ASSUME NEW l \in DOMAIN stack, Holds(stack[l], b) PROVE refs[s[k]] > 0
  <2> DEFINE f == stack[l]
  <2>1. f \in Frames /\ f.op = "sort" /\ f.arr = b
    BY <1>1, <1>4 DEF Holds, Dying
  <2>2. Steady(f, buf)
    BY <1>1 DEF Walking
  <2>3. C = Shown(f, s)
    BY <1>1, <1>4, ContentShown
  <2> HIDE DEF f
  <2>4. C = [s EXCEPT ![f.j + 2] = f.tmp]
    BY <2>1, <2>3 DEF Shown
  <2>5. /\ f.to <= Len(s) /\ (s[f.j + 2] = f.tmp \/ (f.j + 1 < f.i /\ s[f.j + 2] = s[f.j + 3]))
    BY <2>1, <2>2 DEF Steady
  <2>6. f.j \in Nat /\ f.i \in Nat /\ f.to \in Nat /\ f.j < f.i /\ f.i < f.to
    BY <2>1, FrameTypes
  <2> HIDE DEF C, s
  <2>7. DOMAIN C = DOMAIN s /\ DOMAIN s = 1..Len(s) /\ Len(s) \in Nat
    BY <1>1, <2>4
  <2>8. k \in DOMAIN s
    BY DEF s
  <2>9. CASE k # f.j + 2
    <3>1. C[k] = s[k]
      BY <2>4, <2>7, <2>8, <2>9
    <3> QED BY <3>1, <2>7, <2>8, <1>2
  <2>10. CASE k = f.j + 2
    <3>1. C[k] = f.tmp
      BY <2>4, <2>8, <2>10
    <3>2. CASE s[k] = f.tmp
      BY <3>1, <3>2, <2>7, <2>8, <1>2
    <3>3. CASE f.j + 1 < f.i /\ s[k] = s[f.j + 3]
      <4>1. f.j + 3 \in DOMAIN s /\ f.j + 3 # f.j + 2
        BY <3>3, <2>5, <2>6, <2>7
      <4>2. C[f.j + 3] = s[f.j + 3]
        BY <2>4, <4>1
      <4> QED BY <3>3, <4>1, <4>2, <2>7, <1>2
    <3> QED BY <3>2, <3>3, <2>5, <2>10
  <2> QED BY <2>9, <2>10
<1> QED BY <1>3, <1>4 DEF s

(* An array that is not walked gets elements, and counts follow.           *)
LEMMA TakesFine ==
  ASSUME Sane, IInv', fault' = "none", kind' = kind, held' = held,
         NEW a \in Array, NEW T, Ready(T, a), Content(stack, buf, a) = Plain(buf, a),
         stack' = T, NEW e \in Seq(Elem), buf' = [buf EXCEPT ![a] = e],
         refs' \in [Object -> Int], kind = "primitive" => refs' = refs,
         kind # "primitive" => \A o \in Object :
           refs'[o] - refs[o] = Occurrences(e, o) - Occurrences(Plain(buf, a), o)
  PROVE  Fine
<1>1. /\ stack \in Seq(Frames) /\ Buffered(buf) /\ held \in SUBSET Object
      /\ kind # "handle" => held = {}
  BY SaneTypes
<1>2. T \in Seq(Frames) /\ Buffered(buf')
  BY DEF IInv, Types, Buffered, Ready
<1>3. buf'[a] = e /\ \A x \in Array : x # a => buf'[x] = buf[x]
  BY <1>1 DEF Buffered
<1>4. /\ Walking(T, buf')
      /\ \A x \in Array : x # a => Content(T, buf', x) = Content(stack, buf, x)
      /\ Content(T, buf', a) = Plain(buf', a)
  BY <1>2, <1>3 DEF Ready
<1>5. Plain(buf', a) = e
  BY <1>3, BufferTypes DEF Plain
<1>6. ASSUME kind # "primitive", NEW o \in Object
      PROVE  refs'[o] - refs[o] =
               Occurrences(Content(T, buf', a), o) - Occurrences(Content(stack, buf, a), o)
                 + Has(held, o) - Has(held, o)
  <2>1. refs'[o] - refs[o] = Occurrences(e, o) - Occurrences(Plain(buf, a), o)
    BY <1>6
  <2>2. Content(T, buf', a) = e /\ Content(stack, buf, a) = Plain(buf, a)
    BY <1>4, <1>5
  <2>3. Has(held, o) \in Nat
    BY DEF Has
  <2>4. Plain(buf, a) \in Seq(Elem)
    BY SaneTypes DEF Plain
  <2>5. Occurrences(e, o) \in Nat /\ Occurrences(Plain(buf, a), o) \in Nat
    BY <2>4, ElemOccurrences
  <2> QED BY <2>1, <2>2, <2>3, <2>5
<1>7. Careful(kind, stack, buf, refs, held)
  BY DEF Sane
<1>8. Careful(kind, T, buf', refs', held)
  <2> DEFINE b == buf'
             u == refs'
  <2>1. /\ Buffered(b) /\ Walking(T, b) /\ u \in [Object -> Int]
        /\ Changing(kind, stack, buf, refs, held, T, b, u, held, a)
    BY <1>2, <1>4, <1>6 DEF Changing
  <2> HIDE DEF b, u
  <2>2. Careful(kind, T, b, u, held)
    BY <1>1, <1>2, <1>7, <2>1, KeepsCareful
  <2> QED BY <2>2 DEF b, u
<1> QED BY <1>8 DEF Fine

LEMMA RefusesFine ==
  ASSUME Sane, IInv', kind' = kind, held' = held,
         NEW a \in Array, ~Walked(a), buf[a] # NoBuffer, NEW F, Waiting(F, a),
         stack' = F \o stack, buf' = buf, refs' = refs, fault' = fault
  PROVE  Fine
<1> DEFINE T == F \o stack
<1>1. Ready(T, a) /\ Content(stack, buf, a) = Plain(buf, a)
  BY WaitingReady
<1>2. buf[a] \in Seq(Elem) /\ Buffered(buf) /\ refs \in [Object -> Nat]
  BY SaneTypes
<1>3. buf' = [buf EXCEPT ![a] = buf[a]] /\ Plain(buf, a) = buf[a] /\ stack' = T /\ fault' = "none"
  BY <1>2 DEF Buffered, Plain, Sane
<1>4. refs' \in [Object -> Int]
  BY <1>2
<1>5. ASSUME NEW o \in Object
      PROVE  refs'[o] - refs[o] = Occurrences(buf[a], o) - Occurrences(Plain(buf, a), o)
  <2>1. Occurrences(buf[a], o) \in Nat /\ refs[o] \in Nat
    BY <1>2, ElemOccurrences
  <2> QED BY <2>1, <1>3
<1> HIDE DEF T
<1> QED BY <1>1, <1>2, <1>3, <1>4, <1>5, TakesFine

(* References are added and released as the elements of an array change.   *)
LEMMA AdjustedCounts ==
  ASSUME refs \in [Object -> Nat], NEW p \in Seq(Elem), NEW q \in Seq(Elem)
  PROVE  /\ Adjusted(p, q) \in [Object -> Int]
         /\ kind = "primitive" => Adjusted(p, q) = refs
         /\ kind # "primitive" => \A o \in Object :
              Adjusted(p, q)[o] = refs[o] + Occurrences(p, o) - Occurrences(q, o)
<1>1. \A o \in Object : Occurrences(p, o) \in Nat /\ Occurrences(q, o) \in Nat /\ refs[o] \in Nat
  BY ElemOccurrences
<1>2. CASE kind = "primitive"
  BY <1>2 DEF Adjusted, Counted
<1>3. CASE kind # "primitive"
  <2> DEFINE u == [o \in Object |-> refs[o] + Occurrences(p, o) - Occurrences(q, o)]
  <2>1. Adjusted(p, q) = u
    BY <1>3 DEF Adjusted, Counted
  <2>2. ASSUME NEW o \in Object PROVE refs[o] + Occurrences(p, o) - Occurrences(q, o) \in Int
    BY <1>1
  <2>3. u \in [Object -> Int]
    BY <2>2
  <2> QED BY <2>1, <2>3, <1>3
<1> QED BY <1>2, <1>3

LEMMA ReplacesFine ==
  ASSUME Sane, IInv', kind' = kind, held' = held,
         NEW a \in Array, ~Walked(a), buf[a] # NoBuffer, NEW F, Waiting(F, a),
         NEW e \in Seq(Elem), NEW p \in Seq(Elem), NEW q \in Seq(Elem), Replaced(a, e, p, q, F),
         kind # "primitive" => \A o \in Object :
           /\ Occurrences(e, o) = Occurrences(buf[a], o) + Occurrences(p, o) - Occurrences(q, o)
           /\ Occurrences(q, o) <= Occurrences(buf[a], o),
         kind = "handle" => \A o \in Object : Occurrences(p, o) > 0 => refs[o] > 0
  PROVE  Fine
<1> DEFINE T == F \o stack
<1>1. Ready(T, a) /\ Content(stack, buf, a) = Plain(buf, a)
  BY WaitingReady
<1>2. buf[a] \in Seq(Elem) /\ refs \in [Object -> Nat] /\ Plain(buf, a) = buf[a]
  BY SaneTypes DEF Plain
<1>3. ASSUME NEW o \in Object
      PROVE  /\ refs[o] \in Nat /\ Occurrences(p, o) \in Nat /\ Occurrences(q, o) \in Nat
             /\ Occurrences(e, o) \in Nat /\ Occurrences(buf[a], o) \in Nat
             /\ kind # "primitive" => Occurrences(q, o) <= refs[o]
             /\ kind = "handle" /\ refs[o] = 0 => Occurrences(p, o) = 0
  <2>1. /\ refs[o] \in Nat /\ Occurrences(p, o) \in Nat /\ Occurrences(q, o) \in Nat
        /\ Occurrences(e, o) \in Nat /\ Occurrences(buf[a], o) \in Nat
    BY <1>2, ElemOccurrences
  <2>2. kind # "primitive" => Occurrences(buf[a], o) <= refs[o]
    BY <1>1, <1>2, ContentAlive
  <2> QED BY <2>1, <2>2
<1> DEFINE Dead == \E o \in Object :
                     \/ Counted /\ refs[o] < Occurrences(q, o)
                     \/ kind = "handle" /\ refs[o] = 0 /\ Occurrences(p, o) > 0
<1>4. ~Dead
  BY <1>3 DEF Counted
<1>5. /\ buf' = [buf EXCEPT ![a] = e] /\ refs' = Adjusted(p, q) /\ fault' = "none" /\ stack' = T
  <2>1. Moved(a) = stack
    BY MovedNone
  <2>2. \/ Dead
        \/ /\ buf' = [buf EXCEPT ![a] = e] /\ refs' = Adjusted(p, q) /\ fault' = fault
           /\ stack' = F \o (IF cap[a] < Len(e) THEN Moved(a) ELSE stack)
    BY DEF Replaced
  <2> HIDE DEF Dead
  <2>3. stack' = F \o (IF cap[a] < Len(e) THEN Moved(a) ELSE stack) => stack' = F \o stack
    BY <2>1
  <2>4. stack' = T
    BY <1>4, <2>2, <2>3
  <2>5. buf' = [buf EXCEPT ![a] = e] /\ refs' = Adjusted(p, q) /\ fault' = fault
    BY <1>4, <2>2
  <2> QED BY <2>4, <2>5 DEF Sane
<1>6. refs' \in [Object -> Int] /\ (kind = "primitive" => refs' = refs)
  BY <1>2, <1>5, AdjustedCounts
<1>7. ASSUME kind # "primitive", NEW o \in Object
      PROVE  refs'[o] - refs[o] = Occurrences(e, o) - Occurrences(Plain(buf, a), o)
  <2>1. refs'[o] = refs[o] + Occurrences(p, o) - Occurrences(q, o)
    BY <1>2, <1>5, <1>7, AdjustedCounts
  <2>2. Occurrences(e, o) = Occurrences(buf[a], o) + Occurrences(p, o) - Occurrences(q, o)
    BY <1>7
  <2> QED BY <2>1, <2>2, <1>2, <1>3
<1> HIDE DEF T
<1> QED BY <1>1, <1>5, <1>6, <1>7, TakesFine

(* Contents stay.                                                          *)
LEMMA SameFine ==
  ASSUME Sane, kind' = kind, held' = held, refs' = refs, fault' = fault,
         NEW T, stack' = T, Walking(T, buf'),
         \A x \in Array : Content(T, buf', x) = Content(stack, buf, x)
  PROVE  Fine
<1> DEFINE b == buf'
<1>1. Walking(T, b) /\ All(T, b) = All(stack, buf)
  BY DEF All
<1> HIDE DEF b
<1>2. Careful(kind, T, b, refs, held)
  BY <1>1 DEF Sane, Careful
<1> QED BY <1>2 DEF Fine, Sane, b

LEMMA DestructsLocals ==
  ASSUME NEW a \in Array, NEW from \in Nat, NEW to \in Nat, from <= to,
         NEW how \in {"close", "delete"}, NEW d, d = Destructs(a, from, to, how)
  PROVE  /\ d \in Frames /\ d.op = "destruct" /\ d.how = how /\ d.arr = a /\ d.other = a
         /\ d.from = from /\ d.to = to /\ d.j = from /\ ~d.moved
<1> DEFINE f == Frame("destruct", a, a, from, to)
<1>1. f \in Records /\ f.from = from /\ f.to = to /\ f.j = from /\ ~f.moved
  BY MadeFrame DEF Frame
<1>2. LET g == Destructs(a, from, to, how) IN
      g \in Frames /\ g.op = "destruct" /\ g.how = how /\ g.arr = a /\ g.other = a
  BY DestructFrame
<1>3. Destructs(a, from, to, how) = [f EXCEPT !.how = how]
  BY DEF Destructs
<1> HIDE DEF f
<1>4. LET g == [f EXCEPT !.how = how] IN
      g.from = from /\ g.to = to /\ g.j = from /\ ~g.moved
  BY <1>1 DEF Records
<1> QED BY <1>2, <1>3, <1>4

LEMMA DestroysFine ==
  ASSUME Sane, kind' = kind, held' = held, buf' = buf, refs' = refs, fault' = fault,
         NEW a \in Array, ~Walked(a), buf[a] # NoBuffer, NEW F, Waiting(F, a),
         NEW from \in Nat, NEW to \in Nat, from <= to, to <= Len(buf[a]),
         NEW how \in {"close", "delete"}, how = "delete" => from = 0 /\ to = Len(buf[a]),
         stack' = Pushed(Destructs(a, from, to, how), F \o stack)
  PROVE  Fine
<1> DEFINE T == F \o stack
           s == buf[a]
<1>1. PICK d : d = Destructs(a, from, to, how)
  OBVIOUS
<1>2. /\ d \in Frames /\ d.op = "destruct" /\ d.how = how /\ d.arr = a /\ d.other = a
      /\ d.from = from /\ d.to = to /\ d.j = from /\ ~d.moved
  BY <1>1, DestructsLocals
<1>3. Ready(T, a) /\ Content(stack, buf, a) = Plain(buf, a)
  BY WaitingReady
<1>4. s \in Seq(Elem) /\ Buffered(buf)
  BY SaneTypes
<1>5. stack' = Pushed(d, T)
  BY <1>1
<1> HIDE DEF T
<1>6. /\ T \in Seq(Frames) /\ Walking(T, buf)
      /\ \A x \in Array : x # a => Content(T, buf, x) = Content(stack, buf, x)
  BY <1>3, <1>4 DEF Ready
<1>7. Steady(d, buf)
  BY <1>2 DEF Steady
<1>8. ASSUME NEW k \in DOMAIN T PROVE Apart(d, T[k])
  <2>1. \/ a \notin {T[k].arr, T[k].other}
        \/ T[k].op = "copy" /\ T[k].how = "waiting" /\ T[k].arr = a /\ T[k].other # a
    BY <1>3 DEF Ready
  <2> QED BY <2>1, <1>2 DEF Apart, Writes
<1>9. Walking(Pushed(d, T), buf)
  BY <1>2, <1>6, <1>7, <1>8, WalkingPush
<1>10. Content(Pushed(d, T), buf, a) = Content(stack, buf, a)
  <2>1. Holds(d, a)
    BY <1>2 DEF Holds
  <2>2. Content(Pushed(d, T), buf, a) = Shown(d, buf[a])
    BY <1>2, <1>6, <1>9, <2>1, ContentPushed
  <2>3. Shown(d, s) = SubSeq(s, 1, from) \o SubSeq(s, from + 1, Len(s))
    BY <1>2 DEF Shown
  <2>4. from \in 0..Len(s)
    BY <1>4
  <2> HIDE DEF s
  <2>5. s = SubSeq(s, 1, from) \o SubSeq(s, from + 1, Len(s))
    BY <1>4, <2>4, OccurrencesCut
  <2>6. Plain(buf, a) = s
    BY DEF Plain, s
  <2> QED BY <1>3, <2>2, <2>3, <2>5, <2>6 DEF s
<1>11. ASSUME NEW x \in Array PROVE Content(Pushed(d, T), buf, x) = Content(stack, buf, x)
  <2>1. CASE x = a
    BY <2>1, <1>10
  <2>2. CASE x # a /\ buf[x] = NoBuffer
    BY <2>2 DEF Content
  <2>3. CASE x # a /\ buf[x] # NoBuffer
    <3>1. ~Holds(d, x)
      BY <1>2, <2>3 DEF Holds
    <3>2. Content(Pushed(d, T), buf, x) = Content(T, buf, x)
      BY <1>2, <1>6, <1>9, <2>3, <3>1, ContentPushed
    <3> QED BY <3>2, <1>6, <2>3
  <2> QED BY <2>1, <2>2, <2>3
<1> QED BY <1>5, <1>9, <1>11, SameFine

LEMMA ShrinksFine ==
  ASSUME Sane, kind' = kind, held' = held,
         NEW a \in Array, ~Walked(a), buf[a] # NoBuffer, NEW F, Waiting(F, a),
         NEW at \in Nat, NEW n \in Nat, at + n <= Len(buf[a]), Shrinks(a, at, n, F)
  PROVE  Fine
<1>1. F \in Seq(Frames) /\ stack \in Seq(Frames)
  BY WaitingReady, SaneTypes
<1>2. PICK d : d = Destructs(a, at, at + n, "close")
  OBVIOUS
<1>3. at + n \in Nat /\ at <= at + n
  OBVIOUS
<1>4. d \in Frames
  BY <1>2, <1>3, DestructsLocals
<1>5. stack' = <<d>> \o F \o stack /\ buf' = buf /\ refs' = refs /\ fault' = fault
  BY <1>2 DEF Shrinks, Destructs, arrays
<1>6. <<d>> \o F \o stack = Pushed(d, F \o stack)
  BY <1>1, <1>4 DEF Pushed
<1>7. stack' = Pushed(Destructs(a, at, at + n, "close"), F \o stack)
  BY <1>2, <1>5, <1>6
<1> QED BY <1>3, <1>5, <1>7, DestroysFine

LEMMA NoOccurrences ==
  ASSUME kind # "object", NEW n \in Nat, NEW new \in Constructed(n), NEW o \in Object
  PROVE  Occurrences(new, o) = 0
BY ConstructedTypes, OccurrencesNull

LEMMA ResizesFine ==
  ASSUME Sane, IInv', kind' = kind, held' = held,
         NEW a \in Array, ~Walked(a), buf[a] # NoBuffer, NEW F, Waiting(F, a),
         NEW delta \in Int, NEW at \in Nat, ResizeBy(a, delta, at, F)
  PROVE  Fine
<1> DEFINE n    == Len(buf[a])
           down == IF -delta > n THEN n ELSE -delta
           from == IF at > n - down THEN n - down ELSE at
           to   == IF at > n THEN n ELSE at
<1>1. buf[a] \in Seq(Elem) /\ n \in Nat
  BY SaneTypes
<1>2. CASE Fails("wrapped")
  BY <1>2 DEF Fails, Fine
<1>3. CASE delta < 0 /\ down > 0 /\ Shrinks(a, from, down, F)
  <2>1. down \in Nat /\ n - down \in Nat
    BY <1>1, <1>3
  <2>2. from \in Nat /\ from + down <= n
    <3> HIDE DEF down
    <3> QED BY <1>1, <2>1
  <2> HIDE DEF down, from
  <2> QED BY <2>1, <2>2, <1>3, ShrinksFine
<1>4. CASE delta > 0 /\ \E new \in Constructed(delta) :
             Replaced(a, Spliced(buf[a], to, new), IF kind = "object" THEN new ELSE <<>>, <<>>, F)
  <2>1. PICK new \in Constructed(delta) :
             Replaced(a, Spliced(buf[a], to, new), IF kind = "object" THEN new ELSE <<>>, <<>>, F)
    BY <1>4
  <2>2. new \in Seq(Elem) /\ delta \in Nat
    BY <1>4, ConstructedTypes
  <2>3. to \in 0..Len(buf[a])
    BY <1>1
  <2> HIDE DEF to
  <2>4. Spliced(buf[a], to, new) \in Seq(Elem)
    BY <2>2, <2>3, <1>1, SplicedTypes
  <2>5. PICK p : p = IF kind = "object" THEN new ELSE <<>>
    OBVIOUS
  <2>6. p \in Seq(Elem) /\ <<>> \in Seq(Elem)
    BY <2>2, <2>5
  <2>7. ASSUME NEW o \in Object
        PROVE  /\ Occurrences(Spliced(buf[a], to, new), o) =
                    Occurrences(buf[a], o) + Occurrences(p, o) - Occurrences(<<>>, o)
               /\ Occurrences(<<>>, o) <= Occurrences(buf[a], o)
    <3>1. Occurrences(Spliced(buf[a], to, new), o) = Occurrences(buf[a], o) + Occurrences(new, o)
      BY <1>1, <2>2, <2>3, OccurrencesSpliced
    <3>2. Occurrences(p, o) = Occurrences(new, o)
      <4>1. kind # "object" => Occurrences(new, o) = 0 /\ Occurrences(p, o) = 0
        BY <2>2, <2>5, NoOccurrences, OccurrencesNothing
      <4> QED BY <4>1, <2>5
    <3>3. Occurrences(<<>>, o) = 0
      BY OccurrencesNothing
    <3>4. Occurrences(buf[a], o) \in Nat /\ Occurrences(new, o) \in Nat
      BY <1>1, <2>2, ElemOccurrences
    <3> QED BY <3>1, <3>2, <3>3, <3>4
  <2>8. kind = "handle" => \A o \in Object : Occurrences(p, o) > 0 => refs[o] > 0
    <3>1. kind = "handle" => \A o \in Object : Occurrences(p, o) = 0
      BY <2>5, OccurrencesNothing
    <3> QED BY <3>1
  <2>9. Replaced(a, Spliced(buf[a], to, new), p, <<>>, F)
    BY <2>1, <2>5
  <2> DEFINE e == Spliced(buf[a], to, new)
             q == <<>>
  <2>10. /\ e \in Seq(Elem) /\ q \in Seq(Elem) /\ Replaced(a, e, p, q, F)
         /\ \A o \in Object :
              /\ Occurrences(e, o) = Occurrences(buf[a], o) + Occurrences(p, o) - Occurrences(q, o)
              /\ Occurrences(q, o) <= Occurrences(buf[a], o)
    BY <2>4, <2>6, <2>7, <2>9
  <2> HIDE DEF e, q
  <2> QED BY <2>6, <2>8, <2>10, ReplacesFine
<1>5. CASE Refuses(F)
  <2>1. stack' = F \o stack /\ buf' = buf /\ refs' = refs /\ fault' = fault
    BY <1>5 DEF Refuses, arrays
  <2> QED BY <2>1, RefusesFine
<1>6. \/ Fails("wrapped")
      \/ delta < 0 /\ down > 0 /\ Shrinks(a, from, down, F)
      \/ delta > 0 /\ \E new \in Constructed(delta) :
           Replaced(a, Spliced(buf[a], to, new), IF kind = "object" THEN new ELSE <<>>, <<>>, F)
      \/ Refuses(F)
  BY DEF ResizeBy
<1> HIDE DEF n, down, from, to
<1> QED BY <1>2, <1>3, <1>4, <1>5, <1>6

(* What a call says of the walks when it is the first use of none of them. *)
LEMMA UsesNone ==
  ASSUME NEW a, NEW b, Uses(a, b), ~reentered'
  PROVE  ~Walked(a) /\ ~Dying(b)
BY DEF Uses

LEMMA ChangesNone ==
  ASSUME NEW a, Changes(a), ~reentered'
  PROVE  ~Walked(a)
BY UsesNone DEF Changes

LEMMA OccurrencesAlive ==
  ASSUME Sane, kind # "primitive", NEW b \in Array, buf[b] # NoBuffer, ~Dying(b),
         NEW o \in Object, Occurrences(buf[b], o) > 0
  PROVE  refs[o] > 0
<1>1. buf[b] \in Seq(Elem)
  BY SaneTypes
<1>2. PICK k \in DOMAIN buf[b] : buf[b][k] = o
  BY <1>1, ElemOccurrences
<1> QED BY <1>2, ElementsAlive

LEMMA ValuesAlive ==
  ASSUME Sane, NEW v \in Values, NEW o \in Object, kind = "handle", v = o
  PROVE  refs[o] > 0
<1>1. o \in held
  BY SetsAssumption DEF Values
<1> QED BY <1>1, ContentAlive

LEMMA ReleaseFine ==
  ASSUME Sane, NEW a \in Array, Exists(a), Release(a)
  PROVE  Fine
<1> DEFINE n == Len(buf[a])
           F == <<>>
<1>1. buf[a] # NoBuffer /\ buf[a] \in Seq(Elem) /\ n \in Nat /\ stack \in Seq(Frames)
  BY SaneTypes DEF Exists
<1>2. Waiting(F, a) /\ F \o stack = stack
  BY <1>1 DEF Waiting
<1>3. /\ ~Walked(a) /\ kind' = kind /\ held' = held /\ buf' = buf /\ refs' = refs /\ fault' = fault
      /\ stack' = Pushed(Destructs(a, 0, n, "delete"), stack)
  BY DEF Release, Outside, arrays, Pushed, Destructs
<1>4. 0 \in Nat /\ 0 <= n /\ n <= Len(buf[a])
  BY <1>1
<1> HIDE DEF F
<1>5. stack' = Pushed(Destructs(a, 0, n, "delete"), F \o stack)
  BY <1>2, <1>3
<1>6. n = Len(buf[a])
  OBVIOUS
<1> HIDE DEF n
<1> QED BY <1>1, <1>2, <1>3, <1>4, <1>5, <1>6, DestroysFine

LEMMA NothingWaits ==
  ASSUME Sane, NEW a
  PROVE  Waiting(<<>>, a) /\ <<>> \o stack = stack
BY SaneTypes DEF Waiting

LEMMA ReserveFine ==
  ASSUME Sane, ~reentered', IInv', NEW a \in Array, Exists(a), NEW n \in Uints, Reserve(a, n)
  PROVE  Fine
<1>1. ~Walked(a)
  BY ChangesNone DEF Reserve
<1>2. Moved(a) = stack
  BY <1>1, MovedNone
<1>3. /\ kind' = kind /\ held' = held /\ buf' = buf /\ refs' = refs /\ fault' = fault
      /\ stack' = stack
  BY <1>2 DEF Reserve, Outside
<1>4. Walking(stack, buf') /\ \A x \in Array : Content(stack, buf', x) = Content(stack, buf, x)
  BY <1>3, SaneTypes
<1> QED BY <1>3, <1>4, SameFine

LEMMA DifferenceTypes ==
  ASSUME Sane, NEW a \in Array, Exists(a), NEW n \in Nat
  PROVE  Difference(a, n) \in Int /\ Word - 1 \in Nat
<1> DEFINE x == n - Len(buf[a])
           u == Uint(x)
<1>1. Difference(a, n) = Signed(u)
  BY DEF Difference
<1>2. x \in Int
  BY SaneTypes DEF Exists
<1> HIDE DEF x
<1>3. u \in Int
  BY <1>2, WordTypes
<1> HIDE DEF u
<1> QED BY <1>1, <1>3, WordTypes

LEMMA ResizeFine ==
  ASSUME Sane, ~reentered', IInv', NEW a \in Array, Exists(a), NEW n \in Uints, Resize(a, n)
  PROVE  Fine
<1>1. kind' = kind /\ held' = held /\ buf[a] # NoBuffer /\ Waiting(<<>>, a) /\ <<>> \o stack = stack
  BY NothingWaits DEF Resize, Outside, Exists
<1>2. CASE Refuses(<<>>)
  <2>1. buf' = buf /\ refs' = refs /\ fault' = fault /\ stack' = stack
    BY <1>1, <1>2 DEF Refuses, arrays
  <2>2. Walking(stack, buf') /\ \A x \in Array : Content(stack, buf', x) = Content(stack, buf, x)
    BY <2>1, SaneTypes
  <2> QED BY <1>1, <2>1, <2>2, SameFine
<1>3. CASE Changes(a) /\ ResizeBy(a, Difference(a, n), Word - 1, <<>>)
  <2>1. ~Walked(a)
    BY <1>3, ChangesNone
  <2>2. Difference(a, n) \in Int /\ Word - 1 \in Nat
    BY WordTypes, DifferenceTypes
  <2> QED BY <1>1, <1>3, <2>1, <2>2, ResizesFine
<1> QED BY <1>2, <1>3 DEF Resize

LEMMA RemoveRangeFine ==
  ASSUME Sane, ~reentered', IInv', NEW a \in Array, Exists(a),
         NEW start \in Uints, NEW n \in Uints, RemoveRange(a, start, n)
  PROVE  Fine
<1> DEFINE len == Len(buf[a])
           m == Capped(start, n, len)
<1>1. /\ kind' = kind /\ held' = held /\ buf[a] # NoBuffer /\ Waiting(<<>>, a) /\ ~Walked(a)
      /\ start <= len /\ (IF start + m >= Word THEN Fails("wrapped") ELSE Shrinks(a, start, m, <<>>))
  BY NothingWaits, ChangesNone DEF RemoveRange, Outside, Exists
<1>2. len \in Nat /\ start \in Nat /\ n \in Nat /\ start < Word /\ n < Word /\ Word \in Nat /\ Word > 0
  <2>1. Word \in Nat /\ Word > 0
    BY WordTypes
  <2>2. \A x \in Uints : x \in Nat /\ x < Word
    BY <2>1 DEF Uints
  <2>3. len \in Nat
    BY <1>1, SaneTypes
  <2> QED BY <2>1, <2>2, <2>3
<1>3. CASE Fails("wrapped")
  BY <1>3 DEF Fails, Fine
<1>4. CASE start + m < Word /\ Shrinks(a, start, m, <<>>)
  <2> HIDE DEF len
  <2>1. m \in Nat
    BY <1>1, <1>2 DEF Capped
  <2>2. start + m <= len
    <3>1. CASE Uint(start + n) > len
      BY <1>1, <1>2, <3>1 DEF Capped
    <3>2. CASE ~(Uint(start + n) > len)
      <4>1. m = n
        BY <3>2 DEF Capped
      <4>2. Uint(start + n) = start + n
        BY <4>1, <1>2, <1>4 DEF Uint
      <4> QED BY <3>2, <4>1, <4>2, <1>2 DEF Uint
    <3> QED BY <3>1, <3>2
  <2> HIDE DEF m
  <2>3. start + m <= Len(buf[a])
    BY <2>2 DEF len
  <2> QED BY <1>1, <1>2, <1>4, <2>1, <2>3, ShrinksFine
<1>5. start + m \in Int
  BY <1>2 DEF Capped
<1> HIDE DEF m, len
<1> QED BY <1>1, <1>2, <1>3, <1>4, <1>5

LEMMA RemoveAtFine ==
  ASSUME Sane, ~reentered', IInv', NEW a \in Array, Exists(a), NEW n \in Uints, RemoveAt(a, n)
  PROVE  Fine
<1>1. /\ kind' = kind /\ held' = held /\ buf[a] # NoBuffer /\ Waiting(<<>>, a) /\ ~Walked(a)
      /\ ResizeBy(a, -1, n, <<>>)
  BY NothingWaits, ChangesNone DEF RemoveAt, Outside, Exists
<1>2. n \in Nat /\ -1 \in Int
  BY WordTypes
<1> QED BY <1>1, <1>2, ResizesFine

LEMMA AssignFine ==
  ASSUME Sane, ~reentered', IInv', NEW a \in Array, NEW b \in Array, Exists(a), Assign(a, b)
  PROVE  Fine
<1> DEFINE d == Difference(a, Len(buf[b]))
           F == <<Copies(a, b)>>
<1>1. /\ kind' = kind /\ held' = held /\ buf[a] # NoBuffer /\ buf[b] # NoBuffer /\ a # b
      /\ ~Walked(a) /\ ~Dying(b) /\ ResizeBy(a, d, Word - 1, F)
  BY UsesNone DEF Assign, Outside, Exists, Copies
<1>2. Waiting(F, a)
  BY <1>1 DEF Waiting
<1>3. Len(buf[b]) \in Nat
  BY <1>1, SaneTypes
<1>4. d \in Int /\ Word - 1 \in Nat
  BY <1>3, DifferenceTypes
<1> HIDE DEF d, F
<1> QED BY <1>1, <1>2, <1>4, ResizesFine

LEMMA InsertAtFine ==
  ASSUME Sane, ~reentered', IInv', NEW a \in Array, Exists(a), NEW index \in Uints, NEW v \in Values,
         InsertAt(a, index, v)
  PROVE  Fine
<1> DEFINE s == buf[a]
           q == <<>>
<1>1. /\ kind' = kind /\ held' = held /\ buf[a] # NoBuffer /\ ~Walked(a) /\ Waiting(<<>>, a)
      /\ <<>> \o stack = stack
  BY NothingWaits, ChangesNone DEF InsertAt, Outside, Exists
<1>2. s \in Seq(Elem) /\ v \in Elem /\ index \in 0..Len(s) /\ q \in Seq(Elem)
  <2>1. s \in Seq(Elem) /\ v \in Elem
    BY <1>1, SaneTypes, ValuesTypes DEF Sane, IInv
  <2>2. index \in Nat
    BY WordTypes
  <2> QED BY <2>1, <2>2 DEF InsertAt
<1>3. ASSUME NEW x \in Elem, kind = "handle" => x = v
      PROVE  kind = "handle" => \A o \in Object : Occurrences(<<x>>, o) > 0 => refs[o] > 0
  <2>1. \A o \in Object : Occurrences(<<x>>, o) > 0 => x = o
    BY OccurrencesSingle DEF One
  <2> QED BY <2>1, <1>3, ValuesAlive
<1>4. ASSUME NEW new \in Constructed(1), NEW x, x = Stored(new[1], v),
             Replaced(a, Spliced(s, index, <<x>>), <<x>>, <<>>, <<>>)
      PROVE  Fine
  <2>1. new \in Seq(Elem) /\ Len(new) = 1
    BY ConstructedTypes
  <2>2. new[1] \in Elem
    BY <2>1
  <2>3. x \in Elem /\ (kind = "handle" => x = v)
    BY <1>2, <1>4, <2>2, StoredTypes DEF Stored
  <2> DEFINE p == <<x>>
             e == Spliced(s, index, p)
  <2>4. p \in Seq(Elem)
    BY <2>3
  <2>5. kind = "handle" => \A o \in Object : Occurrences(p, o) > 0 => refs[o] > 0
    BY <2>3, <1>3
  <2> HIDE DEF p
  <2>6. e \in Seq(Elem)
    BY <1>2, <2>4, SplicedTypes
  <2>7. ASSUME NEW o \in Object
        PROVE  /\ Occurrences(e, o) = Occurrences(buf[a], o) + Occurrences(p, o) - Occurrences(q, o)
               /\ Occurrences(q, o) <= Occurrences(buf[a], o)
    <3>1. Occurrences(e, o) = Occurrences(s, o) + Occurrences(p, o)
      BY <1>2, <2>4, OccurrencesSpliced
    <3>2. Occurrences(q, o) = 0
      BY OccurrencesNothing
    <3>3. Occurrences(s, o) \in Nat /\ Occurrences(p, o) \in Nat
      BY <1>2, <2>4, ElemOccurrences
    <3> HIDE DEF q
    <3> QED BY <3>1, <3>2, <3>3
  <2>8. Replaced(a, e, p, q, <<>>)
    BY <1>4 DEF p
  <2> HIDE DEF e, q
  <2> QED BY <1>1, <1>2, <2>4, <2>5, <2>6, <2>7, <2>8, ReplacesFine
<1>5. CASE Refuses(<<>>)
  <2>1. stack' = <<>> \o stack /\ buf' = buf /\ refs' = refs /\ fault' = fault
    BY <1>5 DEF Refuses, arrays
  <2> QED BY <1>1, <2>1, RefusesFine
<1>6. ASSUME index # Len(s), NEW x, x = Stored(s[index + 1], v),
             Replaced(a, [s EXCEPT ![index + 1] = x], <<x>>, <<s[index + 1]>>, <<>>)
      PROVE  Fine
  <2> DEFINE k == index + 1
             y == s[k]
  <2>1. k \in 1..Len(s) /\ y \in Elem /\ k \in DOMAIN s
    BY <1>2, <1>6
  <2>2. x \in Elem /\ (kind = "handle" => x = v)
    BY <2>1, <1>2, <1>6, StoredTypes DEF Stored
  <2> HIDE DEF k
  <2> DEFINE p == <<x>>
             e == [s EXCEPT ![k] = x]
             r == <<y>>
  <2>3. p \in Seq(Elem) /\ r \in Seq(Elem)
    BY <2>1, <2>2
  <2>4. kind = "handle" => \A o \in Object : Occurrences(p, o) > 0 => refs[o] > 0
    BY <2>2, <1>3
  <2>5. e \in Seq(Elem)
    BY <1>2, <2>1, <2>2
  <2>6. ASSUME NEW o \in Object
        PROVE  /\ Occurrences(e, o) = Occurrences(buf[a], o) + Occurrences(p, o) - Occurrences(r, o)
               /\ Occurrences(r, o) <= Occurrences(buf[a], o)
    <3>1. Occurrences(e, o) = Occurrences(s, o) - One(y, o) + One(x, o)
      BY <1>2, <2>1, <2>2, OccurrencesStored
    <3>2. Occurrences(p, o) = One(x, o) /\ Occurrences(r, o) = One(y, o)
      BY OccurrencesSingle
    <3>3. Occurrences(s, o) \in Nat /\ (y = o => Occurrences(s, o) > 0)
      BY <1>2, <2>1, ElemOccurrences
    <3>4. One(x, o) \in Nat /\ One(y, o) \in Nat /\ One(y, o) <= Occurrences(s, o)
      BY <3>3 DEF One
    <3> HIDE DEF p, r, e, y
    <3> QED BY <3>1, <3>2, <3>3, <3>4
  <2>7. Replaced(a, e, p, r, <<>>)
    BY <1>6 DEF k
  <2> HIDE DEF e, p, r
  <2> QED BY <1>1, <2>3, <2>4, <2>5, <2>6, <2>7, ReplacesFine
<1> QED BY <1>4, <1>5, <1>6 DEF InsertAt

(* Elements are overwritten by those of another array, or the same.        *)
LEMMA Overwritten ==
  ASSUME NEW s \in Seq(Elem), NEW src \in Seq(Elem), NEW index \in 0..Len(s), NEW m \in 0..Len(src),
         NEW e, e = [k \in DOMAIN s |-> IF index < k /\ k <= index + m
                                        THEN Stored(s[k], src[k - index]) ELSE s[k]]
  PROVE  /\ e \in Seq(Elem)
         /\ kind # "object" => \A k \in DOMAIN e :
              \/ k \in DOMAIN s /\ e[k] = s[k]
              \/ k - index \in DOMAIN src /\ e[k] = src[k - index]
<1>1. DOMAIN s = 1..Len(s) /\ DOMAIN src = 1..Len(src) /\ Len(s) \in Nat /\ Len(src) \in Nat
  OBVIOUS
<1>2. ASSUME NEW k \in 1..Len(s)
      PROVE  /\ e[k] \in Elem
             /\ kind # "object" => \/ e[k] = s[k]
                                   \/ k - index \in DOMAIN src /\ e[k] = src[k - index]
  <2>1. s[k] \in Elem
    OBVIOUS
  <2>2. CASE index < k /\ k <= index + m
    <3>1. e[k] = Stored(s[k], src[k - index])
      BY <1>1, <2>2
    <3>2. k - index \in 1..Len(src)
      BY <2>2
    <3>3. src[k - index] \in Elem
      BY <3>2
    <3> QED BY <1>1, <2>1, <3>1, <3>2, <3>3 DEF Stored
  <2>3. CASE ~(index < k /\ k <= index + m)
    <3>1. e[k] = s[k]
      BY <1>1, <2>3
    <3> QED BY <2>1, <3>1
  <2> QED BY <2>2, <2>3
<1>3. DOMAIN e = 1..Len(s) /\ e = [k \in 1..Len(s) |-> e[k]]
  BY <1>1
<1>4. e \in [1..Len(s) -> Elem]
  BY <1>2, <1>3, Zenon
<1>5. e \in Seq(Elem)
  BY <1>1, <1>4
<1> QED BY <1>1, <1>2, <1>3, <1>5

LEMMA InsertArrayFine ==
  ASSUME Sane, ~reentered', IInv', NEW a \in Array, NEW b \in Array, Exists(a),
         NEW index \in Uints, InsertArray(a, index, b)
  PROVE  Fine
<1> DEFINE s == buf[a]
           src == buf[b]
           n == Len(src)
           m == IF a = b THEN index ELSE n
           e == [k \in DOMAIN s |->
                   IF index < k /\ k <= index + m
                   THEN Stored(s[k], src[k - index]) ELSE s[k]]
<1>1. /\ kind' = kind /\ held' = held /\ s # NoBuffer /\ src # NoBuffer
      /\ ~Walked(a) /\ ~Dying(b) /\ Waiting(<<>>, a)
  BY NothingWaits, UsesNone DEF InsertArray, Outside, Exists
<1>2. s \in Seq(Elem) /\ src \in Seq(Elem) /\ n \in Nat /\ index \in 0..Len(s)
  <2>1. s \in Seq(Elem) /\ src \in Seq(Elem)
    BY <1>1, SaneTypes
  <2>2. index \in Nat
    BY WordTypes
  <2> QED BY <2>1, <2>2 DEF InsertArray
<1>3. ~Dying(a)
  BY <1>1 DEF Walked, Dying
<1>4. ASSUME kind = "handle", NEW o \in Object, Occurrences(s, o) > 0 \/ Occurrences(src, o) > 0
      PROVE  refs[o] > 0
  BY <1>1, <1>3, <1>4, OccurrencesAlive
<1> HIDE DEF e
<1>5. ASSUME NEW t \in Seq(Elem), Replaced(a, t, t, s, <<>>),
             kind = "handle" => \A o \in Object : Occurrences(t, o) > 0 =>
               Occurrences(s, o) > 0 \/ Occurrences(src, o) > 0
      PROVE  Fine
  <2>1. ASSUME NEW o \in Object
        PROVE  /\ Occurrences(t, o) = Occurrences(s, o) + Occurrences(t, o) - Occurrences(s, o)
               /\ Occurrences(s, o) <= Occurrences(s, o)
    <3>1. Occurrences(t, o) \in Nat /\ Occurrences(s, o) \in Nat
      BY <1>2, <1>5, ElemOccurrences
    <3> QED BY <3>1
  <2>2. kind = "handle" => \A o \in Object : Occurrences(t, o) > 0 => refs[o] > 0
    BY <1>4, <1>5
  <2> QED BY <1>1, <1>2, <1>5, <2>1, <2>2, ReplacesFine
<1>6. ASSUME NEW new \in Constructed(n), NEW t,
             t = Filled(Spliced(s, index, new), index, n, src, a = b),
             Replaced(a, t, t, s, <<>>)
      PROVE  Fine
  <2>1. new \in Seq(Elem) /\ Len(new) = n
    BY <1>2, ConstructedTypes
  <2>2. (a = b) \in BOOLEAN /\ (a = b => src = s)
    OBVIOUS
  <2>3. t \in Seq(Elem) /\ (kind # "object" => t = Spliced(s, index, src))
    BY <1>2, <1>6, <2>1, <2>2, FilledTypes
  <2>4. ASSUME kind = "handle", NEW o \in Object, Occurrences(t, o) > 0
        PROVE  Occurrences(s, o) > 0 \/ Occurrences(src, o) > 0
    <3>1. Occurrences(t, o) = Occurrences(s, o) + Occurrences(src, o)
      BY <1>2, <2>3, <2>4, OccurrencesSpliced
    <3>2. Occurrences(s, o) \in Nat /\ Occurrences(src, o) \in Nat
      BY <1>2, ElemOccurrences
    <3> QED BY <2>4, <3>1, <3>2
  <2> QED BY <1>5, <1>6, <2>3, <2>4
<1>7. CASE Replaced(a, e, e, s, <<>>)
  <2>1. m \in 0..Len(src)
    BY <1>2
  <2> HIDE DEF m
  <2>2. e = [k \in DOMAIN s |-> IF index < k /\ k <= index + m
                                THEN Stored(s[k], src[k - index]) ELSE s[k]]
    BY DEF e, m
  <2> HIDE DEF s, src
  <2>3. /\ e \in Seq(Elem)
        /\ kind # "object" => \A k \in DOMAIN e :
             \/ k \in DOMAIN s /\ e[k] = s[k]
             \/ k - index \in DOMAIN src /\ e[k] = src[k - index]
    BY <1>2, <2>1, <2>2, Overwritten
  <2>4. ASSUME kind = "handle", NEW o \in Object, Occurrences(e, o) > 0
        PROVE  Occurrences(s, o) > 0 \/ Occurrences(src, o) > 0
    <3>1. PICK k \in DOMAIN e : e[k] = o
      BY <2>3, <2>4, ElemOccurrences
    <3>2. (\E l \in DOMAIN s : s[l] = o) \/ (\E l \in DOMAIN src : src[l] = o)
      BY <3>1, <2>3, <2>4
    <3> QED BY <3>2, <1>2, ElemOccurrences
  <2> QED BY <1>5, <1>7, <2>3, <2>4 DEF s, src
<1>8. \/ \E new \in Constructed(n) :
           LET t == Filled(Spliced(s, index, new), index, n, src, a = b) IN
           Replaced(a, t, t, s, <<>>)
      \/ Replaced(a, e, e, s, <<>>)
  BY DEF InsertArray, e
<1> HIDE DEF n, m, s, src
<1> QED BY <1>6, <1>7, <1>8

LEMMA ReverseFine ==
  ASSUME Sane, ~reentered', IInv', NEW a \in Array, Exists(a), Reverse(a)
  PROVE  Fine
<1> DEFINE s == buf[a]
           n == Len(s)
           e == [k \in 1..n |-> s[n - k + 1]]
<1>1. /\ kind' = kind /\ held' = held /\ s # NoBuffer /\ ~Walked(a) /\ refs' = refs /\ stack' = stack
      /\ fault' = "none" /\ buf' = [buf EXCEPT ![a] = e]
  BY ChangesNone DEF Reverse, Outside, Exists, Sane
<1>2. /\ Ready(stack, a) /\ Content(stack, buf, a) = Plain(buf, a)
  BY <1>1, NothingWaits, WaitingReady
<1>3. s \in Seq(Elem) /\ n \in Nat /\ refs \in [Object -> Nat] /\ Plain(buf, a) = s
  BY <1>1, SaneTypes DEF Plain
<1>4. \A k \in 1..n : n - k + 1 \in 1..n /\ s[n - k + 1] \in Elem
  <2>1. \A k \in 1..n : s[k] \in Elem
    BY <1>3
  <2> HIDE DEF n, s
  <2> QED BY <2>1, <1>3
<1>5. e \in Seq(Elem) /\ Len(e) = n /\ \A k \in 1..n : e[k] = s[n - k + 1]
  <2> HIDE DEF n, s
  <2> QED BY <1>3, <1>4
<1> HIDE DEF e
<1>6. \A o \in Object : Occurrences(e, o) = Occurrences(s, o) /\ Occurrences(s, o) \in Nat
  BY <1>3, <1>5, OccurrencesReversed, ElemOccurrences
<1> HIDE DEF n
<1>7. ASSUME NEW o \in Object
      PROVE  refs'[o] - refs[o] = Occurrences(e, o) - Occurrences(Plain(buf, a), o)
  <2>1. refs'[o] = refs[o] /\ refs[o] \in Nat /\ Plain(buf, a) = s
    BY <1>1, <1>3
  <2> QED BY <2>1, <1>6
<1>8. refs' \in [Object -> Int]
  BY <1>1, <1>3
<1> QED BY <1>1, <1>2, <1>5, <1>7, <1>8, TakesFine

(* An array that a script has not: its cell is taken for a new one.        *)
LEMMA MadeFine ==
  ASSUME Sane, IInv', NEW a \in Array, ~Exists(a), ~Walked(a),
         kind' = kind, held' = held, stack' = stack, fault' = fault,
         NEW e \in Seq(Elem), NEW p \in Seq(Elem), buf' = [buf EXCEPT ![a] = e],
         refs' = Adjusted(p, <<>>),
         kind # "primitive" => \A o \in Object : Occurrences(p, o) = Occurrences(e, o)
  PROVE  Fine
<1>1. buf[a] = NoBuffer
  BY DEF Exists, Walked
<1>2. /\ Ready(stack, a) /\ Content(stack, buf, a) = Plain(buf, a)
  BY NothingWaits, WaitingReady
<1>3. refs \in [Object -> Nat] /\ Plain(buf, a) = <<>> /\ fault' = "none"
  BY <1>1, SaneTypes DEF Plain, Sane
<1> DEFINE q == <<>>
<1>4. q \in Seq(Elem) /\ \A o : Occurrences(q, o) = 0
  BY OccurrencesNothing
<1>5. Plain(buf, a) = q /\ refs' = Adjusted(p, q)
  BY <1>3
<1> HIDE DEF q
<1>6. refs' \in [Object -> Int] /\ (kind = "primitive" => refs' = refs)
  BY <1>3, <1>4, <1>5, AdjustedCounts
<1>7. ASSUME kind # "primitive", NEW o \in Object
      PROVE  refs'[o] - refs[o] = Occurrences(e, o) - Occurrences(Plain(buf, a), o)
  <2>1. refs'[o] = refs[o] + Occurrences(p, o) - Occurrences(q, o)
    BY <1>3, <1>4, <1>5, <1>7, AdjustedCounts
  <2>2. Occurrences(p, o) = Occurrences(e, o) /\ Occurrences(e, o) \in Nat /\ refs[o] \in Nat
    BY <1>3, <1>7, ElemOccurrences
  <2>3. Occurrences(q, o) = 0
    BY <1>4
  <2> QED BY <2>1, <2>2, <2>3, <1>5
<1> QED BY <1>2, <1>3, <1>6, <1>7, TakesFine

LEMMA CreatesFine ==
  ASSUME Sane, IInv', NEW a \in Array, NEW n \in Uints,
         Create(a, n) \/ \E v \in Values : CreateFilled(a, n, v)
  PROVE  Fine
<1>1. n \in Nat /\ Types
  BY WordTypes DEF Sane, IInv
<1>2. CASE Create(a, n)
  <2>1. PICK new \in Constructed(n) :
          /\ buf' = [buf EXCEPT ![a] = new]
          /\ refs' = Adjusted(IF kind = "object" THEN new ELSE <<>>, <<>>)
    BY <1>2 DEF Create
  <2>2. PICK p : p = IF kind = "object" THEN new ELSE <<>>
    OBVIOUS
  <2>3. new \in Seq(Elem)
    BY <1>1, ConstructedTypes
  <2>4. p \in Seq(Elem) /\ refs' = Adjusted(p, <<>>)
    BY <2>1, <2>2, <2>3
  <2>5. \A o \in Object : Occurrences(p, o) = Occurrences(new, o)
    <3>1. kind # "object" => \A o \in Object : Occurrences(new, o) = 0 /\ Occurrences(p, o) = 0
      BY <1>1, <2>2, NoOccurrences, OccurrencesNothing
    <3> QED BY <3>1, <2>2
  <2>6. /\ ~Exists(a) /\ ~Walked(a) /\ kind' = kind /\ held' = held /\ stack' = stack /\ fault' = fault
    BY <1>2 DEF Create, Outside
  <2> QED BY <2>1, <2>3, <2>4, <2>5, <2>6, MadeFine
<1>3. ASSUME NEW v \in Values, CreateFilled(a, n, v) PROVE Fine
  <2> DEFINE e == [k \in 1..n |-> v]
  <2>1. v \in Elem
    BY <1>1, ValuesTypes
  <2>2. e \in Seq(Elem)
    BY <1>1, <2>1
  <2>3. /\ ~Exists(a) /\ ~Walked(a) /\ kind' = kind /\ held' = held /\ stack' = stack /\ fault' = fault
        /\ buf' = [buf EXCEPT ![a] = e] /\ refs' = Adjusted(buf'[a], <<>>)
    BY <1>3 DEF CreateFilled, Outside
  <2> HIDE DEF e
  <2>4. buf'[a] = e
    BY <2>3, SaneTypes DEF Buffered
  <2> QED BY <2>2, <2>3, <2>4, MadeFine
<1> QED BY <1>2, <1>3

(* A scan is over an array that has what it starts with.                   *)
LEMMA ScansFine ==
  ASSUME Sane, NEW g \in Frames, g.op \in {"find", "equal"}, Steady(g, buf),
         \A k \in DOMAIN stack : Apart(g, stack[k]), kind' = kind, held' = held, buf' = buf, refs' = refs, fault' = fault,
         stack' = Pushed(g, stack)
  PROVE  Fine
<1> DEFINE P == Pushed(g, stack)
<1>1. stack \in Seq(Frames) /\ Walking(stack, buf)
  BY SaneTypes
<1>2. Walking(P, buf)
  BY <1>1, WalkingPush
<1>3. ASSUME NEW x \in Array PROVE Content(P, buf, x) = Content(stack, buf, x)
  <2>1. CASE buf[x] = NoBuffer
    BY <2>1 DEF Content
  <2>2. CASE buf[x] # NoBuffer
    <3>1. ~Holds(g, x)
      BY DEF Holds
    <3> QED BY <3>1, <1>1, <1>2, <2>2, ContentPushed
  <2> QED BY <2>1, <2>2
<1> QED BY <1>2, <1>3, SameFine

LEMMA EqualFine ==
  ASSUME Sane, NEW a \in Array, NEW b \in Array, Exists(a), Equal(a, b)
  PROVE  Fine
<1>1. PICK g : g = Frame("equal", a, b, 0, 0)
  OBVIOUS
<1>2. g \in Frames /\ g.op = "equal" /\ g.arr = a /\ g.other = b /\ ~g.moved
  <2>1. g \in Frames
    BY <1>1, MadeFrame
  <2> QED BY <1>1, <2>1 DEF Frame
<1>3. /\ stack = <<>> /\ kind' = kind /\ held' = held /\ buf' = buf /\ refs' = refs /\ fault' = fault
      /\ stack' = Pushed(g, stack) /\ Len(buf[a]) = Len(buf[b])
  BY <1>1 DEF Equal, Outermost, Outside, arrays, Pushed
<1>4. Steady(g, buf)
  BY <1>2, <1>3 DEF Steady
<1>5. \A k \in DOMAIN stack : Apart(g, stack[k])
  BY <1>3
<1> QED BY <1>2, <1>3, <1>4, <1>5, ScansFine

LEMMA FindFine ==
  ASSUME Sane, NEW a \in Array, Exists(a), NEW startAt \in Uints, NEW v \in Values,
         Find(a, startAt, v)
  PROVE  Fine
<1> DEFINE f == Frame("find", a, a, startAt, Len(buf[a]))
<1>1. startAt \in Nat /\ Len(buf[a]) \in Nat /\ v \in Elem
  <2>1. buf[a] \in Seq(Elem)
    BY SaneTypes DEF Exists
  <2>2. v \in Elem
    BY ValuesTypes DEF IInv, Sane
  <2>3. startAt \in Nat
    BY WordTypes
  <2> QED BY <2>1, <2>2, <2>3
<1>2. PICK g : g = [f EXCEPT !.tmp = v]
  OBVIOUS
<1>3. g \in Frames /\ g.op = "find" /\ g.arr = a /\ ~g.moved /\ g.to = Len(buf[a])
  <2>1. f \in Records /\ f.op = "find" /\ f.arr = a /\ f.moved = FALSE /\ f.to = Len(buf[a])
    BY <1>1, MadeFrame DEF Frame
  <2>2. \A x \in Elem : [f EXCEPT !.tmp = x] \in Frames
    BY <1>1, MadeFrame
  <2> HIDE DEF f
  <2>3. g \in Frames
    BY <1>1, <1>2, <2>2
  <2> QED BY <1>2, <2>1, <2>3 DEF Records
<1>4. /\ stack = <<>> /\ kind' = kind /\ held' = held /\ buf' = buf /\ refs' = refs /\ fault' = fault
      /\ stack' = Pushed(g, stack)
  BY <1>2 DEF Find, Outermost, Outside, arrays, Pushed
<1>5. Steady(g, buf)
  BY <1>1, <1>3 DEF Steady
<1>6. \A k \in DOMAIN stack : Apart(g, stack[k])
  BY <1>4
<1> QED BY <1>3, <1>4, <1>5, <1>6, ScansFine

(* Handles of scripts, and nothing else.                                   *)
LEMMA HandlesFine ==
  ASSUME Sane, kind = "handle", kind' = kind, buf' = buf, stack' = stack, fault' = fault,
         held' \in SUBSET Object, refs' \in [Object -> Int],
         \A o \in Object : refs'[o] - refs[o] = Has(held', o) - Has(held, o)
  PROVE  Fine
<1> DEFINE C == All(stack, buf)
           u == refs'
           g == held'
<1>1. C \in [Array -> Seq(Elem)] /\ refs \in [Object -> Nat] /\ Balanced(C, refs, held)
      /\ kind \in Kinds /\ Walking(stack, buf)
  <2>1. C \in [Array -> Seq(Elem)] /\ refs \in [Object -> Nat] /\ kind \in Kinds /\ Walking(stack, buf)
    BY SaneTypes, AllTypes DEF Buffered
  <2> QED BY <2>1 DEF Sane, Careful
<1>2. ASSUME NEW o \in Object
      PROVE  u[o] = Cardinality(Places(C, o)) + Has(g, o) /\ u[o] \in Nat
  <2> HIDE DEF C
  <2>1. refs[o] = Cardinality(Places(C, o)) + Has(held, o) /\ Cardinality(Places(C, o)) \in Nat
    BY <1>1, BalancePlaces DEF Balanced
  <2>2. Has(held, o) \in Nat /\ Has(g, o) \in Nat /\ u[o] \in Int /\ refs[o] \in Int
    BY <1>1 DEF Has
  <2>3. u[o] - refs[o] = Has(g, o) - Has(held, o)
    OBVIOUS
  <2> HIDE DEF u, g
  <2> QED BY <2>1, <2>2, <2>3
<1>3. u \in [Object -> Nat] /\ g \subseteq Object
  BY <1>2
<1>4. Balanced(C, u, g)
  BY <1>2 DEF Balanced
<1> HIDE DEF u, g
<1>5. Careful(kind, stack, buf, u, g)
  BY <1>1, <1>3, <1>4 DEF Careful
<1> QED BY <1>5 DEF Fine, Sane, u, g

LEMMA AtFine ==
  ASSUME Sane, ~reentered', NEW a \in Array, Exists(a), NEW index \in Uints, At(a, index)
  PROVE  Fine
<1> DEFINE s == buf[a]
           x == s[index + 1]
<1>1. s # NoBuffer /\ ~Dying(a) /\ kind # "primitive" /\ kind' = kind
  BY DEF Exists, At, Looks, Counted
<1>2. s \in Seq(Elem) /\ index \in Nat
  BY <1>1, SaneTypes, WordTypes
<1>3. index + 1 \in DOMAIN s /\ x \in Elem
  BY <1>2 DEF At
<1>4. x \in Object /\ x \notin held
  BY <1>3 DEF At, Elem
<1>5. refs[x] > 0
  BY <1>1, <1>3, <1>4, ElementsAlive
<1>6. CASE kind = "object"
  <2>1. held' = held /\ buf' = buf /\ refs' = refs /\ stack' = stack /\ fault' = fault
    BY <1>5, <1>6 DEF At, arrays
  <2>2. Walking(stack, buf') /\ \A y \in Array : Content(stack, buf', y) = Content(stack, buf, y)
    BY <2>1, SaneTypes
  <2> QED BY <1>1, <2>1, <2>2, SameFine
<1>7. CASE kind = "handle"
  <2>1. /\ held' = held \cup {x} /\ refs' = [refs EXCEPT ![x] = @ + 1]
        /\ buf' = buf /\ stack' = stack /\ fault' = fault
    BY <1>5, <1>7 DEF At, arrays
  <2> HIDE DEF x
  <2>2. refs \in [Object -> Nat] /\ held \subseteq Object
    BY SaneTypes
  <2>3. held' \in SUBSET Object /\ refs' \in [Object -> Int]
    BY <1>4, <2>1, <2>2
  <2>4. \A o \in Object : refs'[o] - refs[o] = Has(held', o) - Has(held, o)
    BY <1>4, <2>1, <2>2 DEF Has
  <2> QED BY <1>1, <1>7, <2>1, <2>3, <2>4, HandlesFine
<1>8. kind = "object" \/ kind = "handle"
  BY <1>1, SaneTypes, KindsAssumption
<1> QED BY <1>6, <1>7, <1>8

LEMMA DropsFine ==
  ASSUME Sane, NEW o \in Object, NewObject(o) \/ DropHandle(o)
  PROVE  Fine
<1>1. refs \in [Object -> Nat] /\ held \subseteq Object /\ (kind # "handle" => held = {})
  BY SaneTypes
<1>2. CASE NewObject(o)
  <2>1. /\ kind = "handle" /\ kind' = kind /\ buf' = buf /\ stack' = stack /\ fault' = fault
        /\ refs[o] = 0 /\ refs' = [refs EXCEPT ![o] = 1] /\ held' = held \cup {o}
    BY <1>2 DEF NewObject, arrays
  <2>2. o \notin held
    BY <2>1, ContentAlive
  <2>3. held' \in SUBSET Object /\ refs' \in [Object -> Int]
    BY <1>1, <2>1
  <2>4. \A x \in Object : refs'[x] - refs[x] = Has(held', x) - Has(held, x)
    BY <1>1, <2>1, <2>2 DEF Has
  <2> QED BY <2>1, <2>3, <2>4, HandlesFine
<1>3. CASE DropHandle(o)
  <2>1. kind = "handle" /\ o \in held
    BY <1>1, <1>3 DEF DropHandle
  <2>2. refs[o] > 0
    BY <2>1, ContentAlive
  <2>3. /\ kind' = kind /\ buf' = buf /\ stack' = stack /\ fault' = fault
        /\ refs' = [refs EXCEPT ![o] = @ - 1] /\ held' = held \ {o}
    BY <1>3, <2>2 DEF DropHandle, arrays
  <2>4. held' \in SUBSET Object /\ refs' \in [Object -> Int]
    BY <1>1, <2>3
  <2>5. \A x \in Object : refs'[x] - refs[x] = Has(held', x) - Has(held, x)
    BY <1>1, <2>1, <2>3 DEF Has
  <2> QED BY <2>1, <2>3, <2>4, <2>5, HandlesFine
<1> QED BY <1>2, <1>3

-----------------------------------------------------------------------------
(* Steps of the innermost walk.                                            *)

(* What a walk leaves of its array.                                        *)
View(f, s) == IF f.op \in {"sort", "destruct"} THEN Shown(f, s) ELSE s

LEMMA TopStacked ==
  ASSUME Sane, stack # <<>>
  PROVE  /\ stack = Pushed(Top, Tail(stack)) /\ Top \in Frames /\ Tail(stack) \in Seq(Frames)
         /\ Walking(Tail(stack), buf) /\ Steady(Top, buf)
         /\ \A k \in DOMAIN Tail(stack) : Apart(Top, Tail(stack)[k])
         /\ Top.arr \in Array /\ Top.other \in Array
         /\ buf[Top.arr] # NoBuffer /\ buf[Top.arr] \in Seq(Elem)
         /\ buf[Top.other] # NoBuffer /\ buf[Top.other] \in Seq(Elem)
<1>1. Types /\ stack \in Seq(Frames) /\ Walking(stack, buf)
  BY SaneTypes DEF Sane, IInv
<1>2. /\ 1 \in DOMAIN stack /\ Top = stack[1] /\ Top \in Frames /\ Tail(stack) \in Seq(Frames)
  BY <1>1, TopFrame
<1>3. stack = Pushed(Top, Tail(stack))
  <2>1. \A s \in Seq(Frames) : s # <<>> => s = <<Head(s)>> \o Tail(s)
    OBVIOUS
  <2> QED BY <2>1, <1>1 DEF Pushed, Top
<1>4. /\ Walking(Tail(stack), buf) /\ Steady(Top, buf)
      /\ \A k \in DOMAIN Tail(stack) : Apart(Top, Tail(stack)[k])
  <2> DEFINE f == Top
             T == Tail(stack)
  <2>1. f \in Frames /\ T \in Seq(Frames) /\ Walking(Pushed(f, T), buf)
    BY <1>1, <1>2, <1>3
  <2> HIDE DEF f, T
  <2>2. Walking(T, buf) /\ Steady(f, buf) /\ \A k \in DOMAIN T : Apart(f, T[k])
    BY <2>1, WalkingPop
  <2> QED BY <2>2 DEF f, T
<1>5. /\ Top.arr \in Array /\ Top.other \in Array /\ buf[Top.arr] # NoBuffer /\ buf[Top.other] # NoBuffer
  BY <1>2, SaneTypes
<1>6. buf[Top.arr] \in Seq(Elem) /\ buf[Top.other] \in Seq(Elem)
  BY <1>5, SaneTypes
<1> QED BY <1>2, <1>3, <1>4, <1>5, <1>6

(* The other walks and the other arrays, when the array of the innermost   *)
(* walk changes.                                                           *)
LEMMA OthersStay ==
  ASSUME NEW f \in Frames, NEW T \in Seq(Frames), NEW b, NEW c, Buffered(b), Buffered(c),
         Walking(T, b), \A k \in DOMAIN T : Apart(f, T[k]), Writes(f),
         \A k \in DOMAIN T : T[k].arr \in Array /\ T[k].other \in Array,
         \A x \in Array : x # f.arr => c[x] = b[x]
  PROVE  /\ Walking(T, c)
         /\ \A x \in Array : x # f.arr => Content(T, c, x) = Content(T, b, x)
         /\ \A k \in DOMAIN T : ~Holds(T[k], f.arr)
         /\ Content(T, c, f.arr) = Plain(c, f.arr) /\ Content(T, b, f.arr) = Plain(b, f.arr)
<1>1. \A k \in DOMAIN T :
        \/ f.arr \notin {T[k].arr, T[k].other}
        \/ T[k].op = "copy" /\ T[k].how = "waiting"
  BY DEF Apart
<1>2. Walking(T, c)
  <2>1. \A k \in DOMAIN T :
          \/ T[k].op = "copy" /\ T[k].how = "waiting"
          \/ c[T[k].arr] = b[T[k].arr] /\ c[T[k].other] = b[T[k].other]
    BY <1>1
  <2> QED BY <2>1, WalkingElsewhere
<1>3. \A x \in Array : x # f.arr => Content(T, c, x) = Content(T, b, x)
  BY <1>2, ContentElsewhere
<1>4. \A k \in DOMAIN T : ~Holds(T[k], f.arr)
  BY <1>1 DEF Holds
<1>5. Content(T, c, f.arr) = Plain(c, f.arr) /\ Content(T, b, f.arr) = Plain(b, f.arr)
  BY <1>4, ContentPlain
<1> QED BY <1>2, <1>3, <1>4, <1>5

(* Contents of the array of the innermost walk.                            *)
LEMMA ContentView ==
  ASSUME NEW f \in Frames, NEW T \in Seq(Frames), NEW b, Walking(Pushed(f, T), b),
         Writes(f), b[f.arr] # NoBuffer, Content(T, b, f.arr) = Plain(b, f.arr)
  PROVE  /\ Content(Pushed(f, T), b, f.arr) = View(f, b[f.arr])
         /\ \A x : x # f.arr => Content(Pushed(f, T), b, x) = Content(T, b, x)
<1>1. Content(Pushed(f, T), b, f.arr) = View(f, b[f.arr])
  <2>1. CASE f.op \in {"sort", "destruct"}
    <3>1. Holds(f, f.arr)
      BY <2>1 DEF Holds
    <3> QED BY <3>1, <2>1, ContentPushed DEF View
  <2>2. CASE f.op \notin {"sort", "destruct"}
    <3>1. ~Holds(f, f.arr)
      BY <2>2 DEF Holds
    <3>2. Content(Pushed(f, T), b, f.arr) = Content(T, b, f.arr)
      BY <3>1, ContentPushed
    <3> QED BY <3>2, <2>2 DEF View, Plain
  <2> QED BY <2>1, <2>2
<1>2. ASSUME NEW x, x # f.arr PROVE Content(Pushed(f, T), b, x) = Content(T, b, x)
  <2>1. CASE b[x] = NoBuffer
    BY <2>1 DEF Content
  <2>2. CASE b[x] # NoBuffer
    <3>1. ~Holds(f, x)
      BY <1>2 DEF Holds
    <3> QED BY <3>1, <2>2, ContentPushed
  <2> QED BY <2>1, <2>2
<1> QED BY <1>1, <1>2

(* It goes on, and references follow what it does to its array.            *)
LEMMA TopGoes ==
  ASSUME Sane, stack # <<>>, Writes(Top), IInv', kind' = kind, held' = held, fault' = fault,
         NEW g \in Frames, g.op = Top.op, g.arr = Top.arr, g.other = Top.other,
         Steady(g, buf'), Goes(g), NEW e \in Seq(Elem), buf' = [buf EXCEPT ![Top.arr] = e],
         refs' \in [Object -> Int], kind = "primitive" => refs' = refs,
         kind # "primitive" => \A o \in Object :
           refs'[o] - refs[o] =
             Occurrences(View(g, e), o) - Occurrences(View(Top, buf[Top.arr]), o)
  PROVE  Fine
<1> DEFINE f == Top
           T == Tail(stack)
           a == f.arr
           c == buf'
           u == refs'
<1>1. /\ stack = Pushed(f, T) /\ f \in Frames /\ T \in Seq(Frames) /\ Walking(T, buf)
      /\ \A k \in DOMAIN T : Apart(f, T[k])
      /\ a \in Array /\ buf[a] # NoBuffer
  BY TopStacked
<1>2. /\ Buffered(buf) /\ Walking(stack, buf) /\ kind \in Kinds /\ refs \in [Object -> Nat]
      /\ held \subseteq Object /\ (kind # "handle" => held = {})
  BY SaneTypes
<1>3. Buffered(c) /\ stack' \in Seq(Frames)
  BY DEF IInv, Types, Buffered
<1>4. stack' = Pushed(g, T) /\ Pushed(g, T) \in Seq(Frames) /\ stack \in Seq(Frames)
  BY <1>1, <1>3, SaneTypes DEF Goes, Pushed
<1>5. c[a] = e /\ e # NoBuffer /\ \A x \in Array : x # a => c[x] = buf[x]
  BY <1>1, <1>2, BufferTypes DEF Buffered
<1>6. Careful(kind, stack, buf, refs, held)
  BY DEF Sane
<1>7. Writes(f) /\ Steady(g, c) /\ g.op = f.op /\ g.arr = a /\ g.other = f.other
  OBVIOUS
<1>8. kind # "primitive" => \A o \in Object :
        u[o] - refs[o] = Occurrences(View(g, e), o) - Occurrences(View(f, buf[a]), o)
  OBVIOUS
<1>9. \A k \in DOMAIN T : T[k].arr \in Array /\ T[k].other \in Array
  <2> HIDE DEF T
  <2>1. \A k \in DOMAIN T : T[k] \in Frames
    BY <1>1
  <2> QED BY <2>1, FrameTypes
<1>u. u \in [Object -> Int] /\ (kind = "primitive" => u = refs)
  OBVIOUS
<1> HIDE DEF f, T, a, c, u
<1>10. /\ Walking(T, c) /\ \A x \in Array : x # a => Content(T, c, x) = Content(T, buf, x)
       /\ Content(T, c, a) = Plain(c, a) /\ Content(T, buf, a) = Plain(buf, a)
  <2>1. Writes(f) /\ \A x \in Array : x # f.arr => c[x] = buf[x]
    BY <1>5, <1>7 DEF a
  <2>2. \A k \in DOMAIN T : Apart(f, T[k])
    BY <1>1
  <2>3. /\ f \in Frames /\ T \in Seq(Frames) /\ Buffered(buf) /\ Buffered(c) /\ Walking(T, buf)
        /\ \A k \in DOMAIN T : T[k].arr \in Array /\ T[k].other \in Array
    BY <1>1, <1>2, <1>3, <1>9
  <2>4. /\ Walking(T, c)
        /\ \A x \in Array : x # f.arr => Content(T, c, x) = Content(T, buf, x)
        /\ Content(T, c, f.arr) = Plain(c, f.arr) /\ Content(T, buf, f.arr) = Plain(buf, f.arr)
    BY <2>1, <2>2, <2>3, OthersStay
  <2> QED BY <2>4 DEF a
<1>11. \A k \in DOMAIN T : Apart(g, T[k])
  BY <1>1, <1>7 DEF Apart, Writes, a
<1>12. Walking(Pushed(g, T), c)
  BY <1>1, <1>7, <1>10, <1>11, WalkingPush
<1>13. /\ Content(stack, buf, a) = View(f, buf[a])
       /\ \A x : x # a => Content(stack, buf, x) = Content(T, buf, x)
  <2>1. Walking(Pushed(f, T), buf)
    BY <1>1, <1>2
  <2>2. /\ Content(Pushed(f, T), buf, f.arr) = View(f, buf[f.arr])
        /\ \A x : x # f.arr => Content(Pushed(f, T), buf, x) = Content(T, buf, x)
    BY <1>1, <1>7, <1>10, <2>1, ContentView DEF a
  <2> QED BY <2>2, <1>1 DEF a
<1>14. /\ Content(Pushed(g, T), c, a) = View(g, e)
       /\ \A x : x # a => Content(Pushed(g, T), c, x) = Content(T, c, x)
  <2>1. Writes(g) /\ g.arr = a /\ c[g.arr] # NoBuffer /\ Content(T, c, g.arr) = Plain(c, g.arr)
    BY <1>5, <1>7, <1>10 DEF Writes
  <2>2. /\ Content(Pushed(g, T), c, g.arr) = View(g, c[g.arr])
        /\ \A x : x # g.arr => Content(Pushed(g, T), c, x) = Content(T, c, x)
    BY <1>1, <1>12, <2>1, ContentView
  <2> QED BY <2>1, <2>2, <1>5
<1>15. Changing(kind, stack, buf, refs, held, Pushed(g, T), c, u, held, a)
  <2>1. \A x \in Array : x # a => Content(Pushed(g, T), c, x) = Content(stack, buf, x)
    BY <1>10, <1>13, <1>14
  <2>2. ASSUME kind # "primitive", NEW o \in Object
        PROVE  u[o] - refs[o] = Occurrences(Content(Pushed(g, T), c, a), o)
                                  - Occurrences(Content(stack, buf, a), o) + Has(held, o) - Has(held, o)
    <3>1. u[o] - refs[o] = Occurrences(View(g, e), o) - Occurrences(View(f, buf[a]), o)
      BY <2>2, <1>8
    <3>2. ASSUME NEW p, NEW q, NEW m \in Int, p = q, q \in Int PROVE p = q + m - m
      BY <3>2
    <3>3. Has(held, o) \in Int /\ u[o] - refs[o] \in Int
      BY <1>2, <1>u DEF Has
    <3>4. Occurrences(View(g, e), o) - Occurrences(View(f, buf[a]), o) \in Int
      BY <3>1, <3>3
    <3> QED BY <3>1, <3>2, <3>3, <3>4, <1>13, <1>14
  <2> QED BY <2>1, <2>2, <1>u DEF Changing
<1>16. Careful(kind, Pushed(g, T), c, u, held)
  <2>1. held \in SUBSET Object
    BY <1>2
  <2> QED BY <2>1, <1>1, <1>2, <1>3, <1>4, <1>6, <1>12, <1>15, <1>u, KeepsCareful
<1> QED BY <1>4, <1>16 DEF Fine, Sane, c, u

(* It goes on, and nothing else changes.                                   *)
LEMMA TopMoves ==
  ASSUME Sane, stack # <<>>, kind' = kind, held' = held, fault' = fault, refs' = refs, buf' = buf,
         NEW g \in Frames, g.op = Top.op, g.arr = Top.arr, g.other = Top.other,
         Steady(g, buf), Goes(g),
         g.op \in {"sort", "destruct"} => Shown(g, buf[g.arr]) = Shown(Top, buf[g.arr])
  PROVE  Fine
<1> DEFINE f == Top
           T == Tail(stack)
<1>1. /\ stack = Pushed(f, T) /\ f \in Frames /\ T \in Seq(Frames) /\ Walking(T, buf)
      /\ \A k \in DOMAIN T : Apart(f, T[k])
  BY TopStacked
<1>2. Walking(stack, buf)
  BY SaneTypes
<1>3. g.op = f.op /\ g.arr = f.arr /\ g.other = f.other /\ stack' = Pushed(g, T)
      /\ (g.op \in {"sort", "destruct"} => Shown(g, buf[g.arr]) = Shown(f, buf[g.arr]))
  BY DEF Goes, Pushed
<1> HIDE DEF f, T
<1>4. \A k \in DOMAIN T : Apart(g, T[k])
  BY <1>1, <1>3 DEF Apart, Writes
<1>5. Walking(Pushed(g, T), buf)
  BY <1>1, <1>3, <1>4, WalkingPush
<1>6. ASSUME NEW x \in Array PROVE Content(Pushed(g, T), buf, x) = Content(stack, buf, x)
  <2>1. CASE buf[x] = NoBuffer
    BY <2>1 DEF Content
  <2>2. CASE buf[x] # NoBuffer
    <3>1. Walking(Pushed(f, T), buf)
      BY <1>1, <1>2
    <3>2. /\ Holds(f, x) => Content(Pushed(f, T), buf, x) = Shown(f, buf[x])
          /\ ~Holds(f, x) => Content(Pushed(f, T), buf, x) = Content(T, buf, x)
      BY <1>1, <2>2, <3>1, ContentPushed
    <3>3. /\ Holds(g, x) => Content(Pushed(g, T), buf, x) = Shown(g, buf[x])
          /\ ~Holds(g, x) => Content(Pushed(g, T), buf, x) = Content(T, buf, x)
      BY <1>1, <1>5, <2>2, ContentPushed
    <3>4. (Holds(g, x) <=> Holds(f, x)) /\ (Holds(g, x) => Shown(g, buf[x]) = Shown(f, buf[x]))
      BY <1>3 DEF Holds
    <3> QED BY <3>2, <3>3, <3>4, <1>1
  <2> QED BY <2>1, <2>2
<1> DEFINE P == Pushed(g, T)
<1>7. P = Pushed(g, T) /\ stack' = P /\ Walking(P, buf')
      /\ \A x \in Array : Content(P, buf', x) = Content(stack, buf, x)
  BY <1>3, <1>5, <1>6
<1> HIDE DEF P
<1> QED BY <1>7, SameFine

(* It ends, and has stored to nothing.                                     *)
LEMMA TopLeaves ==
  ASSUME Sane, stack # <<>>, ~Writes(Top) \/ Top.op = "copy",
         kind' = kind, held' = held, fault' = fault, refs' = refs, buf' = buf, Ends
  PROVE  Fine
<1> DEFINE f == Top
           T == Tail(stack)
<1>1. /\ stack = Pushed(f, T) /\ f \in Frames /\ T \in Seq(Frames) /\ Walking(T, buf)
  BY TopStacked
<1>2. Walking(Pushed(f, T), buf)
  BY <1>1, SaneTypes
<1>3. stack' = T
  BY DEF Ends
<1>4. \A x : ~Holds(f, x)
  BY DEF Writes, Holds
<1> HIDE DEF f, T
<1>5. ASSUME NEW x \in Array PROVE Content(T, buf, x) = Content(stack, buf, x)
  <2>1. CASE buf[x] = NoBuffer
    BY <2>1 DEF Content
  <2>2. CASE buf[x] # NoBuffer
    <3>1. Content(Pushed(f, T), buf, x) = Content(T, buf, x)
      BY <1>1, <1>2, <1>4, <2>2, ContentPushed
    <3> QED BY <3>1, <1>1
  <2> QED BY <2>1, <2>2
<1>6. Walking(T, buf') /\ \A x \in Array : Content(T, buf', x) = Content(stack, buf, x)
  BY <1>1, <1>5
<1> QED BY <1>3, <1>6, SameFine

(* It ends, and its array is what it has made of it.                       *)
LEMMA TopEnds ==
  ASSUME Sane, stack # <<>>, Writes(Top), IInv', kind' = kind, held' = held, fault' = fault,
         refs' = refs, Ends, NEW e \in Seq(Elem) \cup {NoBuffer}, buf' = [buf EXCEPT ![Top.arr] = e],
         kind # "primitive" => \A o \in Object :
           Occurrences(IF e = NoBuffer THEN <<>> ELSE e, o) = Occurrences(View(Top, buf[Top.arr]), o)
  PROVE  Fine
<1> DEFINE f == Top
           T == Tail(stack)
           a == f.arr
           c == buf'
           z == IF e = NoBuffer THEN <<>> ELSE e
<1>1. /\ stack = Pushed(f, T) /\ f \in Frames /\ T \in Seq(Frames) /\ Walking(T, buf)
      /\ \A k \in DOMAIN T : Apart(f, T[k])
      /\ a \in Array /\ buf[a] # NoBuffer
  BY TopStacked
<1>2. /\ Buffered(buf) /\ Walking(stack, buf) /\ kind \in Kinds /\ refs \in [Object -> Nat]
      /\ held \subseteq Object /\ (kind # "handle" => held = {}) /\ stack \in Seq(Frames)
  BY SaneTypes
<1>3. Buffered(c) /\ stack' = T
  BY DEF IInv, Types, Buffered, Ends
<1>5. c[a] = e /\ \A x \in Array : x # a => c[x] = buf[x]
  BY <1>1, <1>2 DEF Buffered
<1>6. Careful(kind, stack, buf, refs, held) /\ Writes(f)
  BY DEF Sane
<1>8. kind # "primitive" => \A o \in Object : Occurrences(z, o) = Occurrences(View(f, buf[a]), o)
  OBVIOUS
<1>9. \A k \in DOMAIN T : T[k].arr \in Array /\ T[k].other \in Array
  <2> HIDE DEF T
  <2>1. \A k \in DOMAIN T : T[k] \in Frames
    BY <1>1
  <2> QED BY <2>1, FrameTypes
<1>z. z \in Seq(Elem)
  OBVIOUS
<1>p. Plain(c, a) = z
  BY <1>5 DEF Plain
<1> HIDE DEF f, T, a, c, z
<1>10. /\ Walking(T, c) /\ \A x \in Array : x # a => Content(T, c, x) = Content(T, buf, x)
       /\ Content(T, c, a) = Plain(c, a) /\ Content(T, buf, a) = Plain(buf, a)
  BY <1>1, <1>2, <1>3, <1>5, <1>6, <1>9, OthersStay DEF a
<1>13. /\ Content(stack, buf, a) = View(f, buf[a])
       /\ \A x : x # a => Content(stack, buf, x) = Content(T, buf, x)
  <2>1. Walking(Pushed(f, T), buf)
    BY <1>1, <1>2
  <2>2. /\ Content(Pushed(f, T), buf, f.arr) = View(f, buf[f.arr])
        /\ \A x : x # f.arr => Content(Pushed(f, T), buf, x) = Content(T, buf, x)
    BY <1>1, <1>6, <1>10, <2>1, ContentView DEF a
  <2> QED BY <2>2, <1>1 DEF a
<1>15. Changing(kind, stack, buf, refs, held, T, c, refs, held, a)
  <2>1. \A x \in Array : x # a => Content(T, c, x) = Content(stack, buf, x)
    BY <1>10, <1>13
  <2>2. ASSUME kind # "primitive", NEW o \in Object
        PROVE  refs[o] - refs[o] = Occurrences(Content(T, c, a), o)
                                  - Occurrences(Content(stack, buf, a), o) + Has(held, o) - Has(held, o)
    <3>1. Occurrences(Content(T, c, a), o) = Occurrences(Content(stack, buf, a), o)
      BY <1>8, <1>10, <1>13, <1>p, <2>2
    <3>2. Occurrences(Content(T, c, a), o) \in Nat
      BY <1>10, <1>p, <1>z, ElemOccurrences
    <3>3. Has(held, o) \in Int /\ refs[o] \in Int
      BY <1>2 DEF Has
    <3> QED BY <3>1, <3>2, <3>3
  <2> QED BY <2>1, <2>2 DEF Changing
<1>16. Careful(kind, T, c, refs, held)
  <2>1. held \in SUBSET Object /\ refs \in [Object -> Int]
    BY <1>2
  <2> QED BY <2>1, <1>1, <1>2, <1>3, <1>6, <1>10, <1>15, KeepsCareful
<1> QED BY <1>3, <1>16 DEF Fine, Sane, c

(* An object is destructed where its slot is the next.                     *)
LEMMA Destructed ==
  ASSUME NEW f \in Frames, f.op = "destruct", NEW s \in Seq(Elem), f.to <= Len(s), f.j < f.to,
         NEW g, g.op = "destruct", g.from = f.from, g.j = f.j + 1, NEW o
  PROVE  /\ Occurrences(View(f, s), o) \in Nat /\ Occurrences(View(g, s), o) \in Nat
         /\ Occurrences(View(f, s), o) = One(s[f.j + 1], o) + Occurrences(View(g, s), o)
<1>1. /\ f.from \in Nat /\ f.to \in Nat /\ f.j \in Nat /\ f.from <= f.to /\ Len(s) \in Nat
  BY FrameTypes
<1>2. f.from \in 0..Len(s) /\ f.j < Len(s)
  BY <1>1
<1> DEFINE p == SubSeq(s, 1, f.from)
           q == SubSeq(s, f.j + 1, Len(s))
           r == SubSeq(s, f.j + 2, Len(s))
<1>3. p \in Seq(Elem)
  BY <1>2, OccurrencesCut
<1>4. q \in Seq(Elem) /\ r \in Seq(Elem) /\ Occurrences(q, o) = One(s[f.j + 1], o) + Occurrences(r, o)
  BY <1>1, <1>2, OccurrencesNext
<1>5. f.j + 1 + 1 = f.j + 2
  BY <1>1
<1>6. View(f, s) = p \o q /\ View(g, s) = p \o r
  BY <1>5 DEF View, Shown
<1> HIDE DEF p, q, r
<1>7. /\ Occurrences(p \o q, o) = Occurrences(p, o) + Occurrences(q, o)
      /\ Occurrences(p \o r, o) = Occurrences(p, o) + Occurrences(r, o)
  BY <1>3, <1>4, OccurrencesJoined
<1>8. Occurrences(p, o) \in Nat /\ Occurrences(q, o) \in Nat /\ Occurrences(r, o) \in Nat
  BY <1>3, <1>4, ElemOccurrences
<1>9. One(s[f.j + 1], o) \in Nat
  BY DEF One
<1> QED BY <1>4, <1>6, <1>7, <1>8, <1>9

(* What is next to be destructed is alive.                                 *)
LEMMA NextAlive ==
  ASSUME Sane, stack # <<>>, Top.op = "destruct", Top.j < Top.to, kind # "primitive",
         buf[Top.arr][Top.j + 1] \in Object
  PROVE  refs[buf[Top.arr][Top.j + 1]] > 0
<1> DEFINE f == Top
           T == Tail(stack)
           a == f.arr
           s == buf[a]
           o == s[f.j + 1]
<1>1. /\ stack = Pushed(f, T) /\ f \in Frames /\ T \in Seq(Frames) /\ Steady(f, buf)
      /\ \A k \in DOMAIN T : Apart(f, T[k])
      /\ a \in Array /\ s # NoBuffer /\ s \in Seq(Elem)
  BY TopStacked
<1>2. Walking(Pushed(f, T), buf)
  BY <1>1, SaneTypes
<1>3. f.op = "destruct" /\ f.j < f.to /\ o \in Object
  OBVIOUS
<1> HIDE DEF f, T, s, o
<1>4. Content(stack, buf, a) = View(f, s)
  <2>1. Holds(f, a)
    BY <1>3 DEF Holds
  <2>2. Content(Pushed(f, T), buf, a) = Shown(f, buf[a])
    BY <1>1, <1>2, <2>1, ContentPushed DEF s
  <2> QED BY <2>2, <1>1, <1>3 DEF View, s
<1> DEFINE g == [op |-> "destruct", from |-> f.from, j |-> f.j + 1]
<1>5. g.op = "destruct" /\ g.from = f.from /\ g.j = f.j + 1
  OBVIOUS
<1> HIDE DEF g
<1>6. f.to <= Len(s)
  BY <1>1, <1>3 DEF Steady, s
<1>7. /\ Occurrences(View(f, s), o) \in Nat /\ Occurrences(View(g, s), o) \in Nat
      /\ Occurrences(View(f, s), o) = One(s[f.j + 1], o) + Occurrences(View(g, s), o)
  BY <1>1, <1>3, <1>5, <1>6, Destructed
<1>8. One(s[f.j + 1], o) = 1
  BY DEF One, o
<1>9. refs[o] \in Nat /\ Occurrences(Content(stack, buf, a), o) <= refs[o]
  BY <1>1, <1>3, ContentAlive
<1>10. Occurrences(View(f, s), o) <= refs[o]
  BY <1>4, <1>9
<1>11. refs[o] > 0
  BY <1>7, <1>8, <1>9, <1>10
<1> QED BY <1>11 DEF o, s, f

LEMMA DestructsNext ==
  ASSUME Sane, stack # <<>>, Top.op = "destruct", Top.j < Top.to, IInv',
         kind' = kind, held' = held, fault' = fault, buf' = buf,
         NEW p \in {"run", "script"}, Goes([Top EXCEPT !.j = @ + 1, !.phase = p]),
         refs' \in [Object -> Int], kind = "primitive" => refs' = refs,
         kind # "primitive" => \A o \in Object :
           refs'[o] = refs[o] - One(buf[Top.arr][Top.j + 1], o)
  PROVE  Fine
<1> DEFINE f == Top
           s == buf[f.arr]
           g == [f EXCEPT !.j = @ + 1, !.phase = p]
<1>1. f \in Frames /\ Steady(f, buf) /\ f.arr \in Array /\ s # NoBuffer /\ s \in Seq(Elem)
  BY TopStacked
<1>2. f \in Records /\ f.op = "destruct" /\ f.j < f.to /\ refs \in [Object -> Nat] /\ Buffered(buf)
  BY <1>1, FrameTypes, SaneTypes
<1>3. g \in Frames
  <2> HIDE DEF f
  <2> QED BY <1>1, <1>2, SteppedFrame
<1>4. /\ g.op = "destruct" /\ g.arr = f.arr /\ g.other = f.other /\ g.from = f.from /\ g.to = f.to
      /\ g.j = f.j + 1 /\ g.how = f.how /\ g.moved = f.moved
  <2> HIDE DEF f
  <2> QED BY <1>2 DEF Records
<1>5. Goes(g)
  OBVIOUS
<1>6. buf' = [buf EXCEPT ![f.arr] = s]
  BY <1>1, <1>2 DEF Buffered
<1> HIDE DEF g
<1>7. Steady(g, buf')
  BY <1>1, <1>2, <1>4 DEF Steady
<1>8. f.to <= Len(s)
  BY <1>1, <1>2 DEF Steady
<1>9. ASSUME kind # "primitive", NEW o \in Object
      PROVE  refs'[o] - refs[o] = Occurrences(View(g, s), o) - Occurrences(View(f, s), o)
  <2>1. /\ Occurrences(View(f, s), o) \in Nat /\ Occurrences(View(g, s), o) \in Nat
        /\ Occurrences(View(f, s), o) = One(s[f.j + 1], o) + Occurrences(View(g, s), o)
    <3> HIDE DEF f, s
    <3> QED BY <1>1, <1>2, <1>4, <1>8, Destructed
  <2>2. refs'[o] = refs[o] - One(s[f.j + 1], o) /\ refs[o] \in Nat
    BY <1>2, <1>9
  <2>3. One(s[f.j + 1], o) \in Nat
    BY DEF One
  <2> QED BY <2>1, <2>2, <2>3
<1>10. Writes(Top)
  BY DEF Writes
<1> QED BY <1>1, <1>3, <1>4, <1>5, <1>6, <1>7, <1>9, <1>10, TopGoes

LEMMA DestructFine ==
  ASSUME Sane, IInv', stack # <<>>, DestructStep
  PROVE  Fine
<1> DEFINE f == Top
           s == buf[f.arr]
           x == s[f.j + 1]
<1>1. f \in Frames /\ Steady(f, buf) /\ f.arr \in Array /\ s # NoBuffer /\ s \in Seq(Elem)
  BY TopStacked
<1>2. f.op = "destruct" /\ f.j < f.to /\ kind' = kind /\ held' = held
  BY DEF DestructStep, Inside
<1>3. f.j \in Nat /\ f.to \in Nat /\ f.to <= Len(s) /\ ~f.moved /\ f \in Records
  BY <1>1, <1>2, FrameTypes DEF Steady
<1>4. ~(f.j >= Len(s)) /\ f.j + 1 \in DOMAIN s
  BY <1>1, <1>2, <1>3
<1>5. x \in Elem /\ refs \in [Object -> Nat]
  BY <1>1, <1>4, SaneTypes
<1>6. CASE ~Counted \/ x = Null
  <2>1. buf' = buf /\ refs' = refs /\ fault' = fault /\ Goes([f EXCEPT !.j = @ + 1])
    BY <1>3, <1>4, <1>6 DEF DestructStep, arrays
  <2>2. PICK p \in {"run", "script"} : p = f.phase
    BY <1>3 DEF Records
  <2>3. [f EXCEPT !.j = @ + 1, !.phase = p] = [f EXCEPT !.j = @ + 1]
    <3> HIDE DEF f
    <3> QED BY <1>3, <2>2 DEF Records
  <2>4. ASSUME kind # "primitive", NEW o \in Object PROVE refs'[o] = refs[o] - One(x, o)
    <3>1. x # o
      BY <1>6, <2>4, SetsAssumption DEF Counted
    <3>2. One(x, o) = 0
      BY <3>1 DEF One
    <3> QED BY <3>2, <2>1, <1>5
  <2>5. refs' \in [Object -> Int]
    BY <1>5, <2>1
  <2> QED BY <1>2, <2>1, <2>2, <2>3, <2>4, <2>5, DestructsNext
<1>7. CASE Counted /\ x # Null
  <2>1. kind # "primitive" /\ x \in Object
    BY <1>5, <1>7 DEF Counted, Elem
  <2>2. refs[x] > 0
    BY <1>2, <2>1, NextAlive
  <2>3. PICK p : p = IF refs[x] = 1 THEN "script" ELSE "run"
    OBVIOUS
  <2>4. /\ buf' = buf /\ refs' = [refs EXCEPT ![x] = @ - 1] /\ fault' = fault
        /\ Goes([f EXCEPT !.j = @ + 1, !.phase = p])
    BY <1>3, <1>4, <1>7, <2>2, <2>3 DEF DestructStep, arrays
  <2>5. p \in {"run", "script"}
    BY <2>3
  <2>6. \A o \in Object : refs'[o] = refs[o] - One(x, o)
    <3> HIDE DEF x
    <3> QED BY <1>5, <2>1, <2>4 DEF One
  <2>7. refs' \in [Object -> Int]
    <3> HIDE DEF x
    <3> QED BY <1>5, <2>1, <2>4
  <2> QED BY <1>2, <2>1, <2>4, <2>5, <2>6, <2>7, DestructsNext
<1> QED BY <1>6, <1>7

(* What has been destructed is gone.                                       *)
LEMMA DestructEndsFine ==
  ASSUME Sane, IInv', stack # <<>>, DestructEnds
  PROVE  Fine
<1> DEFINE f == Top
           s == buf[f.arr]
           w == Without(s, f.from, f.to - f.from)
<1>1. f \in Frames /\ Steady(f, buf) /\ f.arr \in Array /\ s # NoBuffer /\ s \in Seq(Elem)
  BY TopStacked
<1>2. f.op = "destruct" /\ f.j = f.to /\ kind' = kind /\ held' = held
  BY DEF DestructEnds, Inside
<1>3. /\ f.j \in Nat /\ f.to \in Nat /\ f.from \in Nat /\ f.from <= f.to
      /\ f.how \in {"close", "delete"}
  BY <1>1, <1>2, FrameTypes
<1>4. f.to <= Len(s) /\ (f.how = "delete" => f.from = 0 /\ f.to = Len(s))
  BY <1>1, <1>2 DEF Steady
<1>5. ~(Len(s) < f.to)
  BY <1>1, <1>3, <1>4
<1>6. /\ buf' = [buf EXCEPT ![f.arr] = IF f.how = "close" THEN w ELSE NoBuffer]
      /\ Ends /\ refs' = refs /\ fault' = fault
  BY <1>5 DEF DestructEnds
<1>7. View(f, s) = w
  <2>1. f.from + (f.to - f.from) + 1 = f.j + 1
    BY <1>2, <1>3
  <2> QED BY <2>1, <1>2 DEF View, Shown, Without
<1>8. w \in Seq(Elem)
  <2>1. View(f, s) \in Seq(Elem)
    BY <1>1, <1>2, <1>4, ShownTypes DEF View
  <2> QED BY <2>1, <1>7
<1>9. f.how = "delete" => w = <<>>
  <2>1. ASSUME f.how = "delete" PROVE SubSeq(s, 1, 0) \o SubSeq(s, Len(s) + 1, Len(s)) = <<>>
    BY <1>1
  <2>2. ASSUME f.how = "delete" PROVE f.from = 0 /\ 0 + (Len(s) - 0) + 1 = Len(s) + 1 /\ f.to = Len(s)
    BY <1>1, <1>4, <2>2
  <2> QED BY <2>1, <2>2 DEF Without
<1>10. Writes(Top)
  BY <1>2 DEF Writes
<1> HIDE DEF w
<1>11. PICK e : e = IF f.how = "close" THEN w ELSE NoBuffer
  OBVIOUS
<1>12. e \in Seq(Elem) \cup {NoBuffer} /\ buf' = [buf EXCEPT ![Top.arr] = e]
  BY <1>6, <1>8, <1>11
<1>13. (IF e = NoBuffer THEN <<>> ELSE e) = View(Top, buf[Top.arr])
  <2>1. w # NoBuffer
    BY <1>8, BufferTypes
  <2> QED BY <1>3, <1>7, <1>9, <1>11, <2>1
<1> QED BY <1>2, <1>6, <1>10, <1>12, <1>13, TopEnds

LEMMA ReturnsFine ==
  ASSUME Sane, IInv', stack # <<>>, DestructorReturns
  PROVE  Fine
<1> DEFINE f == Top
           g == [f EXCEPT !.phase = "run"]
<1>1. f \in Frames /\ Steady(f, buf)
  BY TopStacked
<1>2. /\ f.op \in {"destruct", "copy"} /\ Goes(g) /\ kind' = kind /\ held' = held
      /\ buf' = buf /\ refs' = refs /\ fault' = fault
  BY DEF DestructorReturns, Inside, arrays
<1>3. g \in Frames
  <2> HIDE DEF f
  <2> QED BY <1>1, <1>2, SteppedFrame
<1>4. /\ g.op = f.op /\ g.arr = f.arr /\ g.other = f.other /\ g.from = f.from /\ g.to = f.to
      /\ g.j = f.j /\ g.how = f.how /\ g.moved = f.moved
  <2> HIDE DEF f
  <2>1. f \in Records
    BY <1>1, FrameTypes
  <2> QED BY <2>1 DEF Records
<1> HIDE DEF g
<1>5. Steady(g, buf)
  <2> HIDE DEF f
  <2> QED BY <1>1, <1>2, <1>4 DEF Steady
<1>6. g.op \in {"sort", "destruct"} => Shown(g, buf[g.arr]) = Shown(Top, buf[g.arr])
  BY <1>2, <1>4 DEF Shown
<1> QED BY <1>2, <1>3, <1>4, <1>5, <1>6, TopMoves

(* A copy begins, goes on and ends.                                        *)
LEMMA CopyStartsFine ==
  ASSUME Sane, IInv', stack # <<>>, CopyStarts
  PROVE  Fine
<1> DEFINE f == Top
           n == Len(buf[f.arr])
           m == Len(buf[f.other])
           to == IF n > m THEN m ELSE n
           g == [f EXCEPT !.how = "copying", !.moved = FALSE, !.to = to]
<1>1. /\ f \in Frames /\ n \in Nat /\ m \in Nat
  <2>1. f \in Frames /\ buf[f.arr] \in Seq(Elem) /\ buf[f.other] \in Seq(Elem)
    BY TopStacked
  <2> QED BY <2>1
<1>2. /\ f.op = "copy" /\ Goes(g) /\ kind' = kind /\ held' = held
      /\ buf' = buf /\ refs' = refs /\ fault' = fault
  BY DEF CopyStarts, Inside, arrays
<1> HIDE DEF n, m
<1>3. to \in Nat /\ to <= n /\ to <= m
  BY <1>1
<1> HIDE DEF f, to
<1>4. f \in Records /\ f.from <= f.j
  BY <1>1, FrameTypes
<1>5. g \in Records
  BY <1>3, <1>4 DEF Records
<1>6. /\ g.op = f.op /\ g.arr = f.arr /\ g.other = f.other /\ g.from = f.from
      /\ g.j = f.j /\ g.how = "copying" /\ g.to = to /\ ~g.moved
  BY <1>4 DEF Records
<1> HIDE DEF g
<1>7. g \in Frames
  BY <1>2, <1>4, <1>5, <1>6 DEF Frames
<1>8. Steady(g, buf)
  BY <1>2, <1>3, <1>6 DEF Steady, n, m
<1>9. g.op \notin {"sort", "destruct"}
  BY <1>2, <1>6
<1> QED BY <1>2, <1>6, <1>7, <1>8, <1>9, TopMoves DEF f

LEMMA CopyFine ==
  ASSUME Sane, IInv', stack # <<>>, CopyStep
  PROVE  Fine
<1> DEFINE f == Top
           T == Tail(stack)
           d == buf[f.arr]
           s == buf[f.other]
           old == d[f.j + 1]
           new == s[f.j + 1]
           x == Stored(old, new)
           e == [d EXCEPT ![f.j + 1] = x]
<1>1. /\ stack = Pushed(f, T) /\ f \in Frames /\ T \in Seq(Frames) /\ Steady(f, buf)
      /\ \A k \in DOMAIN T : Apart(f, T[k])
      /\ f.arr \in Array /\ f.other \in Array
      /\ d # NoBuffer /\ d \in Seq(Elem) /\ s # NoBuffer /\ s \in Seq(Elem)
  BY TopStacked
<1>2. f.op = "copy" /\ f.how = "copying" /\ f.j < f.to /\ kind' = kind /\ held' = held
  BY DEF CopyStep, Inside
<1>3. /\ f.j \in Nat /\ f.to \in Nat /\ f.to <= Len(d) /\ f.to <= Len(s) /\ ~f.moved /\ f \in Records
  BY <1>1, <1>2, FrameTypes DEF Steady
<1>4. ~(f.j >= Len(d) \/ f.j >= Len(s)) /\ f.j + 1 \in DOMAIN d /\ f.j + 1 \in DOMAIN s
  <2>1. Len(d) \in Nat /\ Len(s) \in Nat /\ DOMAIN d = 1..Len(d) /\ DOMAIN s = 1..Len(s)
    BY <1>1
  <2> HIDE DEF d, s, f
  <2> QED BY <1>2, <1>3, <2>1
<1>5. old \in Elem /\ new \in Elem /\ refs \in [Object -> Nat] /\ kind \in Kinds /\ Buffered(buf)
  BY <1>1, <1>4, SaneTypes
<1>6. ASSUME NEW b \in {f.arr, f.other} PROVE ~Dying(b)
  <2>1. Stacked(Pushed(f, T), f, T)
    <3> HIDE DEF f, T
    <3> QED BY <1>1, PushedParts
  <2>2. \A k \in DOMAIN stack : stack[k] = f \/ \E l \in DOMAIN T : stack[k] = T[l]
    <3> HIDE DEF f, T
    <3> QED BY <1>1, <2>1 DEF Stacked
  <2>3. \A k \in DOMAIN stack : ~(stack[k].op = "destruct" /\ stack[k].arr = b)
    <3> HIDE DEF f, T
    <3> QED BY <1>1, <1>2, <1>6, <2>2 DEF Apart
  <2> QED BY <2>3 DEF Dying
<1>7. kind = "handle" => \A o \in {old, new} \ {Null} : refs[o] # 0
  <2>1. ASSUME kind = "handle", old # Null PROVE refs[old] > 0
    <3>1. old \in Object /\ kind # "primitive" /\ ~Dying(f.arr)
      BY <1>5, <1>6, <2>1 DEF Elem
    <3> QED BY <3>1, <1>1, <1>4, ElementsAlive
  <2>2. ASSUME kind = "handle", new # Null PROVE refs[new] > 0
    <3>1. new \in Object /\ kind # "primitive" /\ ~Dying(f.other)
      BY <1>5, <1>6, <2>2 DEF Elem
    <3> QED BY <3>1, <1>1, <1>4, ElementsAlive
  <2> QED BY <2>1, <2>2
<1>8. PICK p : p = IF kind = "handle" /\ old # Null /\ old # new /\ refs[old] = 1 THEN "script" ELSE "run"
  OBVIOUS
<1>9. /\ buf' = [buf EXCEPT ![f.arr][f.j + 1] = x] /\ fault' = fault
      /\ refs' = IF kind = "handle" THEN Adjusted(<<new>>, <<old>>) ELSE refs
      /\ Goes([f EXCEPT !.j = @ + 1, !.phase = p])
  BY <1>3, <1>4, <1>7, <1>8 DEF CopyStep
<1>10. p \in {"run", "script"}
  BY <1>8
<1>11. buf' = [buf EXCEPT ![f.arr] = e]
  BY <1>1, <1>5, <1>9 DEF Buffered
<1> DEFINE g == [f EXCEPT !.j = @ + 1, !.phase = p]
<1>12. g \in Frames
  <2> HIDE DEF f
  <2> QED BY <1>1, <1>2, <1>10, SteppedFrame
<1>13. /\ g.op = "copy" /\ g.arr = f.arr /\ g.other = f.other /\ g.to = f.to
       /\ g.how = f.how /\ g.moved = f.moved
  <2> HIDE DEF f
  <2> QED BY <1>2, <1>3 DEF Records
<1>14. Goes(g)
  BY <1>9
<1> HIDE DEF g
<1>15. x \in Elem
  BY <1>5, StoredTypes
<1> HIDE DEF x
<1>16. e \in Seq(Elem) /\ Len(e) = Len(d) /\ \A o : Occurrences(e, o) = Occurrences(d, o) - One(old, o) + One(x, o)
  <2> HIDE DEF d
  <2>1. f.j + 1 \in 1..Len(d)
    BY <1>1, <1>4
  <2>2. e \in Seq(Elem) /\ \A o : Occurrences(e, o) = Occurrences(d, o) - One(old, o) + One(x, o)
    BY <1>1, <1>15, <2>1, OccurrencesStored
  <2>3. Len(e) = Len(d)
    BY <1>1, <2>1
  <2> QED BY <2>2, <2>3
<1>17. Steady(g, buf')
  <2> HIDE DEF e
  <2>1. buf'[f.arr] = e /\ (f.other = f.arr \/ buf'[f.other] = s)
    BY <1>1, <1>5, <1>11 DEF Buffered
  <2>2. f.to <= Len(buf'[f.arr]) /\ f.to <= Len(buf'[f.other])
    BY <1>3, <1>16, <2>1
  <2> QED BY <1>2, <1>3, <1>13, <2>2 DEF Steady
<1>18. refs' \in [Object -> Int] /\ (kind = "primitive" => refs' = refs)
  <2>1. CASE kind = "handle"
    <3>1. <<new>> \in Seq(Elem) /\ <<old>> \in Seq(Elem)
      BY <1>5
    <3>2. Adjusted(<<new>>, <<old>>) \in [Object -> Int]
      <4> HIDE DEF new, old
      <4> QED BY <1>5, <3>1, AdjustedCounts
    <3> QED BY <1>9, <2>1, <3>2
  <2>2. CASE kind # "handle"
    BY <1>5, <1>9, <2>2
  <2> QED BY <2>1, <2>2
<1>19. ASSUME kind # "primitive", NEW o \in Object
       PROVE  refs'[o] - refs[o] = Occurrences(View(g, e), o) - Occurrences(View(f, d), o)
  <2>1. View(g, e) = e /\ View(f, d) = d
    BY <1>2, <1>13 DEF View
  <2>2. /\ Occurrences(e, o) = Occurrences(d, o) - One(old, o) + One(x, o)
        /\ Occurrences(d, o) \in Nat /\ refs[o] \in Nat
        /\ One(old, o) \in Nat /\ One(new, o) \in Nat /\ One(x, o) \in Nat
    BY <1>1, <1>5, <1>16, ElemOccurrences DEF One
  <2>3. CASE kind = "handle"
    <3>1. <<new>> \in Seq(Elem) /\ <<old>> \in Seq(Elem)
      BY <1>5
    <3>2. refs'[o] = refs[o] + Occurrences(<<new>>, o) - Occurrences(<<old>>, o)
      <4>1. Adjusted(<<new>>, <<old>>)[o] = refs[o] + Occurrences(<<new>>, o) - Occurrences(<<old>>, o)
        <5> HIDE DEF new, old
        <5> QED BY <1>5, <1>19, <3>1, AdjustedCounts
      <4> QED BY <4>1, <1>9, <2>3
    <3>3. Occurrences(<<new>>, o) = One(new, o) /\ Occurrences(<<old>>, o) = One(old, o)
      BY OccurrencesSingle
    <3>4. x = new
      BY <2>3 DEF Stored, x
    <3> HIDE DEF new, old, d, e
    <3> QED BY <2>1, <2>2, <3>2, <3>3, <3>4
  <2>4. CASE kind = "object"
    <3>1. x = old
      BY <2>4 DEF Stored, x
    <3>2. refs'[o] = refs[o]
      BY <1>9, <2>4
    <3> HIDE DEF new, old, d, e
    <3> QED BY <2>1, <2>2, <3>1, <3>2
  <2> QED BY <1>5, <1>19, <2>3, <2>4, KindsAssumption
<1>20. Writes(Top)
  BY <1>2 DEF Writes
<1>21. /\ g.op = Top.op /\ g.arr = Top.arr /\ g.other = Top.other /\ buf' = [buf EXCEPT ![Top.arr] = e]
       /\ e \in Seq(Elem)
       /\ kind # "primitive" => \A o \in Object :
            refs'[o] - refs[o] = Occurrences(View(g, e), o) - Occurrences(View(Top, buf[Top.arr]), o)
  BY <1>2, <1>11, <1>13, <1>16, <1>19
<1> HIDE DEF e
<1> QED BY <1>2, <1>9, <1>12, <1>14, <1>17, <1>18, <1>20, <1>21, TopGoes

LEMMA CopyEndsFine ==
  ASSUME Sane, stack # <<>>, CopyEnds
  PROVE  Fine
BY TopLeaves DEF CopyEnds, Inside, arrays

(* A search or a comparison, of arrays as long as when it began.           *)
LEMMA ScanMoves ==
  ASSUME Sane, stack # <<>>, Top.op \in {"find", "equal"}, kind' = kind, held' = held, fault' = fault,
         refs' = refs, buf' = buf, NEW g \in Frames, Goes(g),
         g.op = Top.op, g.arr = Top.arr, g.other = Top.other, g.to = Top.to, g.moved = Top.moved
  PROVE  Fine
<1>1. Steady(Top, buf)
  BY TopStacked
<1>2. Steady(g, buf)
  BY <1>1 DEF Steady
<1> QED BY <1>2, TopMoves

LEMMA ScanLocals ==
  ASSUME NEW f \in Frames, f.op \in {"find", "equal"},
         NEW g \in {[f EXCEPT !.phase = "script"], [f EXCEPT !.j = @ + 1],
                    [f EXCEPT !.j = @ + 1, !.phase = "run"]}
  PROVE  /\ g \in Frames /\ g.op = f.op /\ g.arr = f.arr /\ g.other = f.other
         /\ g.to = f.to /\ g.moved = f.moved
<1>1. f \in Records
  BY FrameTypes
<1>2. g \in Frames
  BY SteppedFrame
<1>3. g.op = f.op /\ g.arr = f.arr /\ g.other = f.other /\ g.to = f.to /\ g.moved = f.moved
  BY <1>1 DEF Records
<1> QED BY <1>2, <1>3

LEMMA ScanFine ==
  ASSUME Sane, stack # <<>>, ScanStep \/ \E equal \in BOOLEAN : ScanReturns(equal)
  PROVE  Fine
<1> DEFINE f == Top
           s == buf[f.arr]
           r == buf[f.other]
<1>1. /\ f \in Frames /\ Steady(f, buf) /\ s \in Seq(Elem) /\ r \in Seq(Elem)
  BY TopStacked
<1>2. f.op \in {"find", "equal"} /\ kind' = kind /\ held' = held /\ buf' = buf /\ refs' = refs
  BY DEF ScanStep, ScanReturns, Inside, arrays
<1>3. f.j \in Nat /\ f.to \in Nat /\ Len(s) \in Nat /\ Len(r) \in Nat
  BY <1>1, FrameTypes
<1>4. /\ f.op = "find" => f.to <= Len(s)
      /\ f.op = "equal" => Len(s) = Len(r)
  BY <1>1 DEF Steady
<1>5. CASE Ends /\ fault' = fault
  <2>1. ~Writes(Top)
    BY <1>2 DEF Writes
  <2> QED BY <1>2, <1>5, <2>1, TopLeaves
<1>6. ASSUME NEW g \in {[f EXCEPT !.phase = "script"], [f EXCEPT !.j = @ + 1],
                        [f EXCEPT !.j = @ + 1, !.phase = "run"]},
             Goes(g), fault' = fault
      PROVE  Fine
  <2>1. /\ g \in Frames /\ g.op = f.op /\ g.arr = f.arr /\ g.other = f.other
        /\ g.to = f.to /\ g.moved = f.moved
    <3> HIDE DEF f
    <3> QED BY <1>1, <1>2, <1>6, ScanLocals
  <2> QED BY <1>2, <1>6, <2>1, ScanMoves
<1>7. CASE ScanStep
  <2> DEFINE more == f.j < (IF f.op = "find" THEN f.to ELSE Len(s))
  <2>1. more => ~(f.j >= Len(s) \/ (f.op = "equal" /\ f.j >= Len(r)))
    <3> HIDE DEF f, s, r
    <3> QED BY <1>2, <1>3, <1>4
  <2>2. /\ ~more => Ends /\ fault' = fault
        /\ more => /\ fault' = fault
                   /\ \/ Ends \/ Goes([f EXCEPT !.phase = "script"]) \/ Goes([f EXCEPT !.j = @ + 1])
    BY <1>7, <2>1 DEF ScanStep
  <2> QED BY <2>2, <1>5, <1>6
<1>8. ASSUME NEW equal \in BOOLEAN, ScanReturns(equal) PROVE Fine
  <2>1. fault' = fault /\ (Ends \/ Goes([f EXCEPT !.j = @ + 1, !.phase = "run"]))
    BY <1>8 DEF ScanReturns
  <2> QED BY <2>1, <1>5, <1>6
<1> QED BY <1>7, <1>8

(* A sort at an element, with it in tmp and in its slot still.             *)
Slotted(f, s, g) ==
  /\ g.op = "sort" /\ g.arr = f.arr /\ g.other = f.other /\ g.to = f.to /\ ~g.moved
  /\ g.j + 2 \in DOMAIN s /\ s[g.j + 2] = g.tmp

LEMMA ComparesSteady ==
  ASSUME NEW f \in Records, f.op = "sort", f.how # "delete", ~f.moved, NEW i \in Nat, f.from < i,
         NEW s \in Seq(Elem), f.to <= Len(s), NEW after, Compares(f, i, s, after)
  PROVE  /\ fault' = fault
         /\ \/ stack' = after
            \/ \E g \in Frames : stack' = <<g>> \o after /\ Slotted(f, s, g)
<1>0. f.to \in Nat /\ Len(s) \in Nat /\ DOMAIN s = 1..Len(s) /\ f.from \in Nat
  BY DEF Records
<1>1. CASE i >= f.to
  BY <1>1 DEF Compares
<1>2. CASE ~(i >= f.to)
  <2>1. ~(i >= Len(s)) /\ i + 1 \in DOMAIN s /\ i - 1 \in Nat /\ f.from <= i - 1 /\ i - 1 < i /\ i < f.to
    BY <1>0, <1>2
  <2> DEFINE h == [f EXCEPT !.i = i, !.j = i - 1, !.tmp = s[i + 1]]
  <2>2. PICK p : p = IF Native(h, s) THEN "run" ELSE "script"
    OBVIOUS
  <2>3. stack' = <<[h EXCEPT !.phase = p]>> \o after /\ fault' = fault
    BY <1>2, <2>1, <2>2 DEF Compares
  <2>4. p \in {"run", "script"}
    BY <2>2
  <2>5. s[i + 1] \in Elem
    BY <2>1
  <2> DEFINE x == s[i + 1]
  <2> HIDE DEF x
  <2>6. i - 1 \in Int
    BY <2>1
  <2> DEFINE q == [f EXCEPT !.i = i, !.j = i - 1]
  <2>7. q \in Records
    BY <2>6 DEF Records
  <2>8. h = [q EXCEPT !.tmp = x]
    BY DEF x
  <2>9. q.op = f.op /\ q.arr = f.arr /\ q.other = f.other /\ q.to = f.to /\ q.from = f.from /\ q.moved = f.moved
        /\ q.j = i - 1 /\ q.i = i /\ q.how = f.how
    BY DEF Records
  <2> HIDE DEF h, q
  <2> DEFINE g == [h EXCEPT !.phase = p]
  <2>10. g = [q EXCEPT !.tmp = x, !.phase = p]
    BY <2>8
  <2> HIDE DEF g
  <2>11. /\ g \in Records /\ g.op = q.op /\ g.arr = q.arr /\ g.other = q.other /\ g.to = q.to
         /\ g.from = q.from /\ g.moved = q.moved /\ g.j = q.j /\ g.i = q.i /\ g.how = q.how /\ g.tmp = x
    BY <2>4, <2>5, <2>7, <2>10 DEF Records, x
  <2>12. g \in Frames
    BY <2>1, <2>9, <2>11 DEF Frames
  <2>13. g.j + 2 = i + 1
    BY <2>1, <2>9, <2>11
  <2>14. stack' = <<g>> \o after
    BY <2>3 DEF g
  <2>15. Slotted(f, s, g)
    BY <2>1, <2>9, <2>11, <2>13 DEF x, Slotted
  <2> QED BY <2>3, <2>12, <2>14, <2>15
<1> QED BY <1>1, <1>2

LEMMA SteadySlot ==
  ASSUME NEW g \in Frames, g.op = "sort", ~g.moved, NEW b, g.to <= Len(b[g.arr]),
         b[g.arr] \in Seq(Elem), g.j + 2 \in DOMAIN b[g.arr], b[g.arr][g.j + 2] = g.tmp
  PROVE  Steady(g, b) /\ View(g, b[g.arr]) = b[g.arr]
<1>1. Steady(g, b)
  BY DEF Steady
<1> DEFINE s == b[g.arr]
<1>2. s \in Seq(Elem) /\ g.j + 2 \in DOMAIN s /\ s[g.j + 2] = g.tmp
  OBVIOUS
<1> HIDE DEF s
<1>3. [s EXCEPT ![g.j + 2] = g.tmp] = s
  BY <1>2
<1> QED BY <1>1, <1>3 DEF View, Shown, s

LEMMA SortingFine ==
  ASSUME Sane, NEW a \in Array, Exists(a), stack = <<>>,
         NEW from \in Int, NEW to \in Int, from >= 0 \/ from + 1 >= to, to <= Len(buf[a]),
         NEW how \in {"asc", "desc", "less"}, Sorting(a, how, from, to),
         buf' = buf, refs' = refs, kind' = kind, held' = held
  PROVE  Fine
<1> DEFINE s == buf[a]
           b == Bag(s, from, to)
           f0 == Frame("sort", a, a, from, to)
           f == [f0 EXCEPT !.how = how, !.bag = b]
<1>0. s # NoBuffer /\ s \in Seq(Elem) /\ Walking(stack, buf)
  BY SaneTypes DEF Exists
<1>t. PICK T : T = stack
  OBVIOUS
<1>1. Compares(f, from + 1, s, stack)
  BY DEF Sorting
<1>2. CASE stack' = stack /\ fault' = fault
  <2>1. Walking(stack, buf') /\ \A x \in Array : Content(stack, buf', x) = Content(stack, buf, x)
    BY <1>0
  <2> QED BY <1>2, <2>1, SameFine
<1>3. CASE from + 1 >= to
  <2>1. f.to = to
    BY DEF Frame
  <2> HIDE DEF f
  <2>2. stack' = stack /\ fault' = fault
    BY <1>1, <1>3, <2>1 DEF Compares
  <2> QED BY <2>2, <1>2
<1>4. CASE ~(from + 1 >= to)
  <2>1. from \in Nat /\ to \in Nat /\ from + 1 \in Nat /\ from < from + 1 /\ to \in 0..Len(s)
    <3>1. Len(s) \in Nat
      BY <1>0
    <3> HIDE DEF s
    <3> QED BY <1>4, <3>1 DEF s
  <2>2. f0 \in Records /\ f0.from = from /\ f0.to = to /\ f0.arr = a /\ f0.other = a
        /\ f0.op = "sort" /\ ~f0.moved
    BY <2>1, MadeFrame DEF Frame
  <2>3. b \in [Elem -> Nat]
    BY <1>0, <2>1, BagTypes
  <2> HIDE DEF f0, b
  <2>4. f \in Records
    BY <2>2, <2>3 DEF Records
  <2>5. /\ f.op = "sort" /\ f.from = from /\ f.to = to /\ f.arr = a /\ f.other = a
        /\ f.how = how /\ ~f.moved
    BY <2>2 DEF Records
  <2> HIDE DEF f
  <2> DEFINE i == from + 1
  <2>i. i \in Nat /\ f.from < i /\ Compares(f, i, s, T) /\ f.how # "delete" /\ f.to <= Len(s)
    BY <1>1, <1>t, <2>1, <2>5
  <2> HIDE DEF i, s
  <2>6. /\ fault' = fault
        /\ \/ stack' = T
           \/ \E g \in Frames : stack' = <<g>> \o T /\ Slotted(f, s, g)
    BY <1>0, <2>i, <2>4, <2>5, ComparesSteady
  <2>7. ASSUME NEW g \in Frames, stack' = <<g>> \o T,
               g.op = "sort", g.arr = a, g.to = to, ~g.moved,
               g.j + 2 \in DOMAIN s, s[g.j + 2] = g.tmp
        PROVE  Fine
    <3>1. g.to <= Len(buf[g.arr]) /\ buf[g.arr] = s
      BY <2>i, <2>5, <2>7 DEF s
    <3>2. Steady(g, buf) /\ View(g, buf[g.arr]) = buf[g.arr]
      BY <1>0, <2>7, <3>1, SteadySlot
    <3>3. /\ T \in Seq(Frames) /\ Walking(T, buf) /\ \A k \in DOMAIN T : Apart(g, T[k])
          /\ \A x \in Array : Content(T, buf, x) = Content(stack, buf, x)
      BY <1>0, <1>t
    <3>4. Walking(Pushed(g, T), buf)
      BY <3>2, <3>3, WalkingPush
    <3>5. Holds(g, a) /\ \A x : x # a => ~Holds(g, x)
      BY <2>7 DEF Holds
    <3>6. Shown(g, buf[a]) = buf[a]
      BY <2>7, <3>2 DEF View
    <3>7. ASSUME NEW x \in Array
          PROVE  Content(Pushed(g, T), buf, x) = Content(stack, buf, x)
      <4>1. CASE buf[x] = NoBuffer
        BY <4>1 DEF Content
      <4>2. CASE buf[x] # NoBuffer
        <5>1. /\ Holds(g, x) => Content(Pushed(g, T), buf, x) = Shown(g, buf[x])
              /\ ~Holds(g, x) => Content(Pushed(g, T), buf, x) = Content(T, buf, x)
              /\ Holds(g, x) => Content(T, buf, x) = buf[x]
          BY <3>3, <3>4, <4>2, ContentPushed
        <5> QED BY <5>1, <3>3, <3>5, <3>6
      <4> QED BY <4>1, <4>2
    <3>8. stack' = Pushed(g, T)
      BY <2>7 DEF Pushed
    <3>9. Walking(Pushed(g, T), buf')
          /\ \A x \in Array : Content(Pushed(g, T), buf', x) = Content(stack, buf, x)
      BY <3>4, <3>7
    <3> QED BY <2>6, <3>8, <3>9, SameFine
  <2> QED BY <1>2, <1>t, <2>5, <2>6, <2>7 DEF Slotted
<1> QED BY <1>3, <1>4

LEMMA SortFine ==
  ASSUME Sane, NEW a \in Array, Exists(a), NEW startAt \in Uints, NEW n \in Uints,
         SortLess(a, startAt, n) \/ \E how \in {"asc", "desc"} : Sort(a, how, startAt, n)
  PROVE  Fine
<1> DEFINE len == Len(buf[a])
<1>0. startAt \in Nat /\ n \in Nat /\ len \in Nat
  <2>1. buf[a] \in Seq(Elem)
    BY SaneTypes DEF Exists
  <2>2. startAt \in Nat /\ n \in Nat
    BY WordTypes
  <2> QED BY <2>1, <2>2
<1>1. CASE SortLess(a, startAt, n)
  <2> DEFINE to == IF startAt + n > len THEN len ELSE startAt + n
  <2>1. /\ stack = <<>> /\ Sorting(a, "less", startAt, to)
        /\ buf' = buf /\ held' = held /\ refs' = refs /\ kind' = kind
    BY <1>1 DEF SortLess, arrays, Outermost, Outside
  <2>2. to \in Int /\ to <= len /\ startAt \in Int /\ startAt >= 0
    BY <1>0
  <2> HIDE DEF to
  <2> QED BY <2>1, <2>2, SortingFine
<1>2. ASSUME NEW how \in {"asc", "desc"}, Sort(a, how, startAt, n) PROVE Fine
  <2> DEFINE start == Signed(startAt)
             end == Signed(Uint(startAt + n))
  <2>1. /\ stack = <<>> /\ buf' = buf /\ held' = held /\ refs' = refs /\ kind' = kind /\ end <= len
        /\ IF start < 0 /\ start + 1 < end
           THEN fault' = "wrapped" /\ UNCHANGED stack
           ELSE Sorting(a, how, start, end)
    BY <1>2 DEF Sort, arrays, Outermost, Outside
  <2>2. start \in Int /\ end \in Int
    <3>1. Uint(startAt + n) \in Int
      BY <1>0, WordTypes
    <3> QED BY <3>1, <1>0, WordTypes
  <2> HIDE DEF start, end
  <2>4. CASE fault' = "wrapped"
    BY <2>4 DEF Fine
  <2>5. CASE ~(start < 0 /\ start + 1 < end) /\ Sorting(a, how, start, end)
    <3>1. start >= 0 \/ start + 1 >= end
      BY <2>2, <2>5
    <3> QED BY <3>1, <2>1, <2>2, <2>5, SortingFine
  <2> QED BY <2>1, <2>4, <2>5
<1> QED BY <1>1, <1>2

(* The element that goes up and tmp change places.                         *)
LEMMA SlotMoves ==
  ASSUME NEW s \in Seq(Elem), NEW j \in Nat, j + 2 \in 1..Len(s), NEW x \in Elem, NEW o \in Object
  PROVE  LET t == [s EXCEPT ![j + 2] = s[j + 1]] IN
         Occurrences([t EXCEPT ![j + 1] = x], o) = Occurrences([s EXCEPT ![j + 2] = x], o)
<1> DEFINE t == [s EXCEPT ![j + 2] = s[j + 1]]
           p == [s EXCEPT ![j + 2] = x]
           q == [t EXCEPT ![j + 1] = x]
<1>1. j + 1 \in 1..Len(s) /\ j + 1 # j + 2
  OBVIOUS
<1>2. s[j + 1] \in Elem
  BY <1>1
<1>3. t \in Seq(Elem) /\ Len(t) = Len(s)
  BY <1>2
<1>4. p \in Seq(Elem) /\ Len(p) = Len(s) /\ p[j + 2] = x /\ p[j + 1] = s[j + 1]
      /\ \A k \in 1..Len(s) : k # j + 2 => p[k] = s[k]
  BY <1>1
<1>5. t[j + 2] = s[j + 1] /\ \A k \in 1..Len(s) : k # j + 2 => t[k] = s[k]
  BY <1>1
<1> HIDE DEF t, p
<1>6. q \in Seq(Elem) /\ Len(q) = Len(s) /\ q[j + 1] = x /\ q[j + 2] = t[j + 2]
      /\ \A k \in 1..Len(s) : k # j + 1 => q[k] = t[k]
  BY <1>1, <1>3
<1> HIDE DEF q
<1>7. Occurrences(q, o) = Occurrences(p, o)
  <2> DEFINE k == j + 1
             l == j + 2
  <2>1. /\ k \in 1..Len(p) /\ l \in 1..Len(p) /\ q[k] = p[l] /\ q[l] = p[k] /\ Len(q) = Len(p)
        /\ \A m \in 1..Len(p) : m # k /\ m # l => q[m] = p[m]
    BY <1>1, <1>4, <1>5, <1>6
  <2>2. o \in Elem
    BY DEF Elem
  <2> HIDE DEF k, l
  <2> QED BY <1>4, <1>6, <2>1, <2>2, OccurrencesSwapped
<1> QED BY <1>7 DEF q, p, t

(* A comparison returns: no element is lost, and no slot is missing.       *)
LEMMA SortStepFine ==
  ASSUME Sane, IInv', stack # <<>>, NEW answer \in {"yes", "no", "failed"}, SortStep(answer)
  PROVE  Fine
<1> DEFINE f  == Top
           a  == f.arr
           s  == buf[a]
           up == answer = "yes"
           j  == IF up THEN f.j - 1 ELSE f.j
           t  == IF up THEN Placed(s, f.j, s[f.j + 1]) ELSE s
           h  == f.honest /\ answer # "failed"
                   /\ (Native(f, s) \/ up = Before(f, f.tmp, s[f.j + 1]))
           u  == Placed(t, j, f.tmp)
<1>0. /\ f \in Frames /\ Steady(f, buf) /\ a \in Array /\ s # NoBuffer /\ s \in Seq(Elem)
  BY TopStacked
<1>1. /\ f \in Records /\ f.from \in Nat /\ f.to \in Nat /\ f.i \in Nat /\ f.j \in Nat
      /\ f.tmp \in Elem /\ f.honest \in BOOLEAN /\ f.op = "sort"
      /\ f.from <= f.j /\ f.j < f.i /\ f.i < f.to /\ f.how # "delete"
  BY <1>0, FrameTypes DEF SortStep
<1>2. f.to <= Len(s) /\ ~f.moved
  BY <1>0, <1>1 DEF Steady
<1>3. ~(f.j + 1 >= Len(s))
  BY <1>0, <1>1, <1>2
<1>4. kind' = kind /\ held' = held /\ refs' = refs /\ fault = "none" /\ Buffered(buf)
      /\ refs \in [Object -> Nat]
  BY SaneTypes DEF SortStep, Inside, Sane
<1>5. IF up /\ j >= f.from
      THEN /\ buf' = [buf EXCEPT ![a] = t]
           /\ Goes([f EXCEPT !.j = j, !.honest = h,
                      !.phase = IF Native([f EXCEPT !.j = j, !.honest = h], t)
                                THEN "run" ELSE "script"])
           /\ fault' = fault
      ELSE /\ buf' = [buf EXCEPT ![a] = u]
           /\ Compares([f EXCEPT !.honest = h], f.i + 1, u, Tail(stack))
  BY <1>3 DEF SortStep
<1>6. Writes(Top)
  BY <1>1 DEF Writes
<1> HIDE DEF f, a, s
<1>7. f.j + 1 \in 1..Len(s) /\ f.j + 2 \in 1..Len(s) /\ Len(s) \in Nat
  BY <1>0, <1>1, <1>3
<1>8. s[f.j + 1] \in Elem
  BY <1>0, <1>7
<1>9. h \in BOOLEAN
  BY <1>1
<1>10. t \in Seq(Elem) /\ Len(t) = Len(s)
  BY <1>0, <1>7, <1>8, Stores DEF Placed
<1>11. up => t = [s EXCEPT ![f.j + 2] = s[f.j + 1]]
  BY DEF Placed
<1>12. ~up => t = s
  OBVIOUS
<1>13. View(f, s) = [s EXCEPT ![f.j + 2] = f.tmp]
  BY <1>1 DEF View, Shown
<1>14. ASSUME up, NEW o \in Object
       PROVE  Occurrences([t EXCEPT ![f.j + 1] = f.tmp], o) = Occurrences(View(f, s), o)
  <2> DEFINE v == [s EXCEPT ![f.j + 2] = s[f.j + 1]]
  <2>1. Occurrences([v EXCEPT ![f.j + 1] = f.tmp], o) = Occurrences([s EXCEPT ![f.j + 2] = f.tmp], o)
    BY <1>0, <1>1, <1>7, SlotMoves
  <2>2. t = v
    BY <1>11, <1>14
  <2> HIDE DEF v, t
  <2> QED BY <1>13, <2>1, <2>2
<1> HIDE DEF h, t
<1>15. refs' \in [Object -> Int]
  BY <1>4
<1>16. CASE up /\ j >= f.from
  <2> DEFINE p == IF Native([f EXCEPT !.j = j, !.honest = h], t) THEN "run" ELSE "script"
             g == [f EXCEPT !.j = j, !.honest = h, !.phase = p]
  <2>1. /\ buf' = [buf EXCEPT ![a] = t] /\ Goes(g) /\ fault' = fault
    BY <1>5, <1>16
  <2>2. p \in {"run", "script"} /\ j = f.j - 1 /\ j \in Int /\ j < f.i /\ f.from <= j
    BY <1>16, <1>1
  <2> HIDE DEF p
  <2>3. g \in Records
    <3> DEFINE k == [f EXCEPT !.j = j, !.honest = h]
    <3>1. k \in Records
      BY <1>1, <1>9, <2>2 DEF Records
    <3>2. g = [k EXCEPT !.phase = p]
      OBVIOUS
    <3> HIDE DEF k, g
    <3>3. [k EXCEPT !.phase = p] \in Records
      BY <3>1, <2>2 DEF Records
    <3> QED BY <3>2, <3>3
  <2>4. /\ g.op = "sort" /\ g.arr = f.arr /\ g.other = f.other /\ g.how = f.how
        /\ g.from = f.from /\ g.to = f.to /\ g.i = f.i /\ g.j = j /\ g.tmp = f.tmp
        /\ g.moved = f.moved
    BY <1>1 DEF Records
  <2> HIDE DEF g
  <2>5. g \in Frames
    BY <2>2, <2>3, <2>4, <1>1 DEF Frames
  <2>6. g.j + 2 = f.j + 1 /\ g.j + 3 = f.j + 2 /\ g.j + 1 < g.i
    BY <2>2, <2>4, <1>1
  <2>7. t[f.j + 1] = s[f.j + 1] /\ t[f.j + 2] = s[f.j + 1]
    <3>1. f.j + 1 # f.j + 2
      BY <1>1
    <3> QED BY <3>1, <1>0, <1>7, <1>11, <1>16
  <2>8. buf'[a] = t
    BY <1>0, <1>4, <2>1 DEF Buffered
  <2>9. Steady(g, buf')
    <3>1. g.arr = a /\ ~g.moved /\ g.to <= Len(t)
      BY <1>2, <1>10, <2>4 DEF a
    <3> QED BY <2>4, <2>6, <2>7, <2>8, <3>1 DEF Steady
  <2>10. View(g, t) = [t EXCEPT ![f.j + 1] = f.tmp]
    BY <2>4, <2>6 DEF View, Shown
  <2>11. ASSUME NEW o \in Object
         PROVE  refs'[o] - refs[o] = Occurrences(View(g, t), o) - Occurrences(View(f, s), o)
    <3>1. Occurrences(View(g, t), o) = Occurrences(View(f, s), o)
      BY <1>14, <1>16, <2>10
    <3>2. View(f, s) \in Seq(Elem)
      BY <1>0, <1>1, <1>13, <1>7, Stores
    <3>3. Occurrences(View(f, s), o) \in Nat /\ refs[o] \in Nat /\ refs'[o] = refs[o]
      BY <1>4, <3>2, ElemOccurrences
    <3> QED BY <3>1, <3>3
  <2> QED BY <1>1, <1>4, <1>6, <1>10, <1>15, <2>1, <2>4, <2>5, <2>9, <2>11, TopGoes DEF f, a, s
<1>17. CASE ~(up /\ j >= f.from)
  <2> DEFINE k == [f EXCEPT !.honest = h]
             i == f.i + 1
             q == j + 2
  <2>1. /\ buf' = [buf EXCEPT ![a] = u] /\ Compares(k, i, u, Tail(stack))
    BY <1>5, <1>17
  <2>2. u = [t EXCEPT ![q] = f.tmp]
    BY DEF Placed
  <2>3. q \in 1..Len(s) /\ q = IF up THEN f.j + 1 ELSE f.j + 2
    <3>1. q = IF up THEN f.j + 1 ELSE f.j + 2
      BY <1>1
    <3> QED BY <3>1, <1>7
  <2> HIDE DEF u, q
  <2>4. u \in Seq(Elem) /\ Len(u) = Len(s)
    BY <1>1, <1>10, <2>2, <2>3, Stores
  <2>5. ASSUME NEW o \in Object PROVE Occurrences(u, o) = Occurrences(View(f, s), o)
    BY <1>12, <1>13, <1>14, <2>2, <2>3
  <2>6. k \in Records
    BY <1>1, <1>9 DEF Records
  <2>7. /\ k.op = "sort" /\ k.arr = f.arr /\ k.other = f.other /\ k.how = f.how
        /\ k.from = f.from /\ k.to = f.to /\ k.moved = f.moved
    BY <1>1 DEF Records
  <2>8. i \in Nat /\ k.from < i
    BY <1>1, <2>7
  <2>9. k.op = "sort" /\ k.how # "delete" /\ ~k.moved /\ k.to <= Len(u)
    BY <1>1, <1>2, <2>4, <2>7
  <2>10. /\ fault' = fault
         /\ \/ stack' = Tail(stack)
            \/ \E g \in Frames : stack' = <<g>> \o Tail(stack) /\ Slotted(k, u, g)
    <3> HIDE DEF i, k
    <3> QED BY <2>1, <2>4, <2>6, <2>8, <2>9, ComparesSteady
  <2>11. u # NoBuffer /\ buf'[a] = u
    BY <1>0, <1>4, <2>1, <2>4, BufferTypes DEF Buffered
  <2>12. CASE stack' = Tail(stack)
    <3>1. PICK e : e = u
      OBVIOUS
    <3>2. \A o \in Object : Occurrences(IF e = NoBuffer THEN <<>> ELSE e, o) = Occurrences(View(f, s), o)
      BY <2>5, <2>11, <3>1
    <3>3. e \in Seq(Elem) \cup {NoBuffer} /\ buf' = [buf EXCEPT ![a] = e] /\ Ends
      BY <2>1, <2>4, <2>12, <3>1 DEF Ends
    <3> QED BY <1>4, <1>6, <2>10, <3>2, <3>3, TopEnds DEF f, a, s
  <2>13. ASSUME NEW g \in Frames, stack' = <<g>> \o Tail(stack), Slotted(k, u, g)
         PROVE  Fine
    <3>1. /\ g.op = "sort" /\ g.arr = a /\ g.other = f.other /\ g.to <= Len(u) /\ ~g.moved
          /\ g.j + 2 \in DOMAIN u /\ u[g.j + 2] = g.tmp
      BY <2>7, <2>9, <2>13 DEF Slotted, a
    <3>2. Steady(g, buf') /\ View(g, u) = u
      <4> DEFINE b == buf'
      <4>1. b[g.arr] = u
        BY <2>11, <3>1
      <4> HIDE DEF b
      <4>2. Steady(g, b) /\ View(g, b[g.arr]) = b[g.arr]
        BY <2>4, <3>1, <4>1, SteadySlot
      <4> QED BY <4>1, <4>2 DEF b
    <3>3. ASSUME NEW o \in Object
          PROVE  refs'[o] - refs[o] = Occurrences(View(g, u), o) - Occurrences(View(f, s), o)
      <4>1. Occurrences(View(g, u), o) = Occurrences(View(f, s), o)
        BY <2>5, <3>2
      <4>2. Occurrences(View(g, u), o) \in Nat /\ refs[o] \in Nat /\ refs'[o] = refs[o]
        BY <1>4, <2>4, <3>2, ElemOccurrences
      <4> QED BY <4>1, <4>2
    <3>4. Goes(g) /\ g.op = f.op
      BY <1>1, <2>13, <3>1 DEF Goes
    <3> QED BY <1>4, <1>6, <1>15, <2>1, <2>4, <2>10, <3>1, <3>2, <3>3, <3>4, TopGoes DEF f, a, s
  <2> QED BY <2>10, <2>12, <2>13
<1> QED BY <1>16, <1>17

-----------------------------------------------------------------------------
(* References: all steps.                                                  *)

LEMMA CallsFine ==
  ASSUME Sane, IInv', ~reentered', NEW a \in Array, Exists(a), Calls(a)
  PROVE  Fine
<1>1. CASE Release(a) \/ Reverse(a)
  BY <1>1, ReleaseFine, ReverseFine
<1>2. ASSUME NEW n \in Uints, Reserve(a, n) \/ Resize(a, n) \/ RemoveAt(a, n) \/ At(a, n)
      PROVE  Fine
  BY <1>2, ReserveFine, ResizeFine, RemoveAtFine, AtFine
<1>3. ASSUME NEW n \in Uints, NEW v \in Values, InsertAt(a, n, v) \/ Find(a, n, v)
      PROVE  Fine
  BY <1>3, InsertAtFine, FindFine
<1>4. ASSUME NEW n \in Uints, NEW b \in Array, InsertArray(a, n, b) PROVE Fine
  BY <1>4, InsertArrayFine
<1>5. ASSUME NEW n \in Uints, NEW m \in Uints, RemoveRange(a, n, m) PROVE Fine
  BY <1>5, RemoveRangeFine
<1>6. ASSUME NEW n \in Uints, NEW m \in Uints,
             SortLess(a, n, m) \/ \E how \in {"asc", "desc"} : Sort(a, how, n, m)
      PROVE  Fine
  BY <1>6, SortFine
<1>7. ASSUME NEW b \in Array, Assign(a, b) \/ Equal(a, b) PROVE Fine
  BY <1>7, AssignFine, EqualFine
<1> QED BY <1>1, <1>2, <1>3, <1>4, <1>5, <1>6, <1>7 DEF Calls

LEMMA NextFine ==
  ASSUME Sane, IInv', ~reentered', Next
  PROVE  Fine
<1>1. CASE stack # <<>> /\ Walks
  <2>1. CASE DestructStep \/ DestructEnds \/ DestructorReturns
    BY <1>1, <2>1, DestructFine, DestructEndsFine, ReturnsFine
  <2>2. CASE CopyStarts \/ CopyStep \/ CopyEnds
    BY <1>1, <2>2, CopyStartsFine, CopyFine, CopyEndsFine
  <2>3. CASE \E answer \in {"yes", "no", "failed"} : SortStep(answer)
    BY <1>1, <2>3, SortStepFine
  <2>4. CASE ScanStep \/ \E equal \in BOOLEAN : ScanReturns(equal)
    BY <1>1, <2>4, ScanFine
  <2> QED BY <1>1, <2>1, <2>2, <2>3, <2>4 DEF Walks
<1>2. CASE Scripts
  <2>1. ASSUME NEW a \in Array, Exists(a), Calls(a) PROVE Fine
    BY <2>1, CallsFine
  <2>2. ASSUME NEW a \in Array, NEW n \in Uints,
               Create(a, n) \/ \E v \in Values : CreateFilled(a, n, v)
        PROVE  Fine
    BY <2>2, CreatesFine
  <2>3. ASSUME NEW o \in Object, NewObject(o) \/ DropHandle(o) PROVE Fine
    BY <2>3, DropsFine
  <2> QED BY <1>2, <2>1, <2>2, <2>3 DEF Scripts
<1> QED BY <1>1, <1>2 DEF Next

(* A use of a walked array is never forgotten.                             *)
LEMMA ReenteredStays ==
  ASSUME Next, reentered
  PROVE  reentered'
<1>1. CASE Walks
  <2>1. reentered' = reentered
    BY <1>1 DEF Walks, Inside, DestructStep, DestructEnds, DestructorReturns, CopyStarts, CopyStep,
                CopyEnds, SortStep, ScanStep, ScanReturns
  <2> QED BY <2>1
<1>2. ASSUME NEW a \in Array, NEW b \in Array, Changes(a) \/ Looks(a) \/ Uses(a, b) PROVE reentered'
  BY <1>2 DEF Changes, Looks, Uses
<1>3. ASSUME NEW a \in Array, Calls(a) PROVE reentered'
  <2>1. CASE Release(a) \/ Reverse(a)
    BY <1>2, <2>1 DEF Release, Reverse
  <2>2. ASSUME NEW n \in Uints, Reserve(a, n) \/ Resize(a, n) \/ RemoveAt(a, n) \/ At(a, n)
        PROVE  reentered'
    BY <1>2, <2>2 DEF Reserve, Resize, RemoveAt, At
  <2>3. ASSUME NEW n \in Uints, NEW v, InsertAt(a, n, v) \/ Find(a, n, v) PROVE reentered'
    BY <1>2, <2>3 DEF InsertAt, Find
  <2>4. ASSUME NEW n \in Uints, NEW b \in Array, InsertArray(a, n, b) PROVE reentered'
    BY <1>2, <2>4 DEF InsertArray
  <2>5. ASSUME NEW n \in Uints, NEW m \in Uints, RemoveRange(a, n, m) PROVE reentered'
    BY <1>2, <2>5 DEF RemoveRange
  <2>6. ASSUME NEW n \in Uints, NEW m \in Uints,
               SortLess(a, n, m) \/ \E how \in {"asc", "desc"} : Sort(a, how, n, m)
        PROVE  reentered'
    BY <1>2, <2>6 DEF SortLess, Sort
  <2>7. ASSUME NEW b \in Array, Assign(a, b) \/ Equal(a, b) PROVE reentered'
    BY <1>2, <2>7 DEF Assign, Equal
  <2> QED BY <1>3, <2>1, <2>2, <2>3, <2>4, <2>5, <2>6, <2>7 DEF Calls
<1>4. ASSUME NEW a \in Array, NEW n \in Uints, Create(a, n) \/ \E v \in Values : CreateFilled(a, n, v)
      PROVE  reentered'
  BY <1>4 DEF Create, CreateFilled
<1>5. ASSUME NEW o \in Object, NewObject(o) \/ DropHandle(o) PROVE reentered'
  BY <1>5 DEF NewObject, DropHandle
<1> QED BY <1>1, <1>3, <1>4, <1>5 DEF Next, Scripts

LEMMA InitR == Init => RInv
<1> SUFFICES ASSUME Init PROVE RInv
  OBVIOUS
<1>1. IInv /\ FaultHasCause
  BY InitInv DEF Init, FaultHasCause
<1>2. /\ kind \in Kinds /\ refs \in [Object -> Nat] /\ held \subseteq Object
      /\ (kind # "handle" => held = {})
  BY DEF Init
<1>3. Walking(stack, buf)
  BY DEF Init, Walking
<1>4. ASSUME NEW o \in Object
      PROVE  refs[o] = Cardinality(Places(All(stack, buf), o)) + Has(held, o)
  <2>1. \A a \in Array : All(stack, buf)[a] = <<>>
    BY DEF Init, All, Content
  <2>2. Places(All(stack, buf), o) = {}
    <3>1. DOMAIN All(stack, buf) = Array
      BY DEF All
    <3>2. \A a \in Array : {k \in DOMAIN All(stack, buf)[a] : All(stack, buf)[a][k] = o} = {}
      BY <2>1
    <3> HIDE DEF All
    <3> QED BY <3>1, <3>2 DEF Places
  <2>3. Cardinality(Places(All(stack, buf), o)) = 0
    BY <2>2, FS_EmptySet
  <2>4. refs[o] = 0 /\ Has(held, o) = 0
    BY DEF Init, Has
  <2> QED BY <2>3, <2>4
<1>5. Careful(kind, stack, buf, refs, held)
  BY <1>2, <1>3, <1>4 DEF Careful, Balanced
<1> QED BY <1>1, <1>5 DEF RInv

LEMMA NextR == RInv /\ [Next]_vars => RInv'
<1> SUFFICES ASSUME RInv, [Next]_vars PROVE RInv'
  OBVIOUS
<1>1. IInv'
  BY NextInv DEF RInv
<1>2. CASE UNCHANGED vars
  <2>1. /\ kind' = kind /\ buf' = buf /\ stack' = stack /\ held' = held /\ refs' = refs
        /\ reentered' = reentered /\ fault' = fault
    BY <1>2 DEF vars, arrays
  <2>2. FaultHasCause' /\ (fault' = "none" /\ ~reentered' => Careful(kind', stack', buf', refs', held'))
    BY <2>1 DEF RInv, FaultHasCause
  <2> QED BY <1>1, <2>2 DEF RInv
<1>3. CASE Next /\ reentered'
  BY <1>1, <1>3 DEF RInv, FaultHasCause
<1>4. CASE Next /\ ~reentered'
  <2>1. fault = "none"
    BY <1>4 DEF Next, ScriptRuns
  <2>2. ~reentered
    BY <1>4, ReenteredStays
  <2>3. Sane
    BY <2>1, <2>2 DEF Sane, RInv
  <2>4. Fine
    BY <1>1, <1>4, <2>3, NextFine
  <2>5. FaultHasCause' /\ (fault' = "none" => Careful(kind', stack', buf', refs', held'))
    BY <2>4 DEF Fine, FaultHasCause
  <2> QED BY <1>1, <2>5 DEF RInv
<1> QED BY <1>2, <1>3, <1>4

LEMMA RInvHolds == Spec => []RInv
<1>1. RInv /\ [Next]_vars => RInv'
  BY NextR
<1> QED BY <1>1, InitR, PTL DEF Spec

(* Contents, as the properties state them.                                 *)
LEMMA ContentsAre == \A a \in Array : Contents(a) = Content(stack, buf, a)
BY DEF Contents, Content, Settled

LEMMA SlotsArePlaces ==
  ASSUME NEW o
  PROVE  UNION {{<<a, k>> : k \in {l \in DOMAIN Contents(a) : Contents(a)[l] = o}} : a \in Array}
           = Places(All(stack, buf), o)
<1> DEFINE K(a) == {l \in DOMAIN Content(stack, buf, a) : Content(stack, buf, a)[l] = o}
<1>1. \A a \in Array : {l \in DOMAIN Contents(a) : Contents(a)[l] = o} = K(a)
  BY ContentsAre
<1>2. DOMAIN All(stack, buf) = Array
  BY DEF All
<1>3. \A a \in Array : All(stack, buf)[a] = Content(stack, buf, a)
  BY DEF All
<1>4. Places(All(stack, buf), o) = UNION {{a} \X K(a) : a \in Array}
  <2>1. \A a \in Array :
          {k \in DOMAIN All(stack, buf)[a] : All(stack, buf)[a][k] = o} = K(a)
    BY <1>3
  <2> DEFINE L(a) == {k \in DOMAIN All(stack, buf)[a] : All(stack, buf)[a][k] = o}
  <2>2. Places(All(stack, buf), o) = UNION {{a} \X L(a) : a \in Array}
    BY <1>2 DEF Places
  <2>3. \A a \in Array : L(a) = K(a)
    BY <2>1
  <2> HIDE DEF K, L
  <2> QED BY <2>2, <2>3
<1> DEFINE J(a) == {l \in DOMAIN Contents(a) : Contents(a)[l] = o}
<1>5. \A a \in Array : J(a) = K(a)
  BY <1>1
<1>6. UNION {{<<a, k>> : k \in J(a)} : a \in Array} = UNION {{a} \X K(a) : a \in Array}
  <2> HIDE DEF J, K
  <2>1. \A a \in Array : {<<a, k>> : k \in J(a)} = {a} \X K(a)
    BY <1>5
  <2> QED BY <2>1
<1> QED BY <1>4, <1>6 DEF J

(* At any point of any walk every object has as many references as there   *)
(* are slots and script handles that refer to it: resizing, copying,       *)
(* sorting and destroying arrays leak none and release none twice, as long *)
(* as no callback uses an array that is being walked.                      *)
THEOREM ReferencesBalance == Spec => []RefsBalanced
<1>1. RInv => RefsBalanced
  <2> SUFFICES ASSUME RInv, Counted, fault = "none", ~reentered, NEW o \in Object
               PROVE  LET slots == UNION {{<<a, k>> : k \in {l \in DOMAIN Contents(a) :
                                                               Contents(a)[l] = o}} : a \in Array}
                      IN refs[o] = Cardinality(slots) + (IF o \in held THEN 1 ELSE 0)
    BY DEF RefsBalanced
  <2>1. Balanced(All(stack, buf), refs, held)
    BY DEF RInv, Careful, Counted
  <2>2. refs[o] = Cardinality(Places(All(stack, buf), o)) + Has(held, o)
    BY <2>1 DEF Balanced
  <2> QED BY <2>2, SlotsArePlaces DEF Has
<1> QED BY <1>1, RInvHolds, PTL

(* Only a callback that uses the array being walked makes the program      *)
(* follow a pointer into a freed buffer, to a slot that is gone or to an   *)
(* element that was released.                                              *)
THEOREM FaultsHaveCauses == Spec => []FaultHasCause
<1>1. RInv => FaultHasCause
  BY DEF RInv
<1> QED BY <1>1, RInvHolds, PTL
=============================================================================
