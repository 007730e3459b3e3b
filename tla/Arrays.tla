------------------------------- MODULE Arrays -------------------------------
(***************************************************************************)
(* CScriptArray: arrays that scripts use, all of one template instance.    *)
(*                                                                         *)
(* An array is a buffer of elements: primitives, handles (references, some *)
(* of them null) or objects that each slot owns.  Sorting, searching and   *)
(* comparing call script functions in the middle of a walk over the        *)
(* buffer, and so does the release of the last reference to an element,    *)
(* whose destructor is script code; scripts then use the same arrays.  A   *)
(* walk is a frame of `stack`, and each stretch of C++ between two calls   *)
(* of script code is one action.  Constructors and opAssign of elements    *)
(* are taken not to touch arrays.                                          *)
(*                                                                         *)
(* Sizes and indices are unsigned words, and some of the arithmetic on     *)
(* them wraps: Word is 2^32 in the program.  Indices are those of the      *)
(* code, so the element at index x of a sequence s is s[x + 1].  Memory    *)
(* that is read or written outside of the elements, or through a pointer   *)
(* to what was released, is a fault that ends the behaviour.               *)
(***************************************************************************)
EXTENDS Integers, Sequences, FiniteSets

CONSTANTS
  Array,         \* cells for arrays
  Object,        \* cells for elements
  Null,          \* the null handle, the primitive 0
  Rank,          \* the order that opCmp and less stand for
  Kinds,         \* the kinds of elements of this instance
  Word,          \* the number of values of asUINT
  Header,        \* sizeof(SArrayBuffer)
  ElementSize,   \* the size of an element of each kind
  MaxLen,        \* bound: elements of each array
  MaxDepth,      \* bound: walks in progress
  MaxCalls       \* bound: what the callbacks of a walk call

ASSUME SetsAssumption ==
  /\ IsFiniteSet(Array) /\ IsFiniteSet(Object) /\ Null \notin Object
  /\ "no buffer" \notin Object \cup {Null}
ASSUME KindsAssumption == Kinds \subseteq {"primitive", "handle", "object"}
ASSUME WordAssumption ==
  /\ Word \in Nat /\ Header \in 1..Word /\ MaxLen \in [Array -> 0..(Word - 1)]
  /\ ElementSize \in [Kinds -> 1..Word]
ASSUME RankAssumption ==
  /\ Rank \in [Object \cup {Null} -> Nat]
  /\ \A o \in Object : Rank[Null] <= Rank[o]

VARIABLES
  kind,    \* what elements are: subTypeId
  buf,     \* the elements of buffer; NoBuffer when there is no array
  cap,     \* maxElements
  refs,    \* references to each object; 0 when it is free
  held,    \* the objects scripts have a handle to
  stack,   \* the walks in progress, innermost first
  fault,   \* what undefined behaviour occurred
  calls,   \* what the callbacks of the outermost walk have called
  reentered  \* ghost: a callback used an array that was being walked

arrays == <<buf, cap>>
vars   == <<kind, arrays, refs, held, stack, fault, calls, reentered>>

NoBuffer == <<"no buffer">>

Elem == Object \cup {Null}

(* The locals of a walk: Sort, Find or operator==, CopyBuffer, Destruct.   *)
Frame(op, a, b, from, to) ==
  [op |-> op, arr |-> a, other |-> b, from |-> from, to |-> to,
   i |-> from, j |-> from, tmp |-> Null, how |-> "none", phase |-> "run",
   moved |-> FALSE, honest |-> TRUE, bag |-> [x \in Elem |-> 0]]

Init ==
  /\ kind \in Kinds
  /\ buf = [a \in Array |-> NoBuffer]
  /\ cap = [a \in Array |-> 0]
  /\ refs = [o \in Object |-> 0] /\ held = {}
  /\ stack = <<>>
  /\ fault = "none" /\ calls = 0 /\ reentered = FALSE

-----------------------------------------------------------------------------
(* Words.                                                                  *)

Uint(x) == x % Word

Signed(x) == IF x < Word \div 2 THEN x ELSE x - Word

(* CheckMaxSize: the size of the buffer in bytes fits a word.              *)
FitsMemory(n) == n <= (Word - Header) \div ElementSize[kind]

-----------------------------------------------------------------------------
(* Elements and references to them.                                        *)

Counted == kind # "primitive"

Occurrences(s, x) == Cardinality({k \in DOMAIN s : s[k] = x})

(* Mutants: a reference is released twice, or never.                       *)
AdjustedTwice(added, released) ==
  [o \in Object |-> refs[o] + Occurrences(added, o) - 2 * Occurrences(released, o)]

AdjustedUp(added, released) == [o \in Object |-> refs[o] + Occurrences(added, o)]

(* References are added to the elements of one sequence and released of    *)
(* those of another.                                                       *)
Adjusted(added, released) ==
  IF ~Counted THEN refs
  ELSE [o \in Object |-> refs[o] + Occurrences(added, o) - Occurrences(released, o)]

(* Construct: default values; each slot of an array of objects gets an     *)
(* object of its own, until a constructor fails: the rest is null.         *)
Constructed(n) ==
  IF kind # "object" THEN {[k \in 1..n |-> Null]}
  ELSE {s \in [1..n -> {o \in Object : refs[o] = 0} \cup {Null}] :
          \A k, l \in 1..n : k < l => s[l] = Null \/ s[k] \notin {s[l], Null}}

(* What an argument may be: an object scripts have, or null or zero.       *)
Values == IF kind = "primitive" THEN Elem
          ELSE IF kind = "handle" THEN held \cup {Null} ELSE {Null}

(* SetValue: in an array of objects the object of the slot is assigned to. *)
Stored(old, new) == IF kind = "object" THEN old ELSE new

-----------------------------------------------------------------------------
(* Control.                                                                *)

(* Scripts run outside of walks and in their callbacks.  When a walk that  *)
(* was re-entered has ended without a fault, the behaviour ends: a bound.  *)
ScriptRuns ==
  /\ fault = "none"
  /\ reentered => stack # <<>>
  /\ calls < MaxCalls
  /\ stack # <<>> => Head(stack).phase = "script"

Top == Head(stack)

Walked(a) == \E k \in DOMAIN stack : a \in {stack[k].arr, stack[k].other}

Dying(a) == \E k \in DOMAIN stack :
              stack[k].op = "destruct" /\ stack[k].arr = a

(* A script changes an array, or looks into one that loses elements.       *)
Uses(a, b) == reentered' = (reentered \/ Walked(a) \/ Dying(b))

Changes(a) == Uses(a, a)

Looks(b) == reentered' = (reentered \/ Dying(b))

Fails(what) == fault' = what /\ UNCHANGED <<arrays, refs, stack>>

(* The walks in progress over an array that gets a new buffer hold         *)
(* pointers into the old one.                                              *)
Moved(a) ==
  [k \in DOMAIN stack |->
     [stack[k] EXCEPT !.moved = @ \/ a \in {stack[k].arr, stack[k].other}]]

(* DeleteBuffer runs when nothing refers to the array any more.            *)
Exists(a) ==
  /\ buf[a] # NoBuffer
  /\ ~\E k \in DOMAIN stack : stack[k].arr = a /\ stack[k].how = "delete"

-----------------------------------------------------------------------------
(* Resizing.                                                               *)

Spliced(s, at, new) == SubSeq(s, 1, at) \o new \o SubSeq(s, at + 1, Len(s))

Without(s, at, n) == SubSeq(s, 1, at) \o SubSeq(s, at + n + 1, Len(s))

Grows(a, n) == FitsMemory(Len(buf[a]) + n)

Refuses(after) == stack' = after \o stack /\ UNCHANGED <<arrays, refs, fault>>

(* The elements are elems, with references added, in a bigger buffer when  *)
(* the old one has no room.  `after` is what the caller goes on with.      *)
Replaced(a, elems, added, released, after) ==
  IF \E o \in Object :
       \/ Counted /\ refs[o] < Occurrences(released, o)
       \/ kind = "handle" /\ refs[o] = 0 /\ Occurrences(added, o) > 0
  THEN Fails("dead")
  ELSE
  /\ Len(elems) <= MaxLen[a]
  /\ buf' = [buf EXCEPT ![a] = elems]
  /\ cap' = [cap EXCEPT ![a] = IF cap[a] < Len(elems) THEN Len(elems) ELSE @]
  /\ stack' = after \o (IF cap[a] < Len(elems) THEN Moved(a) ELSE stack)
  /\ refs' = Adjusted(added, released)
  /\ UNCHANGED fault

(* Destruct the elements from `at`, then close the gap.                    *)
Shrinks(a, at, n, after) ==
  /\ stack' = <<[Frame("destruct", a, a, at, at + n) EXCEPT !.how = "close"]>>
                \o after \o stack
  /\ UNCHANGED <<arrays, refs, fault>>

(* Resize(delta, at) for an int and an unsigned.  -delta overflows for the *)
(* least int.                                                              *)
ResizeBy(a, delta, at, after) ==
  LET n    == Len(buf[a])
      down == IF -delta > n THEN n ELSE -delta
      from == IF at > n - down THEN n - down ELSE at
  IN IF delta = -(Word \div 2) THEN Fails("wrapped")
     ELSE IF delta < 0 /\ down > 0 THEN Shrinks(a, from, down, after)
     ELSE IF delta > 0 /\ Grows(a, delta)
     THEN \E new \in Constructed(delta) :
            Replaced(a, Spliced(buf[a], IF at > n THEN n ELSE at, new),
                     IF kind = "object" THEN new ELSE <<>>, <<>>, after)
     ELSE Refuses(after)

(* Resize to a length: the difference is an int.                           *)
Difference(a, n) == Signed(Uint(n - Len(buf[a])))

-----------------------------------------------------------------------------
(* Walks.  Push one; what scripts do meanwhile is up to them.              *)

Called == calls' = IF stack = <<>> THEN 0 ELSE calls + 1

Inside ==
  UNCHANGED <<kind, held, reentered>> /\ calls' = IF stack' = <<>> THEN 0 ELSE calls

Room(n) == Len(stack) + n <= MaxDepth

(* A callback starts no sort, search or comparison: a bound.               *)
Outermost == stack = <<>>

Goes(f) == stack' = <<f>> \o Tail(stack)

Ends == stack' = Tail(stack)

(* Destruct, one element at a time: the last reference runs a destructor.  *)
DestructStep ==
  LET f == Top  s == buf[f.arr]  x == s[f.j + 1] IN
  /\ f.op = "destruct" /\ f.phase = "run" /\ f.j < f.to
  /\ IF f.moved THEN Fails("freed")
     ELSE IF f.j >= Len(s) THEN Fails("stale")
     ELSE IF ~Counted \/ x = Null
     THEN Goes([f EXCEPT !.j = @ + 1]) /\ UNCHANGED <<arrays, refs, fault>>
     ELSE IF refs[x] = 0 THEN Fails("dead")
     ELSE /\ refs' = [refs EXCEPT ![x] = @ - 1]
          /\ Goes([f EXCEPT !.j = @ + 1,
                            !.phase = IF refs[x] = 1 THEN "script" ELSE "run"])
          /\ UNCHANGED <<arrays, fault>>
  /\ Inside

(* The elements are gone: the rest closes up, or the buffer is freed.      *)
DestructEnds ==
  LET f == Top  s == buf[f.arr] IN
  /\ f.op = "destruct" /\ f.phase = "run" /\ f.j = f.to
  /\ IF f.how = "close" /\ Len(s) < f.to THEN Fails("overrun")
     ELSE /\ buf' = [buf EXCEPT ![f.arr] =
                       IF f.how = "close" THEN Without(s, f.from, f.to - f.from)
                       ELSE NoBuffer]
          /\ cap' = [cap EXCEPT ![f.arr] = IF f.how = "close" THEN @ ELSE 0]
          /\ Ends
          /\ UNCHANGED <<refs, fault>>
  /\ Inside

(* CopyBuffer takes the pointers and the count when it begins.             *)
CopyStarts ==
  LET f == Top  n == Len(buf[f.arr])  m == Len(buf[f.other]) IN
  /\ f.op = "copy" /\ f.how = "waiting"
  /\ Goes([f EXCEPT !.how = "copying", !.moved = FALSE,
                    !.to = IF n > m THEN m ELSE n])
  /\ UNCHANGED <<arrays, refs, fault>> /\ Inside

(* One handle; values and objects are copied in place.                     *)
CopyStep ==
  LET f == Top
      d == buf[f.arr]  s == buf[f.other]
      old == d[f.j + 1]  new == s[f.j + 1]
      last == kind = "handle" /\ old # Null /\ old # new /\ refs[old] = 1
  IN
  /\ f.op = "copy" /\ f.how = "copying" /\ f.phase = "run" /\ f.j < f.to
  /\ IF f.moved THEN Fails("freed")
     ELSE IF f.j >= Len(d) \/ f.j >= Len(s) THEN Fails("stale")
     ELSE IF kind = "handle" /\ \E o \in {old, new} \ {Null} : refs[o] = 0
     THEN Fails("dead")
     ELSE /\ buf' = [buf EXCEPT ![f.arr][f.j + 1] = Stored(old, new)]
          /\ refs' = IF kind = "handle" THEN Adjusted(<<new>>, <<old>>) ELSE refs
          /\ Goes([f EXCEPT !.j = @ + 1,
                            !.phase = IF last THEN "script" ELSE "run"])
          /\ UNCHANGED <<cap, fault>>
  /\ Inside

CopyEnds ==
  /\ Top.op = "copy" /\ Top.how = "copying" /\ Top.phase = "run"
  /\ Top.j = Top.to
  /\ Ends
  /\ UNCHANGED <<arrays, refs, fault>> /\ Inside

(* The destructor of the element that was released returns.                *)
DestructorReturns ==
  /\ Top.op \in {"destruct", "copy"} /\ Top.phase = "script"
  /\ Goes([Top EXCEPT !.phase = "run"])
  /\ UNCHANGED <<arrays, refs, fault>> /\ Inside

-----------------------------------------------------------------------------
(* Sorting: an insertion sort that keeps one element in tmp and asks       *)
(* whether it goes before the element at j.                                *)

(* Less answers without a script: primitives, and null handles with opCmp. *)
Native(f, s) ==
  \/ kind = "primitive" /\ f.how # "less"
  \/ kind = "handle" /\ f.how # "less" /\ Null \in {f.tmp, s[f.j + 1]}

(* What opCmp, or a less, that is a strict order says.                     *)
Before(f, x, y) == IF f.how = "desc" THEN Rank[x] > Rank[y] ELSE Rank[x] < Rank[y]

(* The object that opCmp is called on is missing: the call fails.          *)
Absent(f, s) ==
  /\ kind = "object" /\ f.how # "less"
  /\ (IF f.how = "desc" THEN s[f.j + 1] ELSE f.tmp) = Null

NativeAnswer(f, s) ==
  LET a == IF f.how = "desc" THEN s[f.j + 1] ELSE f.tmp IN
  IF kind = "primitive" THEN Before(f, f.tmp, s[f.j + 1]) ELSE a = Null

(* Copy of tmp behind the element at j, and its mutant: over it.           *)
PlacedOver(s, j, x) == [s EXCEPT ![j + 1] = x]

Placed(s, j, x) == [s EXCEPT ![j + 2] = x]

(* How often each element is in a part of an array.                        *)
Bag(s, from, to) == [x \in Elem |-> Occurrences(SubSeq(s, from + 1, to), x)]

(* The walk at element i, with j = i - 1; it ends when there is none.      *)
Compares(f, i, s, after) ==
  IF i >= f.to THEN stack' = after /\ UNCHANGED fault
  ELSE IF i >= Len(s) THEN fault' = "stale" /\ stack' = stack
  ELSE LET g == [f EXCEPT !.i = i, !.j = i - 1, !.tmp = s[i + 1]] IN
       /\ stack' = <<[g EXCEPT !.phase = IF Native(g, s) THEN "run" ELSE "script"]>>
                     \o after
       /\ UNCHANGED fault

(* Less returns.  A comparison that did not finish counts as no.           *)
SortStep(answer) ==
  LET f  == Top
      s  == buf[f.arr]
      up == answer = "yes"
      j  == IF up THEN f.j - 1 ELSE f.j
      t  == IF up THEN Placed(s, f.j, s[f.j + 1]) ELSE s
      h  == f.honest /\ answer # "failed"
              /\ (Native(f, s) \/ up = Before(f, f.tmp, s[f.j + 1]))
  IN
  /\ Top.op = "sort"
  /\ IF f.j + 1 >= Len(s) THEN fault' = "stale" /\ UNCHANGED <<buf, stack>>
     ELSE /\ Native(f, s) => answer = (IF NativeAnswer(f, s) THEN "yes" ELSE "no")
          /\ Absent(f, s) => answer = "failed"
          /\ IF up /\ j >= f.from
             THEN LET g == [f EXCEPT !.j = j, !.honest = h] IN
                  /\ buf' = [buf EXCEPT ![f.arr] = t]
                  /\ Goes([g EXCEPT !.phase = IF Native(g, t) THEN "run" ELSE "script"])
                  /\ UNCHANGED fault
             ELSE LET u == Placed(t, j, f.tmp) IN
                  /\ buf' = [buf EXCEPT ![f.arr] = u]
                  /\ Compares([f EXCEPT !.honest = h], f.i + 1, u, Tail(stack))
  /\ UNCHANGED <<cap, refs>> /\ Inside

-----------------------------------------------------------------------------
(* Searching and comparing: Find walks as many elements as there were when *)
(* it began, operator== as many as there are.                              *)

(* Equals without a script: primitives, and the same handle twice.         *)
Identical(x, y) == kind # "object" /\ x = y

Asks(x, y) == kind # "primitive" /\ ~Identical(x, y)

Other(f) == IF f.op = "find" THEN f.tmp ELSE buf[f.other][f.j + 1]

(* The pair of elements at j: what Equals does before it asks a script.    *)
ScanStep ==
  LET f == Top
      more == f.j < (IF f.op = "find" THEN f.to ELSE Len(buf[f.arr]))
  IN
  /\ f.op \in {"find", "equal"} /\ f.phase = "run"
  /\ IF ~more THEN Ends /\ UNCHANGED fault
     ELSE IF f.j >= Len(buf[f.arr]) \/ (f.op = "equal" /\ f.j >= Len(buf[f.other]))
     THEN fault' = "null" /\ UNCHANGED stack
     ELSE LET x == buf[f.arr][f.j + 1]  y == Other(f) IN
          /\ IF Asks(x, y) THEN Goes([f EXCEPT !.phase = "script"])
             ELSE IF (f.op = "find") = Identical(x, y) THEN Ends
             ELSE Goes([f EXCEPT !.j = @ + 1])
          /\ UNCHANGED fault
  /\ UNCHANGED <<arrays, refs>> /\ Inside

(* opEquals returns, or does not finish, which counts as no.               *)
ScanReturns(equal) ==
  LET f == Top IN
  /\ f.op \in {"find", "equal"} /\ f.phase = "script"
  /\ IF (f.op = "find") = equal THEN Ends
     ELSE Goes([f EXCEPT !.j = @ + 1, !.phase = "run"])
  /\ UNCHANGED <<arrays, refs, fault>> /\ Inside

-----------------------------------------------------------------------------
(* What scripts call.  Scripts, below, says when they run.                 *)

Outside == UNCHANGED <<kind, held>> /\ Called

(* Create, with n default elements.  A size that is too large, and an      *)
(* allocator that returns null, leave an array without a buffer, which the *)
(* engine releases again when a script asked for it.                       *)
Create(a, n) ==
  /\ ~Exists(a) /\ ~Walked(a) /\ n <= MaxLen[a]
  /\ FitsMemory(n)
  /\ UNCHANGED reentered
  /\ \E new \in Constructed(n) :
       /\ buf' = [buf EXCEPT ![a] = new]
       /\ refs' = Adjusted(IF kind = "object" THEN new ELSE <<>>, <<>>)
  /\ cap' = [cap EXCEPT ![a] = n]
  /\ UNCHANGED <<stack, fault>> /\ Outside

(* Create, with n times a value.                                           *)
CreateFilled(a, n, v) ==
  /\ ~Exists(a) /\ ~Walked(a) /\ n <= MaxLen[a]
  /\ FitsMemory(n) /\ kind # "object"
  /\ UNCHANGED reentered
  /\ buf' = [buf EXCEPT ![a] = [k \in 1..n |-> v]]
  /\ refs' = Adjusted(buf'[a], <<>>)
  /\ cap' = [cap EXCEPT ![a] = n]
  /\ UNCHANGED <<stack, fault>> /\ Outside

(* Release of the last reference.  The engine has one to an array while a  *)
(* method of it runs.                                                      *)
Release(a) ==
  /\ ~Walked(a) /\ Room(1)
  /\ stack' = <<[Frame("destruct", a, a, 0, Len(buf[a])) EXCEPT !.how = "delete"]>>
                \o stack
  /\ UNCHANGED <<arrays, refs, fault, reentered>> /\ Outside

Reserve(a, n) ==
  /\ n <= MaxLen[a]
  /\ n > cap[a] /\ FitsMemory(n)
  /\ Changes(a)
  /\ cap' = [cap EXCEPT ![a] = n]
  /\ stack' = Moved(a)
  /\ UNCHANGED <<buf, refs, fault>> /\ Outside

Resize(a, n) ==
  /\ Room(1)
  /\ IF ~FitsMemory(n) THEN UNCHANGED reentered /\ Refuses(<<>>)
     ELSE /\ Changes(a)
          /\ ResizeBy(a, Difference(a, n), Word - 1, <<>>)
  /\ Outside

(* start + count is a word; the count is capped only when the sum says so. *)
(* Mutant: it is not.                                                      *)
Uncapped(start, n, len) == n

Capped(start, n, len) == IF Uint(start + n) > len THEN len - start ELSE n

RemoveRange(a, start, n) ==
  LET len == Len(buf[a])  m == Capped(start, n, len) IN
  /\ Room(1)
  /\ n # 0 /\ start <= len
  /\ Changes(a)
  /\ IF start + m >= Word THEN Fails("wrapped") ELSE Shrinks(a, start, m, <<>>)
  /\ Outside

(* RemoveLast is this of the last index, which wraps when there is none.   *)
RemoveAt(a, index) ==
  /\ Room(1)
  /\ index < Len(buf[a])
  /\ Changes(a)
  /\ ResizeBy(a, -1, index, <<>>)
  /\ Outside

(* InsertAt makes room and sets the value, whether there is room or not.   *)
InsertAt(a, index, v) ==
  LET s == buf[a] IN
  /\ index <= Len(s)
  /\ \/ /\ Grows(a, 1)
        /\ Changes(a)
        /\ \E new \in Constructed(1) :
             LET x == Stored(new[1], v) IN
             Replaced(a, Spliced(s, index, <<x>>), <<x>>, <<>>, <<>>)
     \/ /\ Changes(a)
        /\ IF index = Len(s) THEN Refuses(<<>>)
           ELSE LET old == s[index + 1]  x == Stored(old, v) IN
                Replaced(a, [s EXCEPT ![index + 1] = x], <<x>>, <<old>>, <<>>)
  /\ Outside

(* Mutant: the elements behind the gap are taken from where they were.     *)
FilledUnmoved(t, at, n, src, self) ==
  [k \in DOMAIN t |->
     IF k <= at \/ k > at + n THEN t[k]
     ELSE IF ~self THEN Stored(t[k], src[k - at])
     ELSE IF k <= 2 * at THEN Stored(t[k], t[k - at])
     ELSE Stored(t[k], t[k - at])]

(* The loops of InsertAt for an array: from the elements of another one,   *)
(* or from those of the same array before and after the gap.               *)
Filled(t, at, n, src, self) ==
  [k \in DOMAIN t |->
     IF k <= at \/ k > at + n THEN t[k]
     ELSE IF ~self THEN Stored(t[k], src[k - at])
     ELSE IF k <= 2 * at THEN Stored(t[k], t[k - at])
     ELSE Stored(t[k], t[at + n + (k - 2 * at)])]

InsertArray(a, index, b) ==
  LET s == buf[a]  n == Len(buf[b]) IN
  /\ Exists(b)
  /\ index <= Len(s) /\ n > 0
  /\ \/ /\ Grows(a, n)
        /\ Uses(a, b)
        /\ \E new \in Constructed(n) :
             LET t == Filled(Spliced(s, index, new), index, n, buf[b], a = b) IN
             Replaced(a, t, t, s, <<>>)
     \/ /\ Uses(a, b)
        /\ LET m == IF a = b THEN index ELSE n
               t == [k \in DOMAIN s |->
                       IF index < k /\ k <= index + m
                       THEN Stored(s[k], buf[b][k - index]) ELSE s[k]]
           IN Replaced(a, t, t, s, <<>>)
  /\ Outside

(* operator=: the size first, then the elements.                           *)
Assign(a, b) ==
  /\ Exists(b) /\ a # b
  /\ Room(2)
  /\ Uses(a, b)
  /\ ResizeBy(a, Difference(a, Len(buf[b])), Word - 1,
              <<[Frame("copy", a, b, 0, 0) EXCEPT !.how = "waiting"]>>)
  /\ Outside

Reverse(a) ==
  LET n == Len(buf[a]) IN
  /\ n >= 2
  /\ Changes(a)
  /\ buf' = [buf EXCEPT ![a] = [k \in 1..n |-> buf[a][n - k + 1]]]
  /\ UNCHANGED <<cap, refs, stack, fault>> /\ Outside

(* Two arrays of one length; otherwise operator== looks at no element.     *)
Equal(a, b) ==
  /\ Exists(b) /\ Len(buf[a]) = Len(buf[b])
  /\ Outermost /\ reentered' = (reentered \/ Dying(a) \/ Dying(b))
  /\ stack' = <<Frame("equal", a, b, 0, 0)>> \o stack
  /\ UNCHANGED <<arrays, refs, fault>> /\ Outside

Find(a, startAt, v) ==
  /\ startAt < Len(buf[a])
  /\ Outermost /\ Looks(a)
  /\ stack' = <<[Frame("find", a, a, startAt, Len(buf[a])) EXCEPT !.tmp = v]>>
                \o stack
  /\ UNCHANGED <<arrays, refs, fault>> /\ Outside

Sorting(a, how, from, to) ==
  Compares([Frame("sort", a, a, from, to) EXCEPT !.how = how, !.bag = Bag(buf[a], from, to)],
           from + 1, buf[a], stack)

(* SortAsc and SortDesc: the bounds are ints.                              *)
Sort(a, how, startAt, n) ==
  LET start == Signed(startAt)  end == Signed(Uint(startAt + n))  len == Len(buf[a]) IN
  /\ Outermost
  /\ n >= 2 /\ start < len /\ end <= len
  /\ Changes(a)
  /\ IF start < 0 /\ start + 1 < end
     THEN fault' = "wrapped" /\ UNCHANGED stack
     ELSE Sorting(a, how, start, end)
  /\ UNCHANGED <<arrays, refs>> /\ Outside

(* Sort with a callback: the end is capped, in 64 bits.                    *)
SortLess(a, startAt, n) ==
  LET len == Len(buf[a]) IN
  /\ Outermost
  /\ n >= 2 /\ startAt < len
  /\ Changes(a)
  /\ Sorting(a, "less", startAt, IF startAt + n > len THEN len ELSE startAt + n)
  /\ UNCHANGED <<arrays, refs>> /\ Outside

(* opIndex, and what scripts do with an element: take a handle to it.      *)
At(a, index) ==
  LET x == buf[a][index + 1] IN
  /\ Counted /\ index < Len(buf[a])
  /\ x \notin held \cup {Null}
  /\ Looks(a)
  /\ IF refs[x] = 0 THEN Fails("dead") /\ UNCHANGED held
     ELSE IF kind = "object" THEN UNCHANGED <<arrays, refs, held, stack, fault>>
     ELSE /\ held' = held \cup {x}
          /\ refs' = [refs EXCEPT ![x] = @ + 1]
          /\ UNCHANGED <<arrays, stack, fault>>
  /\ UNCHANGED kind /\ Called

NewObject(o) ==
  /\ kind = "handle" /\ refs[o] = 0
  /\ UNCHANGED reentered
  /\ refs' = [refs EXCEPT ![o] = 1] /\ held' = held \cup {o}
  /\ UNCHANGED <<kind, arrays, stack, fault>> /\ Called

DropHandle(o) ==
  /\ o \in held
  /\ UNCHANGED reentered
  /\ IF refs[o] = 0 THEN Fails("dead") /\ UNCHANGED held
     ELSE /\ refs' = [refs EXCEPT ![o] = @ - 1] /\ held' = held \ {o}
          /\ UNCHANGED <<arrays, stack, fault>>
  /\ UNCHANGED kind /\ Called

-----------------------------------------------------------------------------
Uints == 0..(Word - 1)

(* What a script may call of an array.                                     *)
Calls(a) ==
  \/ Release(a) \/ Reverse(a)
  \/ \E n \in Uints :
       \/ Reserve(a, n) \/ Resize(a, n) \/ RemoveAt(a, n) \/ At(a, n)
       \/ \E v \in Values : InsertAt(a, n, v) \/ Find(a, n, v)
       \/ \E b \in Array : InsertArray(a, n, b)
       \/ \E m \in Uints : RemoveRange(a, n, m)
       \/ /\ Outermost
          /\ \E m \in Uints : SortLess(a, n, m)
                               \/ \E how \in {"asc", "desc"} : Sort(a, how, n, m)
  \/ \E b \in Array : Assign(a, b) \/ Equal(a, b)

Walks ==
  \/ DestructStep \/ DestructEnds \/ DestructorReturns
  \/ CopyStarts \/ CopyStep \/ CopyEnds
  \/ \E answer \in {"yes", "no", "failed"} : SortStep(answer)
  \/ ScanStep \/ \E equal \in BOOLEAN : ScanReturns(equal)

Scripts ==
  \/ \E a \in Array : Exists(a) /\ Calls(a)
  \/ \E a \in Array, n \in Uints :
       Create(a, n) \/ \E v \in Values : CreateFilled(a, n, v)
  \/ \E o \in Object : NewObject(o) \/ DropHandle(o)

Next ==
  \/ fault = "none" /\ stack # <<>> /\ Walks
  \/ ScriptRuns /\ Scripts

Spec == Init /\ [][Next]_vars

-----------------------------------------------------------------------------
(* Properties.                                                             *)

(* Every variable has its type.                                            *)
TypeOK ==
  /\ kind \in Kinds
  /\ cap \in [Array -> 0..(Word - 1)]
  /\ \A a \in Array : buf[a] = NoBuffer \/ buf[a] \in Seq(Elem)
  /\ refs \in [Object -> Nat] /\ held \subseteq Object
  /\ stack \in Seq([op: {"sort", "find", "equal", "copy", "destruct"},
                    arr: Array, other: Array, from: Nat, to: Nat, i: Nat,
                    j: Int, tmp: Elem,
                    how: {"none", "asc", "desc", "less", "close", "delete",
                          "waiting", "copying"},
                    phase: {"run", "script"}, moved: BOOLEAN, honest: BOOLEAN,
                    bag: [Elem -> Nat]])
  /\ fault \in {"none", "freed", "stale", "dead", "null", "overrun",
               "wrapped"}
  /\ calls \in 0..MaxCalls /\ reentered \in BOOLEAN

(* The slot that a sort has taken the element of.                          *)
Settled(f) == [buf[f.arr] EXCEPT ![f.j + 2] = f.tmp]

(* The elements of an array, when a walk over it is undone or done.        *)
Contents(a) ==
  LET sorts == {k \in DOMAIN stack : stack[k].op = "sort" /\ stack[k].arr = a}
      dies  == {k \in DOMAIN stack : stack[k].op = "destruct" /\ stack[k].arr = a}
  IN IF buf[a] = NoBuffer THEN <<>>
     ELSE IF sorts # {} THEN Settled(stack[CHOOSE k \in sorts : TRUE])
     ELSE IF dies # {}
     THEN LET f == stack[CHOOSE k \in dies : TRUE] IN
          SubSeq(buf[a], 1, f.from) \o SubSeq(buf[a], f.j + 1, Len(buf[a]))
     ELSE buf[a]

(* Every object has as many references as slots and scripts have to it, at *)
(* any point of any walk: none is leaked and none is released twice.       *)
RefsBalanced ==
  Counted /\ fault = "none" /\ ~reentered =>
    \A o \in Object :
      LET slots == UNION {{<<a, k>> : k \in {l \in DOMAIN Contents(a) :
                                               Contents(a)[l] = o}} : a \in Array}
      IN refs[o] = Cardinality(slots) + (IF o \in held THEN 1 ELSE 0)

(* A sort loses and doubles no element, whatever the comparisons answer and *)
(* even when they fail, and the part it has done is in order when they are *)
(* those of an order: ascending for sortAsc and the callback, null first.  *)
SortsElements ==
  \A k \in DOMAIN stack :
    LET f == stack[k]  s == Settled(f) IN
    f.op = "sort" /\ fault = "none" /\ ~reentered =>
      /\ Bag(s, f.from, f.to) = f.bag
      /\ f.honest => \A x, y \in (f.from + 1)..(f.i + 1) :
           x < y /\ f.j + 2 \notin {x, y} => ~Before(f, buf[f.arr][y], buf[f.arr][x])

(* Only a callback that uses the array being walked makes a walk follow a  *)
(* pointer to freed memory, to a slot that is gone or to an element that   *)
(* was released.                                                           *)
FaultHasCause ==
  fault \in {"freed", "stale", "dead", "null", "overrun"} => reentered

(* InsertAt for an array inserts all of it, in order, and keeps what was   *)
(* there around it, for the same array too, whose elements move while they *)
(* are copied.                                                             *)
InsertsWhole ==
  [][\A a, b \in Array, at \in Uints :
       /\ kind # "object"
       /\ NoBuffer \notin {buf[a], buf'[a], buf[b]}
       /\ Len(buf'[a]) > Len(buf[a])
       /\ InsertArray(a, at, b)
       => buf'[a] = Spliced(buf[a], at, buf[b])]_buf
=============================================================================
