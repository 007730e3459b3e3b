---------------------------- MODULE EventsProofs ----------------------------
(***************************************************************************)
(* Proofs about Events: for any number of events, functions, modules and   *)
(* nested triggers, the lists stay in order, every activation calls each   *)
(* hooked function once, references balance, and MODULE_HANDLED stops      *)
(* after the module that handled the event and no sooner.                  *)
(*                                                                         *)
(* The argument relates the locals of every activation to the list it      *)
(* walks, which holds because the list keeps its length and order for as   *)
(* long as callCount, the number of activations on the stack, is not 0.    *)
(***************************************************************************)
EXTENDS Events, FiniteSetTheorems, SequenceTheorems, TLAPS

-----------------------------------------------------------------------------
(* Lists.                                                                  *)

(* A set of natural numbers that is not empty has a least element.         *)
LEMMA LeastNumber ==
  ASSUME NEW S \in SUBSET Nat, S # {}
  PROVE  \E n \in S : \A m \in S : n <= m
<1>1. IsWellFoundedOn(OpToRel(<, Nat), Nat)
  BY NatLessThanWellFounded
<1>2. PICK n \in S : \A m \in S : <<m, n>> \notin OpToRel(<, Nat)
  BY <1>1, WFMin
<1>3. ASSUME NEW m \in S PROVE n <= m
  <2>1. ~(m < n)
    BY <1>2 DEF OpToRel
  <2> QED BY <2>1
<1> QED BY <1>3

Increasing(p, n) == \A i, j \in 1..n : i < j => p[i] < p[j]

(* The numbers of a finite set can be put in ascending order.              *)
LEMMA CanAscend ==
  ASSUME NEW N \in Nat
  PROVE  \A K \in SUBSET (1..N) :
           \E p \in [1..Cardinality(K) -> K] : Increasing(p, Cardinality(K))
<1> DEFINE Sorts(K) == \E p \in [1..Cardinality(K) -> K] : Increasing(p, Cardinality(K))
           Bad == {n \in Nat : \E K \in SUBSET (1..n) : ~Sorts(K)}
<1>1. SUFFICES ASSUME Bad # {} PROVE FALSE
  OBVIOUS
<1>2. Bad \in SUBSET Nat
  OBVIOUS
<1>3. PICK n \in Bad : \A m \in Bad : n <= m
  <2> HIDE DEF Bad
  <2> QED BY <1>1, <1>2, LeastNumber
<1>4. PICK K \in SUBSET (1..n) : ~Sorts(K)
  OBVIOUS
<1>5. n \in Nat
  BY <1>2
<1>6. IsFiniteSet(K) /\ Cardinality(K) \in Nat
  <2>1. IsFiniteSet(1..n)
    BY <1>5, FS_Interval
  <2>2. IsFiniteSet(K)
    BY <2>1, FS_Subset
  <2> QED BY <2>2, FS_CardinalityType
<1>7. n # 0
  <2>1. SUFFICES ASSUME n = 0 PROVE FALSE
    OBVIOUS
  <2>2. K = {}
    BY <2>1
  <2>3. Cardinality(K) = 0
    BY <2>2, FS_EmptySet
  <2>4. [i \in 1..0 |-> i] \in [1..0 -> {}]
    OBVIOUS
  <2>5. Sorts({})
    BY <2>2, <2>3, <2>4 DEF Increasing
  <2> QED BY <1>4, <2>2, <2>5
<1>8. n - 1 \in Nat /\ n - 1 \notin Bad
  <2> HIDE DEF Bad
  <2> QED BY <1>3, <1>5, <1>7
<1>9. \A L \in SUBSET (1..(n - 1)) : Sorts(L)
  <2> HIDE DEF Sorts
  <2> QED BY <1>8
<1>10. n \in K
  <2>1. SUFFICES ASSUME n \notin K PROVE FALSE
    OBVIOUS
  <2>2. K \in SUBSET (1..(n - 1))
    BY <1>5, <2>1
  <2> HIDE DEF Sorts
  <2> QED BY <1>4, <1>9, <2>2
<1> DEFINE L == K \ {n}
<1>11. Cardinality(L) = Cardinality(K) - 1
  BY <1>6, <1>10, FS_RemoveElement
<1>12. L \in SUBSET (1..(n - 1))
  BY <1>5
<1>13. PICK p \in [1..Cardinality(L) -> L] : Increasing(p, Cardinality(L))
  BY <1>9, <1>12
<1> DEFINE c == Cardinality(K)
           q == [i \in 1..c |-> IF i = c THEN n ELSE p[i]]
<1>14. c \in Nat /\ p \in [1..(c - 1) -> L] /\ \A i, j \in 1..(c - 1) : i < j => p[i] < p[j]
  BY <1>6, <1>11, <1>13 DEF Increasing
<1>15. q \in [1..c -> K] /\ Increasing(q, c)
  <2> HIDE DEF c, L
  <2>1. L \subseteq K /\ \A x \in L : x \in Nat /\ x < n
    BY <1>5, <1>12 DEF L
  <2>2. ASSUME NEW i \in 1..c PROVE q[i] \in K
    <3>1. CASE i = c
      BY <1>10, <3>1
    <3>2. CASE i # c
      <4>1. i \in 1..(c - 1)
        BY <1>14, <3>2
      <4> QED BY <1>14, <2>1, <4>1, <3>2
    <3> QED BY <3>1, <3>2
  <2>3. ASSUME NEW i \in 1..c, NEW j \in 1..c, i < j PROVE q[i] < q[j]
    <3>1. i \in 1..(c - 1) /\ i # c /\ (j = c \/ (j \in 1..(c - 1) /\ j # c))
      BY <1>14, <2>3
    <3> QED BY <1>14, <2>1, <2>3, <3>1
  <2> QED BY <2>2, <2>3 DEF Increasing
<1> QED BY <1>4, <1>15

(* Ascending counts through all of K.                                      *)
LEMMA AscendingCounts ==
  ASSUME NEW N \in Nat, NEW K \in SUBSET (1..N)
  PROVE  /\ IsFiniteSet(K) /\ Cardinality(K) \in Nat
         /\ Ascending(K) \in [1..Cardinality(K) -> K]
         /\ Increasing(Ascending(K), Cardinality(K))
         /\ \A x \in K : \E i \in 1..Cardinality(K) : Ascending(K)[i] = x
<1> DEFINE c == Cardinality(K)
           p == Ascending(K)
<1>1. IsFiniteSet(K) /\ c \in Nat
  <2>1. IsFiniteSet(1..N)
    BY FS_Interval
  <2>2. IsFiniteSet(K)
    BY <2>1, FS_Subset
  <2> QED BY <2>2, FS_CardinalityType
<1> HIDE DEF c
<1>2. p \in [1..c -> K] /\ Increasing(p, c)
  <2>1. \E q \in [1..c -> K] : Increasing(q, c)
    BY CanAscend DEF c
  <2>2. \E q \in [1..c -> K] : \A i, j \in DOMAIN q : i < j => q[i] < q[j]
    BY <2>1 DEF Increasing
  <2>3. p \in [1..c -> K] /\ \A i, j \in DOMAIN p : i < j => p[i] < p[j]
    BY <2>2 DEF Ascending, c
  <2> QED BY <2>3 DEF Increasing
<1> HIDE DEF p
<1>3. p \in Injection(1..c, K)
  <2>1. ASSUME NEW i \in 1..c, NEW j \in 1..c, p[i] = p[j] PROVE i = j
    <3>1. p[i] \in 1..N /\ p[j] \in 1..N
      BY <1>2
    <3>2. ~(i < j) /\ ~(j < i)
      BY <1>2, <2>1, <3>1 DEF Increasing
    <3> QED BY <1>1, <3>2
  <2> QED BY <1>2, <2>1 DEF Injection, IsInjective
<1>4. IsFiniteSet(1..c) /\ Cardinality(1..c) = c
  BY <1>1, FS_Interval
<1>5. p \in Surjection(1..c, K)
  BY <1>1, <1>3, <1>4, FS_Injection DEF c
<1>6. \A x \in K : \E i \in 1..c : p[i] = x
  BY <1>5 DEF Surjection
<1> QED BY <1>1, <1>2, <1>6 DEF c, p

(* What is selected of a list are the elements at K, in the same order.    *)
LEMMA SelectedProperties ==
  ASSUME NEW S, NEW list \in Seq(S), NEW K \in SUBSET (DOMAIN list)
  PROVE  /\ Selected(list, K) \in Seq(S)
         /\ Range(Selected(list, K)) = {list[i] : i \in K}
         /\ \A i, j \in DOMAIN Selected(list, K) :
              i < j => \E k, l \in K : /\ k < l
                                     /\ Selected(list, K)[i] = list[k]
                                     /\ Selected(list, K)[j] = list[l]
<1> DEFINE c == Cardinality(K)
           p == Ascending(K)
           s == Selected(list, K)
<1>1. Len(list) \in Nat /\ K \in SUBSET (1..Len(list)) /\ \A i \in K : list[i] \in S
  BY LenProperties
<1>2. /\ c \in Nat /\ p \in [1..c -> K] /\ Increasing(p, c)
      /\ \A x \in K : \E i \in 1..c : p[i] = x
  BY <1>1, AscendingCounts
<1>3. s = [i \in 1..c |-> list[p[i]]]
  BY DEF Selected
<1> HIDE DEF c, p, s
<1>4. s \in [1..c -> S] /\ DOMAIN s = 1..c /\ \A i \in 1..c : s[i] = list[p[i]]
  BY <1>1, <1>2, <1>3
<1>5. s \in Seq(S)
  BY <1>2, <1>4
<1>6. Range(s) = {list[i] : i \in K}
  <2>1. \A x : x \in Range(s) <=> \E i \in 1..c : x = list[p[i]]
    BY <1>4 DEF Range
  <2>2. \A x : x \in {list[i] : i \in K} <=> \E i \in 1..c : x = list[p[i]]
    BY <1>2
  <2> QED BY <2>1, <2>2
<1>7. ASSUME NEW i \in 1..c, NEW j \in 1..c, i < j
      PROVE  \E k, l \in K : k < l /\ s[i] = list[k] /\ s[j] = list[l]
  <2>1. p[i] \in K /\ p[j] \in K /\ p[i] < p[j]
    BY <1>2, <1>7 DEF Increasing
  <2> QED BY <1>4, <2>1
<1> QED BY <1>4, <1>5, <1>6, <1>7 DEF s

Slots == Function \cup {NoFunction}

(* f may stand before g in a list.                                         *)
Before(f, g) ==
  f # NoFunction /\ g # NoFunction => f # g /\ ~ModuleLess(ModuleOf[g], ModuleOf[f])

Sorted(list) == \A i, j \in DOMAIN list : i < j => Before(list[i], list[j])

(* Erasing keeps the rest, in order.                                       *)
LEMMA WithoutProperties ==
  ASSUME NEW list \in Seq(Slots), NEW F, Sorted(list)
  PROVE  /\ Without(list, F) \in Seq(Slots)
         /\ Range(Without(list, F)) = Range(list) \ F
         /\ Sorted(Without(list, F))
<1> DEFINE K == {i \in DOMAIN list : list[i] \notin F}
           s == Selected(list, K)
<1>1. /\ s \in Seq(Slots) /\ Range(s) = {list[i] : i \in K}
      /\ \A i, j \in DOMAIN s :
           i < j => \E k, l \in K : k < l /\ s[i] = list[k] /\ s[j] = list[l]
  <2>1. K \in SUBSET (DOMAIN list)
    OBVIOUS
  <2> HIDE DEF K
  <2> QED BY <2>1, SelectedProperties
<1>2. {list[i] : i \in K} = Range(list) \ F
  BY DEF Range
<1>3. Without(list, F) = s
  BY DEF Without
<1> HIDE DEF s
<1>4. Sorted(s)
  BY <1>1 DEF Sorted
<1> QED BY <1>1, <1>2, <1>3, <1>4

(* A function is inserted behind those of its module.                      *)
LEMMA InsertProperties ==
  ASSUME NEW list \in Seq(Function), Sorted(list),
         NEW f \in Function, f \notin Range(list)
  PROVE  /\ Insert(list, f) \in Seq(Function)
         /\ Range(Insert(list, f)) = Range(list) \cup {f}
         /\ Sorted(Insert(list, f))
<1> DEFINE A == {i \in DOMAIN list : ModuleLess(ModuleOf[f], ModuleOf[list[i]])}
           B == DOMAIN list \ A
           s == Selected(list, A)
           r == Selected(list, B)
           t == r \o <<f>> \o s
<1>1. /\ s \in Seq(Function) /\ Range(s) = {list[i] : i \in A}
      /\ \A i, j \in DOMAIN s :
           i < j => \E k, l \in A : k < l /\ s[i] = list[k] /\ s[j] = list[l]
  <2>1. A \in SUBSET (DOMAIN list)
    OBVIOUS
  <2> HIDE DEF A, B
  <2> QED BY <2>1, SelectedProperties
<1>2. /\ r \in Seq(Function) /\ Range(r) = {list[i] : i \in B}
      /\ \A i, j \in DOMAIN r :
           i < j => \E k, l \in B : k < l /\ r[i] = list[k] /\ r[j] = list[l]
  <2>1. B \in SUBSET (DOMAIN list)
    OBVIOUS
  <2> HIDE DEF A, B
  <2> QED BY <2>1, SelectedProperties
<1>3. Insert(list, f) = t
  BY DEF Insert
<1>4. \A x : x \in Range(list) <=> x \in Range(r) \/ x \in Range(s)
  <2>1. \A x : x \in Range(list) <=> \E i \in A \cup B : x = list[i]
    BY DEF Range
  <2>2. \A x : x \in Range(list) <=> (\E i \in A : x = list[i]) \/ (\E i \in B : x = list[i])
    BY <2>1
  <2> QED BY <1>1, <1>2, <2>2
<1>5. \A x \in Range(s) : x \in Function /\ ModuleLess(ModuleOf[f], ModuleOf[x])
  <2>1. \A i \in A : list[i] \in Function
    BY LenProperties
  <2> QED BY <1>1, <2>1
<1>6. \A x \in Range(r) : x \in Function /\ ~ModuleLess(ModuleOf[f], ModuleOf[x])
  <2>1. \A i \in B : list[i] \in Function
    BY LenProperties
  <2> QED BY <1>2, <2>1
<1> HIDE DEF r, s
<1>7. Sorted(r) /\ Sorted(s)
  BY <1>1, <1>2 DEF Sorted
<1> HIDE DEF A, B
<1> DEFINE m == Len(r)
           n == Len(s)
<1>8. /\ m \in Nat /\ n \in Nat /\ DOMAIN r = 1..m /\ DOMAIN s = 1..n
      /\ \A i \in 1..m : r[i] \in Range(r)
      /\ \A i \in 1..n : s[i] \in Range(s)
  BY <1>1, <1>2, LenProperties DEF Range
<1>9. /\ t \in Seq(Function) /\ Len(t) = m + 1 + n /\ DOMAIN t = 1..(m + 1 + n)
      /\ \A i \in 1..(m + 1 + n) :
           t[i] = IF i <= m THEN r[i] ELSE IF i = m + 1 THEN f ELSE s[i - m - 1]
  BY <1>1, <1>2
<1> HIDE DEF t, m, n
<1>10. Range(t) = Range(list) \cup {f}
  <2>1. \A x \in Range(t) : x = f \/ x \in Range(r) \/ x \in Range(s)
    <3>1. SUFFICES ASSUME NEW i \in 1..(m + 1 + n)
                   PROVE  t[i] = f \/ t[i] \in Range(r) \/ t[i] \in Range(s)
      BY <1>9 DEF Range
    <3>2. i <= m => i \in 1..m
      BY <1>8
    <3>3. ~(i <= m) /\ i # m + 1 => i - m - 1 \in 1..n
      BY <1>8
    <3> QED BY <1>8, <1>9, <3>2, <3>3
  <2>2. f \in Range(t)
    <3>1. m + 1 \in 1..(m + 1 + n) /\ t[m + 1] = f
      BY <1>8, <1>9
    <3> QED BY <1>9, <3>1 DEF Range
  <2>3. \A x \in Range(r) : x \in Range(t)
    <3>1. \A i \in 1..m : i \in 1..(m + 1 + n) /\ t[i] = r[i]
      BY <1>8, <1>9
    <3> QED BY <1>8, <1>9, <3>1 DEF Range
  <2>4. \A x \in Range(s) : x \in Range(t)
    <3>1. ASSUME NEW i \in 1..n PROVE s[i] \in Range(t)
      <4>1. /\ i + m + 1 \in 1..(m + 1 + n) /\ ~(i + m + 1 <= m) /\ i + m + 1 # m + 1
            /\ (i + m + 1) - m - 1 = i
        BY <1>8
      <4>2. t[i + m + 1] = s[i]
        BY <1>9, <4>1
      <4> QED BY <1>9, <4>1, <4>2 DEF Range
    <3> QED BY <1>8, <3>1 DEF Range
  <2> QED BY <1>4, <2>1, <2>2, <2>3, <2>4
<1>11. Sorted(t)
  <2>1. SUFFICES ASSUME NEW i \in 1..(m + 1 + n), NEW j \in 1..(m + 1 + n), i < j
                 PROVE  Before(t[i], t[j])
    BY <1>9 DEF Sorted
  <2>2. ModuleOf[f] \in Module /\ \A x \in Function : ModuleOf[x] \in Module /\ Rank[ModuleOf[x]] \in Nat
    BY ModuleAssumption
  <2>3. CASE j <= m
    <3>1. i \in 1..m /\ j \in 1..m /\ t[i] = r[i] /\ t[j] = r[j]
      BY <1>8, <1>9, <2>1, <2>3
    <3> QED BY <1>7, <1>8, <2>1, <3>1 DEF Sorted
  <2>4. CASE j = m + 1
    <3>1. i \in 1..m /\ t[i] \in Range(r) /\ t[j] = f
      BY <1>8, <1>9, <2>1, <2>4
    <3>2. t[i] # f /\ ~ModuleLess(ModuleOf[f], ModuleOf[t[i]])
      BY <1>4, <1>6, <3>1
    <3> QED BY <3>1, <3>2 DEF Before
  <2>5. CASE j > m + 1
    <3>1. j - m - 1 \in 1..n /\ t[j] = s[j - m - 1] /\ t[j] \in Range(s)
      BY <1>8, <1>9, <2>5
    <3>2. t[j] # f /\ t[j] \in Function /\ Rank[ModuleOf[f]] < Rank[ModuleOf[t[j]]]
      BY <1>4, <1>5, <3>1 DEF ModuleLess
    <3>3. CASE i <= m
      <4>1. i \in 1..m /\ t[i] \in Range(r)
        BY <1>8, <1>9, <3>3
      <4>2. t[i] \in Function /\ ~(Rank[ModuleOf[f]] < Rank[ModuleOf[t[i]]])
        BY <1>6, <4>1 DEF ModuleLess
      <4>3. ~(Rank[ModuleOf[t[j]]] < Rank[ModuleOf[t[i]]]) /\ t[i] # t[j]
        BY <2>2, <3>2, <4>2
      <4> QED BY <4>3 DEF Before, ModuleLess
    <3>4. CASE i = m + 1
      <4>1. t[i] = f
        BY <1>8, <1>9, <3>4
      <4>2. ~(Rank[ModuleOf[t[j]]] < Rank[ModuleOf[f]])
        BY <2>2, <3>2
      <4> QED BY <3>2, <4>1, <4>2 DEF Before, ModuleLess
    <3>5. CASE i > m + 1
      <4>1. i - m - 1 \in 1..n /\ t[i] = s[i - m - 1] /\ i - m - 1 < j - m - 1
        BY <1>8, <1>9, <2>1, <3>5
      <4> QED BY <1>7, <1>8, <3>1, <4>1 DEF Sorted
    <3> QED BY <1>8, <3>3, <3>4, <3>5
  <2> QED BY <1>8, <2>3, <2>4, <2>5
<1> QED BY <1>3, <1>9, <1>10, <1>11

-----------------------------------------------------------------------------
(* Stacks of activations.                                                  *)

(* The places of the elements of T.                                        *)
Where(s, T) == {k \in DOMAIN s : s[k] \in T}

LEMMA WhereFinite ==
  ASSUME NEW s \in Seq(Activation), NEW T
  PROVE  /\ IsFiniteSet(Where(s, T)) /\ Cardinality(Where(s, T)) \in Nat
         /\ Cardinality(Where(s, T)) = 0 <=> \A a \in Range(s) : a \notin T
<1>1. Len(s) \in Nat /\ DOMAIN s = 1..Len(s)
  BY LenProperties
<1>2. IsFiniteSet(1..Len(s))
  BY <1>1, FS_Interval
<1>3. IsFiniteSet(Where(s, T))
  <2>1. Where(s, T) \in SUBSET (1..Len(s))
    BY <1>1 DEF Where
  <2> QED BY <1>2, <2>1, FS_Subset
<1>4. Cardinality(Where(s, T)) \in Nat
  BY <1>3, FS_CardinalityType
<1>5. Cardinality(Where(s, T)) = 0 <=> Where(s, T) = {}
  BY <1>3, FS_EmptySet
<1>6. Where(s, T) = {} <=> \A a \in Range(s) : a \notin T
  BY DEF Where, Range
<1> QED BY <1>3, <1>4, <1>5, <1>6

LEMMA Pushed ==
  ASSUME NEW s \in Seq(Activation), NEW a \in Activation
  PROVE  /\ <<a>> \o s \in Seq(Activation) /\ <<a>> \o s # <<>>
         /\ Head(<<a>> \o s) = a /\ Tail(<<a>> \o s) = s
         /\ Len(<<a>> \o s) = Len(s) + 1
         /\ Range(<<a>> \o s) = {a} \cup Range(s)
         /\ \A T : Cardinality(Where(<<a>> \o s, T)) =
                   Cardinality(Where(s, T)) + (IF a \in T THEN 1 ELSE 0)
<1> DEFINE t == <<a>> \o s
<1>1. /\ t \in Seq(Activation) /\ Len(t) = Len(s) + 1 /\ Len(s) \in Nat
      /\ DOMAIN t = 1..(Len(s) + 1) /\ DOMAIN s = 1..Len(s)
      /\ t[1] = a /\ \A k \in 1..Len(s) : t[k + 1] = s[k]
  OBVIOUS
<1>2. t # <<>> /\ Head(t) = a /\ Tail(t) = s
  OBVIOUS
<1> HIDE DEF t
<1>3. \A k \in DOMAIN t : k # 1 => k - 1 \in DOMAIN s /\ t[k] = s[k - 1]
  <2>1. SUFFICES ASSUME NEW k \in DOMAIN t, k # 1
                 PROVE  k - 1 \in DOMAIN s /\ t[k] = s[k - 1]
    OBVIOUS
  <2>2. k - 1 \in 1..Len(s) /\ (k - 1) + 1 = k
    BY <1>1, <2>1
  <2> QED BY <1>1, <2>2
<1>4. Range(t) = {a} \cup Range(s)
  <2>1. \A k \in DOMAIN t : t[k] \in {a} \cup Range(s)
    BY <1>1, <1>3 DEF Range
  <2>2. a \in Range(t)
    <3>1. 1 \in DOMAIN t
      BY <1>1
    <3> QED BY <1>1, <3>1 DEF Range
  <2>3. \A k \in DOMAIN s : s[k] \in Range(t)
    <3>1. \A k \in DOMAIN s : k + 1 \in DOMAIN t
      BY <1>1
    <3> QED BY <1>1, <3>1 DEF Range
  <2> QED BY <2>1, <2>2, <2>3 DEF Range
<1>5. ASSUME NEW T
      PROVE  Cardinality(Where(t, T)) = Cardinality(Where(s, T)) + (IF a \in T THEN 1 ELSE 0)
  <2> DEFINE W == Where(s, T)
             V == Where(t, T) \ {1}
             up == [k \in W |-> k + 1]
  <2>1. IsFiniteSet(W) /\ Cardinality(W) \in Nat
    BY WhereFinite
  <2>2. \A k \in W : k \in Nat /\ k + 1 \in V
    BY <1>1 DEF Where
  <2>3. \A k \in V : k \in Nat /\ k - 1 \in W
    BY <1>1, <1>3 DEF Where
  <2> HIDE DEF W, V
  <2>4. up \in Bijection(W, V)
    <3>1. up \in [W -> V]
      BY <2>2
    <3>2. \A k, l \in W : up[k] = up[l] => k = l
      BY <2>2
    <3>3. \A k \in V : k - 1 \in W /\ up[k - 1] = k
      BY <2>3
    <3> HIDE DEF up
    <3>4. up \in Injection(W, V)
      BY <3>1, <3>2 DEF Injection, IsInjective
    <3>5. up \in Surjection(W, V)
      BY <3>1, <3>3 DEF Surjection
    <3> QED BY <3>4, <3>5 DEF Bijection
  <2>5. IsFiniteSet(V) /\ Cardinality(V) = Cardinality(W)
    <3>1. ExistsBijection(W, V)
      BY <2>4 DEF ExistsBijection
    <3> QED BY <2>1, <3>1, FS_Bijection
  <2>6. 1 \in Where(t, T) <=> a \in T
    BY <1>1 DEF Where
  <2>7. 1 \notin V
    BY DEF V
  <2>8. Where(t, T) = IF a \in T THEN V \cup {1} ELSE V
    BY <2>6 DEF V
  <2>9. Cardinality(V \cup {1}) = Cardinality(V) + 1
    BY <2>5, <2>7, FS_AddElement
  <2>10. Cardinality(Where(t, T)) = Cardinality(W) + (IF a \in T THEN 1 ELSE 0)
    BY <2>1, <2>5, <2>8, <2>9
  <2> QED BY <2>10 DEF W
<1> QED BY <1>1, <1>2, <1>4, <1>5 DEF t

LEMMA Popped ==
  ASSUME NEW s \in Seq(Activation), s # <<>>
  PROVE  /\ Head(s) \in Activation /\ Tail(s) \in Seq(Activation)
         /\ Range(s) = {Head(s)} \cup Range(Tail(s))
         /\ Len(s) = Len(Tail(s)) + 1
         /\ \A T : Cardinality(Where(s, T)) =
                   Cardinality(Where(Tail(s), T)) + (IF Head(s) \in T THEN 1 ELSE 0)
<1>1. Head(s) \in Activation /\ Tail(s) \in Seq(Activation)
  BY HeadTailProperties
<1>2. s = <<Head(s)>> \o Tail(s)
  OBVIOUS
<1> DEFINE a == Head(s)
           t == Tail(s)
<1> HIDE DEF a, t
<1>3. /\ Range(<<a>> \o t) = {a} \cup Range(t)
      /\ Len(<<a>> \o t) = Len(t) + 1
      /\ \A T : Cardinality(Where(<<a>> \o t, T)) =
                Cardinality(Where(t, T)) + (IF a \in T THEN 1 ELSE 0)
  BY <1>1, Pushed DEF a, t
<1>4. s = <<a>> \o t
  BY <1>2 DEF a, t
<1>5. /\ Range(s) = {a} \cup Range(t)
      /\ Len(s) = Len(t) + 1
      /\ \A T : Cardinality(Where(s, T)) = Cardinality(Where(t, T)) + (IF a \in T THEN 1 ELSE 0)
  BY <1>3, <1>4
<1> QED BY <1>1, <1>5 DEF a, t

-----------------------------------------------------------------------------
(* The invariant.                                                          *)

(* EachHookOnce, of one activation. *)
Walk(a, list) ==
  /\ Past(a) <= Len(list)
  /\ \A i \in DOMAIN list :
       list[i] # NoFunction => (list[i] \in a.called <=> i <= Past(a))

(* No function ahead is of a module that goes before the last one called.  *)
Ahead(a, list) ==
  a.lastModule # NoModule =>
    \A i \in DOMAIN list :
      list[i] # NoFunction /\ i > Past(a) => Rank[a.lastModule] <= Rank[ModuleOf[list[i]]]

(* The module that handled the event is the last that was called.          *)
Answers(a, mode) ==
  /\ a.running # NoFunction => a.lastModule = ModuleOf[a.running]
  /\ a.code = "handled" <=> a.handler # NoModule
  /\ a.handler # NoModule /\ mode = "moduleHandled" => a.lastModule = a.handler

Good(a, mode, list) ==
  /\ Walk(a, list)
  /\ Delegate = {} => Ahead(a, list) /\ Answers(a, mode)

Of(e) == {a \in Activation : a.event = e}

RunningOf(f) == {a \in Activation : a.running = f}

Counted(st, counts) == \A e \in Event : counts[e] = Cardinality(Where(st, Of(e)))

Lists(hs, counts) ==
  \A e \in Event : Sorted(hs[e]) /\ (counts[e] = 0 => NoFunction \notin Range(hs[e]))

AllGood(st, modes, hs) == \A a \in Range(st) : Good(a, modes[a.event], hs[a.event])

Typed ==
  /\ stopMode \in [Event -> StopModes]
  /\ hooks \in [Event -> Seq(Slots)]
  /\ callCount \in [Event -> Nat]
  /\ stack \in Seq(Activation)
  /\ refs \in [Function -> Int]
  /\ owned \in [Function -> BOOLEAN]
  /\ result \in {"none", "failed", "handled", "noneHandled"}

Inv ==
  /\ Typed
  /\ Counted(stack, callCount)
  /\ Lists(hooks, callCount)
  /\ AllGood(stack, stopMode, hooks)

(* The slots of a list, some of them vacated. *)
Vacated(new, list) ==
  DOMAIN new = DOMAIN list /\ \A i \in DOMAIN list : new[i] \in {list[i], NoFunction}

LEMMA VacatedGood ==
  ASSUME NEW a \in Activation, NEW mode, NEW list \in Seq(Slots), NEW new \in Seq(Slots),
         Vacated(new, list), Good(a, mode, list)
  PROVE  Good(a, mode, new)
<1>1. /\ Len(new) = Len(list) /\ DOMAIN new = DOMAIN list
      /\ \A i \in DOMAIN list : new[i] = list[i] \/ new[i] = NoFunction
  BY DEF Vacated
<1>2. Walk(a, new)
  BY <1>1 DEF Good, Walk
<1>3. Ahead(a, list) => Ahead(a, new)
  BY <1>1 DEF Ahead
<1> QED BY <1>2, <1>3 DEF Good

LEMMA VacatedSorted ==
  ASSUME NEW list, NEW new, Vacated(new, list), Sorted(list)
  PROVE  Sorted(new)
BY DEF Vacated, Sorted, Before

(* An event with an activation is being triggered.                         *)
LEMMA Triggered ==
  ASSUME Typed, Counted(stack, callCount), NEW a \in Range(stack)
  PROVE  a \in Activation /\ a.event \in Event /\ IsTriggering(a.event)
<1>1. a \in Activation /\ a \in Of(a.event) /\ a.event \in Event
  <2>1. stack \in Seq(Activation)
    BY DEF Typed
  <2>2. a \in Activation
    BY <2>1 DEF Range
  <2> QED BY <2>2 DEF Of, Activation
<1>2. Cardinality(Where(stack, Of(a.event))) # 0
  BY <1>1, WhereFinite DEF Typed
<1> QED BY <1>1, <1>2 DEF Counted, IsTriggering

(* What happens to the lists while the stack stays as it is.               *)
LEMMA ListsChange ==
  ASSUME Inv, NEW hs \in [Event -> Seq(Slots)],
         \A e \in Event : IsTriggering(e) => Vacated(hs[e], hooks[e]),
         \A e \in Event : ~IsTriggering(e) => Sorted(hs[e]) /\ NoFunction \notin Range(hs[e])
  PROVE  Lists(hs, callCount) /\ AllGood(stack, stopMode, hs)
<1>1. Lists(hs, callCount)
  <2>1. ASSUME NEW e \in Event
        PROVE  Sorted(hs[e]) /\ (callCount[e] = 0 => NoFunction \notin Range(hs[e]))
    <3>1. CASE IsTriggering(e)
      <4>1. Sorted(hooks[e])
        BY DEF Inv, Lists
      <4>2. Sorted(hs[e])
        BY <3>1, <4>1, VacatedSorted
      <4> QED BY <3>1, <4>2 DEF IsTriggering
    <3>2. CASE ~IsTriggering(e)
      BY <3>2
    <3> QED BY <3>1, <3>2
  <2> QED BY <2>1 DEF Lists
<1>2. ASSUME NEW a \in Range(stack) PROVE Good(a, stopMode[a.event], hs[a.event])
  <2>1. a \in Activation /\ a.event \in Event /\ IsTriggering(a.event)
    BY Triggered DEF Inv
  <2>2. Good(a, stopMode[a.event], hooks[a.event])
    BY DEF Inv, AllGood
  <2>3. hooks[a.event] \in Seq(Slots) /\ hs[a.event] \in Seq(Slots)
    BY <2>1 DEF Inv, Typed
  <2> QED BY <2>1, <2>2, <2>3, VacatedGood
<1> QED BY <1>1, <1>2 DEF AllGood

LEMMA InitInv == Init => Inv
<1> SUFFICES ASSUME Init PROVE Inv
  OBVIOUS
<1>1. Typed
  BY FunctionAssumption, EmptySeq DEF Init, Typed
<1>2. Range(<<>>) = {} /\ <<>> \in Seq(Activation)
  BY EmptySeq DEF Range
<1>3. Counted(stack, callCount)
  <2>1. \A T : Cardinality(Where(<<>>, T)) = 0
    BY <1>2, WhereFinite
  <2> QED BY <2>1 DEF Init, Counted
<1>4. Lists(hooks, callCount)
  BY <1>2 DEF Init, Lists, Sorted
<1>5. AllGood(stack, stopMode, hooks)
  BY <1>2 DEF Init, AllGood
<1> QED BY <1>1, <1>3, <1>4, <1>5 DEF Inv

(* Where the stack, the counts and the lists stay.                         *)
LEMMA QuietInv ==
  ASSUME Inv, UNCHANGED <<stopMode, hooks, callCount, stack>>,
         refs' \in [Function -> Int], owned' \in [Function -> BOOLEAN],
         result' \in {"none", "failed", "handled", "noneHandled"}
  PROVE  Inv'
BY DEF Inv, Typed

(* Where only the lists change.                                            *)
LEMMA ListsInv ==
  ASSUME Inv, UNCHANGED <<stopMode, callCount, stack, owned, result>>,
         refs' \in [Function -> Int], hooks' \in [Event -> Seq(Slots)],
         \A e \in Event : IsTriggering(e) => Vacated(hooks'[e], hooks[e]),
         \A e \in Event : ~IsTriggering(e) =>
            Sorted(hooks'[e]) /\ NoFunction \notin Range(hooks'[e])
  PROVE  Inv'
<1>1. Lists(hooks', callCount) /\ AllGood(stack, stopMode, hooks')
  BY ListsChange
<1> QED BY <1>1 DEF Inv, Typed

-----------------------------------------------------------------------------
(* One lemma for each action: scripts.                                     *)

LEMMA DelegatesInv ==
  ASSUME Inv, NEW f \in Function, MakeDelegate(f) \/ DropDelegate(f)
  PROVE  Inv'
<1>1. refs' \in [Function -> Int] /\ owned' \in [Function -> BOOLEAN]
  <2>1. refs \in [Function -> Int] /\ owned \in [Function -> BOOLEAN]
    BY DEF Inv, Typed
  <2>2. CASE MakeDelegate(f)
    BY <2>1, <2>2 DEF MakeDelegate
  <2>3. CASE DropDelegate(f)
    BY <2>1, <2>3 DEF DropDelegate
  <2> QED BY <2>2, <2>3
<1>2. UNCHANGED <<stopMode, hooks, callCount, stack, result>>
  BY DEF MakeDelegate, DropDelegate
<1>3. result' \in {"none", "failed", "handled", "noneHandled"}
  BY <1>2 DEF Inv, Typed
<1> QED BY <1>1, <1>2, <1>3, QuietInv

(* Without an activation no slot of a list is empty.                       *)
LEMMA ListFull ==
  ASSUME Inv, NEW e \in Event, ~IsTriggering(e)
  PROVE  /\ hooks[e] \in Seq(Function) /\ hooks[e] \in Seq(Slots)
         /\ Sorted(hooks[e]) /\ NoFunction \notin Range(hooks[e])
<1>1. hooks[e] \in Seq(Slots) /\ Sorted(hooks[e]) /\ NoFunction \notin Range(hooks[e])
  BY DEF Inv, Typed, Lists, IsTriggering
<1>2. \A i \in 1..Len(hooks[e]) : hooks[e][i] \in Slots /\ hooks[e][i] # NoFunction
  BY <1>1 DEF Range
<1>3. hooks[e] \in Seq(Function)
  BY <1>1, <1>2 DEF Slots
<1> QED BY <1>1, <1>3

LEMMA HookInv ==
  ASSUME Inv, NEW e \in Event, NEW f \in Function, Hook(e, f)
  PROVE  /\ Inv'
         /\ Range(hooks'[e]) = Range(hooks[e]) \cup {f}
<1>1. ~IsTriggering(e) /\ f \notin Range(hooks[e])
  BY FunctionAssumption DEF Hook, MayHook, Hooked
<1>2. /\ hooks[e] \in Seq(Function) /\ Sorted(hooks[e]) /\ NoFunction \notin Range(hooks[e])
  BY <1>1, ListFull
<1>3. /\ Insert(hooks[e], f) \in Seq(Function)
      /\ Range(Insert(hooks[e], f)) = Range(hooks[e]) \cup {f}
      /\ Sorted(Insert(hooks[e], f))
  BY <1>1, <1>2, InsertProperties
<1>4. Insert(hooks[e], f) \in Seq(Slots)
  BY <1>3 DEF Slots
<1>5. hooks' = [hooks EXCEPT ![e] = Insert(hooks[e], f)]
  BY DEF Hook
<1>6. /\ hooks' \in [Event -> Seq(Slots)] /\ hooks'[e] = Insert(hooks[e], f)
      /\ \A d \in Event : d # e => hooks'[d] = hooks[d]
  BY <1>4, <1>5 DEF Inv, Typed
<1>7. \A d \in Event : IsTriggering(d) => Vacated(hooks'[d], hooks[d])
  BY <1>1, <1>6 DEF Vacated
<1>8. ASSUME NEW d \in Event, ~IsTriggering(d)
      PROVE  Sorted(hooks'[d]) /\ NoFunction \notin Range(hooks'[d])
  <2>1. CASE d = e
    BY <1>2, <1>3, <1>6, <2>1, FunctionAssumption
  <2>2. CASE d # e
    BY <1>6, <1>8, <2>2, ListFull
  <2> QED BY <2>1, <2>2
<1>9. UNCHANGED <<stopMode, callCount, stack, owned, result>> /\ refs' \in [Function -> Int]
  BY DEF Hook, Inv, Typed
<1>10. Inv'
  BY <1>6, <1>7, <1>8, <1>9, ListsInv
<1> QED BY <1>3, <1>6, <1>10

LEMMA UnhookInv ==
  ASSUME Inv, NEW e \in Event, NEW f \in Function, Unhook(e, f)
  PROVE  /\ Inv'
         /\ Range(hooks'[e]) \ {NoFunction} = Range(hooks[e]) \ {f, NoFunction}
<1>1. hooks[e] \in Seq(Slots) /\ Sorted(hooks[e])
  BY DEF Inv, Typed, Lists
<1> DEFINE new == VacateSlot(e, f)
<1>2. hooks' = [hooks EXCEPT ![e] = new]
  BY DEF Unhook
<1>3. /\ new \in Seq(Slots)
      /\ Range(new) \ {NoFunction} = Range(hooks[e]) \ {f, NoFunction}
      /\ IsTriggering(e) => Vacated(new, hooks[e])
      /\ ~IsTriggering(e) => Sorted(new) /\ NoFunction \notin Range(new)
  <2>1. CASE IsTriggering(e)
    <3>1. new = [i \in DOMAIN hooks[e] |-> IF hooks[e][i] = f THEN NoFunction ELSE hooks[e][i]]
      BY <2>1 DEF VacateSlot
    <3>2. Len(hooks[e]) \in Nat /\ DOMAIN hooks[e] = 1..Len(hooks[e])
          /\ \A i \in DOMAIN hooks[e] : hooks[e][i] \in Slots
      BY <1>1
    <3> HIDE DEF new
    <3>3. new \in [1..Len(hooks[e]) -> Slots]
      BY <3>1, <3>2 DEF Slots
    <3>4. new \in Seq(Slots)
      BY <3>2, <3>3
    <3>5. Vacated(new, hooks[e])
      BY <3>1 DEF Vacated
    <3>6. Range(new) \ {NoFunction} = Range(hooks[e]) \ {f, NoFunction}
      BY <3>1 DEF Range
    <3> QED BY <2>1, <3>4, <3>5, <3>6
  <2>2. CASE ~IsTriggering(e)
    <3>1. new = Without(hooks[e], {f})
      BY <2>2 DEF VacateSlot
    <3>2. /\ Without(hooks[e], {f}) \in Seq(Slots)
          /\ Range(Without(hooks[e], {f})) = Range(hooks[e]) \ {f}
          /\ Sorted(Without(hooks[e], {f}))
      BY <1>1, WithoutProperties
    <3>3. NoFunction \notin Range(hooks[e])
      BY <2>2, ListFull
    <3> HIDE DEF new
    <3> QED BY <2>2, <3>1, <3>2, <3>3
  <2> QED BY <2>1, <2>2
<1> HIDE DEF new
<1>4. /\ hooks' \in [Event -> Seq(Slots)] /\ hooks'[e] = new
      /\ \A d \in Event : d # e => hooks'[d] = hooks[d]
  BY <1>2, <1>3 DEF Inv, Typed
<1>5. \A d \in Event : IsTriggering(d) => Vacated(hooks'[d], hooks[d])
  <2>1. \A d \in Event : Vacated(hooks[d], hooks[d])
    BY DEF Vacated
  <2> QED BY <1>3, <1>4, <2>1
<1>6. ASSUME NEW d \in Event, ~IsTriggering(d)
      PROVE  Sorted(hooks'[d]) /\ NoFunction \notin Range(hooks'[d])
  <2>1. CASE d = e
    BY <1>3, <1>4, <1>6, <2>1
  <2>2. CASE d # e
    BY <1>4, <1>6, <2>2, ListFull
  <2> QED BY <2>1, <2>2
<1>7. UNCHANGED <<stopMode, callCount, stack, owned, result>> /\ refs' \in [Function -> Int]
  BY DEF Unhook, Inv, Typed
<1>8. Inv'
  BY <1>4, <1>5, <1>6, <1>7, ListsInv
<1> QED BY <1>3, <1>4, <1>8

(* The events that hook f, in a state of the lists.                        *)
Holding(f, hs) == {e \in Event : f \in Range(hs[e])}

LEMMA HoldingFinite ==
  ASSUME NEW f, NEW hs
  PROVE  /\ IsFiniteSet(Holding(f, hs)) /\ Cardinality(Holding(f, hs)) \in Nat
<1>1. Holding(f, hs) \in SUBSET Event
  BY DEF Holding
<1>2. IsFiniteSet(Holding(f, hs))
  BY <1>1, FS_Subset, FunctionAssumption
<1> QED BY <1>2, FS_CardinalityType

LEMMA HookingIsHolding ==
  ASSUME NEW f \in Function
  PROVE  Hooking(f) = Holding(f, hooks)
BY FunctionAssumption DEF Hooking, Hooked, Holding

LEMMA UnhookModuleFunctionsInv ==
  ASSUME Inv, NEW m \in Module, UnhookModuleFunctions(m)
  PROVE  /\ Inv'
         /\ \A e \in Event : Range(hooks'[e]) =
              IF e \in Clearable THEN Range(hooks[e]) \ {f \in Function : ModuleOf[f] = m}
              ELSE Range(hooks[e])
<1> DEFINE F == {f \in Function : ModuleOf[f] = m}
<1>1. hooks' = [e \in Event |-> IF e \in Clearable THEN Without(hooks[e], F) ELSE hooks[e]]
  BY DEF UnhookModuleFunctions
<1>2. refs' \in [Function -> Int]
  <2>1. refs' = [f \in Function |-> IF f \in F
                   THEN refs[f] - Cardinality(Hooking(f) \cap Clearable) ELSE refs[f]]
    BY DEF UnhookModuleFunctions
  <2>2. \A f \in Function : Cardinality(Hooking(f) \cap Clearable) \in Nat
    <3>1. \A f \in Function : IsFiniteSet(Hooking(f) \cap Clearable)
      BY HookingIsHolding, HoldingFinite, FS_Intersection
    <3> QED BY <3>1, FS_CardinalityType
  <2>3. refs \in [Function -> Int]
    BY DEF Inv, Typed
  <2>4. ASSUME NEW f \in Function
        PROVE  (IF f \in F THEN refs[f] - Cardinality(Hooking(f) \cap Clearable)
                ELSE refs[f]) \in Int
    <3> HIDE DEF F
    <3> QED BY <2>2, <2>3
  <2> HIDE DEF F
  <2> QED BY <2>1, <2>4
<1> HIDE DEF F
<1>3. ASSUME NEW e \in Event
      PROVE  /\ Without(hooks[e], F) \in Seq(Slots)
             /\ Range(Without(hooks[e], F)) = Range(hooks[e]) \ F
             /\ Sorted(Without(hooks[e], F))
  <2>1. hooks[e] \in Seq(Slots) /\ Sorted(hooks[e])
    BY DEF Inv, Typed, Lists
  <2> QED BY <2>1, WithoutProperties
<1>4. hooks' \in [Event -> Seq(Slots)]
  BY <1>1, <1>3 DEF Inv, Typed
<1>5. \A e \in Event : IsTriggering(e) => Vacated(hooks'[e], hooks[e])
  BY <1>1 DEF Vacated, Clearable
<1>6. \A e \in Event : ~IsTriggering(e) => Sorted(hooks'[e]) /\ NoFunction \notin Range(hooks'[e])
  BY <1>1, <1>3, ListFull DEF Clearable
<1>7. UNCHANGED <<stopMode, callCount, stack, owned, result>>
  BY DEF UnhookModuleFunctions
<1>8. Inv'
  BY <1>2, <1>4, <1>5, <1>6, <1>7, ListsInv
<1> QED BY <1>1, <1>3, <1>8 DEF F

LEMMA UnhookAllFunctionsInv ==
  ASSUME Inv, UnhookAllFunctions
  PROVE  /\ Inv'
         /\ \A e \in Event : Range(hooks'[e]) =
              IF e \in Clearable THEN {} ELSE Range(hooks[e])
<1>1. hooks' = [e \in Event |-> IF e \in Clearable THEN <<>> ELSE hooks[e]]
  BY DEF UnhookAllFunctions
<1>2. refs' \in [Function -> Int]
  <2>1. refs' = [f \in Function |->
                   refs[f] - ReleasedWith(f) * Cardinality(Hooking(f) \cap Clearable)]
    BY DEF UnhookAllFunctions
  <2>2. \A f \in Function : Cardinality(Hooking(f) \cap Clearable) \in Nat
    <3>1. \A f \in Function : IsFiniteSet(Hooking(f) \cap Clearable)
      BY HookingIsHolding, HoldingFinite, FS_Intersection
    <3> QED BY <3>1, FS_CardinalityType
  <2>3. ASSUME NEW f \in Function
        PROVE  refs[f] - ReleasedWith(f) * Cardinality(Hooking(f) \cap Clearable) \in Int
    <3>1. Cardinality(Hooking(f) \cap Clearable) \in Nat /\ refs[f] \in Int
      BY <2>2 DEF Inv, Typed
    <3>2. CASE ReleasedWith(f) = 1
      BY <3>1, <3>2
    <3>3. CASE ReleasedWith(f) = 2
      BY <3>1, <3>3
    <3> QED BY <3>2, <3>3 DEF ReleasedWith
  <2> QED BY <2>1, <2>3
<1>3. <<>> \in Seq(Slots) /\ Range(<<>>) = {} /\ Sorted(<<>>)
  BY EmptySeq DEF Range, Sorted
<1>4. hooks' \in [Event -> Seq(Slots)]
  BY <1>1, <1>3 DEF Inv, Typed
<1>5. \A e \in Event : IsTriggering(e) => Vacated(hooks'[e], hooks[e])
  BY <1>1 DEF Vacated, Clearable
<1>6. \A e \in Event : ~IsTriggering(e) => Sorted(hooks'[e]) /\ NoFunction \notin Range(hooks'[e])
  BY <1>1, <1>3 DEF Clearable
<1>7. UNCHANGED <<stopMode, callCount, stack, owned, result>>
  BY DEF UnhookAllFunctions
<1>8. Inv'
  BY <1>2, <1>4, <1>5, <1>6, <1>7, ListsInv
<1> QED BY <1>1, <1>3, <1>8

-----------------------------------------------------------------------------
(* One lemma for each action: activations.                                 *)

LEMMA TopIsGood ==
  ASSUME Inv, stack # <<>>
  PROVE  /\ Top \in Activation /\ Top.event \in Event /\ IsTriggering(Top.event)
         /\ Top \in Range(stack) /\ Tail(stack) \in Seq(Activation)
         /\ hooks[Top.event] \in Seq(Slots) /\ Sorted(hooks[Top.event])
         /\ Good(Top, stopMode[Top.event], hooks[Top.event])
<1>1. stack \in Seq(Activation)
  BY DEF Inv, Typed
<1>2. Top \in Activation /\ Top \in Range(stack) /\ Tail(stack) \in Seq(Activation)
  BY <1>1, Popped DEF Top
<1>3. Top.event \in Event /\ IsTriggering(Top.event)
  BY <1>2, Triggered DEF Inv
<1>4. Good(Top, stopMode[Top.event], hooks[Top.event])
  BY <1>2 DEF Inv, AllGood
<1>5. hooks[Top.event] \in Seq(Slots) /\ Sorted(hooks[Top.event])
  BY <1>3 DEF Inv, Typed, Lists
<1> QED BY <1>2, <1>3, <1>4, <1>5

(* The locals of the innermost activation change.                          *)
LEMMA TopInv ==
  ASSUME Inv, stack # <<>>, NEW b \in Activation, stack' = <<b>> \o Tail(stack),
         b.event = Top.event, Good(b, stopMode[b.event], hooks[b.event]),
         UNCHANGED <<stopMode, hooks, callCount, owned, result>>, refs' \in [Function -> Int]
  PROVE  Inv'
<1> DEFINE rest == Tail(stack)
           new == <<b>> \o rest
<1>1. /\ rest \in Seq(Activation) /\ Range(stack) = {Top} \cup Range(rest)
      /\ \A T : Cardinality(Where(stack, T)) =
                Cardinality(Where(rest, T)) + (IF Top \in T THEN 1 ELSE 0)
  BY Popped DEF Inv, Typed, Top
<1>2. /\ new \in Seq(Activation) /\ Range(new) = {b} \cup Range(rest)
      /\ \A T : Cardinality(Where(new, T)) =
                Cardinality(Where(rest, T)) + (IF b \in T THEN 1 ELSE 0)
  BY <1>1, Pushed
<1> HIDE DEF rest, new
<1>3. \A e \in Event : Top \in Of(e) <=> b \in Of(e)
  BY TopIsGood DEF Of
<1>4. Counted(new, callCount)
  <2>1. \A e \in Event : Cardinality(Where(new, Of(e))) = Cardinality(Where(stack, Of(e)))
    BY <1>1, <1>2, <1>3
  <2> QED BY <2>1 DEF Inv, Counted
<1>5. AllGood(new, stopMode, hooks)
  BY <1>1, <1>2 DEF Inv, AllGood
<1>6. stack' = new
  BY DEF new, rest
<1> QED BY <1>2, <1>4, <1>5, <1>6 DEF Inv, Typed

(* The innermost activation ends.                                          *)
LEMMA EndInv ==
  ASSUME Inv, stack # <<>>, stack' = Tail(stack),
         callCount' = [callCount EXCEPT ![Top.event] = @ - 1],
         hooks' = [hooks EXCEPT ![Top.event] = ClearRemovedHooks(Top.event)],
         UNCHANGED <<stopMode, owned>>, refs' \in [Function -> Int],
         result' \in {"none", "failed", "handled", "noneHandled"}
  PROVE  /\ Inv'
         /\ \A e \in Event : Range(hooks'[e]) \ {NoFunction} = Range(hooks[e]) \ {NoFunction}
<1> DEFINE rest == Tail(stack)
           t == Top.event
           erased == Without(hooks[t], {NoFunction})
<1>1. /\ rest \in Seq(Activation) /\ Range(stack) = {Top} \cup Range(rest)
      /\ \A T : Cardinality(Where(stack, T)) =
                Cardinality(Where(rest, T)) + (IF Top \in T THEN 1 ELSE 0)
  BY Popped DEF Inv, Typed, Top
<1>2. /\ Top \in Activation /\ t \in Event
      /\ hooks[t] \in Seq(Slots) /\ Sorted(hooks[t])
  BY TopIsGood
<1>3. \A e \in Event : Cardinality(Where(rest, Of(e))) \in Nat
                     /\ Cardinality(Where(stack, Of(e))) \in Nat
  BY <1>1, WhereFinite DEF Inv, Typed
<1>4. \A e \in Event : Top \in Of(e) <=> e = t
  BY <1>2 DEF Of
<1> HIDE DEF rest, t
<1>5. \A e \in Event : callCount'[e] = Cardinality(Where(rest, Of(e)))
  <2>1. callCount' = [callCount EXCEPT ![t] = @ - 1] /\ callCount \in [Event -> Nat]
    BY DEF t, Inv, Typed
  <2>2. \A e \in Event : callCount[e] = Cardinality(Where(stack, Of(e)))
    BY DEF Inv, Counted
  <2>3. ASSUME NEW e \in Event PROVE callCount'[e] = Cardinality(Where(rest, Of(e)))
    <3>1. Cardinality(Where(stack, Of(e))) = Cardinality(Where(rest, Of(e)))
                                             + (IF Top \in Of(e) THEN 1 ELSE 0)
      BY <1>1
    <3>2. callCount'[e] = IF e = t THEN callCount[e] - 1 ELSE callCount[e]
      BY <2>1
    <3>3. callCount[e] = Cardinality(Where(stack, Of(e)))
      BY <2>2
    <3>4. Cardinality(Where(rest, Of(e))) \in Nat
      BY <1>3
    <3>5. CASE e = t
      <4>1. Top \in Of(e)
        BY <1>4, <3>5
      <4> QED BY <3>1, <3>2, <3>3, <3>4, <3>5, <4>1
    <3>6. CASE e # t
      <4>1. Top \notin Of(e)
        BY <1>4, <3>6
      <4> QED BY <3>1, <3>2, <3>3, <3>4, <3>6, <4>1
    <3> QED BY <3>5, <3>6
  <2> QED BY <2>3
<1>6. /\ callCount' \in [Event -> Nat]
      /\ \A e \in Event : e # t => callCount'[e] = callCount[e]
  <2>1. callCount' = [callCount EXCEPT ![t] = @ - 1] /\ callCount \in [Event -> Nat]
    BY DEF t, Inv, Typed
  <2> QED BY <1>2, <1>3, <1>5, <2>1
<1>7. erased \in Seq(Slots) /\ Range(erased) = Range(hooks[t]) \ {NoFunction} /\ Sorted(erased)
  BY <1>2, WithoutProperties
<1> HIDE DEF erased
<1>8. /\ hooks' \in [Event -> Seq(Slots)]
      /\ hooks'[t] = IF callCount'[t] # 0 THEN hooks[t] ELSE erased
      /\ \A e \in Event : e # t => hooks'[e] = hooks[e]
  <2>1. hooks' = [hooks EXCEPT ![t] = IF callCount'[t] # 0 THEN hooks[t] ELSE erased]
    BY DEF t, erased, ClearRemovedHooks
  <2> QED BY <1>2, <1>7, <2>1 DEF Inv, Typed
<1>9. Lists(hooks', callCount')
  <2>1. ASSUME NEW e \in Event
        PROVE  Sorted(hooks'[e]) /\ (callCount'[e] = 0 => NoFunction \notin Range(hooks'[e]))
    <3>1. Sorted(hooks[e]) /\ (callCount[e] = 0 => NoFunction \notin Range(hooks[e]))
      BY DEF Inv, Lists
    <3> QED BY <1>6, <1>7, <1>8, <3>1
  <2> QED BY <2>1 DEF Lists
<1>10. AllGood(rest, stopMode, hooks')
  <2>1. ASSUME NEW a \in Range(rest) PROVE Good(a, stopMode[a.event], hooks'[a.event])
    <3>1. a \in Activation /\ a \in Of(a.event) /\ a.event \in Event
      BY <1>1, Triggered DEF Inv, Of
    <3>2. callCount'[a.event] # 0
      BY <1>1, <1>5, <3>1, WhereFinite
    <3>3. hooks'[a.event] = hooks[a.event]
      BY <1>8, <3>1, <3>2
    <3> QED BY <1>1, <3>3 DEF Inv, AllGood
  <2> QED BY <2>1 DEF AllGood
<1>11. Counted(rest, callCount')
  BY <1>5 DEF Counted
<1>12. stack' = rest
  BY DEF rest
<1>13. Inv'
  BY <1>1, <1>6, <1>8, <1>9, <1>10, <1>11, <1>12 DEF Inv, Typed
<1>14. \A e \in Event : Range(hooks'[e]) \ {NoFunction} = Range(hooks[e]) \ {NoFunction}
  BY <1>7, <1>8
<1> QED BY <1>13, <1>14

LEMMA TriggerInv ==
  ASSUME Inv, NEW e \in Event, Trigger(e)
  PROVE  /\ Inv'
         /\ \A f \in Function : Cardinality(Where(stack', RunningOf(f)))
                             = Cardinality(Where(stack, RunningOf(f)))
<1> DEFINE new == [event |-> e, index |-> 1, running |-> NoFunction,
                   code |-> "continue", ok |-> TRUE, lastModule |-> NoModule,
                   calls |-> 0, called |-> {}, handler |-> NoModule]
           on == [Top EXCEPT !.calls = @ + 1]
           caller == IF stack = <<>> THEN <<>> ELSE <<on>> \o Tail(stack)
<1>1. new \in Activation /\ new \in Of(e) /\ new.event = e /\ new.running = NoFunction
  BY HostAssumption DEF Activation, Of
<1>2. Good(new, stopMode[e], hooks[e])
  <2>1. hooks[e] \in Seq(Slots)
    BY DEF Inv, Typed
  <2>2. Len(hooks[e]) \in Nat /\ DOMAIN hooks[e] = 1..Len(hooks[e])
    BY <2>1
  <2>3. Past(new) = 0 /\ new.called = {} /\ new.lastModule = NoModule /\ new.running = NoFunction
        /\ new.code = "continue" /\ new.handler = NoModule
    BY DEF Past
  <2> HIDE DEF new
  <2>4. Walk(new, hooks[e])
    BY <2>2, <2>3 DEF Walk
  <2>5. Ahead(new, hooks[e]) /\ Answers(new, stopMode[e])
    BY <2>3 DEF Ahead, Answers
  <2> QED BY <2>4, <2>5 DEF Good
<1>3. stack # <<>> =>
        /\ on \in Activation /\ on.event = Top.event /\ on.running = Top.running
        /\ Good(on, stopMode[Top.event], hooks[Top.event])
  <2> SUFFICES ASSUME stack # <<>>
               PROVE  /\ on \in Activation /\ on.event = Top.event /\ on.running = Top.running
                      /\ Good(on, stopMode[Top.event], hooks[Top.event])
    OBVIOUS
  <2>1. Top \in Activation /\ Good(Top, stopMode[Top.event], hooks[Top.event])
    BY TopIsGood
  <2>2. Top.calls < MaxCalls /\ Top.calls \in 0..MaxCalls /\ MaxCalls \in Nat
    BY <2>1, HostAssumption DEF Trigger, Activation
  <2>3. Top.calls + 1 \in 0..MaxCalls
    BY <2>2
  <2>4. on \in Activation
    BY <2>1, <2>3 DEF Activation
  <2>5. /\ on.event = Top.event /\ on.index = Top.index /\ on.running = Top.running
        /\ on.called = Top.called /\ on.lastModule = Top.lastModule
        /\ on.code = Top.code /\ on.handler = Top.handler
    BY <2>1 DEF Activation
  <2> HIDE DEF on
  <2>6. Good(on, stopMode[Top.event], hooks[Top.event])
    BY <2>1, <2>5 DEF Good, Walk, Ahead, Answers, Past
  <2> QED BY <2>4, <2>5, <2>6
<1>4. stack' = <<new>> \o caller /\ callCount' = [callCount EXCEPT ![e] = @ + 1]
      /\ UNCHANGED <<stopMode, hooks, refs, owned, result>>
  BY DEF Trigger
<1> HIDE DEF new, on
<1>5. /\ caller \in Seq(Activation)
      /\ \A a \in Range(caller) : Good(a, stopMode[a.event], hooks[a.event])
      /\ \A d \in Event : Cardinality(Where(caller, Of(d))) = Cardinality(Where(stack, Of(d)))
      /\ \A f \in Function : Cardinality(Where(caller, RunningOf(f)))
                            = Cardinality(Where(stack, RunningOf(f)))
  <2>1. CASE stack = <<>>
    BY <2>1, EmptySeq DEF Range
  <2>2. CASE stack # <<>>
    <3> DEFINE rest == Tail(stack)
    <3>1. /\ rest \in Seq(Activation) /\ Range(stack) = {Top} \cup Range(rest)
          /\ \A T : Cardinality(Where(stack, T)) =
                    Cardinality(Where(rest, T)) + (IF Top \in T THEN 1 ELSE 0)
      BY <2>2, Popped DEF Inv, Typed, Top
    <3>2. /\ <<on>> \o rest \in Seq(Activation) /\ Range(<<on>> \o rest) = {on} \cup Range(rest)
          /\ \A T : Cardinality(Where(<<on>> \o rest, T)) =
                    Cardinality(Where(rest, T)) + (IF on \in T THEN 1 ELSE 0)
      BY <1>3, <2>2, <3>1, Pushed
    <3>3. caller = <<on>> \o rest
      BY <2>2
    <3>4. Top \in Activation
      BY <2>2, TopIsGood
    <3> HIDE DEF rest, caller
    <3>5. \A d \in Event : Top \in Of(d) <=> on \in Of(d)
      BY <1>3, <2>2, <3>4 DEF Of
    <3>6. \A f \in Function : Top \in RunningOf(f) <=> on \in RunningOf(f)
      BY <1>3, <2>2, <3>4 DEF RunningOf
    <3>7. \A a \in Range(caller) : Good(a, stopMode[a.event], hooks[a.event])
      BY <1>3, <2>2, <3>1, <3>2, <3>3 DEF Inv, AllGood
    <3> QED BY <3>1, <3>2, <3>3, <3>5, <3>6, <3>7
  <2> QED BY <2>1, <2>2
<1> HIDE DEF caller
<1>6. /\ stack' \in Seq(Activation) /\ Range(stack') = {new} \cup Range(caller)
      /\ \A T : Cardinality(Where(stack', T)) =
                Cardinality(Where(caller, T)) + (IF new \in T THEN 1 ELSE 0)
  BY <1>1, <1>4, <1>5, Pushed
<1>7. callCount \in [Event -> Nat] /\ \A d \in Event : callCount[d] = Cardinality(Where(stack, Of(d)))
  BY DEF Inv, Typed, Counted
<1>8. Counted(stack', callCount')
  <2>1. \A d \in Event : new \in Of(d) <=> d = e
    BY <1>1 DEF Of
  <2>2. \A d \in Event : Cardinality(Where(stack', Of(d))) = callCount'[d]
    BY <1>4, <1>5, <1>6, <1>7, <2>1
  <2> QED BY <2>2 DEF Counted
<1>9. callCount' \in [Event -> Nat] /\ \A d \in Event : callCount'[d] = 0 => callCount[d] = 0
  BY <1>4, <1>7
<1>10. Lists(hooks', callCount')
  BY <1>4, <1>9 DEF Inv, Lists
<1>11. AllGood(stack', stopMode', hooks')
  BY <1>1, <1>2, <1>4, <1>5, <1>6 DEF AllGood
<1>12. Inv'
  BY <1>4, <1>6, <1>8, <1>9, <1>10, <1>11 DEF Inv, Typed
<1>13. \A f \in Function : new \notin RunningOf(f)
  BY <1>1, FunctionAssumption DEF RunningOf
<1>14. ASSUME NEW f \in Function
       PROVE  Cardinality(Where(stack', RunningOf(f))) = Cardinality(Where(stack, RunningOf(f)))
  <2>1. Cardinality(Where(stack', RunningOf(f))) = Cardinality(Where(caller, RunningOf(f))) + 0
    BY <1>6, <1>13
  <2>2. Cardinality(Where(caller, RunningOf(f))) \in Nat
    BY <1>5, WhereFinite
  <2> QED BY <1>5, <2>1, <2>2
<1> QED BY <1>12, <1>14

(* The locals of the loop, and the list it is in.                          *)
LEMMA Loop ==
  ASSUME Inv, stack # <<>>
  PROVE  /\ Top.index \in Nat \ {0} /\ Top.running \in Slots /\ Top.called \in SUBSET Function
         /\ Top.lastModule \in Module \cup {NoModule} /\ Top.handler \in Module \cup {NoModule}
         /\ Len(hooks[Top.event]) \in Nat /\ DOMAIN hooks[Top.event] = 1..Len(hooks[Top.event])
         /\ AtSlot => Top.index \in DOMAIN hooks[Top.event] /\ Slot \in Slots
<1>1. Top \in Activation /\ hooks[Top.event] \in Seq(Slots)
  BY TopIsGood
<1>2. /\ Top.index \in Nat \ {0} /\ Top.running \in Slots /\ Top.called \in SUBSET Function
      /\ Top.lastModule \in Module \cup {NoModule} /\ Top.handler \in Module \cup {NoModule}
  BY <1>1 DEF Activation, Slots
<1>3. Len(hooks[Top.event]) \in Nat /\ DOMAIN hooks[Top.event] = 1..Len(hooks[Top.event])
      /\ \A i \in 1..Len(hooks[Top.event]) : hooks[Top.event][i] \in Slots
  BY <1>1
<1>4. AtSlot => Top.index \in DOMAIN hooks[Top.event] /\ Slot \in Slots
  BY <1>2, <1>3 DEF AtSlot, Slot
<1> QED BY <1>2, <1>3, <1>4

LEMMA SkipSlotInv ==
  ASSUME Inv, SkipSlot
  PROVE  \E b \in Activation :
           /\ stack' = <<b>> \o Tail(stack) /\ b.event = Top.event /\ b.running = Top.running
           /\ Good(b, stopMode[b.event], hooks[b.event])
<1> DEFINE b == [Top EXCEPT !.index = NextIndex]
           list == hooks[Top.event]
<1>1. stack # <<>> /\ Top.running = NoFunction /\ AtSlot
  BY DEF SkipSlot, AtSlot, Iterating
<1>2. Top \in Activation /\ Good(Top, stopMode[Top.event], list)
  BY <1>1, TopIsGood
<1>3. /\ Top.index \in Nat \ {0} /\ Len(list) \in Nat /\ DOMAIN list = 1..Len(list)
      /\ Top.index \in DOMAIN list
  BY <1>1, Loop
<1>4. list[Top.index] = NoFunction
  BY DEF SkipSlot, Slot
<1>5. b \in Activation
  BY <1>2, <1>3 DEF Activation, NextIndex
<1>6. /\ b.event = Top.event /\ b.index = Top.index + 1 /\ b.running = NoFunction
      /\ b.called = Top.called /\ b.lastModule = Top.lastModule
      /\ b.code = Top.code /\ b.handler = Top.handler
  BY <1>1, <1>2 DEF Activation, NextIndex
<1>7. stack' = <<b>> \o Tail(stack)
  BY DEF SkipSlot
<1> HIDE DEF b, list
<1>8. Past(b) = Top.index /\ Past(Top) = Top.index - 1
  BY <1>1, <1>3, <1>6 DEF Past
<1>9. Walk(b, list)
  <2>1. Walk(Top, list)
    BY <1>2 DEF Good
  <2>2. ASSUME NEW i \in DOMAIN list, list[i] # NoFunction
        PROVE  list[i] \in b.called <=> i <= Past(b)
    <3>1. i # Top.index /\ i \in Nat
      BY <1>3, <1>4, <2>2
    <3>2. list[i] \in Top.called <=> i <= Top.index - 1
      BY <1>8, <2>1, <2>2 DEF Walk
    <3> QED BY <1>3, <1>6, <1>8, <3>1, <3>2
  <2>3. Past(b) <= Len(list)
    BY <1>3, <1>8
  <2> QED BY <2>2, <2>3 DEF Walk
<1>10. Ahead(Top, list) => Ahead(b, list)
  BY <1>3, <1>6, <1>8 DEF Ahead
<1>11. Answers(Top, stopMode[Top.event]) => Answers(b, stopMode[b.event])
  BY <1>1, <1>6 DEF Answers
<1>12. Good(b, stopMode[b.event], hooks[b.event])
  BY <1>2, <1>6, <1>9, <1>10, <1>11 DEF Good, list
<1> QED BY <1>1, <1>5, <1>6, <1>7, <1>12

LEMMA CallSlotInv ==
  ASSUME Inv, CallSlot
  PROVE  \E b \in Activation :
           /\ stack' = <<b>> \o Tail(stack) /\ b.event = Top.event /\ b.running = Slot
           /\ Good(b, stopMode[b.event], hooks[b.event])
<1> DEFINE b == [Top EXCEPT !.running = Slot, !.calls = 0,
                            !.lastModule = ScriptModule(Slot),
                            !.called = @ \cup {Slot}]
           list == hooks[Top.event]
<1>1. stack # <<>> /\ Top.running = NoFunction /\ AtSlot /\ Slot # NoFunction /\ ~ModuleDone(Slot)
  BY DEF CallSlot, AtSlot, Iterating
<1>2. Top \in Activation /\ Good(Top, stopMode[Top.event], list) /\ Sorted(list)
  BY <1>1, TopIsGood
<1>3. /\ Top.index \in Nat \ {0} /\ Len(list) \in Nat /\ DOMAIN list = 1..Len(list)
      /\ Top.index \in DOMAIN list /\ Slot \in Function /\ Top.called \in SUBSET Function
      /\ Top.lastModule \in Module \cup {NoModule} /\ Top.handler \in Module \cup {NoModule}
  BY <1>1, Loop DEF Slots
<1>4. list[Top.index] = Slot
  BY DEF Slot
<1>5. ModuleOf[Slot] \in Module /\ ScriptModule(Slot) \in Module \cup {NoModule}
  BY <1>3, ModuleAssumption DEF ScriptModule
<1>6. b \in Activation
  <2>1. 0 \in 0..MaxCalls /\ Top.called \cup {Slot} \in SUBSET Function
    BY <1>3, HostAssumption
  <2> QED BY <1>2, <1>3, <1>5, <2>1 DEF Activation
<1>7. /\ b.event = Top.event /\ b.index = Top.index /\ b.running = Slot
      /\ b.called = Top.called \cup {Slot} /\ b.lastModule = ScriptModule(Slot)
      /\ b.code = Top.code /\ b.handler = Top.handler
  BY <1>2 DEF Activation
<1>8. stack' = <<b>> \o Tail(stack)
  BY DEF CallSlot
<1> HIDE DEF b, list
<1>9. Past(b) = Top.index /\ Past(Top) = Top.index - 1
  BY <1>1, <1>7 DEF Past
<1>10. Walk(b, list)
  <2>1. Walk(Top, list)
    BY <1>2 DEF Good
  <2>2. ASSUME NEW i \in DOMAIN list, list[i] # NoFunction
        PROVE  list[i] \in b.called <=> i <= Past(b)
    <3>1. i \in Nat
      BY <1>3
    <3>2. list[i] \in Top.called <=> i <= Top.index - 1
      BY <1>9, <2>1, <2>2 DEF Walk
    <3>3. list[i] = Slot => i = Top.index
      <4>1. i < Top.index => list[i] # Slot
        BY <1>1, <1>2, <1>3, <1>4, <2>2 DEF Sorted, Before
      <4>2. Top.index < i => list[i] # Slot
        BY <1>1, <1>2, <1>3, <1>4, <2>2 DEF Sorted, Before
      <4> QED BY <1>3, <3>1, <4>1, <4>2
    <3>4. i = Top.index => list[i] = Slot
      BY <1>4
    <3>5. list[i] \in b.called <=> list[i] \in Top.called \/ i = Top.index
      BY <1>7, <3>3, <3>4
    <3> QED BY <1>3, <1>9, <3>1, <3>2, <3>5
  <2>3. Past(b) <= Len(list)
    BY <1>3, <1>9
  <2> QED BY <2>2, <2>3 DEF Walk
<1>11. ASSUME Delegate = {} PROVE Ahead(b, list) /\ Answers(b, stopMode[b.event])
  <2>1. b.lastModule = ModuleOf[Slot]
    BY <1>7, <1>11 DEF ScriptModule
  <2>2. ASSUME NEW i \in DOMAIN list, list[i] # NoFunction, i > Past(b)
        PROVE  Rank[b.lastModule] <= Rank[ModuleOf[list[i]]]
    <3>1. Top.index < i /\ list[i] \in Function
      <4>1. list[i] \in Slots
        BY <1>1, <2>2, TopIsGood DEF list
      <4> QED BY <1>3, <1>9, <2>2, <4>1 DEF Slots
    <3>2. ~ModuleLess(ModuleOf[list[i]], ModuleOf[Slot])
      BY <1>1, <1>2, <1>3, <1>4, <2>2, <3>1 DEF Sorted, Before
    <3>3. Rank[ModuleOf[list[i]]] \in Nat /\ Rank[ModuleOf[Slot]] \in Nat
      BY <1>5, <3>1, ModuleAssumption
    <3> QED BY <2>1, <3>2, <3>3 DEF ModuleLess
  <2>3. Answers(Top, stopMode[Top.event])
    BY <1>2, <1>11 DEF Good
  <2>4. Top.handler # NoModule /\ stopMode[Top.event] = "moduleHandled" => b.lastModule = Top.handler
    <3>1. SUFFICES ASSUME Top.handler # NoModule, stopMode[Top.event] = "moduleHandled"
                   PROVE  b.lastModule = Top.handler
      OBVIOUS
    <3>2. Top.code = "handled" /\ Top.lastModule = Top.handler
      BY <2>3, <3>1 DEF Answers
    <3>3. Top.lastModule = ScriptModule(Slot)
      BY <1>1, <3>1, <3>2 DEF ModuleDone
    <3> QED BY <1>7, <3>2, <3>3
  <2>5. Answers(b, stopMode[b.event])
    BY <1>7, <2>1, <2>3, <2>4 DEF Answers
  <2> QED BY <2>2, <2>5 DEF Ahead
<1>12. Good(b, stopMode[b.event], hooks[b.event])
  BY <1>7, <1>10, <1>11 DEF Good, list
<1> QED BY <1>6, <1>7, <1>8, <1>12

(* The running function returned: the loop goes on, or ends.               *)
LEMMA ReturnInv ==
  ASSUME Inv, NEW success \in BOOLEAN, NEW code \in {"continue", "handled"},
         Return(success, code)
  PROVE  /\ stack # <<>> /\ Top.running \in Function
         /\ \/ /\ stack' = Tail(stack)
               /\ callCount' = [callCount EXCEPT ![Top.event] = @ - 1]
               /\ hooks' = [hooks EXCEPT ![Top.event] = ClearRemovedHooks(Top.event)]
               /\ result' \in {"none", "failed", "handled", "noneHandled"}
            \/ /\ UNCHANGED <<hooks, callCount, result>>
               /\ \E b \in Activation :
                    /\ stack' = <<b>> \o Tail(stack) /\ b.event = Top.event
                    /\ b.running = NoFunction
                    /\ Good(b, stopMode[b.event], hooks[b.event])
<1> DEFINE returned == [Top EXCEPT !.running = NoFunction, !.calls = 0,
                              !.ok = success /\ @,
                              !.code = NewCode(success, code),
                              !.handler = IF Top.code = "continue" /\ success
                                             /\ code = "handled"
                                          THEN ModuleOf[Top.running] ELSE @]
           b == [returned EXCEPT !.index = NextIndex]
           list == hooks[Top.event]
<1>1. stack # <<>> /\ Top.running # NoFunction
  BY DEF Return
<1>2. Top \in Activation /\ Good(Top, stopMode[Top.event], list)
  BY <1>1, TopIsGood
<1>3. /\ Top.index \in Nat \ {0} /\ Top.running \in Function
      /\ Top.handler \in Module \cup {NoModule} /\ Top.code \in {"continue", "handled"}
      /\ ModuleOf[Top.running] \in Module
  <2>1. Top.running \in Function
    BY <1>1, Loop DEF Slots
  <2> QED BY <1>1, <1>2, <2>1, Loop, ModuleAssumption DEF Activation
<1>4. returned \in Activation /\ returned.event = Top.event
  <2>1. NewCode(success, code) \in {"continue", "handled"}
    BY <1>3 DEF NewCode
  <2>2. 0 \in 0..MaxCalls
    BY HostAssumption
  <2>3. Top.ok \in BOOLEAN
    BY <1>2 DEF Activation
  <2>4. (success /\ Top.ok) \in BOOLEAN
    OBVIOUS
  <2>5. (IF Top.code = "continue" /\ success /\ code = "handled"
         THEN ModuleOf[Top.running] ELSE Top.handler) \in Module \cup {NoModule}
    BY <1>3
  <2> QED BY <1>2, <2>1, <2>2, <2>4, <2>5 DEF Activation
<1>5. /\ returned.index = Top.index /\ returned.running = NoFunction
      /\ returned.called = Top.called /\ returned.lastModule = Top.lastModule
      /\ returned.code = NewCode(success, code)
      /\ returned.handler = IF Top.code = "continue" /\ success /\ code = "handled"
                            THEN ModuleOf[Top.running] ELSE Top.handler
  BY <1>2 DEF Activation
<1>6. \/ End(returned)
      \/ stack' = <<b>> \o Tail(stack) /\ UNCHANGED <<hooks, callCount, result>>
  BY DEF Return
<1> HIDE DEF returned
<1>7. /\ b \in Activation /\ b.event = Top.event /\ b.index = Top.index + 1
      /\ b.running = NoFunction /\ b.called = Top.called /\ b.lastModule = Top.lastModule
      /\ b.code = returned.code /\ b.handler = returned.handler
  BY <1>3, <1>4, <1>5 DEF Activation, NextIndex
<1> HIDE DEF b, list
<1>8. Past(b) = Top.index /\ Past(Top) = Top.index
  BY <1>1, <1>3, <1>7 DEF Past
<1>9. Walk(b, list) /\ (Ahead(Top, list) => Ahead(b, list))
  BY <1>2, <1>7, <1>8 DEF Good, Walk, Ahead
<1>10. Answers(Top, stopMode[Top.event]) => Answers(b, stopMode[b.event])
  <2> SUFFICES ASSUME Answers(Top, stopMode[Top.event]) PROVE Answers(b, stopMode[b.event])
    OBVIOUS
  <2>1. Top.lastModule = ModuleOf[Top.running] /\ (Top.code = "handled" <=> Top.handler # NoModule)
        /\ (Top.handler # NoModule /\ stopMode[Top.event] = "moduleHandled"
              => Top.lastModule = Top.handler)
    BY <1>1 DEF Answers
  <2>2. CASE Top.code = "continue" /\ success /\ code = "handled"
    <3>1. b.code = "handled" /\ b.handler = ModuleOf[Top.running] /\ b.handler # NoModule
      BY <1>3, <1>5, <1>7, <2>2, ModuleAssumption DEF NewCode
    <3> QED BY <1>7, <2>1, <3>1 DEF Answers
  <2>3. CASE ~(Top.code = "continue" /\ success /\ code = "handled")
    <3>1. b.code = Top.code /\ b.handler = Top.handler
      BY <1>3, <1>5, <1>7, <2>3 DEF NewCode
    <3> QED BY <1>7, <2>1, <3>1 DEF Answers
  <2> QED BY <2>2, <2>3
<1>11. Good(b, stopMode[b.event], hooks[b.event])
  BY <1>2, <1>7, <1>9, <1>10 DEF Good, list
<1>12. CASE End(returned)
  <2>1. result' \in {"none", "failed", "handled", "noneHandled"}
    BY <1>12 DEF End
  <2>2. /\ stack' = Tail(stack)
        /\ callCount' = [callCount EXCEPT ![Top.event] = @ - 1]
        /\ hooks' = [hooks EXCEPT ![Top.event] = ClearRemovedHooks(Top.event)]
    BY <1>4, <1>12 DEF End
  <2> QED BY <1>1, <1>3, <2>1, <2>2
<1>13. CASE stack' = <<b>> \o Tail(stack) /\ UNCHANGED <<hooks, callCount, result>>
  BY <1>1, <1>3, <1>7, <1>11, <1>13
<1> QED BY <1>6, <1>12, <1>13

LEMMA EndLoopEnds ==
  ASSUME Inv, EndLoop
  PROVE  /\ stack # <<>> /\ Top.running = NoFunction
         /\ stack' = Tail(stack)
         /\ callCount' = [callCount EXCEPT ![Top.event] = @ - 1]
         /\ hooks' = [hooks EXCEPT ![Top.event] = ClearRemovedHooks(Top.event)]
         /\ UNCHANGED <<stopMode, refs, owned>>
         /\ result' \in {"none", "failed", "handled", "noneHandled"}
BY DEF EndLoop, End, Iterating

LEMMA CallEventInv ==
  ASSUME Inv, CallEvent
  PROVE  Inv'
<1>1. refs' \in [Function -> Int]
  <2>1. refs \in [Function -> Int]
    BY DEF Inv, Typed
  <2>2. CASE SkipSlot
    BY <2>1, <2>2 DEF SkipSlot
  <2>3. CASE CallSlot
    <3>1. Slot \in Function
      BY <2>3, Loop DEF CallSlot, AtSlot, Iterating, Slots
    <3>2. refs' = [refs EXCEPT ![Slot] = @ + 1]
      BY <2>3 DEF CallSlot, Kept
    <3> QED BY <2>1, <3>1, <3>2
  <2>4. CASE EndLoop
    BY <2>1, <2>4 DEF EndLoop
  <2>5. CASE \E success \in BOOLEAN, code \in {"continue", "handled"} : Return(success, code)
    <3>1. PICK success \in BOOLEAN, code \in {"continue", "handled"} : Return(success, code)
      BY <2>5
    <3>2. Top.running \in Function
      BY <3>1, ReturnInv
    <3>3. refs' = [refs EXCEPT ![Top.running] = @ - 1]
      BY <3>1 DEF Return
    <3> QED BY <2>1, <3>2, <3>3
  <2> QED BY <2>2, <2>3, <2>4, <2>5 DEF CallEvent
<1>2. CASE SkipSlot
  <2>1. stack # <<>> /\ UNCHANGED <<stopMode, hooks, callCount, owned, result>>
    BY <1>2 DEF SkipSlot, AtSlot, Iterating
  <2> QED BY <1>1, <1>2, <2>1, SkipSlotInv, TopInv
<1>3. CASE CallSlot
  <2>1. stack # <<>> /\ UNCHANGED <<stopMode, hooks, callCount, owned, result>>
    BY <1>3 DEF CallSlot, AtSlot, Iterating
  <2> QED BY <1>1, <1>3, <2>1, CallSlotInv, TopInv
<1>4. CASE EndLoop
  BY <1>1, <1>4, EndLoopEnds, EndInv
<1>5. CASE \E success \in BOOLEAN, code \in {"continue", "handled"} : Return(success, code)
  <2>1. PICK success \in BOOLEAN, code \in {"continue", "handled"} : Return(success, code)
    BY <1>5
  <2>2. UNCHANGED <<stopMode, owned>>
    BY <2>1 DEF Return
  <2> QED BY <1>1, <2>1, <2>2, ReturnInv, EndInv, TopInv
<1> QED BY <1>2, <1>3, <1>4, <1>5 DEF CallEvent

LEMMA InvStep == Inv /\ [Next]_vars => Inv'
<1> SUFFICES ASSUME Inv, [Next]_vars PROVE Inv'
  OBVIOUS
<1>1. CASE \E f \in Function : MakeDelegate(f) \/ DropDelegate(f)
  BY <1>1, DelegatesInv
<1>2. CASE \E e \in Event, f \in Function : Hook(e, f) \/ Unhook(e, f)
  BY <1>2, HookInv, UnhookInv
<1>3. CASE \E m \in Module : UnhookModuleFunctions(m)
  BY <1>3, UnhookModuleFunctionsInv
<1>4. CASE UnhookAllFunctions
  BY <1>4, UnhookAllFunctionsInv
<1>5. CASE \E e \in Event : Trigger(e)
  BY <1>5, TriggerInv
<1>6. CASE CallEvent
  BY <1>6, CallEventInv
<1>7. CASE UNCHANGED vars
  <2>1. UNCHANGED <<stopMode, hooks, callCount, stack, refs, owned, result>>
    BY <1>7 DEF vars
  <2> QED BY <2>1, QuietInv DEF Inv, Typed
<1> QED BY <1>1, <1>2, <1>3, <1>4, <1>5, <1>6, <1>7 DEF Next, Script

LEMMA InvHolds == Spec => []Inv
BY InitInv, InvStep, PTL DEF Spec

-----------------------------------------------------------------------------
(* References.                                                             *)

One(cond) == IF cond THEN 1 ELSE 0

Running(f, st) == Cardinality(Where(st, RunningOf(f)))

Balanced(rs, os, hs, st) ==
  \A f \in Function :
    rs[f] = One(os[f]) + Cardinality(Holding(f, hs)) + Running(f, st)

(* RemoveAllFunctions is not used where delegates are hooked, which it     *)
(* releases twice.                                                         *)
ReleasedOnce == "all" \in Bulk => Delegate = {}

LEMMA CountTypes ==
  ASSUME Inv, NEW f \in Function
  PROVE  /\ refs[f] \in Int /\ owned[f] \in BOOLEAN
         /\ Cardinality(Holding(f, hooks)) \in Nat /\ Running(f, stack) \in Nat
         /\ Cardinality(Holding(f, hooks')) \in Nat
<1>1. refs[f] \in Int /\ owned[f] \in BOOLEAN /\ stack \in Seq(Activation)
  BY DEF Inv, Typed
<1>2. Running(f, stack) \in Nat
  BY <1>1, WhereFinite DEF Running
<1> QED BY <1>1, <1>2, HoldingFinite

LEMMA RunningTop ==
  ASSUME Inv, stack # <<>>, NEW b \in Activation, stack' = <<b>> \o Tail(stack),
         NEW f \in Function
  PROVE  Running(f, stack') = Running(f, stack) + One(b.running = f) - One(Top.running = f)
<1> DEFINE rest == Tail(stack)
           T == RunningOf(f)
<1>1. /\ rest \in Seq(Activation)
      /\ Cardinality(Where(stack, T)) = Cardinality(Where(rest, T)) + (IF Top \in T THEN 1 ELSE 0)
  BY Popped DEF Inv, Typed, Top
<1> HIDE DEF T
<1>2. Cardinality(Where(<<b>> \o rest, T)) = Cardinality(Where(rest, T)) + (IF b \in T THEN 1 ELSE 0)
  BY <1>1, Pushed
<1>3. Cardinality(Where(rest, T)) \in Nat
  BY <1>1, WhereFinite
<1>4. (Top \in T <=> Top.running = f) /\ (b \in T <=> b.running = f)
  BY TopIsGood DEF T, RunningOf
<1>5. Running(f, stack') = Cardinality(Where(<<b>> \o rest, T))
      /\ Running(f, stack) = Cardinality(Where(stack, T))
  BY DEF Running, T
<1> QED BY <1>1, <1>2, <1>3, <1>4, <1>5 DEF One

LEMMA RunningEnd ==
  ASSUME Inv, stack # <<>>, stack' = Tail(stack), NEW f \in Function
  PROVE  Running(f, stack') = Running(f, stack) - One(Top.running = f)
<1> DEFINE rest == Tail(stack)
           T == RunningOf(f)
<1>1. /\ rest \in Seq(Activation)
      /\ Cardinality(Where(stack, T)) = Cardinality(Where(rest, T)) + (IF Top \in T THEN 1 ELSE 0)
  BY Popped DEF Inv, Typed, Top
<1> HIDE DEF T
<1>2. Cardinality(Where(rest, T)) \in Nat
  BY <1>1, WhereFinite
<1>3. Top \in T <=> Top.running = f
  BY TopIsGood DEF T, RunningOf
<1>4. Running(f, stack') = Cardinality(Where(rest, T))
      /\ Running(f, stack) = Cardinality(Where(stack, T))
  BY DEF Running, T
<1> QED BY <1>1, <1>2, <1>3, <1>4 DEF One

(* Where the lists keep their functions.                                   *)
LEMMA SameHolding ==
  ASSUME NEW f \in Function,
         \A e \in Event : Range(hooks'[e]) \ {NoFunction} = Range(hooks[e]) \ {NoFunction}
  PROVE  Holding(f, hooks') = Holding(f, hooks)
<1>1. f # NoFunction
  BY FunctionAssumption
<1> QED BY <1>1 DEF Holding

LEMMA DelegatesBalanced ==
  ASSUME Inv, Balanced(refs, owned, hooks, stack), NEW g \in Function,
         MakeDelegate(g) \/ DropDelegate(g)
  PROVE  Balanced(refs', owned', hooks', stack')
<1>1. UNCHANGED <<hooks, stack>> /\ refs \in [Function -> Int] /\ owned \in [Function -> BOOLEAN]
  BY DEF MakeDelegate, DropDelegate, Inv, Typed
<1>2. ASSUME NEW f \in Function
      PROVE  refs'[f] = One(owned'[f]) + Cardinality(Holding(f, hooks)) + Running(f, stack)
  <2>1. refs[f] = One(owned[f]) + Cardinality(Holding(f, hooks)) + Running(f, stack)
    BY DEF Balanced
  <2>2. /\ refs[f] \in Int /\ owned[f] \in BOOLEAN
        /\ Cardinality(Holding(f, hooks)) \in Nat /\ Running(f, stack) \in Nat
    BY CountTypes
  <2>3. CASE f # g
    BY <1>1, <2>1, <2>3 DEF MakeDelegate, DropDelegate
  <2>4. CASE f = g /\ MakeDelegate(g)
    <3>1. refs[f] = 0 /\ refs'[f] = 1 /\ owned'[f] = TRUE
      BY <1>1, <2>4 DEF MakeDelegate
    <3>2. ~owned[f]
      <4> SUFFICES ASSUME owned[f] PROVE FALSE
        OBVIOUS
      <4> DEFINE held == Cardinality(Holding(f, hooks))
                 run == Running(f, stack)
      <4>1. One(owned[f]) = 1
        BY DEF One
      <4>2. 0 = 1 + held + run
        BY <2>1, <3>1, <4>1
      <4>3. held \in Nat /\ run \in Nat
        BY <2>2
      <4> HIDE DEF held, run
      <4> QED BY <4>2, <4>3
    <3> QED BY <2>1, <2>2, <3>1, <3>2 DEF One
  <2>5. CASE f = g /\ DropDelegate(g)
    <3>1. owned[f] /\ refs'[f] = refs[f] - 1 /\ owned'[f] = FALSE
      BY <1>1, <2>5 DEF DropDelegate
    <3> QED BY <2>1, <2>2, <3>1 DEF One
  <2> QED BY <2>3, <2>4, <2>5
<1> QED BY <1>1, <1>2 DEF Balanced

LEMMA HookBalanced ==
  ASSUME Inv, Balanced(refs, owned, hooks, stack), NEW e \in Event, NEW g \in Function,
         Hook(e, g)
  PROVE  Balanced(refs', owned', hooks', stack')
<1>1. /\ UNCHANGED <<owned, stack>> /\ refs' = [refs EXCEPT ![g] = @ + 1]
      /\ refs \in [Function -> Int] /\ g \notin Range(hooks[e])
      /\ \A d \in Event : d # e => hooks'[d] = hooks[d]
  <2>1. g \notin Range(hooks[e])
    BY FunctionAssumption DEF Hook, Hooked
  <2>2. hooks' = [hooks EXCEPT ![e] = Insert(hooks[e], g)] /\ hooks \in [Event -> Seq(Slots)]
    BY DEF Hook, Inv, Typed
  <2> QED BY <2>1, <2>2 DEF Hook, Inv, Typed
<1>2. Range(hooks'[e]) = Range(hooks[e]) \cup {g}
  BY HookInv
<1>3. ASSUME NEW f \in Function
      PROVE  refs'[f] = One(owned[f]) + Cardinality(Holding(f, hooks')) + Running(f, stack)
  <2>1. refs[f] = One(owned[f]) + Cardinality(Holding(f, hooks)) + Running(f, stack)
    BY DEF Balanced
  <2>2. /\ refs[f] \in Int /\ owned[f] \in BOOLEAN
        /\ Cardinality(Holding(f, hooks)) \in Nat /\ Running(f, stack) \in Nat
    BY CountTypes
  <2>3. CASE f # g
    <3>1. Holding(f, hooks') = Holding(f, hooks)
      BY <1>1, <1>2, <2>3 DEF Holding
    <3> QED BY <1>1, <2>1, <2>3, <3>1
  <2>4. CASE f = g
    <3>1. Holding(f, hooks') = Holding(f, hooks) \cup {e} /\ e \notin Holding(f, hooks)
      BY <1>1, <1>2, <2>4 DEF Holding
    <3>2. Cardinality(Holding(f, hooks) \cup {e}) = Cardinality(Holding(f, hooks)) + 1
      BY <3>1, HoldingFinite, FS_AddElement
    <3>3. refs'[f] = refs[f] + 1
      BY <1>1, <2>4
    <3> QED BY <2>1, <2>2, <3>1, <3>2, <3>3 DEF One
  <2> QED BY <2>3, <2>4
<1> QED BY <1>1, <1>3 DEF Balanced

LEMMA UnhookBalanced ==
  ASSUME Inv, Balanced(refs, owned, hooks, stack), NEW e \in Event, NEW g \in Function,
         Unhook(e, g)
  PROVE  Balanced(refs', owned', hooks', stack')
<1>1. /\ UNCHANGED <<owned, stack>> /\ refs' = [refs EXCEPT ![g] = @ - 1]
      /\ refs \in [Function -> Int] /\ g \in Range(hooks[e])
      /\ \A d \in Event : d # e => hooks'[d] = hooks[d]
  <2>1. g \in Range(hooks[e])
    BY DEF Unhook, Hooked
  <2>2. hooks' = [hooks EXCEPT ![e] = VacateSlot(e, g)] /\ hooks \in [Event -> Seq(Slots)]
    BY DEF Unhook, Inv, Typed
  <2> QED BY <2>1, <2>2 DEF Unhook, Inv, Typed
<1>2. Range(hooks'[e]) \ {NoFunction} = Range(hooks[e]) \ {g, NoFunction}
  BY UnhookInv
<1>3. ASSUME NEW f \in Function
      PROVE  refs'[f] = One(owned[f]) + Cardinality(Holding(f, hooks')) + Running(f, stack)
  <2>1. refs[f] = One(owned[f]) + Cardinality(Holding(f, hooks)) + Running(f, stack)
    BY DEF Balanced
  <2>2. /\ refs[f] \in Int /\ owned[f] \in BOOLEAN
        /\ Cardinality(Holding(f, hooks)) \in Nat /\ Running(f, stack) \in Nat
    BY CountTypes
  <2>3. f # NoFunction
    BY FunctionAssumption
  <2>4. CASE f # g
    <3>1. f \in Range(hooks'[e]) <=> f \in Range(hooks[e])
      BY <1>2, <2>3, <2>4
    <3>2. Holding(f, hooks') = Holding(f, hooks)
      BY <1>1, <3>1 DEF Holding
    <3> QED BY <1>1, <2>1, <2>4, <3>2
  <2>5. CASE f = g
    <3>1. f \notin Range(hooks'[e]) /\ f \in Range(hooks[e])
      BY <1>1, <1>2, <2>3, <2>5
    <3>2. Holding(f, hooks') = Holding(f, hooks) \ {e} /\ e \in Holding(f, hooks)
      BY <1>1, <3>1 DEF Holding
    <3>3. Cardinality(Holding(f, hooks) \ {e}) = Cardinality(Holding(f, hooks)) - 1
      BY <3>2, HoldingFinite, FS_RemoveElement
    <3>4. refs'[f] = refs[f] - 1
      BY <1>1, <2>5
    <3> QED BY <2>1, <2>2, <3>2, <3>3, <3>4 DEF One
  <2> QED BY <2>4, <2>5
<1> QED BY <1>1, <1>3 DEF Balanced

(* Functions that the events of C, and no other, let go of.                *)
LEMMA HoldingWithout ==
  ASSUME NEW f \in Function, NEW C,
         \A e \in Event : f \in Range(hooks'[e]) <=> f \in Range(hooks[e]) /\ e \notin C
  PROVE  Cardinality(Holding(f, hooks')) =
           Cardinality(Holding(f, hooks)) - Cardinality(Hooking(f) \cap C)
<1>1. Holding(f, hooks') = Holding(f, hooks) \ C
  BY DEF Holding
<1>2. Hooking(f) = Holding(f, hooks)
  BY HookingIsHolding
<1> QED BY <1>1, <1>2, HoldingFinite, FS_Difference

LEMMA BulkBalanced ==
  ASSUME Inv, Balanced(refs, owned, hooks, stack),
         ReleasedOnce, UnhookAllFunctions \/ \E m \in Module : UnhookModuleFunctions(m)
  PROVE  Balanced(refs', owned', hooks', stack')
<1>1. \A f \in Function : Cardinality(Hooking(f) \cap Clearable) \in Nat
  <2>1. \A f \in Function : IsFiniteSet(Hooking(f) \cap Clearable)
    BY HookingIsHolding, HoldingFinite, FS_Intersection
  <2> QED BY <2>1, FS_CardinalityType
<1>2. CASE UnhookAllFunctions
  <2>1. /\ UNCHANGED <<owned, stack>> /\ Delegate = {}
        /\ refs' = [f \in Function |->
                      refs[f] - ReleasedWith(f) * Cardinality(Hooking(f) \cap Clearable)]
    BY <1>2 DEF UnhookAllFunctions, ReleasedOnce
  <2>2. ASSUME NEW f \in Function
        PROVE  refs'[f] = One(owned[f]) + Cardinality(Holding(f, hooks')) + Running(f, stack)
    <3>1. refs[f] = One(owned[f]) + Cardinality(Holding(f, hooks)) + Running(f, stack)
      BY DEF Balanced
    <3>2. /\ refs[f] \in Int /\ owned[f] \in BOOLEAN
          /\ Cardinality(Holding(f, hooks)) \in Nat /\ Running(f, stack) \in Nat
      BY CountTypes
    <3>3. \A e \in Event : f \in Range(hooks'[e]) <=> f \in Range(hooks[e]) /\ e \notin Clearable
      BY <1>2, UnhookAllFunctionsInv
    <3>4. Cardinality(Holding(f, hooks')) =
            Cardinality(Holding(f, hooks)) - Cardinality(Hooking(f) \cap Clearable)
      BY <3>3, HoldingWithout
    <3>5. refs'[f] = refs[f] - Cardinality(Hooking(f) \cap Clearable)
      <4>1. refs'[f] = refs[f] - 1 * Cardinality(Hooking(f) \cap Clearable)
        BY <2>1 DEF ReleasedWith
      <4> QED BY <1>1, <4>1
    <3> QED BY <1>1, <3>1, <3>2, <3>4, <3>5 DEF One
  <2> QED BY <2>1, <2>2 DEF Balanced
<1>3. CASE \E m \in Module : UnhookModuleFunctions(m)
  <2>1. PICK m \in Module : UnhookModuleFunctions(m)
    BY <1>3
  <2> DEFINE F == {f \in Function : ModuleOf[f] = m}
  <2>2. /\ UNCHANGED <<owned, stack>>
        /\ refs' = [f \in Function |-> IF f \in F
                      THEN refs[f] - Cardinality(Hooking(f) \cap Clearable) ELSE refs[f]]
    BY <2>1 DEF UnhookModuleFunctions
  <2>3. \A e \in Event : Range(hooks'[e]) =
          IF e \in Clearable THEN Range(hooks[e]) \ F ELSE Range(hooks[e])
    BY <2>1, UnhookModuleFunctionsInv
  <2> HIDE DEF F
  <2>4. ASSUME NEW f \in Function
        PROVE  refs'[f] = One(owned[f]) + Cardinality(Holding(f, hooks')) + Running(f, stack)
    <3>1. refs[f] = One(owned[f]) + Cardinality(Holding(f, hooks)) + Running(f, stack)
      BY DEF Balanced
    <3>2. /\ refs[f] \in Int /\ owned[f] \in BOOLEAN
          /\ Cardinality(Holding(f, hooks)) \in Nat /\ Running(f, stack) \in Nat
      BY CountTypes
    <3>3. CASE f \in F
      <4>1. \A e \in Event : f \in Range(hooks'[e]) <=> f \in Range(hooks[e]) /\ e \notin Clearable
        BY <2>3, <3>3
      <4>2. Cardinality(Holding(f, hooks')) =
              Cardinality(Holding(f, hooks)) - Cardinality(Hooking(f) \cap Clearable)
        BY <4>1, HoldingWithout
      <4>3. refs'[f] = refs[f] - Cardinality(Hooking(f) \cap Clearable)
        BY <2>2, <3>3
      <4> QED BY <1>1, <3>1, <3>2, <4>2, <4>3 DEF One
    <3>4. CASE f \notin F
      <4>1. Holding(f, hooks') = Holding(f, hooks)
        BY <2>3, <3>4 DEF Holding
      <4> QED BY <2>2, <3>1, <3>4, <4>1
    <3> QED BY <3>3, <3>4
  <2> QED BY <2>2, <2>4 DEF Balanced
<1> QED BY <1>2, <1>3

LEMMA CallEventBalanced ==
  ASSUME Inv, Balanced(refs, owned, hooks, stack), CallEvent
  PROVE  Balanced(refs', owned', hooks', stack')
<1>1. \A f \in Function :
        /\ refs[f] = One(owned[f]) + Cardinality(Holding(f, hooks)) + Running(f, stack)
        /\ refs[f] \in Int /\ owned[f] \in BOOLEAN
        /\ Cardinality(Holding(f, hooks)) \in Nat /\ Running(f, stack) \in Nat
  BY CountTypes DEF Balanced
<1>2. refs \in [Function -> Int] /\ NoFunction \notin Function
  BY FunctionAssumption DEF Inv, Typed
<1>3. CASE SkipSlot
  <2>1. PICK b \in Activation : stack' = <<b>> \o Tail(stack) /\ b.running = Top.running
    BY <1>3, SkipSlotInv
  <2>2. stack # <<>> /\ UNCHANGED <<hooks, refs, owned>>
    BY <1>3 DEF SkipSlot, AtSlot, Iterating
  <2>3. \A f \in Function : Running(f, stack') = Running(f, stack)
    <3>1. \A f \in Function :
            Running(f, stack') = Running(f, stack) + One(b.running = f) - One(Top.running = f)
      BY <2>1, <2>2, RunningTop
    <3> QED BY <1>1, <2>1, <3>1 DEF One
  <2> QED BY <1>1, <2>2, <2>3 DEF Balanced
<1>4. CASE CallSlot
  <2>1. PICK b \in Activation : stack' = <<b>> \o Tail(stack) /\ b.running = Slot
    BY <1>4, CallSlotInv
  <2>2. /\ stack # <<>> /\ UNCHANGED <<hooks, owned>> /\ Top.running = NoFunction
        /\ refs' = [refs EXCEPT ![Slot] = @ + 1]
    BY <1>4 DEF CallSlot, AtSlot, Iterating, Kept
  <2>3. \A f \in Function :
          Running(f, stack') = Running(f, stack) + One(b.running = f) - One(Top.running = f)
    BY <2>1, <2>2, RunningTop
  <2>4. ASSUME NEW f \in Function
        PROVE  refs'[f] = One(owned[f]) + Cardinality(Holding(f, hooks)) + Running(f, stack')
    <3>1. Running(f, stack') = Running(f, stack) + One(Slot = f) - 0
      BY <1>2, <2>1, <2>2, <2>3 DEF One
    <3>2. refs'[f] = refs[f] + One(Slot = f)
      BY <1>1, <1>2, <2>2 DEF One
    <3> QED BY <1>1, <3>1, <3>2 DEF One
  <2> QED BY <2>2, <2>4 DEF Balanced
<1>5. CASE EndLoop
  <2>1. /\ stack # <<>> /\ UNCHANGED <<refs, owned>> /\ Top.running = NoFunction
        /\ stack' = Tail(stack)
    BY <1>5, EndLoopEnds
  <2>2. \A e \in Event : Range(hooks'[e]) \ {NoFunction} = Range(hooks[e]) \ {NoFunction}
    <3>1. refs' \in [Function -> Int]
      BY <1>2, <2>1
    <3> QED BY <1>5, <3>1, EndLoopEnds, EndInv
  <2>3. ASSUME NEW f \in Function
        PROVE  refs'[f] = One(owned[f]) + Cardinality(Holding(f, hooks')) + Running(f, stack')
    <3>1. Running(f, stack') = Running(f, stack) - 0
      BY <1>2, <2>1, RunningEnd DEF One
    <3>2. Holding(f, hooks') = Holding(f, hooks)
      BY <2>2, SameHolding
    <3> QED BY <1>1, <2>1, <3>1, <3>2
  <2> QED BY <2>1, <2>3 DEF Balanced
<1>6. CASE \E success \in BOOLEAN, code \in {"continue", "handled"} : Return(success, code)
  <2>1. PICK success \in BOOLEAN, code \in {"continue", "handled"} : Return(success, code)
    BY <1>6
  <2>2. /\ refs' = [refs EXCEPT ![Top.running] = @ - 1] /\ UNCHANGED <<stopMode, owned>>
    BY <2>1 DEF Return
  <2>3. stack # <<>> /\ Top.running \in Function
    BY <2>1, ReturnInv
  <2>4. refs' \in [Function -> Int]
    BY <1>2, <2>2, <2>3
  <2>5. \A f \in Function : Running(f, stack') = Running(f, stack) - One(Top.running = f)
    <3>1. CASE stack' = Tail(stack)
      BY <2>3, <3>1, RunningEnd
    <3>2. CASE \E b \in Activation : stack' = <<b>> \o Tail(stack) /\ b.running = NoFunction
      <4>1. PICK b \in Activation : stack' = <<b>> \o Tail(stack) /\ b.running = NoFunction
        BY <3>2
      <4>2. \A f \in Function :
              Running(f, stack') = Running(f, stack) + One(b.running = f) - One(Top.running = f)
        BY <2>3, <4>1, RunningTop
      <4> QED BY <1>1, <1>2, <4>1, <4>2 DEF One
    <3> QED BY <2>1, <3>1, <3>2, ReturnInv
  <2>6. \A e \in Event : Range(hooks'[e]) \ {NoFunction} = Range(hooks[e]) \ {NoFunction}
    <3>1. CASE UNCHANGED hooks
      BY <3>1
    <3>2. CASE /\ stack' = Tail(stack)
               /\ callCount' = [callCount EXCEPT ![Top.event] = @ - 1]
               /\ hooks' = [hooks EXCEPT ![Top.event] = ClearRemovedHooks(Top.event)]
               /\ result' \in {"none", "failed", "handled", "noneHandled"}
      BY <2>2, <2>3, <2>4, <3>2, EndInv
    <3> QED BY <2>1, <3>1, <3>2, ReturnInv
  <2>7. ASSUME NEW f \in Function
        PROVE  refs'[f] = One(owned[f]) + Cardinality(Holding(f, hooks')) + Running(f, stack')
    <3>1. Holding(f, hooks') = Holding(f, hooks)
      BY <2>6, SameHolding
    <3>2. refs'[f] = refs[f] - One(Top.running = f)
      BY <1>1, <1>2, <2>2, <2>3 DEF One
    <3> QED BY <1>1, <2>5, <3>1, <3>2 DEF One
  <2> QED BY <2>2, <2>7 DEF Balanced
<1> QED BY <1>3, <1>4, <1>5, <1>6 DEF CallEvent

LEMMA TriggerBalanced ==
  ASSUME Inv, Balanced(refs, owned, hooks, stack), NEW e \in Event, Trigger(e)
  PROVE  Balanced(refs', owned', hooks', stack')
<1>1. UNCHANGED <<refs, owned, hooks>>
  BY DEF Trigger
<1>2. \A f \in Function : Running(f, stack') = Running(f, stack)
  BY TriggerInv DEF Running
<1> QED BY <1>1, <1>2 DEF Balanced

LEMMA InitBalanced == Init => Balanced(refs, owned, hooks, stack)
<1> SUFFICES ASSUME Init, NEW f \in Function
             PROVE  refs[f] = One(owned[f]) + Cardinality(Holding(f, hooks)) + Running(f, stack)
  BY DEF Balanced
<1>1. Holding(f, hooks) = {}
  BY DEF Init, Holding, Range
<1>2. Running(f, stack) = 0
  <2>1. <<>> \in Seq(Activation) /\ Range(<<>>) = {}
    BY EmptySeq DEF Range
  <2>2. Cardinality(Where(<<>>, RunningOf(f))) = 0
    BY <2>1, WhereFinite
  <2> QED BY <2>2 DEF Init, Running
<1>3. Cardinality({}) = 0
  BY FS_EmptySet
<1>4. refs[f] = One(owned[f])
  BY DEF Init, One
<1>5. One(owned[f]) \in Nat
  BY DEF One
<1> QED BY <1>1, <1>2, <1>3, <1>4, <1>5

LEMMA BalancedStep ==
  ASSUME ReleasedOnce, Inv, Balanced(refs, owned, hooks, stack), [Next]_vars
  PROVE  Balanced(refs', owned', hooks', stack')
<1>1. CASE \E f \in Function : MakeDelegate(f) \/ DropDelegate(f)
  BY <1>1, DelegatesBalanced
<1>2. CASE \E e \in Event, f \in Function : Hook(e, f) \/ Unhook(e, f)
  BY <1>2, HookBalanced, UnhookBalanced
<1>3. CASE UnhookAllFunctions \/ \E m \in Module : UnhookModuleFunctions(m)
  BY <1>3, BulkBalanced
<1>4. CASE \E e \in Event : Trigger(e)
  BY <1>4, TriggerBalanced
<1>5. CASE CallEvent
  BY <1>5, CallEventBalanced
<1>6. CASE UNCHANGED vars
  BY <1>6 DEF vars, Balanced
<1> QED BY <1>1, <1>2, <1>3, <1>4, <1>5, <1>6 DEF Next, Script

-----------------------------------------------------------------------------
(* The properties.                                                         *)

(* References balance unless RemoveAllFunctions releases delegates twice.  *)
THEOREM ReferencesBalance ==
  ASSUME ReleasedOnce
  PROVE  Spec => []RefsBalanced
<1>1. Init => Inv /\ Balanced(refs, owned, hooks, stack)
  BY InitInv, InitBalanced
<1>2. Inv /\ Balanced(refs, owned, hooks, stack) /\ [Next]_vars
        => (Inv /\ Balanced(refs, owned, hooks, stack))'
  BY InvStep, BalancedStep
<1>3. Inv /\ Balanced(refs, owned, hooks, stack) => RefsBalanced
  <2> SUFFICES ASSUME Inv, Balanced(refs, owned, hooks, stack), NEW f \in Function
               PROVE  refs[f] = (IF owned[f] THEN 1 ELSE 0) + Cardinality(Hooking(f))
                        + Cardinality({k \in DOMAIN stack : stack[k].running = f})
    BY DEF RefsBalanced
  <2>1. {k \in DOMAIN stack : stack[k].running = f} = Where(stack, RunningOf(f))
    <3>1. \A k \in DOMAIN stack : stack[k] \in Activation
      BY LenProperties DEF Inv, Typed
    <3> QED BY <3>1 DEF Where, RunningOf
  <2>2. Hooking(f) = Holding(f, hooks)
    BY HookingIsHolding
  <2>3. refs[f] = One(owned[f]) + Cardinality(Holding(f, hooks)) + Running(f, stack)
    BY DEF Balanced
  <2> QED BY <2>1, <2>2, <2>3 DEF One, Running
<1> QED BY <1>1, <1>2, <1>3, PTL DEF Spec

(* Variables keep their types; counts never go below 0.                    *)
THEOREM TypeCorrect ==
  ASSUME ReleasedOnce
  PROVE  Spec => []TypeOK
<1>1. Inv /\ RefsBalanced => TypeOK
  <2> SUFFICES ASSUME Inv, RefsBalanced PROVE TypeOK
    OBVIOUS
  <2>1. ASSUME NEW f \in Function PROVE refs[f] \in Nat
    <3>1. Cardinality(Hooking(f)) \in Nat
      BY HookingIsHolding, HoldingFinite
    <3>2. Cardinality({k \in DOMAIN stack : stack[k].running = f}) \in Nat
      <4>1. DOMAIN stack = 1..Len(stack) /\ Len(stack) \in Nat
        BY LenProperties DEF Inv, Typed
      <4>2. IsFiniteSet(DOMAIN stack)
        BY <4>1, FS_Interval
      <4>3. {k \in DOMAIN stack : stack[k].running = f} \in SUBSET (DOMAIN stack)
        OBVIOUS
      <4>4. IsFiniteSet({k \in DOMAIN stack : stack[k].running = f})
        BY <4>2, <4>3, FS_Subset
      <4> QED BY <4>4, FS_CardinalityType
    <3> QED BY <3>1, <3>2 DEF RefsBalanced
  <2>2. refs \in [Function -> Nat]
    BY <2>1 DEF Inv, Typed
  <2> QED BY <2>2 DEF Inv, Typed, TypeOK, Slots
<1> QED BY <1>1, InvHolds, ReferencesBalance, PTL

(* The lists stay sorted and without repetition, and full between triggers. *)
THEOREM InOrder == Spec => []ListsInOrder
<1>1. Inv => ListsInOrder
  BY DEF Inv, Lists, Sorted, Before, ListsInOrder, IsTriggering
<1> QED BY <1>1, InvHolds, PTL

(* Whatever functions hook, unhook and trigger meanwhile, each activation  *)
(* calls each function of the list once.                                   *)
THEOREM OnceEach == Spec => []EachHookOnce
<1>1. Inv => EachHookOnce
  <2> SUFFICES ASSUME Inv, NEW k \in DOMAIN stack
               PROVE  Walk(stack[k], hooks[stack[k].event])
    BY DEF EachHookOnce, Walk, Past
  <2>1. stack[k] \in Range(stack)
    BY DEF Range
  <2> QED BY <2>1 DEF Inv, AllGood, Good
<1> QED BY <1>1, InvHolds, PTL

(* Without delegates MODULE_HANDLED stops after the module that handled    *)
(* the event.                                                              *)
THEOREM ModuleStops ==
  ASSUME Delegate = {}
  PROVE  Spec => []StopsWithModule
<1>1. Inv => StopsWithModule
  <2> SUFFICES ASSUME Inv, NEW k \in DOMAIN stack,
                      stopMode[stack[k].event] = "moduleHandled",
                      stack[k].handler # NoModule, stack[k].running # NoFunction
               PROVE  ModuleOf[stack[k].running] = stack[k].handler
    BY DEF StopsWithModule
  <2>1. stack[k] \in Range(stack)
    BY DEF Range
  <2>2. Answers(stack[k], stopMode[stack[k].event])
    BY <2>1 DEF Inv, AllGood, Good
  <2> QED BY <2>2 DEF Answers
<1> QED BY <1>1, InvHolds, PTL

(* And without delegates no event ends before all functions of the module  *)
(* that handled it were called.                                            *)
THEOREM ModuleIsCompleted ==
  ASSUME Delegate = {}
  PROVE  Spec => ModuleCompletes
<1>1. Inv /\ EndLoop /\ Top.handler # NoModule =>
        \A f \in Hooked(Top.event) : ModuleOf[f] = Top.handler => f \in Top.called
  <2> DEFINE list == hooks[Top.event]
  <2> SUFFICES ASSUME Inv, EndLoop, Top.handler # NoModule,
                      NEW i \in DOMAIN list, list[i] # NoFunction,
                      ModuleOf[list[i]] = Top.handler
               PROVE  list[i] \in Top.called
    BY DEF Hooked, Range
  <2>1. stack # <<>> /\ Top.running = NoFunction
    BY DEF EndLoop, Iterating
  <2>2. /\ Walk(Top, list) /\ Ahead(Top, list) /\ Answers(Top, stopMode[Top.event]) /\ Sorted(list)
        /\ list \in Seq(Slots)
    BY <2>1, TopIsGood DEF Good
  <2>3. /\ Top.index \in Nat \ {0} /\ Len(list) \in Nat /\ DOMAIN list = 1..Len(list)
        /\ Top.handler \in Module
        /\ AtSlot => Top.index \in DOMAIN list /\ Slot \in Slots
    BY <2>1, Loop
  <2>4. Slot = list[Top.index]
    BY DEF Slot
  <2>5. \/ Top.index > Len(list)
        \/ AtSlot /\ Slot # NoFunction /\ ModuleDone(Slot)
    BY DEF EndLoop
  <2> HIDE DEF list
  <2>6. Past(Top) = Top.index - 1
    BY <2>1 DEF Past
  <2>7. list[i] \in Top.called <=> i <= Top.index - 1
    BY <2>2, <2>6 DEF Walk
  <2>8. CASE Top.index > Len(list)
    BY <2>3, <2>7, <2>8
  <2>9. CASE AtSlot /\ Slot # NoFunction /\ ModuleDone(Slot)
    <3>1. SUFFICES ASSUME i >= Top.index PROVE FALSE
      BY <2>3, <2>7
    <3>2. Slot \in Function /\ Top.index \in DOMAIN list
      BY <2>3, <2>9 DEF Slots
    <3>3. list[i] \in Function
      BY <2>2, <2>3 DEF Slots
    <3>4. Top.lastModule = Top.handler /\ Top.handler # ModuleOf[Slot]
      BY <2>2, <2>9 DEF Answers, ModuleDone, ScriptModule
    <3>5. ModuleOf[Slot] \in Module /\ Rank[ModuleOf[Slot]] \in Nat /\ Rank[Top.handler] \in Nat
      BY <2>3, <3>2, ModuleAssumption
    <3>6. Rank[Top.handler] <= Rank[ModuleOf[Slot]]
      BY <2>2, <2>3, <2>4, <2>6, <2>9, <3>2, <3>4 DEF Ahead
    <3>7. Rank[Top.handler] # Rank[ModuleOf[Slot]]
      BY <2>3, <3>4, <3>5, ModuleAssumption
    <3>8. i # Top.index
      BY <2>4, <3>4
    <3>9. ~(Rank[Top.handler] < Rank[ModuleOf[Slot]])
      <4>1. Top.index < i
        BY <2>3, <3>1, <3>8
      <4> QED BY <2>2, <2>4, <2>9, <3>2, <4>1 DEF Sorted, Before, ModuleLess
    <3> QED BY <3>5, <3>6, <3>7, <3>9
  <2> QED BY <2>5, <2>8, <2>9
<1>2. Inv /\ [Next]_vars =>
        [EndLoop /\ Top.handler # NoModule =>
           \A f \in Hooked(Top.event) : ModuleOf[f] = Top.handler => f \in Top.called]_vars
  BY <1>1
<1> QED BY <1>2, InvHolds, PTL DEF Spec, ModuleCompletes

-----------------------------------------------------------------------------
(* Triggers: the view of activations without slots.                        *)

(* What is left of a list is what was not called.                          *)
LEMMA LeftIsNotCalled ==
  ASSUME NEW a \in Activation, NEW list \in Seq(Slots), Walk(a, list)
  PROVE  Left(a, list) = (Range(list) \ {NoFunction}) \ a.called
<1>1. Past(a) \in Int /\ DOMAIN list \in SUBSET Nat
  BY DEF Past, Activation
<1>2. \A i \in DOMAIN list : i > Past(a) <=> ~(i <= Past(a))
  BY <1>1
<1> QED BY <1>2 DEF Left, Walk, Range

LEMMA ViewEmpty ==
  ASSUME NEW lists
  PROVE  View(<<>>, lists) = <<>>
BY DEF View

LEMMA ViewPushed ==
  ASSUME NEW s \in Seq(Activation), NEW a \in Activation, NEW lists
  PROVE  /\ View(<<a>> \o s, lists) = <<Seen(a, lists)>> \o View(s, lists)
         /\ View(<<a>> \o s, lists) # <<>>
         /\ Head(View(<<a>> \o s, lists)) = Seen(a, lists)
         /\ Tail(View(<<a>> \o s, lists)) = View(s, lists)
<1> DEFINE t == <<a>> \o s
           V == {Seen(b, lists) : b \in Activation}
           v == View(s, lists)
           w == View(t, lists)
           x == Seen(a, lists)
<1>1. /\ t \in Seq(Activation) /\ Len(t) = Len(s) + 1 /\ Len(s) \in Nat
      /\ DOMAIN t = 1..(Len(s) + 1) /\ DOMAIN s = 1..Len(s)
      /\ t[1] = a /\ \A k \in 1..Len(s) : t[k + 1] = s[k]
  OBVIOUS
<1> HIDE DEF t
<1>2. x \in V /\ \A k \in DOMAIN s : Seen(s[k], lists) \in V
  <2>1. \A k \in DOMAIN s : s[k] \in Activation
    BY <1>1
  <2> QED BY <2>1
<1>3. v = [k \in 1..Len(s) |-> Seen(s[k], lists)]
  BY <1>1 DEF View
<1>4. w = [k \in 1..(Len(s) + 1) |-> Seen(t[k], lists)]
  BY <1>1 DEF View
<1> HIDE DEF v, w, x, V
<1>5. v \in Seq(V) /\ Len(v) = Len(s)
  <2>1. v \in [1..Len(s) -> V]
    BY <1>1, <1>2, <1>3
  <2> QED BY <1>1, <2>1
<1>6. w \in [1..(Len(s) + 1) -> V]
  <2>1. ASSUME NEW k \in 1..(Len(s) + 1) PROVE Seen(t[k], lists) \in V
    <3>1. CASE k = 1
      BY <1>1, <1>2, <3>1 DEF x
    <3>2. CASE k # 1
      <4>1. k - 1 \in 1..Len(s) /\ t[(k - 1) + 1] = s[k - 1] /\ (k - 1) + 1 = k
        BY <1>1, <3>2
      <4> QED BY <1>1, <1>2, <4>1
    <3> QED BY <3>1, <3>2
  <2> QED BY <1>4, <2>1
<1>7. w \in Seq(V) /\ Len(w) = Len(s) + 1 /\ w[1] = x
      /\ \A k \in 1..Len(s) : w[k + 1] = v[k]
  <2>1. w \in Seq(V) /\ Len(w) = Len(s) + 1
    BY <1>1, <1>6
  <2>2. w[1] = x
    BY <1>1, <1>4 DEF x
  <2>3. ASSUME NEW k \in 1..Len(s) PROVE w[k + 1] = v[k]
    <3>1. k + 1 \in 1..(Len(s) + 1)
      BY <1>1
    <3> QED BY <1>1, <1>3, <1>4, <3>1
  <2> QED BY <2>1, <2>2, <2>3
<1>8. w # <<>> /\ Head(w) = x
  BY <1>1, <1>7
<1>9. Tail(w) = v
  <2>1. Tail(w) \in Seq(V) /\ Len(Tail(w)) = Len(s)
    BY <1>1, <1>7
  <2>2. \A k \in 1..Len(s) : Tail(w)[k] = v[k]
    BY <1>1, <1>7
  <2> QED BY <1>5, <2>1, <2>2, SeqEqual
<1>10. w = <<x>> \o v
  <2>1. w = <<Head(w)>> \o Tail(w)
    BY <1>7, <1>8
  <2> QED BY <1>8, <1>9, <2>1
<1> QED BY <1>8, <1>9, <1>10 DEF t, v, w, x

LEMMA ViewTop ==
  ASSUME NEW s \in Seq(Activation), s # <<>>, NEW lists
  PROVE  /\ View(s, lists) # <<>>
         /\ Head(View(s, lists)) = Seen(Head(s), lists)
         /\ Tail(View(s, lists)) = View(Tail(s), lists)
<1> DEFINE a == Head(s)
           t == Tail(s)
<1>1. a \in Activation /\ t \in Seq(Activation) /\ s = <<a>> \o t
  BY HeadTailProperties
<1> HIDE DEF a, t
<1>2. /\ View(<<a>> \o t, lists) = <<Seen(a, lists)>> \o View(t, lists)
      /\ View(<<a>> \o t, lists) # <<>>
      /\ Head(View(<<a>> \o t, lists)) = Seen(a, lists)
      /\ Tail(View(<<a>> \o t, lists)) = View(t, lists)
  <2>1. t \in Seq(Activation) /\ a \in Activation
    BY <1>1
  <2> QED BY ONLY <2>1, ViewPushed
<1> QED BY <1>1, <1>2 DEF a, t

(* Where what is left stays, the view stays.                               *)
LEMMA ViewSame ==
  ASSUME NEW s \in Seq(Activation), NEW lists, NEW new,
         \A a \in Range(s) : Left(a, new[a.event]) = Left(a, lists[a.event])
  PROVE  View(s, new) = View(s, lists)
<1>1. \A k \in DOMAIN s : s[k] \in Range(s)
  BY DEF Range
<1>2. \A k \in DOMAIN s : Seen(s[k], new) = Seen(s[k], lists)
  BY <1>1 DEF Seen
<1> QED BY <1>2 DEF View

(* The same functions are hooked to each event, and none is called.        *)
LEMMA LeftSame ==
  ASSUME NEW s \in Seq(Activation), NEW lists, NEW new,
         NEW modes, AllGood(s, modes, lists), AllGood(s, modes, new),
         lists \in [Event -> Seq(Slots)], new \in [Event -> Seq(Slots)],
         \A e \in Event : Range(new[e]) \ {NoFunction} = Range(lists[e]) \ {NoFunction}
  PROVE  View(s, new) = View(s, lists)
<1>1. ASSUME NEW a \in Range(s) PROVE Left(a, new[a.event]) = Left(a, lists[a.event])
  <2>1. a \in Activation /\ a.event \in Event
    <3>1. a \in Activation
      BY DEF Range
    <3> QED BY <3>1 DEF Activation
  <2>2. Walk(a, lists[a.event]) /\ Walk(a, new[a.event])
    BY DEF AllGood, Good
  <2> QED BY <2>1, <2>2, LeftIsNotCalled
<1> QED BY <1>1, ViewSame

LEMMA TriggeredIsTriggering ==
  ASSUME Inv, NEW e \in Event
  PROVE  Abstract!Triggered(e) <=> IsTriggering(e)
<1>1. stack \in Seq(Activation)
  BY DEF Inv, Typed
<1>2. Abstract!Triggered(e) <=> \E k \in DOMAIN stack : stack[k].event = e
  BY DEF Abstract!Triggered, View, Seen
<1>3. (\E k \in DOMAIN stack : stack[k].event = e) <=> \E a \in Range(stack) : a \in Of(e)
  BY <1>1 DEF Range, Of
<1>4. IsTriggering(e) <=> Cardinality(Where(stack, Of(e))) # 0
  BY DEF Inv, Counted, IsTriggering
<1> QED BY <1>1, <1>2, <1>3, <1>4, WhereFinite

LEMMA TopSeen ==
  ASSUME Inv, stack # <<>>
  PROVE  /\ View(stack, hooks) # <<>> /\ Abstract!Top = Seen(Top, hooks)
         /\ Tail(View(stack, hooks)) = View(Tail(stack), hooks)
<1>1. stack \in Seq(Activation)
  BY DEF Inv, Typed
<1> QED BY <1>1, ViewTop DEF Abstract!Top, Top

LEMMA ScriptsRun ==
  ASSUME Inv, ScriptRuns
  PROVE  Abstract!ScriptRuns
<1>1. CASE stack = <<>>
  BY <1>1, ViewEmpty DEF Abstract!ScriptRuns
<1>2. CASE stack # <<>>
  BY <1>2, TopSeen DEF Abstract!ScriptRuns, Seen, ScriptRuns, Iterating
<1> QED BY <1>1, <1>2

LEMMA InitImplements == Init => Abstract!Init
BY ViewEmpty DEF Init, Abstract!Init, StopModes, Hooked, Range

(* Only references change.                                                 *)
LEMMA DelegatesStutter ==
  ASSUME NEW f \in Function, MakeDelegate(f) \/ DropDelegate(f)
  PROVE  UNCHANGED Abstract!vars
<1>1. UNCHANGED <<stopMode, hooks, stack, result>>
  BY DEF MakeDelegate, DropDelegate
<1> QED BY <1>1 DEF Abstract!vars, Hooked

(* The lists of the events that are not triggered change.                  *)
LEMMA ViewOfTriggered ==
  ASSUME Inv, \A e \in Event : IsTriggering(e) => hooks'[e] = hooks[e], stack' = stack
  PROVE  View(stack, hooks)' = View(stack, hooks)
<1>1. ASSUME NEW a \in Range(stack) PROVE Left(a, hooks'[a.event]) = Left(a, hooks[a.event])
  <2>1. a.event \in Event /\ IsTriggering(a.event)
    BY Triggered DEF Inv
  <2> QED BY <2>1
<1>2. stack \in Seq(Activation)
  BY DEF Inv, Typed
<1> QED BY <1>1, <1>2, ViewSame

LEMMA HookImplements ==
  ASSUME Inv, NEW e \in Event, NEW f \in Function, Hook(e, f)
  PROVE  Abstract!Hook(e, f)
<1>1. Range(hooks'[e]) = Range(hooks[e]) \cup {f}
  BY HookInv
<1>2. /\ ~IsTriggering(e) /\ ScriptRuns /\ UNCHANGED <<stopMode, stack, result>>
      /\ hooks' = [hooks EXCEPT ![e] = Insert(@, f)]
  BY DEF Hook, MayHook
<1>3. \A d \in Event : d # e => hooks'[d] = hooks[d]
  BY <1>2 DEF Inv, Typed
<1>4. View(stack, hooks)' = View(stack, hooks)
  BY <1>2, <1>3, ViewOfTriggered
<1>5. [d \in Event |-> Hooked(d)]' = [[d \in Event |-> Hooked(d)] EXCEPT ![e] = @ \cup {f}]
  BY <1>1, <1>3, FunctionAssumption DEF Hooked
<1>6. Abstract!ScriptRuns /\ ~Abstract!Triggered(e)
  BY <1>2, ScriptsRun, TriggeredIsTriggering
<1> QED BY <1>2, <1>4, <1>5, <1>6 DEF Abstract!Hook

LEMMA UnhookImplements ==
  ASSUME Inv, NEW e \in Event, NEW f \in Function, Unhook(e, f)
  PROVE  Abstract!Unhook(e, f)
<1>1. Inv' /\ Range(hooks'[e]) \ {NoFunction} = Range(hooks[e]) \ {f, NoFunction}
  BY UnhookInv
<1>2. /\ ScriptRuns /\ UNCHANGED <<stopMode, stack, result>>
      /\ hooks' = [hooks EXCEPT ![e] = VacateSlot(e, f)]
  BY DEF Unhook
<1>3. \A d \in Event : d # e => hooks'[d] = hooks[d]
  BY <1>2 DEF Inv, Typed
<1>4. [d \in Event |-> Hooked(d)]' = [[d \in Event |-> Hooked(d)] EXCEPT ![e] = @ \ {f}]
  BY <1>1, <1>3 DEF Hooked
<1>5. ASSUME NEW k \in DOMAIN stack
      PROVE  Seen(stack[k], hooks') =
               IF stack[k].event = e
               THEN [Seen(stack[k], hooks) EXCEPT !.left = @ \ {f}]
               ELSE Seen(stack[k], hooks)
  <2> DEFINE a == stack[k]
  <2>1. a \in Activation /\ a \in Range(stack) /\ a.event \in Event
    <3>1. a \in Activation /\ a \in Range(stack)
      BY DEF Inv, Typed, Range
    <3> QED BY <3>1, Triggered DEF Inv
  <2>2. Walk(a, hooks[a.event]) /\ Walk(a, hooks'[a.event])
    BY <1>1, <1>2, <2>1 DEF Inv, AllGood, Good
  <2>3. hooks[a.event] \in Seq(Slots) /\ hooks'[a.event] \in Seq(Slots)
    BY <1>1, <2>1 DEF Inv, Typed
  <2> HIDE DEF a
  <2>4. Left(a, hooks[a.event]) = (Range(hooks[a.event]) \ {NoFunction}) \ a.called
    BY <2>1, <2>2, <2>3, LeftIsNotCalled
  <2>5. Left(a, hooks'[a.event]) = (Range(hooks'[a.event]) \ {NoFunction}) \ a.called
    BY <2>1, <2>2, <2>3, LeftIsNotCalled
  <2>6. CASE a.event = e
    <3>1. Left(a, hooks'[a.event]) = Left(a, hooks[a.event]) \ {f}
      BY <1>1, <2>4, <2>5, <2>6
    <3> QED BY <2>6, <3>1 DEF Seen, a
  <2>7. CASE a.event # e
    <3>1. hooks'[a.event] = hooks[a.event]
      BY <1>3, <2>1, <2>7
    <3> QED BY <2>7, <3>1 DEF Seen, a
  <2> QED BY <2>6, <2>7
<1>6. \A k \in DOMAIN stack : View(stack, hooks)[k].event = stack[k].event
  BY DEF View, Seen
<1>7. View(stack, hooks)' =
        [k \in DOMAIN View(stack, hooks) |->
           IF View(stack, hooks)[k].event = e
           THEN [View(stack, hooks)[k] EXCEPT !.left = @ \ {f}]
           ELSE View(stack, hooks)[k]]
  <2>1. DOMAIN View(stack, hooks) = DOMAIN stack
        /\ \A k \in DOMAIN stack : View(stack, hooks)[k] = Seen(stack[k], hooks)
    BY DEF View
  <2>2. View(stack, hooks)' = [k \in DOMAIN stack |-> Seen(stack[k], hooks')]
    BY <1>2 DEF View
  <2> QED BY <1>5, <1>6, <2>1, <2>2
<1>8. Abstract!ScriptRuns
  BY <1>2, ScriptsRun
<1> QED BY <1>2, <1>4, <1>7, <1>8 DEF Abstract!Unhook

LEMMA BulkImplements ==
  ASSUME Inv, NEW F \in SUBSET Function, ScriptRuns,
         UNCHANGED <<stopMode, stack, result>>,
         \A e \in Event : IsTriggering(e) => hooks'[e] = hooks[e],
         \A e \in Event : ~IsTriggering(e) => Range(hooks'[e]) = Range(hooks[e]) \ F
  PROVE  Abstract!UnhookAll(F)
<1>1. View(stack, hooks)' = View(stack, hooks)
  BY ViewOfTriggered
<1>2. [e \in Event |-> Hooked(e)]' =
        [e \in Event |-> IF Abstract!Triggered(e) THEN [d \in Event |-> Hooked(d)][e]
                         ELSE [d \in Event |-> Hooked(d)][e] \ F]
  <2>1. \A e \in Event : Abstract!Triggered(e) <=> IsTriggering(e)
    BY TriggeredIsTriggering
  <2>2. \A e \in Event : Hooked(e)' = IF Abstract!Triggered(e) THEN Hooked(e) ELSE Hooked(e) \ F
    BY <2>1 DEF Hooked
  <2> QED BY <2>2
<1>3. Abstract!ScriptRuns
  BY ScriptsRun
<1> QED BY <1>1, <1>2, <1>3 DEF Abstract!UnhookAll

LEMMA UnhookModuleFunctionsImplements ==
  ASSUME Inv, NEW m \in Module, UnhookModuleFunctions(m)
  PROVE  Abstract!UnhookAll({f \in Function : ModuleOf[f] = m})
<1> DEFINE F == {f \in Function : ModuleOf[f] = m}
<1>1. \A e \in Event : IsTriggering(e) => hooks'[e] = hooks[e]
  BY DEF UnhookModuleFunctions, Clearable
<1>2. \A e \in Event : ~IsTriggering(e) => Range(hooks'[e]) = Range(hooks[e]) \ F
  BY UnhookModuleFunctionsInv DEF Clearable
<1>3. ScriptRuns /\ UNCHANGED <<stopMode, stack, result>>
  BY DEF UnhookModuleFunctions
<1>4. F \in SUBSET Function
  OBVIOUS
<1> HIDE DEF F
<1>5. Abstract!UnhookAll(F)
  BY <1>1, <1>2, <1>3, <1>4, BulkImplements
<1> QED BY <1>5 DEF F

LEMMA UnhookAllFunctionsImplements ==
  ASSUME Inv, UnhookAllFunctions
  PROVE  Abstract!UnhookAll(Function)
<1>1. \A e \in Event : IsTriggering(e) => hooks'[e] = hooks[e]
  BY DEF UnhookAllFunctions, Clearable
<1>2. \A e \in Event : ~IsTriggering(e) => Range(hooks'[e]) = Range(hooks[e]) \ Function
  <2>1. ASSUME NEW e \in Event, ~IsTriggering(e)
        PROVE  Range(hooks'[e]) = {} /\ Range(hooks[e]) \in SUBSET Function
    <3>1. Range(hooks'[e]) = {}
      BY <2>1, UnhookAllFunctionsInv DEF Clearable
    <3>2. hooks[e] \in Seq(Function)
      BY <2>1, ListFull
    <3>3. \A i \in DOMAIN hooks[e] : hooks[e][i] \in Function
      BY <3>2
    <3>4. Range(hooks[e]) \in SUBSET Function
      BY <3>3 DEF Range
    <3> QED BY <3>1, <3>4
  <2> QED BY <2>1
<1>3. ScriptRuns /\ UNCHANGED <<stopMode, stack, result>>
  BY DEF UnhookAllFunctions
<1>4. Function \in SUBSET Function
  OBVIOUS
<1> QED BY <1>1, <1>2, <1>3, <1>4, BulkImplements

LEMMA TriggerImplements ==
  ASSUME Inv, NEW e \in Event, Trigger(e)
  PROVE  Abstract!Trigger(e)
<1> DEFINE new == [event |-> e, index |-> 1, running |-> NoFunction,
                   code |-> "continue", ok |-> TRUE, lastModule |-> NoModule,
                   calls |-> 0, called |-> {}, handler |-> NoModule]
           on == [Top EXCEPT !.calls = @ + 1]
           caller == IF stack = <<>> THEN <<>> ELSE <<on>> \o Tail(stack)
<1>1. /\ ScriptRuns /\ UNCHANGED <<stopMode, hooks, result>>
      /\ stack' = <<new>> \o caller
      /\ stack # <<>> => Top.calls < MaxCalls
  BY DEF Trigger
<1>2. new \in Activation
  BY HostAssumption DEF Activation
<1>3. Seen(new, hooks) = [event |-> e, left |-> Hooked(e), running |-> NoFunction,
                          ok |-> TRUE, handler |-> NoModule]
  <2>1. Left(new, hooks[e]) = Hooked(e)
    <3>1. Past(new) = 0 /\ DOMAIN hooks[e] \in SUBSET (Nat \ {0})
      BY DEF Past, Inv, Typed
    <3> QED BY <3>1 DEF Left, Hooked, Range
  <2> QED BY <2>1 DEF Seen
<1> HIDE DEF new
<1>4. caller \in Seq(Activation) /\ View(caller, hooks) = View(stack, hooks)
  <2>1. CASE stack = <<>>
    BY <2>1, EmptySeq
  <2>2. CASE stack # <<>>
    <3>1. Top \in Activation /\ Tail(stack) \in Seq(Activation)
      BY <2>2, TopIsGood
    <3>2. on \in Activation
      <4>1. Top.calls < MaxCalls /\ Top.calls \in 0..MaxCalls /\ MaxCalls \in Nat
        BY <1>1, <2>2, <3>1, HostAssumption DEF Activation
      <4>2. Top.calls + 1 \in 0..MaxCalls
        BY <4>1
      <4> QED BY <3>1, <4>2 DEF Activation
    <3>3. Seen(on, hooks) = Seen(Top, hooks)
      <4>1. /\ on.event = Top.event /\ on.index = Top.index /\ on.running = Top.running
            /\ on.ok = Top.ok /\ on.handler = Top.handler
        BY <3>1 DEF Activation
      <4> QED BY <4>1 DEF Seen, Left, Past
    <3> HIDE DEF on
    <3>4. caller = <<on>> \o Tail(stack)
      BY <2>2
    <3>5. View(<<on>> \o Tail(stack), hooks) = <<Seen(on, hooks)>> \o View(Tail(stack), hooks)
      BY <3>1, <3>2, ViewPushed
    <3>6. stack = <<Top>> \o Tail(stack)
      BY <2>2 DEF Top, Inv, Typed
    <3>7. View(<<Top>> \o Tail(stack), hooks) = <<Seen(Top, hooks)>> \o View(Tail(stack), hooks)
      BY <3>1, ViewPushed
    <3>8. <<on>> \o Tail(stack) \in Seq(Activation)
      BY <3>1, <3>2
    <3> QED BY <3>3, <3>4, <3>5, <3>6, <3>7, <3>8
  <2> QED BY <2>1, <2>2
<1> HIDE DEF caller
<1>5. View(<<new>> \o caller, hooks) = <<Seen(new, hooks)>> \o View(caller, hooks)
  BY <1>2, <1>4, ViewPushed
<1>6. View(stack, hooks)' = <<Seen(new, hooks)>> \o View(stack, hooks)
  BY <1>1, <1>4, <1>5
<1>7. Abstract!ScriptRuns
  BY <1>1, ScriptsRun
<1>8. [d \in Event |-> Hooked(d)]' = [d \in Event |-> Hooked(d)]
  BY <1>1 DEF Hooked
<1> QED BY <1>1, <1>3, <1>6, <1>7, <1>8 DEF Abstract!Trigger

LEMMA TopReplaced ==
  ASSUME Inv, stack # <<>>, NEW b \in Activation, stack' = <<b>> \o Tail(stack),
         hooks' = hooks
  PROVE  /\ View(stack, hooks)' = <<Seen(b, hooks)>> \o Tail(View(stack, hooks))
         /\ [e \in Event |-> Hooked(e)]' = [e \in Event |-> Hooked(e)]
<1>1. Tail(stack) \in Seq(Activation) /\ Tail(View(stack, hooks)) = View(Tail(stack), hooks)
  BY TopIsGood, TopSeen
<1>2. View(<<b>> \o Tail(stack), hooks) = <<Seen(b, hooks)>> \o View(Tail(stack), hooks)
  BY <1>1, ViewPushed
<1>3. View(stack, hooks)' = View(<<b>> \o Tail(stack), hooks)
  OBVIOUS
<1> QED BY <1>1, <1>2, <1>3 DEF Hooked

LEMMA SkipSlotStutters ==
  ASSUME Inv, SkipSlot
  PROVE  UNCHANGED Abstract!vars
<1> DEFINE b == [Top EXCEPT !.index = NextIndex]
           list == hooks[Top.event]
<1>1. /\ stack # <<>> /\ Top.running = NoFunction /\ AtSlot /\ Slot = NoFunction
      /\ stack' = <<b>> \o Tail(stack) /\ UNCHANGED <<stopMode, hooks, result>>
  BY DEF SkipSlot, AtSlot, Iterating
<1>2. /\ Top \in Activation /\ Top.index \in Nat \ {0}
      /\ DOMAIN list \in SUBSET Nat /\ list[Top.index] = NoFunction
  BY <1>1, TopIsGood, Loop DEF Slot
<1>3. b \in Activation
  BY <1>2 DEF Activation, NextIndex
<1>4. /\ b.event = Top.event /\ b.index = Top.index + 1 /\ b.running = NoFunction
      /\ b.ok = Top.ok /\ b.handler = Top.handler
  BY <1>1, <1>2 DEF Activation, NextIndex
<1> HIDE DEF b, list
<1>5. Left(b, list) = Left(Top, list)
  <2>1. Past(b) = Top.index /\ Past(Top) = Top.index - 1
    BY <1>1, <1>2, <1>4 DEF Past
  <2>2. \A i \in DOMAIN list : i > Past(Top) <=> i > Past(b) \/ i = Top.index
    BY <1>2, <2>1
  <2> QED BY <1>2, <2>2 DEF Left
<1>6. Seen(b, hooks) = Seen(Top, hooks)
  <2>1. Left(b, hooks[b.event]) = Left(Top, hooks[Top.event]) /\ b.running = Top.running
    BY <1>1, <1>4, <1>5 DEF list
  <2> QED BY <1>4, <2>1 DEF Seen
<1>7. View(stack, hooks) = <<Seen(Top, hooks)>> \o Tail(View(stack, hooks))
  <2>1. Tail(stack) \in Seq(Activation) /\ Tail(View(stack, hooks)) = View(Tail(stack), hooks)
    BY <1>1, TopIsGood, TopSeen
  <2>2. View(<<Top>> \o Tail(stack), hooks) = <<Seen(Top, hooks)>> \o View(Tail(stack), hooks)
    BY <1>2, <2>1, ViewPushed
  <2>3. stack = <<Top>> \o Tail(stack)
    BY <1>1 DEF Top, Inv, Typed
  <2> QED BY <2>1, <2>2, <2>3
<1>8. /\ View(stack, hooks)' = <<Seen(b, hooks)>> \o Tail(View(stack, hooks))
      /\ [e \in Event |-> Hooked(e)]' = [e \in Event |-> Hooked(e)]
  BY <1>1, <1>3, TopReplaced
<1> QED BY <1>1, <1>6, <1>7, <1>8 DEF Abstract!vars

LEMMA Choosing ==
  ASSUME Inv, Iterating
  PROVE  Abstract!Choosing
BY TopSeen DEF Iterating, Abstract!Choosing, Seen

LEMMA CallSlotImplements ==
  ASSUME Delegate = {}, Inv, CallSlot
  PROVE  \E f \in Function : Abstract!Call(f)
<1> DEFINE list == hooks[Top.event]
<1>1. /\ stack # <<>> /\ Iterating /\ Top.running = NoFunction /\ AtSlot /\ Slot # NoFunction
      /\ ~ModuleDone(Slot) /\ UNCHANGED <<stopMode, hooks, result>>
  BY DEF CallSlot, AtSlot, Iterating
<1>2. PICK b \in Activation :
        /\ stack' = <<b>> \o Tail(stack) /\ b.event = Top.event /\ b.running = Slot
        /\ Good(b, stopMode[b.event], hooks[b.event])
  BY CallSlotInv
<1>3. /\ Top \in Activation /\ Good(Top, stopMode[Top.event], list) /\ Sorted(list)
      /\ list \in Seq(Slots) /\ Tail(stack) \in Seq(Activation)
  BY <1>1, TopIsGood
<1>4. /\ Top.index \in Nat \ {0} /\ DOMAIN list \in SUBSET Nat
      /\ Top.index \in DOMAIN list /\ Slot \in Function
      /\ list[Top.index] = Slot
  BY <1>1, Loop DEF Slots, Slot
<1>5. /\ b.called = Top.called \cup {Slot} /\ b.ok = Top.ok /\ b.handler = Top.handler
  <2> DEFINE c == [Top EXCEPT !.running = Slot, !.calls = 0,
                              !.lastModule = ScriptModule(Slot),
                              !.called = @ \cup {Slot}]
  <2>1. c.called = Top.called \cup {Slot} /\ c.ok = Top.ok /\ c.handler = Top.handler
    BY <1>3 DEF Activation
  <2>2. stack' = <<c>> \o Tail(stack)
    BY DEF CallSlot
  <2> HIDE DEF c
  <2>3. c = b
    BY <1>2, <1>3, <2>2
  <2> QED BY <2>1, <2>3
<1>6. Left(Top, list) = (Range(list) \ {NoFunction}) \ Top.called
  BY <1>3, LeftIsNotCalled DEF Good
<1>7. Left(b, list) = (Range(list) \ {NoFunction}) \ b.called
  BY <1>2, <1>3, LeftIsNotCalled DEF Good
<1>8. Left(b, list) = Left(Top, list) \ {Slot}
  BY <1>5, <1>6, <1>7
<1>9. Past(Top) = Top.index - 1
  BY <1>1 DEF Past
<1>10. Slot \in Left(Top, list)
  BY <1>1, <1>4, <1>9 DEF Left
<1>11. ASSUME NEW g \in Left(Top, list)
       PROVE  Rank[ModuleOf[Slot]] <= Rank[ModuleOf[g]]
  <2>1. PICK j \in DOMAIN list : j > Past(Top) /\ g = list[j] /\ g # NoFunction
    BY <1>11 DEF Left
  <2>2. g \in Function /\ j \in Nat /\ Top.index <= j
    BY <1>3, <1>4, <1>9, <2>1 DEF Slots
  <2>3. Rank[ModuleOf[g]] \in Nat /\ Rank[ModuleOf[Slot]] \in Nat
    BY <1>4, <2>2, ModuleAssumption
  <2>4. CASE j = Top.index
    BY <1>4, <2>1, <2>3, <2>4
  <2>5. CASE j # Top.index
    <3>1. Top.index < j
      BY <1>4, <2>2, <2>5
    <3>2. ~ModuleLess(ModuleOf[g], ModuleOf[Slot])
      BY <1>1, <1>3, <1>4, <2>1, <3>1 DEF Sorted, Before
    <3> QED BY <2>3, <3>2 DEF ModuleLess
  <2> QED BY <2>4, <2>5
<1>12. ~Abstract!Enough(Seen(Top, hooks))
  <2>1. SUFFICES ASSUME Abstract!Enough(Seen(Top, hooks)) PROVE FALSE
    OBVIOUS
  <2>2. /\ stopMode[Top.event] = "moduleHandled" /\ Top.handler # NoModule
        /\ \A f \in Left(Top, list) : ModuleOf[f] # Top.handler
    BY <2>1 DEF Abstract!Enough, Seen
  <2>3. Top.code = "handled" /\ Top.lastModule = Top.handler
    BY <1>3, <2>2 DEF Good, Answers
  <2>4. Top.lastModule = ModuleOf[Slot]
    BY <1>1, <2>2, <2>3 DEF ModuleDone, ScriptModule
  <2> QED BY <1>10, <2>2, <2>3, <2>4
<1> HIDE DEF list
<1>13. Seen(b, hooks) = [event |-> Top.event, left |-> Left(Top, list) \ {Slot},
                         running |-> Slot, ok |-> Top.ok, handler |-> Top.handler]
  <2>1. Left(b, hooks[b.event]) = Left(Top, hooks[Top.event]) \ {Slot}
    BY <1>2, <1>8 DEF list
  <2> QED BY <1>2, <1>5, <2>1 DEF Seen, list
<1>14. /\ View(stack, hooks)' = <<Seen(b, hooks)>> \o Tail(View(stack, hooks))
       /\ [e \in Event |-> Hooked(e)]' = [e \in Event |-> Hooked(e)]
  BY <1>1, <1>2, TopReplaced
<1>15. /\ Abstract!Top = Seen(Top, hooks) /\ Seen(Top, hooks).left = Left(Top, list)
       /\ Seen(Top, hooks).event = Top.event /\ Seen(Top, hooks).ok = Top.ok
       /\ Seen(Top, hooks).handler = Top.handler
  BY <1>1, TopSeen DEF Seen, list
<1>16. Abstract!Call(Slot)
  BY <1>1, <1>10, <1>11, <1>12, <1>13, <1>14, <1>15, Choosing DEF Abstract!Call
<1> QED BY <1>4, <1>16

(* The innermost activation ends, with what it knows then.                 *)
LEMMA Ended ==
  ASSUME Inv, Inv', stack # <<>>, stack' = Tail(stack), stopMode' = stopMode,
         callCount' = [callCount EXCEPT ![Top.event] = @ - 1],
         hooks' = [hooks EXCEPT ![Top.event] = ClearRemovedHooks(Top.event)],
         UNCHANGED owned, refs' \in [Function -> Int],
         result' \in {"none", "failed", "handled", "noneHandled"}
  PROVE  /\ View(stack, hooks)' = Tail(View(stack, hooks))
         /\ [e \in Event |-> Hooked(e)]' = [e \in Event |-> Hooked(e)]
<1>1. \A e \in Event : Range(hooks'[e]) \ {NoFunction} = Range(hooks[e]) \ {NoFunction}
  BY EndInv
<1>2. [e \in Event |-> Hooked(e)]' = [e \in Event |-> Hooked(e)]
  BY <1>1 DEF Hooked
<1>3. Tail(stack) \in Seq(Activation) /\ Tail(View(stack, hooks)) = View(Tail(stack), hooks)
      /\ Range(Tail(stack)) \in SUBSET Range(stack)
  BY TopIsGood, TopSeen, Popped DEF Inv, Typed
<1>4. View(Tail(stack), hooks') = View(Tail(stack), hooks)
  <2>1. AllGood(Tail(stack), stopMode, hooks)
    BY <1>3 DEF Inv, AllGood
  <2>2. AllGood(Tail(stack), stopMode, hooks')
    BY DEF Inv, AllGood
  <2>3. hooks \in [Event -> Seq(Slots)] /\ hooks' \in [Event -> Seq(Slots)]
    BY DEF Inv, Typed
  <2> QED BY <1>1, <1>3, <2>1, <2>2, <2>3, LeftSame
<1>5. View(stack, hooks)' = View(Tail(stack), hooks')
  OBVIOUS
<1> QED BY <1>2, <1>3, <1>4, <1>5

LEMMA EndLoopImplements ==
  ASSUME Delegate = {}, Inv, Inv', EndLoop
  PROVE  Abstract!End
<1> DEFINE list == hooks[Top.event]
<1>1. stack # <<>> /\ Iterating /\ Top.running = NoFunction
  BY DEF EndLoop, Iterating
<1>2. /\ Walk(Top, list) /\ Ahead(Top, list) /\ Answers(Top, stopMode[Top.event]) /\ Sorted(list)
      /\ list \in Seq(Slots) /\ Top \in Activation
  BY <1>1, TopIsGood DEF Good
<1>3. /\ Top.index \in Nat \ {0} /\ Len(list) \in Nat /\ DOMAIN list = 1..Len(list)
      /\ Top.handler \in Module \cup {NoModule}
      /\ AtSlot => Top.index \in DOMAIN list /\ Slot \in Slots
  BY <1>1, Loop
<1>4. Slot = list[Top.index]
  BY DEF Slot
<1>5. \/ Top.index > Len(list)
      \/ AtSlot /\ Slot # NoFunction /\ ModuleDone(Slot)
  BY DEF EndLoop
<1>6. End(Top) /\ UNCHANGED <<stopMode, refs, owned>>
  BY DEF EndLoop
<1> HIDE DEF list
<1>7. Past(Top) = Top.index - 1
  BY <1>1 DEF Past
<1>8. Left(Top, list) = {} \/ Abstract!Enough(Seen(Top, hooks))
  <2>1. CASE Top.index > Len(list)
    <3>1. \A j \in DOMAIN list : ~(j > Past(Top))
      BY <1>3, <1>7, <2>1
    <3> QED BY <3>1 DEF Left
  <2>2. CASE AtSlot /\ Slot # NoFunction /\ ModuleDone(Slot)
    <3>1. Slot \in Function /\ Top.index \in DOMAIN list
      BY <1>3, <2>2 DEF Slots
    <3>2. /\ stopMode[Top.event] = "moduleHandled" /\ Top.handler # NoModule
          /\ Top.lastModule = Top.handler /\ Top.handler # ModuleOf[Slot]
          /\ Top.handler \in Module
      BY <1>2, <1>3, <2>2 DEF Answers, ModuleDone, ScriptModule
    <3>3. ModuleOf[Slot] \in Module /\ Rank[ModuleOf[Slot]] \in Nat /\ Rank[Top.handler] \in Nat
      BY <3>1, <3>2, ModuleAssumption
    <3>4. Rank[Top.handler] <= Rank[ModuleOf[Slot]]
      BY <1>2, <1>3, <1>4, <1>7, <2>2, <3>1, <3>2 DEF Ahead
    <3>5. Rank[Top.handler] # Rank[ModuleOf[Slot]]
      BY <3>2, <3>3, ModuleAssumption
    <3>6. ASSUME NEW f \in Left(Top, list), ModuleOf[f] = Top.handler PROVE FALSE
      <4>1. PICK j \in DOMAIN list : j > Past(Top) /\ f = list[j] /\ f # NoFunction
        BY <3>6 DEF Left
      <4>2. j # Top.index
        BY <1>4, <3>2, <3>6, <4>1
      <4>3. Top.index < j
        BY <1>3, <1>7, <4>1, <4>2
      <4>4. ~(Rank[Top.handler] < Rank[ModuleOf[Slot]])
        BY <1>2, <1>4, <2>2, <3>1, <3>6, <4>1, <4>3 DEF Sorted, Before, ModuleLess
      <4> QED BY <3>3, <3>4, <3>5, <4>4
    <3>7. Seen(Top, hooks).left = Left(Top, list)
      BY DEF Seen, list
    <3> QED BY <3>2, <3>6, <3>7 DEF Abstract!Enough, Seen
  <2> QED BY <1>5, <2>1, <2>2
<1>9. /\ View(stack, hooks)' = Tail(View(stack, hooks))
      /\ [e \in Event |-> Hooked(e)]' = [e \in Event |-> Hooked(e)]
  <2>1. /\ stack' = Tail(stack)
        /\ callCount' = [callCount EXCEPT ![Top.event] = @ - 1]
        /\ hooks' = [hooks EXCEPT ![Top.event] = ClearRemovedHooks(Top.event)]
        /\ result' \in {"none", "failed", "handled", "noneHandled"}
    BY EndLoopEnds
  <2>2. refs' \in [Function -> Int]
    BY DEF Inv, Typed
  <2> QED BY <1>1, <1>6, <2>1, <2>2, Ended
<1>10. Abstract!Ends(Seen(Top, hooks))
  <2>1. result' = IF ~Top.ok THEN "failed"
                  ELSE IF Top.code = "handled" THEN "handled" ELSE "noneHandled"
    BY <1>6 DEF End
  <2>2. Top.code = "handled" <=> Top.handler # NoModule
    BY <1>2 DEF Answers
  <2> QED BY <1>9, <2>1, <2>2 DEF Abstract!Ends, Seen
<1>11. Abstract!Top = Seen(Top, hooks) /\ Seen(Top, hooks).left = Left(Top, list)
  BY <1>1, TopSeen DEF Seen, list
<1> QED BY <1>1, <1>6, <1>8, <1>9, <1>10, <1>11, Choosing DEF Abstract!End

LEMMA ReturnImplements ==
  ASSUME Delegate = {}, Inv, Inv', NEW success \in BOOLEAN,
         NEW code \in {"continue", "handled"}, Return(success, code)
  PROVE  Abstract!Return(success, code = "handled")
<1> DEFINE returned == [Top EXCEPT !.running = NoFunction, !.calls = 0,
                              !.ok = success /\ @,
                              !.code = NewCode(success, code),
                              !.handler = IF Top.code = "continue" /\ success
                                             /\ code = "handled"
                                          THEN ModuleOf[Top.running] ELSE @]
           b == [returned EXCEPT !.index = NextIndex]
           list == hooks[Top.event]
           handler == IF Top.handler = NoModule /\ success /\ code = "handled"
                      THEN ModuleOf[Top.running] ELSE Top.handler
           a == [event |-> Top.event, left |-> Left(Top, list), running |-> NoFunction,
                 ok |-> success /\ Top.ok, handler |-> handler]
<1>1. /\ stack # <<>> /\ Top.running # NoFunction
      /\ refs' = [refs EXCEPT ![Top.running] = @ - 1]
      /\ \/ /\ returned.code = "handled" /\ stopMode[Top.event] = "onHandled"
            /\ End(returned)
         \/ /\ returned.code # "handled" \/ stopMode[Top.event] # "onHandled"
            /\ stack' = <<b>> \o Tail(stack)
            /\ UNCHANGED <<hooks, callCount, result>>
      /\ UNCHANGED <<stopMode, owned>>
  BY DEF Return
<1>2. Top \in Activation /\ Good(Top, stopMode[Top.event], list)
  BY <1>1, TopIsGood
<1>3. /\ Top.index \in Nat \ {0} /\ Top.running \in Function
      /\ Top.handler \in Module \cup {NoModule} /\ Top.code \in {"continue", "handled"}
      /\ ModuleOf[Top.running] \in Module /\ ModuleOf[Top.running] # NoModule
  <2>1. Top.running \in Function
    BY <1>1, Loop DEF Slots
  <2> QED BY <1>1, <1>2, <2>1, Loop, ModuleAssumption DEF Activation
<1>4. returned.event = Top.event /\ returned.ok = (success /\ Top.ok)
      /\ returned.code = NewCode(success, code)
  BY <1>2 DEF Activation
<1>5. /\ returned.handler = IF Top.code = "continue" /\ success /\ code = "handled"
                            THEN ModuleOf[Top.running] ELSE Top.handler
  BY <1>2 DEF Activation
<1>6. /\ b.event = Top.event /\ b.index = Top.index + 1 /\ b.running = NoFunction
      /\ b.ok = returned.ok /\ b.handler = returned.handler
  BY <1>2 DEF Activation, NextIndex
<1>7. b \in Activation
  <2>1. NewCode(success, code) \in {"continue", "handled"}
    BY <1>3 DEF NewCode
  <2>2. 0 \in 0..MaxCalls
    BY HostAssumption
  <2>3. (success /\ Top.ok) \in BOOLEAN
    OBVIOUS
  <2>4. (IF Top.code = "continue" /\ success /\ code = "handled"
         THEN ModuleOf[Top.running] ELSE Top.handler) \in Module \cup {NoModule}
    BY <1>3
  <2>5. NextIndex \in Nat \ {0}
    BY <1>3 DEF NextIndex
  <2> QED BY <1>2, <2>1, <2>2, <2>3, <2>4, <2>5 DEF Activation
<1> HIDE DEF returned, b, list
<1>8. Top.code = "handled" <=> Top.handler # NoModule
  BY <1>2 DEF Good, Answers
<1>9. returned.handler = handler /\ (returned.code = "handled" <=> handler # NoModule)
  <2>1. CASE Top.code = "continue" /\ success /\ code = "handled"
    BY <1>3, <1>4, <1>5, <1>8, <2>1 DEF NewCode
  <2>2. CASE ~(Top.code = "continue" /\ success /\ code = "handled")
    <3>1. handler = Top.handler /\ returned.handler = Top.handler
      BY <1>3, <1>5, <1>8, <2>2
    <3>2. NewCode(success, code) = "handled" <=> Top.code = "handled"
      BY <1>3, <2>2 DEF NewCode
    <3> QED BY <1>4, <1>8, <3>1, <3>2
  <2> QED BY <2>1, <2>2
<1> HIDE DEF handler
<1>10. /\ Abstract!Top = Seen(Top, hooks) /\ View(stack, hooks) # <<>>
       /\ Seen(Top, hooks) = [event |-> Top.event, left |-> Left(Top, list),
                              running |-> Top.running, ok |-> Top.ok, handler |-> Top.handler]
  BY <1>1, TopSeen DEF Seen, list
<1>11. a = [event |-> Abstract!Top.event, left |-> Abstract!Top.left,
            running |-> NoFunction, ok |-> success /\ Abstract!Top.ok,
            handler |-> IF Abstract!Top.handler = NoModule /\ success /\ code = "handled"
                        THEN ModuleOf[Abstract!Top.running] ELSE Abstract!Top.handler]
  BY <1>10 DEF handler
<1> HIDE DEF a
<1>12. a.event = Top.event /\ a.ok = (success /\ Top.ok) /\ a.handler = handler
  BY DEF a
<1>13. CASE /\ returned.code = "handled" /\ stopMode[Top.event] = "onHandled"
            /\ End(returned)
  <2>1. /\ View(stack, hooks)' = Tail(View(stack, hooks))
        /\ [e \in Event |-> Hooked(e)]' = [e \in Event |-> Hooked(e)]
    <3>1. /\ stack' = Tail(stack)
          /\ callCount' = [callCount EXCEPT ![Top.event] = @ - 1]
          /\ hooks' = [hooks EXCEPT ![Top.event] = ClearRemovedHooks(Top.event)]
          /\ result' \in {"none", "failed", "handled", "noneHandled"}
      BY <1>4, <1>13 DEF End
    <3>2. refs' \in [Function -> Int]
      BY DEF Inv, Typed
    <3> QED BY <1>1, <3>1, <3>2, Ended
  <2>2. result' = IF ~(success /\ Top.ok) THEN "failed"
                  ELSE IF handler # NoModule THEN "handled" ELSE "noneHandled"
    BY <1>4, <1>9, <1>13 DEF End
  <2>3. Abstract!Ends(a)
    BY <1>12, <2>1, <2>2 DEF Abstract!Ends
  <2>4. stopMode[a.event] = "onHandled" /\ a.handler # NoModule
    BY <1>9, <1>12, <1>13
  <2> QED BY <1>1, <1>10, <1>11, <2>1, <2>3, <2>4 DEF Abstract!Return
<1>14. CASE /\ returned.code # "handled" \/ stopMode[Top.event] # "onHandled"
            /\ stack' = <<b>> \o Tail(stack)
            /\ UNCHANGED <<hooks, callCount, result>>
  <2>1. /\ View(stack, hooks)' = <<Seen(b, hooks)>> \o Tail(View(stack, hooks))
        /\ [e \in Event |-> Hooked(e)]' = [e \in Event |-> Hooked(e)]
    BY <1>1, <1>7, <1>14, TopReplaced
  <2>2. Left(b, hooks[b.event]) = Left(Top, list)
    <3>1. Past(b) = Past(Top)
      BY <1>1, <1>3, <1>6 DEF Past
    <3> QED BY <1>6, <3>1 DEF Left, list
  <2>3. Seen(b, hooks) = a
    BY <1>4, <1>6, <1>9, <2>2 DEF Seen, a
  <2>4. ~(stopMode[a.event] = "onHandled" /\ a.handler # NoModule)
    BY <1>9, <1>12, <1>14
  <2> QED BY <1>1, <1>10, <1>11, <1>14, <2>1, <2>3, <2>4 DEF Abstract!Return
<1> QED BY <1>1, <1>13, <1>14

(* Without delegates, for which MODULE_HANDLED does not work: each step of *)
(* an event is one of what events promise.                                 *)
THEOREM Refinement ==
  ASSUME Delegate = {}
  PROVE  Spec => Implements
<1>1. Inv /\ Inv' /\ [Next]_vars => [Abstract!Next]_(Abstract!vars)
  <2> SUFFICES ASSUME Inv, Inv', [Next]_vars PROVE [Abstract!Next]_(Abstract!vars)
    OBVIOUS
  <2>1. CASE \E f \in Function : MakeDelegate(f) \/ DropDelegate(f)
    BY <2>1, DelegatesStutter
  <2>2. CASE \E e \in Event, f \in Function : Hook(e, f) \/ Unhook(e, f)
    BY <2>2, HookImplements, UnhookImplements DEF Abstract!Next
  <2>3. CASE \E m \in Module : UnhookModuleFunctions(m)
    BY <2>3, UnhookModuleFunctionsImplements DEF Abstract!Next
  <2>4. CASE UnhookAllFunctions
    BY <2>4, UnhookAllFunctionsImplements DEF Abstract!Next
  <2>5. CASE \E e \in Event : Trigger(e)
    BY <2>5, TriggerImplements DEF Abstract!Next
  <2>6. CASE SkipSlot
    BY <2>6, SkipSlotStutters
  <2>7. CASE CallSlot
    BY <2>7, CallSlotImplements DEF Abstract!Next
  <2>8. CASE EndLoop
    BY <2>8, EndLoopImplements DEF Abstract!Next
  <2>9. CASE \E success \in BOOLEAN, code \in {"continue", "handled"} : Return(success, code)
    <3>1. PICK success \in BOOLEAN, code \in {"continue", "handled"} : Return(success, code)
      BY <2>9
    <3>2. Abstract!Return(success, code = "handled") /\ (code = "handled") \in BOOLEAN
      BY <3>1, ReturnImplements
    <3> QED BY <3>2 DEF Abstract!Next
  <2>10. CASE UNCHANGED vars
    <3>1. UNCHANGED <<stopMode, hooks, stack, result>>
      BY <2>10 DEF vars
    <3> QED BY <3>1 DEF Abstract!vars, Hooked
  <2> QED BY <2>1, <2>2, <2>3, <2>4, <2>5, <2>6, <2>7, <2>8, <2>9, <2>10
          DEF Next, Script, CallEvent
<1>2. Inv /\ [Next]_vars => Inv'
  BY InvStep
<1> QED BY <1>1, <1>2, InitImplements, InvHolds, PTL DEF Spec, Implements, Abstract!Spec
=============================================================================
