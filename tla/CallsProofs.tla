----------------------------- MODULE CallsProofs ----------------------------
(***************************************************************************)
(* Proofs about Calls: for any signatures, argument lists, contexts and    *)
(* calls nested to any depth, references are balanced, functions get what  *)
(* was passed and callers what was returned, what FindFunction finds can   *)
(* be called, and no memory is misread unless the host made a slip.        *)
(***************************************************************************)
EXTENDS Calls, FiniteSetTheorems, NaturalsInduction, TLAPS

-----------------------------------------------------------------------------
(* Types.                                                                  *)

Datum == Int \cup Object \cup {Null, Garbage}

(* What an object type says of the object.                                 *)
Fits(t, class) ==
  CASE t = "object" -> class = "object" [] t = "value" -> class = "value"
    [] OTHER -> class \in {"function", "delegate"}

(* The numbers that a type can have.                                       *)
InRange(t, x) == x \in Int /\ (Member(t) \in IntMembers => x \in 0..(Span[Member(t)] - 1))

(* Arguments in lists and calls: the kind and the member that is written   *)
(* are those of the type.                                                  *)
Args ==
  {a \in [type : TypeIds, kind : {"PRIMITIVE", "ENUM", "VALUE", "REF"},
          val : [member : IntMembers \cup {"flValue", "dValue", "pValue"}, data : Datum]] :
     /\ a.kind = ArgumentTypeFromTypeId(a.type)
     /\ a.val.member = Member(a.type)
     /\ IF a.type \in Scalars THEN InRange(a.type, a.val.data)
        ELSE a.val.data # Null =>
               a.val.data \in Object /\ Fits(Pointee(a.type), Class[a.val.data])}

Slots == [data : Datum, own : Object \cup {Null}, from : List \cup {Null}]

Contexts ==
  [state : {"none", "idle", "prepared", "active", "finished", "exception", "suspended"},
   slots : Seq(Slots), ret : Datum, own : Object \cup {Null}, fn : Functions \cup {Null}]

Frames ==
  [ctx : Context, fn : Functions, args : Seq(Args), src : List \cup {Null},
   temp : BOOLEAN, found : BOOLEAN, i : Nat, pc : {"args", "running", "done", "failed"}]

Types ==
  /\ refs \in [Object -> Int] /\ held \subseteq Object
  /\ list \in [List -> Seq(Args)]
  /\ ctx \in [Context -> Contexts]
  /\ stack \in Seq(Frames)

-----------------------------------------------------------------------------
(* What holds between steps.                                               *)

(* Calls that run have contexts of their own; the innermost call may not   *)
(* run yet, or no longer.                                                  *)
Stacked ==
  /\ \A k \in DOMAIN stack :
       LET f == stack[k]  c == ctx[stack[k].ctx] IN
       /\ k # 1 => f.pc = "running"
       /\ f.pc = "running" =>
            /\ c.state = "active"
            /\ \A l \in DOMAIN stack : l # k /\ stack[l].pc = "running" => stack[l].ctx # f.ctx
       /\ f.pc = "args" => c.state = "prepared"
       /\ f.pc = "done" \/ (f.pc = "failed" /\ f.temp) => c.state # "active"
  /\ \A c \in Context : ctx[c].state = "active" =>
       \E k \in DOMAIN stack : stack[k].pc = "running" /\ stack[k].ctx = c

(* What a call in progress has done with its arguments.                    *)
Passes(f, slots, cause) ==
  /\ Len(f.args) = Len(Params[f.fn]) /\ Len(slots) = Len(f.args)
  /\ f.i <= Len(slots) /\ (f.pc = "running" => f.i = Len(slots))
  /\ \A k \in 1..f.i : Gets(Params[f.fn][k], f.args[k], slots[k], cause)
  /\ \A k \in (f.i + 1)..Len(slots) : slots[k] = Unset

(* The addresses it has are of the list that it was passed.                *)
Follows(f, slots, lists, cause) ==
  \A k \in DOMAIN slots : slots[k].from # Null =>
    slots[k].from = f.src /\ (cause = "none" => f.args = lists[f.src])

(* The objects that it got by reference are those of its arguments, which  *)
(* a careful caller keeps.                                                 *)
Lends(f, slots, handles, cause) ==
  \A k \in DOMAIN slots :
    LET p == Params[f.fn][k] IN
    IsObject(p.type) /\ p.byRef /\ slots[k].data \in Object =>
      /\ slots[k] = Lend(Holds(f.args[k]), f.src)
      /\ f.src = Null /\ cause = "none" => slots[k].data \in handles

InOrder(f, slots, lists, handles, cause) ==
  /\ Passes(f, slots, cause) /\ Follows(f, slots, lists, cause)
  /\ Lends(f, slots, handles, cause)

(* While arguments are set, their objects are where they came from.        *)
Sourced(f, lists, handles, cause) ==
  /\ IF f.src # Null THEN f.args = lists[f.src]
     ELSE \A k \in DOMAIN f.args : Holds(f.args[k]) \in handles \cup {Null}
  /\ cause = "none" =>
       /\ \A k \in DOMAIN f.args : ~IsHandle(f.args[k].type)
       /\ f.src = Null =>
            \A k \in DOMAIN Params[f.fn] : ~(IsEnum(Params[f.fn][k].type) /\ Params[f.fn][k].byRef)

(* Why a call of a function that FindFunction found fails.                 *)
Excused(f, c) ==
  \/ c.state \in {"active", "suspended"}
  \/ \E i \in DOMAIN f.args :
       LET t == f.args[i].type IN IsEnum(t) \/ t = "int32" \/ t = "function"

Passing ==
  \A k \in DOMAIN stack :
    LET f == stack[k]  c == ctx[stack[k].ctx] IN
    /\ f.pc \in {"args", "running"} => InOrder(f, c.slots, list, held, slip)
    /\ f.pc = "args" => Sourced(f, list, held, slip) /\ (f.found => Matches(f.fn, f.args))
    /\ f.found /\ f.pc = "failed" => Excused(f, c)

(* A context that is not in use has nothing, and one that a call is        *)
(* prepared or runs in has returned nothing yet.                           *)
Empty(c) ==
  /\ c.state = "none" => c = NoContext
  /\ c.state \in {"idle", "prepared", "active"} => c.own = Null

(* The value that a context keeps when its call has finished.              *)
Kept(c) ==
  LET t == Returns[c.fn] IN
  /\ c.fn \in Functions
  /\ t \in Scalars => InRange(t, c.ret)
  /\ t = "void" => c.ret = Null
  /\ t \in {"value", "object@"} => c.ret \in Object \cup {Null} /\ c.own = c.ret

Returning ==
  /\ \A c \in Context : Empty(ctx[c]) /\ (ctx[c].state = "finished" => Kept(ctx[c]))
  /\ Holds(got) \in Object \cup {Null}
  /\ got.type = want.type
  /\ got.kind # "VALUE" => got.val.data = want.val.data

(* The first slip stays the only kind.                                     *)
Slid == slip' = slip \/ (slip = "none" /\ slip' # "none")

IInv ==
  /\ Types /\ Stacked /\ Passing /\ Returning
  /\ RefsBalanced /\ FaultHasCause

-----------------------------------------------------------------------------
(* Counting.                                                               *)

One(x, y) == IF x = y THEN 1 ELSE 0

(* Occurrences in a sequence are finitely many.                            *)
LEMMA TimesType ==
  ASSUME NEW s, IsFiniteSet(DOMAIN s), NEW o
  PROVE  /\ IsFiniteSet({k \in DOMAIN s : s[k] = o})
         /\ Times(s, o) \in Nat
         /\ Times(s, o) > 0 <=> \E k \in DOMAIN s : s[k] = o
<1> DEFINE S == {k \in DOMAIN s : s[k] = o}
<1>1. IsFiniteSet(S)
  <2>1. S \in SUBSET DOMAIN s
    OBVIOUS
  <2> HIDE DEF S
  <2> QED BY <2>1, FS_Subset
<1>2. Cardinality(S) \in Nat
  BY <1>1, FS_CardinalityType
<1>3. Cardinality(S) = 0 <=> S = {}
  BY <1>1, FS_EmptySet
<1>4. S # {} <=> \E k \in DOMAIN s : s[k] = o
  OBVIOUS
<1> HIDE DEF S
<1>5. Cardinality(S) > 0 <=> S # {}
  BY <1>2, <1>3
<1> QED BY <1>1, <1>2, <1>4, <1>5 DEF Times, S

LEMMA TimesCounts ==
  ASSUME NEW s, IsFiniteSet(DOMAIN s), NEW o
  PROVE  /\ Times(s, o) \in Nat
         /\ Times(s, o) > 0 <=> \E k \in DOMAIN s : s[k] = o
BY TimesType

LEMMA TimesNothing == \A o : Times(<<>>, o) = 0
<1>1. \A o : {k \in DOMAIN <<>> : <<>>[k] = o} = {}
  OBVIOUS
<1> QED BY <1>1, FS_EmptySet DEF Times

LEMMA TimesSingle == \A x, o : Times(<<x>>, o) = One(x, o)
<1> SUFFICES ASSUME NEW x, NEW o PROVE Times(<<x>>, o) = One(x, o)
  OBVIOUS
<1>1. {k \in DOMAIN <<x>> : <<x>>[k] = o} = IF x = o THEN {1} ELSE {}
  OBVIOUS
<1> QED BY <1>1, FS_EmptySet, FS_Singleton DEF Times, One

(* One element changes.                                                    *)
LEMMA TimesChange ==
  ASSUME NEW s, IsFiniteSet(DOMAIN s), NEW i \in DOMAIN s, NEW t, DOMAIN t = DOMAIN s,
         \A k \in DOMAIN s : k # i => t[k] = s[k], NEW o
  PROVE  Times(t, o) = Times(s, o) - One(s[i], o) + One(t[i], o)
<1> DEFINE S == {k \in DOMAIN s : s[k] = o}
           T == {k \in DOMAIN t : t[k] = o}
<1>1. IsFiniteSet(S) /\ Cardinality(S) \in Nat
  BY TimesType DEF Times
<1>2. IsFiniteSet(S \cup {i}) /\ Cardinality(S \cup {i}) =
        IF i \in S THEN Cardinality(S) ELSE Cardinality(S) + 1
  BY <1>1, FS_AddElement
<1>3. IsFiniteSet(S \ {i}) /\ Cardinality(S \ {i}) =
        IF i \in S THEN Cardinality(S) - 1 ELSE Cardinality(S)
  BY <1>1, FS_RemoveElement
<1>4. i \in S <=> s[i] = o
  OBVIOUS
<1>5. T = IF t[i] = o THEN S \cup {i} ELSE S \ {i}
  OBVIOUS
<1> HIDE DEF S, T
<1>6. Cardinality(T) = Cardinality(S) - One(s[i], o) + One(t[i], o)
  BY <1>1, <1>2, <1>3, <1>4, <1>5 DEF One
<1> QED BY <1>6 DEF Times, S, T

(* One more element.                                                       *)
LEMMA TimesAppend ==
  ASSUME NEW S, NEW s \in Seq(S), NEW x, NEW o
  PROVE  Times(Append(s, x), o) = Times(s, o) + One(x, o)
<1> DEFINE t == Append(s, x)
           n == Len(s) + 1
           A == {k \in DOMAIN s : s[k] = o}
           B == {k \in DOMAIN t : t[k] = o}
<1>1. DOMAIN s = 1..Len(s) /\ DOMAIN t = 1..n /\ n \notin DOMAIN s /\ t[n] = x
      /\ \A k \in DOMAIN s : t[k] = s[k] /\ k \in DOMAIN t
  OBVIOUS
<1>2. IsFiniteSet(DOMAIN s)
  BY <1>1, FS_Interval
<1>3. IsFiniteSet(A) /\ Cardinality(A) \in Nat
  BY <1>2, TimesType DEF Times
<1>4. Cardinality(A \cup {n}) = IF n \in A THEN Cardinality(A) ELSE Cardinality(A) + 1
  BY <1>3, FS_AddElement
<1>5. n \notin A
  BY <1>1
<1>6. B = IF x = o THEN A \cup {n} ELSE A
  <2>1. DOMAIN t = DOMAIN s \cup {n}
    BY <1>1
  <2> HIDE DEF t, n
  <2> QED BY <2>1, <1>1
<1> HIDE DEF A, B
<1>7. Cardinality(B) = Cardinality(A) + One(x, o)
  BY <1>3, <1>4, <1>5, <1>6 DEF One
<1> QED BY <1>7 DEF Times, A, B

(* One sequence of a family changes.                                       *)
LEMMA PlacesChange ==
  ASSUME NEW F, IsFiniteSet(DOMAIN F), \A j \in DOMAIN F : IsFiniteSet(DOMAIN F[j]),
         NEW i \in DOMAIN F, NEW G, DOMAIN G = DOMAIN F, IsFiniteSet(DOMAIN G[i]),
         \A j \in DOMAIN F : j # i => G[j] = F[j], NEW o
  PROVE  /\ Cardinality(Places(F, o)) \in Nat
         /\ Times(F[i], o) \in Nat /\ Times(G[i], o) \in Nat
         /\ Times(F[i], o) <= Cardinality(Places(F, o))
         /\ Cardinality(Places(G, o)) =
              Cardinality(Places(F, o)) - Times(F[i], o) + Times(G[i], o)
<1> DEFINE In(s) == {k \in DOMAIN s : s[k] = o}
           R == UNION {{j} \X In(F[j]) : j \in DOMAIN F \ {i}}
<1>1. ASSUME NEW j \in DOMAIN F
      PROVE  IsFiniteSet(In(F[j])) /\ IsFiniteSet({j} \X In(F[j]))
  <2>1. IsFiniteSet(In(F[j]))
    <3> DEFINE s == F[j]
    <3>1. IsFiniteSet(DOMAIN s)
      OBVIOUS
    <3> HIDE DEF s
    <3>2. IsFiniteSet({k \in DOMAIN s : s[k] = o})
      BY <3>1, TimesType
    <3> QED BY <3>2 DEF s
  <2>2. IsFiniteSet({j})
    BY FS_Singleton
  <2> HIDE DEF In
  <2> QED BY <2>1, <2>2, FS_Product
<1>2. IsFiniteSet(R)
  <2> DEFINE D == DOMAIN F \ {i}
             Part(j) == {j} \X In(F[j])
             P == {Part(j) : j \in D}
  <2>1. IsFiniteSet(D)
    BY FS_Difference
  <2>2. IsFiniteSet(P)
    <3> DEFINE f == [j \in D |-> Part(j)]
    <3>1. f \in Surjection(D, P)
      <4> HIDE DEF D, Part
      <4> QED BY DEF Surjection
    <3> HIDE DEF D, P, f
    <3> QED BY <2>1, <3>1, FS_Surjection
  <2>3. \A T \in P : IsFiniteSet(T)
    BY <1>1
  <2> QED BY <2>2, <2>3, FS_UNION
<1>3. ASSUME NEW s, IsFiniteSet(DOMAIN s)
      PROVE  /\ IsFiniteSet(R \cup ({i} \X In(s))) /\ Times(s, o) \in Nat
             /\ Cardinality(R \cup ({i} \X In(s))) = Cardinality(R) + Times(s, o)
  <2>1. IsFiniteSet(In(s)) /\ Cardinality(In(s)) \in Nat /\ Cardinality(In(s)) = Times(s, o)
    BY <1>3, TimesType DEF Times
  <2>2. IsFiniteSet({i}) /\ Cardinality({i}) = 1
    BY FS_Singleton
  <2> DEFINE A == In(s)
             X == {i} \X A
  <2>3. R \cap X = {}
    OBVIOUS
  <2> HIDE DEF R, A
  <2>4. IsFiniteSet(X) /\ Cardinality(X) = Cardinality(A)
    <3>1. IsFiniteSet(X) /\ Cardinality(X) = Cardinality({i}) * Cardinality(A)
      BY <2>1, <2>2, FS_Product DEF A
    <3>2. \A n \in Nat : 1 * n = n
      OBVIOUS
    <3> HIDE DEF X
    <3> QED BY <2>1, <2>2, <3>1, <3>2 DEF A
  <2> HIDE DEF X
  <2>5. Cardinality(R \cap X) = 0
    BY <2>3, FS_EmptySet
  <2>6. Cardinality(R) \in Nat
    BY <1>2, FS_CardinalityType
  <2>7. IsFiniteSet(R \cup X)
        /\ Cardinality(R \cup X) = Cardinality(R) + Cardinality(X) - Cardinality(R \cap X)
    BY <1>2, <2>4, FS_Union
  <2>8. Cardinality(X) = Times(s, o)
    BY <2>1, <2>4 DEF A
  <2>9. Times(s, o) \in Nat
    BY <1>3, TimesType
  <2>10. Cardinality(R \cup X) = Cardinality(R) + Times(s, o)
    BY <2>5, <2>6, <2>7, <2>8, <2>9
  <2> QED BY <2>7, <2>9, <2>10 DEF X, A
<1>4. Places(F, o) = R \cup ({i} \X In(F[i])) /\ Places(G, o) = R \cup ({i} \X In(G[i]))
  BY DEF Places
<1>5. Cardinality(R) \in Nat
  BY <1>2, FS_CardinalityType
<1> HIDE DEF R, In
<1>6. /\ Cardinality(Places(F, o)) = Cardinality(R) + Times(F[i], o) /\ Times(F[i], o) \in Nat
      /\ Cardinality(Places(G, o)) = Cardinality(R) + Times(G[i], o) /\ Times(G[i], o) \in Nat
  BY <1>3, <1>4
<1> QED BY <1>5, <1>6

LEMMA PlacesType ==
  ASSUME NEW F, IsFiniteSet(DOMAIN F), \A j \in DOMAIN F : IsFiniteSet(DOMAIN F[j]), NEW o
  PROVE  /\ Cardinality(Places(F, o)) \in Nat
         /\ \A i \in DOMAIN F :
              Times(F[i], o) \in Nat /\ Times(F[i], o) <= Cardinality(Places(F, o))
<1>1. CASE DOMAIN F = {}
  <2>1. Places(F, o) = {}
    BY <1>1 DEF Places
  <2> QED BY <1>1, <2>1, FS_EmptySet
<1>2. ASSUME NEW i \in DOMAIN F
      PROVE  /\ Cardinality(Places(F, o)) \in Nat
             /\ Times(F[i], o) \in Nat /\ Times(F[i], o) <= Cardinality(Places(F, o))
  BY PlacesChange
<1> QED BY <1>1, <1>2

-----------------------------------------------------------------------------
(* References.                                                             *)

(* What a context has references to: Keeps.                                *)
KeepsOf(r) == Append(Owned(r.slots), r.own)

LEMMA KeepsCounted ==
  ASSUME NEW r \in Contexts, NEW o
  PROVE  /\ IsFiniteSet(DOMAIN KeepsOf(r)) /\ IsFiniteSet(DOMAIN Owned(r.slots))
         /\ Times(KeepsOf(r), o) = Times(Owned(r.slots), o) + One(r.own, o)
         /\ Times(Owned(r.slots), o) \in Nat /\ One(r.own, o) \in 0..1
         /\ One(r.own, o) = 1 <=> r.own = o
         /\ Times(Owned(r.slots), o) > 0 <=> \E k \in DOMAIN r.slots : r.slots[k].own = o
<1> DEFINE s == Owned(r.slots)
<1>1. s \in Seq(Object \cup {Null}) /\ DOMAIN s = DOMAIN r.slots
      /\ \A k \in DOMAIN s : s[k] = r.slots[k].own
  <2> DEFINE t == r.slots
  <2>1. t \in Seq(Slots)
    BY DEF Contexts
  <2>2. s = [k \in DOMAIN t |-> t[k].own]
    BY DEF Owned
  <2> HIDE DEF s, t
  <2>6. DOMAIN t = 1..Len(t) /\ Len(t) \in Nat /\ \A k \in 1..Len(t) : t[k] \in Slots
    BY <2>1
  <2>7. \A slot \in Slots : slot.own \in Object \cup {Null}
    BY DEF Slots
  <2>3. DOMAIN t = 1..Len(t) /\ Len(t) \in Nat /\ \A k \in DOMAIN t : t[k].own \in Object \cup {Null}
    BY <2>6, <2>7
  <2>4. s \in [1..Len(t) -> Object \cup {Null}]
    BY <2>2, <2>3
  <2>5. s \in Seq(Object \cup {Null})
    BY <2>3, <2>4
  <2> QED BY <2>2, <2>5 DEF t
<1> HIDE DEF s
<1>2. DOMAIN s = 1..Len(s) /\ DOMAIN Append(s, r.own) = 1..(Len(s) + 1) /\ Len(s) \in Nat
  BY <1>1
<1>3. IsFiniteSet(DOMAIN s) /\ IsFiniteSet(DOMAIN Append(s, r.own))
  BY <1>2, FS_Interval
<1>4. Times(Append(s, r.own), o) = Times(s, o) + One(r.own, o)
  BY <1>1, TimesAppend
<1>5. Times(s, o) \in Nat /\ (Times(s, o) > 0 <=> \E k \in DOMAIN s : s[k] = o)
  BY <1>3, TimesCounts
<1> QED BY <1>1, <1>3, <1>4, <1>5 DEF KeepsOf, s, One

LEMMA HeldCounted ==
  ASSUME NEW args \in Seq(Args), NEW o
  PROVE  /\ IsFiniteSet(DOMAIN Held(args)) /\ DOMAIN Held(args) = DOMAIN args
         /\ Times(Held(args), o) \in Nat
         /\ Times(Held(args), o) > 0 <=> \E k \in DOMAIN args : Holds(args[k]) = o
<1>1. DOMAIN Held(args) = DOMAIN args /\ \A k \in DOMAIN args : Held(args)[k] = Holds(args[k])
  BY DEF Held
<1>2. DOMAIN args = 1..Len(args) /\ Len(args) \in Nat
  OBVIOUS
<1>3. IsFiniteSet(DOMAIN Held(args))
  BY <1>1, <1>2, FS_Interval
<1> DEFINE t == Held(args)
<1>4. IsFiniteSet(DOMAIN t)
  BY <1>3
<1> HIDE DEF t
<1>5. Times(t, o) \in Nat /\ (Times(t, o) > 0 <=> \E k \in DOMAIN t : t[k] = o)
  BY <1>4, TimesCounts
<1> QED BY <1>1, <1>4, <1>5 DEF t

(* The references of lists and of contexts.                                *)
InLists == [l \in List |-> Held(list[l])]

InContexts == [c \in Context |-> KeepsOf(ctx[c])]

Balanced(o) ==
  refs[o] = One(o \in held, TRUE) + One(Holds(got), o)
              + Cardinality(Places(InLists, o)) + Cardinality(Places(InContexts, o))

LEMMA BalancedDef == RefsBalanced <=> \A o \in Object : Balanced(o)
<1>1. InContexts = [c \in Context |-> Keeps(c)]
  BY DEF InContexts, Keeps, KeepsOf
<1>2. \A o : One(o \in held, TRUE) = IF o \in held THEN 1 ELSE 0
  BY DEF One
<1> QED BY <1>1, <1>2 DEF RefsBalanced, Balanced, InLists, One

LEMMA BalancedNext ==
  /\ (\A o \in Object : Balanced(o)') => RefsBalanced'
  /\ \A o : Balanced(o)' <=>
       refs'[o] = One(o \in held', TRUE) + One(Holds(got'), o)
                    + Cardinality(Places(InLists', o)) + Cardinality(Places(InContexts', o))
<1>1. InContexts' = [c \in Context |-> Keeps(c)']
  BY DEF InContexts, Keeps, KeepsOf
<1>2. \A o : One(o \in held', TRUE) = IF o \in held' THEN 1 ELSE 0
  BY DEF One
<1>3. \A o : Balanced(o)' <=>
        refs'[o] = One(o \in held', TRUE) + One(Holds(got'), o)
                     + Cardinality(Places(InLists', o)) + Cardinality(Places(InContexts', o))
  BY DEF Balanced
<1> QED BY <1>1, <1>2, <1>3 DEF RefsBalanced, InLists, One

(* An argument list is replaced.                                           *)
LEMMA ListPlaces ==
  ASSUME Types, NEW l \in List, NEW args \in Seq(Args), list' = [list EXCEPT ![l] = args], NEW o
  PROVE  /\ Cardinality(Places(InLists, o)) \in Nat
         /\ Times(Held(list[l]), o) \in Nat /\ Times(Held(args), o) \in Nat
         /\ Times(Held(list[l]), o) <= Cardinality(Places(InLists, o))
         /\ Cardinality(Places(InLists', o)) =
              Cardinality(Places(InLists, o)) - Times(Held(list[l]), o) + Times(Held(args), o)
<1> DEFINE F == InLists
           G == InLists'
<1>1. DOMAIN F = List /\ DOMAIN G = List /\ F[l] = Held(list[l])
  BY DEF InLists
<1>2. G[l] = Held(args) /\ \A j \in List : j # l => G[j] = F[j]
  BY DEF InLists, Types
<1>3. \A j \in List : IsFiniteSet(DOMAIN F[j])
  <2> SUFFICES ASSUME NEW j \in List PROVE IsFiniteSet(DOMAIN F[j])
    OBVIOUS
  <2>1. list[j] \in Seq(Args) /\ F[j] = Held(list[j])
    BY DEF InLists, Types
  <2> HIDE DEF F
  <2> QED BY <2>1, HeldCounted
<1>4. IsFiniteSet(DOMAIN G[l])
  BY <1>2, HeldCounted
<1> HIDE DEF F, G
<1>5. IsFiniteSet(DOMAIN F)
  BY <1>1, CellsAssumption
<1>6. /\ Cardinality(Places(F, o)) \in Nat
      /\ Times(F[l], o) \in Nat /\ Times(G[l], o) \in Nat
      /\ Times(F[l], o) <= Cardinality(Places(F, o))
      /\ Cardinality(Places(G, o)) = Cardinality(Places(F, o)) - Times(F[l], o) + Times(G[l], o)
  BY <1>1, <1>2, <1>3, <1>4, <1>5, PlacesChange
<1> QED BY <1>1, <1>2, <1>6 DEF F, G

(* A context changes.                                                      *)
LEMMA ContextPlaces ==
  ASSUME Types, NEW c \in Context, NEW r \in Contexts, ctx' = [ctx EXCEPT ![c] = r], NEW o
  PROVE  /\ Cardinality(Places(InContexts, o)) \in Nat
         /\ Times(KeepsOf(ctx[c]), o) \in Nat /\ Times(KeepsOf(r), o) \in Nat
         /\ Times(KeepsOf(ctx[c]), o) <= Cardinality(Places(InContexts, o))
         /\ Cardinality(Places(InContexts', o)) =
              Cardinality(Places(InContexts, o)) - Times(KeepsOf(ctx[c]), o) + Times(KeepsOf(r), o)
<1> DEFINE F == InContexts
           G == InContexts'
<1>1. DOMAIN F = Context /\ DOMAIN G = Context /\ F[c] = KeepsOf(ctx[c])
  BY DEF InContexts
<1>2. G[c] = KeepsOf(r) /\ \A j \in Context : j # c => G[j] = F[j]
  BY DEF InContexts, Types
<1>3. \A j \in Context : IsFiniteSet(DOMAIN F[j])
  <2> SUFFICES ASSUME NEW j \in Context PROVE IsFiniteSet(DOMAIN F[j])
    OBVIOUS
  <2>1. ctx[j] \in Contexts /\ F[j] = KeepsOf(ctx[j])
    BY DEF InContexts, Types
  <2> HIDE DEF F
  <2> QED BY <2>1, KeepsCounted
<1>4. IsFiniteSet(DOMAIN G[c])
  BY <1>2, KeepsCounted
<1> HIDE DEF F, G
<1>5. IsFiniteSet(DOMAIN F)
  BY <1>1, CellsAssumption
<1>6. /\ Cardinality(Places(F, o)) \in Nat
      /\ Times(F[c], o) \in Nat /\ Times(G[c], o) \in Nat
      /\ Times(F[c], o) <= Cardinality(Places(F, o))
      /\ Cardinality(Places(G, o)) = Cardinality(Places(F, o)) - Times(F[c], o) + Times(G[c], o)
  BY <1>1, <1>2, <1>3, <1>4, <1>5, PlacesChange
<1> QED BY <1>1, <1>2, <1>6 DEF F, G

(* Whoever refers to an object has a reference to it.                      *)
LEMMA Alive ==
  ASSUME Types, RefsBalanced, NEW o \in Object
  PROVE  /\ refs[o] \in Nat /\ Balanced(o)
         /\ Cardinality(Places(InLists, o)) \in Nat /\ Cardinality(Places(InContexts, o)) \in Nat
         /\ o \in held => refs[o] > 0
         /\ Holds(got) = o => refs[o] > 0
         /\ \A l \in List :
              /\ Times(Held(list[l]), o) \in Nat /\ Times(Held(list[l]), o) <= refs[o]
              /\ \A k \in DOMAIN list[l] : Holds(list[l][k]) = o => refs[o] > 0
         /\ \A c \in Context :
              /\ Times(KeepsOf(ctx[c]), o) \in Nat /\ Times(KeepsOf(ctx[c]), o) <= refs[o]
              /\ ctx[c].own = o => refs[o] > 0
              /\ \A k \in DOMAIN ctx[c].slots : ctx[c].slots[k].own = o => refs[o] > 0
<1>1. Balanced(o)
  BY BalancedDef
<1>2. /\ Cardinality(Places(InLists, o)) \in Nat
      /\ \A l \in List : /\ Times(Held(list[l]), o) \in Nat
                         /\ Times(Held(list[l]), o) <= Cardinality(Places(InLists, o))
  <2> DEFINE F == InLists
  <2>1. DOMAIN F = List /\ \A l \in List : F[l] = Held(list[l])
    BY DEF InLists
  <2>2. \A l \in List : IsFiniteSet(DOMAIN F[l])
    <3> SUFFICES ASSUME NEW l \in List PROVE IsFiniteSet(DOMAIN F[l])
      OBVIOUS
    <3>1. list[l] \in Seq(Args) /\ F[l] = Held(list[l])
      BY <2>1 DEF Types
    <3> HIDE DEF F
    <3> QED BY <3>1, HeldCounted
  <2> HIDE DEF F
  <2>3. Cardinality(Places(F, o)) \in Nat
        /\ \A l \in List : Times(F[l], o) \in Nat /\ Times(F[l], o) <= Cardinality(Places(F, o))
    BY <2>1, <2>2, PlacesType, CellsAssumption
  <2> QED BY <2>1, <2>3 DEF F
<1>3. /\ Cardinality(Places(InContexts, o)) \in Nat
      /\ \A c \in Context : /\ Times(KeepsOf(ctx[c]), o) \in Nat
                            /\ Times(KeepsOf(ctx[c]), o) <= Cardinality(Places(InContexts, o))
  <2> DEFINE F == InContexts
  <2>1. DOMAIN F = Context /\ \A c \in Context : F[c] = KeepsOf(ctx[c])
    BY DEF InContexts
  <2>2. \A c \in Context : IsFiniteSet(DOMAIN F[c])
    <3> SUFFICES ASSUME NEW c \in Context PROVE IsFiniteSet(DOMAIN F[c])
      OBVIOUS
    <3>1. ctx[c] \in Contexts /\ F[c] = KeepsOf(ctx[c])
      BY <2>1 DEF Types
    <3> HIDE DEF F
    <3> QED BY <3>1, KeepsCounted
  <2> HIDE DEF F
  <2>3. Cardinality(Places(F, o)) \in Nat
        /\ \A c \in Context : Times(F[c], o) \in Nat /\ Times(F[c], o) <= Cardinality(Places(F, o))
    BY <2>1, <2>2, PlacesType, CellsAssumption
  <2> QED BY <2>1, <2>3 DEF F
<1>4. /\ One(o \in held, TRUE) \in Nat /\ One(Holds(got), o) \in Nat
      /\ o \in held => One(o \in held, TRUE) = 1
      /\ Holds(got) = o => One(Holds(got), o) = 1
  BY DEF One
<1>5. refs[o] \in Nat /\ refs[o] >= Cardinality(Places(InLists, o))
      /\ refs[o] >= Cardinality(Places(InContexts, o))
      /\ (o \in held => refs[o] > 0) /\ (Holds(got) = o => refs[o] > 0)
  <2>1. refs[o] = One(o \in held, TRUE) + One(Holds(got), o)
          + Cardinality(Places(InLists, o)) + Cardinality(Places(InContexts, o))
    BY <1>1 DEF Balanced
  <2> DEFINE h == One(o \in held, TRUE)
             g == One(Holds(got), o)
             x == Cardinality(Places(InLists, o))
             y == Cardinality(Places(InContexts, o))
  <2>2. refs[o] = h + g + x + y /\ h \in Nat /\ g \in Nat /\ x \in Nat /\ y \in Nat
    BY <1>2, <1>3, <1>4, <2>1
  <2>3. (o \in held => h = 1) /\ (Holds(got) = o => g = 1)
    BY <1>4
  <2> HIDE DEF h, g, x, y
  <2>4. refs[o] \in Nat /\ refs[o] >= x /\ refs[o] >= y
        /\ (o \in held => refs[o] > 0) /\ (Holds(got) = o => refs[o] > 0)
    BY <2>2, <2>3
  <2> QED BY <2>4 DEF x, y
<1>6. ASSUME NEW l \in List
      PROVE  /\ Times(Held(list[l]), o) \in Nat /\ Times(Held(list[l]), o) <= refs[o]
             /\ \A k \in DOMAIN list[l] : Holds(list[l][k]) = o => refs[o] > 0
  <2>1. Times(Held(list[l]), o) \in Nat /\ Times(Held(list[l]), o) <= refs[o]
    BY <1>2, <1>5
  <2>2. list[l] \in Seq(Args)
    BY DEF Types
  <2>3. (\E k \in DOMAIN list[l] : Holds(list[l][k]) = o) => Times(Held(list[l]), o) > 0
    BY <2>2, HeldCounted
  <2> QED BY <1>5, <2>1, <2>3
<1>7. ASSUME NEW c \in Context
      PROVE  /\ Times(KeepsOf(ctx[c]), o) \in Nat /\ Times(KeepsOf(ctx[c]), o) <= refs[o]
             /\ ctx[c].own = o => refs[o] > 0
             /\ \A k \in DOMAIN ctx[c].slots : ctx[c].slots[k].own = o => refs[o] > 0
  <2> DEFINE r == ctx[c]
  <2>1. Times(KeepsOf(r), o) \in Nat /\ Times(KeepsOf(r), o) <= refs[o]
    BY <1>3, <1>5
  <2>2. r \in Contexts
    BY DEF Types
  <2> HIDE DEF r
  <2>3. /\ Times(KeepsOf(r), o) = Times(Owned(r.slots), o) + One(r.own, o)
        /\ Times(Owned(r.slots), o) \in Nat /\ One(r.own, o) \in 0..1
        /\ One(r.own, o) = 1 <=> r.own = o
        /\ Times(Owned(r.slots), o) > 0 <=> \E k \in DOMAIN r.slots : r.slots[k].own = o
    BY <2>2, KeepsCounted
  <2>4. r.own = o => refs[o] > 0
    BY <1>5, <2>1, <2>3
  <2>5. ASSUME NEW k \in DOMAIN r.slots, r.slots[k].own = o PROVE refs[o] > 0
    <3>1. Times(Owned(r.slots), o) > 0
      BY <2>3, <2>5
    <3> QED BY <1>5, <2>1, <2>3, <3>1
  <2> QED BY <2>1, <2>4, <2>5 DEF r
<1> QED BY <1>1, <1>2, <1>3, <1>5, <1>6, <1>7

(* Counted adds and releases what it is told to.                           *)
LEMMA CountedChanges ==
  ASSUME Types, RefsBalanced, NEW added, NEW released, Counted(added, released),
         \A o \in Object :
           /\ Times(added, o) \in Nat /\ Times(released, o) \in Nat
           /\ Times(added, o) > 0 => refs[o] > 0 \/ Class[o] = "value"
           /\ Times(released, o) <= refs[o] + Times(added, o)
  PROVE  /\ fault' = fault /\ refs' \in [Object -> Int]
         /\ \A o \in Object : refs'[o] = refs[o] + Times(added, o) - Times(released, o)
<1>1. refs \in [Object -> Int]
  BY DEF Types
<1>2. refs' = [o \in Object |-> refs[o] + Times(added, o) - Times(released, o)] /\ fault' = fault
  <2>1. ASSUME NEW o \in Object
        PROVE  ~(Times(added, o) > 0 /\ refs[o] = 0 /\ Class[o] # "value")
               /\ ~(Times(released, o) > refs[o] + Times(added, o))
    BY <1>1, <2>1
  <2> QED BY <2>1 DEF Counted
<1> QED BY <1>1, <1>2

(* What one sum loses and gains, the whole does.                           *)
LEMMA SumChanges ==
  ASSUME NEW h \in Nat, NEW g \in Nat, NEW x \in Nat, NEW y \in Nat,
         NEW a \in Nat, NEW d \in Nat
  PROVE  /\ (h + g + x + y) + a - d = h + g + (x - d + a) + y
         /\ (h + g + x + y) + a - d = h + g + x + (y - d + a)
OBVIOUS

(* A step that changes one argument list.                                  *)
LEMMA ListBalances ==
  ASSUME Types, RefsBalanced, NEW l \in List, NEW args \in Seq(Args),
         list' = [list EXCEPT ![l] = args], Counted(Held(args), Held(list[l])),
         \A k \in DOMAIN args : Holds(args[k]) \in Object =>
           refs[Holds(args[k])] > 0 \/ Class[Holds(args[k])] = "value",
         ctx' = ctx, got' = got, held' = held
  PROVE  fault' = fault /\ refs' \in [Object -> Int] /\ RefsBalanced'
<1>1. ASSUME NEW o \in Object
      PROVE  /\ Times(Held(args), o) \in Nat /\ Times(Held(list[l]), o) \in Nat
             /\ Times(Held(args), o) > 0 => refs[o] > 0 \/ Class[o] = "value"
             /\ Times(Held(list[l]), o) <= refs[o] + Times(Held(args), o)
  <2>1. Times(Held(args), o) \in Nat
        /\ (Times(Held(args), o) > 0 <=> \E k \in DOMAIN args : Holds(args[k]) = o)
    BY HeldCounted
  <2>2. refs[o] \in Nat /\ Times(Held(list[l]), o) \in Nat /\ Times(Held(list[l]), o) <= refs[o]
    BY Alive
  <2> QED BY <2>1, <2>2
<1>2. /\ fault' = fault /\ refs' \in [Object -> Int]
      /\ \A o \in Object : refs'[o] = refs[o] + Times(Held(args), o) - Times(Held(list[l]), o)
  BY <1>1, CountedChanges
<1>3. ASSUME NEW o \in Object PROVE Balanced(o)'
  <2>1. InContexts' = InContexts
    BY DEF InContexts
  <2>2. /\ Balanced(o) /\ Cardinality(Places(InContexts, o)) \in Nat
        /\ One(o \in held, TRUE) \in Nat /\ One(Holds(got), o) \in Nat
    BY Alive DEF One
  <2>3. /\ Cardinality(Places(InLists, o)) \in Nat
        /\ Times(Held(list[l]), o) \in Nat /\ Times(Held(args), o) \in Nat
        /\ Cardinality(Places(InLists', o)) =
             Cardinality(Places(InLists, o)) - Times(Held(list[l]), o) + Times(Held(args), o)
    BY ListPlaces
  <2>4. refs'[o] = refs[o] + Times(Held(args), o) - Times(Held(list[l]), o)
    BY <1>2
  <2>5. refs[o] = One(o \in held, TRUE) + One(Holds(got), o)
          + Cardinality(Places(InLists, o)) + Cardinality(Places(InContexts, o))
    BY <2>2 DEF Balanced
  <2>6. Balanced(o)' <=>
          refs'[o] = One(o \in held, TRUE) + One(Holds(got), o)
            + Cardinality(Places(InLists', o)) + Cardinality(Places(InContexts', o))
    BY BalancedNext
  <2> DEFINE h == One(o \in held, TRUE)
             g == One(Holds(got), o)
             x == Cardinality(Places(InLists, o))
             y == Cardinality(Places(InContexts, o))
             a == Times(Held(args), o)
             d == Times(Held(list[l]), o)
  <2>7. h \in Nat /\ g \in Nat /\ x \in Nat /\ y \in Nat /\ a \in Nat /\ d \in Nat
    BY <2>2, <2>3
  <2> HIDE DEF h, g, x, y, a, d
  <2>8. (h + g + x + y) + a - d = h + g + (x - d + a) + y
    BY <2>7, SumChanges
  <2> USE DEF h, g, x, y, a, d
  <2> QED BY <2>1, <2>3, <2>4, <2>5, <2>6, <2>8
<1> QED BY <1>2, <1>3, BalancedNext

(* A step that changes one context, which gets references to some objects  *)
(* and lets go of others.                                                  *)
Exchanges(old, new, added, released) ==
  \A o \in Object :
    /\ Times(added, o) \in Nat /\ Times(released, o) \in Nat
    /\ Times(added, o) > 0 => refs[o] > 0 \/ Class[o] = "value"
    /\ Times(released, o) <= Times(KeepsOf(old), o)
    /\ Times(KeepsOf(new), o) = Times(KeepsOf(old), o) + Times(added, o) - Times(released, o)

LEMMA ContextMoves ==
  ASSUME Types, RefsBalanced, NEW c \in Context, NEW r \in Contexts,
         ctx' = [ctx EXCEPT ![c] = r],
         \A o \in Object : refs'[o] = refs[o] - Times(KeepsOf(ctx[c]), o) + Times(KeepsOf(r), o),
         list' = list, got' = got, held' = held
  PROVE  RefsBalanced'
<1>1. ASSUME NEW o \in Object PROVE Balanced(o)'
  <2>1. InLists' = InLists
    BY DEF InLists
  <2>2. /\ Balanced(o) /\ Cardinality(Places(InLists, o)) \in Nat
        /\ One(o \in held, TRUE) \in Nat /\ One(Holds(got), o) \in Nat
    BY Alive DEF One
  <2>3. /\ Cardinality(Places(InContexts, o)) \in Nat
        /\ Times(KeepsOf(ctx[c]), o) \in Nat /\ Times(KeepsOf(r), o) \in Nat
        /\ Cardinality(Places(InContexts', o)) =
             Cardinality(Places(InContexts, o)) - Times(KeepsOf(ctx[c]), o) + Times(KeepsOf(r), o)
    BY ContextPlaces
  <2>4. refs'[o] = refs[o] - Times(KeepsOf(ctx[c]), o) + Times(KeepsOf(r), o)
    OBVIOUS
  <2>5. refs[o] = One(o \in held, TRUE) + One(Holds(got), o)
          + Cardinality(Places(InLists, o)) + Cardinality(Places(InContexts, o))
    BY <2>2 DEF Balanced
  <2>6. Balanced(o)' <=>
          refs'[o] = One(o \in held, TRUE) + One(Holds(got), o)
            + Cardinality(Places(InLists', o)) + Cardinality(Places(InContexts', o))
    BY BalancedNext
  <2> DEFINE h == One(o \in held, TRUE)
             g == One(Holds(got), o)
             x == Cardinality(Places(InLists, o))
             y == Cardinality(Places(InContexts, o))
             a == Times(KeepsOf(r), o)
             d == Times(KeepsOf(ctx[c]), o)
  <2>7. h \in Nat /\ g \in Nat /\ x \in Nat /\ y \in Nat /\ a \in Nat /\ d \in Nat
    BY <2>2, <2>3
  <2> HIDE DEF h, g, x, y, a, d
  <2>8. (h + g + x + y) - d + a = h + g + x + (y - d + a)
    BY <2>7
  <2> USE DEF h, g, x, y, a, d
  <2> QED BY <2>1, <2>3, <2>4, <2>5, <2>6, <2>8
<1> QED BY <1>1, BalancedNext

LEMMA ContextBalances ==
  ASSUME Types, RefsBalanced, NEW c \in Context, NEW r \in Contexts,
         ctx' = [ctx EXCEPT ![c] = r], NEW added, NEW released, Counted(added, released),
         Exchanges(ctx[c], r, added, released),
         list' = list, got' = got, held' = held
  PROVE  fault' = fault /\ refs' \in [Object -> Int] /\ RefsBalanced'
<1>4. \A o \in Object :
        /\ Times(added, o) \in Nat /\ Times(released, o) \in Nat
        /\ Times(added, o) > 0 => refs[o] > 0 \/ Class[o] = "value"
        /\ Times(released, o) <= Times(KeepsOf(ctx[c]), o)
        /\ Times(KeepsOf(r), o) =
             Times(KeepsOf(ctx[c]), o) + Times(added, o) - Times(released, o)
  BY DEF Exchanges
<1>1. ASSUME NEW o \in Object PROVE Times(released, o) <= refs[o] + Times(added, o)
  <2>1. refs[o] \in Nat /\ Times(KeepsOf(ctx[c]), o) \in Nat /\ Times(KeepsOf(ctx[c]), o) <= refs[o]
    BY Alive
  <2> QED BY <1>4, <2>1
<1>2. /\ fault' = fault /\ refs' \in [Object -> Int]
      /\ \A o \in Object : refs'[o] = refs[o] + Times(added, o) - Times(released, o)
  BY <1>1, <1>4, CountedChanges
<1>3. ASSUME NEW o \in Object
      PROVE  refs'[o] = refs[o] - Times(KeepsOf(ctx[c]), o) + Times(KeepsOf(r), o)
  <2>1. refs'[o] = refs[o] + Times(added, o) - Times(released, o)
        /\ Times(KeepsOf(r), o) = Times(KeepsOf(ctx[c]), o) + Times(added, o) - Times(released, o)
        /\ Times(added, o) \in Nat /\ Times(released, o) \in Nat
    BY <1>2, <1>4
  <2>2. refs[o] \in Nat /\ Times(KeepsOf(ctx[c]), o) \in Nat
    BY Alive
  <2> QED BY <2>1, <2>2
<1> QED BY <1>2, <1>3, ContextMoves

-----------------------------------------------------------------------------
(* Types and arguments.                                                    *)

LEMMA TypeKinds ==
  ASSUME NEW t \in TypeIds
  PROVE  /\ ArgumentTypeFromTypeId(t) \in {"PRIMITIVE", "ENUM", "VALUE", "REF"}
         /\ Member(t) \in IntMembers \cup {"flValue", "dValue", "pValue"}
         /\ t \in Scalars <=> ~IsObject(t)
         /\ t \in Scalars <=> IsPrimitive(t) \/ IsEnum(t)
         /\ t \in Scalars => Pointee(t) = t /\ ~IsHandle(t)
         /\ IsObject(t) <=> ArgumentTypeFromTypeId(t) \in {"REF", "VALUE"}
         /\ IsObject(t) => Member(t) = "pValue" /\ Pointee(t) \in ObjectTypes
         /\ IsObject(t) /\ ~IsHandle(t) => Pointee(t) = t
         /\ ArgumentTypeFromTypeId(t) = "VALUE" <=> t = "value"
         /\ ArgumentTypeFromTypeId(t) = "ENUM" <=> IsEnum(t)
         /\ ArgumentTypeFromTypeId(t) = "PRIMITIVE" <=> IsPrimitive(t)
         /\ Pointee(Pointee(t)) = Pointee(t) /\ Pointee(t) \in TypeIds
         /\ ~IsHandle(Pointee(t)) /\ (IsObject(Pointee(t)) <=> IsObject(t))
BY DEF TypeIds, Scalars, ObjectTypes, HandleTypes, Integer, IsObject, IsHandle, IsPrimitive,
       IsEnum, IsFloat, Pointee, Member, ArgumentTypeFromTypeId, IntMembers

(* An argument refers to an object of its type, or to none.                *)
LEMMA ArgHolds ==
  ASSUME NEW a \in Args
  PROVE  /\ a.type \in TypeIds /\ a.kind = ArgumentTypeFromTypeId(a.type)
         /\ a.val.member = Member(a.type) /\ a.val.data \in Datum
         /\ Holds(a) \in Object \cup {Null}
         /\ IsObject(a.type) => Holds(a) = a.val.data
         /\ IsObject(a.type) /\ Holds(a) # Null => Fits(Pointee(a.type), Class[Holds(a)])
         /\ ~IsObject(a.type) => Holds(a) = Null /\ InRange(a.type, a.val.data)
<1>1. /\ a.type \in TypeIds /\ a.kind = ArgumentTypeFromTypeId(a.type)
      /\ a.val.member = Member(a.type) /\ a.val.data \in Datum
      /\ IF a.type \in Scalars THEN InRange(a.type, a.val.data)
         ELSE a.val.data # Null =>
                a.val.data \in Object /\ Fits(Pointee(a.type), Class[a.val.data])
  BY DEF Args
<1>2. /\ IsObject(a.type) <=> a.kind \in {"REF", "VALUE"}
      /\ a.type \in Scalars <=> ~IsObject(a.type)
  BY <1>1, TypeKinds
<1> QED BY <1>1, <1>2 DEF Holds

LEMMA ArgumentOfObject ==
  ASSUME NEW t \in TypeIds, IsObject(t), NEW x \in Object \cup {Null},
         x # Null => Fits(Pointee(t), Class[x])
  PROVE  Argument(t, Pointer(x)) \in Args /\ Holds(Argument(t, Pointer(x))) = x
<1>1. /\ ArgumentTypeFromTypeId(t) \in {"REF", "VALUE"} /\ Member(t) = "pValue"
      /\ t \notin Scalars
  BY TypeKinds
<1>2. Pointer(x) \in [member : IntMembers \cup {"flValue", "dValue", "pValue"}, data : Datum]
      /\ Pointer(x).member = "pValue" /\ Pointer(x).data = x
  BY DEF Pointer, Datum
<1> QED BY <1>1, <1>2 DEF Argument, Args, Holds

(* A number fits its member of the union.                                  *)
LEMMA NumberLoaded ==
  ASSUME NEW t \in Scalars, NEW x, InRange(t, x)
  PROVE  Loaded(t, x) = [member |-> Member(t), data |-> x]
<1>1. CASE Member(t) \in IntMembers
  <2>1. x \in 0..(Span[Member(t)] - 1) /\ Span[Member(t)] \in Nat \ {0}
    BY <1>1, SpanAssumption DEF InRange
  <2> DEFINE n == Span[Member(t)]
  <2>2. x % n = x
    <3> HIDE DEF n
    <3>1. x \in 0..(n - 1) /\ n \in Nat \ {0}
      BY <2>1 DEF n
    <3> QED BY <3>1
  <2> QED BY <1>1, <2>2 DEF Loaded, Written
<1>2. CASE Member(t) \notin IntMembers
  BY <1>2 DEF Loaded, Written
<1> QED BY <1>1, <1>2

LEMMA ArgumentOfNumber ==
  ASSUME NEW t \in Scalars, NEW x, InRange(t, x)
  PROVE  Argument(t, Loaded(t, x)) \in Args /\ Holds(Argument(t, Loaded(t, x))) = Null
<1>1. t \in TypeIds /\ x \in Datum
  BY DEF TypeIds, InRange, Datum
<1>2. /\ ArgumentTypeFromTypeId(t) \in {"PRIMITIVE", "ENUM", "VALUE", "REF"}
      /\ Member(t) \in IntMembers \cup {"flValue", "dValue", "pValue"}
      /\ ArgumentTypeFromTypeId(t) \notin {"REF", "VALUE"}
  BY <1>1, TypeKinds
<1>3. Loaded(t, x) = [member |-> Member(t), data |-> x]
  BY NumberLoaded
<1> QED BY <1>1, <1>2, <1>3 DEF Argument, Args, Holds

(* What may be passed fits.                                                *)
LEMMA NumbersInRange ==
  ASSUME NEW t \in Scalars, NEW x \in Numbers[t]
  PROVE  InRange(t, x)
BY NumbersAssumption DEF InRange

LEMMA ValuesFit ==
  ASSUME Types, NEW t \in TypeIds, NEW x \in Values(t)
  PROVE  /\ IsObject(t) => /\ x \in Object \cup {Null} /\ x \in held \cup {Null}
                           /\ x # Null => Fits(Pointee(t), Class[x])
         /\ ~IsObject(t) => InRange(t, x)
<1>1. CASE t \in {"object", "object@"}
  BY <1>1 DEF Values, Types, Fits, Pointee, IsObject, ObjectTypes, HandleTypes
<1>2. CASE t \in {"function", "function@"}
  BY <1>2 DEF Values, Types, Fits, Pointee, IsObject, ObjectTypes, HandleTypes
<1>3. CASE t = "value"
  BY <1>3 DEF Values, Types, Fits, Pointee, IsObject, ObjectTypes, HandleTypes
<1>4. CASE t \in Scalars
  <2>1. x \in Numbers[t] /\ ~IsObject(t)
    BY <1>4, TypeKinds DEF Values, Scalars, Integer
  <2> QED BY <1>4, <2>1, NumbersInRange
<1> QED BY <1>1, <1>2, <1>3, <1>4 DEF TypeIds, ObjectTypes, HandleTypes

-----------------------------------------------------------------------------
(* Steps outside of calls.                                                 *)

(* The innermost call is the head of the stack; while the host or a script *)
(* acts, all calls in progress run.                                        *)
LEMMA ActingRuns ==
  ASSUME Types, Stacked, Acts
  PROVE  \A k \in DOMAIN stack :
           /\ stack[k] \in Frames /\ stack[k].pc = "running"
           /\ ctx[stack[k].ctx].state = "active"
<1> SUFFICES ASSUME NEW k \in DOMAIN stack
             PROVE  stack[k] \in Frames /\ stack[k].pc = "running"
                    /\ ctx[stack[k].ctx].state = "active"
  OBVIOUS
<1>1. stack \in Seq(Frames) /\ stack # <<>> /\ stack[k] \in Frames
  BY DEF Types
<1>2. Head(stack) = stack[1]
  BY <1>1
<1>3. stack[k].pc = "running"
  BY <1>1, <1>2 DEF Stacked, Acts
<1> QED BY <1>1, <1>3 DEF Stacked

(* The calls in progress go on as before, unless a list that they need has *)
(* changed.                                                                *)
LEMMA RunsOn ==
  ASSUME Types, Stacked, Passing, Acts, ctx' = ctx, stack' = stack, Slid,
         \A l \in List : list'[l] # list[l] /\ InUse(l) => slip' # "none",
         \A o \in held \ held' : Lent(o) => slip' # "none"
  PROVE  Stacked' /\ Passing'
<1>1. Stacked'
  BY DEF Stacked
<1>2. ASSUME NEW k \in DOMAIN stack
      PROVE  /\ stack[k].pc = "running"
             /\ InOrder(stack[k], ctx[stack[k].ctx].slots, list', held', slip')
  <2> DEFINE f == stack[k]
             s == ctx[stack[k].ctx].slots
  <2>1. f.pc = "running" /\ f.src \in List \cup {Null}
    BY ActingRuns DEF Frames
  <2>2. Passes(f, s, slip) /\ Follows(f, s, list, slip) /\ Lends(f, s, held, slip)
    BY <2>1 DEF Passing, InOrder
  <2>3. Passes(f, s, slip')
    BY <2>2 DEF Passes, Gets, Slid
  <2>4. ASSUME NEW i \in DOMAIN s, s[i].from # Null
        PROVE  s[i].from = f.src /\ (slip' = "none" => f.args = list'[f.src])
    <3>1. s[i].from = f.src /\ (slip = "none" => f.args = list[f.src])
      BY <2>2, <2>4 DEF Follows
    <3>2. f.src \in List
      BY <2>1, <2>4, <3>1
    <3>3. InUse(f.src)
      BY <3>1 DEF InUse
    <3> QED BY <3>1, <3>2, <3>3 DEF Slid
  <2>5. ASSUME NEW i \in DOMAIN s, IsObject(Params[f.fn][i].type), Params[f.fn][i].byRef,
               s[i].data \in Object
        PROVE  /\ s[i] = Lend(Holds(f.args[i]), f.src)
               /\ f.src = Null /\ slip' = "none" => s[i].data \in held'
    <3>1. /\ s[i] = Lend(Holds(f.args[i]), f.src)
          /\ f.src = Null /\ slip = "none" => s[i].data \in held
      BY <2>2, <2>5 DEF Lends
    <3>2. f.src = Null => Lent(s[i].data)
      BY <3>1 DEF Lent, Lend
    <3> QED BY <3>1, <3>2 DEF Slid
  <2> HIDE DEF f, s
  <2>6. Follows(f, s, list', slip') /\ Lends(f, s, held', slip')
    BY <2>4, <2>5 DEF Follows, Lends
  <2> QED BY <2>1, <2>3, <2>6 DEF InOrder, f, s
<1>3. Passing'
  BY <1>2 DEF Passing
<1> QED BY <1>1, <1>3

(* A call keeps its place while another one moves.                         *)
LEMMA StaysInOrder ==
  ASSUME NEW f, NEW s, Slid, UNCHANGED <<list, held>>, InOrder(f, s, list, held, slip)
  PROVE  InOrder(f, s, list', held', slip')
<1>1. Passes(f, s, slip')
  BY DEF InOrder, Passes, Gets, Slid
<1>2. Follows(f, s, list', slip')
  BY DEF InOrder, Follows, Slid
<1>3. Lends(f, s, held', slip')
  BY DEF InOrder, Lends, Slid
<1> QED BY <1>1, <1>2, <1>3 DEF InOrder

(* Nothing happens, or an access that the host is to blame for ends the    *)
(* behaviour.                                                              *)
LEMMA Unmoved ==
  ASSUME IInv, UNCHANGED <<refs, held, list, ctx, stack, got, want>>,
         Slid, slip' # "none" \/ UNCHANGED fault
  PROVE  IInv'
<1>1. Types' /\ Stacked' /\ FaultHasCause'
  BY DEF IInv, Types, Stacked, FaultHasCause, Slid
<1>2. Returning'
  BY DEF IInv, Returning
<1>3. RefsBalanced'
  BY DEF IInv, RefsBalanced, Keeps
<1>4. Passing'
  <2>1. \A k \in DOMAIN stack :
          LET f == stack[k]  c == ctx[stack[k].ctx] IN
          f.pc \in {"args", "running"} => InOrder(f, c.slots, list', held', slip')
    BY StaysInOrder DEF IInv, Passing
  <2>2. \A k \in DOMAIN stack :
          stack[k].pc = "args" => Sourced(stack[k], list', held', slip')
    BY DEF IInv, Passing, Sourced, Slid
  <2> QED BY <2>1, <2>2 DEF IInv, Passing
<1> QED BY <1>1, <1>2, <1>3, <1>4 DEF IInv

-----------------------------------------------------------------------------
(* Argument lists.                                                         *)

(* A list is replaced by arguments that refer to what is alive, or to a    *)
(* new value.                                                              *)
LEMMA ListChanges ==
  ASSUME IInv, Acts, NEW l \in List, NEW args \in Seq(Args),
         SlipsIf("busy list", InUse(l)), list' = [list EXCEPT ![l] = args],
         Counted(Held(args), Held(list[l])),
         \A k \in DOMAIN args : Holds(args[k]) \in Object =>
           refs[Holds(args[k])] > 0 \/ Class[Holds(args[k])] = "value",
         UNCHANGED <<held, ctx, stack, got, want>>
  PROVE  IInv'
<1>1. Slid
  BY DEF SlipsIf, Slips, Slid
<1>2. fault' = fault /\ refs' \in [Object -> Int] /\ RefsBalanced'
  BY ListBalances DEF IInv
<1>3. \A m \in List : list'[m] # list[m] /\ InUse(m) => slip' # "none"
  BY DEF IInv, Types, SlipsIf, Slips
<1>4. Stacked' /\ Passing'
  BY <1>1, <1>3, RunsOn DEF IInv
<1>5. Types'
  BY <1>2 DEF IInv, Types
<1>6. Returning'
  BY DEF IInv, Returning
<1>7. FaultHasCause'
  BY <1>2 DEF FaultHasCause, Acts
<1> QED BY <1>2, <1>4, <1>5, <1>6, <1>7 DEF IInv

LEMMA ClearStep ==
  ASSUME IInv, Acts, NEW l \in List, Clear(l)
  PROVE  IInv'
<1> DEFINE args == <<>>
<1>1. args \in Seq(Args) /\ \A k \in DOMAIN args : FALSE
  OBVIOUS
<1>2. Held(args) = <<>>
  BY DEF Held
<1>3. list' = [list EXCEPT ![l] = args] /\ Counted(Held(args), Held(list[l]))
      /\ SlipsIf("busy list", InUse(l)) /\ UNCHANGED <<held, ctx, stack, got, want>>
  BY <1>2 DEF Clear
<1> HIDE DEF args
<1> QED BY <1>1, <1>3, ListChanges

(* What copies of arguments refer to.                                      *)
LEMMA Copying ==
  ASSUME NEW args \in Seq(Args), NEW s \in Copies(args)
  PROVE  /\ Holding(args, s) \in Seq(Args)
         /\ Held(Holding(args, s)) = s
         /\ \A k \in DOMAIN args :
              /\ Holds(Holding(args, s)[k]) = s[k]
              /\ s[k] \in Object => s[k] = Holds(args[k]) \/ Class[s[k]] = "value"
<1> DEFINE new == Holding(args, s)
<1>1. /\ DOMAIN args = 1..Len(args) /\ Len(args) \in Nat
      /\ s \in [DOMAIN args -> Object \cup {Null}]
      /\ \A k \in DOMAIN args : args[k] \in Args /\ s[k] \in Copied(args[k])
  BY DEF Copies
<1>2. DOMAIN new = DOMAIN args
  BY DEF Holding
<1>3. ASSUME NEW k \in DOMAIN args
      PROVE  /\ new[k] \in Args /\ Holds(new[k]) = s[k]
             /\ s[k] \in Object => s[k] = Holds(args[k]) \/ Class[s[k]] = "value"
  <2> DEFINE a == args[k]
             o == s[k]
  <2>1. a \in Args /\ o \in Copied(a) /\ o \in Object \cup {Null}
    BY <1>1
  <2>2. new[k] = IF a.kind \in {"REF", "VALUE"} THEN [a EXCEPT !.val = Pointer(o)] ELSE a
    BY DEF Holding
  <2> HIDE DEF a, o, new
  <2>3. /\ a.type \in TypeIds /\ a.kind = ArgumentTypeFromTypeId(a.type)
        /\ Holds(a) \in Object \cup {Null}
        /\ IsObject(a.type) => Holds(a) = a.val.data
        /\ IsObject(a.type) /\ Holds(a) # Null => Fits(Pointee(a.type), Class[Holds(a)])
        /\ ~IsObject(a.type) => Holds(a) = Null
    BY <2>1, ArgHolds
  <2>4. /\ IsObject(a.type) <=> a.kind \in {"REF", "VALUE"}
        /\ a.kind = "VALUE" <=> a.type = "value"
    BY <2>3, TypeKinds
  <2>5. CASE a.kind \in {"REF", "VALUE"}
    <3>1. o = Holds(a) \/ (a.type = "value" /\ o \in Object /\ Class[o] = "value")
      BY <2>1, <2>3, <2>4 DEF Copied
    <3>2. o # Null => Fits(Pointee(a.type), Class[o])
      BY <2>3, <2>4, <2>5, <3>1 DEF Fits, Pointee
    <3>3. Argument(a.type, Pointer(o)) \in Args /\ Holds(Argument(a.type, Pointer(o))) = o
      BY <2>1, <2>3, <2>4, <2>5, <3>2, ArgumentOfObject
    <3>4. new[k] = Argument(a.type, Pointer(o))
      BY <2>1, <2>2, <2>3, <2>5 DEF Argument, Args
    <3> QED BY <3>1, <3>3, <3>4 DEF a, o
  <2>6. CASE a.kind \notin {"REF", "VALUE"}
    <3>1. Holds(a) = Null /\ o = Null
      BY <2>1, <2>3, <2>4, <2>6 DEF Copied
    <3> QED BY <2>1, <2>2, <2>6, <3>1, CellsAssumption DEF a, o
  <2> QED BY <2>5, <2>6
<1> HIDE DEF new
<1>4. new \in [1..Len(args) -> Args]
  <2>1. new = [k \in DOMAIN args |-> new[k]]
    BY <1>2 DEF new, Holding
  <2> QED BY <1>1, <1>3, <2>1
<1>5. new \in Seq(Args)
  BY <1>1, <1>4
<1>6. Held(new) = s
  <2>1. Held(new) = [k \in DOMAIN args |-> Holds(new[k])]
    BY <1>2 DEF Held
  <2>2. s = [k \in DOMAIN args |-> s[k]]
    BY <1>1
  <2> QED BY <1>3, <2>1, <2>2
<1> QED BY <1>3, <1>5, <1>6 DEF new

(* A list gets copies of arguments that are alive.                         *)
LEMMA CopiesStep ==
  ASSUME IInv, Acts, NEW l \in List, NEW args \in Seq(Args), NEW s \in Copies(args),
         SlipsIf("busy list", InUse(l)), list' = [list EXCEPT ![l] = Holding(args, s)],
         Counted(s, Held(list[l])),
         \A k \in DOMAIN args : Holds(args[k]) \in Object => refs[Holds(args[k])] > 0,
         UNCHANGED <<held, ctx, stack, got, want>>
  PROVE  IInv'
<1> DEFINE new == Holding(args, s)
<1>1. /\ new \in Seq(Args) /\ Held(new) = s /\ DOMAIN new = DOMAIN args
      /\ \A k \in DOMAIN args :
           /\ Holds(new[k]) = s[k]
           /\ s[k] \in Object => s[k] = Holds(args[k]) \/ Class[s[k]] = "value"
  <2>1. DOMAIN new = DOMAIN args
    BY DEF Holding
  <2> QED BY <2>1, Copying
<1>2. list' = [list EXCEPT ![l] = new] /\ Counted(Held(new), Held(list[l]))
  BY <1>1
<1> HIDE DEF new
<1>3. \A k \in DOMAIN new : Holds(new[k]) \in Object =>
        refs[Holds(new[k])] > 0 \/ Class[Holds(new[k])] = "value"
  BY <1>1
<1> QED BY <1>1, <1>2, <1>3, ListChanges

LEMMA AssignStep ==
  ASSUME IInv, Acts, NEW l \in List, NEW m \in List, Assign(l, m)
  PROVE  IInv'
<1>1. PICK s \in Copies(list[m]) : /\ list' = [list EXCEPT ![l] = Holding(list[m], s)]
                                   /\ Counted(s, Held(list[l]))
  BY DEF Assign
<1> DEFINE old == list[m]
<1>2. old \in Seq(Args)
  BY DEF IInv, Types
<1>3. \A k \in DOMAIN old : Holds(old[k]) \in Object => refs[Holds(old[k])] > 0
  BY Alive DEF IInv
<1>4. SlipsIf("busy list", InUse(l)) /\ UNCHANGED <<held, ctx, stack, got, want>>
  BY DEF Assign
<1> HIDE DEF old
<1> QED BY <1>1, <1>2, <1>3, <1>4, CopiesStep DEF old

LEMMA SetArgumentsStep ==
  ASSUME IInv, Acts, NEW l \in List, NEW types \in Passed, NEW xs \in Choices(types),
         SetArguments(l, types, xs)
  PROVE  IInv'
<1> DEFINE n    == Len(types)
           args == [k \in 1..n |->
                      IF IsObject(types[k])
                      THEN Argument(Pointee(types[k]), Pointer(xs[k]))
                      ELSE Argument(types[k], Loaded(types[k], xs[k]))]
           bad  == {k \in 1..n : ArgumentFault(types[k], xs[k]) # "none"}
           none == \E k \in 1..n : types[k] = "opaque"
<1>1. UNCHANGED <<held, ctx, stack, got, want>>
  BY DEF SetArguments
<1>2. CASE bad # {}
  <2>1. Slips("function") /\ UNCHANGED <<refs, list>>
    BY <1>2 DEF SetArguments
  <2> QED BY <1>1, <2>1, Unmoved DEF Slips, Slid
<1>3. CASE bad = {} /\ none
  <2>1. UNCHANGED <<refs, list, fault, slip>>
    BY <1>3 DEF SetArguments
  <2> QED BY <1>1, <2>1, Unmoved DEF Slid
<1>4. CASE bad = {} /\ ~none
  <2>1. /\ SlipsIf("busy list", InUse(l))
        /\ \E s \in Copies(args) : /\ list' = [list EXCEPT ![l] = Holding(args, s)]
                                   /\ Counted(s, Held(list[l]))
    BY <1>4 DEF SetArguments
  <2>2. types \in Seq(TypeIds \cup {"opaque"})
    BY SignatureAssumption
  <2>3. ASSUME NEW k \in 1..n
        PROVE  args[k] \in Args
               /\ (Holds(args[k]) \in Object => refs[Holds(args[k])] > 0)
    <3> DEFINE t == types[k]
               x == xs[k]
    <3>1. t \in TypeIds
      BY <1>4, <2>2
    <3>2. x \in Values(t)
      BY <2>2 DEF Choices
    <3>3. args[k] = IF IsObject(t) THEN Argument(Pointee(t), Pointer(x))
                    ELSE Argument(t, Loaded(t, x))
      OBVIOUS
    <3> HIDE DEF t, x, args
    <3>6. CASE IsObject(t)
      <4>1. x \in Object \cup {Null} /\ x \in held \cup {Null}
            /\ (x # Null => Fits(Pointee(t), Class[x]))
        BY <3>1, <3>2, <3>6, ValuesFit DEF IInv
      <4>2. Pointee(t) \in TypeIds /\ Pointee(Pointee(t)) = Pointee(t) /\ IsObject(Pointee(t))
        BY <3>1, <3>6, TypeKinds
      <4>3. args[k] \in Args /\ Holds(args[k]) = x
        BY <3>3, <3>6, <4>1, <4>2, ArgumentOfObject
      <4>4. x \in held => refs[x] > 0
        BY <4>1, Alive DEF IInv, Types
      <4> QED BY <4>1, <4>3, <4>4, CellsAssumption
    <3>7. CASE ~IsObject(t)
      <4>1. InRange(t, x) /\ t \in Scalars
        BY <3>1, <3>2, <3>7, ValuesFit, TypeKinds DEF IInv
      <4>2. args[k] \in Args /\ Holds(args[k]) = Null
        BY <3>3, <3>7, <4>1, ArgumentOfNumber
      <4> QED BY <4>2, CellsAssumption
    <3> QED BY <3>6, <3>7
  <2>4. args \in Seq(Args) /\ DOMAIN args = 1..n
    <3>1. n \in Nat
      BY <2>2
    <3>2. args = [k \in 1..n |-> args[k]] /\ DOMAIN args = 1..n
      OBVIOUS
    <3> HIDE DEF n, args
    <3>3. args \in [1..n -> Args]
      BY <2>3, <3>2
    <3> QED BY <3>1, <3>2, <3>3
  <2> HIDE DEF args, n
  <2>5. \A k \in DOMAIN args : Holds(args[k]) \in Object => refs[Holds(args[k])] > 0
    BY <2>3, <2>4
  <2> QED BY <1>1, <2>1, <2>4, <2>5, CopiesStep
<1> QED BY <1>2, <1>3, <1>4

(* The types of a function's parameters.                                   *)
LEMMA ParamsTyped ==
  ASSUME NEW f \in Functions
  PROVE  /\ Params[f] \in Seq(ParamTypes)
         /\ DOMAIN Params[f] = 1..Len(Params[f]) /\ Len(Params[f]) \in Nat
         /\ DOMAIN TypesOf(f) = DOMAIN Params[f]
         /\ \A k \in DOMAIN Params[f] :
              /\ Params[f][k] \in ParamTypes
              /\ Params[f][k].type \in TypeIds /\ TypesOf(f)[k] = Params[f][k].type
<1> DEFINE P == Params[f]
<1>1. P \in Seq(ParamTypes)
  BY SignatureAssumption
<1>2. TypesOf(f) = [k \in DOMAIN P |-> P[k].type]
  BY DEF TypesOf
<1>4. \A p \in ParamTypes : p.type \in TypeIds
  BY DEF ParamTypes
<1> HIDE DEF P
<1>3. DOMAIN P = 1..Len(P) /\ Len(P) \in Nat
      /\ \A k \in DOMAIN P : P[k] \in ParamTypes
  BY <1>1
<1> QED BY <1>1, <1>2, <1>3, <1>4 DEF P

LEMMA SetArgumentsForStep ==
  ASSUME IInv, Acts, NEW l \in List, NEW f \in Functions, NEW xs \in Choices(TypesOf(f)),
         SetArgumentsFor(l, f, xs)
  PROVE  IInv'
<1> DEFINE types == TypesOf(f)
           args  == [k \in DOMAIN types |-> Argument(types[k], Pointer(xs[k]))]
           other == \E k \in DOMAIN types : ~IsObject(types[k])
<1>1. UNCHANGED <<held, ctx, stack, got, want>>
  BY DEF SetArgumentsFor
<1>2. CASE other
  <2>1. Slips("primitive") /\ UNCHANGED <<refs, list>>
    BY <1>2 DEF SetArgumentsFor, TypesOf
  <2> QED BY <1>1, <2>1, Unmoved DEF Slips, Slid
<1>3. CASE ~other
  <2>1. /\ SlipsIf("busy list", InUse(l))
        /\ \E s \in Copies(args) : /\ list' = [list EXCEPT ![l] = Holding(args, s)]
                                   /\ Counted(s, Held(list[l]))
    BY <1>3 DEF SetArgumentsFor, TypesOf
  <2> DEFINE n == Len(Params[f])
  <2>2. DOMAIN types = 1..n /\ n \in Nat /\ \A k \in 1..n : types[k] \in TypeIds
    BY ParamsTyped
  <2>3. ASSUME NEW k \in 1..n
        PROVE  args[k] \in Args
               /\ (Holds(args[k]) \in Object => refs[Holds(args[k])] > 0)
    <3> DEFINE t == types[k]
               x == xs[k]
    <3>1. t \in TypeIds /\ IsObject(t) /\ x \in Values(t) /\ args[k] = Argument(t, Pointer(x))
      BY <1>3, <2>2 DEF Choices
    <3> HIDE DEF t, x, args
    <3>2. x \in Object \cup {Null} /\ x \in held \cup {Null}
          /\ (x # Null => Fits(Pointee(t), Class[x]))
      BY <3>1, ValuesFit DEF IInv
    <3>3. args[k] \in Args /\ Holds(args[k]) = x
      BY <3>1, <3>2, ArgumentOfObject
    <3>4. x \in held => refs[x] > 0
      BY <3>2, Alive DEF IInv, Types
    <3> QED BY <3>2, <3>3, <3>4, CellsAssumption
  <2>4. args \in Seq(Args) /\ DOMAIN args = 1..n
    <3>1. args = [k \in 1..n |-> args[k]] /\ DOMAIN args = 1..n
      BY <2>2
    <3> HIDE DEF n, args
    <3>2. args \in [1..n -> Args]
      BY <2>3, <3>1
    <3> QED BY <2>2, <3>1, <3>2
  <2> HIDE DEF args, n
  <2>5. \A k \in DOMAIN args : Holds(args[k]) \in Object => refs[Holds(args[k])] > 0
    BY <2>3, <2>4
  <2> QED BY <1>1, <2>1, <2>4, <2>5, CopiesStep
<1> QED BY <1>2, <1>3

-----------------------------------------------------------------------------
(* Handles, and the value that the host has got.                           *)

(* One object more or less, in what the host has.                          *)
LEMMA HoldersBalance ==
  ASSUME Types, RefsBalanced, refs' \in [Object -> Int], ctx' = ctx, list' = list,
         \A o \in Object : refs'[o] - refs[o] =
           (One(o \in held', TRUE) + One(Holds(got'), o))
             - (One(o \in held, TRUE) + One(Holds(got), o))
  PROVE  RefsBalanced'
<1>1. InLists' = InLists /\ InContexts' = InContexts
  BY DEF InLists, InContexts
<1>2. ASSUME NEW o \in Object PROVE Balanced(o)'
  <2> DEFINE h == One(o \in held, TRUE)
             g == One(Holds(got), o)
             x == Cardinality(Places(InLists, o))
             y == Cardinality(Places(InContexts, o))
             h1 == One(o \in held', TRUE)
             g1 == One(Holds(got'), o)
             r == refs[o]
             r1 == refs'[o]
  <2>1. r = h + g + x + y
    BY Alive DEF Balanced
  <2>2. r1 - r = (h1 + g1) - (h + g)
    OBVIOUS
  <2>3. x \in Nat /\ y \in Nat /\ r \in Int /\ r1 \in Int
    BY Alive
  <2>4. h \in Nat /\ g \in Nat /\ h1 \in Nat /\ g1 \in Nat
    BY DEF One
  <2>5. Balanced(o)' <=> r1 = h1 + g1 + x + y
    BY <1>1, BalancedNext
  <2> HIDE DEF h, g, x, y, h1, g1, r, r1
  <2>6. r1 = h1 + g1 + x + y
    BY <2>1, <2>2, <2>3, <2>4
  <2> QED BY <2>5, <2>6
<1> QED BY <1>2, BalancedNext

(* The host gets or drops a handle, or fills its CASArgument.              *)
LEMMA HoldersChange ==
  ASSUME IInv, Acts, refs' \in [Object -> Int], held' \subseteq Object, fault' = fault,
         UNCHANGED <<list, ctx, stack>>, Slid,
         \A o \in held \ held' : Lent(o) => slip' # "none",
         \A o \in Object : refs'[o] - refs[o] =
           (One(o \in held', TRUE) + One(Holds(got'), o))
             - (One(o \in held, TRUE) + One(Holds(got), o)),
         Holds(got') \in Object \cup {Null},
         got'.type = want'.type,
         got'.kind # "VALUE" => got'.val.data = want'.val.data
  PROVE  IInv'
<1>1. RefsBalanced'
  BY HoldersBalance DEF IInv
<1>2. Stacked' /\ Passing'
  BY RunsOn DEF IInv
<1>3. Types'
  BY DEF IInv, Types
<1>4. Returning'
  BY DEF IInv, Returning
<1>5. FaultHasCause'
  BY DEF FaultHasCause, Acts
<1> QED BY <1>1, <1>2, <1>3, <1>4, <1>5 DEF IInv

LEMMA NewObjectStep ==
  ASSUME IInv, Acts, NEW o \in Object, NewObject(o)
  PROVE  IInv'
<1>1. /\ refs' = [refs EXCEPT ![o] = 1] /\ held' = held \cup {o} /\ refs[o] = 0
      /\ fault' = fault /\ UNCHANGED <<list, ctx, stack, got, want, slip>>
  BY DEF NewObject
<1>2. refs \in [Object -> Int] /\ held \subseteq Object
  BY DEF IInv, Types
<1>3. o \notin held
  BY <1>1, Alive DEF IInv
<1>4. refs' \in [Object -> Int] /\ held' \subseteq Object
  BY <1>1, <1>2
<1>5. ASSUME NEW p \in Object
      PROVE  refs'[p] - refs[p] = (One(p \in held', TRUE) + One(Holds(got'), p))
                                    - (One(p \in held, TRUE) + One(Holds(got), p))
  BY <1>1, <1>2, <1>3 DEF One
<1>6. Holds(got') \in Object \cup {Null} /\ got'.type = want'.type
      /\ (got'.kind # "VALUE" => got'.val.data = want'.val.data)
  BY <1>1 DEF IInv, Returning
<1>7. Slid /\ \A p \in held \ held' : FALSE
  BY <1>1 DEF Slid
<1> QED BY <1>1, <1>4, <1>5, <1>6, <1>7, HoldersChange

(* One reference less, or one more.                                        *)
LEMMA DropHandleStep ==
  ASSUME IInv, Acts, NEW o \in Object, DropHandle(o)
  PROVE  IInv'
<1>1. /\ held' = held \ {o} /\ o \in held /\ Counted(<<>>, <<o>>)
      /\ UNCHANGED <<list, ctx, stack, got, want>>
  BY DEF DropHandle
<1>2. \A p : Times(<<>>, p) = 0 /\ Times(<<o>>, p) = One(o, p)
  BY TimesNothing, TimesSingle
<1>3. \A p \in Object :
        /\ Times(<<>>, p) \in Nat /\ Times(<<o>>, p) \in Nat
        /\ Times(<<>>, p) > 0 => refs[p] > 0 \/ Class[p] = "value"
        /\ Times(<<o>>, p) <= refs[p] + Times(<<>>, p)
  BY <1>1, <1>2, Alive DEF IInv, One
<1>4. /\ fault' = fault /\ refs' \in [Object -> Int]
      /\ \A p \in Object : refs'[p] = refs[p] + Times(<<>>, p) - Times(<<o>>, p)
  BY <1>1, <1>3, CountedChanges DEF IInv
<1>5. ASSUME NEW p \in Object
      PROVE  refs'[p] - refs[p] = (One(p \in held', TRUE) + One(Holds(got'), p))
                                    - (One(p \in held, TRUE) + One(Holds(got), p))
  <2>1. refs'[p] = refs[p] - One(o, p) /\ refs[p] \in Int
    BY <1>2, <1>4 DEF IInv, Types, One
  <2> QED BY <1>1, <2>1 DEF One
<1>6. Holds(got') \in Object \cup {Null} /\ got'.type = want'.type
      /\ (got'.kind # "VALUE" => got'.val.data = want'.val.data)
  BY <1>1 DEF IInv, Returning
<1>7. held' \subseteq Object
  BY <1>1 DEF IInv, Types
<1>8. Slid /\ \A p \in held \ held' : Lent(p) => slip' # "none"
  <2>1. SlipsIf("lent object", Lent(o))
    BY DEF DropHandle
  <2>2. CASE Lent(o)
    BY <2>1, <2>2 DEF Slid, SlipsIf, Slips
  <2>3. CASE ~Lent(o)
    <3>1. slip' = slip
      BY <2>1, <2>3 DEF SlipsIf
    <3>2. \A p \in held \ held' : p = o
      BY <1>1
    <3> QED BY <2>3, <3>1, <3>2 DEF Slid
  <2> QED BY <2>2, <2>3
<1> QED BY <1>1, <1>4, <1>5, <1>6, <1>7, <1>8, HoldersChange

LEMMA GetReturnObjectStep ==
  ASSUME IInv, Acts, NEW c \in Context, GetReturnObject(c)
  PROVE  IInv'
<1> DEFINE o == ctx[c].ret
<1>1. CASE /\ Returns[ctx[c].fn] = "object@" /\ o \notin held \cup {Null}
           /\ held' = held \cup {o} /\ Counted(<<o>>, <<>>)
           /\ UNCHANGED <<list, ctx, stack, got, want, slip>>
  <2>1. ctx[c].state = "finished"
    BY DEF GetReturnObject
  <2>2. o \in Object /\ ctx[c].own = o
    BY <1>1, <2>1 DEF IInv, Returning, Kept
  <2>3. refs[o] > 0
    BY <2>2, Alive DEF IInv
  <2> HIDE DEF o
  <2>4. \A p : Times(<<>>, p) = 0 /\ Times(<<o>>, p) = One(o, p)
    BY TimesNothing, TimesSingle
  <2>5. \A p \in Object :
          /\ Times(<<o>>, p) \in Nat /\ Times(<<>>, p) \in Nat
          /\ Times(<<o>>, p) > 0 => refs[p] > 0 \/ Class[p] = "value"
          /\ Times(<<>>, p) <= refs[p] + Times(<<o>>, p)
    BY <2>3, <2>4, Alive DEF IInv, One
  <2>6. /\ fault' = fault /\ refs' \in [Object -> Int]
        /\ \A p \in Object : refs'[p] = refs[p] + Times(<<o>>, p) - Times(<<>>, p)
    BY <1>1, <2>5, CountedChanges DEF IInv
  <2>7. ASSUME NEW p \in Object
        PROVE  refs'[p] - refs[p] = (One(p \in held', TRUE) + One(Holds(got'), p))
                                      - (One(p \in held, TRUE) + One(Holds(got), p))
    <3>1. refs'[p] = refs[p] + One(o, p) /\ refs[p] \in Int
      <4>1. refs[p] \in Int
        BY DEF IInv, Types
      <4>2. One(o, p) \in Int
        BY DEF One
      <4>3. refs'[p] = refs[p] + One(o, p) - 0
        BY <2>4, <2>6
      <4> QED BY <4>1, <4>2, <4>3
    <3> QED BY <1>1, <3>1 DEF One
  <2>8. Holds(got') \in Object \cup {Null} /\ got'.type = want'.type
        /\ (got'.kind # "VALUE" => got'.val.data = want'.val.data)
    BY <1>1 DEF IInv, Returning
  <2>9. held' \subseteq Object
    BY <1>1, <2>2 DEF IInv, Types
  <2>10. Slid /\ \A p \in held \ held' : FALSE
    BY <1>1 DEF Slid
  <2> QED BY <1>1, <2>6, <2>7, <2>8, <2>9, <2>10, HoldersChange
<1>2. CASE Slips("value to a variable") /\ UNCHANGED <<refs, held, list, ctx, stack, got, want>>
  BY <1>2, Unmoved DEF Slips, Slid
<1> QED BY <1>1, <1>2 DEF GetReturnObject

(* What a context returns, by the type of its function.                    *)
LEMMA ReturnedFits ==
  ASSUME IInv, NEW c \in Context, ctx[c].fn # Null, NEW o \in Copied(Returned(c))
  PROVE  LET a == Returned(c) IN
         /\ o \in Object \cup {Null}
         /\ o # Null => refs[o] > 0 \/ Class[o] = "value"
         /\ Holds(IF IsObject(a.type) THEN [a EXCEPT !.val = Pointer(o)] ELSE a) = o
         /\ ctx[c].state = "finished" => o = Holds(a) \/ a.kind = "VALUE"
         /\ ctx[c].state = "finished" => a.val.data = ctx[c].ret
         /\ a.kind = ArgumentTypeFromTypeId(a.type)
         /\ IsObject(a.type) /\ a.kind # "VALUE" => o = a.val.data
<1> DEFINE a == Returned(c)
           t == Returns[ctx[c].fn]
           finished == ctx[c].state = "finished"
           x == IF finished THEN ctx[c].ret ELSE IF t = "void" \/ IsObject(t) THEN Null ELSE 0
<1>1. t \in Scalars \cup {"void", "value", "object@"}
  <2>1. ctx[c].fn \in Functions
    BY DEF IInv, Types, Contexts
  <2> QED BY <2>1, SignatureAssumption
<1>2. a = Argument(t, IF t = "void" \/ IsObject(t) THEN Pointer(x) ELSE Loaded(t, x))
  BY DEF Returned
<1>3. finished => x = ctx[c].ret /\ Kept(ctx[c])
  BY DEF IInv, Returning
<1>4. CASE t = "void"
  <2>1. x = Null
    BY <1>3, <1>4 DEF Kept
  <2>4. ArgumentTypeFromTypeId("void") = "VOID"
    BY DEF ArgumentTypeFromTypeId, IsPrimitive, IsEnum, IsFloat, Integer
  <2>2. a = [type |-> "void", kind |-> "VOID", val |-> [member |-> "pValue", data |-> Null]]
    BY <1>2, <1>4, <2>1, <2>4 DEF Argument, Pointer
  <2>3. o = Null /\ ~IsObject("void") /\ Holds(a) = Null
    BY <2>2 DEF Copied, Holds, IsObject, ObjectTypes, HandleTypes
  <2> HIDE DEF a
  <2> QED BY <1>3, <2>1, <2>2, <2>3, <2>4 DEF a
<1>5. CASE t \in {"value", "object@"}
  <2>1. IsObject(t) /\ ArgumentTypeFromTypeId(t) = IF t = "value" THEN "VALUE" ELSE "REF"
    BY <1>5 DEF IsObject, ObjectTypes, HandleTypes, ArgumentTypeFromTypeId, IsPrimitive, IsEnum,
                IsFloat, Integer
  <2>2. x \in Object \cup {Null} /\ (x # Null => ctx[c].own = x)
    BY <1>3, <1>5, <2>1 DEF Kept
  <2>3. x # Null => refs[x] > 0
    BY <2>2, Alive DEF IInv
  <2>4. a.type = t /\ a.kind = ArgumentTypeFromTypeId(t) /\ a.val = Pointer(x) /\ a.val.data = x
    BY <1>2, <2>1 DEF Argument, Pointer
  <2>5. Holds(a) = x
    BY <1>5, <2>1, <2>4 DEF Holds
  <2>6. o = x \/ (a.kind = "VALUE" /\ o \in Object /\ Class[o] = "value")
    BY <2>5 DEF Copied
  <2>7. Holds([a EXCEPT !.val = Pointer(o)]) = o
    <3>1. a = [type |-> t, kind |-> ArgumentTypeFromTypeId(t), val |-> Pointer(x)]
      BY <1>2, <2>1 DEF Argument
    <3> QED BY <1>5, <2>1, <3>1 DEF Holds, Pointer
  <2> HIDE DEF a, x
  <2> QED BY <1>3, <2>1, <2>2, <2>3, <2>4, <2>5, <2>6, <2>7 DEF a
<1>6. CASE t \in Scalars
  <2>1. t \in TypeIds
    BY <1>6 DEF TypeIds
  <2>2. ~IsObject(t) /\ t # "void" /\ ArgumentTypeFromTypeId(t) \notin {"REF", "VALUE"}
    BY <1>6, <2>1, TypeKinds DEF Scalars, Integer
  <2>3. a.type = t /\ a.kind = ArgumentTypeFromTypeId(t) /\ a.val = Loaded(t, x)
    BY <1>2, <2>2 DEF Argument
  <2>4. Holds(a) = Null
    BY <2>2, <2>3 DEF Holds
  <2>5. o = Null
    BY <2>2, <2>3, <2>4 DEF Copied
  <2>6. finished => InRange(t, x)
    BY <1>3, <1>6 DEF Kept
  <2>7. finished => Loaded(t, x).data = x
    BY <1>6, <2>6, NumberLoaded
  <2> HIDE DEF a, x
  <2> QED BY <1>3, <2>2, <2>3, <2>4, <2>5, <2>7 DEF a
<1> QED BY <1>1, <1>4, <1>5, <1>6

LEMMA GetReturnValueStep ==
  ASSUME IInv, Acts, NEW c \in Context, GetReturnValue(c)
  PROVE  IInv'
<1> DEFINE a == Returned(c)
<1>1. PICK o \in Copied(Returned(c)) :
        /\ got' = IF IsObject(Returned(c).type)
                  THEN [Returned(c) EXCEPT !.val = Pointer(o)] ELSE Returned(c)
        /\ Counted(<<o>>, <<Holds(got)>>)
  BY DEF GetReturnValue
<1>2. /\ want' = [a EXCEPT !.val.data = IF ctx[c].state = "finished" THEN ctx[c].ret ELSE @]
      /\ UNCHANGED <<held, list, ctx, stack, slip>> /\ ctx[c].fn # Null
  BY DEF GetReturnValue
<1>3. /\ o \in Object \cup {Null}
      /\ o # Null => refs[o] > 0 \/ Class[o] = "value"
      /\ Holds(IF IsObject(a.type) THEN [a EXCEPT !.val = Pointer(o)] ELSE a) = o
      /\ ctx[c].state = "finished" => a.val.data = ctx[c].ret
      /\ IsObject(a.type) /\ a.kind # "VALUE" => o = a.val.data
  BY <1>2, ReturnedFits
<1>4. Holds(got') = o
  BY <1>1, <1>3
<1> DEFINE g == Holds(got)
<1>5. g \in Object \cup {Null}
  BY DEF IInv, Returning
<1>6. g # Null => refs[g] > 0
  BY <1>5, Alive DEF IInv
<1> HIDE DEF g
<1>7. \A p : Times(<<g>>, p) = One(g, p) /\ Times(<<o>>, p) = One(o, p)
  BY TimesSingle
<1>8. \A p \in Object :
        /\ Times(<<o>>, p) \in Nat /\ Times(<<g>>, p) \in Nat
        /\ Times(<<o>>, p) > 0 => refs[p] > 0 \/ Class[p] = "value"
        /\ Times(<<g>>, p) <= refs[p] + Times(<<o>>, p)
  BY <1>3, <1>5, <1>6, <1>7, Alive, CellsAssumption DEF IInv, One
<1>9. /\ fault' = fault /\ refs' \in [Object -> Int]
      /\ \A p \in Object : refs'[p] = refs[p] + Times(<<o>>, p) - Times(<<g>>, p)
  BY <1>1, <1>8, CountedChanges DEF IInv, g
<1>10. ASSUME NEW p \in Object
       PROVE  refs'[p] - refs[p] = (One(p \in held', TRUE) + One(Holds(got'), p))
                                     - (One(p \in held, TRUE) + One(Holds(got), p))
  <2>1. refs'[p] = refs[p] + One(o, p) - One(g, p) /\ refs[p] \in Int
    BY <1>7, <1>9 DEF IInv, Types
  <2>2. One(p \in held', TRUE) = One(p \in held, TRUE) /\ One(Holds(got'), p) = One(o, p)
        /\ One(Holds(got), p) = One(g, p)
    BY <1>2, <1>4 DEF g
  <2>3. One(o, p) \in Int /\ One(g, p) \in Int /\ One(p \in held, TRUE) \in Int
    BY DEF One
  <2> DEFINE x == One(o, p)
             y == One(g, p)
             h == One(p \in held, TRUE)
  <2>4. refs'[p] - refs[p] = (h + x) - (h + y)
    <3>1. refs'[p] = refs[p] + x - y /\ refs[p] \in Int
      BY <2>1
    <3>2. x \in Int /\ y \in Int /\ h \in Int
      BY <2>3
    <3> HIDE DEF x, y, h
    <3> QED BY <3>1, <3>2
  <2> QED BY <2>2, <2>4
<1>11. got'.type = want'.type /\ (got'.kind # "VALUE" => got'.val.data = want'.val.data)
  <2>1. a.val.data = IF ctx[c].state = "finished" THEN ctx[c].ret ELSE a.val.data
    BY <1>3
  <2>2. DOMAIN a = {"type", "kind", "val"} /\ DOMAIN a.val = {"member", "data"}
    BY DEF Returned, Argument, Pointer, Loaded, Written
  <2> HIDE DEF a
  <2>3. want'.val.data = a.val.data /\ want'.type = a.type
    BY <1>2, <2>1, <2>2
  <2>4. got' = IF IsObject(a.type) THEN [a EXCEPT !.val = Pointer(o)] ELSE a
    BY <1>1 DEF a
  <2>5. got'.type = a.type /\ got'.kind = a.kind
        /\ got'.val.data = IF IsObject(a.type) THEN o ELSE a.val.data
    BY <2>2, <2>4 DEF Pointer
  <2> QED BY <1>3, <2>3, <2>5
<1>12. held' \subseteq Object /\ Holds(got') \in Object \cup {Null}
  BY <1>2, <1>3, <1>4 DEF IInv, Types
<1>13. Slid /\ \A p \in held \ held' : FALSE
  BY <1>2 DEF Slid
<1> QED BY <1>2, <1>9, <1>10, <1>11, <1>12, <1>13, HoldersChange

-----------------------------------------------------------------------------
(* Contexts.                                                               *)

LEMMA NothingCounted ==
  ASSUME Types, RefsBalanced, NEW added, NEW released, UNCHANGED <<refs, fault>>,
         \A o \in Object : Times(added, o) = 0 /\ Times(released, o) = 0
  PROVE  Counted(added, released)
<1>1. \A o \in Object : refs[o] \in Nat
  BY Alive
<1>2. refs = [o \in Object |-> refs[o]]
  BY DEF Types
<1>3. \A o \in Object : refs[o] + Times(added, o) - Times(released, o) = refs[o]
  BY <1>1
<1>4. ASSUME NEW o \in Object
      PROVE  ~(\/ Times(added, o) > 0 /\ refs[o] = 0 /\ Class[o] # "value"
               \/ Times(released, o) > refs[o] + Times(added, o))
  BY <1>1
<1>5. refs' = [o \in Object |-> refs[o] + Times(added, o) - Times(released, o)]
  BY <1>2, <1>3
<1> QED BY <1>4, <1>5 DEF Counted

(* A context that refers to no object.                                     *)
LEMMA HoldsNothing ==
  ASSUME NEW r \in Contexts, r.own = Null, \A k \in DOMAIN r.slots : r.slots[k].own = Null
  PROVE  \A o \in Object : Times(KeepsOf(r), o) = 0
<1> SUFFICES ASSUME NEW o \in Object PROVE Times(KeepsOf(r), o) = 0
  OBVIOUS
<1>1. o # Null
  BY CellsAssumption
<1>2. /\ Times(KeepsOf(r), o) = Times(Owned(r.slots), o) + One(r.own, o)
      /\ Times(Owned(r.slots), o) \in Nat
      /\ Times(Owned(r.slots), o) > 0 <=> \E k \in DOMAIN r.slots : r.slots[k].own = o
  BY KeepsCounted
<1>3. Times(Owned(r.slots), o) = 0
  BY <1>1, <1>2
<1>4. One(r.own, o) = 0
  BY <1>1 DEF One
<1> QED BY <1>2, <1>3, <1>4

LEMMA NoContextType ==
  /\ NoContext \in Contexts /\ [NoContext EXCEPT !.state = "idle"] \in Contexts
  /\ \A o \in Object : Times(KeepsOf(NoContext), o) = 0
                       /\ Times(KeepsOf([NoContext EXCEPT !.state = "idle"]), o) = 0
<1>1. <<>> \in Seq(Slots) /\ Null \in Datum
  BY DEF Datum
<1>2. NoContext \in Contexts /\ [NoContext EXCEPT !.state = "idle"] \in Contexts
  BY <1>1 DEF NoContext, Contexts
<1>3. NoContext.own = Null /\ [NoContext EXCEPT !.state = "idle"].own = Null
      /\ NoContext.slots = <<>> /\ [NoContext EXCEPT !.state = "idle"].slots = <<>>
  BY DEF NoContext
<1>4. \A o \in Object : Times(KeepsOf(NoContext), o) = 0
  BY <1>2, <1>3, HoldsNothing
<1>5. \A o \in Object : Times(KeepsOf([NoContext EXCEPT !.state = "idle"]), o) = 0
  <2> DEFINE e == [NoContext EXCEPT !.state = "idle"]
  <2>1. e \in Contexts /\ e.own = Null /\ \A k \in DOMAIN e.slots : e.slots[k].own = Null
    BY <1>2, <1>3
  <2> HIDE DEF e
  <2>2. \A o \in Object : Times(KeepsOf(e), o) = 0
    BY <2>1, HoldsNothing
  <2> QED BY <2>2 DEF e
<1> QED BY <1>2, <1>4, <1>5

(* A context lets go of all it has.                                        *)
LEMMA ContextEmptied ==
  ASSUME Types, RefsBalanced, NEW c \in Context, NEW r \in Contexts,
         ctx' = [ctx EXCEPT ![c] = r], Counted(<<>>, Keeps(c)),
         \A o \in Object : Times(KeepsOf(r), o) = 0,
         list' = list, got' = got, held' = held
  PROVE  fault' = fault /\ refs' \in [Object -> Int] /\ RefsBalanced'
<1>1. Keeps(c) = KeepsOf(ctx[c])
  BY DEF Keeps, KeepsOf
<1> DEFINE old == KeepsOf(ctx[c])
<1>2. Counted(<<>>, old)
  BY <1>1
<1>3. Exchanges(ctx[c], r, <<>>, old)
  <2>1. ASSUME NEW o \in Object
        PROVE  Times(KeepsOf(ctx[c]), o) \in Nat /\ Times(<<>>, o) = 0 /\ Times(KeepsOf(r), o) = 0
    BY Alive, TimesNothing
  <2> QED BY <2>1 DEF Exchanges
<1> HIDE DEF old
<1> QED BY <1>2, <1>3, ContextBalances

(* A context that no call is in gets free, or is requested.                *)
LEMMA SpareContextChanges ==
  ASSUME IInv, Acts, NEW c \in Context, NEW r \in Contexts, ctx' = [ctx EXCEPT ![c] = r],
         \A k \in DOMAIN stack : stack[k].ctx # c,
         Empty(r), r.state \notin {"active", "finished"},
         Counted(<<>>, Keeps(c)), \A o \in Object : Times(KeepsOf(r), o) = 0,
         UNCHANGED <<held, list, stack, got, want, slip>>
  PROVE  IInv'
<1>1. fault' = fault /\ refs' \in [Object -> Int] /\ RefsBalanced'
  BY ContextEmptied DEF IInv
<1>2. Types'
  BY <1>1 DEF IInv, Types
<1>3. ctx'[c] = r /\ \A d \in Context : d # c => ctx'[d] = ctx[d]
  BY DEF IInv, Types
<1>4. \A k \in DOMAIN stack : stack[k].pc = "running" /\ ctx'[stack[k].ctx] = ctx[stack[k].ctx]
  BY <1>3, ActingRuns DEF IInv, Frames
<1>5. Stacked'
  <2>1. ASSUME NEW k \in DOMAIN stack
        PROVE  /\ ctx'[stack[k].ctx].state = "active"
               /\ \A l \in DOMAIN stack : l # k /\ stack[l].pc = "running" =>
                    stack[l].ctx # stack[k].ctx
    BY <1>4 DEF IInv, Stacked
  <2>2. ASSUME NEW d \in Context, ctx'[d].state = "active"
        PROVE  \E k \in DOMAIN stack : stack[k].pc = "running" /\ stack[k].ctx = d
    BY <1>3, <2>2 DEF IInv, Stacked
  <2> QED BY <1>4, <2>1, <2>2 DEF Stacked
<1>6. Passing'
  <2>1. \A k \in DOMAIN stack :
          InOrder(stack[k], ctx[stack[k].ctx].slots, list', held', slip')
    BY <1>4, StaysInOrder DEF IInv, Passing, Slid
  <2> QED BY <1>4, <2>1 DEF IInv, Passing
<1>7. Returning'
  BY <1>3 DEF IInv, Returning
<1>8. FaultHasCause'
  BY <1>1 DEF FaultHasCause, Acts
<1> QED BY <1>1, <1>2, <1>5, <1>6, <1>7, <1>8 DEF IInv

LEMMA RequestContextStep ==
  ASSUME IInv, Acts, NEW c \in Context, RequestContext(c)
  PROVE  IInv'
<1> DEFINE r == [NoContext EXCEPT !.state = "idle"]
<1>1. /\ ctx[c].state = "none" /\ ctx' = [ctx EXCEPT ![c] = r]
      /\ UNCHANGED <<refs, held, list, stack, got, want, fault, slip>>
  BY DEF RequestContext, Cleaned
<1>2. \A k \in DOMAIN stack : stack[k].ctx # c
  BY <1>1, ActingRuns DEF IInv
<1>3. ctx[c] = NoContext
  BY <1>1 DEF IInv, Returning, Empty
<1>4. r \in Contexts /\ \A o \in Object : Times(KeepsOf(r), o) = 0 /\ Times(Keeps(c), o) = 0
  <2>1. Keeps(c) = KeepsOf(NoContext)
    BY <1>3 DEF Keeps, KeepsOf
  <2> QED BY <2>1, NoContextType
<1>5. Counted(<<>>, Keeps(c))
  BY <1>1, <1>4, TimesNothing, NothingCounted DEF IInv
<1>6. Empty(r) /\ r.state = "idle"
  BY DEF Empty, NoContext
<1> HIDE DEF r
<1> QED BY <1>1, <1>2, <1>4, <1>5, <1>6, SpareContextChanges

LEMMA ReleaseContextStep ==
  ASSUME IInv, Acts, NEW c \in Context, ReleaseContext(c)
  PROVE  IInv'
<1>1. /\ ctx' = [ctx EXCEPT ![c] = NoContext] /\ Counted(<<>>, Keeps(c))
      /\ \A k \in DOMAIN stack : stack[k].ctx # c
      /\ UNCHANGED <<held, list, stack, got, want, slip>>
  BY DEF ReleaseContext, Freed
<1>2. NoContext \in Contexts /\ \A o \in Object : Times(KeepsOf(NoContext), o) = 0
  BY NoContextType
<1>3. Empty(NoContext) /\ NoContext.state = "none"
  BY DEF Empty, NoContext
<1> QED BY <1>1, <1>2, <1>3, SpareContextChanges

-----------------------------------------------------------------------------
(* Calls begin.                                                            *)

(* The stack with another head, with one more frame, and without its head. *)
LEMMA Pushed ==
  ASSUME NEW S, NEW s \in Seq(S), NEW x \in S, NEW t, t = <<x>> \o s
  PROVE  /\ t \in Seq(S) /\ 1 \in DOMAIN t /\ t[1] = x
         /\ \A k \in DOMAIN s : k + 1 \in DOMAIN t /\ k + 1 # 1 /\ t[k + 1] = s[k]
         /\ \A k \in DOMAIN t : k # 1 => k - 1 \in DOMAIN s /\ t[k] = s[k - 1]
<1>1. t \in Seq(S) /\ Len(t) = Len(s) + 1 /\ t[1] = x /\ Len(s) \in Nat
      /\ DOMAIN t = 1..Len(t) /\ DOMAIN s = 1..Len(s)
  OBVIOUS
<1>2. \A k \in DOMAIN s : t[k + 1] = s[k]
  OBVIOUS
<1>3. \A k \in DOMAIN t : k # 1 => k - 1 \in DOMAIN s /\ (k - 1) + 1 = k
  BY <1>1
<1>4. \A k \in DOMAIN s : k + 1 \in DOMAIN t /\ k + 1 # 1
  BY <1>1
<1>5. 1 \in DOMAIN t
  BY <1>1
<1>6. \A k \in DOMAIN t : k # 1 => t[k] = s[k - 1]
  BY <1>2, <1>3
<1> QED BY <1>1, <1>2, <1>3, <1>4, <1>5, <1>6

LEMMA HeadChanged ==
  ASSUME NEW S, NEW s \in Seq(S), s # <<>>, NEW x \in S, NEW t, t = <<x>> \o Tail(s)
  PROVE  /\ t \in Seq(S) /\ DOMAIN t = DOMAIN s
         /\ 1 \in DOMAIN s /\ Head(s) = s[1] /\ s[1] \in S
         /\ t[1] = x /\ \A k \in DOMAIN s : k # 1 => t[k] = s[k]
<1>1. Len(s) \in Nat \ {0} /\ DOMAIN s = 1..Len(s) /\ Head(s) = s[1]
  OBVIOUS
<1>2. Tail(s) \in Seq(S) /\ Len(Tail(s)) = Len(s) - 1
      /\ \A k \in 1..(Len(s) - 1) : Tail(s)[k] = s[k + 1]
  OBVIOUS
<1>3. t \in Seq(S) /\ t[1] = x /\ DOMAIN t = 1..(Len(Tail(s)) + 1)
      /\ \A k \in 1..Len(Tail(s)) : t[k + 1] = Tail(s)[k]
  BY <1>2
<1>4. ASSUME NEW k \in DOMAIN s, k # 1 PROVE t[k] = s[k]
  <2>1. k - 1 \in 1..(Len(s) - 1) /\ (k - 1) + 1 = k
    BY <1>1, <1>4
  <2> QED BY <1>2, <1>3, <2>1
<1>5. DOMAIN t = DOMAIN s /\ 1 \in DOMAIN s /\ s[1] \in S
  BY <1>1, <1>2, <1>3
<1> QED BY <1>1, <1>3, <1>4, <1>5

LEMMA Popped ==
  ASSUME NEW S, NEW s \in Seq(S), s # <<>>
  PROVE  /\ Tail(s) \in Seq(S) /\ 1 \in DOMAIN s /\ Head(s) = s[1] /\ s[1] \in S
         /\ \A k \in DOMAIN Tail(s) : k + 1 \in DOMAIN s /\ k + 1 # 1 /\ Tail(s)[k] = s[k + 1]
         /\ \A k \in DOMAIN s : k # 1 => k - 1 \in DOMAIN Tail(s) /\ Tail(s)[k - 1] = s[k]
<1>1. Len(s) \in Nat \ {0} /\ DOMAIN s = 1..Len(s) /\ Head(s) = s[1] /\ s[1] \in S
  OBVIOUS
<1>2. Tail(s) \in Seq(S) /\ DOMAIN Tail(s) = 1..(Len(s) - 1)
      /\ \A k \in 1..(Len(s) - 1) : Tail(s)[k] = s[k + 1]
  OBVIOUS
<1>3. \A k \in DOMAIN Tail(s) : k + 1 \in DOMAIN s /\ k + 1 # 1 /\ Tail(s)[k] = s[k + 1]
  BY <1>1, <1>2
<1>4. ASSUME NEW k \in DOMAIN s, k # 1 PROVE k - 1 \in DOMAIN Tail(s) /\ Tail(s)[k - 1] = s[k]
  <2>1. k - 1 \in 1..(Len(s) - 1) /\ (k - 1) + 1 = k
    BY <1>1, <1>4
  <2> QED BY <1>2, <2>1
<1> QED BY <1>1, <1>2, <1>3, <1>4

(* A function that takes as many arguments has been found.                 *)
LEMMA PrepareStep ==
  ASSUME IInv, Acts, NEW fr \in Frames, fr.pc = "args", fr.i = 0, Prepare(fr),
         Chosen(fr.ctx, fr.temp), UNCHANGED <<held, list, got, want>>,
         Slid,
         Sourced(fr, list', held', slip'), fr.found => Matches(fr.fn, fr.args)
  PROVE  IInv'
<1> DEFINE c   == fr.ctx
           n   == Len(Params[fr.fn])
           r   == [state |-> "prepared", ret |-> Null, own |-> Null, fn |-> fr.fn,
                   slots |-> [k \in DOMAIN Params[fr.fn] |-> Unset]]
           bad == [fr EXCEPT !.pc = "failed"]
<1>1. c \in Context /\ fr.fn \in Functions /\ fr.args \in Seq(Args) /\ fr.src \in List \cup {Null}
      /\ DOMAIN Params[fr.fn] = 1..n /\ n \in Nat
  BY ParamsTyped DEF Frames
<1>2. r \in Contexts
  <2>1. Unset \in Slots
    BY DEF Unset, Slots, Datum
  <2> DEFINE s == [k \in DOMAIN Params[fr.fn] |-> Unset]
  <2>2. s \in Seq(Slots)
    BY <1>1, <2>1
  <2> HIDE DEF s
  <2>3. [state |-> "prepared", ret |-> Null, own |-> Null, fn |-> fr.fn, slots |-> s] \in Contexts
    BY <1>1, <2>2 DEF Contexts, Datum
  <2> QED BY <2>3 DEF s
<1>3. bad \in Frames /\ bad.ctx = c /\ bad.pc = "failed" /\ bad.found = fr.found
      /\ bad.temp = fr.temp /\ bad.args = fr.args /\ bad.fn = fr.fn
  BY DEF Frames
<1>4. stack \in Seq(Frames)
  BY DEF IInv, Types
<1>5. \A k \in DOMAIN stack : /\ stack[k] \in Frames /\ stack[k].pc = "running"
                              /\ ctx[stack[k].ctx].state = "active" /\ stack[k].ctx \in Context
  BY ActingRuns DEF IInv, Frames
<1>6. PICK new \in {fr, bad} :
        /\ stack' = <<new>> \o stack
        /\ \/ /\ Busy(c) /\ new = bad /\ UNCHANGED <<refs, ctx, fault>>
           \/ /\ ~Busy(c) /\ new = (IF Len(fr.args) = n THEN fr ELSE bad)
              /\ ctx' = [ctx EXCEPT ![c] = r] /\ Counted(<<>>, Keeps(c))
  <2>1. [fr EXCEPT !.pc = "args"] = fr
    BY DEF Frames
  <2> QED BY <2>1 DEF Prepare
<1>7. fr.found => Len(fr.args) = n
  BY DEF Matches
<1> HIDE DEF n, r, bad
<1>8. new \in Frames /\ new.ctx = c /\ new.found = fr.found /\ new.temp = fr.temp
      /\ new.args = fr.args /\ new.pc \in {"args", "failed"} /\ (new.pc = "args" => new = fr)
  BY <1>3, <1>6
<1>9. /\ stack' \in Seq(Frames) /\ 1 \in DOMAIN stack' /\ stack'[1] = new
      /\ \A k \in DOMAIN stack : k + 1 \in DOMAIN stack' /\ k + 1 # 1 /\ stack'[k + 1] = stack[k]
      /\ \A k \in DOMAIN stack' : k # 1 => k - 1 \in DOMAIN stack /\ stack'[k] = stack[k - 1]
  BY <1>4, <1>6, <1>8, Pushed
<1>10. /\ \A d \in Context : d # c => ctx'[d] = ctx[d]
       /\ (Busy(c) /\ ctx' = ctx /\ new.pc = "failed") \/ (~Busy(c) /\ ctx'[c] = r)
  BY <1>1, <1>3, <1>6 DEF IInv, Types
<1>11. \A k \in DOMAIN stack : ctx'[stack[k].ctx] = ctx[stack[k].ctx]
  BY <1>5, <1>10 DEF Busy
<1>12. r.state = "prepared" /\ r.own = Null /\ Len(r.slots) = n
       /\ \A k \in 1..n : r.slots[k] = Unset
  BY <1>1 DEF r
<1>13. fault' = fault /\ refs' \in [Object -> Int] /\ RefsBalanced'
  <2>1. CASE UNCHANGED <<refs, ctx, fault>>
    BY <2>1 DEF IInv, Types, RefsBalanced, Keeps
  <2>2. CASE ctx' = [ctx EXCEPT ![c] = r] /\ Counted(<<>>, Keeps(c))
    <3>1. \A k \in DOMAIN r.slots : r.slots[k].own = Null
      <4>1. DOMAIN r.slots = 1..n
        BY <1>1 DEF r
      <4> QED BY <1>12, <4>1 DEF Unset
    <3>2. \A o \in Object : Times(KeepsOf(r), o) = 0
      BY <1>2, <1>12, <3>1, HoldsNothing
    <3> QED BY <1>1, <1>2, <2>2, <3>2, ContextEmptied DEF IInv
  <2> QED BY <1>6, <2>1, <2>2
<1>14. Types'
  BY <1>1, <1>2, <1>6, <1>9, <1>13 DEF IInv, Types
<1>15. Stacked'
  <2>1. ASSUME NEW k \in DOMAIN stack', k # 1
        PROVE  /\ stack'[k].pc = "running" /\ ctx'[stack'[k].ctx].state = "active"
               /\ \A l \in DOMAIN stack' : l # k /\ stack'[l].pc = "running" =>
                    stack'[l].ctx # stack'[k].ctx
    <3>1. k - 1 \in DOMAIN stack /\ stack'[k] = stack[k - 1]
      BY <1>9, <2>1
    <3>2. stack'[k].pc = "running" /\ ctx'[stack'[k].ctx].state = "active"
      BY <1>5, <1>11, <3>1
    <3>3. ASSUME NEW l \in DOMAIN stack', l # k, stack'[l].pc = "running"
          PROVE  stack'[l].ctx # stack'[k].ctx
      <4>1. l # 1
        BY <1>8, <1>9, <3>3
      <4>2. l - 1 \in DOMAIN stack /\ stack'[l] = stack[l - 1] /\ l - 1 # k - 1
        <5>1. k \in Int /\ l \in Int
          BY <1>9
        <5> QED BY <1>9, <3>3, <4>1, <5>1
      <4> QED BY <1>5, <3>1, <4>2 DEF IInv, Stacked
    <3> QED BY <3>2, <3>3
  <2>2. new.pc = "args" => ctx'[c].state = "prepared"
    BY <1>8, <1>10, <1>12
  <2>3. new.temp => ctx'[c].state # "active"
    BY <1>8, <1>10, <1>12 DEF Chosen, Busy
  <2>4. ASSUME NEW d \in Context, ctx'[d].state = "active"
        PROVE  \E k \in DOMAIN stack' : stack'[k].pc = "running" /\ stack'[k].ctx = d
    <3>1. ctx[d].state = "active"
      BY <1>10, <1>12, <2>4
    <3>2. PICK k \in DOMAIN stack : stack[k].pc = "running" /\ stack[k].ctx = d
      BY <3>1 DEF IInv, Stacked
    <3>3. k + 1 \in DOMAIN stack' /\ stack'[k + 1] = stack[k]
      BY <1>9
    <3> QED BY <3>2, <3>3
  <2> QED BY <1>8, <1>9, <2>1, <2>2, <2>3, <2>4 DEF Stacked
<1>16. Passing'
  <2>1. ASSUME NEW k \in DOMAIN stack', k # 1
        PROVE  /\ stack'[k].pc = "running"
               /\ InOrder(stack'[k], ctx'[stack'[k].ctx].slots, list', held', slip')
    <3>1. k - 1 \in DOMAIN stack /\ stack'[k] = stack[k - 1]
      BY <1>9, <2>1
    <3>2. stack[k - 1].pc = "running" /\ ctx'[stack[k - 1].ctx] = ctx[stack[k - 1].ctx]
      BY <1>5, <1>11, <3>1
    <3>3. InOrder(stack[k - 1], ctx[stack[k - 1].ctx].slots, list, held, slip)
      BY <3>1, <3>2 DEF IInv, Passing
    <3>4. InOrder(stack[k - 1], ctx[stack[k - 1].ctx].slots, list', held', slip')
      BY <3>3, StaysInOrder
    <3> QED BY <3>1, <3>2, <3>3, <3>4
  <2>2. ASSUME new.pc = "args"
        PROVE  /\ InOrder(new, ctx'[c].slots, list', held', slip')
               /\ Sourced(new, list', held', slip') /\ (new.found => Matches(new.fn, new.args))
    <3>1. new = fr /\ ctx'[c] = r /\ Len(fr.args) = n
      BY <1>3, <1>6, <1>8, <1>10, <2>2
    <3>2. Passes(fr, r.slots, slip')
      BY <1>1, <1>12, <3>1 DEF Passes, n
    <3>3. Follows(fr, r.slots, list', slip')
      <4>1. \A k \in DOMAIN r.slots : r.slots[k].from = Null
        <5>1. DOMAIN r.slots = 1..n
          BY <1>1 DEF r
        <5> QED BY <1>12, <5>1 DEF Unset
      <4> QED BY <4>1 DEF Follows
    <3>4. Lends(fr, r.slots, held', slip')
      <4>1. \A k \in DOMAIN r.slots : r.slots[k].data \notin Object
        <5>1. DOMAIN r.slots = 1..n
          BY <1>1 DEF r
        <5> QED BY <1>12, <5>1, CellsAssumption DEF Unset
      <4> QED BY <4>1 DEF Lends
    <3> QED BY <3>1, <3>2, <3>3, <3>4 DEF InOrder
  <2>3. ASSUME new.found, new.pc = "failed" PROVE Excused(new, ctx'[c])
    <3>1. Busy(c) /\ ctx' = ctx
      BY <1>6, <1>7, <1>8, <1>10, <2>3
    <3> QED BY <1>8, <3>1 DEF Excused, Busy
  <2>4. new.pc # "running"
    BY <1>8
  <2> QED BY <1>8, <1>9, <2>1, <2>2, <2>3, <2>4 DEF Passing
<1>17. Returning'
  <2>1. Empty(r) /\ r.state # "finished"
    BY <1>12 DEF Empty
  <2>2. \A d \in Context : Empty(ctx'[d]) /\ (ctx'[d].state = "finished" => Kept(ctx'[d]))
    BY <1>10, <2>1 DEF IInv, Returning
  <2> QED BY <2>2 DEF IInv, Returning
<1>18. FaultHasCause'
  BY <1>13 DEF FaultHasCause, Acts
<1> QED BY <1>13, <1>14, <1>15, <1>16, <1>17, <1>18 DEF IInv

(* A frame of a call with a list.                                          *)
LEMMA ListCallStep ==
  ASSUME IInv, Acts, NEW c \in Context, NEW f \in Functions, NEW l \in List,
         NEW temp \in BOOLEAN, NEW found \in BOOLEAN, Chosen(c, temp),
         SlipsIf("stored handle", \E k \in DOMAIN list[l] : IsHandle(list[l][k].type)),
         Prepare(Frame(c, f, list[l], l, temp, found)), found => Matches(f, list[l]),
         UNCHANGED <<held, list, got, want>>
  PROVE  IInv'
<1> DEFINE fr == Frame(c, f, list[l], l, temp, found)
<1>1. list[l] \in Seq(Args)
  BY DEF IInv, Types
<1>2. /\ fr \in Frames /\ fr.pc = "args" /\ fr.i = 0 /\ fr.ctx = c /\ fr.temp = temp
      /\ fr.src = l /\ fr.args = list[l] /\ fr.found = found /\ fr.fn = f
  BY <1>1 DEF Frame, Frames
<1> HIDE DEF fr
<1>3. Slid
  BY DEF SlipsIf, Slips, Slid
<1>4. Sourced(fr, list', held', slip')
  <2>1. l # Null
    BY CellsAssumption
  <2>2. slip' = "none" => \A k \in DOMAIN list[l] : ~IsHandle(list[l][k].type)
    BY DEF SlipsIf, Slips
  <2> QED BY <1>2, <2>1, <2>2 DEF Sourced
<1>5. Prepare(fr)
  BY DEF fr
<1> QED BY <1>2, <1>3, <1>4, <1>5, PrepareStep

LEMMA CallArgsStep ==
  ASSUME IInv, Acts, NEW c \in Context, NEW f \in Functions, NEW l \in List,
         NEW temp \in BOOLEAN, CallArgs(c, f, l, temp)
  PROVE  IInv'
BY ListCallStep DEF CallArgs

(* A set of natural numbers that is not empty has a least one.             *)
LEMMA LeastNumber ==
  ASSUME NEW S \in SUBSET Nat, S # {}
  PROVE  \E n \in S : \A m \in S : n <= m
<1>1. PICK n \in S : \A m \in S : <<m, n>> \notin OpToRel(<, Nat)
  BY NatLessThanWellFounded, WFMin
<1>2. ASSUME NEW m \in S PROVE n <= m
  <2>1. ~(m < n)
    BY <1>1 DEF OpToRel
  <2> QED BY <2>1
<1> QED BY <1>2

LEMMA CallFoundStep ==
  ASSUME IInv, Acts, NEW c \in Context, NEW l \in List, NEW temp \in BOOLEAN,
         CallFound(c, l, temp)
  PROVE  IInv'
<1> DEFINE fits == {k \in DOMAIN Function : Matches(Function[k], list[l])}
           m    == CHOOSE k \in fits : \A n \in fits : k <= n
<1>1. fits # {} /\ fits \in SUBSET Nat
  <2>1. Function \in Seq(Functions)
    BY SignatureAssumption
  <2>2. DOMAIN Function \subseteq Nat
    BY <2>1
  <2> QED BY <2>2 DEF CallFound
<1>2. \E k \in fits : \A n \in fits : k <= n
  <2> HIDE DEF fits
  <2> QED BY <1>1, LeastNumber
<1>3. m \in fits
  BY <1>2
<1>4. Function[m] \in Functions /\ Matches(Function[m], list[l])
  BY <1>3 DEF Functions
<1>5. /\ Chosen(c, temp) /\ UNCHANGED <<held, list, got, want>>
      /\ SlipsIf("stored handle", \E k \in DOMAIN list[l] : IsHandle(list[l][k].type))
      /\ Prepare(Frame(c, Function[m], list[l], l, temp, TRUE))
  BY DEF CallFound
<1> HIDE DEF m
<1> QED BY <1>4, <1>5, ListCallStep

LEMMA CallStep ==
  ASSUME IInv, Acts, NEW c \in Context, NEW f \in Functions, NEW xs \in Choices(TypesOf(f)),
         NEW temp \in BOOLEAN, Call(c, f, xs, temp)
  PROVE  IInv'
<1> DEFINE types == TypesOf(f)
           args  == [k \in DOMAIN types |->
                       Argument(Pointee(types[k]),
                                IF IsObject(types[k]) THEN Pointer(xs[k])
                                ELSE Loaded(types[k], xs[k]))]
           n     == Len(Params[f])
           fr    == Frame(c, f, args, Null, temp, FALSE)
<1>1. /\ Chosen(c, temp) /\ UNCHANGED <<held, list, got, want>>
      /\ SlipsIf("enum address", \E k \in DOMAIN types : IsEnum(types[k]) /\ Params[f][k].byRef)
      /\ Prepare(fr)
  BY DEF Call, TypesOf
<1>2. DOMAIN types = 1..n /\ n \in Nat /\ DOMAIN Params[f] = 1..n
      /\ \A k \in 1..n : types[k] \in TypeIds /\ types[k] = Params[f][k].type
  BY ParamsTyped
<1>3. ASSUME NEW k \in 1..n
      PROVE  args[k] \in Args /\ Holds(args[k]) \in held \cup {Null} /\ ~IsHandle(args[k].type)
  <2> DEFINE t == types[k]
             x == xs[k]
  <2>1. t \in TypeIds /\ x \in Values(t)
        /\ args[k] = Argument(Pointee(t), IF IsObject(t) THEN Pointer(x) ELSE Loaded(t, x))
    BY <1>2 DEF Choices
  <2> HIDE DEF t, x, args
  <2>2. Pointee(t) \in TypeIds /\ Pointee(Pointee(t)) = Pointee(t) /\ ~IsHandle(Pointee(t))
    BY <2>1, TypeKinds
  <2>3. CASE IsObject(t)
    <3>1. x \in Object \cup {Null} /\ x \in held \cup {Null}
          /\ (x # Null => Fits(Pointee(t), Class[x])) /\ IsObject(Pointee(t))
      BY <2>1, <2>3, ValuesFit, TypeKinds DEF IInv
    <3>2. args[k] = Argument(Pointee(t), Pointer(x))
      BY <2>1, <2>3
    <3>3. args[k] \in Args /\ Holds(args[k]) = x
      BY <2>2, <3>1, <3>2, ArgumentOfObject
    <3> QED BY <2>2, <3>1, <3>2, <3>3 DEF Argument
  <2>4. CASE ~IsObject(t)
    <3>1. InRange(t, x) /\ t \in Scalars /\ Pointee(t) = t
      BY <2>1, <2>4, ValuesFit, TypeKinds DEF IInv
    <3>2. args[k] = Argument(t, Loaded(t, x))
      BY <2>1, <2>4, <3>1
    <3>3. args[k] \in Args /\ Holds(args[k]) = Null
      BY <3>1, <3>2, ArgumentOfNumber
    <3> QED BY <2>2, <3>1, <3>2, <3>3 DEF Argument
  <2> QED BY <2>3, <2>4
<1>4. args \in Seq(Args) /\ DOMAIN args = 1..n
  <2>1. args = [k \in 1..n |-> args[k]] /\ DOMAIN args = 1..n
    BY <1>2
  <2> HIDE DEF n, args
  <2>2. args \in [1..n -> Args]
    BY <1>3, <2>1
  <2> QED BY <1>2, <2>1, <2>2
<1> HIDE DEF args
<1>5. /\ fr \in Frames /\ fr.pc = "args" /\ fr.i = 0 /\ fr.ctx = c /\ fr.temp = temp
      /\ fr.src = Null /\ fr.args = args /\ fr.found = FALSE /\ fr.fn = f
  BY <1>4 DEF Frame, Frames
<1>6. Slid
  BY <1>1 DEF SlipsIf, Slips, Slid
<1> HIDE DEF fr
<1>7. Sourced(fr, list', held', slip')
  <2>1. slip' = "none" => \A k \in 1..n : ~(IsEnum(types[k]) /\ Params[f][k].byRef)
    BY <1>1, <1>2 DEF SlipsIf, Slips
  <2> HIDE DEF types
  <2>2. \A k \in 1..n : Holds(args[k]) \in held' \cup {Null} /\ ~IsHandle(args[k].type)
    BY <1>1, <1>3
  <2> HIDE DEF n
  <2> QED BY <1>2, <1>4, <1>5, <2>1, <2>2 DEF Sourced
<1> QED BY <1>1, <1>5, <1>6, <1>7, PrepareStep

-----------------------------------------------------------------------------
(* The innermost call goes on.                                             *)

(* Every other call runs, in a context of its own.                         *)
LEMMA OthersRun ==
  ASSUME IInv, stack # <<>>, Top.pc \in {"args", "running"}
  PROVE  /\ Top = stack[1] /\ 1 \in DOMAIN stack /\ Top \in Frames
         /\ \A k \in DOMAIN stack : k # 1 =>
              /\ stack[k] \in Frames /\ stack[k].pc = "running"
              /\ stack[k].ctx # Top.ctx
<1>1. stack \in Seq(Frames)
  BY DEF IInv, Types
<1>2. Top = stack[1] /\ 1 \in DOMAIN stack /\ Top \in Frames
  BY <1>1 DEF Top
<1>3. ASSUME NEW k \in DOMAIN stack, k # 1
      PROVE  /\ stack[k] \in Frames /\ stack[k].pc = "running"
             /\ stack[k].ctx # Top.ctx
  <2>1. stack[k] \in Frames /\ stack[k].pc = "running" /\ ctx[stack[k].ctx].state = "active"
    BY <1>1, <1>3 DEF IInv, Stacked
  <2>2. Top.pc = "args" => ctx[Top.ctx].state = "prepared"
    BY <1>2 DEF IInv, Stacked
  <2>3. Top.pc = "running" => stack[k].ctx # Top.ctx
    BY <1>2, <1>3, <2>1 DEF IInv, Stacked
  <2> QED BY <2>1, <2>2, <2>3
<1> QED BY <1>2, <1>3

LEMMA HeadMoves ==
  ASSUME IInv, fault = "none", stack # <<>>, Top.pc \in {"args", "running"},
         NEW new \in Frames, NEW r \in Contexts, stack' = <<new>> \o Tail(stack),
         new.ctx = Top.ctx, ctx' = [ctx EXCEPT ![Top.ctx] = r],
         UNCHANGED <<held, list, got, want>>, Slid,
         fault' = fault, refs' \in [Object -> Int], RefsBalanced',
         new.pc = "running" <=> r.state = "active",
         new.pc = "args" => /\ r.state = "prepared" /\ Sourced(new, list, held, slip')
                            /\ new.found => Matches(new.fn, new.args),
         new.pc \in {"args", "running"} => InOrder(new, r.slots, list, held, slip'),
         new.found /\ new.pc = "failed" => Excused(new, r),
         Empty(r), r.state = "finished" => Kept(r)
  PROVE  IInv'
<1> DEFINE c == Top.ctx
<1>1. stack \in Seq(Frames) /\ c \in Context
  BY OthersRun DEF IInv, Types, Frames
<1>2. \A k \in DOMAIN stack : k # 1 => /\ stack[k] \in Frames /\ stack[k].pc = "running"
                                       /\ stack[k].ctx # c /\ stack[k].ctx \in Context
  BY OthersRun DEF Frames
<1>3. /\ stack' \in Seq(Frames) /\ DOMAIN stack' = DOMAIN stack /\ 1 \in DOMAIN stack
      /\ stack'[1] = new /\ \A k \in DOMAIN stack : k # 1 => stack'[k] = stack[k]
  BY <1>1, HeadChanged
<1>4. ctx'[c] = r /\ \A d \in Context : d # c => ctx'[d] = ctx[d]
  BY <1>1 DEF IInv, Types
<1> HIDE DEF c
<1>5. Types'
  BY <1>3, <1>4 DEF IInv, Types, c
<1>6. Stacked'
  <2>1. ASSUME NEW k \in DOMAIN stack, k # 1
        PROVE  /\ stack'[k].pc = "running" /\ ctx'[stack'[k].ctx].state = "active"
               /\ stack'[k].ctx # c
               /\ \A l \in DOMAIN stack : l # k /\ stack'[l].pc = "running" =>
                    stack'[l].ctx # stack'[k].ctx
    <3>1. stack'[k] = stack[k] /\ stack[k].pc = "running" /\ stack[k].ctx # c
          /\ ctx'[stack[k].ctx] = ctx[stack[k].ctx]
      BY <1>2, <1>3, <1>4, <2>1
    <3>2. ctx[stack[k].ctx].state = "active"
      BY <3>1 DEF IInv, Stacked
    <3>3. ASSUME NEW l \in DOMAIN stack, l # k, stack'[l].pc = "running"
          PROVE  stack'[l].ctx # stack[k].ctx
      <4>1. CASE l = 1
        BY <1>3, <3>1, <4>1 DEF c
      <4>2. CASE l # 1
        <5>1. stack'[l] = stack[l] /\ stack[l].pc = "running"
          BY <1>2, <1>3, <4>2
        <5> QED BY <3>1, <3>3, <5>1 DEF IInv, Stacked
      <4> QED BY <4>1, <4>2
    <3> QED BY <3>1, <3>2, <3>3
  <2>2. \A l \in DOMAIN stack : l # 1 => stack'[l].ctx # c
    BY <2>1
  <2>3. ASSUME NEW d \in Context, ctx'[d].state = "active"
        PROVE  \E k \in DOMAIN stack' : stack'[k].pc = "running" /\ stack'[k].ctx = d
    <3>1. CASE d = c
      BY <1>3, <1>4, <2>3, <3>1 DEF c
    <3>2. CASE d # c
      <4>1. ctx[d].state = "active"
        BY <1>4, <2>3, <3>2
      <4>2. PICK k \in DOMAIN stack : stack[k].pc = "running" /\ stack[k].ctx = d
        BY <4>1 DEF IInv, Stacked
      <4>3. k # 1
        BY <3>2, <4>2, OthersRun DEF c
      <4> QED BY <1>3, <4>2, <4>3
    <3> QED BY <3>1, <3>2
  <2>4. /\ new.ctx = c /\ ctx'[c] = r
        /\ new.pc = "running" => r.state = "active"
        /\ new.pc = "args" => r.state = "prepared"
        /\ new.pc = "done" \/ (new.pc = "failed" /\ new.temp) => r.state # "active"
    BY <1>4 DEF c
  <2> DEFINE InPlace(k, D) ==
        LET f == stack'[k]  d == ctx'[stack'[k].ctx] IN
        /\ k # 1 => f.pc = "running"
        /\ f.pc = "running" =>
             /\ d.state = "active"
             /\ \A l \in D : l # k /\ stack'[l].pc = "running" => stack'[l].ctx # f.ctx
        /\ f.pc = "args" => d.state = "prepared"
        /\ f.pc = "done" \/ (f.pc = "failed" /\ f.temp) => d.state # "active"
  <2>5. ASSUME NEW k \in DOMAIN stack
        PROVE  InPlace(k, DOMAIN stack)
    <3>1. CASE k # 1
      BY <2>1, <3>1
    <3>2. CASE k = 1
      <4>1. stack'[k] = new /\ ctx'[stack'[k].ctx] = r
        BY <1>3, <2>4, <3>2
      <4> QED BY <2>2, <2>4, <3>2, <4>1
    <3> QED BY <3>1, <3>2
  <2>6. \A k \in DOMAIN stack' : InPlace(k, DOMAIN stack')
    <3>1. DOMAIN stack' = DOMAIN stack
      BY <1>3
    <3> HIDE DEF InPlace
    <3> QED BY <2>5, <3>1
  <2> QED BY <2>3, <2>6 DEF Stacked
<1>7. Passing'
  <2>1. ASSUME NEW k \in DOMAIN stack, k # 1
        PROVE  /\ stack'[k].pc = "running"
               /\ InOrder(stack'[k], ctx'[stack'[k].ctx].slots, list', held', slip')
    <3>1. stack'[k] = stack[k] /\ stack[k].pc = "running"
          /\ ctx'[stack[k].ctx] = ctx[stack[k].ctx]
      BY <1>2, <1>3, <1>4, <2>1
    <3>2. InOrder(stack[k], ctx[stack[k].ctx].slots, list, held, slip)
      BY <3>1 DEF IInv, Passing
    <3>3. InOrder(stack[k], ctx[stack[k].ctx].slots, list', held', slip')
      BY <3>2, StaysInOrder
    <3> QED BY <3>1, <3>2, <3>3
  <2>2. /\ new.ctx = c /\ ctx'[c] = r
        /\ new.pc \in {"args", "running"} => InOrder(new, r.slots, list', held', slip')
        /\ new.pc = "args" => Sourced(new, list', held', slip')
                              /\ (new.found => Matches(new.fn, new.args))
        /\ new.found /\ new.pc = "failed" => Excused(new, r)
    BY <1>4 DEF c
  <2> QED BY <1>3, <2>1, <2>2 DEF Passing
<1>8. Returning'
  <2>1. \A d \in Context : Empty(ctx'[d]) /\ (ctx'[d].state = "finished" => Kept(ctx'[d]))
    BY <1>4 DEF IInv, Returning
  <2> QED BY <2>1 DEF IInv, Returning
<1>9. FaultHasCause'
  BY DEF FaultHasCause
<1> QED BY <1>5, <1>6, <1>7, <1>8, <1>9 DEF IInv

-----------------------------------------------------------------------------
(* Arguments are set.                                                      *)

LEMMA SettingFacts ==
  ASSUME IInv, Setting
  PROVE  LET n == Len(Params[Top.fn])  i == Top.i + 1  s == ctx[Top.ctx].slots IN
         /\ Top \in Frames /\ Top.ctx \in Context /\ ctx[Top.ctx] \in Contexts
         /\ ctx[Top.ctx].state = "prepared" /\ ctx[Top.ctx].own = Null
         /\ i \in 1..n /\ n \in Nat /\ DOMAIN s = 1..n /\ s \in Seq(Slots) /\ s[i] = Unset
         /\ DOMAIN Params[Top.fn] = 1..n /\ DOMAIN Top.args = 1..n /\ Top.i \in Nat
         /\ Param.type \in TypeIds /\ Param \in ParamTypes /\ Arg \in Args
         /\ InOrder(Top, s, list, held, slip)
         /\ Sourced(Top, list, held, slip)
         /\ Top.found => Matches(Top.fn, Top.args) /\ Takes(Param, Arg)
         /\ slip = "none" => /\ ~IsHandle(Arg.type)
                             /\ Top.src = Null => ~(IsEnum(Param.type) /\ Param.byRef)
         /\ IsObject(Arg.type) /\ Source # Null =>
              /\ Source \in Object /\ refs[Source] > 0
              /\ Fits(Pointee(Arg.type), Class[Source])
<1> DEFINE n == Len(Params[Top.fn])
           i == Top.i + 1
           s == ctx[Top.ctx].slots
<1>1. stack # <<>> /\ Top.pc = "args" /\ Top.i < n
  BY DEF Setting
<1>2. Top = stack[1] /\ 1 \in DOMAIN stack /\ Top \in Frames
  BY <1>1, OthersRun
<1>3. Top.fn \in Functions /\ Top.args \in Seq(Args) /\ Top.i \in Nat /\ Top.ctx \in Context
  BY <1>2 DEF Frames
<1>4. DOMAIN Params[Top.fn] = 1..n /\ n \in Nat
      /\ \A k \in 1..n : Params[Top.fn][k].type \in TypeIds /\ Params[Top.fn][k] \in ParamTypes
  BY <1>3, ParamsTyped
<1>5. i \in 1..n
  BY <1>1, <1>3, <1>4
<1>6. /\ InOrder(Top, s, list, held, slip) /\ Sourced(Top, list, held, slip)
      /\ Top.found => Matches(Top.fn, Top.args)
  BY <1>1, <1>2 DEF IInv, Passing
<1>7. ctx[Top.ctx].state = "prepared" /\ ctx[Top.ctx].own = Null /\ ctx[Top.ctx] \in Contexts
  BY <1>1, <1>2, <1>3 DEF IInv, Stacked, Returning, Empty, Types
<1>8. s \in Seq(Slots)
  BY <1>7 DEF Contexts
<1>9. DOMAIN s = 1..n /\ DOMAIN Top.args = 1..n /\ s[i] = Unset
  <2> HIDE DEF s
  <2>1. Len(Top.args) = n /\ Len(s) = n /\ \A k \in (Top.i + 1)..Len(s) : s[k] = Unset
    BY <1>6 DEF InOrder, Passes
  <2> QED BY <1>3, <1>5, <1>8, <2>1
<1>10. Param = Params[Top.fn][i] /\ Arg = Top.args[i] /\ Param.type \in TypeIds
       /\ Param \in ParamTypes
  BY <1>4, <1>5 DEF Param, Arg
<1>11. Arg \in Args
  BY <1>3, <1>5, <1>9, <1>10
<1>12. Top.found => Takes(Param, Arg)
  BY <1>5, <1>6, <1>9, <1>10 DEF Matches
<1>13. slip = "none" => /\ ~IsHandle(Arg.type)
                        /\ Top.src = Null => ~(IsEnum(Param.type) /\ Param.byRef)
  BY <1>4, <1>5, <1>6, <1>9, <1>10 DEF Sourced
<1>14. ASSUME IsObject(Arg.type), Source # Null
       PROVE  Source \in Object /\ refs[Source] > 0 /\ Fits(Pointee(Arg.type), Class[Source])
  <2>1. Holds(Arg) = Source /\ Source \in Object /\ Fits(Pointee(Arg.type), Class[Source])
    BY <1>11, <1>14, ArgHolds DEF Source
  <2>2. CASE Top.src # Null
    <3>1. Top.src \in List /\ Top.args = list[Top.src]
      BY <1>2, <1>6, <2>2 DEF Sourced, Frames
    <3>2. i \in DOMAIN list[Top.src] /\ Holds(list[Top.src][i]) = Source
      BY <1>5, <1>9, <1>10, <2>1, <3>1
    <3> QED BY <2>1, <3>1, <3>2, Alive DEF IInv
  <2>3. CASE Top.src = Null
    <3>1. Source \in held
      BY <1>5, <1>6, <1>9, <1>10, <1>14, <2>1, <2>3 DEF Sourced
    <3> QED BY <2>1, <3>1, Alive DEF IInv
  <2> QED BY <2>1, <2>2, <2>3
<1> QED BY <1>2, <1>3, <1>4, <1>5, <1>6, <1>7, <1>8, <1>9, <1>10, <1>11, <1>12, <1>13, <1>14

(* The next parameter is set to a slot, or left as it is, and the call     *)
(* goes on or fails.                                                       *)
(* What a slot that refers to this object or to none adds.                 *)
Gains(x) ==
  /\ fault' = fault /\ refs' \in [Object -> Int]
  /\ \A o \in Object : refs'[o] = refs[o] + One(x, o)

LEMMA SlotStep ==
  ASSUME IInv, Setting, NEW slot \in Slots, NEW goes \in BOOLEAN,
         ctx' = [ctx EXCEPT ![Top.ctx].slots[Top.i + 1] = slot],
         stack' = <<IF goes THEN [Top EXCEPT !.i = @ + 1] ELSE [Top EXCEPT !.pc = "failed"]>>
                    \o Tail(stack),
         goes => Gets(Param, Arg, slot, slip'),
         ~goes /\ Top.found => IsEnum(Arg.type) \/ Arg.type = "int32" \/ Arg.type = "function",
         slot.from \in {Null, Top.src}, Gains(slot.own), Slid,
         IsObject(Param.type) /\ Param.byRef /\ slot.data \in Object =>
           slot = Lend(Holds(Arg), Top.src)
  PROVE  IInv'
<1> DEFINE c   == Top.ctx
           n   == Len(Params[Top.fn])
           i   == Top.i + 1
           s   == ctx[c].slots
           t   == [s EXCEPT ![i] = slot]
           r   == [ctx[c] EXCEPT !.slots = t]
           new == IF goes THEN [Top EXCEPT !.i = @ + 1] ELSE [Top EXCEPT !.pc = "failed"]
<1>1. /\ Top \in Frames /\ c \in Context /\ ctx[c] \in Contexts
      /\ ctx[c].state = "prepared" /\ ctx[c].own = Null
      /\ i \in 1..n /\ n \in Nat /\ DOMAIN s = 1..n /\ s \in Seq(Slots) /\ s[i] = Unset
      /\ DOMAIN Params[Top.fn] = 1..n /\ DOMAIN Top.args = 1..n /\ Top.i \in Nat
      /\ Passes(Top, s, slip) /\ Follows(Top, s, list, slip) /\ Lends(Top, s, held, slip)
      /\ Sourced(Top, list, held, slip) /\ (Top.found => Matches(Top.fn, Top.args))
  BY SettingFacts DEF InOrder
<1>2. fault = "none" /\ stack # <<>> /\ Top.pc = "args" /\ UNCHANGED <<held, list, got, want>>
  BY DEF Setting
<1>3. /\ new \in Frames /\ new.ctx = c /\ new.fn = Top.fn /\ new.args = Top.args
      /\ new.src = Top.src /\ new.found = Top.found
      /\ goes => new.pc = "args" /\ new.i = i
      /\ ~goes => new.pc = "failed"
  <2>1. CASE goes
    <3>1. new = [Top EXCEPT !.i = @ + 1]
      BY <2>1
    <3>2. Top.i + 1 \in Nat
      BY <1>1
    <3> HIDE DEF new, c, n, s
    <3> QED BY <1>1, <1>2, <2>1, <3>1, <3>2 DEF Frames, c
  <2>2. CASE ~goes
    <3>1. new = [Top EXCEPT !.pc = "failed"]
      BY <2>2
    <3> HIDE DEF new
    <3> QED BY <1>1, <1>2, <2>2, <3>1 DEF Frames
  <2> QED BY <2>1, <2>2
<1>4. t \in Seq(Slots) /\ DOMAIN t = 1..n /\ t[i] = slot
      /\ \A k \in 1..n : k # i => t[k] = s[k]
  <2> HIDE DEF s, i, n
  <2> QED BY <1>1
<1>5. r \in Contexts /\ r.state = "prepared" /\ r.own = Null /\ r.slots = t
  <2> HIDE DEF t
  <2> QED BY <1>1, <1>4 DEF Contexts
<1>6. ctx' = [ctx EXCEPT ![c] = r]
  OBVIOUS
<1>7. stack' = <<new>> \o Tail(stack)
  OBVIOUS
<1>8. ASSUME NEW o \in Object
      PROVE  Times(KeepsOf(r), o) = Times(KeepsOf(ctx[c]), o) + One(slot.own, o)
             /\ Times(KeepsOf(ctx[c]), o) \in Nat /\ One(slot.own, o) \in 0..1
  <2>1. One(Null, o) = 0 /\ One(slot.own, o) \in 0..1
    BY CellsAssumption DEF One
  <2>2. /\ Times(KeepsOf(ctx[c]), o) = Times(Owned(s), o) + One(Null, o)
        /\ Times(Owned(s), o) \in Nat /\ IsFiniteSet(DOMAIN Owned(s))
    BY <1>1, KeepsCounted
  <2>3. /\ Times(KeepsOf(r), o) = Times(Owned(t), o) + One(Null, o)
        /\ Times(Owned(t), o) \in Nat
    <3> HIDE DEF r, t
    <3> QED BY <1>5, KeepsCounted
  <2>4. Times(Owned(t), o) = Times(Owned(s), o) - One(Null, o) + One(slot.own, o)
    <3> DEFINE S == Owned(s)
               T == Owned(t)
    <3>1. DOMAIN S = 1..n /\ DOMAIN T = 1..n /\ S[i] = Null /\ T[i] = slot.own
          /\ \A k \in 1..n : k # i => T[k] = S[k]
      <4> HIDE DEF s, t, i, n
      <4> QED BY <1>1, <1>4 DEF Owned, Unset
    <3> HIDE DEF S, T, i, n
    <3>2. IsFiniteSet(DOMAIN S)
      BY <2>2 DEF S
    <3>4. i \in DOMAIN S /\ DOMAIN T = DOMAIN S
          /\ \A k \in DOMAIN S : k # i => T[k] = S[k]
      BY <1>1, <3>1
    <3>3. Times(T, o) = Times(S, o) - One(S[i], o) + One(T[i], o)
      BY <3>2, <3>4, TimesChange
    <3> QED BY <3>1, <3>3 DEF S, T
  <2> HIDE DEF r, t, s
  <2> QED BY <2>1, <2>2, <2>3, <2>4
<1>9. fault' = fault /\ refs' \in [Object -> Int] /\ RefsBalanced'
  <2> HIDE DEF r, c
  <2>1. \A o \in Object :
          refs'[o] = refs[o] - Times(KeepsOf(ctx[c]), o) + Times(KeepsOf(r), o)
    <3> SUFFICES ASSUME NEW o \in Object
                 PROVE  refs'[o] = refs[o] - Times(KeepsOf(ctx[c]), o) + Times(KeepsOf(r), o)
      OBVIOUS
    <3>1. refs'[o] = refs[o] + One(slot.own, o) /\ refs[o] \in Int
      BY DEF Gains, IInv, Types
    <3> QED BY <1>8, <3>1
  <2>2. fault' = fault /\ refs' \in [Object -> Int]
    BY DEF Gains
  <2> QED BY <1>1, <1>2, <1>5, <1>6, <2>1, <2>2, ContextMoves DEF IInv
<1>10. ASSUME goes
       PROVE  InOrder(new, t, list, held, slip')
              /\ Sourced(new, list, held, slip') /\ (new.found => Matches(new.fn, new.args))
  <2>1. new.pc = "args" /\ new.i = i
    BY <1>3, <1>10
  <2>2. Passes(new, t, slip')
    <3>1. Len(Top.args) = n /\ Len(s) = n
          /\ (\A k \in 1..Top.i : Gets(Params[Top.fn][k], Top.args[k], s[k], slip'))
          /\ (\A k \in (Top.i + 1)..Len(s) : s[k] = Unset)
      BY <1>1 DEF Passes, Gets, Slid
    <3>2. Len(t) = n
      <4> HIDE DEF t, n
      <4> QED BY <1>1, <1>4
    <3>3. ASSUME NEW k \in 1..i PROVE Gets(Params[Top.fn][k], Top.args[k], t[k], slip')
      <4>1. CASE k = i
        BY <1>4, <1>10, <4>1 DEF Param, Arg
      <4>2. CASE k # i
        <5>1. k \in 1..Top.i /\ k \in 1..n
          BY <1>1, <4>2
        <5> HIDE DEF t, i
        <5> QED BY <1>4, <3>1, <4>2, <5>1
      <4> QED BY <4>1, <4>2
    <3>4. ASSUME NEW k \in (i + 1)..n PROVE t[k] = Unset
      <4>1. k \in 1..n /\ k # i /\ k \in (Top.i + 1)..n
        BY <1>1
      <4> HIDE DEF t, i
      <4> QED BY <1>4, <3>1, <4>1
    <3>5. i <= n
      BY <1>1
    <3> HIDE DEF new, t, i, n, s
    <3> QED BY <1>3, <2>1, <3>1, <3>2, <3>3, <3>4, <3>5 DEF Passes, n
  <2>3. Follows(new, t, list, slip')
    <3>1. ASSUME NEW k \in 1..n, t[k].from # Null
          PROVE  t[k].from = Top.src /\ (slip' = "none" => Top.args = list[Top.src])
      <4>1. CASE k = i
        <5>1. t[k].from = Top.src /\ Top.src # Null
          BY <1>4, <3>1, <4>1
        <5> QED BY <1>1, <5>1 DEF Sourced
      <4>2. CASE k # i
        <5>1. t[k] = s[k] /\ k \in DOMAIN s
          BY <1>1, <1>4, <4>2
        <5> HIDE DEF t, s
        <5> QED BY <1>1, <3>1, <5>1 DEF Follows, Slid
      <4> QED BY <4>1, <4>2
    <3> HIDE DEF new, t, n
    <3> QED BY <1>3, <1>4, <3>1 DEF Follows
  <2>4. Sourced(new, list, held, slip')
    <3> HIDE DEF new
    <3> QED BY <1>1, <1>3 DEF Sourced, Slid
  <2>5. Lends(new, t, held, slip')
    <3> DEFINE p(k) == Params[Top.fn][k]
    <3>1. ASSUME NEW k \in 1..n, IsObject(p(k).type), p(k).byRef, t[k].data \in Object
          PROVE  /\ t[k] = Lend(Holds(Top.args[k]), Top.src)
                 /\ Top.src = Null /\ slip' = "none" => t[k].data \in held
      <4>1. CASE k = i
        <5>1. Param = p(k) /\ Arg = Top.args[k] /\ t[k] = slot
          BY <1>4, <4>1 DEF Param, Arg
        <5>2. slot = Lend(Holds(Arg), Top.src)
          BY <3>1, <5>1
        <5>3. Top.src = Null => slot.data \in held
          <6>1. Top.src = Null => Holds(Arg) \in held \cup {Null}
            BY <1>1, <5>1 DEF Sourced
          <6>2. slot.data = Holds(Arg) /\ slot.data \in Object
            BY <3>1, <5>1, <5>2 DEF Lend
          <6> QED BY <6>1, <6>2, CellsAssumption
        <5> QED BY <5>1, <5>2, <5>3
      <4>2. CASE k # i
        <5>1. t[k] = s[k] /\ k \in DOMAIN s
          BY <1>1, <1>4, <4>2
        <5> HIDE DEF t, s, c
        <5> QED BY <1>1, <3>1, <5>1 DEF Lends, Slid
      <4> QED BY <4>1, <4>2
    <3> HIDE DEF new, t, n
    <3> QED BY <1>3, <1>4, <3>1 DEF Lends
  <2> HIDE DEF new, t
  <2> QED BY <1>1, <1>3, <2>2, <2>3, <2>4, <2>5 DEF InOrder
<1>11. ASSUME ~goes, new.found PROVE Excused(new, r)
  <2>1. Arg = Top.args[i] /\ i \in DOMAIN Top.args
    BY <1>1 DEF Arg
  <2> HIDE DEF new, r, i
  <2> QED BY <1>3, <1>11, <2>1 DEF Excused
<1>12. Empty(r)
  <2> HIDE DEF r
  <2> QED BY <1>5 DEF Empty
<1> HIDE DEF new, r, t
<1> QED BY <1>1, <1>2, <1>3, <1>5, <1>6, <1>7, <1>9, <1>10, <1>11, <1>12, HeadMoves

(* No reference is added for a slot that holds none.                       *)
LEMMA NoneOwned ==
  ASSUME IInv, UNCHANGED <<refs, fault>>
  PROVE  Gains(Null)
<1>1. \A o \in Object : One(Null, o) = 0 /\ refs[o] \in Int
  BY CellsAssumption DEF One, IInv, Types
<1>2. refs' \in [Object -> Int]
  BY DEF IInv, Types
<1> QED BY <1>1, <1>2 DEF Gains

(* A reference is added to an object that is alive.                        *)
LEMMA OneCounted ==
  ASSUME IInv, NEW x \in Object \cup {Null}, x # Null => refs[x] > 0, Counted(<<x>>, <<>>)
  PROVE  Gains(x)
<1> DEFINE one  == <<x>>
           none == <<>>
<1>1. \A o \in Object : Times(one, o) = One(x, o) /\ Times(none, o) = 0
  BY TimesSingle, TimesNothing
<1>2. Counted(one, none)
  OBVIOUS
<1> HIDE DEF one, none
<1>3. \A o \in Object : refs[o] \in Nat
  BY Alive DEF IInv
<1>4. \A o \in Object : One(x, o) \in 0..1 /\ (One(x, o) > 0 => x = o)
  BY DEF One
<1>5. \A o \in Object :
        /\ Times(one, o) \in Nat /\ Times(none, o) \in Nat
        /\ Times(one, o) > 0 => refs[o] > 0 \/ Class[o] = "value"
        /\ Times(none, o) <= refs[o] + Times(one, o)
  BY <1>1, <1>3, <1>4, CellsAssumption
<1>6. /\ fault' = fault /\ refs' \in [Object -> Int]
      /\ \A o \in Object : refs'[o] = refs[o] + Times(one, o) - Times(none, o)
  BY <1>2, <1>5, CountedChanges DEF IInv
<1>7. \A o \in Object : refs'[o] = refs[o] + One(x, o)
  BY <1>1, <1>3, <1>4, <1>6
<1> QED BY <1>6, <1>7 DEF Gains

(* A parameter is left as it is: the next one follows, or the call fails.  *)
LEMMA SkipStep ==
  ASSUME IInv, Setting, UNCHANGED <<refs, fault>>, Slid,
         \/ Goes /\ Gets(Param, Arg, Unset, slip')
         \/ /\ Refused
            /\ Top.found => IsEnum(Arg.type) \/ Arg.type = "int32" \/ Arg.type = "function"
  PROVE  IInv'
<1>1. Unset \in Slots /\ Unset.own = Null /\ Unset.from = Null /\ Unset.data \notin Object
  BY CellsAssumption DEF Unset, Slots, Datum
<1>2. ctx' = [ctx EXCEPT ![Top.ctx].slots[Top.i + 1] = Unset]
  <2> DEFINE c == Top.ctx
             i == Top.i + 1
             s == ctx[c].slots
  <2>1. c \in Context /\ ctx[c] \in Contexts /\ s \in Seq(Slots) /\ i \in DOMAIN s /\ s[i] = Unset
        /\ ctx \in [Context -> Contexts]
    BY SettingFacts DEF IInv, Types
  <2>2. [s EXCEPT ![i] = Unset] = s
    <3> HIDE DEF s, i
    <3> QED BY <2>1
  <2>3. [ctx[c] EXCEPT !.slots = s] = ctx[c]
    <3> HIDE DEF c
    <3> QED BY <2>1 DEF Contexts
  <2>4. [ctx EXCEPT ![c] = ctx[c]] = ctx
    <3> HIDE DEF c
    <3> QED BY <2>1
  <2>5. ctx' = ctx
    BY DEF Goes, Refused
  <2> QED BY <2>2, <2>3, <2>4, <2>5
<1>3. Gains(Unset.own)
  BY <1>1, NoneOwned
<1> DEFINE slot == Unset
<1> HIDE DEF slot
<1>4. CASE Goes /\ Gets(Param, Arg, Unset, slip')
  <2> DEFINE goes == TRUE
  <2>1. stack' = <<IF goes THEN [Top EXCEPT !.i = @ + 1]
                   ELSE [Top EXCEPT !.pc = "failed"]>> \o Tail(stack)
    BY <1>4 DEF Goes
  <2>2. goes = TRUE
    OBVIOUS
  <2> HIDE DEF goes
  <2> QED BY <1>1, <1>2, <1>3, <1>4, <2>1, <2>2, SlotStep DEF slot
<1>5. CASE /\ Refused
           /\ Top.found => IsEnum(Arg.type) \/ Arg.type = "int32" \/ Arg.type = "function"
  <2> DEFINE goes == FALSE
  <2>1. stack' = <<IF goes THEN [Top EXCEPT !.i = @ + 1]
                   ELSE [Top EXCEPT !.pc = "failed"]>> \o Tail(stack)
    BY <1>5 DEF Refused
  <2>2. goes = FALSE
    OBVIOUS
  <2> HIDE DEF goes
  <2> QED BY <1>1, <1>2, <1>3, <1>5, <2>1, <2>2, SlotStep DEF slot
<1> QED BY <1>4, <1>5

(* A parameter is set, and the next one follows.                           *)
LEMMA SetsStep ==
  ASSUME IInv, Setting, NEW slot \in Slots, Sets(slot), Gets(Param, Arg, slot, slip'),
         slot.from \in {Null, Top.src}, Gains(slot.own), Slid,
         IsObject(Param.type) /\ Param.byRef /\ slot.data \in Object =>
           slot = Lend(Holds(Arg), Top.src)
  PROVE  IInv'
<1> DEFINE goes == TRUE
<1>1. /\ ctx' = [ctx EXCEPT ![Top.ctx].slots[Top.i + 1] = slot]
      /\ stack' = <<IF goes THEN [Top EXCEPT !.i = @ + 1]
                    ELSE [Top EXCEPT !.pc = "failed"]>> \o Tail(stack)
  BY DEF Sets
<1>2. goes = TRUE
  OBVIOUS
<1> HIDE DEF goes
<1> QED BY <1>1, <1>2, SlotStep

(* A crash that the host is to blame for.                                  *)
LEMMA CrashStep ==
  ASSUME IInv, Setting, NEW what, Crashes(what), slip' # "none", Slid
  PROVE  IInv'
BY Unmoved DEF Setting, Crashes

LEMMA SetHandleStep ==
  ASSUME IInv, SetHandle
  PROVE  IInv'
<1> DEFINE slot == [data |-> Source, own |-> Source, from |-> Null]
<1>1. Setting /\ IsHandle(Param.type)
  BY DEF SetHandle
<1>2. /\ Param.type \in TypeIds /\ Arg \in Args
      /\ Top.found => Takes(Param, Arg)
      /\ ~Param.byRef
      /\ slip = "none" => ~IsHandle(Arg.type)
      /\ IsObject(Arg.type) /\ Source # Null =>
           Source \in Object /\ refs[Source] > 0 /\ Fits(Pointee(Arg.type), Class[Source])
  BY <1>1, SettingFacts DEF ParamTypes
<1>3. Arg.type \in TypeIds /\ Arg.kind = ArgumentTypeFromTypeId(Arg.type)
  BY <1>2, ArgHolds
<1>4. CASE IsHandle(Arg.type)
  <2>1. slip' # "none" /\ Slid
    BY <1>2, <1>4 DEF SetHandle, Slid
  <2>2. \E what : Crashes(what)
    BY <1>4 DEF SetHandle
  <2> QED BY <1>1, <2>1, <2>2, CrashStep
<1>5. CASE ~IsHandle(Arg.type) /\ ~IsObject(Arg.type)
  <2>1. Refused /\ UNCHANGED <<refs, fault, slip>>
    BY <1>5 DEF SetHandle
  <2>2. ~Takes(Param, Arg)
    <3>1. ArgumentTypeFromTypeId(Param.type) = "REF"
      BY <1>1, <1>2 DEF IsHandle, HandleTypes, ArgumentTypeFromTypeId, IsPrimitive, IsEnum,
                       IsFloat, Integer
    <3>2. ArgumentTypeFromTypeId(Arg.type) # "REF"
      BY <1>3, <1>5, TypeKinds
    <3> QED BY <1>3, <3>1, <3>2 DEF Takes
  <2> QED BY <1>1, <1>2, <2>1, <2>2, SkipStep DEF Slid
<1>6. CASE ~IsHandle(Arg.type) /\ IsObject(Arg.type)
  <2>1. Pointee(Arg.type) = Arg.type /\ Arg.type \in ObjectTypes
    BY <1>3, <1>6, TypeKinds DEF IsObject, IsHandle
  <2>2. slot \in Slots /\ slot.data = Source /\ slot.own = Source /\ slot.from = Null
    BY <1>2, <1>6 DEF Slots, Datum
  <2>3. Slid
    <3>1. Slips("function") => Slid
      BY DEF Slips, Slid
    <3>2. SlipsIf("wrong type", Incompatible) => Slid
      BY DEF Slips, SlipsIf, Slid
    <3>3. CASE Param.type = "function@"
      BY <1>6, <3>1, <3>3 DEF SetHandle, Slid
    <3>4. CASE Param.type # "function@"
      BY <1>6, <3>2, <3>4 DEF SetHandle
    <3> QED BY <3>3, <3>4
  <2>4. ASSUME Sets(slot), Counted(<<Source>>, <<>>),
               Source = Null \/ Pointee(Arg.type) = Pointee(Param.type)
                 \/ slip' = "wrong type"
        PROVE  IInv'
    <3>1. Gets(Param, Arg, slot, slip')
      BY <1>1, <2>2, <2>4 DEF Gets, Source
    <3>2. Gains(slot.own)
      BY <1>2, <1>6, <2>2, <2>4, OneCounted
    <3> HIDE DEF slot
    <3> QED BY <1>1, <1>2, <2>2, <2>3, <2>4, <3>1, <3>2, SetsStep
  <2>5. ASSUME Refused, UNCHANGED <<refs, fault>>,
               Top.found => IsEnum(Arg.type) \/ Arg.type = "int32" \/ Arg.type = "function"
        PROVE  IInv'
    BY <1>1, <2>3, <2>5, SkipStep
  <2>6. CASE Param.type = "function@"
    <3>1. Pointee(Param.type) = "function"
      BY <2>6 DEF Pointee
    <3>2. Source # Null /\ Class[Source] \in {"function", "delegate"} => Arg.type = "function"
      BY <1>2, <1>6, <2>1 DEF Fits, ObjectTypes
    <3>3. Takes(Param, Arg) => Arg.type = "function"
      BY <2>1, <2>6, <3>1 DEF Takes, EnumConverts, Integer, IsFloat
    <3>4. CASE Source = Null \/ Class[Source] # "function"
      <4>1. /\ slip' # "none"
            /\ \/ \E what : Crashes(what)
               \/ /\ Source # Null /\ Class[Source] = "delegate" /\ Sets(slot)
                  /\ Counted(<<Source>>, <<>>)
        BY <1>6, <2>6, <3>4 DEF SetHandle, Slips
      <4> HIDE DEF slot
      <4> QED BY <1>1, <2>1, <2>3, <2>4, <3>1, <3>2, <4>1, CrashStep
    <3>5. CASE ~(Source = Null \/ Class[Source] # "function")
      <4>1. \/ Refused /\ UNCHANGED <<refs, fault>>
            \/ Sets(slot) /\ Counted(<<Source>>, <<>>)
        BY <1>6, <2>6, <3>5 DEF SetHandle
      <4> HIDE DEF slot
      <4> QED BY <1>2, <2>1, <2>4, <2>5, <3>1, <3>2, <3>3, <3>5, <4>1
    <3> QED BY <3>4, <3>5
  <2>7. CASE Param.type # "function@"
    <3>1. Param.type = "object@" /\ Pointee(Param.type) = "object"
      BY <1>1, <2>7 DEF IsHandle, HandleTypes, Pointee
    <3>2. /\ SlipsIf("wrong type", Incompatible)
          /\ \/ Incompatible /\ Crashes("wild")
             \/ Sets(slot) /\ Counted(<<Source>>, <<>>)
      BY <1>6, <2>7 DEF SetHandle
    <3>3. CASE Incompatible
      <4>1. slip' = "wrong type"
        BY <3>2, <3>3 DEF SlipsIf, Slips
      <4> HIDE DEF slot
      <4> QED BY <1>1, <2>3, <2>4, <3>2, <4>1, CrashStep
    <3>4. CASE ~Incompatible
      <4>1. Source = Null \/ Pointee(Arg.type) = Pointee(Param.type)
        BY <3>4 DEF Incompatible
      <4> HIDE DEF slot
      <4> QED BY <2>4, <3>2, <3>4, <4>1
    <3> QED BY <3>3, <3>4
  <2> QED BY <2>6, <2>7
<1> QED BY <1>4, <1>5, <1>6

LEMMA SetObjectStep ==
  ASSUME IInv, SetObject
  PROVE  IInv'
<1>1. /\ Setting /\ IsObject(Param.type) /\ ~IsHandle(Param.type)
      /\ slip' = slip /\ fault' = fault /\ Slid
  BY DEF SetObject, Slid
<1>2. /\ Param.type \in TypeIds /\ Arg \in Args /\ Top \in Frames
      /\ IsObject(Arg.type) /\ Source # Null =>
           Source \in Object /\ refs[Source] > 0 /\ Fits(Pointee(Arg.type), Class[Source])
  BY <1>1, SettingFacts
<1>3. CASE Arg.type # Param.type
  <2>1. Goes /\ UNCHANGED <<refs, fault>>
    BY <1>1, <1>3 DEF SetObject
  <2>2. Gets(Param, Arg, Unset, slip')
    BY <1>1, <1>3 DEF Gets
  <2> QED BY <1>1, <2>1, <2>2, SkipStep
<1>4. CASE Arg.type = Param.type
  <2>1. Source \in Object \cup {Null} /\ Holds(Arg) = Source
    BY <1>1, <1>2, <1>4, ArgHolds DEF Source
  <2>2. ASSUME NEW from \in {Null, Top.src}, Sets(Lend(Source, from)), refs' = refs,
               Param.byRef => from = Top.src
        PROVE  IInv'
    <3> DEFINE slot == Lend(Source, from)
    <3>1. slot \in Slots /\ slot.data = Source /\ slot.own = Null /\ slot.from = from
      BY <1>2, <2>1 DEF Lend, Slots, Datum, Frames
    <3>2. Gets(Param, Arg, slot, slip')
      BY <1>4, <3>1 DEF Gets, Source
    <3>3. Gains(slot.own)
      BY <1>1, <2>2, <3>1, NoneOwned
    <3>4. Param.byRef => slot = Lend(Holds(Arg), Top.src)
      BY <2>1, <2>2
    <3> HIDE DEF slot
    <3>5. Sets(slot)
      BY <2>2 DEF slot
    <3> QED BY <1>1, <3>1, <3>2, <3>3, <3>4, <3>5, SetsStep
  <2>3. CASE Param.byRef
    <3>1. Sets(Lend(Source, Top.src)) /\ refs' = refs
      BY <1>4, <2>3 DEF SetObject
    <3> QED BY <2>2, <3>1
  <2>4. CASE ~Param.byRef /\ Source = Null
    <3>1. Sets(Lend(Source, Null)) /\ refs' = refs
      BY <1>4, <2>4 DEF SetObject
    <3> QED BY <2>2, <2>4, <3>1
  <2>5. CASE ~Param.byRef /\ Source # Null
    <3>1. PICK o \in Object : /\ refs[o] = 0 /\ refs' = [refs EXCEPT ![o] = 1]
                              /\ Sets([data |-> Source, own |-> o, from |-> Null])
      BY <1>4, <2>5 DEF SetObject
    <3> DEFINE slot == [data |-> Source, own |-> o, from |-> Null]
    <3>2. slot \in Slots /\ slot.data = Source /\ slot.own = o /\ slot.from = Null
      BY <2>1 DEF Slots, Datum
    <3>3. Gets(Param, Arg, slot, slip')
      BY <1>4, <3>2 DEF Gets, Source
    <3>4. Gains(slot.own)
      <4>1. refs \in [Object -> Int]
        BY DEF IInv, Types
      <4>2. \A p \in Object : refs'[p] = refs[p] + One(o, p)
        BY <3>1, <4>1 DEF One
      <4>3. refs' \in [Object -> Int]
        BY <3>1, <4>1
      <4> QED BY <1>1, <3>2, <4>2, <4>3 DEF Gains
    <3>5. Sets(slot)
      BY <3>1
    <3> HIDE DEF slot
    <3> QED BY <1>1, <2>5, <3>2, <3>3, <3>4, <3>5, SetsStep
  <2> QED BY <2>3, <2>4, <2>5
<1> QED BY <1>3, <1>4

(* What is read of the union, and what is cast.                            *)
LEMMA ReadType ==
  ASSUME NEW a \in Args, NEW m \in IntMembers \cup {"flValue", "dValue", "pValue"}
  PROVE  /\ Read(a.val, m) \in Datum
         /\ m = Member(a.type) => Read(a.val, m) = a.val.data
<1>1. /\ a.type \in TypeIds /\ a.val.member = Member(a.type) /\ a.val.data \in Datum
      /\ ~IsObject(a.type) => InRange(a.type, a.val.data)
  BY ArgHolds
<1>2. CASE {Member(a.type), m} \subseteq IntMembers
  <2>1. a.val.data \in Int
    <3>1. ~IsObject(a.type)
      BY <1>1, <1>2, TypeKinds DEF IntMembers
    <3> QED BY <1>1, <3>1 DEF InRange
  <2>2. Span[m] \in Nat \ {0}
    BY <1>2, SpanAssumption
  <2>3. a.val.data % Span[m] \in Int
    <3> DEFINE x == a.val.data
               n == Span[m]
    <3>1. x \in Int /\ n \in Nat \ {0}
      BY <2>1, <2>2
    <3> HIDE DEF x, n
    <3>2. x % n \in Int
      BY <3>1
    <3> QED BY <3>2 DEF x, n
  <2> QED BY <1>1, <2>3 DEF Read, Datum
<1>3. CASE ~({Member(a.type), m} \subseteq IntMembers)
  BY <1>1, <1>3 DEF Read, Datum
<1> QED BY <1>2, <1>3

LEMMA CastType ==
  ASSUME NEW a \in Args, a.type \in Scalars, NEW p \in Scalars
  PROVE  /\ Cast(p, a.type, a.val) \in Datum
         /\ a.type = p => Cast(p, a.type, a.val) = a.val.data
<1>1. /\ a.type \in TypeIds /\ a.val.member = Member(a.type) /\ p \in TypeIds
      /\ InRange(a.type, a.val.data)
      /\ Member(a.type) \in IntMembers \cup {"flValue", "dValue", "pValue"}
  <2>1. a.type \in TypeIds /\ p \in TypeIds
    BY DEF TypeIds
  <2> QED BY <2>1, ArgHolds, TypeKinds
<1>2. Largest(a.type, a.val) = a.val.data /\ a.val.data \in Int /\ a.val.data \in Datum
  BY <1>1, ReadType DEF Largest, InRange, Datum
<1>3. CASE IsEnum(p)
  <2>1. Cast(p, a.type, a.val) = Read(a.val, "dword")
    BY <1>3 DEF Cast
  <2>2. a.type = p => Member(a.type) = "dword"
    BY <1>3 DEF IsEnum, Member
  <2> QED BY <2>1, <2>2, ReadType DEF IntMembers
<1>4. CASE ~IsEnum(p) /\ IsFloat(p)
  BY <1>2, <1>4 DEF Cast
<1>5. CASE ~IsEnum(p) /\ ~IsFloat(p)
  <2> DEFINE x == a.val.data
             n == Span[Member(p)]
  <2>1. Member(p) \in IntMembers
    BY <1>5 DEF Scalars, IsEnum, IsFloat, Integer, Member, IntMembers
  <2>2. x \in Int /\ n \in Nat \ {0} /\ (a.type = p => x \in 0..(n - 1))
    BY <1>1, <1>2, <2>1, SpanAssumption DEF InRange
  <2>3. Cast(p, a.type, a.val) = x % n
    BY <1>2, <1>5 DEF Cast
  <2> HIDE DEF x, n
  <2>4. x % n \in Int /\ (a.type = p => x % n = x)
    BY <2>2
  <2> QED BY <2>3, <2>4 DEF x, Datum
<1> QED BY <1>3, <1>4, <1>5

LEMMA SetReferenceStep ==
  ASSUME IInv, SetReference
  PROVE  IInv'
<1>1. Setting /\ ~IsObject(Param.type) /\ Param.byRef /\ UNCHANGED <<refs, slip>>
  BY DEF SetReference
<1>2. /\ Param.type \in TypeIds /\ Arg \in Args /\ Top \in Frames
      /\ Top.found => Takes(Param, Arg)
      /\ slip = "none" /\ Top.src = Null => ~(IsEnum(Param.type) /\ Param.byRef)
  BY <1>1, SettingFacts
<1>3. Arg.type \in TypeIds /\ Arg.kind = ArgumentTypeFromTypeId(Arg.type)
  BY <1>2, ArgHolds
<1>4. CASE IsEnum(Param.type) /\ ~(IsPrimitive(Arg.type) \/ IsEnum(Arg.type))
  <2>1. Refused /\ UNCHANGED fault
    BY <1>4 DEF SetReference
  <2>2. ~Takes(Param, Arg)
    <3>1. ArgumentTypeFromTypeId(Param.type) = "ENUM"
      BY <1>2, <1>4, TypeKinds
    <3>2. ArgumentTypeFromTypeId(Arg.type) \notin {"ENUM", "PRIMITIVE"}
      BY <1>3, <1>4, TypeKinds
    <3> QED BY <1>3, <3>1, <3>2 DEF Takes
  <2> QED BY <1>1, <1>2, <2>1, <2>2, SkipStep DEF Slid
<1>5. CASE /\ ~(IsEnum(Param.type) /\ ~(IsPrimitive(Arg.type) \/ IsEnum(Arg.type)))
           /\ IsEnum(Param.type) /\ Top.src = Null
  <2>1. Crashes("wild")
    BY <1>5 DEF SetReference
  <2> QED BY <1>1, <1>2, <1>5, <2>1, CrashStep DEF Slid
<1>6. CASE /\ ~(IsEnum(Param.type) /\ ~(IsPrimitive(Arg.type) \/ IsEnum(Arg.type)))
           /\ ~(IsEnum(Param.type) /\ Top.src = Null)
  <2> DEFINE x == Read(Arg.val, Member(Param.type))
             slot == [data |-> x, own |-> Null, from |-> Top.src]
  <2>1. Sets(slot) /\ UNCHANGED fault
    BY <1>6 DEF SetReference
  <2>2. x \in Datum /\ (Arg.type = Param.type => x = Arg.val.data)
    <3>1. Member(Param.type) \in IntMembers \cup {"flValue", "dValue", "pValue"}
      BY <1>2, TypeKinds
    <3> QED BY <1>2, <3>1, ReadType
  <2> HIDE DEF x
  <2>3. slot \in Slots /\ slot.data = x /\ slot.own = Null /\ slot.from = Top.src
    BY <1>2, <2>2 DEF Slots, Frames
  <2>4. Gets(Param, Arg, slot, slip')
    BY <1>1, <2>2, <2>3 DEF Gets
  <2>5. Gains(slot.own)
    BY <1>1, <2>1, <2>3, NoneOwned
  <2> HIDE DEF slot
  <2> QED BY <1>1, <2>1, <2>3, <2>4, <2>5, SetsStep DEF Slid
<1> QED BY <1>4, <1>5, <1>6

LEMMA SetNumberStep ==
  ASSUME IInv, SetNumber
  PROVE  IInv'
<1>1. Setting /\ ~IsObject(Param.type) /\ ~Param.byRef /\ UNCHANGED <<refs, fault, slip>>
  BY DEF SetNumber
<1>2. /\ Param.type \in TypeIds /\ Arg \in Args
      /\ Top.found => Takes(Param, Arg)
  BY <1>1, SettingFacts
<1>3. Arg.type \in TypeIds /\ Arg.kind = ArgumentTypeFromTypeId(Arg.type)
  BY <1>2, ArgHolds
<1>4. Param.type \in Scalars /\ ArgumentTypeFromTypeId(Param.type) \in {"ENUM", "PRIMITIVE"}
      /\ Pointee(Param.type) = Param.type
  BY <1>1, <1>2, TypeKinds
<1>5. CASE ~(IsPrimitive(Arg.type) \/ IsEnum(Arg.type))
  <2>1. Refused
    BY <1>5 DEF SetNumber
  <2>2. ~Takes(Param, Arg)
    <3>1. ArgumentTypeFromTypeId(Arg.type) \notin {"ENUM", "PRIMITIVE"}
      BY <1>3, <1>5, TypeKinds
    <3> QED BY <1>3, <1>4, <3>1 DEF Takes
  <2> QED BY <1>1, <1>2, <2>1, <2>2, SkipStep DEF Slid
<1>6. CASE IsPrimitive(Arg.type) \/ IsEnum(Arg.type)
  <2> DEFINE x == Cast(Param.type, Arg.type, Arg.val)
             slot == [data |-> x, own |-> Null, from |-> Null]
  <2>1. Arg.type \in Scalars /\ Pointee(Arg.type) = Arg.type
    BY <1>3, <1>6, TypeKinds
  <2>2. x \in Datum /\ (Arg.type = Param.type => x = Arg.val.data)
    BY <1>2, <1>4, <2>1, CastType
  <2>3. \/ (IsEnum(Param.type) \/ Param.type = Arg.type) /\ Sets(slot)
        \/ /\ ~(IsEnum(Param.type) \/ Param.type = Arg.type)
           /\ ctx' = [ctx EXCEPT ![Top.ctx].slots[Top.i + 1] = slot]
           /\ stack' = <<[Top EXCEPT !.pc = "failed"]>> \o Tail(stack)
    BY <1>6 DEF SetNumber
  <2> HIDE DEF x
  <2>4. slot \in Slots /\ slot.data = x /\ slot.own = Null /\ slot.from = Null
    BY <2>2 DEF Slots
  <2>5. Gains(slot.own)
    BY <1>1, <2>4, NoneOwned
  <2> HIDE DEF slot
  <2>6. CASE (IsEnum(Param.type) \/ Param.type = Arg.type) /\ Sets(slot)
    <3>1. Gets(Param, Arg, slot, slip')
      BY <2>2, <2>4, <2>6 DEF Gets
    <3> QED BY <1>1, <2>4, <2>5, <2>6, <3>1, SetsStep DEF Slid
  <2>7. CASE /\ ~(IsEnum(Param.type) \/ Param.type = Arg.type)
             /\ ctx' = [ctx EXCEPT ![Top.ctx].slots[Top.i + 1] = slot]
             /\ stack' = <<[Top EXCEPT !.pc = "failed"]>> \o Tail(stack)
    <3>1. Top.found => IsEnum(Arg.type) \/ Arg.type = "int32" \/ Arg.type = "function"
      BY <1>2, <1>4, <2>1, <2>7 DEF Takes, EnumConverts
    <3> DEFINE goes == FALSE
    <3>2. stack' = <<IF goes THEN [Top EXCEPT !.i = @ + 1]
                     ELSE [Top EXCEPT !.pc = "failed"]>> \o Tail(stack)
      BY <2>7
    <3>3. goes = FALSE
      OBVIOUS
    <3> HIDE DEF goes
    <3> QED BY <1>1, <2>4, <2>5, <2>7, <3>1, <3>2, <3>3, SlotStep DEF Slid
  <2> QED BY <2>3, <2>6, <2>7
<1> QED BY <1>5, <1>6

-----------------------------------------------------------------------------
(* The function runs, and the call returns.                                *)

LEMMA StateBalances ==
  ASSUME IInv, NEW c \in Context, NEW r \in Contexts, ctx' = [ctx EXCEPT ![c] = r],
         r.slots = ctx[c].slots, r.own = ctx[c].own, UNCHANGED <<refs, held, list, got>>
  PROVE  RefsBalanced' /\ refs' \in [Object -> Int]
<1>1. ASSUME NEW d \in Context PROVE Keeps(d)' = Keeps(d)
  BY DEF IInv, Types, Keeps
<1>2. [d \in Context |-> Keeps(d)]' = [d \in Context |-> Keeps(d)]
  BY <1>1
<1>3. RefsBalanced'
  BY <1>2 DEF IInv, RefsBalanced
<1> QED BY <1>3 DEF IInv, Types

LEMMA ExecuteStep ==
  ASSUME IInv, Execute
  PROVE  IInv'
<1> DEFINE c   == Top.ctx
           r   == [ctx[c] EXCEPT !.state = "active"]
           new == [Top EXCEPT !.pc = "running"]
<1>1. /\ fault = "none" /\ stack # <<>> /\ Top.pc = "args" /\ Top.i = Len(Params[Top.fn])
      /\ stack' = <<new>> \o Tail(stack) /\ ctx' = [ctx EXCEPT ![c] = r]
      /\ UNCHANGED <<refs, held, list, got, want, fault, slip>>
  BY DEF Execute
<1>2. Top = stack[1] /\ 1 \in DOMAIN stack /\ Top \in Frames
  BY <1>1, OthersRun
<1>3. c \in Context /\ ctx[c] \in Contexts /\ ctx[c].state = "prepared" /\ ctx[c].own = Null
  BY <1>1, <1>2 DEF IInv, Types, Frames, Stacked, Returning, Empty
<1>4. r \in Contexts /\ r.state = "active" /\ r.slots = ctx[c].slots /\ r.own = ctx[c].own
  BY <1>3 DEF Contexts
<1>5. /\ new \in Frames /\ new.ctx = c /\ new.pc = "running" /\ new.fn = Top.fn
      /\ new.args = Top.args /\ new.i = Top.i /\ new.src = Top.src
  BY <1>2 DEF Frames
<1>6. RefsBalanced' /\ refs' \in [Object -> Int]
  <2> HIDE DEF r, c
  <2> QED BY <1>1, <1>3, <1>4, StateBalances
<1>7. InOrder(Top, ctx[c].slots, list, held, slip)
  BY <1>1, <1>2 DEF IInv, Passing
<1> DEFINE s == ctx[c].slots
<1> HIDE DEF new, r, s
<1>8. InOrder(Top, s, list, held, slip) /\ r.slots = s
  BY <1>4, <1>7 DEF s
<1>9. InOrder(new, r.slots, list, held, slip')
  <2>1. Passes(new, s, slip)
    BY <1>1, <1>5, <1>8 DEF InOrder, Passes
  <2>2. Follows(new, s, list, slip)
    BY <1>5, <1>8 DEF InOrder, Follows
  <2>3. Lends(new, s, held, slip)
    BY <1>5, <1>8 DEF InOrder, Lends
  <2> QED BY <1>1, <1>8, <2>1, <2>2, <2>3 DEF InOrder
<1>10. Empty(r)
  BY <1>3, <1>4 DEF Empty
<1> QED BY <1>1, <1>4, <1>5, <1>6, <1>8, <1>9, <1>10, HeadMoves DEF Slid

LEMMA StopsStep ==
  ASSUME IInv, NEW how \in {"exception", "suspended"}, Stops(how)
  PROVE  IInv'
<1> DEFINE c   == Top.ctx
           r   == [ctx[c] EXCEPT !.state = how]
           new == [Top EXCEPT !.pc = "done"]
<1>1. /\ fault = "none" /\ stack # <<>> /\ Top.pc = "running"
      /\ stack' = <<new>> \o Tail(stack) /\ ctx' = [ctx EXCEPT ![c] = r]
      /\ UNCHANGED <<refs, held, list, got, want, fault, slip>>
  BY DEF Stops
<1>2. Top = stack[1] /\ 1 \in DOMAIN stack /\ Top \in Frames
  BY <1>1, OthersRun
<1>3. c \in Context /\ ctx[c] \in Contexts
  BY <1>2 DEF IInv, Types, Frames
<1>4. r \in Contexts /\ r.state = how /\ r.slots = ctx[c].slots /\ r.own = ctx[c].own
  BY <1>3 DEF Contexts
<1>5. new \in Frames /\ new.ctx = c /\ new.pc = "done"
  BY <1>2 DEF Frames
<1>6. RefsBalanced' /\ refs' \in [Object -> Int]
  <2> HIDE DEF r, c
  <2> QED BY <1>1, <1>3, <1>4, StateBalances
<1> HIDE DEF new, r
<1>7. Empty(r) /\ r.state # "finished" /\ r.state # "active"
  BY <1>4 DEF Empty
<1> QED BY <1>1, <1>4, <1>5, <1>6, <1>7, HeadMoves DEF Slid

(* Without a slip, a parameter that is an address leads to its argument.   *)
LEMMA ReadArgumentStep ==
  ASSUME IInv, ReadArgument
  PROVE  IInv'
<1> DEFINE s == ctx[Top.ctx].slots
<1>1. /\ stack # <<>> /\ Top.pc = "running"
      /\ UNCHANGED <<refs, held, list, ctx, stack, got, want, slip>>
  BY DEF ReadArgument
<1>2. PICK k \in DOMAIN Params[Top.fn] : Dangles(Params[Top.fn][k], s[k])
  BY DEF ReadArgument
<1>3. Top = stack[1] /\ 1 \in DOMAIN stack /\ Top \in Frames
  BY <1>1, OthersRun
<1>4. Top.fn \in Functions /\ Top.src \in List \cup {Null} /\ Top.args \in Seq(Args)
      /\ Top.ctx \in Context /\ s \in Seq(Slots)
  BY <1>3 DEF Frames, IInv, Types, Contexts
<1>5. Passes(Top, s, slip) /\ Follows(Top, s, list, slip) /\ Lends(Top, s, held, slip)
  BY <1>1, <1>3 DEF IInv, Passing, InOrder
<1> DEFINE p == Params[Top.fn][k]
<1>6. k \in DOMAIN s /\ k \in DOMAIN Top.args /\ p \in ParamTypes
  <2>1. DOMAIN Params[Top.fn] = 1..Len(Params[Top.fn]) /\ p \in ParamTypes
    BY <1>4, ParamsTyped
  <2> HIDE DEF s
  <2> QED BY <1>4, <1>5, <2>1 DEF Passes
<1> HIDE DEF s
<1>7. CASE ~IsObject(p.type)
  <2>1. s[k].from # Null /\ Top.args # list[s[k].from]
    BY <1>2, <1>7 DEF Dangles
  <2>2. slip # "none"
    BY <1>5, <1>6, <2>1 DEF Follows
  <2> QED BY <1>1, <2>2, Unmoved DEF Slid
<1>8. CASE IsObject(p.type)
  <2>1. p.byRef /\ s[k].data \in Object /\ refs[s[k].data] = 0
    BY <1>2, <1>8 DEF Dangles
  <2>2. /\ s[k] = Lend(Holds(Top.args[k]), Top.src)
        /\ Top.src = Null /\ slip = "none" => s[k].data \in held
    BY <1>5, <1>6, <1>8, <2>1 DEF Lends
  <2>3. s[k].data = Holds(Top.args[k]) /\ s[k].from = Top.src
    BY <2>2 DEF Lend
  <2>4. CASE Top.src = Null
    <3>1. slip # "none"
      BY <2>1, <2>2, <2>4, Alive DEF IInv
    <3> QED BY <1>1, <3>1, Unmoved DEF Slid
  <2>5. CASE Top.src # Null
    <3>1. slip = "none" => Top.args = list[Top.src]
      BY <1>5, <1>6, <2>3, <2>5 DEF Follows
    <3>2. slip = "none" => refs[s[k].data] > 0
      BY <1>4, <1>6, <2>1, <2>3, <2>5, <3>1, Alive DEF IInv
    <3>3. slip # "none"
      BY <2>1, <3>2
    <3> QED BY <1>1, <3>3, Unmoved DEF Slid
  <2> QED BY <2>4, <2>5
<1> QED BY <1>7, <1>8

LEMMA FinishesStep ==
  ASSUME IInv, NEW x \in Results(Top.fn), Finishes(x)
  PROVE  IInv'
<1> DEFINE c   == Top.ctx
           f   == Top.fn
           own == IF IsObject(Returns[f]) THEN x ELSE Null
           r   == [state |-> "finished", slots |-> <<>>, ret |-> x, own |-> own, fn |-> f]
           new == [Top EXCEPT !.pc = "done"]
           old == Owned(ctx[c].slots)
<1>1. /\ fault = "none" /\ stack # <<>> /\ Top.pc = "running"
      /\ stack' = <<new>> \o Tail(stack) /\ ctx' = [ctx EXCEPT ![c] = r]
      /\ Counted(<<own>>, old)
      /\ UNCHANGED <<held, list, got, want, slip>>
  BY DEF Finishes
<1>2. Top = stack[1] /\ 1 \in DOMAIN stack /\ Top \in Frames
  BY <1>1, OthersRun
<1>3. c \in Context /\ ctx[c] \in Contexts /\ f \in Functions /\ ctx[c].own = Null
  BY <1>1, <1>2 DEF IInv, Types, Frames, Stacked, Returning, Empty
<1>4. Returns[f] \in Scalars \cup {"void", "value", "object@"}
  BY <1>3, SignatureAssumption
<1>5. /\ Returns[f] = "void" => x = Null
      /\ Returns[f] \in {"value", "object@"} => x \in Object \cup {Null}
      /\ Returns[f] \in {"value", "object@"} /\ x # Null => refs[x] > 0 \/ Class[x] = "value"
      /\ Returns[f] \in Scalars => InRange(Returns[f], x)
      /\ Returns[f] \in {"value", "object@"} <=> IsObject(Returns[f])
  <2>1. CASE Returns[f] = "void"
    BY <2>1 DEF Results, IsObject, ObjectTypes, HandleTypes, Scalars, Integer
  <2>2. CASE Returns[f] = "value"
    BY <2>2 DEF Results, IsObject, ObjectTypes, HandleTypes, Scalars, Integer
  <2>3. CASE Returns[f] = "object@"
    <3>1. \/ x = Null
          \/ x \in held
          \/ x \in Object /\ refs[x] > 0
      BY <2>3 DEF Results
    <3>2. x \in held => x \in Object /\ refs[x] > 0
      BY Alive DEF IInv, Types
    <3> QED BY <2>3, <3>1, <3>2 DEF IsObject, ObjectTypes, HandleTypes, Scalars, Integer
  <2>4. CASE Returns[f] \in Scalars
    <3>1. x \in Numbers[Returns[f]]
      BY <2>4 DEF Results, Scalars, Integer
    <3>2. InRange(Returns[f], x)
      BY <2>4, <3>1, NumbersInRange
    <3> QED BY <2>4, <3>2 DEF IsObject, ObjectTypes, HandleTypes, Scalars, Integer
  <2> QED BY <1>4, <2>1, <2>2, <2>3, <2>4
<1>6. own \in Object \cup {Null} /\ (own # Null => refs[own] > 0 \/ Class[own] = "value")
      /\ (IsObject(Returns[f]) => own = x)
  BY <1>5
<1>7. x \in Datum
  BY <1>4, <1>5 DEF Datum, InRange
<1> HIDE DEF own, c, f
<1>8. r \in Contexts /\ r.state = "finished" /\ r.own = own /\ r.slots = <<>> /\ r.ret = x
      /\ r.fn = f
  <2>1. <<>> \in Seq(Slots)
    OBVIOUS
  <2> QED BY <1>3, <1>6, <1>7, <2>1 DEF Contexts
<1>9. new \in Frames /\ new.ctx = c /\ new.pc = "done"
  BY <1>2 DEF Frames, c
<1> HIDE DEF r, new
<1>10. Exchanges(ctx[c], r, <<own>>, old)
  <2> SUFFICES ASSUME NEW o \in Object
               PROVE  /\ Times(<<own>>, o) \in Nat /\ Times(old, o) \in Nat
                      /\ Times(<<own>>, o) > 0 => refs[o] > 0 \/ Class[o] = "value"
                      /\ Times(old, o) <= Times(KeepsOf(ctx[c]), o)
                      /\ Times(KeepsOf(r), o) =
                           Times(KeepsOf(ctx[c]), o) + Times(<<own>>, o) - Times(old, o)
    BY DEF Exchanges
  <2>1. Times(<<own>>, o) = One(own, o) /\ One(own, o) \in 0..1 /\ (One(own, o) > 0 => own = o)
        /\ One(Null, o) = 0 /\ o # Null
    BY TimesSingle, CellsAssumption DEF One
  <2>2. Times(KeepsOf(ctx[c]), o) = Times(old, o) + One(Null, o) /\ Times(old, o) \in Nat
    BY <1>3, KeepsCounted
  <2>3. Times(KeepsOf(r), o) = Times(Owned(r.slots), o) + One(own, o)
        /\ Times(Owned(r.slots), o) \in Nat
        /\ (Times(Owned(r.slots), o) > 0 => \E k \in DOMAIN r.slots : TRUE)
    BY <1>8, KeepsCounted
  <2>4. Times(Owned(r.slots), o) = 0
    BY <1>8, <2>3
  <2> HIDE DEF old
  <2> QED BY <1>6, <2>1, <2>2, <2>3, <2>4
<1>11. fault' = fault /\ refs' \in [Object -> Int] /\ RefsBalanced'
  <2> DEFINE added == <<own>>
  <2>1. Counted(added, old) /\ Exchanges(ctx[c], r, added, old)
    BY <1>1, <1>10
  <2> HIDE DEF added, old
  <2> QED BY <1>1, <1>3, <1>8, <2>1, ContextBalances DEF IInv
<1>12. Empty(r) /\ Kept(r)
  BY <1>3, <1>5, <1>6, <1>8 DEF Empty, Kept
<1> QED BY <1>1, <1>8, <1>9, <1>11, <1>12, HeadMoves DEF c, Slid

LEMMA CallReturnsStep ==
  ASSUME IInv, CallReturns
  PROVE  IInv'
<1> DEFINE c == Top.ctx
<1>1. /\ fault = "none" /\ stack # <<>> /\ Top.pc \in {"done", "failed"}
      /\ stack' = Tail(stack) /\ UNCHANGED <<held, list, got, want, slip>>
      /\ \/ /\ Top.temp /\ ctx' = [ctx EXCEPT ![c] = NoContext] /\ Counted(<<>>, Keeps(c))
         \/ UNCHANGED <<ctx, refs, fault>>
  BY DEF CallReturns, Freed
<1>2. stack \in Seq(Frames)
  BY DEF IInv, Types
<1>3. /\ stack' \in Seq(Frames) /\ 1 \in DOMAIN stack /\ Top = stack[1] /\ Top \in Frames
      /\ \A k \in DOMAIN stack' : k + 1 \in DOMAIN stack /\ k + 1 # 1 /\ stack'[k] = stack[k + 1]
      /\ \A k \in DOMAIN stack : k # 1 => k - 1 \in DOMAIN stack' /\ stack'[k - 1] = stack[k]
  BY <1>1, <1>2, Popped DEF Top
<1>4. c \in Context
  BY <1>3 DEF Frames
<1>5. Top.temp => ctx[c].state # "active"
  BY <1>1, <1>3 DEF IInv, Stacked
<1> HIDE DEF c
<1>6. NoContext \in Contexts /\ \A o \in Object : Times(KeepsOf(NoContext), o) = 0
  BY NoContextType
<1>7. fault' = fault /\ refs' \in [Object -> Int] /\ RefsBalanced'
  <2>1. CASE ctx' = [ctx EXCEPT ![c] = NoContext] /\ Counted(<<>>, Keeps(c))
    BY <1>1, <1>4, <1>6, <2>1, ContextEmptied DEF IInv
  <2>2. CASE UNCHANGED <<ctx, refs, fault>>
    BY <1>1, <2>2 DEF IInv, Types, RefsBalanced, Keeps
  <2> QED BY <1>1, <2>1, <2>2
<1>8. /\ \A d \in Context : ctx'[d] = ctx[d] \/ (ctx'[d] = NoContext /\ ctx[d].state # "active")
      /\ ctx' \in [Context -> Contexts]
  BY <1>1, <1>4, <1>5, <1>6 DEF IInv, Types
<1>9. NoContext.state = "none"
  BY DEF NoContext
<1>10. \A k \in DOMAIN stack' :
         /\ stack'[k].pc = "running" /\ ctx[stack'[k].ctx].state = "active"
         /\ ctx'[stack'[k].ctx] = ctx[stack'[k].ctx]
  <2> SUFFICES ASSUME NEW k \in DOMAIN stack'
               PROVE  /\ stack'[k].pc = "running" /\ ctx[stack'[k].ctx].state = "active"
                      /\ ctx'[stack'[k].ctx] = ctx[stack'[k].ctx]
    OBVIOUS
  <2>1. stack'[k] = stack[k + 1] /\ k + 1 \in DOMAIN stack /\ k + 1 # 1 /\ stack[k + 1] \in Frames
    BY <1>2, <1>3
  <2>2. stack[k + 1].pc = "running" /\ ctx[stack[k + 1].ctx].state = "active"
    BY <2>1 DEF IInv, Stacked
  <2>3. stack[k + 1].ctx \in Context
    BY <2>1 DEF Frames
  <2> QED BY <1>8, <2>1, <2>2, <2>3
<1>11. Types'
  BY <1>1, <1>3, <1>7, <1>8 DEF IInv, Types
<1>12. Stacked'
  <2>1. ASSUME NEW k \in DOMAIN stack', NEW l \in DOMAIN stack', l # k
        PROVE  stack'[l].ctx # stack'[k].ctx
    <3>1. k + 1 \in DOMAIN stack /\ l + 1 \in DOMAIN stack
          /\ stack'[k] = stack[k + 1] /\ stack'[l] = stack[l + 1]
      BY <1>3
    <3>2. k + 1 # l + 1
      <4>1. k \in Int /\ l \in Int
        BY <1>3
      <4> QED BY <2>1, <4>1
    <3>3. stack[k + 1].pc = "running" /\ stack[l + 1].pc = "running"
      BY <1>10, <3>1
    <3> QED BY <3>1, <3>2, <3>3 DEF IInv, Stacked
  <2>2. ASSUME NEW d \in Context, ctx'[d].state = "active"
        PROVE  \E k \in DOMAIN stack' : stack'[k].pc = "running" /\ stack'[k].ctx = d
    <3>1. ctx[d].state = "active"
      BY <1>8, <1>9, <2>2
    <3>2. PICK k \in DOMAIN stack : stack[k].pc = "running" /\ stack[k].ctx = d
      BY <3>1 DEF IInv, Stacked
    <3>3. k # 1
      BY <1>1, <1>3, <3>2
    <3>4. k - 1 \in DOMAIN stack' /\ stack'[k - 1] = stack[k]
      BY <1>3, <3>3
    <3> QED BY <3>2, <3>4
  <2>3. \A k \in DOMAIN stack' : stack'[k].pc = "running" /\ ctx'[stack'[k].ctx].state = "active"
    BY <1>10
  <2> QED BY <2>1, <2>2, <2>3 DEF Stacked
<1>13. Passing'
  <2>1. ASSUME NEW k \in DOMAIN stack'
        PROVE  /\ stack'[k].pc = "running"
               /\ InOrder(stack'[k], ctx'[stack'[k].ctx].slots, list', held', slip')
    <3>1. stack'[k] = stack[k + 1] /\ k + 1 \in DOMAIN stack /\ stack[k + 1].pc = "running"
          /\ ctx'[stack[k + 1].ctx] = ctx[stack[k + 1].ctx]
      BY <1>3, <1>10
    <3>2. InOrder(stack[k + 1], ctx[stack[k + 1].ctx].slots, list, held, slip)
      BY <3>1 DEF IInv, Passing
    <3>3. InOrder(stack[k + 1], ctx[stack[k + 1].ctx].slots, list', held', slip')
      BY <1>1, <3>2, StaysInOrder DEF Slid
    <3> QED BY <1>10, <3>1, <3>3
  <2> QED BY <2>1 DEF Passing
<1>14. Returning'
  <2>1. Empty(NoContext) /\ NoContext.state # "finished"
    BY DEF Empty, NoContext
  <2>2. \A d \in Context : Empty(ctx'[d]) /\ (ctx'[d].state = "finished" => Kept(ctx'[d]))
    BY <1>8, <2>1 DEF IInv, Returning
  <2> QED BY <1>1, <2>2 DEF IInv, Returning
<1>15. FaultHasCause'
  BY <1>1, <1>7 DEF FaultHasCause
<1> QED BY <1>7, <1>11, <1>12, <1>13, <1>14, <1>15 DEF IInv

-----------------------------------------------------------------------------
(* The invariant, and what follows.                                        *)

LEMMA InitBalanced == Init => RefsBalanced
<1> SUFFICES ASSUME Init, NEW o \in Object PROVE Balanced(o)
  BY BalancedDef
<1>1. o # Null
  BY CellsAssumption
<1>2. Places(InLists, o) = {}
  <2>1. \A l \in List : InLists[l] = <<>>
    BY DEF Init, InLists, Held
  <2>2. DOMAIN InLists = List
    BY DEF InLists
  <2> QED BY <2>1, <2>2 DEF Places
<1>3. Places(InContexts, o) = {}
  <2>1. ASSUME NEW c \in Context
        PROVE  {k \in DOMAIN KeepsOf(ctx[c]) : KeepsOf(ctx[c])[k] = o} = {}
    <3>1. ctx[c].slots = <<>> /\ ctx[c].own = Null
      BY DEF Init, NoContext
    <3>2. Owned(<<>>) = <<>>
      BY DEF Owned
    <3>3. Append(<<>>, Null) = <<Null>>
      OBVIOUS
    <3>4. KeepsOf(ctx[c]) = <<Null>>
      BY <3>1, <3>2, <3>3, Zenon DEF KeepsOf
    <3> QED BY <1>1, <3>4
  <2>2. DOMAIN InContexts = Context /\ \A c \in Context : InContexts[c] = KeepsOf(ctx[c])
    BY DEF InContexts
  <2> QED BY <2>1, <2>2 DEF Places
<1>4. Cardinality(Places(InLists, o)) = 0 /\ Cardinality(Places(InContexts, o)) = 0
  BY <1>2, <1>3, FS_EmptySet
<1>5. One(Holds(got), o) = 0
  BY <1>1 DEF Init, NoArgument, Holds, One
<1>6. refs[o] = One(o \in held, TRUE)
  BY DEF Init, One
<1> QED BY <1>4, <1>5, <1>6 DEF Balanced, One

LEMMA InitCorrect == Init => IInv
<1> SUFFICES ASSUME Init PROVE IInv
  OBVIOUS
<1>1. NoContext \in Contexts /\ [NoContext EXCEPT !.state = "idle"] \in Contexts
  BY NoContextType
<1>2. ctx \in [Context -> Contexts]
  BY <1>1 DEF Init
<1>3. Types
  BY <1>2, CellsAssumption DEF Init, Types
<1>4. \A c \in Context : ctx[c].state \in {"none", "idle"} /\ Empty(ctx[c])
  BY DEF Init, Empty, NoContext
<1>5. Stacked /\ Passing
  BY <1>4 DEF Init, Stacked, Passing
<1>6. Returning
  BY <1>4 DEF Init, Returning, NoArgument, Holds, Pointer
<1>7. FaultHasCause
  BY DEF Init, FaultHasCause
<1> QED BY <1>3, <1>5, <1>6, <1>7, InitBalanced DEF IInv

(* The steps of the host and of scripts, outside of calls.                 *)
LEMMA HostStep ==
  ASSUME IInv, Acts, Host
  PROVE  IInv'
<1>1. CASE Lists
  <2>1. PICK l \in List :
          \/ Clear(l)
          \/ \E m \in List : Assign(l, m)
          \/ \E types \in Passed : \E xs \in Choices(types) : SetArguments(l, types, xs)
          \/ \E f \in Functions : \E xs \in Choices(TypesOf(f)) : SetArgumentsFor(l, f, xs)
    BY <1>1 DEF Lists
  <2> QED BY <2>1, ClearStep, AssignStep, SetArgumentsStep, SetArgumentsForStep
<1>2. CASE Calling
  <2>1. PICK c \in Context, temp \in BOOLEAN :
          \/ \E f \in Functions, l \in List : CallArgs(c, f, l, temp)
          \/ \E f \in Functions : \E xs \in Choices(TypesOf(f)) : Call(c, f, xs, temp)
          \/ \E l \in List : CallFound(c, l, temp)
    BY <1>2 DEF Calling
  <2> QED BY <2>1, CallArgsStep, CallStep, CallFoundStep
<1>3. CASE \E c \in Context : RequestContext(c) \/ ReleaseContext(c)
  BY <1>3, RequestContextStep, ReleaseContextStep
<1>4. CASE \E c \in Context : GetReturnValue(c) \/ GetReturnObject(c)
  BY <1>4, GetReturnValueStep, GetReturnObjectStep
<1>5. CASE \E o \in Object : NewObject(o) \/ DropHandle(o)
  BY <1>5, NewObjectStep, DropHandleStep
<1> QED BY <1>1, <1>2, <1>3, <1>4, <1>5 DEF Host

(* The steps of the innermost call.                                        *)
LEMMA InCallStep ==
  ASSUME IInv, InCall
  PROVE  IInv'
<1>1. CASE SetHandle \/ SetObject \/ SetReference \/ SetNumber
  BY <1>1, SetHandleStep, SetObjectStep, SetReferenceStep, SetNumberStep
<1>2. CASE Execute \/ ReadArgument \/ CallReturns
  BY <1>2, ExecuteStep, ReadArgumentStep, CallReturnsStep
<1>3. CASE \E x \in Results(Top.fn) : Finishes(x)
  BY <1>3, FinishesStep
<1>4. CASE \E how \in {"exception", "suspended"} : Stops(how)
  BY <1>4, StopsStep
<1> QED BY <1>1, <1>2, <1>3, <1>4 DEF InCall

(* The invariant holds in every state: nested calls, whichever of them is  *)
(* refused, stops or returns, keep references, arguments and the states of *)
(* contexts in step.                                                       *)
THEOREM CallsInvariant == Spec => []IInv
<1>1. Init => IInv
  BY InitCorrect
<1>2. IInv /\ [Next]_vars => IInv'
  <2> SUFFICES ASSUME IInv, [Next]_vars PROVE IInv'
    OBVIOUS
  <2>1. CASE UNCHANGED vars
    BY <2>1, Unmoved DEF vars, Slid
  <2>2. CASE Acts /\ Host
    BY <2>2, HostStep
  <2>3. CASE InCall
    BY <2>3, InCallStep
  <2> QED BY <2>1, <2>2, <2>3 DEF Next
<1> QED BY <1>1, <1>2, PTL DEF Spec

(* Arguments have the kind, the member and a number in the range of their  *)
(* type, and point to an object of their type, in lists and in calls.      *)
THEOREM TypesCorrect == Spec => []Types
<1>1. IInv => Types
  BY DEF IInv
<1> QED BY <1>1, CallsInvariant, PTL

(* Every object has exactly as many references as handles, lists, the      *)
(* stored return value and contexts have to it, however calls end: with a  *)
(* refused argument, an exception or suspended, nested to any depth.       *)
THEOREM ReferencesBalance == Spec => []RefsBalanced
<1>1. IInv => RefsBalanced
  BY DEF IInv
<1> QED BY <1>1, CallsInvariant, PTL

(* A function runs with what its caller passed, and what it returned is    *)
(* what the caller gets; a context is active exactly while a call runs in  *)
(* it.                                                                     *)
THEOREM CallsDeliver == Spec => []Delivered
<1>1. IInv => Delivered
  <2> SUFFICES ASSUME IInv PROVE Delivered
    OBVIOUS
  <2>1. ASSUME NEW c \in Context
        PROVE  ctx[c].state = "active" <=>
                 \E k \in DOMAIN stack : stack[k].ctx = c /\ stack[k].pc = "running"
    BY DEF IInv, Stacked
  <2>2. ASSUME NEW k \in DOMAIN stack, stack[k].pc = "running",
               NEW i \in DOMAIN Params[stack[k].fn]
        PROVE  Gets(Params[stack[k].fn][i], stack[k].args[i], ctx[stack[k].ctx].slots[i], slip)
    <3> DEFINE f == stack[k]
               s == ctx[stack[k].ctx].slots
    <3>1. stack[k].fn \in Functions
      <4>1. stack \in Seq(Frames)
        BY DEF IInv, Types
      <4>2. stack[k] \in Frames
        BY <4>1
      <4> QED BY <4>2 DEF Frames
    <3>2. i \in 1..Len(Params[f.fn])
      BY <3>1, ParamsTyped
    <3>3. Passes(f, s, slip)
      BY <2>2 DEF IInv, Passing, InOrder
    <3> HIDE DEF s
    <3>4. i \in 1..f.i
      BY <2>2, <3>2, <3>3 DEF Passes
    <3> QED BY <3>3, <3>4 DEF Passes, s
  <2> QED BY <2>1, <2>2 DEF Delivered, IInv, Returning
<1> QED BY <1>1, CallsInvariant, PTL

(* Memory is read where nothing is, or through a pointer to what was       *)
(* released, only after the host has done what the code has no defence     *)
(* against.                                                                *)
THEOREM FaultsHaveCauses == Spec => []FaultHasCause
<1>1. IInv => FaultHasCause
  BY DEF IInv
<1> QED BY <1>1, CallsInvariant, PTL

(* A call of what FindFunction found fails only for want of a free context *)
(* or of a conversion from an enum, an int32 or a function.                *)
THEOREM FoundCanBeCalled == Spec => []FoundIsCallable
<1>1. IInv => FoundIsCallable
  <2> SUFFICES ASSUME IInv, NEW k \in DOMAIN stack, stack[k].found, stack[k].pc = "failed"
               PROVE  \/ Busy(stack[k].ctx)
                      \/ \E i \in DOMAIN stack[k].args :
                           LET t == stack[k].args[i].type IN
                           IsEnum(t) \/ t = "int32" \/ t = "function"
    BY DEF FoundIsCallable
  <2>1. Excused(stack[k], ctx[stack[k].ctx])
    BY DEF IInv, Passing
  <2> QED BY <2>1 DEF Excused, Busy
<1> QED BY <1>1, CallsInvariant, PTL
=============================================================================
