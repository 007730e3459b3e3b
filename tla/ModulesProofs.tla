--------------------------- MODULE ModulesProofs ---------------------------
(***************************************************************************)
(* Proofs about Modules: for any number of modules, descriptors and script *)
(* modules and any careless calls of the host, user data has one owner,    *)
(* the list is in order, and references, script modules and hooks are      *)
(* those of modules that exist unless the host made a call that breaks     *)
(* them; each kind of fault has the causes that FaultHasCause names.       *)
(*                                                                         *)
(* The invariants say what is left of each property after every careless   *)
(* call, because the next step must be known to do no more harm.           *)
(*                                                                         *)
(* And about Builder, which makes the script modules: files that include   *)
(* each other are all added, and each once.                                *)
(***************************************************************************)
EXTENDS Modules, Builder, FiniteSetTheorems, SequenceTheorems, TLAPS

-----------------------------------------------------------------------------
(* The inductive invariant.                                                *)

Types ==
  /\ named \in [Name -> Script \cup {NoScript}]
  /\ owner \in [Script -> Module \cup {NoModule}]
  /\ ids \in [Descriptor -> 0..LastId] /\ nextId \in 1..LastId
  /\ modules \in Seq(Module)
  /\ removal \in [module: Module \cup {NoModule}, clear: BOOLEAN]
  /\ refs \in [Module -> Nat]
  /\ script \in [Module -> Script \cup {NoScript}]
  /\ descriptor \in [Module -> Descriptor \cup {NoDescriptor}]
  /\ userData \in [Module -> UserData \cup {NoUserData}]
  /\ live \subseteq UserData /\ held \subseteq Module
  /\ hooked \subseteq Script
  /\ build \in [phase: {"none", "compile", "postBuild"},
                descriptor: Descriptor \cup {NoDescriptor},
                script: Script \cup {NoScript},
                userData: UserData \cup {NoUserData},
                module: Module \cup {NoModule}]
  /\ fault \in {"none", "badScript", "badModule", "badDescriptor"}
  /\ made \subseteq Careless

Distinct == \A i, j \in DOMAIN modules : modules[i] = modules[j] => i = j

(* The locals of the build in progress, by its phase. *)
Building ==
  /\ build.phase = "none" => build = NoBuild
  /\ build.phase = "compile" => build.module = NoModule /\ build.script \in Script
  /\ build.phase = "postBuild" =>
       /\ build.module \in Module \ Listed
       /\ build.script \in Script /\ build.userData = NoUserData

(* A module that is being discarded is listed and has a script module.     *)
(* Nobody has another module when Clear is called in time.                 *)
Removing ==
  /\ removal.module # NoModule =>
       removal.module \in Listed /\ ~Gone(script[removal.module])
  /\ Careful({"clear"}) /\ removal.clear => held = {} /\ build = NoBuild

One(condition) == IF condition THEN 1 ELSE 0

Holders(m) == One(m \in Listed) + One(m \in held) + One(m = build.module)

(* A module that was deleted under a reference of the host. *)
Lost(m) ==
  /\ refs[m] = 0 /\ m \notin Listed /\ m # build.module /\ m \in held
  /\ ~Careful({"refuse", "rebuild"})

Counted == \A m \in Module : refs[m] = Holders(m) \/ Lost(m)

(* Who has user data: a module, or the build. *)
Has(m, u) == refs[m] # 0 /\ userData[m] = u

Owned ==
  /\ \A m \in Module, u \in UserData :
       Has(m, u) => u \in live /\ build.userData # u
  /\ \A m, x \in Module, u \in UserData : Has(m, u) /\ Has(x, u) => m = x
  /\ \A u \in UserData : build.userData = u => u \in live
  /\ \A u \in live : build.userData = u \/ \E m \in Module : Has(m, u)

(* Identifiers are those given so far, each once, and those who refer to a *)
(* descriptor refer to one that has an identifier.                         *)
Identified ==
  /\ \A d \in Descriptor : ids[d] < nextId
  /\ \A d, e \in Descriptor : Registered(d) /\ ids[d] = ids[e] => d = e
  /\ \A m \in Module : descriptor[m] # NoDescriptor => Registered(descriptor[m])
  /\ build.descriptor # NoDescriptor => Registered(build.descriptor)

(* The list is sorted, and has a module without descriptor only alone. *)
Sorted ==
  /\ Len(modules) > 1 => \A m \in Listed : descriptor[m] # NoDescriptor
  /\ \A i, j \in DOMAIN modules :
       i < j => ~DescriptorLess(descriptor[modules[j]], descriptor[modules[i]])

(* Before a Clear that destroys them early, modules have descriptors. *)
Described ==
  Careful({"clear"}) =>
    /\ \A m \in Module : refs[m] # 0 => descriptor[m] # NoDescriptor
    /\ build.phase # "none" => build.descriptor # NoDescriptor

(* The modules that are listed or about to be. *)
Current == (Listed \cup {build.module}) \ {NoModule}

(* Without a rebuild, the script module of a current module is in the      *)
(* engine and has the module as its user data, unless it was discarded;    *)
(* other modules have none.                                                *)
Linked ==
  /\ \A n, o \in Name : named[n] = named[o] /\ named[n] # NoScript => n = o
  /\ build.phase = "compile" =>
       /\ ~Gone(build.script)
       /\ owner[build.script] = NoModule
  /\ \A m \in Current : script[m] # NoScript =>
       ~Gone(script[m]) /\ owner[script[m]] = m
  /\ build.phase = "postBuild" =>
       script[build.module] \in {build.script, NoScript}
  /\ \A m \in held \ Current : refs[m] # 0 => script[m] = NoScript

(* No script module is left behind. *)
Covered ==
  \A n \in Name : named[n] # NoScript =>
    named[n] \in {script[m] : m \in Listed} \cup {build.script}

Undiscarded == \A m \in Current : script[m] # NoScript

AllCareful == Careful({"refuse", "rebuild", "byName", "clear", "early", "late"})

(* Functions are hooked for modules that are listed, or about to be, and   *)
(* not about to go.                                                        *)
Hooks == AllCareful => \A s \in hooked : owner[s] \in Current \ Leaving

IInv ==
  /\ Types /\ Distinct /\ Building /\ Counted /\ Owned /\ Identified /\ Sorted
  /\ Described /\ Removing
  /\ Careful({"rebuild"}) => Linked
  /\ Careful({"rebuild", "refuse"}) => Covered
  /\ Careful({"rebuild", "discard"}) => Undiscarded
  /\ Hooks /\ FaultHasCause

-----------------------------------------------------------------------------
(* The list.                                                               *)

(* What list has is in modules, in the same order.                         *)
Embedded(list) ==
  \A i, j \in DOMAIN list :
    i < j => \E k, l \in DOMAIN modules :
               k < l /\ list[i] = modules[k] /\ list[j] = modules[l]

(* The elements of a sequence from one on. *)
LEMMA Rest ==
  ASSUME NEW S, NEW s \in Seq(S), NEW k \in 0..Len(s)
  PROVE  /\ SubSeq(s, k + 1, Len(s)) \in Seq(S)
         /\ Len(SubSeq(s, k + 1, Len(s))) = Len(s) - k
         /\ \A i \in 1..(Len(s) - k) : SubSeq(s, k + 1, Len(s))[i] = s[i + k]
<1>1. k + 1 \in Int /\ Len(s) \in Int /\ \A i \in (k + 1)..Len(s) : s[i] \in S
  OBVIOUS
<1>2. /\ SubSeq(s, k + 1, Len(s)) \in Seq(S)
      /\ Len(SubSeq(s, k + 1, Len(s)))
           = IF k + 1 <= Len(s) THEN Len(s) - (k + 1) + 1 ELSE 0
      /\ \A i \in 1..(Len(s) - (k + 1) + 1) :
           SubSeq(s, k + 1, Len(s))[i] = s[k + 1 + i - 1]
  BY <1>1, SubSeqProperties
<1> DEFINE t == SubSeq(s, k + 1, Len(s))
<1> HIDE DEF t
<1>3. Len(t) = Len(s) - k
  BY <1>1, <1>2 DEF t
<1>4. ASSUME NEW i \in 1..(Len(s) - k) PROVE t[i] = s[i + k]
  <2>1. i \in 1..(Len(s) - (k + 1) + 1) /\ k + 1 + i - 1 = i + k
    BY <1>1
  <2> QED BY <1>2, <2>1 DEF t
<1> QED BY <1>2, <1>3, <1>4 DEF t

LEMMA EraseAt ==
  ASSUME NEW S, NEW s \in Seq(S), NEW k \in 1..Len(s)
  PROVE  LET W == SubSeq(s, 1, k - 1) \o SubSeq(s, k + 1, Len(s)) IN
         /\ W \in Seq(S) /\ Len(W) = Len(s) - 1
         /\ \A i \in 1..(Len(s) - 1) : W[i] = IF i < k THEN s[i] ELSE s[i + 1]
<1> DEFINE front == SubSeq(s, 1, k - 1)
           back == SubSeq(s, k + 1, Len(s))
           n == Len(s)
           W == front \o back
<1>1. n \in Nat /\ k \in 1..n
  OBVIOUS
<1>2. /\ front \in Seq(S) /\ Len(front) = k - 1
      /\ \A i \in 1..(k - 1) : front[i] = s[i]
  OBVIOUS
<1>3. /\ back \in Seq(S) /\ Len(back) = n - k
      /\ \A i \in 1..(n - k) : back[i] = s[i + k]
  BY <1>1, Rest
<1> HIDE DEF front, back
<1>4. /\ W \in Seq(S) /\ Len(W) = Len(front) + Len(back)
      /\ \A i \in 1..(Len(front) + Len(back)) :
           W[i] = IF i <= Len(front) THEN front[i] ELSE back[i - Len(front)]
  BY <1>2, <1>3, ConcatProperties
<1> HIDE DEF W, n
<1>5. Len(W) = n - 1 /\ Len(front) + Len(back) = n - 1
  BY <1>1, <1>2, <1>3, <1>4
<1>6. ASSUME NEW i \in 1..(n - 1), i < k PROVE W[i] = s[i]
  <2>1. i \in 1..(k - 1) /\ i <= Len(front)
    BY <1>1, <1>2, <1>6
  <2> QED BY <1>2, <1>4, <1>5, <2>1
<1>7. ASSUME NEW i \in 1..(n - 1), ~(i < k) PROVE W[i] = s[i + 1]
  <2>1. /\ i - (k - 1) \in 1..(n - k) /\ i - (k - 1) + k = i + 1
        /\ ~(i <= Len(front)) /\ i - Len(front) = i - (k - 1)
    BY <1>1, <1>2, <1>7
  <2>2. W[i] = back[i - (k - 1)]
    BY <1>4, <1>5, <2>1
  <2> QED BY <1>3, <2>1, <2>2
<1> QED BY <1>4, <1>5, <1>6, <1>7 DEF W, front, back, n

Inserted(s, k, x) == SubSeq(s, 1, k) \o <<x>> \o SubSeq(s, k + 1, Len(s))

LEMMA InsertedAt ==
  ASSUME NEW S, NEW s \in Seq(S), NEW k \in 0..Len(s), NEW x \in S
  PROVE  LET W == Inserted(s, k, x) IN
         /\ W \in Seq(S) /\ Len(W) = Len(s) + 1
         /\ \A i \in 1..(Len(s) + 1) :
              W[i] = IF i <= k THEN s[i] ELSE IF i = k + 1 THEN x ELSE s[i - 1]
<1> DEFINE front == SubSeq(s, 1, k)
           start == front \o <<x>>
           back == SubSeq(s, k + 1, Len(s))
           n == Len(s)
           W == start \o back
<1>1. n \in Nat /\ k \in 0..n
  OBVIOUS
<1>2. /\ front \in Seq(S) /\ Len(front) = k
      /\ \A i \in 1..k : front[i] = s[i]
  OBVIOUS
<1>3. /\ back \in Seq(S) /\ Len(back) = n - k
      /\ \A i \in 1..(n - k) : back[i] = s[i + k]
  BY <1>1, Rest
<1> HIDE DEF front, back
<1>4. <<x>> \in Seq(S) /\ Len(<<x>>) = 1 /\ <<x>>[1] = x
  OBVIOUS
<1>5. /\ start \in Seq(S) /\ Len(start) = k + 1
      /\ \A i \in 1..(k + 1) :
           start[i] = IF i <= k THEN front[i] ELSE <<x>>[i - k]
  BY <1>2, <1>4, ConcatProperties
<1> HIDE DEF start
<1>6. /\ W \in Seq(S) /\ Len(W) = Len(start) + Len(back)
      /\ \A i \in 1..(Len(start) + Len(back)) :
           W[i] = IF i <= Len(start) THEN start[i] ELSE back[i - Len(start)]
  BY <1>3, <1>5, ConcatProperties
<1> HIDE DEF W, n
<1>7. Len(W) = n + 1 /\ Len(start) + Len(back) = n + 1
  BY <1>1, <1>3, <1>5, <1>6
<1>8. ASSUME NEW i \in 1..(n + 1), i <= k PROVE W[i] = s[i]
  <2>1. i \in 1..k /\ i \in 1..(k + 1) /\ i <= Len(start)
    BY <1>1, <1>5, <1>8
  <2> QED BY <1>2, <1>5, <1>6, <1>7, <2>1
<1>9. W[k + 1] = x
  <2>1. /\ k + 1 \in 1..(k + 1) /\ k + 1 \in 1..(n + 1) /\ ~(k + 1 <= k)
        /\ k + 1 - k = 1 /\ k + 1 <= Len(start)
    BY <1>1, <1>5
  <2>2. start[k + 1] = x
    BY <1>4, <1>5, <2>1
  <2> QED BY <1>6, <1>7, <2>1, <2>2
<1>10. ASSUME NEW i \in 1..(n + 1), i > k + 1 PROVE W[i] = s[i - 1]
  <2>1. /\ i - (k + 1) \in 1..(n - k) /\ i - (k + 1) + k = i - 1
        /\ ~(i <= Len(start)) /\ i - Len(start) = i - (k + 1)
    BY <1>1, <1>5, <1>10
  <2>2. W[i] = back[i - (k + 1)]
    BY <1>6, <1>7, <2>1
  <2> QED BY <1>3, <2>1, <2>2
<1>11. \A i \in 1..(n + 1) :
         W[i] = IF i <= k THEN s[i] ELSE IF i = k + 1 THEN x ELSE s[i - 1]
  BY <1>1, <1>8, <1>9, <1>10
<1> QED BY <1>6, <1>7, <1>11 DEF W, start, front, back, n, Inserted

(* Erasing an element that was found takes it from the list and keeps the  *)
(* order of the others.                                                    *)
LEMMA WithoutShrinks ==
  ASSUME Types, Distinct, NEW m \in Listed
  PROVE  /\ Without(m) \in Seq(Module)
         /\ Range(Without(m)) = Listed \ {m}
         /\ Embedded(Without(m))
<1> DEFINE place == CHOOSE i \in DOMAIN modules : modules[i] = m
           n == Len(modules)
           W == Without(m)
<1>1. modules \in Seq(Module) /\ n \in Nat /\ DOMAIN modules = 1..n
  BY DEF Types
<1>2. place \in 1..n /\ modules[place] = m
  BY <1>1 DEF Listed, Range
<1>3. W = SubSeq(modules, 1, place - 1) \o SubSeq(modules, place + 1, Len(modules))
  BY DEF Without
<1> HIDE DEF place, W
<1>4. /\ W \in Seq(Module) /\ Len(W) = n - 1
      /\ \A i \in 1..(n - 1) :
           W[i] = IF i < place THEN modules[i] ELSE modules[i + 1]
  BY <1>1, <1>2, <1>3, EraseAt
<1> HIDE DEF n
<1>5. DOMAIN W = 1..(n - 1)
  BY <1>4
<1>6. Listed = {modules[k] : k \in 1..n} /\ Range(W) = {W[i] : i \in 1..(n - 1)}
  BY <1>1, <1>5 DEF Listed, Range
<1> DEFINE at(i) == IF i < place THEN i ELSE i + 1
<1>7. \A i \in 1..(n - 1) : at(i) \in 1..n /\ at(i) # place /\ W[i] = modules[at(i)]
  BY <1>1, <1>2, <1>4
<1>8. Range(W) = Listed \ {m}
  <2>1. ASSUME NEW i \in 1..(n - 1) PROVE W[i] \in Listed \ {m}
    <3>1. modules[at(i)] # modules[place]
      BY <1>1, <1>2, <1>7 DEF Distinct
    <3> QED BY <1>2, <1>6, <1>7, <3>1
  <2>2. ASSUME NEW k \in 1..n, modules[k] # m
        PROVE  \E i \in 1..(n - 1) : W[i] = modules[k]
    <3>1. CASE k < place
      BY <1>1, <1>2, <1>4, <3>1
    <3>2. CASE k > place
      <4>1. k - 1 \in 1..(n - 1) /\ ~(k - 1 < place) /\ (k - 1) + 1 = k
        BY <1>1, <1>2, <3>2
      <4> QED BY <1>4, <4>1
    <3> QED BY <1>1, <1>2, <2>2, <3>1, <3>2
  <2> QED BY <1>6, <2>1, <2>2
<1>9. Embedded(W)
  <2>1. SUFFICES ASSUME NEW i \in DOMAIN W, NEW j \in DOMAIN W, i < j
                 PROVE  \E k, l \in DOMAIN modules :
                          k < l /\ W[i] = modules[k] /\ W[j] = modules[l]
    BY DEF Embedded
  <2>2. at(i) < at(j)
    BY <1>1, <1>2, <1>5, <2>1
  <2>3. at(i) \in DOMAIN modules /\ at(j) \in DOMAIN modules
    BY <1>1, <1>5, <1>7
  <2> QED
    <3> HIDE DEF at
    <3> QED BY <1>5, <1>7, <2>2, <2>3
<1> QED BY <1>4, <1>8, <1>9 DEF W

(* Sorting in a module that was not listed adds it and nothing else.       *)
LEMMA ListedWithGrows ==
  ASSUME Types, Distinct, NEW m \in Module \ Listed, NEW list \in ListedWith(m)
  PROVE  /\ list \in Seq(Module) /\ Len(list) = Len(modules) + 1
         /\ Range(list) = Listed \cup {m}
         /\ \A i, j \in DOMAIN list : list[i] = list[j] => i = j
         /\ \A i, j \in DOMAIN list :
              i < j => ~DescriptorLess(descriptor[list[j]], descriptor[list[i]])
<1> DEFINE n == Len(modules)
<1>1. modules \in Seq(Module) /\ n \in Nat /\ DOMAIN modules = 1..n
  BY DEF Types
<1>2. PICK at \in 0..n :
        list = SubSeq(modules, 1, at) \o <<m>> \o SubSeq(modules, at + 1, Len(modules))
  BY DEF ListedWith
<1>3. \A i, j \in DOMAIN list :
        i < j => ~DescriptorLess(descriptor[list[j]], descriptor[list[i]])
  BY DEF ListedWith
<1>4. /\ list \in Seq(Module) /\ Len(list) = n + 1
      /\ \A i \in 1..(n + 1) :
           list[i] = IF i <= at THEN modules[i]
                     ELSE IF i = at + 1 THEN m ELSE modules[i - 1]
  <2> DEFINE W == Inserted(modules, at, m)
  <2>1. modules \in Seq(Module) /\ at \in 0..Len(modules) /\ m \in Module
    BY <1>1
  <2>2. /\ W \in Seq(Module) /\ Len(W) = Len(modules) + 1
        /\ \A i \in 1..(Len(modules) + 1) :
             W[i] = IF i <= at THEN modules[i]
                    ELSE IF i = at + 1 THEN m ELSE modules[i - 1]
    BY <2>1, InsertedAt
  <2>3. list = W
    BY <1>2 DEF Inserted
  <2> HIDE DEF W
  <2> QED BY <2>2, <2>3
<1> HIDE DEF n
<1>5. DOMAIN list = 1..(n + 1)
  BY <1>4
<1>6. Listed = {modules[k] : k \in 1..n} /\ Range(list) = {list[i] : i \in 1..(n + 1)}
  BY <1>1, <1>5 DEF Listed, Range
<1> DEFINE from(i) == IF i <= at THEN i ELSE i - 1
<1>7. /\ list[at + 1] = m /\ at + 1 \in 1..(n + 1)
      /\ \A i \in 1..(n + 1) :
           i # at + 1 => from(i) \in 1..n /\ list[i] = modules[from(i)]
  BY <1>1, <1>4
<1>8. Range(list) = Listed \cup {m}
  <2>1. ASSUME NEW i \in 1..(n + 1) PROVE list[i] \in Listed \cup {m}
    <3> HIDE DEF from
    <3> QED BY <1>6, <1>7
  <2>2. ASSUME NEW k \in 1..n PROVE \E i \in 1..(n + 1) : list[i] = modules[k]
    <3>1. CASE k <= at
      BY <1>1, <1>4, <3>1
    <3>2. CASE k > at
      <4>1. k + 1 \in 1..(n + 1) /\ ~(k + 1 <= at) /\ k + 1 # at + 1 /\ (k + 1) - 1 = k
        BY <1>1, <3>2
      <4> QED BY <1>4, <4>1
    <3> QED BY <1>1, <3>1, <3>2
  <2> QED BY <1>6, <1>7, <2>1, <2>2
<1>9. ASSUME NEW i \in 1..(n + 1), NEW j \in 1..(n + 1), list[i] = list[j]
      PROVE  i = j
  <2>1. \A k \in 1..n : modules[k] # m
    BY <1>6
  <2>2. CASE i # at + 1 /\ j # at + 1
    <3>1. from(i) = from(j)
      <4> HIDE DEF from
      <4> QED BY <1>1, <1>7, <1>9, <2>2 DEF Distinct
    <3> QED BY <1>1, <2>2, <3>1
  <2>3. CASE i = at + 1 \/ j = at + 1
    <3> HIDE DEF from
    <3> QED BY <1>7, <1>9, <2>1, <2>3
  <2> QED BY <2>2, <2>3
<1> QED BY <1>3, <1>4, <1>5, <1>8, <1>9 DEF n

-----------------------------------------------------------------------------
(* What a step does to the modules.                                        *)

Quiet == UNCHANGED <<engine, modules, objects, live, held, build>>

(* Apart from what scripts hook, a removal starts with no change.          *)
LEMMA RemovalStartsQuietly ==
  ASSUME Types, NEW m, RemovalStarts(m)
  PROVE  \/ /\ UNCHANGED fault /\ ~Gone(script[m])
            /\ removal'.module = m /\ removal'.clear = removal.clear
         \/ fault' = "badScript" /\ UNCHANGED removal /\ Gone(script[m])
<1>1. CASE DiscardFault({m}) # "none"
  BY <1>1 DEF RemovalStarts, DiscardFault
<1>2. CASE DiscardFault({m}) = "none"
  <2>1. removal' = [removal EXCEPT !.module = m] /\ UNCHANGED fault
    BY <1>2 DEF RemovalStarts
  <2> QED BY <1>2, <2>1 DEF DiscardFault, Types
<1> QED BY <1>1, <1>2

SameBuild ==
  /\ build'.phase = build.phase /\ build'.script = build.script
  /\ build'.userData = build.userData /\ build'.module = build.module
  /\ build = NoBuild => build' = NoBuild
  /\ build' = build \/ build' = [build EXCEPT !.descriptor = NoDescriptor]

(* Clear has removed the modules.                                          *)
Emptied ==
  /\ SameBuild
  /\ descriptor' = [m \in Module |-> NoDescriptor]
  /\ UNCHANGED <<engine, modules, refs, script, userData, live, held>>

(* A module is discarded and released.                                     *)
Removed(x) ==
  /\ x \in Listed
  /\ DiscardAll({x}) /\ ReleaseAll({x})
  /\ modules' \in Seq(Module) /\ Listed' = Listed \ {x} /\ Embedded(modules')
  /\ UNCHANGED <<owner, descriptor, held, build>>

LEMMA ReturnsRemoves ==
  ASSUME Types, Distinct, Removing, DiscardReturns
  PROVE  Removed(removal.module) /\ removal.module \in Module
<1>1. removal.module \in Listed /\ modules' = Without(removal.module)
  BY DEF DiscardReturns, Removing
<1>2. /\ modules' \in Seq(Module) /\ Range(modules') = Listed \ {removal.module}
      /\ Embedded(modules')
  BY <1>1, WithoutShrinks
<1> QED BY <1>1, <1>2 DEF DiscardReturns, Removed, Listed, Types

(* The module that was built is deleted. *)
Refused ==
  /\ build.phase = "postBuild"
  /\ Delete(build.module)
  /\ build' = NoBuild
  /\ UNCHANGED <<engine, modules, script, descriptor, held>>
  /\ \/ "refuse" \in made'
     \/ ~Gone(script[build.module]) /\ \E x \in Listed : script[x] = script[build.module]

Accepted ==
  /\ build.phase = "postBuild"
  /\ AddModuleFault(build.module) = "none"
  /\ \A x \in Listed : script[x] # script[build.module]
  /\ modules' \in ListedWith(build.module)
  /\ build' = NoBuild
  /\ UNCHANGED <<engine, objects, live, held>>

Released(m) ==
  /\ m \in held /\ refs[m] # 0
  /\ ReleaseAll({m}) /\ held' = held \ {m}
  /\ UNCHANGED <<engine, modules, script, descriptor, build>>

Discarded(m) ==
  /\ m \in Reachable /\ refs[m] # 0 /\ ~Gone(script[m])
  /\ DiscardAll({m})
  /\ "discard" \in made'
  /\ UNCHANGED <<owner, modules, refs, descriptor, userData, live, held, build>>

Replaced(m, u) ==
  /\ u \notin live /\ refs[m] # 0
  /\ userData' = [userData EXCEPT ![m] = u]
  /\ live' = (live \ {userData[m]}) \cup ({u} \ {NoUserData})
  /\ UNCHANGED <<engine, modules, refs, script, descriptor, held, build>>

StepKind ==
  \/ Quiet \/ BuildFails \/ Compiled \/ Refused \/ Accepted
  \/ \E d \in Descriptor, n \in Name, u \in UserData \cup {NoUserData} :
       StartBuild(d, n, u)
  \/ Emptied
  \/ \E m \in Module :
       \/ Removed(m) \/ AddRef(m) \/ Released(m) \/ Discarded(m)
       \/ \E u \in UserData \cup {NoUserData} : Replaced(m, u)

(* Calls made are never forgotten, so a host that is careful up to a state *)
(* was careful in every state before it.                                   *)
LEMMA CallsStayMade ==
  ASSUME [Next]_vars PROVE made \subseteq made'
BY DEF Next, vars, AddDescriptor, StartBuild, BuildFails, Compiled,
       PostBuildRefuses, PostBuildAccepts, RemoveModule, AddRef, Release, Discard,
       SetUserData, RemoveModuleByName, AddFunction, RemoveFunction,
       DiscardReturns, Clear, ClearNext, ClearEnds, UnhookAllFunctions, Making

LEMMA StepKinds ==
  ASSUME Types, Distinct, Removing, [Next]_vars
  PROVE  StepKind
<1> USE DEF engine, objects, host, manager
<1>0. Listed \subseteq Module
  BY DEF Types, Listed, Range
<1>1. ASSUME UNCHANGED vars PROVE StepKind
  BY <1>1 DEF vars, Quiet, StepKind
<1>2. ASSUME NEW d \in Descriptor, AddDescriptor(d) PROVE StepKind
  BY <1>2 DEF AddDescriptor, Quiet, StepKind
<1>3. ASSUME PostBuildRefuses PROVE StepKind
  <2>1. Refused
    BY <1>3 DEF PostBuildRefuses, Refused, Making
  <2> QED BY <2>1 DEF StepKind
<1>4. ASSUME PostBuildAccepts PROVE StepKind
  <2>1. CASE AddModuleFault(build.module) # "none"
    BY <1>4, <2>1 DEF PostBuildAccepts, Quiet, StepKind
  <2>2. CASE /\ AddModuleFault(build.module) = "none"
             /\ \E x \in Listed : script[x] = script[build.module]
    <3>1. ~Gone(script[build.module])
      BY <2>2 DEF AddModuleFault
    <3>2. Refused
      BY <1>4, <2>2, <3>1 DEF PostBuildAccepts, Refused
    <3> QED BY <3>2 DEF StepKind
  <2>3. CASE /\ AddModuleFault(build.module) = "none"
             /\ \A x \in Listed : script[x] # script[build.module]
    <3>1. Accepted
      BY <1>4, <2>3 DEF PostBuildAccepts, Accepted
    <3> QED BY <3>1 DEF StepKind
  <2> QED BY <2>1, <2>2, <2>3
<1>5. ASSUME DiscardReturns PROVE StepKind
  BY <1>5, ReturnsRemoves DEF StepKind
<1>6. CASE \/ \E m \in Module : RemoveModule(m)
           \/ \E n \in Name : RemoveModuleByName(n)
           \/ Clear \/ ClearNext
  BY <1>6 DEF RemoveModule, RemoveModuleByName, Clear, ClearNext, Quiet, StepKind
<1>7. ASSUME ClearEnds PROVE StepKind
  <2>1. SameBuild
    BY <1>7 DEF ClearEnds, Types, SameBuild, NoBuild
  <2>2. Emptied
    BY <1>7, <2>1 DEF ClearEnds, Emptied
  <2> QED BY <2>2 DEF StepKind
<1>8. ASSUME NEW s \in Script, AddFunction(s) \/ RemoveFunction(s) PROVE StepKind
  BY <1>8 DEF AddFunction, RemoveFunction, Quiet, StepKind
<1>9. ASSUME UnhookAllFunctions PROVE StepKind
  BY <1>9 DEF UnhookAllFunctions, Quiet, StepKind
<1>10. ASSUME NEW m \in Module, Release(m) PROVE StepKind
  BY <1>10 DEF Release, Quiet, Released, StepKind
<1>11. ASSUME NEW m \in Module, Discard(m) PROVE StepKind
  <2>1. CASE refs[m] = 0 \/ DiscardFault({m}) # "none"
    BY <1>11, <2>1 DEF Discard, Quiet, StepKind
  <2>2. CASE refs[m] # 0 /\ DiscardFault({m}) = "none"
    <3>1. ~Gone(script[m])
      BY <2>2 DEF DiscardFault
    <3>2. Discarded(m)
      BY <1>11, <2>2, <3>1 DEF Discard, Discarded, Making
    <3> QED BY <3>2 DEF StepKind
  <2> QED BY <2>1, <2>2
<1>12. ASSUME NEW m \in Module, NEW u \in UserData \cup {NoUserData}, SetUserData(m, u)
       PROVE  StepKind
  BY <1>12 DEF SetUserData, Quiet, Replaced, StepKind
<1>13. ASSUME BuildFails \/ Compiled PROVE StepKind
  BY <1>13 DEF StepKind
<1>14. ASSUME NEW d \in Descriptor, NEW n \in Name,
              NEW u \in UserData \cup {NoUserData}, StartBuild(d, n, u)
       PROVE  StepKind
  BY <1>14 DEF StepKind
<1>15. ASSUME NEW m \in Module, AddRef(m) PROVE StepKind
  BY <1>15 DEF StepKind
<1> QED BY <1>1, <1>2, <1>3, <1>4, <1>5, <1>6, <1>7, <1>8, <1>9, <1>10, <1>11,
           <1>12, <1>13, <1>14, <1>15 DEF Next

-----------------------------------------------------------------------------
(* Types, the list and the locals of a build.                              *)

LEMMA LeftWithTypes ==
  ASSUME Types, NEW counts \in [Module -> Nat], LeftWith(counts)
  PROVE  /\ refs' \in [Module -> Nat]
         /\ userData' \in [Module -> UserData \cup {NoUserData}]
         /\ live' \subseteq UserData
<1>1. refs' \in [Module -> Nat]
  BY DEF LeftWith
<1>2. userData' \in [Module -> UserData \cup {NoUserData}]
  BY DEF LeftWith, Types
<1>3. live' \subseteq UserData
  BY DEF LeftWith, Types
<1> QED BY <1>1, <1>2, <1>3

(* A module that is listed, held or being built has a reference. *)
LEMMA HasReference ==
  ASSUME Types, Counted, NEW m \in Module, m \in Listed \/ m = build.module
  PROVE  refs[m] # 0
BY DEF Counted, Holders, One, Lost

LEMMA ReleaseAllTypes ==
  ASSUME Types, NEW M \in SUBSET Module, \A m \in M : refs[m] # 0, ReleaseAll(M)
  PROVE  /\ refs' \in [Module -> Nat]
         /\ userData' \in [Module -> UserData \cup {NoUserData}]
         /\ live' \subseteq UserData
<1> DEFINE counts == [m \in Module |-> IF m \in M THEN refs[m] - 1 ELSE refs[m]]
<1>1. counts \in [Module -> Nat]
  BY DEF Types
<1>2. LeftWith(counts)
  BY DEF ReleaseAll
<1> HIDE DEF counts
<1> QED BY <1>1, <1>2, LeftWithTypes

ObjectTypes ==
  /\ named \in [Name -> Script \cup {NoScript}]
  /\ owner \in [Script -> Module \cup {NoModule}]
  /\ modules \in Seq(Module)
  /\ refs \in [Module -> Nat]
  /\ script \in [Module -> Script \cup {NoScript}]
  /\ descriptor \in [Module -> Descriptor \cup {NoDescriptor}]
  /\ userData \in [Module -> UserData \cup {NoUserData}]
  /\ live \subseteq UserData /\ held \subseteq Module
  /\ build \in [phase: {"none", "compile", "postBuild"},
                descriptor: Descriptor \cup {NoDescriptor},
                script: Script \cup {NoScript},
                userData: UserData \cup {NoUserData},
                module: Module \cup {NoModule}]

OtherTypes ==
  /\ removal \in [module: Module \cup {NoModule}, clear: BOOLEAN]
  /\ ids \in [Descriptor -> 0..LastId] /\ nextId \in 1..LastId
  /\ hooked \subseteq Script
  /\ fault \in {"none", "badScript", "badModule", "badDescriptor"}
  /\ made \subseteq Careless

LEMMA NoBuildType ==
  NoBuild \in [phase: {"none", "compile", "postBuild"},
               descriptor: Descriptor \cup {NoDescriptor},
               script: Script \cup {NoScript},
               userData: UserData \cup {NoUserData},
               module: Module \cup {NoModule}]
BY DEF NoBuild

LEMMA DiscardAllTypes ==
  ASSUME Types, NEW M, DiscardAll(M)
  PROVE  /\ named' \in [Name -> Script \cup {NoScript}]
         /\ script' \in [Module -> Script \cup {NoScript}]
BY DEF DiscardAll, Types

LEMMA ReachableTypes ==
  ASSUME Types PROVE Reachable \subseteq Module /\ Listed \subseteq Module
BY DEF Types, Reachable, Listed, Range

LEMMA RemovalStartsTypes ==
  ASSUME Types, NEW m \in Module, RemovalStarts(m)
  PROVE  /\ removal' \in [module: Module \cup {NoModule}, clear: BOOLEAN]
         /\ fault' \in {"none", "badScript", "badModule", "badDescriptor"}
<1>1. CASE DiscardFault({m}) # "none"
  BY <1>1 DEF RemovalStarts, DiscardFault, Types
<1>2. CASE DiscardFault({m}) = "none"
  BY <1>2 DEF RemovalStarts, Types
<1> QED BY <1>1, <1>2

LEMMA TypesStep ==
  ASSUME Types, Distinct, Building, Removing, Counted, [Next]_vars
  PROVE  Types'
<1> USE DEF engine, objects, host, manager
<1>1. ASSUME Quiet PROVE ObjectTypes'
  BY <1>1 DEF Quiet, Types, ObjectTypes
<1>2. ASSUME BuildFails PROVE ObjectTypes'
  <2>1. named' \in [Name -> Script \cup {NoScript}]
    BY <1>2 DEF BuildFails, Types, WithoutScript
  <2>2. build' = NoBuild /\ live' \subseteq UserData
    BY <1>2 DEF BuildFails, Types
  <2> QED BY <1>2, <2>1, <2>2, NoBuildType DEF BuildFails, Types, ObjectTypes
<1>3. ASSUME Compiled PROVE ObjectTypes'
  <2>1. PICK m \in Module :
          /\ refs' = [refs EXCEPT ![m] = 1]
          /\ script' = [script EXCEPT ![m] = build.script]
          /\ descriptor' = [descriptor EXCEPT ![m] = build.descriptor]
          /\ userData' = [userData EXCEPT ![m] = build.userData]
          /\ owner' = [owner EXCEPT ![build.script] = m]
          /\ build' = [build EXCEPT !.phase = "postBuild", !.module = m,
                                    !.userData = KeptUserData]
    BY <1>3 DEF Compiled
  <2>2. /\ build.script \in Script \cup {NoScript}
        /\ build.descriptor \in Descriptor \cup {NoDescriptor}
        /\ build.userData \in UserData \cup {NoUserData}
    BY DEF Types
  <2>3. /\ refs' \in [Module -> Nat]
        /\ script' \in [Module -> Script \cup {NoScript}]
        /\ descriptor' \in [Module -> Descriptor \cup {NoDescriptor}]
        /\ userData' \in [Module -> UserData \cup {NoUserData}]
        /\ owner' \in [Script -> Module \cup {NoModule}]
    BY <2>1, <2>2 DEF Types
  <2>4. build' = [phase |-> "postBuild", descriptor |-> build.descriptor,
                  script |-> build.script, userData |-> NoUserData, module |-> m]
    BY <2>1 DEF Types, KeptUserData
  <2> QED BY <1>3, <2>2, <2>3, <2>4 DEF Compiled, Types, ObjectTypes
<1>4. ASSUME Refused PROVE ObjectTypes'
  <2>1. build.module \in Module
    BY <1>4 DEF Refused, Building
  <2> DEFINE counts == [refs EXCEPT ![build.module] = 0]
  <2>2. counts \in [Module -> Nat] /\ LeftWith(counts)
    BY <1>4, <2>1 DEF Refused, Delete, Types
  <2> HIDE DEF counts
  <2> QED BY <1>4, <2>2, LeftWithTypes, NoBuildType DEF Refused, Types, ObjectTypes
<1>5. ASSUME Accepted PROVE ObjectTypes'
  <2>1. build.module \in Module \ Listed
    BY <1>5 DEF Accepted, Building
  <2>2. modules' \in Seq(Module)
    BY <1>5, <2>1, ListedWithGrows DEF Accepted
  <2> QED BY <1>5, <2>2, NoBuildType DEF Accepted, Types, ObjectTypes
<1>6. ASSUME NEW d \in Descriptor, NEW n \in Name,
             NEW u \in UserData \cup {NoUserData}, StartBuild(d, n, u)
      PROVE  ObjectTypes'
  <2>1. PICK s \in Script :
          /\ named' = [named EXCEPT ![n] = s]
          /\ owner' = [owner EXCEPT ![s] = NoModule]
          /\ build' = [phase |-> "compile", descriptor |-> d, script |-> s,
                       userData |-> u, module |-> NoModule]
    BY <1>6 DEF StartBuild
  <2> QED BY <1>6, <2>1 DEF StartBuild, Types, ObjectTypes
<1>7. ASSUME Emptied PROVE ObjectTypes'
  <2>1. build' \in [phase: {"none", "compile", "postBuild"},
                    descriptor: Descriptor \cup {NoDescriptor},
                    script: Script \cup {NoScript},
                    userData: UserData \cup {NoUserData},
                    module: Module \cup {NoModule}]
    BY <1>7 DEF Emptied, SameBuild, Types
  <2> QED BY <1>7, <2>1 DEF Emptied, Types, ObjectTypes
<1>8. ASSUME NEW m \in Module,
             \/ Removed(m) \/ AddRef(m) \/ Released(m) \/ Discarded(m)
             \/ \E u \in UserData \cup {NoUserData} : Replaced(m, u)
      PROVE  ObjectTypes'
  <2>1. CASE AddRef(m)
    BY <2>1 DEF AddRef, Types, ObjectTypes
  <2>2. CASE Released(m)
    BY <2>2, ReleaseAllTypes DEF Released, Types, ObjectTypes
  <2>3. CASE Discarded(m)
    BY <2>3, DiscardAllTypes DEF Discarded, Types, ObjectTypes
  <2>4. CASE \E u \in UserData \cup {NoUserData} : Replaced(m, u)
    BY <2>4 DEF Replaced, Types, ObjectTypes
  <2>5. CASE Removed(m)
    <3>1. refs[m] # 0
      BY <2>5, HasReference DEF Removed
    <3>2. /\ refs' \in [Module -> Nat]
          /\ userData' \in [Module -> UserData \cup {NoUserData}]
          /\ live' \subseteq UserData
      BY <2>5, <3>1, ReleaseAllTypes DEF Removed
    <3> QED BY <2>5, <3>2, DiscardAllTypes DEF Removed, Types, ObjectTypes
  <2> QED BY <1>8, <2>1, <2>2, <2>3, <2>4, <2>5
<1>9. OtherTypes'
  <2>1. CASE UNCHANGED vars
    BY <2>1 DEF vars, Types, OtherTypes
  <2>2. ASSUME NEW d \in Descriptor, AddDescriptor(d) PROVE OtherTypes'
    <3>1. nextId < LastId /\ nextId \in 1..LastId /\ LastId \in Nat
      BY <2>2, DescriptorAssumption DEF AddDescriptor, HasFreeId, Types
    <3>2. nextId + 1 \in 1..LastId /\ nextId \in 0..LastId
      BY <3>1
    <3> QED BY <2>2, <3>2 DEF AddDescriptor, Types, OtherTypes
  <2>3. ASSUME NEW d \in Descriptor, NEW n \in Name,
               NEW u \in UserData \cup {NoUserData}, StartBuild(d, n, u)
        PROVE  OtherTypes'
    BY <2>3 DEF StartBuild, Making, Types, OtherTypes
  <2>4. CASE BuildFails \/ Compiled \/ PostBuildRefuses
    BY <2>4 DEF BuildFails, Compiled, PostBuildRefuses, Making, Types, OtherTypes
  <2>5. CASE PostBuildAccepts
    BY <2>5 DEF PostBuildAccepts, AddModuleFault, Types, OtherTypes
  <2>6. ASSUME NEW m \in Module, RemoveModule(m) PROVE OtherTypes'
    BY <2>6, RemovalStartsTypes DEF RemoveModule, Unhooked, Types, OtherTypes
  <2>7. ASSUME NEW n \in Name, RemoveModuleByName(n) PROVE OtherTypes'
    <3>1. CASE SearchFault(n)
      BY <2>7, <3>1 DEF RemoveModuleByName, Types, OtherTypes
    <3>2. CASE ~SearchFault(n)
      <4>1. PICK m \in Listed : RemovalStarts(m)
        BY <2>7, <3>2 DEF RemoveModuleByName
      <4>2. /\ removal' \in [module: Module \cup {NoModule}, clear: BOOLEAN]
            /\ fault' \in {"none", "badScript", "badModule", "badDescriptor"}
        BY <4>1, RemovalStartsTypes, ReachableTypes
      <4> QED BY <2>7, <3>2, <4>2 DEF RemoveModuleByName, Making, Types, OtherTypes
    <3> QED BY <3>1, <3>2
  <2>8. CASE DiscardReturns \/ Clear \/ ClearNext \/ ClearEnds
    <3>1. CASE DiscardReturns
      BY <3>1 DEF DiscardReturns, Types, OtherTypes
    <3>2. CASE Clear
      BY <3>2 DEF Clear, NoRemoval, Making, Types, OtherTypes
    <3>3. CASE ClearNext
      <4>1. Head(modules) \in Module
        BY <3>3 DEF ClearNext, Types
      <4> QED BY <3>3, <4>1, RemovalStartsTypes DEF ClearNext, Types, OtherTypes
    <3>4. CASE ClearEnds
      BY <3>4, DescriptorAssumption DEF ClearEnds, NoRemoval, Types, OtherTypes
    <3> QED BY <2>8, <3>1, <3>2, <3>3, <3>4
  <2>9. ASSUME NEW s \in Script, AddFunction(s) \/ RemoveFunction(s)
        PROVE  OtherTypes'
    BY <2>9 DEF AddFunction, RemoveFunction, Making, Types, OtherTypes
  <2>10. CASE UnhookAllFunctions
    BY <2>10 DEF UnhookAllFunctions, Types, OtherTypes
  <2>11. ASSUME NEW m \in Module,
                AddRef(m) \/ Release(m) \/ Discard(m)
                  \/ \E u \in UserData \cup {NoUserData} : SetUserData(m, u)
         PROVE  OtherTypes'
    BY <2>11 DEF AddRef, Release, Discard, DiscardFault, Making, SetUserData,
                 Types, OtherTypes
  <2> QED BY <2>1, <2>2, <2>3, <2>4, <2>5, <2>6, <2>7, <2>8, <2>9, <2>10, <2>11
          DEF Next
<1> QED BY <1>1, <1>2, <1>3, <1>4, <1>5, <1>6, <1>7, <1>8, <1>9, StepKinds
        DEF StepKind, Types, ObjectTypes, OtherTypes

LEMMA ListStep ==
  ASSUME Types, Distinct, Building, Counted, StepKind
  PROVE  Distinct' /\ Building'
<1> USE DEF engine, objects, host, manager
<1>1. ASSUME UNCHANGED modules PROVE Distinct' /\ Listed' = Listed
  BY <1>1 DEF Distinct, Listed
<1>2. CASE Quiet
  BY <1>1, <1>2 DEF Quiet, Building
<1>3. CASE BuildFails
  BY <1>1, <1>3 DEF BuildFails, Building, NoBuild
<1>4. CASE Compiled
  <2>1. PICK m \in Module :
          /\ refs[m] = 0
          /\ build' = [build EXCEPT !.phase = "postBuild", !.module = m,
                                    !.userData = KeptUserData]
    BY <1>4 DEF Compiled
  <2>2. m \notin Listed
    BY <2>1, HasReference
  <2>3. build' = [phase |-> "postBuild", descriptor |-> build.descriptor,
                  script |-> build.script, userData |-> NoUserData, module |-> m]
    BY <2>1 DEF Types, KeptUserData
  <2> QED BY <1>1, <1>4, <2>2, <2>3 DEF Compiled, Building
<1>5. CASE Refused
  BY <1>1, <1>5 DEF Refused, Building, NoBuild
<1>6. CASE Accepted
  <2>1. Distinct'
    BY <1>6, ListedWithGrows DEF Accepted, Building, Distinct
  <2> QED BY <1>6, <2>1 DEF Accepted, Building, NoBuild
<1>7. ASSUME NEW d \in Descriptor, NEW n \in Name,
             NEW u \in UserData \cup {NoUserData}, StartBuild(d, n, u)
      PROVE  Distinct' /\ Building'
  BY <1>1, <1>7 DEF StartBuild, Building
<1>8. ASSUME NEW x \in Module, Removed(x) PROVE Distinct' /\ Building'
  <2>1. Distinct'
    <3>1. SUFFICES ASSUME NEW i \in DOMAIN modules', NEW j \in DOMAIN modules', i < j
                   PROVE  modules'[i] # modules'[j]
      <4>1. DOMAIN modules' \subseteq Int
        BY <1>8 DEF Removed
      <4> QED BY <4>1 DEF Distinct
    <3>2. PICK k \in DOMAIN modules, l \in DOMAIN modules :
            k < l /\ modules'[i] = modules[k] /\ modules'[j] = modules[l]
      BY <1>8, <3>1 DEF Removed, Embedded
    <3>3. k \in Int /\ l \in Int
      BY DEF Types
    <3> QED BY <3>2, <3>3 DEF Distinct
  <2> QED BY <1>8, <2>1 DEF Removed, Building
<1>10. CASE Emptied
  BY <1>1, <1>10 DEF Emptied, SameBuild, Building
<1>9. ASSUME NEW m \in Module,
             \/ AddRef(m) \/ Released(m) \/ Discarded(m)
             \/ \E u \in UserData \cup {NoUserData} : Replaced(m, u)
      PROVE  Distinct' /\ Building'
  <2>1. UNCHANGED <<modules, build>>
    BY <1>9 DEF AddRef, Released, Discarded, Replaced
  <2> QED BY <1>1, <2>1 DEF Building
<1> QED BY <1>2, <1>3, <1>4, <1>5, <1>6, <1>7, <1>8, <1>9, <1>10 DEF StepKind

-----------------------------------------------------------------------------
(* References.                                                             *)

LEMMA BuiltIsUnlisted ==
  ASSUME Types, Building PROVE build.module \notin Listed
BY NullAssumption, ReachableTypes DEF Types, Building, NoBuild

(* AddModule finds a module of the same name only after a rebuild.         *)
LEMMA RefusedIsCareless ==
  ASSUME Types, Building, Careful({"rebuild"}) => Linked, Refused,
         made \subseteq made'
  PROVE  ~Careful({"refuse", "rebuild"})'
<1>1. SUFFICES ASSUME Careful({"rebuild"}), ~Gone(script[build.module]),
                      NEW x \in Listed, script[x] = script[build.module]
               PROVE  FALSE
  BY DEF Refused, Careful
<1>2. x \in Current /\ build.module \in Current /\ script[x] # NoScript
  BY <1>1, NullAssumption, ReachableTypes DEF Refused, Building, Current, Gone
<1>3. owner[script[x]] = x /\ owner[script[build.module]] = build.module
  BY <1>1, <1>2 DEF Linked
<1> QED BY <1>1, <1>3, BuiltIsUnlisted

LEMMA CountedStep ==
  ASSUME Types, Types', Distinct, Building, Counted,
         Careful({"rebuild"}) => Linked, StepKind, made \subseteq made'
  PROVE  Counted'
<1> USE DEF engine, objects, host, manager
<1> SUFFICES ASSUME NEW m \in Module PROVE refs'[m] = Holders(m)' \/ Lost(m)'
  BY DEF Counted
<1>0. /\ refs[m] = Holders(m) \/ Lost(m)
      /\ refs[m] \in Nat
      /\ Careful({"refuse", "rebuild"})' => Careful({"refuse", "rebuild"})
      /\ build.module \notin Listed
  BY BuiltIsUnlisted DEF Counted, Types, Careful
<1> USE DEF Holders, One, Lost
<1>1. ASSUME UNCHANGED <<refs, held, build>>, Listed' = Listed
      PROVE  refs'[m] = Holders(m)' \/ Lost(m)'
  BY <1>0, <1>1
<1>2. CASE Quiet
  BY <1>1, <1>2 DEF Quiet, Listed
<1>3. CASE BuildFails
  <2>1. UNCHANGED <<refs, held>> /\ Listed' = Listed /\ m # build.module /\ m # build'.module
    BY <1>3, NullAssumption DEF BuildFails, Building, NoBuild, Listed
  <2> QED BY <1>0, <2>1
<1>4. CASE Compiled
  <2>1. PICK x \in Module :
          /\ refs[x] = 0 /\ x \notin held
          /\ refs' = [refs EXCEPT ![x] = 1]
          /\ build' = [build EXCEPT !.phase = "postBuild", !.module = x,
                                    !.userData = KeptUserData]
    BY <1>4 DEF Compiled
  <2>2. build'.module = x /\ build.module = NoModule /\ UNCHANGED held /\ Listed' = Listed
    BY <1>4, <2>1 DEF Compiled, Building, Listed, Types
  <2>3. x \notin Listed
    BY <2>1, HasReference
  <2>4. CASE m = x
    BY <2>1, <2>2, <2>3, <2>4 DEF Types
  <2>5. CASE m # x
    BY <1>0, <2>1, <2>2, <2>5, NullAssumption DEF Types
  <2> QED BY <2>4, <2>5
<1>5. CASE Refused
  <2>1. /\ build.module \in Module /\ build'.module = NoModule /\ Listed' = Listed
        /\ refs' = [refs EXCEPT ![build.module] = 0] /\ UNCHANGED held
    BY <1>5 DEF Refused, Building, NoBuild, Delete, LeftWith, Listed
  <2>2. ~Careful({"refuse", "rebuild"})'
    BY <1>5, RefusedIsCareless
  <2>3. CASE m = build.module
    BY <1>0, <2>1, <2>2, <2>3, NullAssumption DEF Types
  <2>4. CASE m # build.module
    BY <1>0, <2>1, <2>4, NullAssumption DEF Types
  <2> QED BY <2>3, <2>4
<1>6. CASE Accepted
  <2>1. /\ Listed' = Listed \cup {build.module} /\ build'.module = NoModule
        /\ UNCHANGED <<refs, held>>
    BY <1>6, ListedWithGrows DEF Accepted, Building, NoBuild, Listed
  <2> QED BY <1>0, <2>1, NullAssumption
<1>7. ASSUME NEW d \in Descriptor, NEW n \in Name,
             NEW u \in UserData \cup {NoUserData}, StartBuild(d, n, u)
      PROVE  refs'[m] = Holders(m)' \/ Lost(m)'
  <2>1. /\ UNCHANGED <<refs, held>> /\ Listed' = Listed
        /\ m # build.module /\ m # build'.module
    BY <1>7, NullAssumption DEF StartBuild, Building, NoBuild, Listed
  <2> QED BY <1>0, <2>1
<1>8. ASSUME NEW x \in Module, Removed(x)
      PROVE  refs'[m] = Holders(m)' \/ Lost(m)'
  <2>1. /\ Listed' = Listed \ {x} /\ UNCHANGED <<build, held>>
        /\ refs'[m] = IF m = x THEN refs[m] - 1 ELSE refs[m]
        /\ x \in Listed
    BY <1>8 DEF Removed, ReleaseAll, LeftWith
  <2> QED BY <1>0, <2>1
<1>12. CASE Emptied
  BY <1>0, <1>12 DEF Emptied, SameBuild, Listed
<1>9. ASSUME NEW x \in Module, AddRef(x) PROVE refs'[m] = Holders(m)' \/ Lost(m)'
  <2>1. /\ refs' = [refs EXCEPT ![x] = @ + 1] /\ held' = held \cup {x} /\ x \notin held
        /\ UNCHANGED build /\ Listed' = Listed
    BY <1>9 DEF AddRef, Listed
  <2>2. CASE m = x
    BY <1>0, <2>1, <2>2 DEF Types
  <2>3. CASE m # x
    BY <1>0, <2>1, <2>3 DEF Types
  <2> QED BY <2>2, <2>3
<1>10. ASSUME NEW x \in Module, Released(x) PROVE refs'[m] = Holders(m)' \/ Lost(m)'
  <2>1. /\ refs'[m] = IF m = x THEN refs[m] - 1 ELSE refs[m]
        /\ held' = held \ {x} /\ x \in held /\ refs[x] # 0
        /\ UNCHANGED build /\ Listed' = Listed
    BY <1>10 DEF Released, ReleaseAll, LeftWith, Listed
  <2> QED BY <1>0, <2>1
<1>11. ASSUME NEW x \in Module,
              Discarded(x) \/ \E u \in UserData \cup {NoUserData} : Replaced(x, u)
       PROVE  refs'[m] = Holders(m)' \/ Lost(m)'
  BY <1>1, <1>11 DEF Discarded, Replaced, Listed
<1> QED BY <1>2, <1>3, <1>4, <1>5, <1>6, <1>7, <1>8, <1>9, <1>10, <1>11, <1>12
        DEF StepKind

-----------------------------------------------------------------------------
(* User data.                                                              *)

LEMMA LeftWithOwned ==
  ASSUME Types, Owned, NEW counts \in [Module -> Nat],
         \A m \in Module : refs[m] = 0 => counts[m] = 0,
         LeftWith(counts), build'.userData = build.userData
  PROVE  Owned'
<1> DEFINE deleted == {m \in Module : refs[m] # 0 /\ counts[m] = 0}
<1>1. /\ refs' = counts /\ live' = live \ {userData[m] : m \in deleted}
      /\ \A m \in Module \ deleted : userData'[m] = userData[m]
  BY DEF LeftWith
<1>2. \A m \in Module, u \in UserData : Has(m, u)' <=> Has(m, u) /\ m \notin deleted
  BY <1>1 DEF Has
<1>3. \A u \in UserData : u \in live' <=> u \in live /\ \A m \in deleted : ~Has(m, u)
  BY <1>1 DEF Has
<1> HIDE DEF deleted
<1>4. live' \subseteq live /\ live \subseteq UserData
  BY <1>1 DEF Types
<1> USE DEF Owned
<1>5. (\A m \in Module, u \in UserData : Has(m, u) => u \in live /\ build.userData # u)'
  <2> SUFFICES ASSUME NEW m \in Module, NEW u \in UserData, Has(m, u)'
               PROVE  u \in live' /\ build'.userData # u
    OBVIOUS
  <2>1. Has(m, u) /\ m \notin deleted
    BY <1>2
  <2>2. ASSUME NEW x \in deleted, Has(x, u) PROVE FALSE
    <3>1. x \in Module
      BY DEF deleted
    <3> QED BY <2>1, <2>2, <3>1
  <2> QED BY <1>3, <2>1, <2>2
<1>6. (\A m \in Module, x \in Module, u \in UserData : Has(m, u) /\ Has(x, u) => m = x)'
  BY <1>2
<1>7. (\A u \in UserData : build.userData = u => u \in live)'
  <2> SUFFICES ASSUME NEW u \in UserData, build.userData = u PROVE u \in live'
    OBVIOUS
  <2>1. u \in live /\ \A m \in Module : ~Has(m, u)
    OBVIOUS
  <2>2. deleted \subseteq Module
    BY DEF deleted
  <2> QED BY <1>3, <2>1, <2>2
<1>8. (\A u \in live : build.userData = u \/ \E m \in Module : Has(m, u))'
  <2> SUFFICES ASSUME NEW u \in live', build.userData # u
               PROVE  \E m \in Module : Has(m, u)'
    OBVIOUS
  <2>1. u \in UserData /\ u \in live /\ \A m \in deleted : ~Has(m, u)
    BY <1>3, <1>4
  <2> QED BY <1>2, <2>1
<1> QED BY <1>5, <1>6, <1>7, <1>8

LEMMA ReleaseAllOwned ==
  ASSUME Types, Owned, NEW M \in SUBSET Module, \A m \in M : refs[m] # 0,
         ReleaseAll(M), build'.userData = build.userData
  PROVE  Owned'
<1> DEFINE counts == [m \in Module |-> IF m \in M THEN refs[m] - 1 ELSE refs[m]]
<1>1. counts \in [Module -> Nat] /\ \A m \in Module : refs[m] = 0 => counts[m] = 0
  BY DEF Types
<1>2. LeftWith(counts)
  BY DEF ReleaseAll
<1> HIDE DEF counts
<1> QED BY <1>1, <1>2, LeftWithOwned

LEMMA OwnedStep ==
  ASSUME Types, Distinct, Building, Counted, Owned, StepKind
  PROVE  Owned'
<1> USE DEF engine, objects, host, manager
<1>1. ASSUME UNCHANGED <<refs, userData, live>>, build'.userData = build.userData
      PROVE  Owned'
  BY <1>1 DEF Owned, Has
<1>2. CASE Quiet
  BY <1>1, <1>2 DEF Quiet
<1>3. CASE BuildFails
  BY <1>3, NullAssumption DEF BuildFails, NoBuild, Owned, Has, Types
<1>4. CASE Compiled
  <2>1. PICK x \in Module :
          /\ refs[x] = 0
          /\ refs' = [refs EXCEPT ![x] = 1]
          /\ userData' = [userData EXCEPT ![x] = build.userData]
          /\ build' = [build EXCEPT !.phase = "postBuild", !.module = x,
                                    !.userData = KeptUserData]
    BY <1>4 DEF Compiled
  <2>2. build'.userData = NoUserData /\ UNCHANGED live
    BY <1>4, <2>1 DEF Compiled, Types, KeptUserData
  <2>3. \A m \in Module, u \in UserData :
          Has(m, u)' <=> IF m = x THEN build.userData = u ELSE Has(m, u)
    BY <2>1 DEF Has, Types
  <2>4. \A u \in UserData : ~Has(x, u)
    BY <2>1 DEF Has
  <2> QED BY <2>2, <2>3, <2>4, NullAssumption DEF Owned, Types
<1>5. CASE Refused
  <2>1. build.module \in Module /\ build.userData = NoUserData
    BY <1>5 DEF Refused, Building
  <2> DEFINE counts == [refs EXCEPT ![build.module] = 0]
  <2>2. /\ counts \in [Module -> Nat] /\ LeftWith(counts)
        /\ \A m \in Module : refs[m] = 0 => counts[m] = 0
    BY <1>5, <2>1 DEF Refused, Delete, Types
  <2>3. build'.userData = build.userData
    BY <1>5, <2>1 DEF Refused, NoBuild
  <2> HIDE DEF counts
  <2> QED BY <2>2, <2>3, LeftWithOwned
<1>6. CASE Accepted
  BY <1>1, <1>6 DEF Accepted, Building, NoBuild
<1>7. ASSUME NEW d \in Descriptor, NEW n \in Name,
             NEW u \in UserData \cup {NoUserData}, StartBuild(d, n, u)
      PROVE  Owned'
  <2>1. /\ build.userData = NoUserData /\ build'.userData = u /\ u \notin live
        /\ live' = live \cup ({u} \ {NoUserData}) /\ UNCHANGED <<refs, userData>>
    BY <1>7 DEF StartBuild, Building, NoBuild
  <2>2. \A m \in Module, v \in UserData : Has(m, v)' <=> Has(m, v)
    BY <2>1 DEF Has
  <2>3. \A v \in UserData : v \in live' <=> v \in live \/ v = u
    BY <2>1, NullAssumption
  <2>4. live' \subseteq UserData
    BY <2>1 DEF Types
  <2>5. (\A m \in Module, v \in UserData : Has(m, v) => v \in live /\ build.userData # v)'
    BY <2>1, <2>2, <2>3 DEF Owned
  <2>6. (\A m \in Module, x \in Module, v \in UserData : Has(m, v) /\ Has(x, v) => m = x)'
    BY <2>2 DEF Owned
  <2>7. (\A v \in UserData : build.userData = v => v \in live)'
    BY <2>1, <2>3
  <2>8. (\A v \in live : build.userData = v \/ \E m \in Module : Has(m, v))'
    BY <2>1, <2>2, <2>3, <2>4, NullAssumption DEF Owned
  <2> QED BY <2>5, <2>6, <2>7, <2>8 DEF Owned
<1>8. ASSUME NEW x \in Module, Removed(x) PROVE Owned'
  BY <1>8, HasReference, ReleaseAllOwned DEF Removed
<1>13. CASE Emptied
  BY <1>1, <1>13 DEF Emptied, SameBuild
<1>9. ASSUME NEW m \in Module, AddRef(m) PROVE Owned'
  <2>1. UNCHANGED <<userData, live, build>> /\ m \in Reachable \ held
    BY <1>9 DEF AddRef
  <2>2. m \in Listed \/ m = build.module
    BY <2>1 DEF Reachable
  <2>3. refs[m] # 0 /\ refs[m] \in Nat
    BY <2>2, HasReference DEF Types
  <2>4. \A x \in Module : refs'[x] = 0 <=> refs[x] = 0
    BY <1>9, <2>3 DEF AddRef, Types
  <2> QED BY <2>1, <2>4 DEF Owned, Has
<1>10. ASSUME NEW m \in Module, Released(m) PROVE Owned'
  BY <1>10, ReleaseAllOwned DEF Released
<1>11. ASSUME NEW m \in Module, Discarded(m) PROVE Owned'
  BY <1>1, <1>11 DEF Discarded
<1>12. ASSUME NEW m \in Module, NEW u \in UserData \cup {NoUserData}, Replaced(m, u)
       PROVE  Owned'
  <2>1. /\ u \notin live /\ refs[m] # 0 /\ UNCHANGED <<refs, build>>
        /\ userData' = [userData EXCEPT ![m] = u]
        /\ live' = (live \ {userData[m]}) \cup ({u} \ {NoUserData})
    BY <1>12 DEF Replaced
  <2>2. \A x \in Module, v \in UserData :
          Has(x, v)' <=> IF x = m THEN v = u ELSE Has(x, v)
    BY <2>1 DEF Has, Types
  <2>3. \A v \in UserData :
          v \in live' <=> v = u \/ (v \in live /\ ~Has(m, v))
    BY <2>1, NullAssumption DEF Has
  <2>4. live' \subseteq UserData
    BY <2>1 DEF Types
  <2>5. (\A x \in Module, v \in UserData : Has(x, v) => v \in live /\ build.userData # v)'
    BY <2>1, <2>2, <2>3 DEF Owned
  <2>6. (\A x \in Module, y \in Module, v \in UserData : Has(x, v) /\ Has(y, v) => x = y)'
    BY <2>1, <2>2 DEF Owned
  <2>7. (\A v \in UserData : build.userData = v => v \in live)'
    BY <2>1, <2>3 DEF Owned
  <2>8. (\A v \in live : build.userData = v \/ \E x \in Module : Has(x, v))'
    BY <2>1, <2>2, <2>3, <2>4 DEF Owned
  <2> QED BY <2>5, <2>6, <2>7, <2>8 DEF Owned
<1> QED BY <1>2, <1>3, <1>4, <1>5, <1>6, <1>7, <1>8, <1>9, <1>10, <1>11, <1>12, <1>13
        DEF StepKind

-----------------------------------------------------------------------------
(* Script modules.                                                         *)

LEMMA GoneIff ==
  ASSUME Types, NEW s
  PROVE  Gone(s) <=> s = NoScript \/ \A n \in Name : named[n] # s
BY DEF Gone, Range, Types

LEMMA CurrentModules ==
  ASSUME Types
  PROVE  Current \subseteq Module /\ NoModule \notin Current
BY ReachableTypes DEF Current, Types

(* Discarding the scripts of current modules leaves the others linked.     *)
LEMMA DiscardKeeps ==
  ASSUME Types, Types', Linked, NEW M \in SUBSET Current, DiscardAll(M),
         UNCHANGED owner
  PROVE  /\ \A n, o \in Name : named'[n] = named'[o] /\ named'[n] # NoScript => n = o
         /\ \A s \in Script :
              (~Gone(s) /\ \A m \in M : script[m] # s) => ~(Gone(s)')
         /\ \A m \in Current \ M :
              script[m] # NoScript =>
                script'[m] = script[m] /\ ~(Gone(script[m])') /\ owner'[script[m]] = m
         /\ \A m \in M : script'[m] = NoScript
         /\ \A m \in Module \ M : script'[m] = script[m]
<1>1. M \subseteq Module /\ Current \subseteq Module
  BY CurrentModules
<1>2. /\ \A n \in Name :
           named'[n] = IF \E m \in M : script[m] = named[n] THEN NoScript ELSE named[n]
      /\ \A m \in Module : script'[m] = IF m \in M THEN NoScript ELSE script[m]
  BY DEF DiscardAll
<1>3. \A n, o \in Name : named'[n] = named'[o] /\ named'[n] # NoScript => n = o
  BY <1>2 DEF Linked
<1>4. ASSUME NEW s \in Script, ~Gone(s), \A m \in M : script[m] # s
      PROVE  ~(Gone(s)')
  <2>1. PICK n \in Name : named[n] = s
    BY <1>4, GoneIff
  <2>2. named'[n] = s
    BY <1>2, <1>4, <2>1
  <2>3. s # NoScript
    BY NullAssumption
  <2>4. DOMAIN named' = Name
    BY DEF Types
  <2> QED BY <2>2, <2>3, <2>4 DEF Gone, Range
<1>5. ASSUME NEW m \in Current \ M, script[m] # NoScript
      PROVE  script'[m] = script[m] /\ ~(Gone(script[m])') /\ owner'[script[m]] = m
  <2>1. ~Gone(script[m]) /\ owner[script[m]] = m /\ script[m] \in Script
    BY <1>1, <1>5 DEF Linked, Types
  <2>2. \A x \in M : script[x] # script[m]
    BY <1>5, <2>1 DEF Linked
  <2>3. script'[m] = script[m]
    BY <1>1, <1>2, <1>5
  <2> HIDE DEF Gone
  <2>4. \A t : t = script[m] => ~(Gone(t)')
    BY <1>4, <2>1, <2>2
  <2> QED BY <2>1, <2>3, <2>4
<1> QED BY <1>1, <1>2, <1>3, <1>4, <1>5

LEMMA LinkedStep ==
  ASSUME Types, Types', Distinct, Building, Building', Counted, Linked, StepKind,
         made \subseteq made', Careful({"rebuild"})'
  PROVE  Linked'
<1> USE DEF engine, objects, host, manager
<1>0. /\ Current \subseteq Module /\ NoModule \notin Current /\ Listed \subseteq Module
      /\ Listed \subseteq Current /\ build.module \notin Listed
  BY CurrentModules, ReachableTypes, BuiltIsUnlisted, NullAssumption DEF Current
<1>1. ASSUME UNCHANGED <<named, owner, script, build>>, Current' = Current,
             \A m \in held' \ Current : m \in held /\ (refs'[m] # 0 => refs[m] # 0)
      PROVE  Linked'
  BY <1>1 DEF Linked, Gone
<1>2. CASE Quiet
  BY <1>1, <1>2 DEF Quiet, Current, Listed
<1>3. CASE BuildFails
  <2>1. /\ build.phase = "compile" /\ build.module = NoModule /\ build' = NoBuild
        /\ \A n \in Name : named'[n] = IF named[n] = build.script THEN NoScript ELSE named[n]
        /\ UNCHANGED <<owner, script, refs, held>> /\ Listed' = Listed
    BY <1>3 DEF BuildFails, WithoutScript, Building, Listed
  <2>2. Current' = Current
    BY <2>1 DEF Current, NoBuild
  <2>3. ASSUME NEW m \in Current, script[m] # NoScript PROVE ~(Gone(script[m])')
    <3>1. ~Gone(script[m]) /\ owner[script[m]] = m /\ owner[build.script] = NoModule
      BY <2>1, <2>3 DEF Linked
    <3>2. PICK n \in Name : named[n] = script[m]
      BY <2>3, <3>1, GoneIff
    <3>3. named'[n] = script'[m] /\ script'[m] # NoScript
      BY <1>0, <2>1, <2>3, <3>1, <3>2
    <3> QED BY <3>3 DEF Gone, Range, Types
  <2> QED BY <2>1, <2>2, <2>3 DEF Linked, NoBuild
<1>4. CASE Compiled
  <2>1. PICK x \in Module :
          /\ refs[x] = 0 /\ x \notin held
          /\ refs' = [refs EXCEPT ![x] = 1]
          /\ script' = [script EXCEPT ![x] = build.script]
          /\ owner' = [owner EXCEPT ![build.script] = x]
          /\ build' = [build EXCEPT !.phase = "postBuild", !.module = x,
                                    !.userData = KeptUserData]
    BY <1>4 DEF Compiled
  <2>2. /\ build'.phase = "postBuild" /\ build'.module = x /\ build'.script = build.script
        /\ build.phase = "compile" /\ build.module = NoModule /\ build.script \in Script
        /\ UNCHANGED <<named, held>> /\ Listed' = Listed
    BY <1>4, <2>1 DEF Compiled, Building, Listed, Types
  <2>3. x \notin Listed /\ Current' = Current \cup {x} /\ x \notin Current
    BY <2>1, <2>2, HasReference, NullAssumption DEF Current
  <2>4. \A m \in Module \ {x} : script'[m] = script[m] /\ refs'[m] = refs[m]
    BY <2>1 DEF Types
  <2>5. script'[x] = build.script /\ owner'[build.script] = x
    BY <2>1, <2>2 DEF Types
  <2>6. ASSUME NEW m \in Current, script[m] # NoScript
        PROVE  ~(Gone(script[m])') /\ owner'[script'[m]] = m
    <3>1. ~Gone(script[m]) /\ owner[script[m]] = m /\ owner[build.script] = NoModule
      BY <2>2, <2>6 DEF Linked
    <3>2. script'[m] = script[m] /\ owner'[script[m]] = m
      BY <1>0, <2>1, <2>3, <2>4, <2>6, <3>1 DEF Types
    <3> QED BY <2>2, <3>1, <3>2 DEF Gone
  <2>7. ~(Gone(script[x])')
    BY <2>2, <2>5 DEF Linked, Gone
  <2>8. \A m \in Current' : script'[m] # NoScript => ~(Gone(script[m])') /\ owner'[script'[m]] = m
    BY <1>0, <2>3, <2>4, <2>5, <2>6, <2>7
  <2>9. \A m \in held' \ Current' : refs'[m] # 0 => script'[m] = NoScript
    BY <2>2, <2>3, <2>4 DEF Linked, Types
  <2> QED BY <2>2, <2>5, <2>8, <2>9 DEF Linked
<1>5. CASE Refused
  <2>1. /\ build' = NoBuild /\ UNCHANGED <<named, owner, script, held>> /\ Listed' = Listed
        /\ refs' = [refs EXCEPT ![build.module] = 0] /\ build.module \in Module
    BY <1>5 DEF Refused, Delete, LeftWith, Building, Listed
  <2>2. Current' \subseteq Current /\ Current \subseteq Current' \cup {build.module}
    BY <2>1 DEF Current, NoBuild
  <2>3. \A m \in held' \ Current' : refs'[m] # 0 => m \in held \ Current /\ refs[m] # 0
    BY <2>1, <2>2 DEF Types
  <2>4. \A m \in Current' : script'[m] # NoScript => ~(Gone(script[m])') /\ owner'[script'[m]] = m
    BY <2>1, <2>2 DEF Linked, Gone
  <2> QED BY <2>1, <2>3, <2>4 DEF Linked, NoBuild
<1>6. CASE Accepted
  <2>1. /\ Listed' = Listed \cup {build.module} /\ build' = NoBuild
        /\ UNCHANGED <<named, owner, script, refs, held>> /\ build.module \in Module
    BY <1>6, ListedWithGrows DEF Accepted, Building, Listed
  <2>2. Current' = Current
    BY <2>1, NullAssumption DEF Current, NoBuild
  <2> QED BY <2>1, <2>2 DEF Linked, NoBuild, Gone
<1>7. ASSUME NEW d \in Descriptor, NEW n \in Name,
             NEW u \in UserData \cup {NoUserData}, StartBuild(d, n, u)
      PROVE  Linked'
  <2>1. PICK s \in Script :
          /\ Gone(s)
          /\ named' = [named EXCEPT ![n] = s]
          /\ owner' = [owner EXCEPT ![s] = NoModule]
          /\ build' = [phase |-> "compile", descriptor |-> d, script |-> s,
                       userData |-> u, module |-> NoModule]
    BY <1>7 DEF StartBuild
  <2>2. /\ ~(\E m \in Listed : ~Gone(script[m]) /\ script[m] = named[n])
        /\ UNCHANGED <<script, refs, held>> /\ Listed' = Listed /\ build.module = NoModule
    BY <1>7 DEF StartBuild, Making, When, Careful, Listed, Building, NoBuild
  <2>3. Current' = Current /\ Current = Listed
    BY <1>0, <2>1, <2>2 DEF Current
  <2>4. /\ \A k \in Name : named[k] # s
        /\ \A k \in Name : named'[k] = IF k = n THEN s ELSE named[k]
        /\ s # NoScript /\ owner'[s] = NoModule
    BY <2>1, GoneIff, NullAssumption DEF Types
  <2>5. ASSUME NEW m \in Current, script[m] # NoScript
        PROVE  ~(Gone(script[m])') /\ owner'[script'[m]] = m
    <3>1. ~Gone(script[m]) /\ owner[script[m]] = m
      BY <2>5 DEF Linked
    <3>2. PICK k \in Name : named[k] = script[m]
      BY <2>5, <3>1, GoneIff
    <3>3. k # n
      BY <2>2, <2>3, <2>5, <3>1, <3>2
    <3>4. named'[k] = script'[m] /\ script'[m] # s /\ script'[m] \in Script
      BY <1>0, <2>2, <2>4, <2>5, <3>2, <3>3 DEF Types
    <3>5. owner'[script'[m]] = m
      BY <2>1, <2>2, <3>1, <3>4 DEF Types
    <3>6. DOMAIN named' = Name /\ script'[m] # NoScript
      BY <3>4, NullAssumption DEF Types
    <3> QED BY <3>4, <3>5, <3>6 DEF Gone, Range
  <2>6. ~(Gone(build.script)')
    <3>1. named'[n] = build'.script /\ build'.script # NoScript /\ DOMAIN named' = Name
      BY <2>1, <2>4 DEF Types
    <3> QED BY <3>1 DEF Gone, Range
  <2>7. \A k, o \in Name : named'[k] = named'[o] /\ named'[k] # NoScript => k = o
    BY <2>4 DEF Linked
  <2>8. \A m \in held' \ Current' : refs'[m] # 0 => script'[m] = NoScript
    BY <2>2, <2>3 DEF Linked
  <2>9. \A m \in Current' : script'[m] # NoScript => ~(Gone(script[m])') /\ owner'[script'[m]] = m
    BY <2>2, <2>3, <2>5
  <2> QED BY <2>1, <2>4, <2>6, <2>7, <2>8, <2>9 DEF Linked
<1>8. ASSUME NEW x \in Module, Removed(x) PROVE Linked'
  <2>1. /\ x \in Listed /\ x \in Current /\ UNCHANGED <<owner, held, build>>
        /\ Listed' = Listed \ {x} /\ DiscardAll({x})
        /\ \A m \in Module \ {x} : refs'[m] = refs[m]
    BY <1>0, <1>8 DEF Removed, ReleaseAll, LeftWith
  <2>2. Current' = Current \ {x}
    BY <1>0, <2>1 DEF Current
  <2>3. /\ \A n, o \in Name : named'[n] = named'[o] /\ named'[n] # NoScript => n = o
        /\ \A s \in Script :
             (~Gone(s) /\ \A m \in {x} : script[m] # s) => ~(Gone(s)')
        /\ \A m \in Current \ {x} :
             script[m] # NoScript =>
               script'[m] = script[m] /\ ~(Gone(script[m])') /\ owner'[script[m]] = m
        /\ \A m \in {x} : script'[m] = NoScript
        /\ \A m \in Module \ {x} : script'[m] = script[m]
    BY <2>1, DiscardKeeps
  <2>4. \A m \in Current' : script'[m] # NoScript => ~(Gone(script[m])') /\ owner'[script'[m]] = m
    BY <1>0, <2>2, <2>3
  <2>5. \A m \in held' \ Current' : refs'[m] # 0 => script'[m] = NoScript
    BY <2>1, <2>2, <2>3 DEF Linked, Types
  <2>6. ASSUME build.phase = "compile"
        PROVE  ~(Gone(build.script)') /\ owner'[build'.script] = NoModule
    <3>1. build.script \in Script /\ ~Gone(build.script) /\ owner[build.script] = NoModule
      BY <2>6 DEF Building, Linked
    <3>2. \A m \in {x} : script[m] # build.script
      BY <1>0, <2>1, <3>1, NullAssumption DEF Linked
    <3> HIDE DEF Gone
    <3>3. \A t : t = build.script => ~(Gone(t)')
      BY <2>3, <3>1, <3>2
    <3> QED BY <2>1, <3>1, <3>3
  <2>7. build.phase = "postBuild" => script'[build'.module] \in {build'.script, NoScript}
    BY <1>0, <2>1, <2>3 DEF Linked, Building
  <2> QED BY <2>1, <2>3, <2>4, <2>5, <2>6, <2>7 DEF Linked
<1>13. CASE Emptied
  <2>1. /\ UNCHANGED <<named, owner, script, refs, held>> /\ Listed' = Listed
        /\ build'.module = build.module /\ build'.phase = build.phase
        /\ build'.script = build.script
    BY <1>13 DEF Emptied, SameBuild, Listed
  <2>2. Current' = Current
    BY <2>1 DEF Current
  <2> QED BY <2>1, <2>2 DEF Linked, Gone
<1>9. ASSUME NEW x \in Module, AddRef(x) PROVE Linked'
  <2>1. /\ UNCHANGED <<named, owner, script, build>> /\ Listed' = Listed
        /\ held' = held \cup {x} /\ refs' = [refs EXCEPT ![x] = @ + 1]
        /\ x \in Current
    BY <1>9 DEF AddRef, Reachable, Current, Listed
  <2>2. Current' = Current
    BY <2>1 DEF Current
  <2> QED BY <1>1, <2>1, <2>2 DEF Types
<1>10. ASSUME NEW x \in Module, Released(x) PROVE Linked'
  <2>1. /\ UNCHANGED <<named, owner, script, build>> /\ Listed' = Listed
        /\ held' = held \ {x} /\ \A m \in Module \ {x} : refs'[m] = refs[m]
    BY <1>10 DEF Released, ReleaseAll, LeftWith, Listed
  <2>2. Current' = Current
    BY <2>1 DEF Current
  <2> QED BY <1>1, <2>1, <2>2 DEF Types
<1>11. ASSUME NEW x \in Module, Discarded(x) PROVE Linked'
  <2>1. /\ UNCHANGED <<owner, refs, held, build>> /\ Listed' = Listed
        /\ DiscardAll({x}) /\ refs[x] # 0 /\ ~Gone(script[x]) /\ x \in Reachable
    BY <1>11 DEF Discarded, Listed
  <2>2. Current' = Current
    BY <2>1 DEF Current
  <2>3. x \in Current
    BY <2>1, NullAssumption DEF Reachable, Current, Linked, Gone
  <2>4. /\ \A n, o \in Name : named'[n] = named'[o] /\ named'[n] # NoScript => n = o
        /\ \A s \in Script :
             (~Gone(s) /\ \A m \in {x} : script[m] # s) => ~(Gone(s)')
        /\ \A m \in Current \ {x} :
             script[m] # NoScript =>
               script'[m] = script[m] /\ ~(Gone(script[m])') /\ owner'[script[m]] = m
        /\ \A m \in {x} : script'[m] = NoScript
        /\ \A m \in Module \ {x} : script'[m] = script[m]
    BY <2>1, <2>3, DiscardKeeps
  <2>5. \A m \in Current' : script'[m] # NoScript => ~(Gone(script[m])') /\ owner'[script'[m]] = m
    BY <1>0, <2>2, <2>4
  <2>6. \A m \in held' \ Current' : refs'[m] # 0 => script'[m] = NoScript
    BY <2>1, <2>2, <2>3, <2>4 DEF Linked, Types
  <2>7. ASSUME build.phase = "compile"
        PROVE  ~(Gone(build.script)') /\ owner'[build'.script] = NoModule
    <3>1. build.script \in Script /\ ~Gone(build.script) /\ owner[build.script] = NoModule
      BY <2>7 DEF Building, Linked
    <3>2. \A m \in {x} : script[m] # build.script
      BY <1>0, <2>3, <3>1, NullAssumption DEF Linked
    <3> HIDE DEF Gone
    <3>3. \A t : t = build.script => ~(Gone(t)')
      BY <2>4, <3>1, <3>2
    <3> QED BY <2>1, <3>1, <3>3
  <2>8. build.phase = "postBuild" => script'[build'.module] \in {build'.script, NoScript}
    BY <2>1, <2>4 DEF Linked, Building
  <2> QED BY <2>1, <2>4, <2>5, <2>6, <2>7, <2>8 DEF Linked
<1>12. ASSUME NEW x \in Module, NEW u \in UserData \cup {NoUserData}, Replaced(x, u)
       PROVE  Linked'
  <2>1. UNCHANGED <<named, owner, script, refs, held, build>> /\ Listed' = Listed
    BY <1>12 DEF Replaced, Listed
  <2>2. Current' = Current
    BY <2>1 DEF Current
  <2> QED BY <1>1, <2>1, <2>2
<1> QED BY <1>2, <1>3, <1>4, <1>5, <1>6, <1>7, <1>8, <1>9, <1>10, <1>11, <1>12, <1>13
        DEF StepKind

LEMMA CoveredStep ==
  ASSUME Types, Types', Distinct, Building, Building', Counted, Covered, StepKind,
         Careful({"rebuild"}) => Linked,
         made \subseteq made', Careful({"rebuild", "refuse"})'
  PROVE  Covered'
<1> USE DEF engine, objects, host, manager
<1>0. Listed \subseteq Module /\ DOMAIN named = Name /\ DOMAIN named' = Name
  BY ReachableTypes DEF Types
<1>1. ASSUME UNCHANGED <<named, script>>, Listed' = Listed, build'.script = build.script
      PROVE  Covered'
  BY <1>1 DEF Covered
<1>2. CASE Quiet
  BY <1>1, <1>2 DEF Quiet, Listed
<1>3. CASE BuildFails
  <2>1. /\ \A n \in Name : named'[n] = IF named[n] = build.script THEN NoScript ELSE named[n]
        /\ UNCHANGED script /\ Listed' = Listed
    BY <1>3 DEF BuildFails, WithoutScript, Listed
  <2> QED BY <2>1 DEF Covered
<1>4. CASE Compiled
  <2>1. PICK x \in Module :
          /\ refs[x] = 0
          /\ script' = [script EXCEPT ![x] = build.script]
          /\ build' = [build EXCEPT !.phase = "postBuild", !.module = x,
                                    !.userData = KeptUserData]
    BY <1>4 DEF Compiled
  <2>2. build'.script = build.script /\ UNCHANGED named /\ Listed' = Listed
    BY <1>4, <2>1 DEF Compiled, Listed, Types
  <2>3. \A m \in Listed : script'[m] = script[m]
    BY <1>0, <2>1, HasReference DEF Types
  <2> QED BY <2>2, <2>3 DEF Covered
<1>5. CASE Refused
  BY <1>5, RefusedIsCareless DEF Careful
<1>6. CASE Accepted
  <2>1. /\ Listed' = Listed \cup {build.module} /\ UNCHANGED <<named, script>>
        /\ ~Gone(script[build.module]) /\ build.phase = "postBuild"
    BY <1>6, ListedWithGrows DEF Accepted, Building, Listed, AddModuleFault
  <2>2. script[build.module] = build.script
    BY <2>1 DEF Careful, Linked, Gone
  <2> QED BY <2>1, <2>2 DEF Covered
<1>7. ASSUME NEW d \in Descriptor, NEW n \in Name,
             NEW u \in UserData \cup {NoUserData}, StartBuild(d, n, u)
      PROVE  Covered'
  <2>1. PICK s \in Script :
          /\ named' = [named EXCEPT ![n] = s]
          /\ build' = [phase |-> "compile", descriptor |-> d, script |-> s,
                       userData |-> u, module |-> NoModule]
    BY <1>7 DEF StartBuild
  <2>2. build.script = NoScript /\ UNCHANGED script /\ Listed' = Listed
    BY <1>7 DEF StartBuild, Building, NoBuild, Listed
  <2> QED BY <2>1, <2>2 DEF Covered, Types
<1>8. ASSUME NEW x \in Module, DiscardAll({x}), build'.script = build.script,
             Listed' \subseteq Listed, Listed \subseteq Listed' \cup {x}
      PROVE  Covered'
  <2>1. /\ \A k \in Name :
             named'[k] = IF script[x] = named[k] THEN NoScript ELSE named[k]
        /\ \A m \in Module \ {x} : script'[m] = script[m]
    BY <1>8 DEF DiscardAll
  <2>2. SUFFICES ASSUME NEW k \in Name, named'[k] # NoScript, named'[k] # build.script
                 PROVE  \E m \in Listed' : script'[m] = named'[k]
    BY <1>8 DEF Covered
  <2>3. named'[k] = named[k] /\ script[x] # named[k]
    BY <2>1, <2>2
  <2>4. PICK m \in Listed : script[m] = named[k]
    BY <2>2, <2>3 DEF Covered
  <2> QED BY <1>0, <1>8, <2>1, <2>3, <2>4
<1>9. ASSUME NEW x \in Module, Removed(x) PROVE Covered'
  BY <1>8, <1>9 DEF Removed
<1>12. CASE Emptied
  BY <1>1, <1>12 DEF Emptied, SameBuild, Listed
<1>10. ASSUME NEW x \in Module, Discarded(x) PROVE Covered'
  <2>1. Listed' = Listed /\ DiscardAll({x}) /\ build'.script = build.script
    BY <1>10 DEF Discarded, Listed
  <2>2. script'[x] = NoScript /\ \A m \in Module \ {x} : script'[m] = script[m]
    BY <2>1 DEF DiscardAll
  <2> QED BY <1>8, <2>1
<1>11. ASSUME NEW x \in Module,
              \/ AddRef(x) \/ Released(x)
              \/ \E u \in UserData \cup {NoUserData} : Replaced(x, u)
       PROVE  Covered'
  BY <1>1, <1>11 DEF AddRef, Released, Replaced, Listed
<1> QED BY <1>2, <1>3, <1>4, <1>5, <1>6, <1>7, <1>9, <1>10, <1>11, <1>12 DEF StepKind

LEMMA UndiscardedStep ==
  ASSUME Types, Types', Distinct, Building, Building', Counted, Undiscarded, StepKind,
         made \subseteq made', Careful({"rebuild", "discard"})'
  PROVE  Undiscarded'
<1> USE DEF engine, objects, host, manager
<1>0. Current \subseteq Module /\ Listed \subseteq Module /\ Listed \subseteq Current
  BY CurrentModules, ReachableTypes, NullAssumption DEF Current
<1>1. ASSUME Current' \subseteq Current, \A m \in Current' : script'[m] = script[m]
      PROVE  Undiscarded'
  BY <1>1 DEF Undiscarded
<1>2. CASE Quiet
  BY <1>1, <1>2 DEF Quiet, Current, Listed
<1>3. CASE BuildFails \/ Refused
  BY <1>1, <1>3 DEF BuildFails, Refused, NoBuild, Current, Listed
<1>4. CASE Compiled
  <2>1. PICK x \in Module :
          /\ refs[x] = 0
          /\ script' = [script EXCEPT ![x] = build.script]
          /\ build' = [build EXCEPT !.phase = "postBuild", !.module = x,
                                    !.userData = KeptUserData]
    BY <1>4 DEF Compiled
  <2>2. /\ build'.module = x /\ Listed' = Listed /\ build.script \in Script
        /\ build.module = NoModule
    BY <1>4, <2>1 DEF Compiled, Listed, Building, Types
  <2>3. script'[x] = build.script /\ \A m \in Module \ {x} : script'[m] = script[m]
    BY <2>1 DEF Types
  <2>4. Current' = Current \cup {x}
    BY <2>2, NullAssumption DEF Current
  <2> QED BY <1>0, <2>2, <2>3, <2>4, NullAssumption DEF Undiscarded
<1>5. CASE Accepted
  <2>1. Listed' = Listed \cup {build.module} /\ UNCHANGED script /\ build' = NoBuild
        /\ build.module \in Module
    BY <1>5, ListedWithGrows DEF Accepted, Building, Listed
  <2>2. Current' = Current
    BY <2>1, NullAssumption DEF Current, NoBuild
  <2> QED BY <1>1, <2>1, <2>2
<1>6. ASSUME NEW d \in Descriptor, NEW n \in Name,
             NEW u \in UserData \cup {NoUserData}, StartBuild(d, n, u)
      PROVE  Undiscarded'
  BY <1>1, <1>6 DEF StartBuild, Current, Listed
<1>7. ASSUME NEW x \in Module, Removed(x) PROVE Undiscarded'
  <2>1. Listed' = Listed \ {x} /\ \A m \in Module \ {x} : script'[m] = script[m]
    BY <1>7 DEF Removed, DiscardAll
  <2>2. Current' \subseteq Current \ {x}
    BY <1>7, <2>1, BuiltIsUnlisted DEF Removed, Current
  <2> QED BY <1>0, <1>1, <2>1, <2>2
<1>10. CASE Emptied
  BY <1>1, <1>10 DEF Emptied, SameBuild, Current, Listed
<1>8. ASSUME NEW x \in Module, Discarded(x) PROVE Undiscarded'
  BY <1>8 DEF Discarded, Careful
<1>9. ASSUME NEW x \in Module,
             \/ AddRef(x) \/ Released(x)
             \/ \E u \in UserData \cup {NoUserData} : Replaced(x, u)
      PROVE  Undiscarded'
  BY <1>1, <1>9 DEF AddRef, Released, Replaced, Current, Listed
<1> QED BY <1>2, <1>3, <1>4, <1>5, <1>6, <1>7, <1>8, <1>9, <1>10 DEF StepKind

-----------------------------------------------------------------------------
(* Descriptors and the order of the list.                                  *)

LEMMA NoBuildDescriptor ==
  NoBuild.descriptor = NoDescriptor
BY DEF NoBuild

LEMMA IdentifiedStep ==
  ASSUME Types, Types', Identified, [Next]_vars
  PROVE  Identified'
<1> USE DEF engine, objects, host, manager, Registered
<1>1. ASSUME UNCHANGED <<ids, nextId, descriptor>>,
             build'.descriptor \in {build.descriptor, NoDescriptor}
      PROVE  Identified'
  BY <1>1 DEF Identified
<1>2. CASE UNCHANGED vars
  BY <1>1, <1>2 DEF vars
<1>3. ASSUME NEW d \in Descriptor, AddDescriptor(d) PROVE Identified'
  <2>1. /\ ids[d] = 0 /\ ids' = [ids EXCEPT ![d] = nextId] /\ nextId' = nextId + 1
        /\ UNCHANGED <<descriptor, build>> /\ nextId \in Nat \ {0}
    BY <1>3 DEF AddDescriptor, Types
  <2>2. /\ ids'[d] = nextId
        /\ \A e \in Descriptor \ {d} : ids'[e] = ids[e]
        /\ \A e \in Descriptor : ids[e] < nextId /\ ids[e] \in Nat
    BY <2>1 DEF Identified, Types
  <2>3. (\A e \in Descriptor : ids[e] < nextId)'
    BY <2>1, <2>2
  <2>4. (\A e \in Descriptor, f \in Descriptor : Registered(e) /\ ids[e] = ids[f] => e = f)'
    BY <2>1, <2>2 DEF Identified
  <2>5. \A e \in Descriptor : Registered(e) => Registered(e)'
    BY <2>1, <2>2
  <2>6. (\A m \in Module : descriptor[m] # NoDescriptor => Registered(descriptor[m]))'
    BY <2>1, <2>5 DEF Identified, Types
  <2>7. (build.descriptor # NoDescriptor => Registered(build.descriptor))'
    BY <2>1, <2>5 DEF Identified, Types
  <2> QED BY <2>3, <2>4, <2>6, <2>7 DEF Identified
<1>4. ASSUME NEW d \in Descriptor, NEW n \in Name,
             NEW u \in UserData \cup {NoUserData}, StartBuild(d, n, u)
      PROVE  Identified'
  BY <1>4 DEF StartBuild, Identified
<1>5. CASE Compiled
  <2>1. PICK x \in Module :
          /\ descriptor' = [descriptor EXCEPT ![x] = build.descriptor]
          /\ build' = [build EXCEPT !.phase = "postBuild", !.module = x,
                                    !.userData = KeptUserData]
    BY <1>5 DEF Compiled
  <2>2. build'.descriptor = build.descriptor /\ UNCHANGED <<ids, nextId>>
    BY <1>5, <2>1 DEF Compiled, Types
  <2> QED BY <2>1, <2>2 DEF Identified, Types
<1>6. CASE ClearEnds
  <2>1. build'.descriptor = NoDescriptor
    BY <1>6 DEF ClearEnds, Types
  <2> QED BY <1>6, <2>1 DEF ClearEnds, Identified
<1>7. CASE BuildFails \/ PostBuildRefuses \/ PostBuildAccepts
  BY <1>1, <1>7, NoBuildDescriptor DEF BuildFails, PostBuildRefuses, PostBuildAccepts
<1>8. ASSUME NEW m \in Module,
             \/ RemoveModule(m) \/ AddRef(m) \/ Release(m) \/ Discard(m)
             \/ \E u \in UserData \cup {NoUserData} : SetUserData(m, u)
      PROVE  Identified'
  BY <1>1, <1>8 DEF RemoveModule, AddRef, Release, Discard, SetUserData
<1>9. ASSUME NEW n \in Name, RemoveModuleByName(n) PROVE Identified'
  BY <1>1, <1>9 DEF RemoveModuleByName
<1>10. ASSUME NEW s \in Script, AddFunction(s) \/ RemoveFunction(s)
       PROVE  Identified'
  BY <1>1, <1>10 DEF AddFunction, RemoveFunction
<1>11. CASE UnhookAllFunctions \/ DiscardReturns \/ Clear \/ ClearNext
  BY <1>1, <1>11 DEF UnhookAllFunctions, DiscardReturns, Clear, ClearNext
<1> QED BY <1>2, <1>3, <1>4, <1>5, <1>6, <1>7, <1>8, <1>9, <1>10, <1>11 DEF Next

LEMMA SortedStep ==
  ASSUME Types, Types', Distinct, Building, Removing, Counted, Identified, Sorted,
         [Next]_vars
  PROVE  Sorted'
<1> USE DEF engine, objects, host, manager
<1>0. Listed \subseteq Module /\ DOMAIN modules = 1..Len(modules) /\ Len(modules) \in Nat
  <2>1. modules \in Seq(Module)
    BY DEF Types
  <2> QED BY <2>1, ReachableTypes
<1>1. ASSUME UNCHANGED <<modules, ids>>, \A m \in Listed : descriptor'[m] = descriptor[m]
      PROVE  Sorted'
  BY <1>1 DEF Sorted, DescriptorLess, Listed, Range
<1>2. CASE DiscardReturns
  <2>1. /\ modules' \in Seq(Module) /\ Embedded(modules') /\ Listed' \subseteq Listed
        /\ UNCHANGED <<ids, descriptor>>
    BY <1>2, ReturnsRemoves DEF DiscardReturns, Removed
  <2>2. DOMAIN modules' = 1..Len(modules') /\ Len(modules') \in Nat
    BY <2>1
  <2>3. \A i, j \in DOMAIN modules' :
          i < j => ~DescriptorLess(descriptor[modules'[j]], descriptor[modules'[i]])
    BY <2>1 DEF Embedded, Sorted
  <2>4. ASSUME Len(modules') > 1 PROVE Len(modules) > 1
    <3>1. 1 \in DOMAIN modules' /\ 2 \in DOMAIN modules' /\ 1 < 2
      BY <2>2, <2>4
    <3>2. PICK k \in DOMAIN modules, l \in DOMAIN modules : k < l
      BY <2>1, <3>1 DEF Embedded
    <3> QED BY <1>0, <3>2
  <2>5. \A d, e : DescriptorLess(d, e)' <=> DescriptorLess(d, e)
    BY <2>1 DEF DescriptorLess
  <2> HIDE DEF DescriptorLess
  <2> QED BY <2>1, <2>3, <2>4, <2>5 DEF Sorted
<1>3. CASE UNCHANGED vars
  BY <1>1, <1>3 DEF vars
<1>4. ASSUME NEW d \in Descriptor, AddDescriptor(d) PROVE Sorted'
  <2>1. /\ ~Registered(d) /\ ids' = [ids EXCEPT ![d] = nextId]
        /\ UNCHANGED <<modules, descriptor>>
    BY <1>4 DEF AddDescriptor
  <2>2. SUFFICES ASSUME NEW i \in DOMAIN modules, NEW j \in DOMAIN modules, i < j
                 PROVE  ~DescriptorLess(descriptor[modules[j]], descriptor[modules[i]])'
    BY <2>1 DEF Sorted, Listed
  <2>3. Len(modules) > 1 /\ modules[i] \in Listed /\ modules[j] \in Listed
    BY <1>0, <2>2 DEF Listed, Range
  <2>4. \A x \in Listed : descriptor[x] \in Descriptor /\ Registered(descriptor[x])
    BY <1>0, <2>3 DEF Sorted, Identified, Types
  <2>5. \A x \in Listed : ids'[descriptor[x]] = ids[descriptor[x]]
    BY <2>1, <2>4 DEF Types
  <2>6. ~DescriptorLess(descriptor[modules[j]], descriptor[modules[i]])
    BY <2>2 DEF Sorted
  <2> QED BY <2>1, <2>3, <2>5, <2>6 DEF DescriptorLess
<1>5. CASE Compiled
  <2>1. PICK x \in Module :
          refs[x] = 0 /\ descriptor' = [descriptor EXCEPT ![x] = build.descriptor]
    BY <1>5 DEF Compiled
  <2>2. \A m \in Listed : descriptor'[m] = descriptor[m]
    BY <1>0, <2>1, HasReference DEF Types
  <2> QED BY <1>1, <1>5, <2>2 DEF Compiled
<1>6. CASE PostBuildAccepts
  <2>1. CASE UNCHANGED modules
    BY <1>1, <1>6, <2>1 DEF PostBuildAccepts
  <2>2. CASE /\ AddModuleFault(build.module) = "none"
             /\ \A x \in Listed : script[x] # script[build.module]
             /\ modules' \in ListedWith(build.module)
    <3>1. build.module \in Module \ Listed /\ UNCHANGED <<ids, descriptor>>
      BY <1>6 DEF PostBuildAccepts, Building
    <3>2. /\ Len(modules') = Len(modules) + 1 /\ Range(modules') = Listed \cup {build.module}
          /\ \A i, j \in DOMAIN modules' :
               i < j => ~DescriptorLess(descriptor[modules'[j]], descriptor[modules'[i]])
      BY <2>2, <3>1, ListedWithGrows
    <3>3. ASSUME Len(modules') > 1, NEW x \in Listed \cup {build.module}
          PROVE  descriptor[x] # NoDescriptor
      <4>1. modules # <<>>
        BY <1>0, <3>2, <3>3
      <4> QED BY <2>2, <3>3, <4>1 DEF AddModuleFault
    <3>4. \A d, e : DescriptorLess(d, e)' <=> DescriptorLess(d, e)
      BY <3>1 DEF DescriptorLess
    <3> HIDE DEF DescriptorLess
    <3> QED BY <3>1, <3>2, <3>3, <3>4 DEF Sorted, Listed
  <2> QED BY <1>6, <2>1, <2>2 DEF PostBuildAccepts
<1>7. CASE ClearEnds
  <2>1. modules' = <<>>
    BY <1>7 DEF ClearEnds
  <2> QED BY <2>1 DEF Sorted
<1>8. CASE \/ \E m \in Module : RemoveModule(m)
           \/ \E n \in Name : RemoveModuleByName(n)
           \/ Clear \/ ClearNext
  BY <1>1, <1>8 DEF RemoveModule, RemoveModuleByName, Clear, ClearNext
<1>10. ASSUME NEW d \in Descriptor, NEW n \in Name,
              NEW u \in UserData \cup {NoUserData}, StartBuild(d, n, u)
       PROVE  Sorted'
  BY <1>1, <1>10 DEF StartBuild
<1>11. CASE BuildFails \/ PostBuildRefuses \/ UnhookAllFunctions
  BY <1>1, <1>11 DEF BuildFails, PostBuildRefuses, UnhookAllFunctions
<1>12. ASSUME NEW m \in Module,
              \/ AddRef(m) \/ Release(m) \/ Discard(m)
              \/ \E u \in UserData \cup {NoUserData} : SetUserData(m, u)
       PROVE  Sorted'
  BY <1>1, <1>12 DEF AddRef, Release, Discard, SetUserData
<1>13. ASSUME NEW s \in Script, AddFunction(s) \/ RemoveFunction(s) PROVE Sorted'
  BY <1>1, <1>13 DEF AddFunction, RemoveFunction
<1> QED BY <1>2, <1>3, <1>4, <1>5, <1>6, <1>7, <1>8, <1>10, <1>11, <1>12, <1>13
        DEF Next

LEMMA DescribedStep ==
  ASSUME Types, Types', Distinct, Building, Removing, Counted, Counted', Described,
         [Next]_vars, made \subseteq made'
  PROVE  Described'
<1> USE DEF engine, objects, host, manager
<1>0. SUFFICES ASSUME Careful({"clear"})'
               PROVE  /\ \A m \in Module : refs'[m] # 0 => descriptor'[m] # NoDescriptor
                      /\ build'.phase # "none" => build'.descriptor # NoDescriptor
  BY DEF Described
<1> DEFINE Goal == /\ \A m \in Module : refs'[m] # 0 => descriptor'[m] # NoDescriptor
                   /\ build'.phase # "none" => build'.descriptor # NoDescriptor
<1>1. /\ \A m \in Module : refs[m] # 0 => descriptor[m] # NoDescriptor
      /\ build.phase # "none" => build.descriptor # NoDescriptor
  BY <1>0 DEF Described, Careful
<1>2. ASSUME UNCHANGED descriptor, build' = build \/ build' = NoBuild,
             \A m \in Module : refs'[m] # 0 => refs[m] # 0
      PROVE  Goal
  BY <1>1, <1>2 DEF NoBuild
<1>3. ASSUME NEW M \in SUBSET Module, ReleaseAll(M), \A m \in M : refs[m] # 0
      PROVE  \A m \in Module : refs'[m] # 0 => refs[m] # 0
  BY <1>3 DEF ReleaseAll, LeftWith
<1>4. CASE UNCHANGED vars
  BY <1>2, <1>4 DEF vars
<1>5. ASSUME NEW d \in Descriptor, AddDescriptor(d) PROVE Goal
  BY <1>2, <1>5 DEF AddDescriptor
<1>6. ASSUME NEW d \in Descriptor, NEW n \in Name,
             NEW u \in UserData \cup {NoUserData}, StartBuild(d, n, u)
      PROVE  Goal
  BY <1>1, <1>6, NullAssumption DEF StartBuild
<1>7. CASE Compiled
  <2>1. PICK x \in Module :
          /\ refs' = [refs EXCEPT ![x] = 1]
          /\ descriptor' = [descriptor EXCEPT ![x] = build.descriptor]
          /\ build' = [build EXCEPT !.phase = "postBuild", !.module = x,
                                    !.userData = KeptUserData]
    BY <1>7 DEF Compiled
  <2>2. build'.descriptor = build.descriptor /\ build.phase = "compile"
    BY <1>7, <2>1 DEF Compiled, Types
  <2> QED BY <1>1, <2>1, <2>2 DEF Types
<1>8. CASE PostBuildRefuses
  <2>1. build.module \in Module /\ refs' = [refs EXCEPT ![build.module] = 0]
    BY <1>8 DEF PostBuildRefuses, Building, Delete, LeftWith
  <2> QED BY <1>2, <1>8, <2>1 DEF PostBuildRefuses, Types
<1>9. CASE PostBuildAccepts
  <2>1. build.module \in Module
    BY <1>9 DEF PostBuildAccepts, Building
  <2>2. UNCHANGED refs \/ refs' = [refs EXCEPT ![build.module] = 0]
    BY <1>9 DEF PostBuildAccepts, Delete, LeftWith
  <2>3. \A m \in Module : refs'[m] # 0 => refs[m] # 0
    BY <2>1, <2>2 DEF Types
  <2> QED BY <1>2, <1>9, <2>3 DEF PostBuildAccepts
<1>10. CASE DiscardReturns
  <2>1. Removed(removal.module) /\ removal.module \in Module
    BY <1>10, ReturnsRemoves
  <2>2. refs[removal.module] # 0
    BY <2>1, HasReference DEF Removed
  <2>3. \A m \in Module : refs'[m] # 0 => refs[m] # 0
    BY <1>3, <2>1, <2>2 DEF Removed
  <2> QED BY <1>2, <2>1, <2>3 DEF Removed
<1>11. CASE \/ \E m \in Module : RemoveModule(m)
            \/ \E n \in Name : RemoveModuleByName(n)
            \/ Clear \/ ClearNext
  BY <1>2, <1>11 DEF RemoveModule, RemoveModuleByName, Clear, ClearNext
<1>13. CASE ClearEnds
  <2>1. held = {} /\ build = NoBuild
    BY <1>0, <1>13 DEF ClearEnds, Removing, Careful
  <2>2. /\ Listed' = {} /\ held' = {} /\ build'.module = NoModule
        /\ build'.phase = "none"
    BY <1>13, <2>1 DEF ClearEnds, NoBuild, Listed, Range
  <2>3. \A m \in Module : refs'[m] = 0
    BY <2>2, NullAssumption DEF Counted, Holders, One, Lost
  <2> QED BY <2>2, <2>3
<1>14. CASE BuildFails \/ UnhookAllFunctions
  BY <1>2, <1>14 DEF BuildFails, UnhookAllFunctions
<1>15. ASSUME NEW m \in Module, AddRef(m) PROVE Goal
  <2>1. /\ UNCHANGED <<descriptor, build>> /\ refs' = [refs EXCEPT ![m] = @ + 1]
        /\ m \in Listed \/ m = build.module
    BY <1>15 DEF AddRef, Reachable
  <2>2. refs[m] # 0
    BY <2>1, HasReference
  <2> QED BY <1>2, <2>1, <2>2 DEF Types
<1>16. ASSUME NEW m \in Module, Release(m) PROVE Goal
  <2>1. \A x \in Module : refs'[x] # 0 => refs[x] # 0
    BY <1>3, <1>16 DEF Release
  <2> QED BY <1>2, <1>16, <2>1 DEF Release
<1>17. ASSUME NEW m \in Module,
              Discard(m) \/ \E u \in UserData \cup {NoUserData} : SetUserData(m, u)
       PROVE  Goal
  BY <1>2, <1>17 DEF Discard, SetUserData
<1>18. ASSUME NEW s \in Script, AddFunction(s) \/ RemoveFunction(s) PROVE Goal
  BY <1>2, <1>18 DEF AddFunction, RemoveFunction
<1> QED BY <1>4, <1>5, <1>6, <1>7, <1>8, <1>9, <1>10, <1>11, <1>13, <1>14, <1>15,
           <1>16, <1>17, <1>18 DEF Next

-----------------------------------------------------------------------------
(* Removals.                                                               *)

LEMMA RemovingStep ==
  ASSUME Types, Removing, [Next]_vars, made \subseteq made'
  PROVE  Removing'
<1> USE DEF engine, objects, host, manager
<1>1. Careful({"clear"})' => Careful({"clear"})
  BY DEF Careful
<1>2. NoRemoval.module = NoModule /\ NoRemoval.clear = FALSE
  BY DEF NoRemoval
<1>3. ASSUME removal' = NoRemoval PROVE Removing'
  BY <1>2, <1>3 DEF Removing
<1>4. ASSUME NEW m \in Listed, RemovalStarts(m), Removing,
             UNCHANGED <<named, modules, script>>,
             Careful({"clear"})' /\ removal.clear => held' = {} /\ build' = NoBuild
      PROVE  Removing'
  <2>1. CASE ~Gone(script[m]) /\ removal'.module = m /\ removal'.clear = removal.clear
    BY <1>4, <2>1 DEF Removing, Gone, Listed
  <2>2. CASE UNCHANGED removal
    BY <1>4, <2>2 DEF Removing, Gone, Listed
  <2> QED BY <1>4, <2>1, <2>2, RemovalStartsQuietly
<1>5. CASE UNCHANGED vars
  BY <1>1, <1>5 DEF vars, Removing, Gone, Listed
<1>6. ASSUME NEW m \in Module, RemoveModule(m) PROVE Removing'
  BY <1>2, <1>4, <1>6 DEF RemoveModule, HostRuns
<1>7. ASSUME NEW n \in Name, RemoveModuleByName(n) PROVE Removing'
  <2>1. CASE SearchFault(n)
    BY <1>3, <1>7, <2>1 DEF RemoveModuleByName, HostRuns
  <2>2. CASE ~SearchFault(n)
    <3>1. PICK m \in Listed : RemovalStarts(m)
      BY <1>7, <2>2 DEF RemoveModuleByName
    <3> QED BY <1>2, <1>4, <1>7, <3>1 DEF RemoveModuleByName, HostRuns
  <2> QED BY <2>1, <2>2
<1>8. CASE Clear
  <2>1. Careful({"clear"})' => held = {} /\ build = NoBuild
    BY <1>8 DEF Clear, Making, When, Careful
  <2>2. removal'.module = NoModule /\ UNCHANGED <<held, build>>
    BY <1>2, <1>8 DEF Clear, NoRemoval
  <2> QED BY <2>1, <2>2 DEF Removing
<1>9. CASE ClearNext
  <2>1. Head(modules) \in Listed
    BY <1>9 DEF ClearNext, Types, Listed, Range
  <2> QED BY <1>1, <1>4, <1>9, <2>1 DEF ClearNext, Removing
<1>10. CASE DiscardReturns
  <2>1. removal'.module = NoModule /\ removal'.clear = removal.clear
    BY <1>10 DEF DiscardReturns, Types
  <2> QED BY <1>1, <1>10, <2>1 DEF DiscardReturns, Removing
<1>11. ASSUME NEW s \in Script, AddFunction(s) \/ RemoveFunction(s) PROVE Removing'
  BY <1>1, <1>11 DEF AddFunction, RemoveFunction, Removing, Gone, Listed
<1>12. CASE ClearEnds \/ BuildFails \/ Compiled \/ PostBuildRefuses
            \/ PostBuildAccepts \/ UnhookAllFunctions
  BY <1>3, <1>12 DEF ClearEnds, BuildFails, Compiled, PostBuildRefuses,
                     PostBuildAccepts, UnhookAllFunctions, HostRuns
<1>13. CASE \/ \E d \in Descriptor : AddDescriptor(d)
            \/ \E d \in Descriptor, n \in Name, u \in UserData \cup {NoUserData} :
                 StartBuild(d, n, u)
            \/ \E m \in Module :
                 \/ AddRef(m) \/ Release(m) \/ Discard(m)
                 \/ \E u \in UserData \cup {NoUserData} : SetUserData(m, u)
  BY <1>3, <1>13 DEF AddDescriptor, StartBuild, AddRef, Release, Discard,
                     SetUserData, HostRuns
<1> QED BY <1>5, <1>6, <1>7, <1>8, <1>9, <1>10, <1>11, <1>12, <1>13 DEF Next

-----------------------------------------------------------------------------
(* Functions that are hooked.                                              *)

LEMMA LeavingNone ==
  ASSUME removal = NoRemoval PROVE Leaving = {}
BY DEF Leaving, NoRemoval

LEMMA HooksStep ==
  ASSUME Types, Types', Distinct, Building, Building', Removing, Counted, Hooks,
         Careful({"rebuild"}) => Linked, [Next]_vars, StepKind, made \subseteq made'
  PROVE  Hooks'
<1> USE DEF engine, objects, host, manager
<1>1. SUFFICES ASSUME AllCareful'
               PROVE  \A s \in hooked' : owner'[s] \in (Current \ Leaving)'
  BY DEF Hooks
<1>2. /\ Linked /\ AllCareful
      /\ \A s \in hooked : owner[s] \in Current \ Leaving /\ owner[s] # NoModule
      /\ \A m \in Module : ~Lost(m)
  BY <1>1 DEF AllCareful, Careful, Hooks, Lost, Current
<1>0. /\ Current \subseteq Module /\ NoModule \notin Current /\ Listed \subseteq Module
      /\ Listed \subseteq Current /\ build.module \notin Listed
  BY CurrentModules, ReachableTypes, BuiltIsUnlisted, NullAssumption DEF Current
<1> DEFINE Goal == \A s \in hooked' : owner'[s] \in (Current \ Leaving)'
<1>3. ASSUME UNCHANGED owner, hooked' \subseteq hooked, Current \subseteq Current',
             Leaving' \subseteq Leaving
      PROVE  Goal
  BY <1>2, <1>3
<1>19. ASSUME HostRuns, UNCHANGED removal PROVE Leaving = {} /\ Leaving' = {}
  <2>1. NoRemoval' = NoRemoval
    BY DEF NoRemoval
  <2>2. removal' = NoRemoval => Leaving' = {}
    BY DEF Leaving, NoRemoval
  <2> QED BY <1>19, <2>2, LeavingNone DEF HostRuns
<1>20. ASSUME UNCHANGED <<removal, modules>> PROVE Leaving' = Leaving
  BY <1>20 DEF Leaving, Listed
<1>4. ASSUME UNCHANGED modules, build'.module = build.module PROVE Current' = Current
  BY <1>4 DEF Current, Listed
<1>5. CASE UNCHANGED vars
  BY <1>3, <1>4, <1>5, <1>20 DEF vars
<1>6. ASSUME NEW d \in Descriptor, AddDescriptor(d) PROVE Goal
  BY <1>3, <1>4, <1>6, <1>19 DEF AddDescriptor
<1>7. ASSUME NEW d \in Descriptor, NEW n \in Name,
             NEW u \in UserData \cup {NoUserData}, StartBuild(d, n, u)
      PROVE  Goal
  <2>1. Current' = Current
    BY <1>4, <1>7 DEF StartBuild, Building, NoBuild
  <2> QED BY <1>2, <1>7, <1>19, <2>1 DEF StartBuild, Types
<1>8. CASE BuildFails
  <2>1. Current' = Current
    BY <1>4, <1>8 DEF BuildFails, Building, NoBuild
  <2> QED BY <1>3, <1>8, <1>19, <2>1 DEF BuildFails
<1>9. CASE Compiled
  <2>1. PICK x \in Module :
          /\ owner' = [owner EXCEPT ![build.script] = x]
          /\ build' = [build EXCEPT !.phase = "postBuild", !.module = x,
                                    !.userData = KeptUserData]
    BY <1>9 DEF Compiled
  <2>2. build'.module = x /\ build.module = NoModule /\ UNCHANGED <<hooked, modules, removal>>
    BY <1>9, <2>1 DEF Compiled, Building, Types
  <2>3. Current' = Current \cup {x}
    BY <2>2, NullAssumption DEF Current, Listed
  <2> QED BY <1>2, <1>9, <1>19, <2>1, <2>2, <2>3 DEF Compiled, Types
<1>10. CASE PostBuildRefuses
  BY <1>1, <1>10 DEF PostBuildRefuses, Making, AllCareful, Careful
<1>11. CASE PostBuildAccepts
  <2>1. UNCHANGED <<owner, hooked>>
    BY <1>11 DEF PostBuildAccepts
  <2>2. CASE Refused
    BY <1>1, <2>2, RefusedIsCareless DEF AllCareful, Careful
  <2>3. CASE UNCHANGED <<modules, build>>
    BY <1>3, <1>4, <1>11, <1>19, <2>1, <2>3 DEF PostBuildAccepts
  <2>4. CASE Accepted
    <3>1. Listed' = Listed \cup {build.module}
      BY <2>4, ListedWithGrows DEF Accepted, Building, Listed
    <3>2. Current \subseteq Current'
      BY <3>1 DEF Current
    <3> QED BY <1>3, <1>11, <1>19, <2>1, <3>2 DEF PostBuildAccepts
  <2>5. Refused \/ Accepted \/ UNCHANGED <<modules, build>>
    <3>1. CASE AddModuleFault(build.module) # "none"
      BY <1>11, <3>1 DEF PostBuildAccepts
    <3>2. CASE /\ AddModuleFault(build.module) = "none"
               /\ \E x \in Listed : script[x] = script[build.module]
      BY <1>11, <3>2 DEF PostBuildAccepts, Refused, AddModuleFault
    <3>3. CASE /\ AddModuleFault(build.module) = "none"
               /\ \A x \in Listed : script[x] # script[build.module]
      BY <1>11, <3>3 DEF PostBuildAccepts, Accepted
    <3> QED BY <3>1, <3>2, <3>3
  <2> QED BY <2>2, <2>3, <2>4, <2>5
<1>21. ASSUME NEW m \in Listed, HostRuns, RemovalStarts(m),
              UNCHANGED <<owner, modules, build>>, hooked' \subseteq hooked,
              \A s \in hooked' : owner[s] # m
       PROVE  Goal
  <2>1. Current' = Current
    BY <1>4, <1>21
  <2>2. Leaving' \subseteq {m}
    <3>1. CASE removal'.module = m /\ removal'.clear = removal.clear
      BY <1>21, <3>1 DEF HostRuns, NoRemoval, Leaving
    <3>2. CASE UNCHANGED removal
      BY <1>19, <1>21, <3>2
    <3> QED BY <1>21, <3>1, <3>2, RemovalStartsQuietly
  <2> QED BY <1>2, <1>21, <2>1, <2>2
<1>12. ASSUME NEW m \in Module, RemoveModule(m) PROVE Goal
  BY <1>12, <1>21 DEF RemoveModule, Unhooked
<1>13. ASSUME NEW n \in Name, RemoveModuleByName(n) PROVE Goal
  <2>1. UNCHANGED <<owner, hooked, modules, build>> /\ HostRuns
    BY <1>13 DEF RemoveModuleByName
  <2>2. CASE SearchFault(n)
    BY <1>3, <1>4, <1>13, <1>19, <2>1, <2>2 DEF RemoveModuleByName
  <2>3. CASE ~SearchFault(n)
    <3>1. PICK m \in Listed :
            /\ Making(When(m \in {owner[s] : s \in hooked}, "byName"))
            /\ RemovalStarts(m)
      BY <1>13, <2>3 DEF RemoveModuleByName
    <3>2. \A s \in hooked : owner[s] # m
      BY <1>1, <3>1 DEF Making, When, AllCareful, Careful
    <3> QED BY <1>21, <2>1, <3>1, <3>2
  <2> QED BY <2>2, <2>3
<1>14. CASE Clear
  <2>1. hooked' = {}
    BY <1>1, <1>14 DEF Clear, Making, When, AllCareful, Careful
  <2> QED BY <2>1
<1>22. CASE DiscardReturns
  <2>1. /\ UNCHANGED <<owner, hooked, build>> /\ Listed' = Listed \ {removal.module}
        /\ removal.module # NoModule
    BY <1>22, ReturnsRemoves DEF DiscardReturns, Removed
  <2>2. removal'.clear = removal.clear /\ removal'.module = NoModule
    BY <1>22 DEF DiscardReturns, Types
  <2>3. removal.module \in Leaving /\ Leaving' \subseteq Leaving
    BY <1>22, <2>1, <2>2, ReturnsRemoves DEF Leaving, Removed
  <2>4. Current \ {removal.module} \subseteq Current'
    BY <2>1 DEF Current
  <2> QED BY <1>2, <2>1, <2>3, <2>4
<1>23. CASE ClearNext
  <2>1. /\ UNCHANGED <<owner, hooked, modules, build>> /\ removal.clear
        /\ removal'.clear = removal.clear \/ UNCHANGED removal
    BY <1>23, RemovalStartsQuietly DEF ClearNext
  <2>2. Leaving' = Leaving
    BY <2>1 DEF Leaving, Listed
  <2> QED BY <1>3, <1>4, <2>1, <2>2
<1>24. CASE ClearEnds
  <2>1. UNCHANGED <<owner, hooked, modules>> /\ build'.module = build.module
    BY <1>24 DEF ClearEnds, Types
  <2>2. Leaving' = {}
    BY <1>24 DEF ClearEnds, Leaving, NoRemoval
  <2> QED BY <1>3, <1>4, <2>1, <2>2
<1>15. CASE UnhookAllFunctions
  BY <1>15 DEF UnhookAllFunctions
<1>16. ASSUME NEW s \in Script, AddFunction(s) PROVE Goal
  <2>1. /\ UNCHANGED <<owner, modules, removal, build>> /\ hooked' = hooked \cup {s}
        /\ owner[s] \in Reachable /\ script[owner[s]] = s /\ s # NoScript
        /\ owner[s] \notin Leaving
    BY <1>1, <1>16, NullAssumption
       DEF AddFunction, Making, When, AllCareful, Careful
  <2>2. Current' = Current /\ Leaving' = Leaving
    BY <1>4, <1>20, <2>1
  <2>3. ASSUME owner[s] \notin Current PROVE FALSE
    <3>1. owner[s] \in held \ Current /\ owner[s] \in Module
      BY <2>1, <2>3, ReachableTypes DEF Reachable, Current
    <3>2. refs[owner[s]] # 0
      BY <1>2, <3>1 DEF Counted, Holders, One
    <3>3. script[owner[s]] = NoScript
      BY <1>2, <3>1, <3>2 DEF Linked
    <3> QED BY <2>1, <3>3
  <2> QED BY <1>2, <2>1, <2>2, <2>3
<1>17. ASSUME NEW m \in Module,
              \/ AddRef(m) \/ Release(m) \/ Discard(m)
              \/ \E u \in UserData \cup {NoUserData} : SetUserData(m, u)
       PROVE  Goal
  BY <1>3, <1>4, <1>17, <1>19 DEF AddRef, Release, Discard, SetUserData
<1>18. ASSUME NEW s \in Script, RemoveFunction(s) PROVE Goal
  BY <1>3, <1>4, <1>18, <1>20 DEF RemoveFunction
<1> QED BY <1>5, <1>6, <1>7, <1>8, <1>9, <1>10, <1>11, <1>12, <1>13, <1>14, <1>15,
           <1>16, <1>17, <1>18, <1>22, <1>23, <1>24 DEF Next

-----------------------------------------------------------------------------
(* Faults.                                                                 *)

LEMMA ScriptsUsable ==
  ASSUME Careful({"rebuild"}) => Linked,
         Careful({"rebuild", "discard"}) => Undiscarded,
         Careful({"rebuild", "discard"})
  PROVE  \A m \in Current : ~Gone(script[m])
BY DEF Careful, Linked, Undiscarded

LEMMA ReachableHaveReference ==
  ASSUME Types, Counted, AllCareful, NEW m \in Reachable
  PROVE  m \in Module /\ refs[m] # 0
<1>1. m \in Module /\ (m \in Listed \/ m \in held \/ m = build.module)
  BY ReachableTypes DEF Reachable
<1>2. Careful({"refuse", "rebuild"})
  BY DEF AllCareful, Careful
<1>3. refs[m] = Holders(m)
  BY <1>1, <1>2 DEF Counted, Lost
<1> QED BY <1>1, <1>3 DEF Holders, One

LEMMA FaultStep ==
  ASSUME Types, Distinct, Building, Counted, Described, Hooks, FaultHasCause,
         Careful({"rebuild"}) => Linked,
         Careful({"rebuild", "discard"}) => Undiscarded,
         [Next]_vars, made \subseteq made'
  PROVE  FaultHasCause'
<1> USE DEF engine, objects, host, manager
<1>0. /\ Listed \subseteq Module /\ Listed \subseteq Current
      /\ NoModule \notin Module
  BY ReachableTypes, NullAssumption DEF Current
<1>1. /\ Careful({"rebuild", "discard"})' =>
           Careful({"rebuild", "discard"}) /\ \A m \in Current : ~Gone(script[m])
      /\ AllCareful' => AllCareful
      /\ Careful({"clear"})' => Careful({"clear"})
  BY ScriptsUsable DEF Careful, AllCareful
<1> DEFINE Excused(kind) ==
             \/ kind = "none"
             \/ kind = "badScript" /\ ~Careful({"rebuild", "discard"})'
             \/ kind = "badModule" /\ ~AllCareful'
             \/ kind = "badDescriptor" /\ ~Careful({"clear"})'
<1>2. ASSUME Excused(fault') PROVE FaultHasCause'
  BY <1>2 DEF FaultHasCause, AllCareful
<1>3. CASE UNCHANGED vars
  BY <1>3 DEF vars, FaultHasCause, Careful
<1>4. ASSUME \E m \in Current : Gone(script[m]) PROVE Excused("badScript")
  BY <1>1, <1>4
<1>5. ASSUME NEW n, SearchFault(n) PROVE \E m \in Current : Gone(script[m])
  BY <1>0, <1>5 DEF SearchFault, Listed, Range
<1>6. ASSUME NEW m \in Listed, RemovalStarts(m), fault = "none"
      PROVE  Excused(fault')
  BY <1>0, <1>4, <1>6, RemovalStartsQuietly
<1>7. ASSUME NEW m \in Module, refs[m] # 0, descriptor[m] = NoDescriptor
      PROVE  Excused("badDescriptor")
  BY <1>1, <1>7 DEF Described
<1>8. ASSUME NEW m \in Reachable, refs[m] = 0 PROVE Excused("badModule")
  BY <1>1, <1>8, ReachableHaveReference
<1>9. CASE PostBuildAccepts
  <2>1. fault = "none" /\ (UNCHANGED fault \/ fault' = AddModuleFault(build.module))
        /\ build.module \in Module /\ build.module \in Current
    BY <1>9, NullAssumption DEF PostBuildAccepts, HostRuns, Building, Current
  <2>2. Excused(AddModuleFault(build.module))
    <3>1. CASE \/ Gone(script[build.module])
               \/ \E n \in Name : named[n] = script[build.module] /\ SearchFault(n)
      <4>1. \E m \in Current : Gone(script[m])
        BY <1>5, <2>1, <3>1
      <4> QED BY <1>4, <3>1, <4>1 DEF AddModuleFault
    <3>2. CASE \E x \in Listed \cup {build.module} : descriptor[x] = NoDescriptor
      <4>1. PICK x \in Listed \cup {build.module} : descriptor[x] = NoDescriptor
        BY <3>2
      <4>2. x \in Module /\ refs[x] # 0
        BY <1>0, <2>1, <4>1, HasReference
      <4>3. Excused("badDescriptor")
        BY <1>7, <4>1, <4>2
      <4> QED BY <3>1, <4>3 DEF AddModuleFault
    <3> QED BY <3>1, <3>2 DEF AddModuleFault
  <2> QED BY <1>2, <2>1, <2>2
<1>10. ASSUME NEW m \in Module, RemoveModule(m) PROVE FaultHasCause'
  <2>1. Excused(fault')
    BY <1>6, <1>10 DEF RemoveModule, HostRuns
  <2> QED BY <1>2, <2>1
<1>11. ASSUME NEW n \in Name, RemoveModuleByName(n) PROVE FaultHasCause'
  <2>1. fault = "none"
    BY <1>11 DEF RemoveModuleByName, HostRuns
  <2>2. CASE SearchFault(n)
    <3>1. fault' = "badScript"
      BY <1>11, <2>2 DEF RemoveModuleByName
    <3> QED BY <1>2, <1>4, <1>5, <2>2, <3>1
  <2>3. CASE ~SearchFault(n)
    <3>1. PICK m \in Listed : RemovalStarts(m)
      BY <1>11, <2>3 DEF RemoveModuleByName
    <3>2. Excused(fault')
      BY <1>6, <2>1, <3>1
    <3> QED BY <1>2, <3>2
  <2> QED BY <2>2, <2>3
<1>12. CASE ClearNext
  <2>1. Head(modules) \in Listed
    BY <1>12 DEF ClearNext, Types, Listed, Range
  <2>2. Excused(fault')
    BY <1>6, <1>12, <2>1 DEF ClearNext
  <2> QED BY <1>2, <2>2
<1>13. ASSUME NEW s \in Script, AddFunction(s) PROVE FaultHasCause'
  <2> DEFINE owners == {owner[t] : t \in hooked \cup {s}}
  <2>1. fault' = IF hooked = {} THEN "none"
                 ELSE IF \E m \in owners : m = NoModule \/ refs[m] = 0
                 THEN "badModule"
                 ELSE IF \E m \in owners : descriptor[m] = NoDescriptor
                 THEN "badDescriptor" ELSE "none"
    BY <1>13 DEF AddFunction
  <2>2. owners \subseteq Module \cup {NoModule}
    BY DEF Types
  <2>3. ASSUME NEW m \in owners, m = NoModule \/ refs[m] = 0 PROVE ~AllCareful'
    <3>1. SUFFICES ASSUME AllCareful' PROVE FALSE
      OBVIOUS
    <3>2. owner[s] \in Reachable
      BY <1>13, <3>1 DEF AddFunction, Making, When, AllCareful, Careful
    <3>3. m \in Reachable /\ AllCareful
      BY <1>1, <3>1, <3>2 DEF Hooks, Current, Reachable
    <3> QED BY <1>0, <2>3, <3>3, ReachableHaveReference
  <2>4. ASSUME NEW m \in owners, m # NoModule, refs[m] # 0,
               descriptor[m] = NoDescriptor
        PROVE  ~Careful({"clear"})'
    BY <1>1, <2>2, <2>4 DEF Described
  <2> HIDE DEF owners
  <2>5. Excused(fault')
    BY <2>1, <2>3, <2>4
  <2> QED BY <1>2, <2>5
<1>14. ASSUME NEW m \in Module, Release(m) PROVE FaultHasCause'
  <2>1. fault = "none" /\ m \in held /\ m \in Reachable
        /\ ((refs[m] = 0 /\ fault' = "badModule") \/ UNCHANGED fault)
    BY <1>0, <1>14 DEF Release, HostRuns, Reachable
  <2>2. Excused(fault')
    BY <1>8, <2>1
  <2> QED BY <1>2, <2>2
<1>15. ASSUME NEW m \in Module, Discard(m) PROVE FaultHasCause'
  <2>1. /\ fault = "none" /\ m \in Reachable /\ "discard" \in made'
        /\ \/ refs[m] = 0 /\ fault' = "badModule"
           \/ fault' = "badScript" \/ UNCHANGED fault
    BY <1>15 DEF Discard, DiscardFault, Making, HostRuns
  <2>2. ~Careful({"rebuild", "discard"})'
    BY <2>1 DEF Careful
  <2>3. Excused(fault')
    BY <1>8, <2>1, <2>2
  <2> QED BY <1>2, <2>3
<1>16. ASSUME NEW m \in Module, NEW u \in UserData \cup {NoUserData}, SetUserData(m, u)
       PROVE  FaultHasCause'
  <2>1. fault = "none" /\ m \in Reachable
        /\ ((refs[m] = 0 /\ fault' = "badModule") \/ UNCHANGED fault)
    BY <1>16 DEF SetUserData, HostRuns
  <2>2. Excused(fault')
    BY <1>8, <2>1
  <2> QED BY <1>2, <2>2
<1>17. CASE \/ \E d \in Descriptor : AddDescriptor(d)
            \/ \E d \in Descriptor, n \in Name, u \in UserData \cup {NoUserData} :
                 StartBuild(d, n, u)
            \/ BuildFails \/ Compiled \/ PostBuildRefuses \/ UnhookAllFunctions
            \/ \E m \in Module : AddRef(m)
            \/ \E s \in Script : RemoveFunction(s)
            \/ DiscardReturns \/ Clear \/ ClearEnds
  <2>1. fault' = "none"
    BY <1>17 DEF AddDescriptor, StartBuild, BuildFails, Compiled, PostBuildRefuses,
                 UnhookAllFunctions, AddRef, RemoveFunction, DiscardReturns, Clear,
                 ClearEnds, HostRuns, ScriptRuns
  <2> QED BY <1>2, <2>1
<1> QED BY <1>3, <1>9, <1>10, <1>11, <1>12, <1>13, <1>14, <1>15, <1>16, <1>17
        DEF Next

-----------------------------------------------------------------------------
(* The invariant is inductive.                                             *)

LEMMA InitIInv ==
  ASSUME Init PROVE IInv
<1> USE DEF Init
<1>1. Listed = {} /\ Len(modules) = 0 /\ DOMAIN modules = {}
  BY DEF Listed, Range
<1>2. Types
  <2>1. LastId \in Nat \ {0}
    BY DescriptorAssumption
  <2>2. build \in [phase: {"none", "compile", "postBuild"},
                   descriptor: Descriptor \cup {NoDescriptor},
                   script: Script \cup {NoScript},
                   userData: UserData \cup {NoUserData},
                   module: Module \cup {NoModule}]
    BY NoBuildType
  <2>3. modules \in Seq(Module)
    OBVIOUS
  <2>4. removal \in [module: Module \cup {NoModule}, clear: BOOLEAN]
    BY DEF NoRemoval
  <2> QED BY <2>1, <2>2, <2>3, <2>4 DEF Types
<1>3. Distinct /\ Building /\ Sorted /\ Removing
  BY <1>1 DEF Distinct, Building, NoBuild, Sorted, Removing, NoRemoval
<1>4. Counted
  BY <1>1, NullAssumption DEF Counted, Holders, One, NoBuild
<1>5. Owned
  BY NullAssumption DEF Owned, Has, NoBuild
<1>6. Identified /\ Described
  BY DEF Identified, Described, Registered, NoBuild
<1>7. Linked /\ Covered
  BY <1>1 DEF Linked, Covered, Current, NoBuild
<1>8. Undiscarded /\ Hooks /\ FaultHasCause
  BY <1>1 DEF Undiscarded, Current, NoBuild, Hooks, FaultHasCause
<1> QED BY <1>2, <1>3, <1>4, <1>5, <1>6, <1>7, <1>8 DEF IInv

LEMMA NextIInv ==
  ASSUME IInv, [Next]_vars PROVE IInv'
<1>1. /\ Types /\ Distinct /\ Building /\ Counted /\ Owned /\ Identified /\ Sorted
      /\ Described /\ Removing /\ Hooks /\ FaultHasCause
      /\ Careful({"rebuild"}) => Linked
      /\ Careful({"rebuild", "refuse"}) => Covered
      /\ Careful({"rebuild", "discard"}) => Undiscarded
  BY DEF IInv
<1>2. made \subseteq made' /\ StepKind
  BY <1>1, CallsStayMade, StepKinds
<1>3. \A calls : Careful(calls)' => Careful(calls)
  BY <1>2 DEF Careful
<1>4. Types'
  BY <1>1, TypesStep
<1>5. Distinct' /\ Building'
  BY <1>1, <1>2, ListStep
<1>6. Counted'
  BY <1>1, <1>2, <1>4, CountedStep
<1>7. Owned'
  BY <1>1, <1>2, OwnedStep
<1>8. Identified' /\ Sorted'
  BY <1>1, <1>4, IdentifiedStep, SortedStep
<1>9. Described'
  BY <1>1, <1>2, <1>4, <1>6, DescribedStep
<1>10. Careful({"rebuild"})' => Linked'
  BY <1>1, <1>2, <1>3, <1>4, <1>5, LinkedStep
<1>11. Careful({"rebuild", "refuse"})' => Covered'
  BY <1>1, <1>2, <1>3, <1>4, <1>5, CoveredStep
<1>12. Careful({"rebuild", "discard"})' => Undiscarded'
  BY <1>1, <1>2, <1>3, <1>4, <1>5, UndiscardedStep
<1>13. Hooks'
  BY <1>1, <1>2, <1>4, <1>5, HooksStep
<1>14. FaultHasCause' /\ Removing'
  BY <1>1, <1>2, FaultStep, RemovingStep
<1> QED BY <1>4, <1>5, <1>6, <1>7, <1>8, <1>9, <1>10, <1>11, <1>12, <1>13, <1>14
        DEF IInv

LEMMA Invariance == Spec => []IInv
BY InitIInv, NextIInv, PTL DEF Spec

-----------------------------------------------------------------------------
(* What follows from it.                                                   *)

LEMMA HoldersCounted ==
  ASSUME NEW m
  PROVE  Cardinality(When(m \in Listed, "list") \cup When(m \in held, "host")
                       \cup When(m = build.module, "builder"))
           = Holders(m)
<1> DEFINE p == m \in Listed
           q == m \in held
           r == m = build.module
<1>1. /\ Cardinality({}) = 0 /\ IsFiniteSet({})
      /\ \A x : IsFiniteSet({x}) /\ Cardinality({x}) = 1
  BY FS_EmptySet, FS_Singleton
<1>2. ASSUME NEW S, NEW x, IsFiniteSet(S), x \notin S
      PROVE  IsFiniteSet(S \cup {x}) /\ Cardinality(S \cup {x}) = Cardinality(S) + 1
  BY <1>2, FS_AddElement
<1>3. "list" # "host" /\ "host" # "builder" /\ "list" # "builder"
  OBVIOUS
<1> DEFINE L == When(p, "list")
           H == When(q, "host")
           B == When(r, "builder")
<1>4. IsFiniteSet(L) /\ Cardinality(L) = One(p) /\ L \subseteq {"list"}
  BY <1>1 DEF When, One
<1>5. IsFiniteSet(L \cup H) /\ Cardinality(L \cup H) = One(p) + One(q)
  <2>1. CASE q
    <3>1. H = {"host"} /\ "host" \notin L /\ One(q) = 1
      BY <1>3, <1>4, <2>1 DEF When, One
    <3> HIDE DEF L
    <3> QED BY <1>2, <1>4, <3>1
  <2>2. CASE ~q
    <3>1. L \cup H = L /\ One(q) = 0
      BY <2>2 DEF When, One
    <3>2. One(p) \in Nat
      BY DEF One
    <3> HIDE DEF L, H
    <3> QED BY <1>4, <3>1, <3>2
  <2> QED BY <2>1, <2>2
<1>6. L \cup H \subseteq {"list", "host"}
  BY DEF When
<1>7. Cardinality(L \cup H \cup B) = One(p) + One(q) + One(r)
  <2> DEFINE LH == L \cup H
  <2>1. CASE r
    <3>1. B = {"builder"} /\ "builder" \notin LH /\ One(r) = 1
      BY <1>3, <1>6, <2>1 DEF When, One
    <3>2. IsFiniteSet(LH) /\ Cardinality(LH) = One(p) + One(q)
      BY <1>5
    <3> HIDE DEF LH
    <3>3. Cardinality(LH \cup B) = One(p) + One(q) + 1
      BY <1>2, <3>1, <3>2
    <3> QED BY <3>1, <3>3 DEF LH
  <2>2. CASE ~r
    <3>1. LH \cup B = LH /\ One(r) = 0
      BY <2>2 DEF When, One
    <3>2. Cardinality(LH) = One(p) + One(q) /\ One(p) \in Nat /\ One(q) \in Nat
      BY <1>5 DEF One
    <3>3. Cardinality(LH \cup B) = Cardinality(LH)
      BY <3>1
    <3> HIDE DEF LH, B
    <3>4. Cardinality(LH \cup B) = One(p) + One(q) + One(r)
      <4> HIDE DEF p, q, r
      <4> QED BY <3>1, <3>2, <3>3
    <3> QED BY <3>4 DEF LH
  <2> QED BY <2>1, <2>2
<1> QED BY <1>7 DEF Holders

(* A module has one reference for each of the list, the host and the       *)
(* builder that has it, unless PostBuild refused or a name was rebuilt.    *)
THEOREM ReferencesBalance == Spec => []RefsBalanced
<1>1. IInv => RefsBalanced
  <2>1. SUFFICES ASSUME IInv, Careful({"refuse", "rebuild"}), NEW m \in Module
                 PROVE  refs[m] = Cardinality(When(m \in Listed, "list")
                                                \cup When(m \in held, "host")
                                                \cup When(m = build.module, "builder"))
    BY DEF RefsBalanced
  <2>2. refs[m] = Holders(m)
    BY <2>1 DEF IInv, Counted, Lost
  <2> QED BY <2>2, HoldersCounted
<1> QED BY <1>1, Invariance, PTL

(* Every variable has its type: in particular no reference count goes      *)
(* below 0 or above the three that can have one, and identifiers end with  *)
(* LAST_DESCRIPTOR_ID.                                                     *)
THEOREM TypesCorrect == Spec => []TypeOK
<1>1. IInv => TypeOK
  <2>1. SUFFICES ASSUME IInv PROVE TypeOK
    OBVIOUS
  <2>2. \A m \in Module : refs[m] \in 0..3
    BY <2>1 DEF IInv, Counted, Holders, One, Lost
  <2>3. refs \in [Module -> 0..3]
    BY <2>1, <2>2 DEF IInv, Types
  <2> QED BY <2>1, <2>3 DEF IInv, Types, TypeOK
<1> QED BY <1>1, Invariance, PTL

(* User data has one owner from when it is created to when it is released, *)
(* whatever calls the host makes.                                          *)
THEOREM UserDataHasOwner == Spec => []UserDataOwned
<1>1. IInv => UserDataOwned
  <2>1. SUFFICES ASSUME IInv, NEW u \in UserData
                 PROVE  Cardinality({m \in Module : refs[m] # 0 /\ userData[m] = u}
                                      \cup When(build.userData = u, NoModule))
                          = IF u \in live THEN 1 ELSE 0
    BY DEF UserDataOwned
  <2> DEFINE owners == {m \in Module : refs[m] # 0 /\ userData[m] = u}
                         \cup When(build.userData = u, NoModule)
  <2>2. /\ \A m \in Module : Has(m, u) => u \in live /\ build.userData # u
        /\ \A m, x \in Module : Has(m, u) /\ Has(x, u) => m = x
        /\ build.userData = u => u \in live
        /\ u \in live => build.userData = u \/ \E m \in Module : Has(m, u)
    BY <2>1 DEF IInv, Owned
  <2>3. CASE u \notin live
    <3>1. owners = {}
      BY <2>2, <2>3 DEF Has, When
    <3> HIDE DEF owners
    <3>2. Cardinality(owners) = 0
      BY <3>1, FS_EmptySet
    <3> QED BY <2>3, <3>2 DEF owners
  <2>4. CASE u \in live
    <3>1. \E x : owners = {x}
      <4>1. CASE build.userData = u
        <5>1. owners = {NoModule}
          BY <2>2, <4>1 DEF Has, When
        <5> QED BY <5>1
      <4>2. CASE build.userData # u
        <5>1. PICK m \in Module : Has(m, u)
          BY <2>2, <2>4, <4>2
        <5>2. owners = {m}
          BY <2>2, <4>2, <5>1 DEF Has, When
        <5> QED BY <5>2
      <4> QED BY <4>1, <4>2
    <3> HIDE DEF owners
    <3>2. Cardinality(owners) = 1
      BY <3>1, FS_Singleton
    <3> QED BY <2>4, <3>2 DEF owners
  <2> QED BY <2>3, <2>4
<1> QED BY <1>1, Invariance, PTL

(* The list stays in the order of the descriptors, without duplicates, and *)
(* no two descriptors have one identifier, whatever calls the host makes.  *)
THEOREM ListStaysInOrder == Spec => []ListInOrder
<1>1. IInv => ListInOrder
  <2>1. SUFFICES ASSUME IInv PROVE ListInOrder
    OBVIOUS
  <2>2. DOMAIN modules \subseteq Int
    BY <2>1 DEF IInv, Types
  <2> QED BY <2>1, <2>2 DEF IInv, Distinct, Identified, Sorted, ListInOrder
<1> QED BY <1>1, Invariance, PTL

(* Every script module in the engine is that of one module, and the other  *)
(* way round, unless PostBuild refused, a name was rebuilt or the host     *)
(* discarded.                                                              *)
THEOREM ScriptsHaveModules == Spec => []ScriptsOwned
<1>1. IInv => ScriptsOwned
  <2>1. SUFFICES ASSUME IInv, Careful({"refuse", "rebuild", "discard"})
                 PROVE  /\ \A m \in Listed : ~Gone(script[m]) /\ owner[script[m]] = m
                        /\ \A n \in Name : named[n] # NoScript =>
                             named[n] \in {script[m] : m \in Listed} \cup {build.script}
    BY DEF ScriptsOwned
  <2>2. Linked /\ Covered /\ Undiscarded
    BY <2>1 DEF IInv, Careful
  <2>3. Listed \subseteq Current
    BY <2>1, ReachableTypes, NullAssumption DEF IInv, Current
  <2> QED BY <2>2, <2>3 DEF Linked, Covered, Undiscarded
<1> QED BY <1>1, Invariance, PTL

(* The functions that are hooked are of modules that exist, unless the     *)
(* host removed a hooked module by name, cleared early, let PostBuild      *)
(* refuse or rebuilt a name.                                               *)
THEOREM HooksHaveModules == Spec => []HooksOwned
<1>1. IInv => HooksOwned
  <2>1. SUFFICES ASSUME IInv, AllCareful, NEW s \in hooked
                 PROVE  owner[s] # NoModule /\ refs[owner[s]] # 0
    BY DEF HooksOwned, AllCareful
  <2>2. owner[s] \in Current /\ owner[s] # NoModule
    BY <2>1 DEF IInv, Hooks, Current
  <2>3. owner[s] \in Module /\ (owner[s] \in Listed \/ owner[s] = build.module)
    BY <2>1, <2>2, CurrentModules DEF IInv, Current
  <2> QED BY <2>1, <2>2, <2>3, HasReference DEF IInv
<1> QED BY <1>1, Invariance, PTL

(* Each kind of fault has a careless call before it: a careful host causes *)
(* none.                                                                   *)
THEOREM FaultsHaveCauses == Spec => []FaultHasCause
<1>1. IInv => FaultHasCause
  BY DEF IInv
<1> QED BY <1>1, Invariance, PTL

-----------------------------------------------------------------------------
(* The script builder's includes.                                          *)

SectionNames == {s.name : s \in Range(sections)}

(* An include that the stack has still to come to.                         *)
Awaited(name, x, frames) == \E a \in Range(frames) : a.name = name /\ x \in a.includes

(* Every include of a section was asked for or is awaited.                 *)
Accounted(names, frames) ==
  \A s \in Range(sections) : \A x \in s.includes :
    \/ Resolved(Relative(s.name, x.path)) \in names
    \/ Awaited(s.name, x, frames)

Uniquely == \A m, n \in DOMAIN sections : sections[m].name = sections[n].name => m = n

(* Before a failure, and without a callback that may do nothing, the names *)
(* taken down are those of sections.                                       *)
AddedOrAwaited ==
  ~failed /\ ~callback => included \subseteq SectionNames /\ Accounted(included, stack)

IncludesInv ==
  /\ sections \in Seq(Range(sections)) /\ stack \in Seq(Range(stack))
  /\ Uniquely
  /\ SectionNames \subseteq included
  /\ error => failed /\ stack # <<>>
  /\ AddedOrAwaited

LEMMA RangeOfEmpty == Range(<<>>) = {} /\ <<>> \in Seq(Range(<<>>))
BY DEF Range

LEMMA RangeOfAppend ==
  ASSUME NEW s, s \in Seq(Range(s)), NEW e
  PROVE  /\ Append(s, e) \in Seq(Range(Append(s, e)))
         /\ Range(Append(s, e)) = Range(s) \cup {e}
<1> DEFINE t == Append(s, e)
<1>1. /\ Len(s) \in Nat /\ DOMAIN s = 1..Len(s)
      /\ t \in Seq(Range(s) \cup {e})
  BY AppendProperties, LenProperties
<1>2. /\ Len(t) = Len(s) + 1 /\ t[Len(t)] = e /\ DOMAIN t = 1..Len(t)
      /\ \A i \in 1..Len(s) : t[i] = s[i]
  BY <1>1, AppendProperties, LenProperties
<1> HIDE DEF t
<1>3. Range(t) = Range(s) \cup {e}
  <2>1. ASSUME NEW y \in Range(t) PROVE y \in Range(s) \cup {e}
    <3>1. PICK i \in 1..Len(t) : y = t[i]
      BY <1>2, <2>1 DEF Range
    <3>2. CASE i = Len(t)
      BY <1>2, <3>1, <3>2
    <3>3. CASE i # Len(t)
      BY <1>1, <1>2, <3>1, <3>3 DEF Range
    <3> QED BY <3>2, <3>3
  <2>2. e \in Range(t)
    BY <1>1, <1>2 DEF Range
  <2>3. ASSUME NEW y \in Range(s) PROVE y \in Range(t)
    <3>1. PICK i \in 1..Len(s) : y = s[i]
      BY <1>1, <2>3 DEF Range
    <3> QED BY <1>1, <1>2, <3>1 DEF Range
  <2> QED BY <2>1, <2>2, <2>3
<1> QED BY <1>1, <1>3 DEF t

LEMMA RangeOfPush ==
  ASSUME NEW e, NEW s, s \in Seq(Range(s))
  PROVE  /\ <<e>> \o s \in Seq(Range(<<e>> \o s))
         /\ Range(<<e>> \o s) = {e} \cup Range(s)
<1> DEFINE t == <<e>> \o s
           T == Range(s) \cup {e}
<1>1. /\ Len(s) \in Nat /\ DOMAIN s = 1..Len(s)
      /\ s \in Seq(T) /\ <<e>> \in Seq(T) /\ Len(<<e>>) = 1
  <2>1. s \in Seq(T)
    BY LenProperties, ElementOfSeq, SeqDef
  <2> QED BY <2>1, LenProperties
<1>2. t \in Seq(T) /\ Len(t) = Len(s) + 1 /\ t[1] = e /\ \A i \in 1..Len(s) : t[i + 1] = s[i]
  BY <1>1, ConcatProperties
<1>3. DOMAIN t = 1..Len(t)
  BY <1>2, LenProperties
<1> HIDE DEF t, T
<1>4. Range(t) = {e} \cup Range(s)
  <2>1. ASSUME NEW y \in Range(t) PROVE y \in {e} \cup Range(s)
    <3>1. PICK i \in 1..Len(t) : y = t[i]
      BY <1>3, <2>1 DEF Range
    <3>2. CASE i = 1
      BY <1>2, <3>1, <3>2
    <3>3. CASE i # 1
      <4>1. i - 1 \in 1..Len(s) /\ (i - 1) + 1 = i
        BY <1>1, <1>2, <3>3
      <4>2. y = s[i - 1]
        BY <1>2, <3>1, <4>1
      <4> QED BY <1>1, <4>1, <4>2 DEF Range
    <3> QED BY <3>2, <3>3
  <2>2. e \in Range(t)
    BY <1>1, <1>2, <1>3 DEF Range
  <2>3. ASSUME NEW y \in Range(s) PROVE y \in Range(t)
    <3>1. PICK i \in 1..Len(s) : y = s[i]
      BY <1>1, <2>3 DEF Range
    <3>2. i + 1 \in DOMAIN t /\ t[i + 1] = y
      BY <1>1, <1>2, <1>3, <3>1
    <3> QED BY <3>2 DEF Range
  <2> QED BY <2>1, <2>2, <2>3
<1>5. t \in Seq(Range(t))
  BY <1>2, <1>4 DEF T
<1> QED BY <1>4, <1>5 DEF t

LEMMA RangeOfTail ==
  ASSUME NEW s, s \in Seq(Range(s)), s # <<>>
  PROVE  /\ Tail(s) \in Seq(Range(Tail(s)))
         /\ Range(s) = {Head(s)} \cup Range(Tail(s))
<1> DEFINE t == Tail(s)
<1>1. Len(s) \in Nat \ {0} /\ DOMAIN s = 1..Len(s)
  BY LenProperties, EmptySeq
<1>2. /\ t \in Seq(Range(s)) /\ Len(t) = Len(s) - 1 /\ Head(s) = s[1]
      /\ \A i \in 1..Len(t) : t[i] = s[i + 1]
  BY <1>1, HeadTailProperties
<1>3. DOMAIN t = 1..Len(t) /\ Len(t) \in Nat
  BY <1>2, LenProperties
<1> HIDE DEF t
<1>4. t \in Seq(Range(t))
  <2>1. \A i \in 1..Len(t) : t[i] \in Range(t)
    BY <1>3 DEF Range
  <2> QED BY <1>2, <2>1, SeqDef, <1>3
<1>5. Range(s) = {Head(s)} \cup Range(t)
  <2>1. ASSUME NEW y \in Range(s) PROVE y \in {Head(s)} \cup Range(t)
    <3>1. PICK i \in 1..Len(s) : y = s[i]
      BY <1>1, <2>1 DEF Range
    <3>2. CASE i = 1
      BY <1>2, <3>1, <3>2
    <3>3. CASE i # 1
      <4>1. i - 1 \in 1..Len(t) /\ (i - 1) + 1 = i
        BY <1>1, <1>2, <3>3
      <4>2. y = t[i - 1]
        BY <1>2, <3>1, <4>1
      <4> QED BY <1>3, <4>1, <4>2 DEF Range
    <3> QED BY <3>2, <3>3
  <2>2. Head(s) \in Range(s)
    BY <1>1, <1>2 DEF Range
  <2>3. ASSUME NEW y \in Range(t) PROVE y \in Range(s)
    <3>1. PICK i \in 1..Len(t) : y = t[i]
      BY <1>3, <2>3 DEF Range
    <3>2. i + 1 \in DOMAIN s /\ s[i + 1] = y
      BY <1>1, <1>2, <3>1
    <3> QED BY <3>2 DEF Range
  <2> QED BY <2>1, <2>2, <2>3
<1> QED BY <1>4, <1>5 DEF t

(* A section of a name that was not taken down before is added, and its    *)
(* includes are awaited.                                                   *)
LEMMA SectionAdded ==
  ASSUME IncludesInv, NEW rest, rest \in Seq(Range(rest)),
         NEW name, NEW text, name \notin included,
         ProcessScriptSection(name, text, rest), ~error,
         included' = included \cup {name}, UNCHANGED callback,
         ~failed /\ ~callback => Accounted(included \cup {name}, rest)
  PROVE  IncludesInv'
<1>1. PICK code, p :
        /\ sections' = Append(sections, [name |-> name, script |-> text, words |-> words,
                                         code |-> p.code, includes |-> p.includes,
                                         from |-> Len(found), to |-> Len(p.found)])
        /\ stack' = <<[name |-> name, includes |-> p.includes]>> \o rest
  BY DEF ProcessScriptSection
<1> DEFINE e == [name |-> name, script |-> text, words |-> words,
                 code |-> p.code, includes |-> p.includes,
                 from |-> Len(found), to |-> Len(p.found)]
           a == [name |-> name, includes |-> p.includes]
<1>2. e.name = name /\ e.includes = p.includes /\ a.name = name /\ a.includes = p.includes
  OBVIOUS
<1>3. sections' = Append(sections, e) /\ stack' = <<a>> \o rest
  BY <1>1
<1> HIDE DEF e, a
<1>4. sections \in Seq(Range(sections))
  BY DEF IncludesInv
<1>5. sections' \in Seq(Range(sections')) /\ Range(sections') = Range(sections) \cup {e}
  BY <1>3, <1>4, RangeOfAppend
<1>6. stack' \in Seq(Range(stack')) /\ Range(stack') = {a} \cup Range(rest)
  BY <1>3, RangeOfPush
<1>7. SectionNames' = SectionNames \cup {name}
  BY <1>2, <1>5 DEF SectionNames
<1>8. error' = error /\ failed' = failed
  BY DEF ProcessScriptSection
<1>9. Uniquely'
  <2>1. /\ Len(sections) \in Nat /\ DOMAIN sections = 1..Len(sections)
        /\ DOMAIN sections' = 1..(Len(sections) + 1)
        /\ sections'[Len(sections) + 1] = e
        /\ \A i \in DOMAIN sections : sections'[i] = sections[i]
    BY <1>3, <1>4, <1>5, AppendProperties, LenProperties
  <2>2. \A i \in DOMAIN sections : sections[i].name # name
    BY DEF IncludesInv, SectionNames, Range
  <2>3. Uniquely
    BY DEF IncludesInv
  <2>4. ASSUME NEW m \in DOMAIN sections', NEW n \in DOMAIN sections',
               sections'[m].name = sections'[n].name
        PROVE  m = n
    <3>1. CASE m \in DOMAIN sections /\ n \in DOMAIN sections
      BY <2>1, <2>3, <2>4, <3>1 DEF Uniquely
    <3>2. CASE m = Len(sections) + 1 /\ n \in DOMAIN sections
      BY <1>2, <2>1, <2>2, <2>4, <3>2
    <3>3. CASE n = Len(sections) + 1 /\ m \in DOMAIN sections
      BY <1>2, <2>1, <2>2, <2>4, <3>3
    <3>4. CASE m = Len(sections) + 1 /\ n = Len(sections) + 1
      BY <3>4
    <3>5. \A i \in DOMAIN sections' : i \in DOMAIN sections \/ i = Len(sections) + 1
      BY <2>1
    <3> QED BY <3>1, <3>2, <3>3, <3>4, <3>5
  <2> QED BY <2>4 DEF Uniquely
<1>10. AddedOrAwaited'
  <2>1. SUFFICES ASSUME ~failed, ~callback
                 PROVE  included' \subseteq SectionNames' /\ Accounted(included, stack)'
    BY <1>8 DEF AddedOrAwaited
  <2>2. included' \subseteq SectionNames'
    BY <1>7, <2>1 DEF IncludesInv, AddedOrAwaited
  <2>3. ASSUME NEW s \in Range(sections'), NEW x \in s.includes
        PROVE  \/ Resolved(Relative(s.name, x.path)) \in included'
               \/ \E b \in Range(stack') : b.name = s.name /\ x \in b.includes
    <3>1. CASE s \in Range(sections)
      BY <1>6, <2>1, <2>3, <3>1 DEF Accounted, Awaited
    <3>2. CASE s = e
      BY <1>2, <1>6, <2>3, <3>2
    <3> QED BY <1>5, <3>1, <3>2
  <2> QED BY <2>2, <2>3 DEF Accounted, Awaited, Resolved, Relative, GetAbsolutePath, Absolute
<1>11. SectionNames' \subseteq included' /\ ~error'
  BY <1>7, <1>8 DEF IncludesInv
<1> QED BY <1>5, <1>6, <1>9, <1>10, <1>11 DEF IncludesInv

(* AddSectionFromFile keeps the invariant, if what is awaited before it is *)
(* the file or awaited after it.                                           *)
LEMMA FileAdded ==
  ASSUME IncludesInv, NEW path, NEW rest, rest \in Seq(Range(rest)),
         AddFile(path, rest), ~error, UNCHANGED callback,
         ~failed /\ ~callback => Accounted(included \cup {Resolved(path)}, rest)
  PROVE  IncludesInv'
<1> DEFINE file == Resolved(path)
<1>1. CASE Climbs(path)
  <2>1. UNCHANGED <<included, sections, stack, error, failed, callback>>
    BY <1>1 DEF AddFile, parsing
  <2> QED BY <2>1 DEF IncludesInv, Uniquely, SectionNames, AddedOrAwaited, Accounted, Awaited
<1>2. CASE ~Climbs(path) /\ Already(file)
  <2>1. /\ included' = included /\ included \cup {file} = included
        /\ stack' = rest /\ UNCHANGED <<sections, error, failed>>
    BY <1>2 DEF AddFile, Already
  <2>2. AddedOrAwaited'
    BY <2>1 DEF IncludesInv, AddedOrAwaited, SectionNames, Accounted, Awaited
  <2> QED BY <2>1, <2>2 DEF IncludesInv, Uniquely, SectionNames
<1>3. CASE ~Climbs(path) /\ ~Already(file)
           /\ (file.parts \notin File \/ contents[file.parts] = Missing)
  <2>1. included' = included \cup {file} /\ Fails(rest)
    BY <1>3 DEF AddFile
  <2>2. stack' = rest /\ failed' /\ error' = (rest # <<>>) /\ UNCHANGED sections
    BY <2>1 DEF Fails
  <2> QED BY <2>1, <2>2 DEF IncludesInv, Uniquely, SectionNames, AddedOrAwaited
<1>4. CASE ~Climbs(path) /\ ~Already(file)
           /\ ~(file.parts \notin File \/ contents[file.parts] = Missing)
  <2>1. /\ included' = included \cup {file} /\ file \notin included
        /\ ProcessScriptSection(file, contents[file.parts], rest)
    BY <1>4 DEF AddFile, Already
  <2> HIDE DEF file
  <2> QED BY <2>1, SectionAdded DEF file
<1> QED BY <1>1, <1>2, <1>3, <1>4

(* What is awaited before the next include is it or awaited after it.      *)
LEMMA RemainingAwaited ==
  ASSUME IncludesInv, stack # <<>>
  PROVE  /\ Remaining \in Seq(Range(Remaining))
         /\ ~failed /\ ~callback => Accounted(included \cup {Resolved(Included)}, Remaining)
<1> DEFINE a == [name |-> Head(stack).name, includes |-> Head(stack).includes \ {NextInclude}]
<1>1. a.name = Head(stack).name /\ a.includes = Head(stack).includes \ {NextInclude}
  OBVIOUS
<1>2. Remaining = <<a>> \o Tail(stack)
  BY DEF Remaining
<1> HIDE DEF a
<1>3. /\ Tail(stack) \in Seq(Range(Tail(stack)))
      /\ Range(stack) = {Head(stack)} \cup Range(Tail(stack))
  BY RangeOfTail DEF IncludesInv
<1>4. /\ Remaining \in Seq(Range(Remaining))
      /\ Range(Remaining) = {a} \cup Range(Tail(stack))
  BY <1>2, <1>3, RangeOfPush
<1>5. ASSUME ~failed, ~callback, NEW s \in Range(sections), NEW x \in s.includes
      PROVE  \/ Resolved(Relative(s.name, x.path)) \in included \cup {Resolved(Included)}
             \/ \E b \in Range(Remaining) : b.name = s.name /\ x \in b.includes
  <2>1. \/ Resolved(Relative(s.name, x.path)) \in included
        \/ \E b \in Range(stack) : b.name = s.name /\ x \in b.includes
    BY <1>5 DEF IncludesInv, AddedOrAwaited, Accounted, Awaited
  <2>2. CASE Head(stack).name = s.name /\ x = NextInclude
    BY <2>2 DEF Included
  <2>3. CASE Head(stack).name = s.name /\ x \in Head(stack).includes /\ x # NextInclude
    BY <1>1, <1>4, <2>3
  <2> QED BY <1>3, <1>4, <2>1, <2>2, <2>3
<1>6. ~failed /\ ~callback => Accounted(included \cup {Resolved(Included)}, Remaining)
  BY <1>5 DEF Accounted, Awaited
<1> QED BY <1>4, <1>6

LEMMA InitIncludes == BuilderInit => IncludesInv
<1> SUFFICES ASSUME BuilderInit PROVE IncludesInv
  OBVIOUS
<1>1. stack = <<>> /\ sections = <<>> /\ included = {} /\ ~error
  BY DEF BuilderInit
<1>2. Range(sections) = {} /\ sections \in Seq(Range(sections)) /\ stack \in Seq(Range(stack))
  BY <1>1, RangeOfEmpty
<1>3. DOMAIN sections = {}
  BY <1>1, LenProperties
<1> QED BY <1>1, <1>2, <1>3 DEF IncludesInv, Uniquely, SectionNames, AddedOrAwaited, Accounted

LEMMA NextIncludes == IncludesInv /\ [BuilderNext]_builderVars => IncludesInv'
<1> SUFFICES ASSUME IncludesInv, [BuilderNext]_builderVars PROVE IncludesInv'
  OBVIOUS
<1>1. CASE StartNewModule
  <2>1. /\ stack = <<>> /\ stack' = <<>> /\ ~error /\ ~error'
        /\ included' = {} /\ sections' = <<>>
    BY <1>1 DEF StartNewModule, Idle
  <2>2. Range(sections') = {} /\ sections' \in Seq(Range(sections')) /\ stack' \in Seq(Range(stack'))
    BY <2>1, RangeOfEmpty
  <2> QED BY <2>1, <2>2 DEF IncludesInv, Uniquely, SectionNames, AddedOrAwaited, Accounted
<1>2. CASE AddSectionFromFile
  <2>1. PICK path \in Named : AddFile(path, <<>>)
    BY <1>2 DEF AddSectionFromFile
  <2>2. stack = <<>> /\ ~error /\ UNCHANGED callback
    BY <1>2 DEF AddSectionFromFile, Idle
  <2>3. ~failed /\ ~callback => Accounted(included \cup {Resolved(path)}, <<>>)
    BY <2>2 DEF IncludesInv, AddedOrAwaited, Accounted
  <2> QED BY <2>1, <2>2, <2>3, RangeOfEmpty, FileAdded
<1>3. CASE AddSectionFromMemory
  <2>1. PICK m \in Memory :
          /\ m.name \notin included /\ included' = included \cup {m.name}
          /\ ProcessScriptSection(m.name, m.script, <<>>)
    BY <1>3 DEF AddSectionFromMemory, Already
  <2>2. stack = <<>> /\ ~error /\ UNCHANGED callback
    BY <1>3 DEF AddSectionFromMemory, Idle
  <2>3. ~failed /\ ~callback => Accounted(included \cup {m.name}, <<>>)
    BY <2>2 DEF IncludesInv, AddedOrAwaited, Accounted
  <2> QED BY <2>1, <2>2, <2>3, RangeOfEmpty, SectionAdded
<1>4. CASE Include \/ CallbackAdds
  <2>1. stack # <<>> /\ ~error /\ AddFile(Included, Remaining) /\ UNCHANGED callback
    BY <1>4 DEF Include, CallbackAdds, Including
  <2> QED BY <2>1, RemainingAwaited, FileAdded
<1>5. CASE CallbackRefuses
  <2>1. /\ stack # <<>> /\ stack' = Remaining /\ failed' /\ error' = (Remaining # <<>>)
        /\ UNCHANGED <<sections, included>>
    BY <1>5 DEF CallbackRefuses, Including, Fails
  <2>2. stack' \in Seq(Range(stack'))
    BY <2>1, RemainingAwaited
  <2> QED BY <2>1, <2>2 DEF IncludesInv, Uniquely, SectionNames, AddedOrAwaited
<1>6. CASE CallbackIgnores
  <2>1. /\ stack # <<>> /\ ~error /\ stack' = Remaining /\ callback'
        /\ UNCHANGED <<sections, included, error, failed>>
    BY <1>6 DEF CallbackIgnores, Including, parsing
  <2>2. stack' \in Seq(Range(stack'))
    BY <2>1, RemainingAwaited
  <2> QED BY <2>1, <2>2 DEF IncludesInv, Uniquely, SectionNames, AddedOrAwaited
<1>7. CASE SectionReturns
  <2>1. /\ stack # <<>> /\ ~error /\ stack' = Tail(stack) /\ Head(stack).includes = {}
        /\ UNCHANGED <<sections, included, error, failed, callback>>
    BY <1>7 DEF SectionReturns, parsing
  <2>2. /\ stack' \in Seq(Range(stack'))
        /\ Range(stack) = {Head(stack)} \cup Range(stack')
    BY <2>1, RangeOfTail DEF IncludesInv
  <2>3. AddedOrAwaited'
    <3>1. SUFFICES ASSUME ~failed, ~callback, NEW s \in Range(sections), NEW x \in s.includes
                   PROVE  \/ Resolved(Relative(s.name, x.path)) \in included
                          \/ \E b \in Range(stack') : b.name = s.name /\ x \in b.includes
      BY <2>1 DEF IncludesInv, AddedOrAwaited, Accounted, Awaited, SectionNames
    <3>2. \/ Resolved(Relative(s.name, x.path)) \in included
          \/ \E b \in Range(stack) : b.name = s.name /\ x \in b.includes
      BY <3>1 DEF IncludesInv, AddedOrAwaited, Accounted, Awaited
    <3> QED BY <2>1, <2>2, <3>2
  <2> QED BY <2>1, <2>2, <2>3 DEF IncludesInv, Uniquely, SectionNames
<1>8. CASE ErrorReturns
  <2>1. /\ error /\ stack' = Tail(stack) /\ error' = (Tail(stack) # <<>>)
        /\ UNCHANGED <<sections, included, failed, callback>>
    BY <1>8 DEF ErrorReturns, parsing
  <2>2. failed /\ failed'
    BY <2>1 DEF IncludesInv
  <2>3. stack' \in Seq(Range(stack'))
    BY <2>1, RangeOfTail DEF IncludesInv
  <2> QED BY <2>1, <2>2, <2>3 DEF IncludesInv, Uniquely, SectionNames, AddedOrAwaited
<1>9. CASE CallbackGoesOn
  <2>1. ~error' /\ UNCHANGED <<sections, stack, included, failed, callback>>
    BY <1>9 DEF CallbackGoesOn, parsing
  <2> QED BY <2>1 DEF IncludesInv, Uniquely, SectionNames, AddedOrAwaited, Accounted, Awaited
<1>10. CASE SetIncludeCallback
  <2>1. callback' /\ UNCHANGED <<sections, stack, included, error, failed>>
    BY <1>10 DEF SetIncludeCallback, parsing
  <2> QED BY <2>1 DEF IncludesInv, Uniquely, SectionNames, AddedOrAwaited
<1>11. CASE DefineWord \/ Build \/ UNCHANGED builderVars
  <2>1. UNCHANGED <<sections, stack, included, error, failed, callback>>
    BY <1>11 DEF DefineWord, Build, builderVars, parsing
  <2> QED BY <2>1 DEF IncludesInv, Uniquely, SectionNames, AddedOrAwaited, Accounted, Awaited
<1> QED BY <1>1, <1>2, <1>3, <1>4, <1>5, <1>6, <1>7, <1>8, <1>9, <1>10, <1>11 DEF BuilderNext

(* Once the host's calls have succeeded, the module has every file that a  *)
(* section of it includes, as the section resolves it, and each once.      *)
THEOREM IncludesComplete == BuilderSpec => []Complete
<1>1. IncludesInv => Complete
  <2>1. SUFFICES ASSUME IncludesInv, Idle, ~failed, ~callback,
                        NEW n \in DOMAIN sections, NEW x \in sections[n].includes
                 PROVE  \E m \in DOMAIN sections :
                          sections[m].name = Resolved(Relative(sections[n].name, x.path))
    BY DEF Complete, IncludesInv, Uniquely
  <2>2. Range(stack) = {}
    BY <2>1, RangeOfEmpty DEF Idle
  <2>3. sections[n] \in Range(sections)
    BY DEF Range
  <2>4. Resolved(Relative(sections[n].name, x.path)) \in SectionNames
    BY <2>1, <2>2, <2>3 DEF IncludesInv, AddedOrAwaited, Accounted, Awaited
  <2> QED BY <2>4 DEF SectionNames, Range
<1> QED BY <1>1, InitIncludes, NextIncludes, PTL DEF BuilderSpec
=============================================================================
