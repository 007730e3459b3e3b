---------------------------- MODULE PointersProofs --------------------------
(***************************************************************************)
(* Proofs about Pointers: counts are balanced and no deleted object is     *)
(* used, for any number of objects, pointers and nested destructors, as    *)
(* long as nobody is careless; and counting references implements          *)
(* Ownership.                                                              *)
(*                                                                         *)
(* The argument counts the pointers that own an object.  The count of one  *)
(* object changes by one when one pointer starts or stops owning it, and   *)
(* the assignments in progress keep alive what they are about to assign.   *)
(***************************************************************************)
EXTENDS Pointers, FiniteSetTheorems, TLAPS

(* What each pointer owns, as a function, and how many own an object.      *)
Own == [p \in Pointer |-> Owns(p)]

Count(own, o) == Cardinality({p \in Pointer : own[p] = o})

One(x, y) == IF x = y THEN 1 ELSE 0

Balance(own, counts, spare) ==
  \A o \in Object : counts[o] = spare[o] + leaked[o] + Count(own, o)

-----------------------------------------------------------------------------
(* Counting.                                                               *)

(* The number of owners of an object is a natural number.                  *)
LEMMA CountType ==
  ASSUME NEW own, NEW o
  PROVE  /\ IsFiniteSet({p \in Pointer : own[p] = o})
         /\ Count(own, o) \in Nat
<1> DEFINE S == {p \in Pointer : own[p] = o}
<1>1. IsFiniteSet(S)
  <2>1. S \subseteq Pointer
    OBVIOUS
  <2> QED BY <2>1, FS_Subset, PointerAssumption
<1>2. Cardinality(S) \in Nat
  BY <1>1, FS_CardinalityType
<1> QED BY <1>1, <1>2 DEF Count

(* An object has an owner exactly when the count of its owners is not 0.   *)
LEMMA CountPositive ==
  ASSUME NEW own, NEW o
  PROVE  Count(own, o) > 0 <=> \E p \in Pointer : own[p] = o
<1> DEFINE S == {p \in Pointer : own[p] = o}
<1>1. IsFiniteSet(S) /\ Cardinality(S) \in Nat
  BY CountType DEF Count
<1>2. Cardinality(S) = 0 <=> S = {}
  BY <1>1, FS_EmptySet
<1> QED BY <1>1, <1>2 DEF Count

(* What one pointer owns changes: the count changes by one for the object  *)
(* it owned and for the one it owns now.                                   *)
LEMMA CountChange ==
  ASSUME NEW own \in [Pointer -> Object \cup {Null}], NEW p \in Pointer,
         NEW x \in Object \cup {Null}, NEW o \in Object,
         NEW new, new = [own EXCEPT ![p] = x]
  PROVE  Count(new, o) = Count(own, o) + One(o, x) - One(o, own[p])
<1> DEFINE S == {r \in Pointer : own[r] = o}
           T == {r \in Pointer : new[r] = o}
<1>1. IsFiniteSet(S) /\ Cardinality(S) \in Nat
  BY CountType DEF Count
<1>2. IsFiniteSet(S \cup {p}) /\ Cardinality(S \cup {p}) =
        IF p \in S THEN Cardinality(S) ELSE Cardinality(S) + 1
  BY <1>1, FS_AddElement
<1>3. IsFiniteSet(S \ {p}) /\ Cardinality(S \ {p}) =
        IF p \in S THEN Cardinality(S) - 1 ELSE Cardinality(S)
  BY <1>1, FS_RemoveElement
<1>4. p \in S <=> o = own[p]
  OBVIOUS
<1>5. T = IF o = x THEN S \cup {p} ELSE S \ {p}
  OBVIOUS
<1> HIDE DEF S, T
<1>6. Cardinality(T) = Cardinality(S) + One(o, x) - One(o, own[p])
  BY <1>1, <1>2, <1>3, <1>4, <1>5 DEF One
<1> QED BY <1>6 DEF Count, S, T

-----------------------------------------------------------------------------
(* The invariant.                                                          *)

(* An assignment in progress will find what it is to assign.               *)
Sound(p, f, counts) ==
  /\ f.how \in {"add", "take", "move"}
  /\ f.to # Null => counts[f.to] > 0
  /\ f.how = "take" => f.to # Null /\ f.src = Null /\ loose[f.to] > 0
  /\ f.how = "move" => f.src # Null
  /\ f.src # Null =>
       /\ f.src # p /\ at[f.src] = Idle /\ Kind[f.src] # "handler"
       /\ IF Kind[p] = "obj" THEN f.to = Null
          ELSE f.how = "move" /\ f.to = ptr[f.src]

(* No two assignments use the same pointer or loose reference.             *)
Apart(p, f) ==
  \A r \in Assigned \ {p} :
    /\ at[r].src # p
    /\ f.src # Null => at[r].src # f.src
    /\ f.how = "take" /\ at[r].how = "take" => at[r].to # f.to

Frames ==
  \A p \in Assigned :
    Kind[p] # "handler" /\ Sound(p, at[p], refs) /\ Apart(p, at[p])

Stacked ==
  /\ \A p \in Pointer : p \in Assigned <=> \E k \in 1..Len(stack) : stack[k] = p
  /\ \A k, l \in 1..Len(stack) : stack[k] = stack[l] => k = l

Good == ~fault /\ Balance(Own, refs, loose) /\ Frames /\ Stacked

Inv == TypeOK /\ (~careless => Good)

(* Under the invariant, the objects with references are those with owners. *)
LEMMA LiveIsOwned ==
  ASSUME NEW own, NEW counts \in [Object -> Nat], NEW spare \in [Object -> Nat],
         leaked \in [Object -> Nat], Balance(own, counts, spare), NEW o \in Object
  PROVE  counts[o] > 0 <=> spare[o] + leaked[o] > 0 \/ \E p \in Pointer : own[p] = o
<1>1. counts[o] = spare[o] + leaked[o] + Count(own, o)
  BY DEF Balance
<1>2. Count(own, o) \in Nat
  BY CountType
<1>3. Count(own, o) > 0 <=> \E p \in Pointer : own[p] = o
  BY CountPositive
<1> QED BY <1>1, <1>2, <1>3

(* What a pointer owns is an object or null.                               *)
LEMMA OwnType ==
  ASSUME TypeOK
  PROVE  Own \in [Pointer -> Object \cup {Null}]
BY DEF Own, Owns, TypeOK

-----------------------------------------------------------------------------
(* The end of an assignment.                                               *)

(* What the assignment f finds to assign to p.                             *)
Target(p, f) == IF f.src # Null /\ Kind[p] = "obj" THEN ptr[f.src] ELSE f.to

Ending(p, f, counts) ==
  /\ Completes(p, f, counts)
  /\ at' = [at EXCEPT ![p] = Idle]
  /\ UNCHANGED leaked

(* The state in which an assignment ends: p owns nothing any more, and the *)
(* counts are right for that.                                              *)
Ready(p, f, counts) ==
  /\ TypeOK /\ p \in Pointer /\ f \in Assignment /\ counts \in [Object -> Nat]
  /\ Balance([Own EXCEPT ![p] = Null], counts, loose)
  /\ \A r \in Assigned \ {p} :
       Kind[r] # "handler" /\ Sound(r, at[r], counts) /\ Apart(r, at[r])
  /\ Sound(p, f, counts) /\ Apart(p, f)

(* What is assigned is alive, and the pointer moved from owns it.          *)
LEMMA TargetAlive ==
  ASSUME NEW p, NEW f, NEW counts, Ready(p, f, counts)
  PROVE  /\ Target(p, f) \in Object \cup {Null}
         /\ Target(p, f) # Null => counts[Target(p, f)] > 0
         /\ f.src # Null => f.src \in Pointer /\ Own[f.src] = Target(p, f)
<1>1. Target(p, f) \in Object \cup {Null}
  BY PointerAssumption DEF Target, Ready, TypeOK, Assignment
<1>2. ASSUME f.src # Null
      PROVE  f.src \in Pointer /\ f.src # p /\ Own[f.src] = Target(p, f)
  BY <1>2 DEF Target, Ready, TypeOK, Assignment, Sound, Own, Owns
<1>3. ASSUME Target(p, f) # Null
      PROVE  counts[Target(p, f)] > 0
  <2>1. CASE f.src = Null
    BY <1>3, <2>1 DEF Target, Ready, Sound
  <2>2. CASE f.src # Null
    <3> DEFINE own == [Own EXCEPT ![p] = Null]
    <3>1. own[f.src] = Target(p, f) /\ f.src \in Pointer
      BY <1>2, <2>2 DEF Ready, Own
    <3>2. Target(p, f) \in Object
      BY <1>1, <1>3
    <3> HIDE DEF own
    <3>3. Balance(own, counts, loose) /\ counts \in [Object -> Nat]
          /\ loose \in [Object -> Nat] /\ leaked \in [Object -> Nat]
      BY DEF Ready, TypeOK, own
    <3> QED BY <3>1, <3>2, <3>3, LiveIsOwned
  <2> QED BY <2>1, <2>2
<1> QED BY <1>1, <1>2, <1>3

(* So nothing goes wrong, and pointers and references change as they       *)
(* should.                                                                 *)
LEMMA EndingChanges ==
  ASSUME NEW p, NEW f, NEW counts, Ready(p, f, counts), Ending(p, f, counts)
  PROVE  LET x == Target(p, f) IN
         /\ fault' = fault
         /\ refs' = Referenced(f, x, counts)
         /\ ptr' = Pointed(p, f, x)
         /\ loose' = IF f.how = "take" THEN [loose EXCEPT ![x] = @ - 1] ELSE loose
         /\ Own' = IF f.how = "move" THEN [Own EXCEPT ![p] = x, ![f.src] = Null]
                   ELSE [Own EXCEPT ![p] = x]
<1> DEFINE x == Target(p, f)
<1>1. x # Null => counts[x] > 0
  BY TargetAlive
<1>2. ~(x # Null /\ counts[x] = 0)
  BY <1>1
<1>3. /\ fault' = fault
      /\ refs' = Referenced(f, x, counts)
      /\ ptr' = Pointed(p, f, x)
      /\ loose' = IF f.how = "take" /\ loose[x] > 0
                  THEN [loose EXCEPT ![x] = @ - 1] ELSE loose
  BY <1>2 DEF Ending, Completes, Target
<1>4. f.how = "take" => loose[x] > 0
  BY DEF Ready, Sound, Target
<1>5. f.how = "move" => f.src \in Pointer /\ f.src # p /\ at[f.src] = Idle
  BY DEF Ready, Sound, Assignment
<1>6. p \in Pointer /\ at \in [Pointer -> Assignment]
  BY DEF Ready, TypeOK
<1>7. at' = [at EXCEPT ![p] = Idle]
  BY DEF Ending
<1>8. Own' = IF f.how = "move" THEN [Own EXCEPT ![p] = x, ![f.src] = Null]
             ELSE [Own EXCEPT ![p] = x]
  BY <1>3, <1>5, <1>6, <1>7 DEF Own, Owns, Pointed
<1> QED BY <1>3, <1>4, <1>8

LEMMA EndingType ==
  ASSUME NEW p, NEW f, NEW counts, Ready(p, f, counts), Ending(p, f, counts)
  PROVE  /\ ptr' \in [Pointer -> Object \cup {Null}]
         /\ refs' \in [Object -> Nat] /\ loose' \in [Object -> Nat]
         /\ leaked' \in [Object -> Nat]
         /\ at' \in [Pointer -> Assignment]
<1> DEFINE x == Target(p, f)
<1>1. x \in Object \cup {Null} /\ (f.how = "take" => x \in Object /\ loose[x] > 0)
  BY TargetAlive DEF Ready, Sound, Target
<1>2. Idle \in Assignment
  BY DEF Idle, Assignment
<1>3. TypeOK /\ counts \in [Object -> Nat]
  BY DEF Ready
<1> HIDE DEF x
<1>4. refs' = Referenced(f, x, counts) /\ ptr' = Pointed(p, f, x)
      /\ loose' = IF f.how = "take" THEN [loose EXCEPT ![x] = @ - 1] ELSE loose
  BY EndingChanges DEF x
<1>5. refs' \in [Object -> Nat]
  BY <1>3, <1>4 DEF Referenced
<1>6. ptr' \in [Pointer -> Object \cup {Null}]
  BY <1>1, <1>3, <1>4 DEF Pointed, TypeOK
<1>7. loose' \in [Object -> Nat]
  BY <1>1, <1>3, <1>4 DEF TypeOK
<1>8. leaked' \in [Object -> Nat] /\ at' \in [Pointer -> Assignment]
  BY <1>2, <1>3 DEF Ending, TypeOK
<1> QED BY <1>5, <1>6, <1>7, <1>8

(* The counts are balanced again.                                          *)
LEMMA EndingBalance ==
  ASSUME NEW p, NEW f, NEW counts, Ready(p, f, counts), Ending(p, f, counts)
  PROVE  Balance(Own, refs, loose)'
<1> DEFINE x == Target(p, f)
           own0 == [Own EXCEPT ![p] = Null]
           own1 == [Own EXCEPT ![p] = x]
           own2 == [own1 EXCEPT ![f.src] = Null]
<1>1. /\ TypeOK /\ p \in Pointer /\ counts \in [Object -> Nat]
      /\ Own \in [Pointer -> Object \cup {Null}]
      /\ x \in Object \cup {Null}
      /\ Null \notin Object
      /\ leaked' = leaked
  BY OwnType, TargetAlive, PointerAssumption DEF Ready, Ending
<1>2. f.how = "move" => f.src \in Pointer /\ f.src # p /\ own1[f.src] = x
  <2>1. f.how = "move" => f.src # Null /\ f.src # p
    BY DEF Ready, Sound
  <2>2. f.src # Null => f.src \in Pointer /\ Own[f.src] = x
    BY TargetAlive
  <2> HIDE DEF x
  <2> QED BY <1>1, <2>1, <2>2
<1>3. own0 \in [Pointer -> Object \cup {Null}] /\ own0[p] = Null
      /\ own1 \in [Pointer -> Object \cup {Null}] /\ own1 = [own0 EXCEPT ![p] = x]
  BY <1>1
<1>4. Balance(own0, counts, loose)
  BY DEF Ready
<1>5. /\ refs' = Referenced(f, x, counts)
      /\ loose' = IF f.how = "take" THEN [loose EXCEPT ![x] = @ - 1] ELSE loose
      /\ Own' = IF f.how = "move" THEN own2 ELSE own1
  BY EndingChanges
<1>6. f.how \in {"add", "take", "move"}
  BY DEF Ready, Sound
<1>7. SUFFICES ASSUME NEW o \in Object
               PROVE  refs'[o] = loose'[o] + leaked'[o] + Count(Own', o)
  BY DEF Balance
<1>8. counts[o] = loose[o] + leaked[o] + Count(own0, o)
  BY <1>4 DEF Balance
<1>9. Count(own1, o) = Count(own0, o) + One(o, x) - One(o, Null)
  <2>1. own1 = [own0 EXCEPT ![p] = x]
    BY <1>3
  <2> HIDE DEF own0, own1, x
  <2>2. Count(own1, o) = Count(own0, o) + One(o, x) - One(o, own0[p])
    <3>1. own0 \in [Pointer -> Object \cup {Null}]
      BY <1>3
    <3>2. p \in Pointer /\ x \in Object \cup {Null}
      BY <1>1
    <3> QED BY <2>1, <3>1, <3>2, CountChange
  <2> QED BY <1>3, <2>2
<1>10. f.how = "move" =>
         Count(own2, o) = Count(own1, o) + One(o, Null) - One(o, x)
  <2>1. own2 = [own1 EXCEPT ![f.src] = Null]
    OBVIOUS
  <2> HIDE DEF own1, own2, x
  <2>2. ASSUME f.how = "move"
        PROVE  Count(own2, o)
                 = Count(own1, o) + One(o, Null) - One(o, own1[f.src])
    <3>1. own1 \in [Pointer -> Object \cup {Null}]
      BY <1>3
    <3>2. f.src \in Pointer
      BY <1>2, <2>2
    <3>3. Null \in Object \cup {Null}
      OBVIOUS
    <3> QED BY <2>1, <3>1, <3>2, <3>3, CountChange
  <2> QED BY <1>2, <2>2
<1>11. One(o, Null) = 0
  BY <1>1 DEF One
<1>12. Count(own0, o) \in Nat /\ loose[o] \in Nat /\ leaked[o] \in Nat /\ counts[o] \in Nat
  BY <1>1, CountType DEF TypeOK
<1> HIDE DEF own0, own1, own2, x
<1>13. refs'[o] = counts[o] + (IF f.how = "add" THEN One(o, x) ELSE 0)
  BY <1>5, <1>12 DEF Referenced, One
<1>14. loose'[o] = loose[o] - (IF f.how = "take" THEN One(o, x) ELSE 0)
  BY <1>1, <1>5, <1>12 DEF One, TypeOK
<1>15. Count(Own', o) = Count(own0, o) + (IF f.how = "move" THEN 0 ELSE One(o, x))
  <2>1. One(o, x) \in Int
    BY DEF One
  <2> QED BY <1>5, <1>9, <1>10, <1>11, <1>12, <2>1
<1>16. One(o, x) \in Int
  BY DEF One
<1> QED BY <1>1, <1>6, <1>8, <1>12, <1>13, <1>14, <1>15, <1>16

(* The other assignments in progress are as sound as they were.            *)
LEMMA EndingFrames ==
  ASSUME NEW p, NEW f, NEW counts, Ready(p, f, counts), Ending(p, f, counts)
  PROVE  Frames'
<1> DEFINE x == Target(p, f)
<1>1. /\ TypeOK /\ p \in Pointer /\ counts \in [Object -> Nat]
      /\ f \in Assignment /\ x \in Object \cup {Null}
      /\ Sound(p, f, counts) /\ Apart(p, f)
  BY TargetAlive DEF Ready
<1>2. /\ refs' = Referenced(f, x, counts)
      /\ ptr' = Pointed(p, f, x)
      /\ loose' = IF f.how = "take" THEN [loose EXCEPT ![x] = @ - 1] ELSE loose
  BY EndingChanges
<1>3. f.how = "take" => x = f.to /\ f.src = Null
  BY <1>1 DEF Sound, Target
<1> HIDE DEF x
<1>4. at' = [at EXCEPT ![p] = Idle]
  BY DEF Ending
<1>5. Assigned' = Assigned \ {p}
  BY <1>1, <1>4 DEF Assigned, TypeOK
<1>6. SUFFICES ASSUME NEW r \in Assigned \ {p}
               PROVE  Kind[r] # "handler" /\ Sound(r, at[r], refs)' /\ Apart(r, at[r])'
  BY <1>5 DEF Frames
<1>7. Kind[r] # "handler" /\ Sound(r, at[r], counts) /\ Apart(r, at[r])
  BY DEF Ready
<1>8. at'[r] = at[r] /\ r \in Pointer /\ at[r] \in Assignment
  BY <1>1, <1>4 DEF Assigned, TypeOK
<1>9. \A o \in Object : refs'[o] >= counts[o]
  BY <1>1, <1>2 DEF Referenced
<1>10. at[r].to # Null => refs'[at[r].to] > 0
  <2>1. at[r].to \in Object \cup {Null} /\ (at[r].to # Null => counts[at[r].to] > 0)
    BY <1>7, <1>8 DEF Sound, Assignment
  <2>2. refs' \in [Object -> Nat]
    BY EndingType
  <2> QED BY <1>1, <1>9, <2>1, <2>2
<1>11. at[r].how = "take" => loose'[at[r].to] > 0
  BY <1>1, <1>2, <1>3, <1>7, <1>8 DEF Sound, Apart, Assignment, TypeOK
<1>12. at[r].src # Null =>
         at'[at[r].src] = Idle /\ ptr'[at[r].src] = ptr[at[r].src]
  <2>1. ASSUME at[r].src # Null
        PROVE  /\ at[r].src \in Pointer /\ at[r].src # p /\ at[at[r].src] = Idle
               /\ f.src # Null => at[r].src # f.src
    BY <1>1, <1>7, <1>8, <2>1 DEF Sound, Apart, Assignment
  <2>2. f.how = "move" => f.src # Null
    BY <1>1 DEF Sound
  <2> QED BY <1>1, <1>2, <1>4, <2>1, <2>2 DEF Pointed, TypeOK
<1>13. Sound(r, at[r], refs)'
  BY <1>7, <1>8, <1>10, <1>11, <1>12 DEF Sound
<1>14. Apart(r, at[r])'
  BY <1>4, <1>5, <1>7, <1>8 DEF Apart, Assigned, TypeOK
<1> QED BY <1>7, <1>13, <1>14

-----------------------------------------------------------------------------
(* The start of an assignment.                                             *)

(* Types are kept whatever happens.                                        *)
LEMMA CompletesType ==
  ASSUME TypeOK, NEW p \in Pointer, NEW f \in Assignment,
         NEW counts \in [Object -> Nat], Completes(p, f, counts)
  PROVE  /\ ptr' \in [Pointer -> Object \cup {Null}]
         /\ refs' \in [Object -> Nat] /\ loose' \in [Object -> Nat]
         /\ fault' \in BOOLEAN
<1> DEFINE x == Target(p, f)
<1>1. x \in Object \cup {Null}
  BY PointerAssumption DEF Target, TypeOK, Assignment
<1>2. CASE x # Null /\ counts[x] = 0
  BY <1>2 DEF Completes, Crashes, Target, TypeOK
<1>3. CASE ~(x # Null /\ counts[x] = 0)
  <2>1. /\ refs' = Referenced(f, x, counts)
        /\ ptr' = Pointed(p, f, x)
        /\ loose' = IF f.how = "take" /\ loose[x] > 0
                    THEN [loose EXCEPT ![x] = @ - 1] ELSE loose
        /\ fault' = fault
    BY <1>3 DEF Completes, Target
  <2> HIDE DEF x
  <2>2. refs' \in [Object -> Nat]
    BY <2>1 DEF Referenced
  <2>3. ptr' \in [Pointer -> Object \cup {Null}]
    BY <1>1, <2>1 DEF Pointed, TypeOK
  <2>4. loose' \in [Object -> Nat]
    <3>1. CASE x = Null
      BY <2>1, <3>1, PointerAssumption DEF TypeOK
    <3>2. CASE x # Null
      BY <1>1, <2>1, <3>2 DEF TypeOK
    <3> QED BY <3>1, <3>2
  <2> QED BY <2>1, <2>2, <2>3, <2>4 DEF TypeOK
<1> QED BY <1>2, <1>3

LEMMA AssignType ==
  ASSUME TypeOK, NEW p \in Pointer, NEW f \in Assignment, Assign(p, f),
         careless' \in BOOLEAN
  PROVE  TypeOK'
<1> DEFINE o == ptr[p]
<1>0. o \in Object \cup {Null} /\ leaked' = leaked
  BY DEF TypeOK, Assign
<1>1. CASE o = Null
  <2>1. Completes(p, f, refs) /\ UNCHANGED <<at, stack>>
    BY <1>1 DEF Assign
  <2> QED BY <1>0, <2>1, CompletesType DEF TypeOK
<1>2. CASE o # Null /\ refs[o] = 0
  BY <1>2 DEF Assign, Crashes, TypeOK
<1>3. CASE o # Null /\ refs[o] = 1
  <2>1. /\ refs' = [refs EXCEPT ![o] = 0]
        /\ at' = [at EXCEPT ![p] = f]
        /\ stack' = <<p>> \o stack
        /\ UNCHANGED <<ptr, loose, fault, leaked>>
    BY <1>3 DEF Assign
  <2>2. stack' \in Seq(Pointer)
    BY <2>1 DEF TypeOK
  <2>3. refs' \in [Object -> Nat] /\ at' \in [Pointer -> Assignment]
    BY <2>1 DEF TypeOK
  <2> QED BY <2>1, <2>2, <2>3 DEF TypeOK
<1>4. CASE o # Null /\ refs[o] # 0 /\ refs[o] # 1
  <2> DEFINE counts == [refs EXCEPT ![o] = @ - 1]
  <2>1. Completes(p, f, counts) /\ UNCHANGED <<at, stack>>
    BY <1>4 DEF Assign
  <2>2. counts \in [Object -> Nat]
    BY <1>0, <1>4 DEF TypeOK
  <2> HIDE DEF counts
  <2> QED BY <1>0, <2>1, <2>2, CompletesType DEF TypeOK
<1> QED BY <1>1, <1>2, <1>3, <1>4

(* The start of a careful assignment.                                      *)
Fresh(p, f) ==
  /\ p \in Pointer /\ f \in Assignment /\ Kind[p] # "handler"
  /\ ~Disturbs(p)
  /\ Sound(p, f, refs) /\ Apart(p, f)
  /\ f.to # Null /\ f.to = ptr[p] => refs[f.to] > 1

(* While its destructor runs, the old object has no references.            *)
LEMMA PendingGood ==
  ASSUME TypeOK, Good, NEW p, NEW f, Fresh(p, f), ptr[p] # Null, refs[ptr[p]] = 1,
         refs' = [refs EXCEPT ![ptr[p]] = 0],
         at' = [at EXCEPT ![p] = f],
         stack' = <<p>> \o stack,
         UNCHANGED <<ptr, loose, leaked, fault>>
  PROVE  Good' /\ Own' = [Own EXCEPT ![p] = Null]
<1> DEFINE o == ptr[p]
<1>1. /\ p \in Pointer /\ f \in Assignment /\ o \in Object
      /\ p \notin Busy /\ at[p] = Idle
      /\ f # Idle
  BY DEF Fresh, Disturbs, Busy, Assigned, TypeOK, Sound, Idle
<1>2. Own[p] = o /\ Own' = [Own EXCEPT ![p] = Null]
  BY <1>1 DEF Own, Owns, TypeOK
<1>3. Balance(Own, refs, loose)'
  <2>1. SUFFICES ASSUME NEW q \in Object
                 PROVE  refs'[q] = loose'[q] + leaked'[q] + Count(Own', q)
    BY DEF Balance
  <2>2. refs[q] = loose[q] + leaked[q] + Count(Own, q)
    BY DEF Good, Balance
  <2>3. Count(Own', q) = Count(Own, q) + One(q, Null) - One(q, Own[p])
    <3>1. Own \in [Pointer -> Object \cup {Null}]
      BY OwnType
    <3>2. Null \in Object \cup {Null}
      OBVIOUS
    <3>3. Own' = [Own EXCEPT ![p] = Null]
      BY <1>2
    <3>4. p \in Pointer
      BY <1>1
    <3> QED BY <3>1, <3>2, <3>3, <3>4, CountChange
  <2>4. One(q, Null) = 0 /\ One(q, Own[p]) = IF q = o THEN 1 ELSE 0
    BY <1>2, PointerAssumption DEF One
  <2>5. Count(Own, q) \in Nat
    BY CountType
  <2>6. loose' = loose /\ leaked' = leaked
    OBVIOUS
  <2> QED BY <1>1, <2>2, <2>3, <2>4, <2>5, <2>6 DEF TypeOK
<1>4. Assigned' = Assigned \cup {p} /\ p \notin Assigned
  BY <1>1 DEF Assigned, TypeOK
<1>5. Frames'
  <2>1. SUFFICES ASSUME NEW r \in Assigned \cup {p}
                 PROVE  /\ Kind[r] # "handler"
                        /\ Sound(r, at[r], refs)' /\ Apart(r, at[r])'
    BY <1>4 DEF Frames
  <2>2. CASE r = p
    <3>1. at'[r] = f /\ Kind[r] # "handler"
      BY <1>1, <2>2 DEF TypeOK, Fresh
    <3>2. Sound(p, f, refs) /\ Apart(p, f) /\ f.to \in Object \cup {Null}
          /\ f.src \in Pointer \cup {Null}
          /\ (f.to # Null /\ f.to = o => refs[f.to] > 1)
      BY <1>1 DEF Fresh, Assignment
    <3>3. f.to # Null => refs'[f.to] > 0
      BY <1>1, <3>2 DEF TypeOK, Sound
    <3>4. f.src # Null => at'[f.src] = Idle
      BY <1>1, <3>2 DEF TypeOK, Sound
    <3>5. Sound(r, at[r], refs)'
      BY <2>2, <3>1, <3>2, <3>3, <3>4 DEF Sound
    <3>6. Apart(r, at[r])'
      BY <1>1, <1>4, <2>2, <3>1, <3>2 DEF Apart, Assigned, TypeOK
    <3> QED BY <3>1, <3>5, <3>6
  <2>3. CASE r # p
    <3>1. r \in Assigned /\ r \in Pointer /\ at'[r] = at[r] /\ at[r] \in Assignment
      BY <1>1, <2>3 DEF Assigned, TypeOK
    <3>2. Kind[r] # "handler" /\ Sound(r, at[r], refs) /\ Apart(r, at[r])
      BY <3>1 DEF Good, Frames
    <3>3. at[r].src # p /\ (at[r].to # Null => at[r].to # o)
      BY <1>1, <3>1 DEF Busy, Fresh, Disturbs, InFlight
    <3>4. at[r].to # Null => refs'[at[r].to] > 0
      BY <3>1, <3>2, <3>3 DEF Sound, Assignment, TypeOK
    <3>5. at[r].src # Null => at'[at[r].src] = Idle
      BY <1>1, <3>1, <3>2, <3>3 DEF Sound, Assignment, TypeOK
    <3>6. Sound(r, at[r], refs)'
      BY <3>1, <3>2, <3>4, <3>5 DEF Sound
    <3>7. Apart(r, at[r])'
      <4>1. SUFFICES ASSUME NEW t \in (Assigned \cup {p}) \ {r}
                     PROVE  /\ at'[t].src # r
                            /\ at[r].src # Null => at'[t].src # at[r].src
                            /\ at[r].how = "take" /\ at'[t].how = "take" =>
                                 at'[t].to # at[r].to
        BY <1>4, <3>1 DEF Apart
      <4>2. CASE t = p
        <5>1. at'[t] = f /\ Sound(p, f, refs) /\ Apart(p, f)
          BY <1>1, <4>2 DEF TypeOK, Fresh
        <5>2. at[r] # Idle /\ r # Null
          BY <3>1, PointerAssumption DEF Assigned
        <5>3. f.src # r
          BY <5>1, <5>2 DEF Sound
        <5> QED BY <2>3, <3>1, <5>1, <5>2, <5>3 DEF Apart
      <4>3. CASE t # p
        BY <3>1, <3>2, <4>3 DEF Apart, Assigned, TypeOK
      <4> QED BY <4>2, <4>3
    <3> QED BY <3>2, <3>6, <3>7
  <2> QED BY <2>2, <2>3
<1>6. Stacked'
  <2>1. stack \in Seq(Pointer) /\ Len(stack') = Len(stack) + 1
        /\ stack'[1] = p
        /\ \A k \in 1..Len(stack) : stack'[k + 1] = stack[k]
    BY <1>1 DEF TypeOK
  <2>2. Stacked
    BY DEF Good
  <2>3. \A k \in 1..Len(stack) : stack[k] # p
    BY <1>1, <1>4, <2>2 DEF Stacked
  <2>4. \A k \in 1..Len(stack') : k = 1 \/ (k - 1 \in 1..Len(stack) /\ stack'[k] = stack[k - 1])
    BY <2>1
  <2>5. \A r \in Pointer : r \in Assigned' <=> \E k \in 1..Len(stack') : stack'[k] = r
    <3>1. ASSUME NEW r \in Pointer, r \in Assigned'
          PROVE  \E k \in 1..Len(stack') : stack'[k] = r
      <4>1. CASE r = p
        BY <2>1, <4>1
      <4>2. CASE r # p
        <5>1. PICK k \in 1..Len(stack) : stack[k] = r
          BY <1>4, <2>2, <3>1, <4>2 DEF Stacked
        <5>2. k + 1 \in 1..Len(stack') /\ stack'[k + 1] = r
          BY <2>1, <5>1
        <5> QED BY <5>2
      <4> QED BY <4>1, <4>2
    <3>2. ASSUME NEW r \in Pointer, NEW k \in 1..Len(stack'), stack'[k] = r
          PROVE  r \in Assigned'
      BY <1>4, <2>1, <2>2, <2>4, <3>2 DEF Stacked
    <3> QED BY <3>1, <3>2
  <2>6. \A k, l \in 1..Len(stack') : stack'[k] = stack'[l] => k = l
    <3>1. SUFFICES ASSUME NEW k \in 1..Len(stack'), NEW l \in 1..Len(stack'),
                          stack'[k] = stack'[l]
                   PROVE  k = l
      OBVIOUS
    <3>2. CASE k = 1 \/ l = 1
      BY <2>1, <2>3, <2>4, <3>1, <3>2
    <3>3. CASE k # 1 /\ l # 1
      BY <2>1, <2>2, <2>4, <3>1, <3>3 DEF Stacked
    <3> QED BY <3>2, <3>3
  <2> QED BY <2>5, <2>6 DEF Stacked
<1>7. ~fault'
  BY DEF Good
<1> QED BY <1>2, <1>3, <1>5, <1>6, <1>7 DEF Good

-----------------------------------------------------------------------------
(* Steps of Ownership.                                                     *)

Spare == [o \in Object |-> loose[o] + leaked[o]]

Live == {o \in Object : refs[o] > 0}

HasOwner(o) == Spare[o] > 0 \/ \E p \in Pointer : Own[p] = o

(* Under the invariant an object lives exactly if it has an owner.         *)
LEMMA LiveHasOwner ==
  ASSUME TypeOK, Balance(Own, refs, loose), NEW o \in Object
  PROVE  refs[o] > 0 <=> HasOwner(o)
<1>1. refs[o] = loose[o] + leaked[o] + Count(Own, o)
  BY DEF Balance
<1>2. Count(Own, o) \in Nat
  BY CountType
<1>3. Count(Own, o) > 0 <=> \E p \in Pointer : Own[p] = o
  BY CountPositive
<1>4. loose[o] \in Nat /\ leaked[o] \in Nat
  BY DEF TypeOK
<1> QED BY <1>1, <1>2, <1>3, <1>4 DEF HasOwner, Spare

LEMMA LiveHasOwnerNext ==
  ASSUME TypeOK', Balance(Own, refs, loose)', NEW o \in Object
  PROVE  refs'[o] > 0 <=> HasOwner(o)'
<1>1. refs'[o] = loose'[o] + leaked'[o] + Count(Own', o)
  BY DEF Balance
<1>2. Count(Own', o) \in Nat
  BY CountType
<1>3. Count(Own', o) > 0 <=> \E p \in Pointer : Own'[p] = o
  BY CountPositive
<1>4. loose'[o] \in Nat /\ leaked'[o] \in Nat
  BY DEF TypeOK
<1> QED BY <1>1, <1>2, <1>3, <1>4 DEF HasOwner, Spare

(* If nothing gets its first owner in a step, the living objects that      *)
(* still have an owner survive it, and no other.                           *)
LEMMA Survival ==
  ASSUME TypeOK, TypeOK', Balance(Own, refs, loose), Balance(Own, refs, loose)',
         \A o \in Object : HasOwner(o)' => HasOwner(o)
  PROVE  Owning!Survive
<1>1. Live' = {o \in Live : HasOwner(o)'}
  BY LiveHasOwner, LiveHasOwnerNext DEF Live
<1> QED BY <1>1 DEF Owning!Survive, Owning!Owned, Live, HasOwner, Spare, Own

Both == /\ TypeOK /\ Balance(Own, refs, loose)
        /\ TypeOK' /\ Balance(Own, refs, loose)'
        /\ ~careless /\ ~careless'

(* A pointer is pointed at a living object or null.                        *)
LEMMA PointStep ==
  ASSUME Both, NEW p \in Pointer, NEW x \in Object \cup {Null},
         x # Null => refs[x] > 0, Own' = [Own EXCEPT ![p] = x], Spare' = Spare
  PROVE  Owning!Next
<1>1. ASSUME NEW o \in Object, HasOwner(o)'
      PROVE  HasOwner(o)
  <2>1. CASE o = x
    BY <2>1, LiveHasOwner, PointerAssumption DEF Both
  <2>2. CASE o # x
    <3>1. Own \in [Pointer -> Object \cup {Null}]
      BY OwnType DEF Both
    <3> QED BY <1>1, <2>2, <3>1 DEF HasOwner
  <2> QED BY <2>1, <2>2
<1>2. Owning!Survive
  BY <1>1, Survival DEF Both
<1>3. x \in Live \cup {Null}
  BY DEF Live
<1>4. Owning!Point(p, x)
  BY <1>2, <1>3 DEF Owning!Point, Live, Spare, Own
<1> QED BY <1>4 DEF Owning!Next, Owning!Owners, Both

(* It takes over a loose reference.                                        *)
LEMMA TakeStep ==
  ASSUME Both, NEW p \in Pointer, NEW x \in Object,
         loose[x] > 0, Own' = [Own EXCEPT ![p] = x],
         loose' = [loose EXCEPT ![x] = @ - 1], leaked' = leaked
  PROVE  Owning!Next
<1>0. TypeOK /\ Own \in [Pointer -> Object \cup {Null}]
  BY OwnType DEF Both
<1>1. Spare' = [Spare EXCEPT ![x] = @ - 1] /\ Spare[x] > 0
  <2>1. loose \in [Object -> Nat] /\ leaked \in [Object -> Nat]
    BY <1>0 DEF TypeOK
  <2>2. Spare[x] > 0
    BY <2>1 DEF Spare
  <2>3. ASSUME NEW o \in Object
        PROVE  Spare'[o] = IF o = x THEN Spare[o] - 1 ELSE Spare[o]
    BY <2>1 DEF Spare
  <2>4. Spare' = [o \in Object |-> Spare'[o]]
    BY DEF Spare
  <2> HIDE DEF Spare
  <2>5. Spare' = [o \in Object |-> IF o = x THEN Spare[o] - 1 ELSE Spare[o]]
    BY <2>3, <2>4
  <2>6. Spare = [o \in Object |-> Spare[o]]
    BY DEF Spare
  <2> QED BY <2>2, <2>5, <2>6
<1>2. ASSUME NEW o \in Object, HasOwner(o)'
      PROVE  HasOwner(o)
  <2>1. CASE o = x
    BY <1>1, <2>1 DEF HasOwner
  <2>2. CASE o # x
    <3>1. Spare'[o] = Spare[o]
      BY <2>2 DEF Spare
    <3> QED BY <1>0, <1>2, <2>2, <3>1 DEF HasOwner
  <2> QED BY <2>1, <2>2
<1>3. Owning!Survive
  BY <1>2, Survival DEF Both
<1>4. Owning!Take(p, x)
  BY <1>1, <1>3 DEF Owning!Take, Spare, Own
<1> QED BY <1>4 DEF Owning!Next, Owning!Owners, Both

(* It takes over what another pointer owns.                                *)
LEMMA MoveStep ==
  ASSUME Both, NEW p \in Pointer, NEW q \in Pointer, p # q,
         Own' = [Own EXCEPT ![p] = Own[q], ![q] = Null], Spare' = Spare
  PROVE  Owning!Next
<1>0. TypeOK /\ Own \in [Pointer -> Object \cup {Null}]
  BY OwnType DEF Both
<1>1. ASSUME NEW o \in Object, HasOwner(o)'
      PROVE  HasOwner(o)
  BY <1>0, <1>1, PointerAssumption DEF HasOwner
<1>2. Owning!Survive
  BY <1>1, Survival DEF Both
<1>3. Owning!Move(p, q)
  BY <1>2 DEF Owning!Move, Spare, Own
<1> QED BY <1>3 DEF Owning!Next, Owning!Owners, Both

(* The end of an assignment is a step of Ownership.                        *)
LEMMA EndingStep ==
  ASSUME NEW p, NEW f, NEW counts, Ready(p, f, counts), Ending(p, f, counts),
         Both, \A o \in Object : refs[o] >= counts[o]
  PROVE  Owning!Next
<1> DEFINE x == Target(p, f)
<1>1. /\ p \in Pointer /\ f \in Assignment /\ x \in Object \cup {Null}
      /\ x # Null => counts[x] > 0
      /\ f.src # Null => f.src \in Pointer /\ f.src # p /\ Own[f.src] = x
      /\ f.how = "move" => f.src # Null
      /\ f.how = "take" => x \in Object /\ loose[x] > 0
      /\ f.how \in {"add", "take", "move"}
  BY TargetAlive DEF Ready, Sound, Target, Assignment
<1>2. x # Null => refs[x] > 0
  BY <1>1 DEF Both, Ready, TypeOK
<1>3. /\ loose' = IF f.how = "take" THEN [loose EXCEPT ![x] = @ - 1] ELSE loose
      /\ Own' = IF f.how = "move" THEN [Own EXCEPT ![p] = x, ![f.src] = Null]
                ELSE [Own EXCEPT ![p] = x]
      /\ leaked' = leaked
  BY EndingChanges DEF Ending
<1> HIDE DEF x
<1>4. CASE f.how = "add"
  <2>1. Own' = [Own EXCEPT ![p] = x] /\ Spare' = Spare
    BY <1>3, <1>4 DEF Spare
  <2> QED BY <1>1, <1>2, <2>1, PointStep
<1>5. CASE f.how = "take"
  <2>1. Own' = [Own EXCEPT ![p] = x] /\ loose' = [loose EXCEPT ![x] = @ - 1]
        /\ leaked' = leaked
    BY <1>3, <1>5
  <2>2. x \in Object /\ loose[x] > 0
    BY <1>1, <1>5
  <2> QED BY <1>1, <2>1, <2>2, TakeStep
<1>6. CASE f.how = "move"
  <2>1. Own' = [Own EXCEPT ![p] = Own[f.src], ![f.src] = Null] /\ Spare' = Spare
    BY <1>1, <1>3, <1>6 DEF Spare
  <2>2. f.src \in Pointer /\ f.src # p
    BY <1>1, <1>6
  <2> QED BY <1>1, <2>1, <2>2, MoveStep
<1> QED BY <1>1, <1>4, <1>5, <1>6

-----------------------------------------------------------------------------
(* Assignments.                                                            *)

(* An assignment that ends leaves a good state.                            *)
LEMMA EndingGood ==
  ASSUME NEW p, NEW f, NEW counts, Ready(p, f, counts), Ending(p, f, counts),
         \A o \in Object : refs[o] >= counts[o],
         TypeOK', Good, Stacked', ~careless, ~careless'
  PROVE  Good' /\ Owning!Next
<1>1. fault' = fault
  BY EndingChanges
<1>2. Balance(Own, refs, loose)' /\ Frames'
  BY EndingBalance, EndingFrames
<1>3. Good'
  BY <1>1, <1>2 DEF Good
<1>4. Both
  BY <1>2 DEF Both, Good, Ready
<1> QED BY <1>3, <1>4, EndingStep

(* An object with two owners has more than one reference.                  *)
LEMMA TwoOwners ==
  ASSUME TypeOK, Balance(Own, refs, loose), NEW o \in Object, NEW p \in Pointer,
         Own[p] = o, loose[o] > 0 \/ \E q \in Pointer \ {p} : Own[q] = o
  PROVE  refs[o] > 1
<1> DEFINE new == [Own EXCEPT ![p] = Null]
<1>1. Own \in [Pointer -> Object \cup {Null}]
  BY OwnType
<1>2. Count(new, o) = Count(Own, o) + One(o, Null) - One(o, Own[p])
  <2>1. Null \in Object \cup {Null}
    OBVIOUS
  <2>2. new = [Own EXCEPT ![p] = Null]
    OBVIOUS
  <2>3. p \in Pointer /\ o \in Object
    OBVIOUS
  <2> HIDE DEF new
  <2> QED BY ONLY <1>1, <2>1, <2>2, <2>3, CountChange
<1>3. One(o, Null) = 0 /\ One(o, Own[p]) = 1
  BY PointerAssumption DEF One
<1>4. refs[o] = loose[o] + leaked[o] + Count(Own, o)
  BY DEF Balance
<1>5. loose[o] \in Nat /\ leaked[o] \in Nat /\ Count(Own, o) \in Nat /\ Count(new, o) \in Nat
  BY CountType DEF TypeOK
<1>6. CASE loose[o] > 0
  BY <1>2, <1>3, <1>4, <1>5, <1>6
<1>7. CASE \E q \in Pointer \ {p} : Own[q] = o
  <2>1. \E q \in Pointer : new[q] = o
    BY <1>1, <1>7
  <2> HIDE DEF new
  <2>2. Count(new, o) > 0
    BY <2>1, CountPositive
  <2> QED BY <1>2, <1>3, <1>4, <1>5, <2>2
<1> QED BY <1>6, <1>7

(* A careful assignment finds everything as it should when it ends at once:*)
(* the pointer was null, or the old object has other references.           *)
LEMMA ReadyAtOnce ==
  ASSUME TypeOK, Good, NEW p, NEW f, Fresh(p, f), NEW counts,
         counts = IF ptr[p] = Null THEN refs
                  ELSE [refs EXCEPT ![ptr[p]] = @ - 1],
         ptr[p] # Null => refs[ptr[p]] > 1
  PROVE  /\ Ready(p, f, counts)
         /\ \A o \in Object : refs[o] >= counts[o]
<1> DEFINE new == [Own EXCEPT ![p] = Null]
<1>1. /\ p \in Pointer /\ f \in Assignment /\ ptr[p] \in Object \cup {Null}
      /\ p \notin Busy /\ at[p] = Idle /\ Own[p] = ptr[p]
  BY DEF Fresh, Disturbs, Busy, Assigned, TypeOK, Own, Owns
<1>2. refs \in [Object -> Nat]
  BY DEF TypeOK
<1>3. \A o \in Object : counts[o] = refs[o] - One(o, ptr[p])
  BY <1>1, <1>2, PointerAssumption DEF One
<1>4. counts \in [Object -> Nat] /\ \A o \in Object : refs[o] >= counts[o]
  BY <1>1, <1>2
<1>5. Balance(new, counts, loose)
  <2>1. SUFFICES ASSUME NEW o \in Object
                 PROVE  counts[o] = loose[o] + leaked[o] + Count(new, o)
    BY DEF Balance
  <2>2. refs[o] = loose[o] + leaked[o] + Count(Own, o)
    BY DEF Good, Balance
  <2>3. Count(new, o) = Count(Own, o) + One(o, Null) - One(o, Own[p])
    <3>1. Own \in [Pointer -> Object \cup {Null}]
      BY OwnType
    <3>2. Null \in Object \cup {Null}
      OBVIOUS
    <3>3. new = [Own EXCEPT ![p] = Null]
      OBVIOUS
    <3>4. p \in Pointer
      BY <1>1
    <3> HIDE DEF new
    <3> QED BY <3>1, <3>2, <3>3, <3>4, CountChange
  <2>4. One(o, Null) = 0 /\ One(o, ptr[p]) \in Int
    BY PointerAssumption DEF One
  <2>5. Count(Own, o) \in Nat /\ loose[o] \in Nat /\ leaked[o] \in Nat /\ refs[o] \in Nat
    BY CountType DEF TypeOK
  <2> HIDE DEF new
  <2>6. Count(new, o) = Count(Own, o) - One(o, ptr[p])
    BY <1>1, <2>3, <2>4, <2>5
  <2> QED BY <1>3, <2>2, <2>4, <2>5, <2>6
<1>6. ASSUME NEW r \in Assigned \ {p}
      PROVE  Kind[r] # "handler" /\ Sound(r, at[r], counts) /\ Apart(r, at[r])
  <2>1. Kind[r] # "handler" /\ Sound(r, at[r], refs) /\ Apart(r, at[r])
    BY DEF Good, Frames
  <2>2. r \in Pointer /\ at[r] \in Assignment
    BY DEF Assigned, TypeOK
  <2>3. at[r].to # Null => at[r].to # ptr[p] /\ at[r].to \in Object
    BY <2>2 DEF Fresh, Disturbs, InFlight, Assignment
  <2>4. at[r].to # Null => counts[at[r].to] > 0
    BY <1>1, <1>2, <2>1, <2>3 DEF Sound
  <2> QED BY <2>1, <2>4 DEF Sound
<1>7. Sound(p, f, counts)
  <2>1. f.to # Null => counts[f.to] > 0
    BY <1>1, <1>2 DEF Fresh, Sound, Assignment
  <2> QED BY <2>1 DEF Fresh, Sound
<1>8. Apart(p, f)
  BY DEF Fresh
<1> QED BY <1>1, <1>4, <1>5, <1>6, <1>7, <1>8 DEF Ready

(* A careful assignment.                                                   *)
LEMMA AssignGood ==
  ASSUME TypeOK, TypeOK', Good, ~careless, ~careless', NEW p, NEW f,
         Fresh(p, f), Assign(p, f)
  PROVE  Good' /\ Owning!Next
<1> DEFINE o == ptr[p]
<1>1. /\ p \in Pointer /\ o \in Object \cup {Null}
      /\ at[p] = Idle /\ Own[p] = o /\ leaked' = leaked
  BY DEF Fresh, Disturbs, Busy, Assigned, TypeOK, Own, Owns, Assign
<1>2. o # Null => refs[o] > 0
  <2>1. o # Null => HasOwner(o)
    BY <1>1 DEF HasOwner
  <2>2. Balance(Own, refs, loose)
    BY DEF Good
  <2> QED BY <1>1, <2>1, <2>2, LiveHasOwner
<1>3. CASE o # Null /\ refs[o] = 1
  <2>1. /\ refs' = [refs EXCEPT ![o] = 0]
        /\ at' = [at EXCEPT ![p] = f]
        /\ stack' = <<p>> \o stack
        /\ UNCHANGED <<ptr, loose, leaked, fault>>
    BY <1>1, <1>3 DEF Assign
  <2>2. Good' /\ Own' = [Own EXCEPT ![p] = Null]
    BY <1>3, <2>1, PendingGood
  <2>3. Spare' = Spare
    BY <2>1 DEF Spare
  <2>4. Both
    BY <2>2 DEF Both, Good
  <2>5. Owning!Next
    <3>1. Null \in Object \cup {Null}
      OBVIOUS
    <3> QED BY <1>1, <2>2, <2>3, <2>4, <3>1, PointStep
  <2> QED BY <2>2, <2>5
<1>4. CASE o = Null \/ refs[o] > 1
  <2> DEFINE counts == IF o = Null THEN refs ELSE [refs EXCEPT ![o] = @ - 1]
  <2>1. Completes(p, f, counts) /\ UNCHANGED <<at, stack>>
    BY <1>1, <1>4 DEF Assign, TypeOK
  <2>2. Ready(p, f, counts) /\ \A q \in Object : refs[q] >= counts[q]
    <3>1. o # Null => refs[o] > 1
      BY <1>4
    <3>2. counts = IF o = Null THEN refs ELSE [refs EXCEPT ![o] = @ - 1]
      OBVIOUS
    <3> HIDE DEF counts
    <3> QED BY <3>1, <3>2, ReadyAtOnce
  <2> HIDE DEF counts
  <2>3. Ending(p, f, counts)
    BY <1>1, <2>1 DEF Ending, TypeOK
  <2>4. Stacked'
    BY <2>1 DEF Good, Stacked, Assigned
  <2> QED BY <2>2, <2>3, <2>4, EndingGood
<1>5. o = Null \/ refs[o] = 1 \/ refs[o] > 1
  BY <1>1, <1>2 DEF TypeOK
<1> QED BY <1>3, <1>4, <1>5

-----------------------------------------------------------------------------
(* Operations that assign.  Each keeps the invariant, and is a step of     *)
(* Ownership.                                                              *)

(* Whatever is assigned, careless or not.                                  *)
LEMMA AssignInv ==
  ASSUME Inv, ~careless, NEW p \in Pointer, NEW f \in Assignment, Assign(p, f),
         careless' \in BOOLEAN, ~careless' => Fresh(p, f)
  PROVE  Inv' /\ Owning!Next
<1>1. TypeOK'
  BY AssignType DEF Inv
<1>2. CASE careless'
  BY <1>1, <1>2 DEF Inv, Owning!Next
<1>3. CASE ~careless'
  <2>1. Fresh(p, f)
    BY <1>3
  <2>2. Good' /\ Owning!Next
    BY <1>1, <1>3, <2>1, AssignGood DEF Inv
  <2> QED BY <1>1, <2>2 DEF Inv
<1> QED BY <1>2, <1>3

(* An object that a pointer owns, or that somebody has a reference to.     *)
LEMMA HasOwnerLives ==
  ASSUME TypeOK, Good, NEW o \in Object, loose[o] > 0 \/ \E q \in Pointer : Own[q] = o
  PROVE  refs[o] > 0
<1>1. HasOwner(o)
  BY DEF HasOwner, Spare, TypeOK
<1> QED BY <1>1, LiveHasOwner DEF Good

LEMMA SetKeeps ==
  ASSUME Inv, NEW p \in Pointer, NEW x \in Object \cup {Null}, Set(p, x)
  PROVE  Inv' /\ Owning!Next
<1> DEFINE f == [how |-> "add", to |-> x, src |-> Null]
<1>1. f \in Assignment /\ Assign(p, f) /\ ~careless
  BY DEF Set, Acts, Assignment
<1>2. careless' \in BOOLEAN
  BY DEF Set, CarelessIf, Disturbs
<1>3. ASSUME ~careless'
      PROVE  Fresh(p, f)
  <2>1. TypeOK /\ Good /\ Kind[p] # "handler" /\ ~Disturbs(p)
        /\ ~(x # Null /\ ptr[p] = x /\ refs[x] = 1)
    BY <1>1, <1>3 DEF Inv, Set, CarelessIf
  <2>2. x # Null => refs[x] > 0
    BY <2>1, HasOwnerLives DEF Set, Own, Owns
  <2>3. x # Null /\ x = ptr[p] => refs[x] > 1
    BY <2>1, <2>2 DEF TypeOK
  <2>4. Sound(p, f, refs)
    BY <2>2 DEF Sound
  <2>5. Apart(p, f)
    BY <2>1 DEF Apart, Disturbs, Busy
  <2> QED BY <1>1, <2>1, <2>3, <2>4, <2>5 DEF Fresh
<1> HIDE DEF f
<1> QED BY <1>1, <1>2, <1>3, AssignInv

LEMMA SetOwnedKeeps ==
  ASSUME Inv, NEW p \in Pointer, NEW x \in Object, SetOwned(p, x)
  PROVE  Inv' /\ Owning!Next
<1> DEFINE f == [how |-> "take", to |-> x, src |-> Null]
<1>1. f \in Assignment /\ Assign(p, f) /\ ~careless
  BY DEF SetOwned, Acts, Assignment
<1>2. careless' \in BOOLEAN
  BY DEF SetOwned, CarelessIf, Disturbs
<1>3. ASSUME ~careless'
      PROVE  Fresh(p, f)
  <2>1. TypeOK /\ Good /\ Kind[p] # "handler" /\ ~Disturbs(p) /\ x \notin InFlight
        /\ x # Null /\ loose[x] > 0
    BY <1>1, <1>3, PointerAssumption DEF Inv, SetOwned, CarelessIf
  <2>2. refs[x] > 0
    BY <2>1, HasOwnerLives
  <2>3. x = ptr[p] => refs[x] > 1
    <3>1. at[p] = Idle
      BY <2>1 DEF Disturbs, Busy, Assigned
    <3> QED BY <2>1, <3>1, TwoOwners DEF Good, Own, Owns
  <2>4. Sound(p, f, refs)
    BY <2>1, <2>2 DEF Sound
  <2>5. Apart(p, f)
    BY <2>1 DEF Apart, Disturbs, Busy, InFlight
  <2> QED BY <1>1, <2>1, <2>3, <2>4, <2>5 DEF Fresh
<1> HIDE DEF f
<1> QED BY <1>1, <1>2, <1>3, AssignInv

(* Two pointers that point at one object, none of them being assigned.     *)
LEMMA SharedLives ==
  ASSUME TypeOK, Good, NEW p \in Pointer, NEW q \in Pointer, p # q,
         at[p] = Idle, at[q] = Idle, ptr[q] # Null
  PROVE  /\ refs[ptr[q]] > 0
         /\ ptr[q] = ptr[p] => refs[ptr[q]] > 1
<1>1. ptr[q] \in Object /\ Own[q] = ptr[q] /\ Own[p] = ptr[p]
  BY DEF TypeOK, Own, Owns
<1>2. refs[ptr[q]] > 0
  BY <1>1, HasOwnerLives
<1>3. ASSUME ptr[q] = ptr[p]
      PROVE  refs[ptr[q]] > 1
  <2>1. \E r \in Pointer \ {p} : Own[r] = ptr[q]
    BY <1>1
  <2> QED BY <1>1, <1>3, <2>1, TwoOwners DEF Good
<1> QED BY <1>2, <1>3

LEMMA CopyKeeps ==
  ASSUME Inv, NEW p \in Pointer, NEW q \in Pointer, Copy(p, q)
  PROVE  Inv' /\ Owning!Next
<1> DEFINE f == IF Kind[p] = "obj" THEN [how |-> "add", to |-> Null, src |-> q]
                ELSE [how |-> "add", to |-> ptr[q], src |-> Null]
<1>1. f \in Assignment /\ Assign(p, f) /\ ~careless
  BY DEF Copy, Acts, Assignment, Inv, TypeOK
<1>2. careless' \in BOOLEAN
  BY DEF Copy, CarelessIf, Disturbs
<1>3. ASSUME ~careless'
      PROVE  Fresh(p, f)
  <2>1. TypeOK /\ Good /\ Kind[p] # "handler" /\ ~Disturbs(p) /\ p # q
        /\ Kind[q] = Kind[p] /\ at[q] = Idle /\ (Kind[p] = "obj" => q \notin Busy)
    BY <1>1, <1>3 DEF Inv, Copy, CarelessIf
  <2>2. p \notin Busy /\ at[p] = Idle
    BY <2>1 DEF Disturbs, Busy, Assigned
  <2>3. q # Null
    BY PointerAssumption
  <2>4. CASE Kind[p] = "obj"
    <3>1. Sound(p, f, refs)
      BY <2>1, <2>3, <2>4 DEF Sound
    <3>2. Apart(p, f)
      BY <2>1, <2>2, <2>4 DEF Apart, Busy
    <3> QED BY <1>1, <2>1, <2>4, <3>1, <3>2 DEF Fresh
  <2>5. CASE Kind[p] # "obj"
    <3>1. ptr[q] # Null => refs[ptr[q]] > 0 /\ (ptr[q] = ptr[p] => refs[ptr[q]] > 1)
      BY <2>1, <2>2, SharedLives
    <3>2. Sound(p, f, refs)
      BY <2>5, <3>1 DEF Sound
    <3>3. Apart(p, f)
      BY <2>2, <2>5 DEF Apart, Busy
    <3> QED BY <1>1, <2>1, <2>5, <3>1, <3>2, <3>3 DEF Fresh
  <2> QED BY <2>4, <2>5
<1> HIDE DEF f
<1> QED BY <1>1, <1>2, <1>3, AssignInv

LEMMA MoveKeeps ==
  ASSUME Inv, NEW p \in Pointer, NEW q \in Pointer, Move(p, q)
  PROVE  Inv' /\ Owning!Next
<1> DEFINE f == [how |-> "move", to |-> IF Kind[p] = "obj" THEN Null ELSE ptr[q],
                 src |-> q]
<1>1. f \in Assignment /\ Assign(p, f) /\ ~careless
  BY DEF Move, Acts, Assignment, Inv, TypeOK
<1>2. careless' \in BOOLEAN
  BY DEF Move, CarelessIf, Disturbs
<1>3. ASSUME ~careless'
      PROVE  Fresh(p, f)
  <2>1. TypeOK /\ Good /\ Kind[p] # "handler" /\ ~Disturbs(p) /\ p # q
        /\ Kind[q] = Kind[p] /\ q \notin Busy
    BY <1>1, <1>3 DEF Inv, Move, CarelessIf
  <2>2. p \notin Busy /\ at[p] = Idle /\ at[q] = Idle
    BY <2>1 DEF Disturbs, Busy, Assigned
  <2>3. q # Null
    BY PointerAssumption
  <2>4. ptr[q] # Null => refs[ptr[q]] > 0 /\ (ptr[q] = ptr[p] => refs[ptr[q]] > 1)
    BY <2>1, <2>2, SharedLives
  <2>5. Sound(p, f, refs)
    BY <2>1, <2>2, <2>3, <2>4 DEF Sound
  <2>6. Apart(p, f)
    BY <2>1, <2>2 DEF Apart, Busy
  <2> QED BY <1>1, <2>1, <2>4, <2>5, <2>6 DEF Fresh
<1> HIDE DEF f
<1> QED BY <1>1, <1>2, <1>3, AssignInv

-----------------------------------------------------------------------------
(* Operations that do not.                                                 *)

(* The assignments in progress are sound as long as nothing they use loses *)
(* a reference.                                                            *)
LEMMA FramesKept ==
  ASSUME TypeOK, Good, UNCHANGED <<at, stack, fault>>,
         \A r \in Busy \cap Pointer : ptr'[r] = ptr[r],
         \A o \in InFlight : refs'[o] > 0 /\ (loose[o] > 0 => loose'[o] > 0)
  PROVE  Frames' /\ Stacked' /\ ~fault'
<1>1. Stacked' /\ ~fault' /\ Assigned' = Assigned
  BY DEF Good, Stacked, Assigned
<1>2. SUFFICES ASSUME NEW r \in Assigned
               PROVE  Kind[r] # "handler" /\ Sound(r, at[r], refs)' /\ Apart(r, at[r])'
  BY <1>1 DEF Frames
<1>3. Kind[r] # "handler" /\ Sound(r, at[r], refs) /\ Apart(r, at[r])
  BY DEF Good, Frames
<1>4. /\ at[r] \in Assignment /\ at[r].src \in Busy
      /\ at[r].to # Null => at[r].to \in InFlight
  BY DEF Assigned, TypeOK, Busy, InFlight
<1>5. Sound(r, at[r], refs)'
  BY <1>3, <1>4 DEF Sound, Assignment
<1>6. Apart(r, at[r])'
  BY <1>1, <1>3 DEF Apart
<1> QED BY <1>3, <1>5, <1>6

(* What an assignment in progress is to assign has references.             *)
LEMMA InFlightLives ==
  ASSUME TypeOK, Good
  PROVE  \A o \in InFlight : o \in Object /\ refs[o] > 0
BY DEF Good, Frames, Sound, InFlight, Assigned, Assignment, TypeOK

(* The count of the owners after one pointer has changed.                  *)
LEMMA OwnersChange ==
  ASSUME TypeOK, NEW p \in Pointer, NEW x \in Object \cup {Null},
         Own' = [Own EXCEPT ![p] = x], NEW o \in Object
  PROVE  Count(Own', o) = Count(Own, o) + One(o, x) - One(o, Own[p])
<1>1. Own \in [Pointer -> Object \cup {Null}]
  BY OwnType
<1>2. Own' = [Own EXCEPT ![p] = x]
  OBVIOUS
<1> QED BY ONLY <1>1, <1>2, CountChange, p \in Pointer, x \in Object \cup {Null}, o \in Object

(* The spare references after those to one object have changed.            *)
LEMMA SpareChange ==
  ASSUME NEW o \in Object, NEW n,
         loose'[o] + leaked'[o] = n,
         \A q \in Object \ {o} : loose'[q] = loose[q] /\ leaked'[q] = leaked[q]
  PROVE  Spare' = [Spare EXCEPT ![o] = n]
<1>1. ASSUME NEW q \in Object
      PROVE  Spare'[q] = IF q = o THEN n ELSE Spare[q]
  BY DEF Spare
<1>2. Spare' = [q \in Object |-> Spare'[q]] /\ Spare = [q \in Object |-> Spare[q]]
  BY DEF Spare
<1> HIDE DEF Spare
<1>3. Spare' = [q \in Object |-> IF q = o THEN n ELSE Spare[q]]
  BY <1>1, <1>2
<1> QED BY <1>2, <1>3

LEMMA ReleaseOwnershipKeeps ==
  ASSUME Inv, NEW p \in Pointer, ReleaseOwnership(p)
  PROVE  Inv' /\ Owning!Next
<1> DEFINE o == ptr[p]
<1>1. /\ TypeOK /\ Good /\ ~careless /\ o \in Object
      /\ loose' = [loose EXCEPT ![o] = @ + 1]
      /\ ptr' = [ptr EXCEPT ![p] = Null]
      /\ UNCHANGED <<refs, leaked, at, stack, fault>>
      /\ careless' = (p \in Busy)
  BY DEF ReleaseOwnership, Acts, CarelessIf, Inv, TypeOK
<1>2. TypeOK'
  BY <1>1 DEF TypeOK
<1>3. CASE p \in Busy
  BY <1>1, <1>2, <1>3 DEF Inv, Owning!Next
<1>4. CASE p \notin Busy
  <2>1. Own[p] = o /\ Own' = [Own EXCEPT ![p] = Null]
    BY <1>1, <1>4 DEF Own, Owns, Busy, Assigned, TypeOK
  <2>2. Balance(Own, refs, loose)'
    <3>1. SUFFICES ASSUME NEW q \in Object
                   PROVE  refs'[q] = loose'[q] + leaked'[q] + Count(Own', q)
      BY DEF Balance
    <3>2. refs[q] = loose[q] + leaked[q] + Count(Own, q)
      BY <1>1 DEF Good, Balance
    <3>3. Count(Own', q) = Count(Own, q) + One(q, Null) - One(q, Own[p])
      BY <1>1, <2>1, OwnersChange
    <3>4. One(q, Null) = 0 /\ One(q, Own[p]) = IF q = o THEN 1 ELSE 0
      BY <2>1, PointerAssumption DEF One
    <3>5. Count(Own, q) \in Nat /\ loose[q] \in Nat /\ leaked[q] \in Nat
      BY <1>1, CountType DEF TypeOK
    <3> QED BY <1>1, <3>2, <3>3, <3>4, <3>5 DEF TypeOK
  <2>3. Frames' /\ Stacked' /\ ~fault'
    <3>1. \A q \in InFlight : refs'[q] > 0 /\ (loose[q] > 0 => loose'[q] > 0)
      BY <1>1, InFlightLives DEF TypeOK
    <3>2. \A r \in Busy \cap Pointer : ptr'[r] = ptr[r]
      BY <1>1, <1>4 DEF TypeOK
    <3> QED BY <1>1, <3>1, <3>2, FramesKept
  <2>4. Spare' = [Spare EXCEPT ![o] = @ + 1]
    <3>1. loose'[o] + leaked'[o] = Spare[o] + 1
      BY <1>1 DEF Spare, TypeOK
    <3>2. \A q \in Object \ {o} : loose'[q] = loose[q] /\ leaked'[q] = leaked[q]
      BY <1>1 DEF TypeOK
    <3> QED BY <1>1, <3>1, <3>2, SpareChange
  <2>5. o # Null
    BY <1>1, PointerAssumption
  <2>6. Owning!Give(p)
    BY <1>1, <2>1, <2>4, <2>5 DEF Owning!Give, Own, Spare, Live
  <2>7. Owning!Next
    BY <1>1, <1>4, <2>6 DEF Owning!Next, Owning!Owners
  <2> QED BY <1>2, <2>2, <2>3, <2>7 DEF Inv, Good
<1> QED BY <1>3, <1>4

LEMMA SetContextResultHandlerKeeps ==
  ASSUME Inv, NEW p \in Pointer, NEW h \in Object \cup {Null},
         SetContextResultHandler(p, h)
  PROVE  Inv' /\ Owning!Next
<1>1. /\ TypeOK /\ Good /\ ~careless /\ Kind[p] = "handler"
      /\ h # Null => loose[h] > 0 \/ \E q \in Pointer : ptr[q] = h /\ at[q] = Idle
      /\ refs' = [o \in Object |-> refs[o] + (IF o = h THEN 1 ELSE 0)
                                     - (IF o = ptr[p] THEN 1 ELSE 0)]
      /\ ptr' = [ptr EXCEPT ![p] = h]
      /\ UNCHANGED <<loose, leaked, at, stack, fault>>
      /\ careless' = (ptr[p] # Null /\ ptr[p] # h /\ ptr[p] \in InFlight)
  BY DEF SetContextResultHandler, Acts, CarelessIf, Inv
<1>2. at[p] = Idle /\ p \notin Busy
  <2>1. p \notin Assigned
    BY <1>1 DEF Good, Frames
  <2>2. \A r \in Assigned : at[r].src # p
    BY <1>1, PointerAssumption DEF Good, Frames, Sound
  <2> QED BY <2>1, <2>2 DEF Busy, Assigned
<1>3. Own[p] = ptr[p] /\ Own' = [Own EXCEPT ![p] = h]
  BY <1>1, <1>2 DEF Own, Owns, TypeOK
<1>4. h # Null => h \in Object /\ refs[h] > 0
  BY <1>1, HasOwnerLives DEF Own, Owns
<1>5. ptr[p] # Null => ptr[p] \in Object /\ refs[ptr[p]] > 0
  BY <1>1, <1>3, HasOwnerLives DEF TypeOK
<1>6. refs' \in [Object -> Nat]
  <2>1. ASSUME NEW o \in Object
        PROVE  refs[o] + (IF o = h THEN 1 ELSE 0) - (IF o = ptr[p] THEN 1 ELSE 0) \in Nat
    BY <1>1, <1>5, PointerAssumption DEF TypeOK
  <2> QED BY <1>1, <2>1
<1>7. TypeOK'
  <2>1. careless' \in BOOLEAN
    BY <1>1
  <2> QED BY <1>1, <1>6, <2>1 DEF TypeOK
<1>8. CASE careless'
  BY <1>7, <1>8 DEF Inv, Owning!Next
<1>9. CASE ~careless'
  <2>1. Balance(Own, refs, loose)'
    <3>1. SUFFICES ASSUME NEW o \in Object
                   PROVE  refs'[o] = loose'[o] + leaked'[o] + Count(Own', o)
      BY DEF Balance
    <3>2. refs[o] = loose[o] + leaked[o] + Count(Own, o)
      BY <1>1 DEF Good, Balance
    <3>3. Count(Own', o) = Count(Own, o) + One(o, h) - One(o, Own[p])
      BY <1>1, <1>3, OwnersChange
    <3>4. refs'[o] = refs[o] + One(o, h) - One(o, Own[p])
      BY <1>1, <1>3 DEF One
    <3>5. One(o, h) \in Int /\ One(o, Own[p]) \in Int
      BY DEF One
    <3>6. Count(Own, o) \in Nat /\ loose[o] \in Nat /\ leaked[o] \in Nat /\ refs[o] \in Nat
      BY <1>1, CountType DEF TypeOK
    <3> QED BY <1>1, <3>2, <3>3, <3>4, <3>5, <3>6
  <2>2. Frames' /\ Stacked' /\ ~fault'
    <3>1. ASSUME NEW o \in InFlight
          PROVE  refs'[o] > 0 /\ (loose[o] > 0 => loose'[o] > 0)
      <4>1. o \in Object /\ refs[o] > 0 /\ refs[o] \in Nat
        BY <1>1, InFlightLives DEF TypeOK
      <4>2. o = ptr[p] => o = h
        BY <1>1, <1>9, <4>1, PointerAssumption
      <4> QED BY <1>1, <4>1, <4>2
    <3>2. \A r \in Busy \cap Pointer : ptr'[r] = ptr[r]
      BY <1>1, <1>2 DEF TypeOK
    <3> QED BY <1>1, <3>1, <3>2, FramesKept
  <2>3. Spare' = Spare
    BY <1>1 DEF Spare
  <2>4. Both
    BY <1>1, <1>7, <1>9, <2>1 DEF Both, Good
  <2>5. Owning!Next
    BY <1>3, <1>4, <2>3, <2>4, PointStep
  <2> QED BY <1>7, <2>1, <2>2, <2>5 DEF Inv, Good
<1> QED BY <1>8, <1>9

-----------------------------------------------------------------------------
(* Objects.                                                                *)

(* Steps in which no pointer is changed.                                   *)
LEMMA ObjectStep ==
  ASSUME Inv, ~careless, ~careless', TypeOK', UNCHANGED <<ptr, at, stack, fault>>,
         \A o \in Object :
           refs'[o] - loose'[o] - leaked'[o] = refs[o] - loose[o] - leaked[o],
         \A o \in InFlight : refs'[o] > 0 /\ (loose[o] > 0 => loose'[o] > 0)
  PROVE  Good' /\ Own' = Own
<1>1. TypeOK /\ Good
  BY DEF Inv
<1>2. Own' = Own
  BY DEF Own, Owns
<1>3. Balance(Own, refs, loose)'
  <2>1. SUFFICES ASSUME NEW o \in Object
                 PROVE  refs'[o] = loose'[o] + leaked'[o] + Count(Own', o)
    BY DEF Balance
  <2>2. refs[o] = loose[o] + leaked[o] + Count(Own, o)
    BY <1>1 DEF Good, Balance
  <2>3. Count(Own, o) \in Nat
    BY CountType
  <2> QED BY <1>1, <1>2, <2>2, <2>3 DEF TypeOK
<1>4. Frames' /\ Stacked' /\ ~fault'
  BY <1>1, FramesKept
<1> QED BY <1>2, <1>3, <1>4 DEF Good

LEMMA CreateKeeps ==
  ASSUME Inv, NEW o \in Object, Create(o)
  PROVE  Inv' /\ Owning!Next
<1>1. /\ TypeOK /\ Good /\ ~careless /\ ~careless' /\ refs[o] = 0
      /\ refs' = [refs EXCEPT ![o] = 1] /\ loose' = [loose EXCEPT ![o] = 1]
      /\ UNCHANGED <<ptr, leaked, at, stack, careless, fault>>
  BY DEF Create, Acts, Inv
<1>2. TypeOK'
  BY <1>1 DEF TypeOK
<1>3. loose[o] = 0 /\ leaked[o] = 0
  <2>1. refs[o] = loose[o] + leaked[o] + Count(Own, o)
    BY <1>1 DEF Good, Balance
  <2>2. Count(Own, o) \in Nat
    BY CountType
  <2> QED BY <1>1, <2>1, <2>2 DEF TypeOK
<1>4. Good' /\ Own' = Own
  <2>1. \A q \in Object :
          refs'[q] - loose'[q] - leaked'[q] = refs[q] - loose[q] - leaked[q]
    BY <1>1, <1>3 DEF TypeOK
  <2>2. \A q \in InFlight : refs'[q] > 0 /\ (loose[q] > 0 => loose'[q] > 0)
    BY <1>1, InFlightLives DEF TypeOK
  <2> QED BY <1>1, <1>2, <2>1, <2>2, ObjectStep
<1>5. Spare' = [Spare EXCEPT ![o] = 1]
  <2>1. loose'[o] + leaked'[o] = 1
    BY <1>1, <1>3 DEF TypeOK
  <2>2. \A q \in Object \ {o} : loose'[q] = loose[q] /\ leaked'[q] = leaked[q]
    BY <1>1 DEF TypeOK
  <2> QED BY <2>1, <2>2, SpareChange
<1>6. Live' = Live \cup {o} /\ o \notin Live
  BY <1>1 DEF Live, TypeOK
<1>7. Owning!Create(o)
  BY <1>4, <1>5, <1>6 DEF Owning!Create, Live, Spare, Own
<1> QED BY <1>1, <1>2, <1>4, <1>7 DEF Inv, Owning!Next, Owning!Owners

LEMMA DropReferenceKeeps ==
  ASSUME Inv, NEW o \in Object, DropReference(o)
  PROVE  Inv' /\ Owning!Next
<1>1. /\ TypeOK /\ Good /\ ~careless /\ loose[o] > 0
      /\ refs' = [refs EXCEPT ![o] = @ - 1] /\ loose' = [loose EXCEPT ![o] = @ - 1]
      /\ UNCHANGED <<ptr, leaked, at, stack, fault>>
      /\ careless' = (o \in InFlight)
  BY DEF DropReference, Acts, CarelessIf, Inv
<1>2. refs[o] > 0
  BY <1>1, HasOwnerLives
<1>3. TypeOK'
  BY <1>1, <1>2 DEF TypeOK
<1>4. CASE careless'
  BY <1>3, <1>4 DEF Inv, Owning!Next
<1>5. CASE ~careless'
  <2>1. Good' /\ Own' = Own
    <3>1. \A q \in Object :
            refs'[q] - loose'[q] - leaked'[q] = refs[q] - loose[q] - leaked[q]
      BY <1>1, <1>2 DEF TypeOK
    <3>2. \A q \in InFlight : refs'[q] > 0 /\ (loose[q] > 0 => loose'[q] > 0)
      BY <1>1, <1>5, InFlightLives DEF TypeOK
    <3> QED BY <1>1, <1>3, <1>5, <3>1, <3>2, ObjectStep
  <2>2. Spare \in [Object -> Nat] /\ Spare[o] > 0
        /\ Spare' = [Spare EXCEPT ![o] = @ - 1]
    <3>1. Spare \in [Object -> Nat] /\ Spare[o] > 0
          /\ loose'[o] + leaked'[o] = Spare[o] - 1
      BY <1>1 DEF Spare, TypeOK
    <3>2. \A q \in Object \ {o} : loose'[q] = loose[q] /\ leaked'[q] = leaked[q]
      BY <1>1 DEF TypeOK
    <3> QED BY <3>1, <3>2, SpareChange
  <2>3. \A q \in Object : HasOwner(q)' => HasOwner(q)
    BY <2>1, <2>2 DEF HasOwner
  <2>4. Owning!Survive
    BY <1>1, <1>3, <2>1, <2>3, Survival DEF Good
  <2>5. Owning!Drop(o)
    BY <2>1, <2>2, <2>4 DEF Owning!Drop, Spare, Own
  <2> QED BY <1>1, <1>3, <1>5, <2>1, <2>5 DEF Inv, Owning!Next, Owning!Owners
<1> QED BY <1>4, <1>5

LEMMA CastKeeps ==
  ASSUME Inv, NEW o \in Object, NEW fails \in BOOLEAN, Cast(o, fails)
  PROVE  Inv' /\ Owning!Next
<1>1. /\ TypeOK /\ Good /\ ~careless /\ ~careless' /\ loose[o] > 0
      /\ refs' = [refs EXCEPT ![o] = @ + 1]
      /\ UNCHANGED <<ptr, at, stack, careless, fault>>
  BY DEF Cast, Acts, Inv
<1>2. /\ loose' \in [Object -> Nat] /\ leaked' \in [Object -> Nat]
      /\ loose'[o] >= loose[o]
      /\ loose'[o] + leaked'[o] = loose[o] + leaked[o] + 1
      /\ \A q \in Object \ {o} : loose'[q] = loose[q] /\ leaked'[q] = leaked[q]
  <2>1. loose \in [Object -> Nat] /\ leaked \in [Object -> Nat]
    BY <1>1 DEF TypeOK
  <2>2. CASE fails
    <3>1. leaked' = [leaked EXCEPT ![o] = @ + 1] /\ loose' = loose
      BY <2>2 DEF Cast
    <3> QED BY <2>1, <3>1
  <2>3. CASE ~fails
    <3>1. loose' = [loose EXCEPT ![o] = @ + 1] /\ leaked' = leaked
      BY <2>3 DEF Cast
    <3> QED BY <2>1, <3>1
  <2> QED BY <2>2, <2>3
<1>3. TypeOK'
  <2>1. refs' \in [Object -> Nat]
    BY <1>1 DEF TypeOK
  <2>2. loose' \in [Object -> Nat] /\ leaked' \in [Object -> Nat]
    BY <1>2
  <2> QED BY <1>1, <2>1, <2>2 DEF TypeOK
<1>4. Good' /\ Own' = Own
  <2>1. \A q \in Object :
          refs'[q] - loose'[q] - leaked'[q] = refs[q] - loose[q] - leaked[q]
    <3>1. SUFFICES ASSUME NEW q \in Object
                   PROVE  refs'[q] - loose'[q] - leaked'[q] = refs[q] - loose[q] - leaked[q]
      OBVIOUS
    <3>2. /\ refs[q] \in Nat /\ loose[q] \in Nat /\ leaked[q] \in Nat
          /\ loose'[q] \in Nat /\ leaked'[q] \in Nat
      BY <1>1, <1>2 DEF TypeOK
    <3>3. refs'[q] = IF q = o THEN refs[q] + 1 ELSE refs[q]
      BY <1>1 DEF TypeOK
    <3>4. loose'[q] + leaked'[q]
            = IF q = o THEN loose[q] + leaked[q] + 1 ELSE loose[q] + leaked[q]
      BY <1>2
    <3> QED BY <3>2, <3>3, <3>4
  <2>2. \A q \in InFlight : refs'[q] > 0 /\ (loose[q] > 0 => loose'[q] > 0)
    <3>1. SUFFICES ASSUME NEW q \in InFlight
                   PROVE  refs'[q] > 0 /\ (loose[q] > 0 => loose'[q] > 0)
      OBVIOUS
    <3>2. q \in Object /\ refs[q] > 0
      BY <1>1, InFlightLives
    <3>3. refs[q] \in Nat /\ loose[q] \in Nat /\ loose'[q] \in Nat
      BY <1>1, <1>2, <3>2 DEF TypeOK
    <3>4. refs'[q] > 0
      BY <1>1, <3>2, <3>3 DEF TypeOK
    <3>5. loose'[q] >= loose[q]
      BY <1>2, <3>2, <3>3
    <3> QED BY <3>3, <3>4, <3>5
  <2> QED BY <1>1, <1>3, <2>1, <2>2, ObjectStep
<1>5. Spare' = [Spare EXCEPT ![o] = @ + 1]
  <2>1. loose'[o] + leaked'[o] = Spare[o] + 1
    BY <1>2 DEF Spare
  <2> QED BY <1>2, <2>1, SpareChange
<1>6. Live' = Live /\ o \in Live
  BY <1>1, HasOwnerLives DEF Live, TypeOK
<1>7. Owning!Share(o)
  BY <1>4, <1>5, <1>6 DEF Owning!Share, Live, Spare, Own
<1> QED BY <1>1, <1>3, <1>4, <1>7 DEF Inv, Owning!Next, Owning!Owners

-----------------------------------------------------------------------------
(* The end of a destructor, and the whole.                                 *)

(* Popping the innermost of the pointers that are being assigned.          *)
LEMMA StackPopped ==
  ASSUME TypeOK, Stacked, stack # <<>>, stack' = Tail(stack),
         at' = [at EXCEPT ![Head(stack)] = Idle]
  PROVE  Head(stack) \in Assigned /\ Stacked'
<1> DEFINE p == Head(stack)
<1>1. /\ stack \in Seq(Pointer) /\ at \in [Pointer -> Assignment]
      /\ Len(stack) \in Nat /\ Len(stack) >= 1
      /\ p = stack[1] /\ p \in Pointer
  BY DEF TypeOK
<1>2. Len(stack') = Len(stack) - 1 /\ \A k \in 1..Len(stack') : stack'[k] = stack[k + 1]
  BY <1>1
<1>3. p \in Assigned
  BY <1>1 DEF Stacked
<1>4. Assigned' = Assigned \ {p}
  BY <1>1 DEF Assigned
<1> HIDE DEF p
<1>5. ASSUME NEW r \in Pointer
      PROVE  r \in Assigned' <=> \E k \in 1..Len(stack') : stack'[k] = r
  <2>1. ASSUME r \in Assigned'
        PROVE  \E k \in 1..Len(stack') : stack'[k] = r
    <3>1. PICK k \in 1..Len(stack) : stack[k] = r
      BY <1>4, <2>1 DEF Stacked
    <3>2. k # 1
      BY <1>1, <1>4, <2>1, <3>1
    <3>3. k - 1 \in 1..Len(stack') /\ stack'[k - 1] = r
      BY <1>1, <1>2, <3>1, <3>2
    <3> QED BY <3>3
  <2>2. ASSUME NEW k \in 1..Len(stack'), stack'[k] = r
        PROVE  r \in Assigned'
    <3>1. k + 1 \in 1..Len(stack) /\ stack[k + 1] = r
      BY <1>1, <1>2, <2>2
    <3>2. r # p
      BY <1>1, <3>1 DEF Stacked
    <3> QED BY <1>4, <3>1, <3>2 DEF Stacked
  <2> QED BY <2>1, <2>2
<1>6. ASSUME NEW k \in 1..Len(stack'), NEW l \in 1..Len(stack'), stack'[k] = stack'[l]
      PROVE  k = l
  <2>1. k + 1 \in 1..Len(stack) /\ l + 1 \in 1..Len(stack) /\ stack[k + 1] = stack[l + 1]
    BY <1>1, <1>2, <1>6
  <2>2. k + 1 = l + 1
    BY <2>1 DEF Stacked
  <2> QED BY <1>1, <1>2, <2>2
<1>7. Stacked'
  BY <1>5, <1>6 DEF Stacked
<1> QED BY <1>3, <1>7 DEF p

LEMMA DestructorReturnsKeeps ==
  ASSUME Inv, DestructorReturns
  PROVE  Inv' /\ Owning!Next
<1> DEFINE p == Head(stack)
           f == at[p]
<1>1. /\ TypeOK /\ careless \in BOOLEAN /\ careless' = careless
      /\ Completes(p, f, refs) /\ stack # <<>> /\ stack' = Tail(stack)
      /\ at' = [at EXCEPT ![p] = Idle] /\ leaked' = leaked
      /\ p \in Pointer /\ f \in Assignment
  BY DEF DestructorReturns, Inv, TypeOK
<1>2. TypeOK'
  <2>1. /\ ptr' \in [Pointer -> Object \cup {Null}]
        /\ refs' \in [Object -> Nat] /\ loose' \in [Object -> Nat]
        /\ fault' \in BOOLEAN
    <3>1. refs \in [Object -> Nat]
      BY <1>1 DEF TypeOK
    <3> HIDE DEF p, f
    <3> QED BY <1>1, <3>1, CompletesType
  <2>2. at' \in [Pointer -> Assignment] /\ stack' \in Seq(Pointer)
    BY <1>1 DEF TypeOK, Assignment, Idle
  <2> QED BY <1>1, <2>1, <2>2 DEF TypeOK
<1>3. CASE careless
  BY <1>1, <1>2, <1>3 DEF Inv, Owning!Next
<1>4. CASE ~careless
  <2>1. Good
    BY <1>4 DEF Inv
  <2>2. p \in Assigned /\ Stacked'
    BY <1>1, <2>1, StackPopped DEF Good
  <2>3. Ready(p, f, refs)
    <3>1. [Own EXCEPT ![p] = Null] = Own
      BY <1>1, <2>2 DEF Own, Owns, Assigned
    <3>2. refs \in [Object -> Nat]
      BY <1>1 DEF TypeOK
    <3> QED BY <1>1, <2>1, <2>2, <3>1, <3>2 DEF Ready, Good, Frames
  <2>4. Ending(p, f, refs)
    BY <1>1 DEF Ending
  <2>5. \A o \in Object : refs[o] >= refs[o]
    BY <1>1 DEF TypeOK
  <2>6. Good' /\ Owning!Next
    <3> HIDE DEF p, f
    <3> QED BY <1>1, <1>2, <1>4, <2>1, <2>2, <2>3, <2>4, <2>5, EndingGood
  <2> QED BY <1>2, <2>6 DEF Inv
<1> QED BY <1>3, <1>4

(* At first nothing is owned.                                              *)
LEMMA InitInv ==
  ASSUME Init
  PROVE  Inv /\ Owning!Init
<1>1. TypeOK
  <2>1. Idle \in Assignment
    BY DEF Idle, Assignment
  <2>2. <<>> \in Seq(Pointer)
    OBVIOUS
  <2> QED BY <2>1, <2>2 DEF Init, TypeOK
<1>2. Own = [p \in Pointer |-> Null] /\ Assigned = {}
  BY DEF Init, Own, Owns, Assigned
<1>3. Balance(Own, refs, loose)
  <2>1. SUFFICES ASSUME NEW o \in Object
                 PROVE  refs[o] = loose[o] + leaked[o] + Count(Own, o)
    BY DEF Balance
  <2>2. Count(Own, o) \in Nat /\ ~(Count(Own, o) > 0)
    BY <1>2, CountType, CountPositive, PointerAssumption
  <2> QED BY <2>2 DEF Init
<1>4. Frames /\ Stacked
  BY <1>2 DEF Frames, Stacked, Init
<1>5. Owning!Init
  BY <1>2 DEF Owning!Init, Init, Own
<1> QED BY <1>1, <1>3, <1>4, <1>5 DEF Inv, Good, Init

(* Every step keeps the invariant and is a step of Ownership, or changes   *)
(* nothing.                                                                *)
LEMMA NextKeeps ==
  ASSUME Inv, Next
  PROVE  Inv' /\ Owning!Next
<1>1. CASE DestructorReturns
  BY <1>1, DestructorReturnsKeeps
<1>2. ASSUME NEW p \in Pointer, NEW x \in Object,
             Set(p, x) \/ SetOwned(p, x) \/ AssignObject(p, x)
      PROVE  Inv' /\ Owning!Next
  BY <1>2, SetKeeps, SetOwnedKeeps DEF AssignObject
<1>3. ASSUME NEW p \in Pointer, NEW x \in Object \cup {Null},
             SetContextResultHandler(p, x)
      PROVE  Inv' /\ Owning!Next
  BY <1>3, SetContextResultHandlerKeeps
<1>4. ASSUME NEW p \in Pointer, NEW q \in Pointer, Copy(p, q) \/ Move(p, q)
      PROVE  Inv' /\ Owning!Next
  BY <1>4, CopyKeeps, MoveKeeps
<1>5. ASSUME NEW p \in Pointer, Reset(p) \/ ReleaseOwnership(p)
      PROVE  Inv' /\ Owning!Next
  BY <1>5, SetKeeps, ReleaseOwnershipKeeps DEF Reset
<1>6. ASSUME NEW o \in Object, Create(o) \/ DropReference(o)
      PROVE  Inv' /\ Owning!Next
  BY <1>6, CreateKeeps, DropReferenceKeeps
<1>7. ASSUME NEW o \in Object, NEW fails \in BOOLEAN, Cast(o, fails)
      PROVE  Inv' /\ Owning!Next
  BY <1>7, CastKeeps
<1> QED BY <1>1, <1>2, <1>3, <1>4, <1>5, <1>6, <1>7 DEF Next

LEMMA StutterKeeps ==
  ASSUME Inv, UNCHANGED vars
  PROVE  Inv' /\ UNCHANGED Owning!vars
<1>1. TypeOK'
  BY DEF Inv, TypeOK, vars
<1>2. Own' = Own /\ Assigned' = Assigned
  BY DEF Own, Owns, Assigned, vars
<1>3. Good => Good'
  BY <1>2 DEF Good, Balance, Frames, Stacked, Sound, Apart, vars
<1>4. UNCHANGED Owning!vars
  BY <1>2 DEF Owning!vars, Own, vars
<1> QED BY <1>1, <1>3, <1>4 DEF Inv, vars

LEMMA Invariant == Spec => []Inv
<1>1. Init => Inv
  BY InitInv
<1>2. Inv /\ [Next]_vars => Inv'
  BY NextKeeps, StutterKeeps
<1> QED BY <1>1, <1>2, PTL DEF Spec

(* The variables have their types, however careless the uses are.          *)
THEOREM TypeCorrect == Spec => []TypeOK
<1>1. Inv => TypeOK
  BY DEF Inv
<1> QED BY <1>1, Invariant, PTL

(* Counts agree with the owners, also while destructors that use pointers  *)
(* run in the middle of assignments (SetRefPointer, SetObjPointer), unless *)
(* somebody was careless.                                                  *)
THEOREM Balanced == Spec => []RefsBalanced
<1>1. Inv => RefsBalanced
  BY DEF Inv, Good, Balance, Count, Own, RefsBalanced, PointersTo
<1> QED BY <1>1, Invariant, PTL

(* No deleted object is released, assigned or added to.                    *)
THEOREM Safe == Spec => []NoFault
<1>1. Inv => NoFault
  BY DEF Inv, Good, NoFault
<1> QED BY <1>1, Invariant, PTL

(* Counting references implements Ownership: objects live exactly as long  *)
(* as they are owned.                                                      *)
THEOREM Refinement == Spec => Implements
<1>1. Init => Owning!Init
  BY InitInv
<1>2. Inv /\ [Next]_vars => [Owning!Next]_(Owning!vars)
  BY NextKeeps, StutterKeeps
<1> QED BY <1>1, <1>2, Invariant, PTL DEF Spec, Implements, Owning!Spec

=============================================================================
