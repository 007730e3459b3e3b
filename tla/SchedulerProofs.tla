-------------------------- MODULE SchedulerProofs --------------------------
(***************************************************************************)
(* Proofs about Scheduler, for every set of timers, delays, counts and     *)
(* bounds.                                                                 *)
(***************************************************************************)
EXTENDS Scheduler, FiniteSetTheorems, TLAPS

-----------------------------------------------------------------------------
(* Walking a list.                                                         *)

(* A walk meets timers only. *)
LEMMA ReachTimers ==
  ASSUME NEW links, NEW first
  PROVE  ReachIn(links, first) \subseteq Timer
BY DEF ReachIn

(* A walk meets the timer it starts at. *)
LEMMA ReachFirst ==
  ASSUME NEW links, NEW first \in Timer
  PROVE  first \in ReachIn(links, first)
BY TimerAssumption DEF ReachIn

(* A walk that meets a timer goes on to the one behind it. *)
LEMMA ReachNext ==
  ASSUME NEW links, NEW first, NEW t \in ReachIn(links, first),
         links[t] \in Timer
  PROVE  links[t] \in ReachIn(links, first)
BY TimerAssumption DEF ReachIn

(* A walk stays in every set that holds its start and is closed.           *)
LEMMA ReachWithin ==
  ASSUME NEW links, NEW first, NEW S \in SUBSET Timer,
         first = NoTimer \/ first \in S,
         \A s \in S : links[s] = NoTimer \/ links[s] \in S
  PROVE  ReachIn(links, first) \subseteq S
BY DEF ReachIn

(* A walk of the null pointer meets nothing. *)
LEMMA ReachNothing ==
  ASSUME NEW links
  PROVE  ReachIn(links, NoTimer) = {}
<1> DEFINE S == {}
<1>1. /\ S \in SUBSET Timer
      /\ \A s \in S : links[s] = NoTimer \/ links[s] \in S
  OBVIOUS
<1> HIDE DEF S
<1>2. ReachIn(links, NoTimer) \subseteq S
  BY <1>1, ReachWithin
<1>3. QED
  BY <1>2 DEF S

(* Every timer a walk meets after its first was led to by one it met. *)
LEMMA ReachPred ==
  ASSUME NEW links \in [Timer -> Pointer], NEW first \in Pointer,
         NEW t \in ReachIn(links, first), t # first
  PROVE  \E p \in ReachIn(links, first) : links[p] = t
<1> DEFINE R == ReachIn(links, first)
           S == R \ {t}
<1>1. SUFFICES ASSUME \A p \in R : links[p] # t
               PROVE  FALSE
  OBVIOUS
<1>2. S \in SUBSET Timer
  BY ReachTimers
<1>3. first = NoTimer \/ first \in S
  BY ReachFirst DEF Pointer
<1>4. \A s \in S : links[s] = NoTimer \/ links[s] \in S
  BY <1>1, <1>2, ReachNext DEF Pointer
<1>5. R \subseteq S
  <2> HIDE DEF S
  <2>1. QED
    BY <1>2, <1>3, <1>4, ReachWithin
<1>6. QED
  BY <1>5

(* A walk depends on the links of the timers it meets, and on no others. *)
LEMMA ReachSame ==
  ASSUME NEW links \in [Timer -> Pointer], NEW newLinks \in [Timer -> Pointer],
         NEW first \in Pointer,
         \A t \in ReachIn(links, first) : newLinks[t] = links[t]
  PROVE  ReachIn(newLinks, first) = ReachIn(links, first)
<1> DEFINE R == ReachIn(links, first)
           N == ReachIn(newLinks, first)
           S == R \cap N
<1>1. R \in SUBSET Timer /\ N \in SUBSET Timer /\ S \in SUBSET Timer
  BY ReachTimers
<1>2. first = NoTimer \/ (first \in R /\ first \in N)
  BY ReachFirst DEF Pointer
<1>3. \A s \in R : links[s] = NoTimer \/ links[s] \in R
  BY <1>1, ReachNext DEF Pointer
<1>4. \A s \in N : newLinks[s] = NoTimer \/ newLinks[s] \in N
  BY <1>1, ReachNext DEF Pointer
<1> HIDE DEF R, N
<1>5. \A s \in R : newLinks[s] = links[s]
  BY DEF R
<1>6. N \subseteq R
  <2>1. \A s \in R : newLinks[s] = NoTimer \/ newLinks[s] \in R
    BY <1>3, <1>5
  <2>2. QED
    BY <1>1, <1>2, <2>1, ReachWithin DEF N
<1>7. R \subseteq S
  <2>1. \A s \in S : links[s] = NoTimer \/ links[s] \in S
    BY <1>3, <1>4, <1>5
  <2>2. first = NoTimer \/ first \in S
    BY <1>2
  <2> HIDE DEF S
  <2>3. QED
    BY <1>1, <2>1, <2>2, ReachWithin DEF R
<1>8. QED
  BY <1>6, <1>7 DEF R, N

(* At most one timer of T leads to each timer, and none to first. *)
Single(links, first, T) ==
  \A s \in T : links[s] # NoTimer =>
    links[s] # first /\ \A t \in T : links[t] = links[s] => t = s

(* Then no timer leads to itself: the walk would never get to it. *)
LEMMA NoSelfLoop ==
  ASSUME NEW links \in [Timer -> Pointer], NEW first \in Pointer,
         Single(links, first, ReachIn(links, first)),
         NEW t \in ReachIn(links, first)
  PROVE  links[t] # t
<1> DEFINE R == ReachIn(links, first)
           S == R \ {t}
<1>1. SUFFICES ASSUME links[t] = t
               PROVE  FALSE
  OBVIOUS
<1>2. R \in SUBSET Timer /\ S \in SUBSET Timer /\ t # NoTimer
  BY ReachTimers, TimerAssumption
<1>3. first = NoTimer \/ first \in S
  BY <1>1, <1>2, ReachFirst DEF Pointer, Single
<1>4. \A s \in S : links[s] = NoTimer \/ links[s] \in S
  BY <1>1, <1>2, ReachNext DEF Pointer, Single
<1>5. R \subseteq S
  <2> HIDE DEF S
  <2>1. QED
    BY <1>2, <1>3, <1>4, ReachWithin
<1>6. QED
  BY <1>5

(* And the list has an end: links that lead from each of finitely many     *)
(* timers to another, but never to the first, would lead from two of them  *)
(* to the same.                                                            *)
LEMMA ListEnds ==
  ASSUME NEW links \in [Timer -> Pointer], NEW first \in Timer,
         Single(links, first, ReachIn(links, first))
  PROVE  \E t \in ReachIn(links, first) : links[t] = NoTimer
<1> DEFINE S == ReachIn(links, first)
           T == S \ {first}
           f == [t \in S |-> links[t]]
<1>1. SUFFICES ASSUME \A t \in S : links[t] # NoTimer
               PROVE  FALSE
  OBVIOUS
<1>2. S \in SUBSET Timer /\ first \in S
  BY ReachTimers, ReachFirst
<1>3. IsFiniteSet(S) /\ IsFiniteSet(T) /\ Cardinality(T) = Cardinality(S) - 1
  <2>1. IsFiniteSet(S)
    BY <1>2, FS_Subset, TimerAssumption
  <2>2. QED
    BY <1>2, <2>1, FS_RemoveElement
<1>4. f \in [S -> T]
  <2>1. ASSUME NEW t \in S PROVE links[t] \in T
    <3>1. links[t] \in Timer /\ links[t] # first
      BY <1>1, <1>2 DEF Pointer, Single
    <3>2. QED
      BY <3>1, ReachNext
  <2>2. QED
    BY <2>1
<1>5. Cardinality(T) < Cardinality(S)
  BY <1>3, FS_CardinalityType
<1>6. PICK x \in S, y \in S : x # y /\ f[x] = f[y]
  <2> HIDE DEF S, T, f
  <2>1. QED
    BY <1>3, <1>4, <1>5, FS_PigeonHole
<1>7. QED
  BY <1>1, <1>6 DEF Single

(* Taking a timer out of a list leaves exactly the others in it.           *)
LEMMA ReachUnlink ==
  ASSUME NEW links \in [Timer -> Pointer], NEW first \in Pointer,
         Single(links, first, ReachIn(links, first)),
         NEW t \in ReachIn(links, first),
         NEW pred \in ReachIn(links, first), links[pred] = t,
         NEW new \in [Timer -> Pointer],
         \A s \in ReachIn(links, first) \ {t} :
           new[s] = IF s = pred THEN links[t] ELSE links[s]
  PROVE  ReachIn(new, first) = ReachIn(links, first) \ {t}
<1> DEFINE R == ReachIn(links, first)
           N == ReachIn(new, first)
           S == R \ {t}
           U == N \cup {t}
<1>1. /\ R \in SUBSET Timer /\ N \in SUBSET Timer
      /\ S \in SUBSET Timer /\ U \in SUBSET Timer
      /\ t # NoTimer
  BY ReachTimers, TimerAssumption
<1>2. /\ first = NoTimer \/ (first \in S /\ first \in N)
      /\ \A s \in R : links[s] = NoTimer \/ links[s] \in R
  BY <1>1, ReachFirst, ReachNext DEF Pointer, Single
<1>4. \A s \in N : new[s] = NoTimer \/ new[s] \in N
  BY <1>1, ReachNext DEF Pointer
<1>5. links[t] # t
  BY NoSelfLoop
<1>6. \A s \in S : new[s] = IF s = pred THEN links[t] ELSE links[s]
  OBVIOUS
<1>7. Single(links, first, R)
  OBVIOUS
<1> HIDE DEF R, N
<1>8. N \subseteq S
  <2>1. \A s \in S : new[s] = NoTimer \/ new[s] \in S
    BY <1>1, <1>2, <1>5, <1>6, <1>7 DEF Single, R
  <2> HIDE DEF S
  <2>2. QED
    BY <1>1, <1>2, <2>1, ReachWithin DEF N
<1>9. pred \in N
  <2>1. SUFFICES ASSUME pred \notin N
                 PROVE  FALSE
    OBVIOUS
  <2>2. \A s \in N : links[s] = NoTimer \/ links[s] \in N
    BY <1>1, <1>4, <1>6, <1>8, <2>1
  <2>3. R \subseteq N
    BY <1>1, <1>2, <2>2, ReachWithin DEF R
  <2>4. QED
    BY <2>1, <2>3 DEF R
<1>10. R \subseteq U
  <2>1. \A s \in U : links[s] = NoTimer \/ links[s] \in U
    BY <1>1, <1>4, <1>6, <1>7, <1>8, <1>9
  <2>2. first = NoTimer \/ first \in U
    BY <1>2
  <2> HIDE DEF U
  <2>3. QED
    BY <1>1, <2>1, <2>2, ReachWithin DEF R
<1>11. QED
  BY <1>8, <1>10 DEF R, N

(* The same when it is the first. *)
LEMMA ReachBehead ==
  ASSUME NEW links \in [Timer -> Pointer], NEW first \in Timer,
         Single(links, first, ReachIn(links, first))
  PROVE  ReachIn(links, links[first]) = ReachIn(links, first) \ {first}
<1> DEFINE R == ReachIn(links, first)
           N == ReachIn(links, links[first])
           S == R \ {first}
           U == N \cup {first}
<1>1. /\ R \in SUBSET Timer /\ N \in SUBSET Timer
      /\ S \in SUBSET Timer /\ U \in SUBSET Timer
      /\ first \in R
  BY ReachTimers, ReachFirst
<1>2. /\ \A s \in R : links[s] = NoTimer \/ links[s] \in R
      /\ \A s \in N : links[s] = NoTimer \/ links[s] \in N
  BY <1>1, ReachNext DEF Pointer
<1>3. links[first] = NoTimer \/ (links[first] \in N /\ links[first] \in S)
  BY <1>1, <1>2, ReachFirst DEF Pointer, Single
<1>4. Single(links, first, R)
  OBVIOUS
<1> HIDE DEF R, N
<1>5. N \subseteq S
  <2>1. \A s \in S : links[s] = NoTimer \/ links[s] \in S
    BY <1>2, <1>4 DEF Single
  <2> HIDE DEF S
  <2>2. QED
    BY <1>1, <1>3, <2>1, ReachWithin DEF N
<1>6. R \subseteq U
  <2>1. \A s \in U : links[s] = NoTimer \/ links[s] \in U
    BY <1>2, <1>3
  <2>2. first \in U
    OBVIOUS
  <2> HIDE DEF U
  <2>3. QED
    BY <1>1, <2>1, <2>2, ReachWithin DEF R
<1>7. QED
  BY <1>5, <1>6 DEF R, N

(* A timer put before a list it is not in heads the longer list.           *)
LEMMA ReachPush ==
  ASSUME NEW links \in [Timer -> Pointer], NEW first \in Pointer,
         NEW t \in Timer, t \notin ReachIn(links, first),
         NEW new \in [Timer -> Pointer], new[t] = first,
         \A s \in ReachIn(links, first) : new[s] = links[s]
  PROVE  ReachIn(new, t) = ReachIn(links, first) \cup {t}
<1> DEFINE R == ReachIn(links, first)
           N == ReachIn(new, t)
           U == R \cup {t}
<1>1. R \in SUBSET Timer /\ N \in SUBSET Timer /\ U \in SUBSET Timer
  BY ReachTimers
<1>2. first = NoTimer \/ first \in R
  BY ReachFirst DEF Pointer
<1>3. t \in N
  BY ReachFirst
<1>4. /\ \A s \in R : links[s] = NoTimer \/ links[s] \in R
      /\ \A s \in N : new[s] = NoTimer \/ new[s] \in N
  BY <1>1, <1>3, ReachNext DEF Pointer
<1>5. new[t] = first /\ \A s \in R : new[s] = links[s]
  OBVIOUS
<1>6. t \notin R
  OBVIOUS
<1> HIDE DEF R, N
<1>7. N \subseteq U
  <2>1. \A s \in U : new[s] = NoTimer \/ new[s] \in U
    BY <1>1, <1>2, <1>4, <1>5
  <2>2. t \in U
    OBVIOUS
  <2> HIDE DEF U
  <2>3. QED
    BY <1>1, <2>1, <2>2, ReachWithin DEF N
<1>8. R \subseteq N
  <2> DEFINE S == R \cap N
  <2>1. first = NoTimer \/ first \in S
    BY <1>2, <1>3, <1>4, <1>5
  <2>2. \A s \in S : links[s] = NoTimer \/ links[s] \in S
    BY <1>1, <1>4, <1>5, <1>6
  <2>3. S \in SUBSET Timer
    BY <1>1
  <2> HIDE DEF S
  <2>4. R \subseteq S
    BY <2>1, <2>2, <2>3, ReachWithin DEF R
  <2>5. QED
    BY <2>4 DEF S
<1>9. QED
  BY <1>3, <1>7, <1>8 DEF R, N

(* Linking one list behind the last timer of another joins them.           *)
LEMMA ReachJoin ==
  ASSUME NEW links \in [Timer -> Pointer], NEW first \in Pointer,
         NEW second \in Timer,
         NEW last \in ReachIn(links, first), links[last] = NoTimer,
         last \notin ReachIn(links, second),
         NEW new \in [Timer -> Pointer],
         \A s \in ReachIn(links, first) \cup ReachIn(links, second) :
           new[s] = IF s = last THEN second ELSE links[s]
  PROVE  ReachIn(new, first) = ReachIn(links, first) \cup ReachIn(links, second)
<1> DEFINE R == ReachIn(links, first)
           Q == ReachIn(links, second)
           N == ReachIn(new, first)
           U == R \cup Q
<1>1. /\ R \in SUBSET Timer /\ Q \in SUBSET Timer
      /\ N \in SUBSET Timer /\ U \in SUBSET Timer
  BY ReachTimers
<1>2. second \in Q
  BY ReachFirst
<1>3. first = NoTimer \/ (first \in R /\ first \in N)
  BY ReachFirst DEF Pointer
<1>4. /\ \A s \in R : links[s] = NoTimer \/ links[s] \in R
      /\ \A s \in Q : links[s] = NoTimer \/ links[s] \in Q
      /\ \A s \in N : new[s] = NoTimer \/ new[s] \in N
  BY <1>1, <1>2, ReachNext DEF Pointer
<1>5. \A s \in U : new[s] = IF s = last THEN second ELSE links[s]
  OBVIOUS
<1>6. /\ last \in R /\ last \notin Q /\ second # NoTimer
      /\ links[last] = NoTimer
  BY TimerAssumption
<1> HIDE DEF R, Q, N
<1>7. N \subseteq U
  <2>1. \A s \in U : new[s] = NoTimer \/ new[s] \in U
    BY <1>1, <1>2, <1>4, <1>5
  <2>2. first = NoTimer \/ first \in U
    BY <1>3
  <2> HIDE DEF U
  <2>3. QED
    BY <1>1, <2>1, <2>2, ReachWithin DEF N
<1>8. \A s \in N : links[s] = NoTimer \/ links[s] \in N
  BY <1>1, <1>4, <1>5, <1>6, <1>7
<1>9. R \subseteq N
  BY <1>1, <1>3, <1>8, ReachWithin DEF R
<1>10. Q \subseteq N
  <2>1. second \in N
    BY <1>1, <1>4, <1>5, <1>6, <1>7, <1>9
  <2>2. QED
    BY <1>1, <1>8, <2>1, ReachWithin DEF Q
<1>11. QED
  BY <1>7, <1>9, <1>10 DEF R, Q, N

(* In a state of SafeInv the links of the main list are single. *)
LEMMA MainSingle ==
  ASSUME TypeOK, ListsHoldTimers, OneWayIn
  PROVE  Single(next, head, Reach(head))
BY DEF TypeOK, ListsHoldTimers, OneWayIn, Single

(* So walking the main list to its end is safe. *)
LEMMA WalkIsSafe ==
  ASSUME TypeOK, ListsHoldTimers, OneWayIn, RefsCover
  PROVE  WalkFault = "none"
<1>1. \A t \in Reach(head) : ~Free(t)
  BY DEF ListsHoldTimers, RefsCover, Free, TypeOK
<1>2. ASSUME head # NoTimer
      PROVE  \E t \in Reach(head) : next[t] = NoTimer
  BY <1>2, MainSingle, ListEnds DEF TypeOK, Pointer, Reach
<1>3. QED
  BY <1>1, <1>2 DEF WalkFault

-----------------------------------------------------------------------------
(* Type correctness.                                                       *)

LEMMA InitTypeOK == Init => TypeOK
<1>1. NoTiming \in [nextCall : Int, repeatTime : Nat, count : Int]
  BY DEF NoTiming
<1> SUFFICES ASSUME Init PROVE TypeOK
  OBVIOUS
<1>2. timing \in [Timer -> [nextCall : Int, repeatTime : Nat, count : Int]]
  BY <1>1 DEF Init
<1>3. 0 \in 0..MaxTime
  BY BoundsAssumption
<1>4. /\ removed \in [Timer -> BOOLEAN] /\ held \in [Timer -> BOOLEAN]
      /\ thinking \in BOOLEAN /\ shouldRemove \in BOOLEAN
  BY DEF Init
<1>5. /\ next \in [Timer -> Pointer] /\ refs \in [Timer -> Nat]
      /\ {head, thinkHead, current, pLast, pNext, pNextNext} \subseteq Pointer
  BY DEF Init, Pointer
<1>6. /\ lastTime \in 0..MaxTime /\ clock \in 0..MaxTime
      /\ pc \in {"idle", "iterate", "calling"}
      /\ fault \in {"none", "useAfterFree", "nullFunction", "endlessWalk"}
      /\ called \subseteq Timer /\ requested \subseteq Timer
  BY <1>3 DEF Init
<1>7. QED
  BY <1>2, <1>4, <1>5, <1>6 DEF TypeOK

(* What RemoveFunction does to the types, whoever calls it. *)
LEMMA RemoveFunctionType ==
  ASSUME TypeOK, NEW pred \in Pointer, NEW t \in Timer, ~Free(t),
         NEW gained \in Nat, RemoveFunction(pred, t, gained)
  PROVE  /\ head' \in Pointer
         /\ next' \in [Timer -> Pointer]
         /\ refs' \in [Timer -> Nat]
         /\ removed' \in [Timer -> BOOLEAN]
         /\ timing' \in [Timer -> [nextCall : Int, repeatTime : Nat, count : Int]]
<1>1. refs' \in [Timer -> Nat]
  <2>1. refs \in [Timer -> Nat] /\ refs[t] # 0
    BY DEF TypeOK, Free
  <2>2. refs[t] - 1 + gained \in Nat
    BY <2>1
  <2>3. QED
    BY <2>1, <2>2 DEF RemoveFunction
<1>2. removed' \in [Timer -> BOOLEAN]
  BY DEF RemoveFunction, TypeOK
<1>3. head' \in Pointer /\ next' \in [Timer -> Pointer]
  BY DEF RemoveFunction, Unlink, Scrubbed, TypeOK, Pointer
<1>4. timing' \in [Timer -> [nextCall : Int, repeatTime : Nat, count : Int]]
  BY DEF RemoveFunction, Scrubbed, NoTiming, TypeOK
<1>5. QED
  BY <1>1, <1>2, <1>3, <1>4

(* What the script does keeps the types. *)
LEMMA ScriptTypeOK ==
  ASSUME TypeOK, Script
  PROVE  TypeOK'
<1> USE DEF scheduler, timers, walk, ghosts
<1>1. ASSUME NEW t \in Timer, NEW delay \in Delays, NEW count \in Counts,
             NEW keep \in BOOLEAN, Schedule(t, delay, count, keep)
      PROVE  TypeOK'
  <2>1. delay \in Nat /\ count \in Int
    BY <1>1, DelaysAssumption, CountsAssumption DEF Schedule
  <2>2. timing' \in [Timer -> [nextCall : Int, repeatTime : Nat, count : Int]]
    BY <1>1, <2>1, BoundsAssumption DEF Schedule, TypeOK
  <2>3. refs' \in [Timer -> Nat] /\ next' \in [Timer -> Pointer]
    BY <1>1 DEF Schedule, TypeOK, Pointer
  <2>4. removed' \in [Timer -> BOOLEAN] /\ held' \in [Timer -> BOOLEAN]
    BY <1>1 DEF Schedule, TypeOK
  <2>5. {head, thinkHead, current, pLast, pNext, pNextNext}' \subseteq Pointer
    BY <1>1 DEF Schedule, TypeOK, Pointer
  <2>6. QED
    BY <1>1, <2>2, <2>3, <2>4, <2>5 DEF Schedule, TypeOK
<1>2. ASSUME NEW t \in Timer, UseStaleHandle(t)
      PROVE  TypeOK'
  BY <1>2 DEF UseStaleHandle, TypeOK
<1>3. ASSUME NEW t \in Timer, DropHandle(t)
      PROVE  TypeOK'
  <2>1. refs' \in [Timer -> Nat]
    BY <1>3 DEF DropHandle, HasHandle, Free, TypeOK
  <2>2. held' \in [Timer -> BOOLEAN]
    BY <1>3 DEF DropHandle, TypeOK
  <2>3. next' \in [Timer -> Pointer]
    BY <1>3 DEF DropHandle, Scrubbed, TypeOK, Pointer
  <2>4. timing' \in [Timer -> [nextCall : Int, repeatTime : Nat, count : Int]]
    BY <1>3 DEF DropHandle, Scrubbed, NoTiming, TypeOK
  <2>5. QED
    BY <1>3, <2>1, <2>2, <2>3, <2>4 DEF DropHandle, TypeOK
<1>4. ASSUME NEW t \in Timer, RemoveTimer(t)
      PROVE  TypeOK'
  <2>1. requested' \subseteq Timer
    BY <1>4 DEF RemoveTimer, TypeOK
  <2>2. CASE t \in Reach(head) /\ Executing(t)
    <3>1. refs' = [refs EXCEPT ![t] = @ + 1] /\ shouldRemove' = TRUE
      BY <1>4, <2>2 DEF RemoveTimer
    <3>2. refs' \in [Timer -> Nat]
      BY <3>1 DEF TypeOK
    <3>3. QED
      BY <1>4, <2>1, <2>2, <3>1, <3>2 DEF RemoveTimer, TypeOK
  <2>3. CASE t \in Reach(head) /\ ~Executing(t)
    <3>1. PICK pred \in Pointer : RemoveFunction(pred, t, 1)
      BY <1>4, <2>3, ReachTimers DEF RemoveTimer, Pointer, Reach
    <3>2. ~Free(t)
      BY <1>4 DEF RemoveTimer, HasHandle
    <3>3. /\ head' \in Pointer
          /\ next' \in [Timer -> Pointer]
          /\ refs' \in [Timer -> Nat]
          /\ removed' \in [Timer -> BOOLEAN]
          /\ timing' \in [Timer -> [nextCall : Int, repeatTime : Nat, count : Int]]
      BY <3>1, <3>2, RemoveFunctionType
    <3>4. QED
      BY <1>4, <2>1, <2>3, <3>3 DEF RemoveTimer, TypeOK
  <2>4. CASE t \notin Reach(head)
    <3>1. fault' \in {"none", "useAfterFree", "nullFunction", "endlessWalk"}
      BY <1>4, <2>4 DEF RemoveTimer, WalkFault
    <3>2. QED
      BY <1>4, <2>1, <2>4, <3>1 DEF RemoveTimer, TypeOK
  <2>5. QED
    BY <2>2, <2>3, <2>4
<1>5. CASE GetCurrentFunction
  <2>1. current \in Timer
    BY <1>5 DEF GetCurrentFunction, TypeOK, Pointer
  <2>2. refs' \in [Timer -> Nat] /\ held' \in [Timer -> BOOLEAN]
    <3>1. \/ refs' = refs /\ held' = held
          \/ /\ refs' = [refs EXCEPT ![current] = @ + 1]
             /\ held' = [held EXCEPT ![current] = TRUE]
      BY <1>5 DEF GetCurrentFunction, RefForReturn
    <3>2. refs' \in [Timer -> Nat]
      BY <2>1, <3>1 DEF TypeOK
    <3>3. held' \in [Timer -> BOOLEAN]
      BY <2>1, <3>1 DEF TypeOK
    <3>4. QED
      BY <3>2, <3>3
  <2>3. fault' \in {"none", "useAfterFree", "nullFunction", "endlessWalk"}
    BY <1>5 DEF GetCurrentFunction, TypeOK
  <2>4. QED
    BY <1>5, <2>2, <2>3 DEF GetCurrentFunction, TypeOK
<1>6. CASE ClearTimerList
  <2>1. fault' \in {"none", "useAfterFree", "nullFunction", "endlessWalk"}
    BY <1>6 DEF ClearTimerList, TypeOK
  <2>2. refs' \in [Timer -> Nat]
    <3>1. CASE WalkFault = "none"
      <4>1. \A t \in Reach(head) : ~Free(t)
        BY <3>1 DEF WalkFault
      <4>2. QED
        BY <1>6, <3>1, <4>1 DEF ClearTimerList, Free, TypeOK
    <3>2. CASE WalkFault # "none"
      BY <1>6, <3>2 DEF ClearTimerList, TypeOK
    <3>3. QED
      BY <3>1, <3>2
  <2>3. removed' \in [Timer -> BOOLEAN]
    BY <1>6 DEF ClearTimerList, TypeOK
  <2>4. next' \in [Timer -> Pointer]
    BY <1>6 DEF ClearTimerList, Scrubbed, TypeOK, Pointer
  <2>5. timing' \in [Timer -> [nextCall : Int, repeatTime : Nat, count : Int]]
    BY <1>6 DEF ClearTimerList, Scrubbed, NoTiming, TypeOK
  <2>6. head' \in Pointer
    BY <1>6 DEF ClearTimerList, TypeOK, Pointer
  <2>7. QED
    BY <1>6, <2>1, <2>2, <2>3, <2>4, <2>5, <2>6 DEF ClearTimerList, TypeOK
<1>7. ASSUME NEW t \in Timer,
             NEW new \in [nextCall : Int, repeatTime : Nat, count : Int],
             Amend(t, new)
      PROVE  TypeOK'
  BY <1>7 DEF Amend, TypeOK
<1>8. ASSUME NEW t \in Timer, NEW time \in Times, SetNextCallTime(t, time)
      PROVE  TypeOK'
  <2>1. [timing[t] EXCEPT !.nextCall = time]
          \in [nextCall : Int, repeatTime : Nat, count : Int]
    BY TimesAssumption DEF TypeOK
  <2>2. QED
    BY <1>7, <1>8, <2>1 DEF SetNextCallTime
<1>9. ASSUME NEW t \in Timer, NEW delay \in Delays, SetRepeatTime(t, delay)
      PROVE  TypeOK'
  <2>1. delay \in Nat
    BY <1>9, DelaysAssumption DEF SetRepeatTime
  <2>2. [timing[t] EXCEPT !.repeatTime = delay]
          \in [nextCall : Int, repeatTime : Nat, count : Int]
    BY <2>1 DEF TypeOK
  <2>3. QED
    BY <1>7, <1>9, <2>2 DEF SetRepeatTime
<1>10. ASSUME NEW t \in Timer, NEW count \in Int,
              Amend(t, [timing[t] EXCEPT !.count = count])
       PROVE  TypeOK'
  <2>1. [timing[t] EXCEPT !.count = count]
          \in [nextCall : Int, repeatTime : Nat, count : Int]
    BY DEF TypeOK
  <2>2. QED
    BY <1>7, <1>10, <2>1
<1>11. ASSUME NEW t \in Timer, NEW count \in Counts, SetRepeatCount(t, count)
       PROVE  TypeOK'
  BY <1>10, <1>11, CountsAssumption DEF SetRepeatCount
<1>12. ASSUME NEW t \in Timer, MakeInfiniteRepeat(t)
       PROVE  TypeOK'
  BY <1>10, <1>12 DEF MakeInfiniteRepeat, RepeatInfinite
<1>13. QED
  BY <1>1, <1>2, <1>3, <1>4, <1>5, <1>6, <1>8, <1>9, <1>11, <1>12 DEF Script

(* The steps of Think keep the types. *)
LEMMA ThinkTypeOK ==
  ASSUME TypeOK, CallHasTimer, Think
  PROVE  TypeOK'
<1> USE DEF scheduler, timers, walk, ghosts
<1>1. CASE ThinkStart
  BY <1>1 DEF ThinkStart, TypeOK, Pointer
<1>2. CASE BadTimer
  BY <1>2 DEF BadTimer, TypeOK
<1>3. ASSUME AtTimer PROVE pNext \in Timer /\ next[pNext] \in Pointer
  BY <1>3 DEF AtTimer, TypeOK, Pointer
<1>4. CASE RemoveExhausted
  <2>1. pNext \in Timer /\ next[pNext] \in Pointer
    BY <1>3, <1>4 DEF RemoveExhausted
  <2>2. ~Free(pNext) /\ RemoveFunction(pLast, pNext, 0) /\ pLast \in Pointer
    BY <1>4 DEF RemoveExhausted, TypeOK
  <2>3. /\ head' \in Pointer
        /\ next' \in [Timer -> Pointer]
        /\ refs' \in [Timer -> Nat]
        /\ removed' \in [Timer -> BOOLEAN]
        /\ timing' \in [Timer -> [nextCall : Int, repeatTime : Nat, count : Int]]
    BY <2>1, <2>2, RemoveFunctionType
  <2>4. QED
    BY <1>4, <2>1, <2>3 DEF RemoveExhausted, TypeOK
<1>5. CASE Skip
  <2>1. pNext \in Timer /\ next[pNext] \in Pointer
    BY <1>3, <1>5 DEF Skip
  <2>2. QED
    BY <1>5, <2>1 DEF Skip, TypeOK
<1>6. CASE Call
  <2>1. pNext \in Timer /\ next[pNext] \in Pointer
    BY <1>3, <1>6 DEF Call
  <2>2. timing' \in [Timer -> [nextCall : Int, repeatTime : Nat, count : Int]]
    <3>1. /\ timing[pNext] \in [nextCall : Int, repeatTime : Nat, count : Int]
          /\ clock \in Int
      BY <2>1 DEF TypeOK
    <3>2. Called(pNext) \in [nextCall : Int, repeatTime : Nat, count : Int]
      BY <3>1 DEF Called
    <3>3. QED
      BY <1>6, <2>1, <3>2 DEF Call, TypeOK
  <2>3. called' \subseteq Timer
    BY <1>6, <2>1 DEF Call, TypeOK
  <2>4. QED
    BY <1>6, <2>1, <2>2, <2>3 DEF Call, TypeOK
<1>7. CASE CallReturn
  <2>1. pc' = "iterate" /\ UNCHANGED <<thinkHead, current, thinking, lastTime,
                                      held, pNextNext, clock, ghosts>>
    BY <1>7 DEF CallReturn
  <2>2. CASE /\ fault' = "useAfterFree"
             /\ UNCHANGED <<head, shouldRemove, next, refs, removed, timing,
                            pLast, pNext>>
    BY <2>1, <2>2 DEF TypeOK
  <2>3. CASE /\ ~Free(pNext)
             /\ RemoveFunction(pLast, pNext, 0)
             /\ shouldRemove' = FALSE
             /\ pNext' = pNextNext
             /\ UNCHANGED <<fault, pLast>>
    <3>1. pNext \in Timer /\ pLast \in Pointer
      BY <1>7 DEF CallReturn, CallHasTimer, TypeOK, Pointer
    <3>2. /\ head' \in Pointer
          /\ next' \in [Timer -> Pointer]
          /\ refs' \in [Timer -> Nat]
          /\ removed' \in [Timer -> BOOLEAN]
          /\ timing' \in [Timer -> [nextCall : Int, repeatTime : Nat, count : Int]]
      BY <2>3, <3>1, RemoveFunctionType
    <3>3. QED
      BY <2>1, <2>3, <3>2 DEF TypeOK
  <2>4. CASE /\ pLast' = pNext
             /\ pNext' = pNextNext
             /\ UNCHANGED <<head, shouldRemove, next, refs, removed, timing,
                            fault>>
    BY <2>1, <2>4 DEF TypeOK
  <2>5. QED
    BY <1>7, <2>2, <2>3, <2>4 DEF CallReturn, Following
<1>8. CASE ThinkEnd
  <2>1. /\ head' \in Pointer
        /\ next' \in [Timer -> Pointer]
        /\ fault' \in {"none", "useAfterFree", "nullFunction", "endlessWalk"}
    BY <1>8 DEF ThinkEnd, Merge, TypeOK, Pointer
  <2>2. QED
    BY <1>8, <2>1 DEF ThinkEnd, TypeOK, Pointer
<1>9. QED
  BY <1>1, <1>2, <1>4, <1>5, <1>6, <1>7, <1>8 DEF Think

(* The host keeps the types. *)
LEMMA HostTypeOK ==
  ASSUME TypeOK, Host
  PROVE  TypeOK'
<1> USE DEF scheduler, timers, walk, ghosts
<1>1. CASE Tick
  BY <1>1, BoundsAssumption DEF Tick, TypeOK
<1>2. ASSUME NEW shift \in Shifts, AdjustTime(shift)
      PROVE  TypeOK'
  <2>1. shift \in Nat /\ shift <= clock
    BY <1>2, ShiftsAssumption DEF AdjustTime
  <2>2. clock' \in 0..MaxTime
    BY <1>2, <2>1, BoundsAssumption DEF AdjustTime, TypeOK
  <2>3. timing' \in [Timer -> [nextCall : Int, repeatTime : Nat, count : Int]]
    BY <1>2, <2>1 DEF AdjustTime, TypeOK
  <2>4. fault' \in {"none", "useAfterFree", "nullFunction", "endlessWalk"}
    BY <1>2 DEF AdjustTime, WalkFault
  <2>5. QED
    BY <1>2, <2>2, <2>3, <2>4 DEF AdjustTime, TypeOK
<1>3. QED
  BY <1>1, <1>2 DEF Host

(* Only Call starts a script function, and it does so for a timer. *)
LEMMA CallHasTimerStep ==
  ASSUME CallHasTimer, [Next]_vars
  PROVE  CallHasTimer'
<1> USE DEF CallHasTimer, scheduler, timers, walk, ghosts
<1>1. CASE Script
  BY <1>1 DEF Script, Schedule, UseStaleHandle, DropHandle, RemoveTimer,
       GetCurrentFunction, ClearTimerList, Amend, SetNextCallTime,
       SetRepeatTime, SetRepeatCount, MakeInfiniteRepeat
<1>2. CASE Think
  BY <1>2 DEF Think, ThinkStart, BadTimer, AtTimer, RemoveExhausted, Skip,
       Call, CallReturn, ThinkEnd
<1>3. CASE Host
  BY <1>3 DEF Host, Tick, AdjustTime
<1>4. CASE UNCHANGED vars
  BY <1>4 DEF vars
<1>5. QED
  BY <1>1, <1>2, <1>3, <1>4 DEF Next

(* The variables keep their types, whatever the scripts do. *)
THEOREM TypeCorrect == Spec => [](TypeOK /\ CallHasTimer)
<1>1. Init => TypeOK /\ CallHasTimer
  BY InitTypeOK DEF Init, CallHasTimer
<1>2. TypeOK /\ CallHasTimer /\ [Next]_vars => (TypeOK /\ CallHasTimer)'
  <2> SUFFICES ASSUME TypeOK, CallHasTimer, [Next]_vars
               PROVE  TypeOK' /\ CallHasTimer'
    OBVIOUS
  <2>1. CASE UNCHANGED vars
    BY <2>1 DEF vars, scheduler, timers, walk, ghosts, TypeOK, CallHasTimer
  <2>2. QED
    BY <2>1, ScriptTypeOK, ThinkTypeOK, HostTypeOK, CallHasTimerStep DEF Next
<1>3. QED
  BY <1>1, <1>2, PTL DEF Spec

-----------------------------------------------------------------------------
(* Memory safety: what the steps do to the two lists.                      *)

(* What the links of the listed timers lead to, and what is listed. *)
LEMMA Listed ==
  ASSUME TypeOK, ListsHoldTimers
  PROVE  /\ \A t \in Timer : ~removed[t] <=>
              t \in Reach(head) \/ t \in Reach(thinkHead)
         /\ \A t \in Reach(head) : next[t] = NoTimer \/ next[t] \in Reach(head)
         /\ \A t \in Reach(thinkHead) :
              next[t] = NoTimer \/ next[t] \in Reach(thinkHead)
         /\ head = NoTimer \/ head \in Reach(head)
         /\ thinkHead = NoTimer \/ thinkHead \in Reach(thinkHead)
         /\ \A t \in Timer : ~removed[t] /\ next[t] # NoTimer =>
              next[t] \in Timer /\ ~removed[next[t]]
<1>1. Reach(head) \subseteq Timer /\ Reach(thinkHead) \subseteq Timer
  BY ReachTimers DEF Reach
<1>2. \A t \in Timer : ~removed[t] <=>
              t \in Reach(head) \/ t \in Reach(thinkHead)
  BY <1>1 DEF ListsHoldTimers
<1>3. \A t \in Reach(head) : next[t] = NoTimer \/ next[t] \in Reach(head)
  BY <1>1, ReachNext DEF TypeOK, Pointer, Reach
<1>4. \A t \in Reach(thinkHead) :
              next[t] = NoTimer \/ next[t] \in Reach(thinkHead)
  BY <1>1, ReachNext DEF TypeOK, Pointer, Reach
<1>5. /\ head = NoTimer \/ head \in Reach(head)
      /\ thinkHead = NoTimer \/ thinkHead \in Reach(thinkHead)
  BY ReachFirst DEF TypeOK, Pointer, Reach
<1>6. QED
  BY <1>1, <1>2, <1>3, <1>4, <1>5

(* Steps that leave the listed timers and their links alone.               *)
LEMMA ListsSame ==
  ASSUME TypeOK, TypeOK', ListsHoldTimers, OneWayIn,
         UNCHANGED <<head, thinkHead, removed>>,
         \A t \in Timer : ~removed[t] => next'[t] = next[t]
  PROVE  Reach(head)' = Reach(head) /\ ListsHoldTimers' /\ OneWayIn'
<1>1. /\ next \in [Timer -> Pointer] /\ next' \in [Timer -> Pointer]
      /\ head \in Pointer /\ thinkHead \in Pointer
  BY DEF TypeOK
<1>2. /\ \A t \in ReachIn(next, head) : next'[t] = next[t]
      /\ \A t \in ReachIn(next, thinkHead) : next'[t] = next[t]
  BY ReachTimers, Listed DEF Reach
<1>3. /\ ReachIn(next', head) = ReachIn(next, head)
      /\ ReachIn(next', thinkHead) = ReachIn(next, thinkHead)
  BY <1>1, <1>2, ReachSame
<1>4. Reach(head)' = Reach(head) /\ Reach(thinkHead)' = Reach(thinkHead)
  BY <1>3 DEF Reach
<1>5. ListsHoldTimers'
  BY <1>4 DEF ListsHoldTimers
<1>6. OneWayIn'
  BY DEF OneWayIn
<1>7. QED
  BY <1>4, <1>5, <1>6

(* RemoveFunction takes its timer out of the main list and no other.       *)
LEMMA RemoveFunctionLists ==
  ASSUME TypeOK, RefsCover, ListsHoldTimers, OneWayIn,
         NEW t \in Reach(head), NEW pred \in Pointer, NEW gained \in {0, 1},
         pred = NoTimer => t = head,
         pred # NoTimer => pred \in Reach(head) /\ next[pred] = t,
         RemoveFunction(pred, t, gained),
         UNCHANGED <<thinkHead, held>>
  PROVE  /\ Reach(head)' = Reach(head) \ {t}
         /\ \A s \in Reach(head) \ {t} :
              next'[s] = IF s = pred THEN next[t] ELSE next[s]
         /\ RefsCover' /\ ListsHoldTimers' /\ OneWayIn'
<1>1. /\ t \in Timer /\ ~removed[t] /\ refs[t] >= 1
      /\ Reach(head) \subseteq Timer /\ Reach(thinkHead) \subseteq Timer
      /\ next \in [Timer -> Pointer] /\ refs \in [Timer -> Nat]
      /\ removed \in [Timer -> BOOLEAN]
      /\ head \in Pointer /\ thinkHead \in Pointer
      /\ NoTimer \notin Timer
  <2>1. Reach(head) \subseteq Timer /\ Reach(thinkHead) \subseteq Timer
    BY ReachTimers DEF Reach
  <2>2. ~removed[t]
    BY <2>1, Listed
  <2>3. QED
    BY <2>1, <2>2, TimerAssumption DEF TypeOK, RefsCover
<1>2. /\ refs' = [refs EXCEPT ![t] = @ - 1 + gained]
      /\ removed' = [removed EXCEPT ![t] = TRUE]
      /\ head' = IF pred = NoTimer THEN next[t] ELSE head
      /\ \A s \in Timer :
           next'[s] = IF refs'[s] = 0 THEN NoTimer
                      ELSE IF s = pred THEN next[t] ELSE next[s]
  BY <1>1 DEF RemoveFunction, Unlink, Scrubbed
<1>3. next' \in [Timer -> Pointer] /\ head' \in Pointer
  BY <1>1, RemoveFunctionType DEF Free
<1>4. \A s \in Timer : ~removed[s] /\ s # t => refs'[s] # 0
  BY <1>1, <1>2 DEF RefsCover
<1>5. \A s \in Timer : ~removed[s] /\ s # t =>
        next'[s] = IF s = pred THEN next[t] ELSE next[s]
  BY <1>1, <1>2, <1>4
<1>7. Reach(head)' = Reach(head) \ {t}
  <2>1. Single(next, head, ReachIn(next, head))
    BY MainSingle DEF Reach
  <2>2. \A s \in ReachIn(next, head) \ {t} :
          next'[s] = IF s = pred THEN next[t] ELSE next[s]
    BY <1>1, <1>5, Listed DEF Reach
  <2>3. CASE pred = NoTimer
    <3>1. ReachIn(next, next[head]) = ReachIn(next, head) \ {head}
      BY <1>1, <2>1, <2>3, ReachBehead
    <3>2. t = head /\ head' = next[head] /\ next[head] \in Pointer
      BY <1>1, <1>2, <2>3
    <3>3. \A s \in ReachIn(next, next[head]) : s \in Timer /\ s # t
      BY <1>1, <3>1, <3>2 DEF Reach
    <3>4. \A s \in ReachIn(next, next[head]) : next'[s] = next[s]
      BY <1>1, <2>2, <2>3, <3>1, <3>3
    <3>5. ReachIn(next', next[head]) = ReachIn(next, next[head])
      BY <1>1, <1>3, <3>2, <3>4, ReachSame
    <3>6. QED
      BY <3>1, <3>2, <3>5 DEF Reach
  <2>4. CASE pred # NoTimer
    <3>1. t \in ReachIn(next, head) /\ pred \in ReachIn(next, head)
      BY <2>4 DEF Reach
    <3>2. ReachIn(next', head) = ReachIn(next, head) \ {t}
      BY <1>1, <1>3, <2>1, <2>2, <2>4, <3>1, ReachUnlink
    <3>3. QED
      BY <1>2, <2>4, <3>2 DEF Reach
  <2>5. QED
    BY <2>3, <2>4
<1>8. Reach(thinkHead)' = Reach(thinkHead)
  <2>1. \A s \in Reach(thinkHead) : ~removed[s] /\ s # t /\ s # pred
    BY <1>1, Listed DEF ListsHoldTimers
  <2>2. \A s \in ReachIn(next, thinkHead) : next'[s] = next[s]
    BY <1>1, <1>5, <2>1 DEF Reach
  <2>3. ReachIn(next', thinkHead) = ReachIn(next, thinkHead)
    BY <1>1, <1>3, <2>2, ReachSame
  <2>4. QED
    BY <2>3 DEF Reach
<1>9. RefsCover'
  <2> SUFFICES ASSUME NEW s \in Timer
               PROVE  /\ ~removed'[s] => refs'[s] >= 1
                      /\ held'[s] => refs'[s] >= (IF removed'[s] THEN 1 ELSE 2)
    BY DEF RefsCover
  <2>1. CASE s = t
    BY <1>1, <1>2, <2>1 DEF RefsCover
  <2>2. CASE s # t
    BY <1>1, <1>2, <2>2 DEF RefsCover
  <2>3. QED
    BY <2>1, <2>2
<1>10. \A s \in Timer : ~removed'[s] <=> (~removed[s] /\ s # t)
  BY <1>1, <1>2
<1>11. ListsHoldTimers'
  <2>1. {s \in Timer : ~removed'[s]}
          = (Reach(head) \ {t}) \cup Reach(thinkHead)
    BY <1>1, <1>10, Listed DEF ListsHoldTimers
  <2>2. QED
    BY <1>7, <1>8, <2>1 DEF ListsHoldTimers
<1>12. OneWayIn'
  <2>1. \A s \in Timer : ~removed[s] /\ next[s] = t => s = pred
    <3>1. pred = NoTimer \/ (pred \in Timer /\ ~removed[pred])
      BY <1>1, Listed
    <3>2. t # NoTimer
      BY <1>1
    <3>3. QED
      BY <1>1, <3>1, <3>2 DEF OneWayIn
  <2>2. next[t] # t
    <3>1. Single(next, head, ReachIn(next, head)) /\ t \in ReachIn(next, head)
      BY MainSingle DEF Reach
    <3>2. QED
      BY <1>1, <3>1, NoSelfLoop
  <2>3. next[t] # NoTimer => next[t] # head /\ next[t] # thinkHead
    BY <1>1 DEF OneWayIn
  <2>4. \A s \in Timer : ~removed[s] /\ s # t /\ next[s] = next[t] => next[t] = NoTimer
    BY <1>1 DEF OneWayIn
  <2>5. QED
    BY <1>1, <1>2, <1>5, <1>10, <2>1, <2>3, <2>4 DEF OneWayIn
<1>13. QED
  BY <1>1, <1>5, <1>7, <1>9, <1>11, <1>12, Listed

(* Steps that leave the lists and the walk alone.                          *)
LEMMA QuietStep ==
  ASSUME SafeInv, TypeOK',
         UNCHANGED <<head, thinkHead, current, thinking, removed, walk>>,
         \A t \in Timer : ~removed[t] => next'[t] = next[t]
  PROVE  ListsHoldTimers' /\ OneWayIn' /\ WalkInStep'
<1>1. Reach(head)' = Reach(head) /\ ListsHoldTimers' /\ OneWayIn'
  BY ListsSame DEF SafeInv
<1>2. \A t \in Reach(head) : t \in Timer /\ next'[t] = next[t]
  BY ReachTimers, Listed DEF SafeInv, Reach
<1>3. WalkInStep'
  <2>1. WalkInStep /\ CallHasTimer
    BY DEF SafeInv
  <2>2. QED
    BY <1>1, <1>2, <2>1 DEF WalkInStep, CallHasTimer, walk
<1>4. QED
  BY <1>1, <1>3

(* A timer that is listed is referenced, so it is not free. *)
LEMMA ListedNotFree ==
  ASSUME SafeInv
  PROVE  \A t \in Timer : ~removed[t] \/ held[t] => ~Free(t)
BY DEF SafeInv, RefsCover, Free, TypeOK

(* No handle is stale. *)
LEMMA UseStaleHandleSafe ==
  ASSUME SafeInv, NEW t \in Timer, UseStaleHandle(t)
  PROVE  FALSE
BY ListedNotFree DEF UseStaleHandle

(* The script gives back its own reference and no other. *)
LEMMA DropHandleSafe ==
  ASSUME SafeInv, TypeOK', NEW t \in Timer, DropHandle(t)
  PROVE  SafeInv'
<1>1. /\ refs \in [Timer -> Nat] /\ held \in [Timer -> BOOLEAN]
      /\ removed \in [Timer -> BOOLEAN]
      /\ RefsCover /\ NoFault /\ CallHasTimer
  BY DEF SafeInv, TypeOK
<1>2. /\ held[t]
      /\ held' = [held EXCEPT ![t] = FALSE]
      /\ refs' = [refs EXCEPT ![t] = @ - 1]
      /\ next' = Scrubbed(next, NoTimer)
      /\ UNCHANGED <<scheduler, removed, walk, fault>>
  BY DEF DropHandle, HasHandle
<1>3. RefsCover'
  <2> SUFFICES ASSUME NEW s \in Timer
               PROVE  /\ ~removed'[s] => refs'[s] >= 1
                      /\ held'[s] => refs'[s] >= (IF removed'[s] THEN 1 ELSE 2)
    BY DEF RefsCover
  <2>1. CASE s = t
    BY <1>1, <1>2, <2>1 DEF RefsCover
  <2>2. CASE s # t
    BY <1>1, <1>2, <2>2 DEF RefsCover
  <2>3. QED
    BY <2>1, <2>2
<1>4. \A s \in Timer : ~removed[s] => next'[s] = next[s]
  BY <1>1, <1>2, <1>3 DEF RefsCover, Scrubbed
<1>5. ListsHoldTimers' /\ OneWayIn' /\ WalkInStep'
  BY <1>2, <1>4, QuietStep DEF scheduler
<1>6. NoFault' /\ CallHasTimer'
  BY <1>1, <1>2 DEF NoFault, CallHasTimer, walk
<1>7. QED
  BY <1>3, <1>5, <1>6 DEF SafeInv

(* The current timer is in the main list while its function runs, so the   *)
(* handle that is returned is not stale.                                   *)
LEMMA GetCurrentFunctionSafe ==
  ASSUME SafeInv, TypeOK', GetCurrentFunction
  PROVE  SafeInv'
<1>1. /\ refs \in [Timer -> Nat] /\ held \in [Timer -> BOOLEAN]
      /\ removed \in [Timer -> BOOLEAN]
      /\ RefsCover /\ NoFault /\ CallHasTimer /\ WalkInStep
  BY DEF SafeInv, TypeOK
<1>2. current # NoTimer /\ pc \in {"idle", "calling"}
  BY DEF GetCurrentFunction, ScriptRuns
<1>3. current \in Reach(head)
  BY <1>1, <1>2 DEF WalkInStep
<1>4. current \in Timer /\ ~removed[current] /\ ~Free(current)
  BY <1>3, ReachTimers, Listed, ListedNotFree DEF Reach, SafeInv
<1>5. /\ refs' = [refs EXCEPT ![current] = @ + 1]
      /\ held' = [held EXCEPT ![current] = TRUE]
      /\ UNCHANGED <<scheduler, next, removed, walk, fault>>
  BY <1>4 DEF GetCurrentFunction, RefForReturn
<1>6. RefsCover'
  <2> SUFFICES ASSUME NEW s \in Timer
               PROVE  /\ ~removed'[s] => refs'[s] >= 1
                      /\ held'[s] => refs'[s] >= (IF removed'[s] THEN 1 ELSE 2)
    BY DEF RefsCover
  <2>1. CASE s = current
    BY <1>1, <1>4, <1>5, <2>1 DEF RefsCover
  <2>2. CASE s # current
    BY <1>1, <1>5, <2>2 DEF RefsCover
  <2>3. QED
    BY <2>1, <2>2
<1>7. ListsHoldTimers' /\ OneWayIn' /\ WalkInStep'
  BY <1>5, QuietStep DEF scheduler
<1>8. NoFault' /\ CallHasTimer'
  BY <1>1, <1>5 DEF NoFault, CallHasTimer, walk
<1>9. QED
  BY <1>6, <1>7, <1>8 DEF SafeInv

(* Changing the times and counts of timers changes no list. *)
LEMMA TimingSafe ==
  ASSUME SafeInv, TypeOK',
         UNCHANGED <<head, thinkHead, current, thinking, removed, next, refs,
                     held, walk, fault>>
  PROVE  SafeInv'
<1>1. ListsHoldTimers' /\ OneWayIn' /\ WalkInStep'
  BY QuietStep
<1>2. NoFault' /\ CallHasTimer' /\ RefsCover'
  BY DEF SafeInv, NoFault, CallHasTimer, RefsCover, walk
<1>3. QED
  BY <1>1, <1>2 DEF SafeInv

(* AdjustTime walks the main list to its end. *)
LEMMA HostSafe ==
  ASSUME SafeInv, TypeOK', Host
  PROVE  SafeInv'
<1>1. WalkFault = "none" /\ fault = "none"
  BY WalkIsSafe DEF SafeInv, NoFault
<1>2. CASE Tick
  BY <1>2, TimingSafe DEF Tick, scheduler, timers
<1>3. CASE \E shift \in Shifts : AdjustTime(shift)
  <2>1. UNCHANGED <<head, thinkHead, current, thinking, removed, next, refs,
                    held, walk, fault>>
    BY <1>1, <1>3 DEF AdjustTime, scheduler
  <2>2. QED
    BY <2>1, TimingSafe
<1>4. QED
  BY <1>2, <1>3 DEF Host

(* A new timer goes to the head of the list that is not being walked. *)
LEMMA ScheduleSafe ==
  ASSUME SafeInv, TypeOK',
         NEW t \in Timer, NEW delay \in Delays, NEW count \in Counts,
         NEW keep \in BOOLEAN, Schedule(t, delay, count, keep)
  PROVE  SafeInv'
<1>1. /\ refs \in [Timer -> Nat] /\ held \in [Timer -> BOOLEAN]
      /\ removed \in [Timer -> BOOLEAN]
      /\ next \in [Timer -> Pointer] /\ next' \in [Timer -> Pointer]
      /\ head \in Pointer /\ thinkHead \in Pointer
      /\ RefsCover /\ NoFault /\ CallHasTimer /\ WalkInStep
      /\ ListsHoldTimers /\ OneWayIn
      /\ t # NoTimer
  BY TimerAssumption DEF SafeInv, TypeOK
<1>2. /\ refs' = [refs EXCEPT ![t] = IF keep THEN 2 ELSE 1]
      /\ removed' = [removed EXCEPT ![t] = FALSE]
      /\ held' = [held EXCEPT ![t] = keep]
      /\ UNCHANGED <<current, thinking, walk, fault>>
  BY DEF Schedule
<1>3. removed[t] /\ ~held[t]
  BY ListedNotFree DEF Schedule
<1>4. /\ Reach(head) \subseteq Timer /\ Reach(thinkHead) \subseteq Timer
      /\ t \notin Reach(head) /\ t \notin Reach(thinkHead)
      /\ t # head /\ t # thinkHead
  <2>1. Reach(head) \subseteq Timer /\ Reach(thinkHead) \subseteq Timer
    BY ReachTimers DEF Reach
  <2>2. t \notin Reach(head) /\ t \notin Reach(thinkHead)
    BY <1>1, <1>3, Listed DEF SafeInv
  <2>3. QED
    BY <1>1, <2>1, <2>2, Listed DEF SafeInv
<1>5. RefsCover'
  <2> SUFFICES ASSUME NEW s \in Timer
               PROVE  /\ ~removed'[s] => refs'[s] >= 1
                      /\ held'[s] => refs'[s] >= (IF removed'[s] THEN 1 ELSE 2)
    BY DEF RefsCover
  <2>1. CASE s = t
    BY <1>1, <1>2, <2>1
  <2>2. CASE s # t
    BY <1>1, <1>2, <2>2 DEF RefsCover
  <2>3. QED
    BY <2>1, <2>2
<1>6. \A s \in Timer : ~removed'[s] <=> (~removed[s] \/ s = t)
  BY <1>1, <1>2
<1>7. \A s \in Timer : ~removed[s] => next[s] # t
  BY <1>1, <1>3, Listed DEF SafeInv
<1>8. CASE thinking
  <2>1. next' = [next EXCEPT ![t] = thinkHead] /\ thinkHead' = t /\ head' = head
    BY <1>8 DEF Schedule
  <2>2. /\ next'[t] = thinkHead
        /\ \A s \in Timer : s # t => next'[s] = next[s]
    BY <1>1, <2>1
  <2>3. Reach(head)' = Reach(head)
    <3>1. \A s \in ReachIn(next, head) : next'[s] = next[s]
      BY <1>4, <2>2 DEF Reach
    <3>2. QED
      BY <1>1, <2>1, <3>1, ReachSame DEF Reach
  <2>4. Reach(thinkHead)' = Reach(thinkHead) \cup {t}
    <3>1. /\ \A s \in ReachIn(next, thinkHead) : next'[s] = next[s]
          /\ t \notin ReachIn(next, thinkHead)
      BY <1>4, <2>2 DEF Reach
    <3>2. ReachIn(next', t) = ReachIn(next, thinkHead) \cup {t}
      BY <1>1, <2>2, <3>1, ReachPush
    <3>3. QED
      BY <2>1, <3>2 DEF Reach
  <2>5. ListsHoldTimers'
    BY <1>1, <1>4, <1>6, <2>3, <2>4 DEF ListsHoldTimers
  <2>6. thinkHead # NoTimer => thinkHead # head
    BY <1>1, Listed DEF SafeInv, ListsHoldTimers
  <2>7. OneWayIn'
    BY <1>1, <1>4, <1>6, <1>7, <2>1, <2>2, <2>6 DEF OneWayIn
  <2>8. WalkInStep'
    BY <1>1, <1>2, <1>4, <1>8, <2>1, <2>2, <2>3 DEF WalkInStep, CallHasTimer, walk
  <2>9. QED
    BY <1>1, <1>2, <1>5, <2>5, <2>7, <2>8
       DEF SafeInv, NoFault, CallHasTimer, walk
<1>9. CASE ~thinking
  <2>1. /\ next' = [next EXCEPT ![t] = head] /\ head' = t
        /\ thinkHead' = thinkHead /\ thinkHead = NoTimer
    BY <1>1, <1>9 DEF Schedule, WalkInStep
  <2>2. /\ next'[t] = head
        /\ \A s \in Timer : s # t => next'[s] = next[s]
    BY <1>1, <2>1
  <2>3. Reach(thinkHead)' = Reach(thinkHead)
    <3>1. \A s \in ReachIn(next, thinkHead) : next'[s] = next[s]
      BY <1>4, <2>2 DEF Reach
    <3>2. ReachIn(next', thinkHead) = ReachIn(next, thinkHead)
      BY <1>1, <3>1, ReachSame
    <3>3. QED
      BY <2>1, <3>2 DEF Reach
  <2>4. Reach(head)' = Reach(head) \cup {t}
    <3>1. /\ \A s \in ReachIn(next, head) : next'[s] = next[s]
          /\ t \notin ReachIn(next, head)
      BY <1>4, <2>2 DEF Reach
    <3>2. ReachIn(next', t) = ReachIn(next, head) \cup {t}
      BY <1>1, <2>2, <3>1, ReachPush
    <3>3. QED
      BY <2>1, <3>2 DEF Reach
  <2>5. ListsHoldTimers'
    BY <1>1, <1>4, <1>6, <2>3, <2>4 DEF ListsHoldTimers
  <2>6. OneWayIn'
    BY <1>1, <1>4, <1>6, <1>7, <2>1, <2>2 DEF OneWayIn
  <2>7. WalkInStep'
    BY <1>1, <1>2, <1>9, <2>1 DEF WalkInStep, walk
  <2>8. QED
    BY <1>1, <1>2, <1>5, <2>5, <2>6, <2>7
       DEF SafeInv, NoFault, CallHasTimer, walk
<1>10. QED
  BY <1>8, <1>9

(* Outside Think every timer is in the main list, and no pointer of a walk *)
(* remembers one: clearing the list is safe.                               *)
LEMMA ClearTimerListSafe ==
  ASSUME Disciplined, SafeInv, TypeOK', ClearTimerList
  PROVE  SafeInv'
<1>1. /\ refs \in [Timer -> Nat] /\ held \in [Timer -> BOOLEAN]
      /\ removed \in [Timer -> BOOLEAN]
      /\ next' \in [Timer -> Pointer]
      /\ RefsCover /\ NoFault /\ CallHasTimer /\ WalkInStep
  BY DEF SafeInv, TypeOK
<1>2. pc = "idle" /\ thinkHead = NoTimer /\ ~thinking /\ current = NoTimer
  BY <1>1 DEF Disciplined, ClearTimerList, ScriptRuns, WalkInStep
<1>3. WalkFault = "none"
  BY WalkIsSafe DEF SafeInv
<1>4. /\ head' = NoTimer
      /\ refs' = [s \in Timer |->
                    IF s \in Reach(head) THEN refs[s] - 1 ELSE refs[s]]
      /\ removed' = [s \in Timer |-> removed[s] \/ s \in Reach(head)]
      /\ UNCHANGED <<thinkHead, current, thinking, held, walk, fault>>
  BY <1>3 DEF ClearTimerList
<1>5. Reach(thinkHead) = {}
  BY <1>2, ReachNothing DEF SafeInv, TypeOK, Reach
<1>6. \A s \in Timer : removed'[s] /\ (s \in Reach(head) <=> ~removed[s])
  BY <1>4, <1>5, Listed DEF SafeInv
<1>7. RefsCover'
  <2> SUFFICES ASSUME NEW s \in Timer, held[s]
               PROVE  refs'[s] >= 1
    BY <1>4, <1>6 DEF RefsCover
  <2>1. CASE removed[s]
    BY <1>1, <1>4, <1>6, <2>1 DEF RefsCover
  <2>2. CASE ~removed[s]
    BY <1>1, <1>4, <1>6, <2>2 DEF RefsCover
  <2>3. QED
    BY <2>1, <2>2
<1>8. Reach(head)' = {} /\ Reach(thinkHead)' = {}
  BY <1>1, <1>2, <1>4, ReachNothing DEF Reach
<1>9. ListsHoldTimers' /\ OneWayIn'
  BY <1>6, <1>8 DEF ListsHoldTimers, OneWayIn
<1>10. WalkInStep'
  <2>1. pc' = "idle" /\ thinking' = (pc' # "idle")
        /\ thinkHead' = NoTimer /\ current' = NoTimer
    BY <1>1, <1>2, <1>4 DEF WalkInStep, walk
  <2>2. QED
    BY <2>1 DEF WalkInStep
<1>11. QED
  BY <1>1, <1>4, <1>7, <1>9, <1>10 DEF SafeInv, NoFault, CallHasTimer, walk

(* RemoveTimer of a timer the walk in progress does not point to. *)
LEMMA RemoveTimerSafe ==
  ASSUME Disciplined, SafeInv, TypeOK', NEW t \in Timer, RemoveTimer(t)
  PROVE  SafeInv'
<1>1. /\ refs \in [Timer -> Nat] /\ held \in [Timer -> BOOLEAN]
      /\ removed \in [Timer -> BOOLEAN] /\ head \in Pointer
      /\ RefsCover /\ NoFault /\ CallHasTimer /\ WalkInStep
      /\ ListsHoldTimers /\ OneWayIn
      /\ Reach(head) \subseteq Timer /\ NoTimer \notin Timer
  BY ReachTimers, TimerAssumption DEF SafeInv, TypeOK, Reach
<1>2. /\ pc \in {"idle", "calling"}
      /\ pc = "calling" => t \notin {pLast, pNextNext}
      /\ UNCHANGED <<thinkHead, current, thinking, held, walk>>
  BY DEF RemoveTimer, ScriptRuns, MayRemove, Disciplined
<1>3. CASE /\ refs' = [refs EXCEPT ![t] = @ + 1]
           /\ UNCHANGED <<head, next, removed, fault>>
  <2>1. ListsHoldTimers' /\ OneWayIn' /\ WalkInStep'
    BY <1>2, <1>3, QuietStep
  <2>2. RefsCover'
    BY <1>1, <1>2, <1>3 DEF RefsCover
  <2>3. QED
    BY <1>1, <1>2, <1>3, <2>1, <2>2 DEF SafeInv, NoFault, CallHasTimer, walk
<1>4. CASE UNCHANGED <<head, next, refs, removed>> /\ fault' = WalkFault
  <2>1. UNCHANGED <<head, next, refs, removed, fault>>
    BY <1>1, <1>4, WalkIsSafe DEF SafeInv, NoFault
  <2>2. QED
    BY <1>2, <2>1, TimingSafe
<1>5. ASSUME t \in Reach(head), t # current, fault' = fault,
             NEW pred \in IF t = head THEN {NoTimer}
                          ELSE {p \in Reach(head) : next[p] = t},
             RemoveFunction(pred, t, 1)
      PROVE  SafeInv'
  <2>1. /\ pred \in Pointer
        /\ pred = NoTimer => t = head
        /\ pred # NoTimer => pred \in Reach(head) /\ next[pred] = t /\ t # head
    BY <1>1, <1>5 DEF Pointer
  <2>2. UNCHANGED <<thinkHead, held>>
    BY <1>2
  <2>3. /\ Reach(head)' = Reach(head) \ {t}
        /\ \A s \in Reach(head) \ {t} :
             next'[s] = IF s = pred THEN next[t] ELSE next[s]
        /\ RefsCover' /\ ListsHoldTimers' /\ OneWayIn'
    BY <1>5, <2>1, <2>2, RemoveFunctionLists DEF SafeInv
  <2>4. head' = IF pred = NoTimer THEN next[t] ELSE head
    BY <1>5 DEF RemoveFunction, Unlink
  <2>5. WalkInStep'
    <3>1. CASE pc = "idle"
      BY <1>1, <1>2, <3>1 DEF WalkInStep, walk
    <3>2. CASE pc = "calling"
      <4>1. /\ t # pLast /\ t # pNextNext /\ t # pNext
            /\ current = pNext /\ pNextNext = next[pNext]
            /\ pNext # NoTimer /\ pNext \in Reach(head) \ {t}
            /\ pLast = NoTimer => pNext = head
            /\ pLast # NoTimer => pLast \in Reach(head) \ {t} /\ next[pLast] = pNext
            /\ thinking
        BY <1>1, <1>2, <1>5, <3>2 DEF WalkInStep, CallHasTimer
      <4>2. next'[pNext] = next[pNext]
        BY <2>1, <2>3, <4>1
      <4>3. pLast # NoTimer => next'[pLast] = next[pLast]
        BY <2>1, <2>3, <4>1
      <4>4. pLast = NoTimer => head' = head
        BY <2>1, <2>4, <4>1
      <4>5. /\ UNCHANGED <<pc, pLast, pNext, pNextNext, current, thinking>>
            /\ pc' = "calling"
        BY <1>2, <3>2 DEF walk
      <4>6. QED
        BY <2>3, <4>1, <4>2, <4>3, <4>4, <4>5 DEF WalkInStep
    <3>3. QED
      BY <1>2, <3>1, <3>2
  <2>6. QED
    BY <1>1, <1>2, <1>5, <2>3, <2>5 DEF SafeInv, NoFault, CallHasTimer, walk
<1>6. CASE /\ t \in Reach(head)
           /\ ~Executing(t)
           /\ \E pred \in IF t = head THEN {NoTimer}
                          ELSE {p \in Reach(head) : next[p] = t} :
                RemoveFunction(pred, t, 1)
           /\ UNCHANGED <<shouldRemove, fault>>
  <2>1. t \in Reach(head) /\ t # current /\ fault' = fault
    BY <1>6 DEF Executing
  <2>2. PICK pred \in IF t = head THEN {NoTimer}
                      ELSE {p \in Reach(head) : next[p] = t} :
          RemoveFunction(pred, t, 1)
    BY <1>6
  <2>3. QED
    BY <1>5, <2>1, <2>2
<1>7. QED
  <2>1. \/ /\ refs' = [refs EXCEPT ![t] = @ + 1]
           /\ UNCHANGED <<head, next, removed, fault>>
        \/ UNCHANGED <<head, next, refs, removed>> /\ fault' = WalkFault
        \/ /\ t \in Reach(head)
           /\ ~Executing(t)
           /\ \E pred \in IF t = head THEN {NoTimer}
                          ELSE {p \in Reach(head) : next[p] = t} :
                RemoveFunction(pred, t, 1)
           /\ UNCHANGED <<shouldRemove, fault>>
    BY DEF RemoveTimer
  <2>2. QED
    BY <1>3, <1>4, <1>6, <2>1

(* Whatever scripts do within the discipline. *)
LEMMA ScriptSafe ==
  ASSUME Disciplined, SafeInv, TypeOK', Script
  PROVE  SafeInv'
<1>1. ASSUME NEW t \in Timer, NEW timingOfT, Amend(t, timingOfT)
      PROVE  SafeInv'
  <2>1. UNCHANGED <<head, thinkHead, current, thinking, removed, next, refs,
                    held, walk, fault>>
    BY <1>1 DEF Amend, scheduler
  <2>2. QED
    BY <2>1, TimingSafe
<1>2. CASE \E t \in Timer, delay \in Delays, count \in Counts, keep \in BOOLEAN :
             Schedule(t, delay, count, keep)
  BY <1>2, ScheduleSafe
<1>3. CASE \E t \in Timer : UseStaleHandle(t)
  BY <1>3, UseStaleHandleSafe
<1>4. CASE \E t \in Timer : DropHandle(t)
  BY <1>4, DropHandleSafe
<1>5. CASE \E t \in Timer : RemoveTimer(t)
  BY <1>5, RemoveTimerSafe
<1>6. CASE GetCurrentFunction
  BY <1>6, GetCurrentFunctionSafe
<1>7. CASE ClearTimerList
  BY <1>7, ClearTimerListSafe
<1>8. CASE \E t \in Timer, time \in Times : SetNextCallTime(t, time)
  BY <1>1, <1>8 DEF SetNextCallTime
<1>9. CASE \E t \in Timer, delay \in Delays : SetRepeatTime(t, delay)
  BY <1>1, <1>9 DEF SetRepeatTime
<1>10. CASE \E t \in Timer, count \in Counts : SetRepeatCount(t, count)
  BY <1>1, <1>10 DEF SetRepeatCount
<1>11. CASE \E t \in Timer : MakeInfiniteRepeat(t)
  BY <1>1, <1>11 DEF MakeInfiniteRepeat
<1>12. QED
  BY <1>2, <1>3, <1>4, <1>5, <1>6, <1>7, <1>8, <1>9, <1>10, <1>11 DEF Script

(* Where the walk is while it is at a timer: nothing it points to is free. *)
LEMMA WalkPointers ==
  ASSUME SafeInv, pc # "idle", pNext # NoTimer
  PROVE  /\ pNext \in Reach(head) /\ pNext \in Timer
         /\ ~removed[pNext] /\ ~Free(pNext)
         /\ next[pNext] = NoTimer \/ next[pNext] \in Reach(head)
         /\ next[pNext] # pNext
         /\ pLast = NoTimer => pNext = head
         /\ pLast # NoTimer => /\ pLast \in Reach(head) /\ next[pLast] = pNext
                               /\ pLast # pNext
         /\ ~Dangling(pLast)
         /\ thinking = TRUE
<1>1. /\ Single(next, head, ReachIn(next, head))
      /\ next \in [Timer -> Pointer] /\ head \in Pointer
      /\ Reach(head) = ReachIn(next, head)
      /\ Reach(head) \subseteq Timer
  BY MainSingle, ReachTimers DEF SafeInv, TypeOK, Reach
<1>2. /\ pNext \in Reach(head)
      /\ pLast = NoTimer => pNext = head
      /\ pLast # NoTimer => pLast \in Reach(head) /\ next[pLast] = pNext
      /\ thinking = TRUE
  BY DEF SafeInv, WalkInStep
<1>3. \A t \in Reach(head) : next[t] # t
  BY <1>1, NoSelfLoop
<1>4. \A t \in Reach(head) : ~removed[t] /\ ~Free(t)
  BY <1>1, Listed, ListedNotFree DEF SafeInv
<1>5. \A t \in Reach(head) : next[t] = NoTimer \/ next[t] \in Reach(head)
  BY Listed DEF SafeInv
<1>6. QED
  BY <1>1, <1>2, <1>3, <1>4, <1>5 DEF Dangling

(* The walk removes the timer it is at and goes on. *)
LEMMA WalkRemoves ==
  ASSUME SafeInv, TypeOK', pc # "idle", pNext # NoTimer,
         RemoveFunction(pLast, pNext, 0),
         pc' = "iterate", pLast' = pLast, pNext' = next[pNext],
         UNCHANGED <<thinkHead, thinking, held, fault>>
  PROVE  SafeInv'
<1>1. /\ pNext \in Reach(head) /\ pNext \in Timer
      /\ next[pNext] = NoTimer \/ next[pNext] \in Reach(head)
      /\ next[pNext] # pNext
      /\ pLast = NoTimer => pNext = head
      /\ pLast # NoTimer => /\ pLast \in Reach(head) /\ next[pLast] = pNext
                            /\ pLast # pNext
      /\ thinking = TRUE
  BY WalkPointers
<1>2. pLast \in Pointer
  BY DEF SafeInv, TypeOK
<1>3. /\ Reach(head)' = Reach(head) \ {pNext}
      /\ \A s \in Reach(head) \ {pNext} :
           next'[s] = IF s = pLast THEN next[pNext] ELSE next[s]
      /\ RefsCover' /\ ListsHoldTimers' /\ OneWayIn'
  BY <1>1, <1>2, RemoveFunctionLists DEF SafeInv
<1>4. head' = IF pLast = NoTimer THEN next[pNext] ELSE head
  BY DEF RemoveFunction, Unlink
<1>5. WalkInStep'
  <2>1. pNext' # NoTimer => pNext' \in Reach(head)'
    BY <1>1, <1>3
  <2>2. pLast' = NoTimer => pNext' = head'
    BY <1>4
  <2>3. pLast' # NoTimer => pLast' \in Reach(head)' /\ next'[pLast'] = pNext'
    BY <1>1, <1>3
  <2>4. QED
    BY <1>1, <2>1, <2>2, <2>3 DEF WalkInStep
<1>6. NoFault' /\ CallHasTimer'
  BY DEF SafeInv, NoFault, CallHasTimer
<1>7. QED
  BY <1>3, <1>5, <1>6 DEF SafeInv

(* The walk leaves the timer it is at in the list and goes on. *)
LEMMA WalkPasses ==
  ASSUME SafeInv, TypeOK', pc # "idle", pNext # NoTimer,
         pc' = "iterate", pLast' = pNext, pNext' = next[pNext],
         UNCHANGED <<head, next, refs, removed, thinkHead, thinking, held, fault>>
  PROVE  SafeInv'
<1>1. /\ pNext \in Reach(head)
      /\ next[pNext] = NoTimer \/ next[pNext] \in Reach(head)
      /\ thinking = TRUE
  BY WalkPointers
<1>2. Reach(head)' = Reach(head) /\ ListsHoldTimers' /\ OneWayIn'
  BY ListsSame DEF SafeInv
<1>3. WalkInStep'
  BY <1>1, <1>2 DEF WalkInStep
<1>4. NoFault' /\ CallHasTimer' /\ RefsCover'
  BY DEF SafeInv, NoFault, CallHasTimer, RefsCover
<1>5. QED
  BY <1>2, <1>3, <1>4 DEF SafeInv

(* The walk starts at the head. *)
LEMMA ThinkStartSafe ==
  ASSUME SafeInv, TypeOK', ThinkStart
  PROVE  SafeInv'
<1>1. /\ thinking' = TRUE /\ pc' = "iterate" /\ pNext' = head
      /\ pLast' = NoTimer
      /\ UNCHANGED <<head, thinkHead, next, refs, removed, held, fault>>
  BY DEF ThinkStart, timers
<1>2. Reach(head)' = Reach(head) /\ ListsHoldTimers' /\ OneWayIn'
  BY <1>1, ListsSame DEF SafeInv
<1>3. head = NoTimer \/ head \in Reach(head)
  BY Listed DEF SafeInv
<1>4. WalkInStep'
  BY <1>1, <1>2, <1>3 DEF WalkInStep
<1>5. NoFault' /\ CallHasTimer' /\ RefsCover'
  BY <1>1 DEF SafeInv, NoFault, CallHasTimer, RefsCover
<1>6. QED
  BY <1>2, <1>4, <1>5 DEF SafeInv

(* A function is called: the walk stays where it is. *)
LEMMA CallSafe ==
  ASSUME SafeInv, TypeOK', Call
  PROVE  SafeInv'
<1>1. pc = "iterate" /\ pNext # NoTimer
  BY DEF Call, AtTimer
<1>2. /\ pc' = "calling" /\ current' = pNext /\ pNextNext' = next[pNext]
      /\ UNCHANGED <<head, thinkHead, thinking, next, refs, removed, held,
                     pLast, pNext, fault>>
  BY DEF Call
<1>3. Reach(head)' = Reach(head) /\ ListsHoldTimers' /\ OneWayIn'
  BY <1>2, ListsSame DEF SafeInv
<1>4. /\ pNext \in Reach(head) /\ thinking = TRUE
      /\ pLast = NoTimer => pNext = head
      /\ pLast # NoTimer => pLast \in Reach(head) /\ next[pLast] = pNext
  BY <1>1, WalkPointers
<1>5. WalkInStep'
  BY <1>2, <1>3, <1>4 DEF WalkInStep
<1>6. NoFault' /\ CallHasTimer' /\ RefsCover'
  BY <1>1, <1>2 DEF SafeInv, NoFault, CallHasTimer, RefsCover
<1>7. QED
  BY <1>3, <1>5, <1>6 DEF SafeInv

(* After the call the pointer read before it still leads to the next timer.*)
LEMMA CallReturnSafe ==
  ASSUME SafeInv, TypeOK', CallReturn
  PROVE  SafeInv'
<1>1. pc = "calling" /\ pNext # NoTimer /\ pNextNext = next[pNext]
  BY DEF CallReturn, SafeInv, CallHasTimer, WalkInStep
<1>2. ~Free(pNext) /\ ~Dangling(pLast)
  BY <1>1, WalkPointers
<1>3. /\ pc' = "iterate" /\ pNext' = next[pNext]
      /\ UNCHANGED <<thinkHead, thinking, held, fault>>
      /\ \/ RemoveFunction(pLast, pNext, 0) /\ pLast' = pLast
         \/ /\ pLast' = pNext
            /\ UNCHANGED <<head, next, refs, removed>>
  BY <1>1, <1>2 DEF CallReturn, Following
<1>4. QED
  BY <1>1, <1>3, WalkRemoves, WalkPasses

(* The timers scheduled during Think join the main list at its end. *)
LEMMA ThinkEndSafe ==
  ASSUME SafeInv, TypeOK', ThinkEnd
  PROVE  SafeInv'
<1>1. /\ next \in [Timer -> Pointer] /\ next' \in [Timer -> Pointer]
      /\ head \in Pointer /\ thinkHead \in Pointer
      /\ Reach(head) \subseteq Timer /\ Reach(thinkHead) \subseteq Timer
      /\ RefsCover /\ NoFault /\ WalkInStep /\ ListsHoldTimers /\ OneWayIn
  BY ReachTimers DEF SafeInv, TypeOK, Reach
<1>2. /\ pc = "iterate" /\ pNext = NoTimer
      /\ thinking' = FALSE /\ thinkHead' = NoTimer /\ current' = NoTimer
      /\ pc' = "idle" /\ Merge
      /\ UNCHANGED <<refs, removed, held>>
  BY DEF ThinkEnd
<1>3. /\ pLast = NoTimer => head = NoTimer
      /\ pLast # NoTimer => pLast \in Reach(head) /\ next[pLast] = NoTimer
  BY <1>1, <1>2 DEF WalkInStep
<1>4. Reach(thinkHead)' = {}
  BY <1>1, <1>2, ReachNothing DEF Reach
<1>5. WalkInStep' /\ RefsCover' /\ CallHasTimer'
  BY <1>1, <1>2 DEF WalkInStep, RefsCover, CallHasTimer
<1>6. CASE thinkHead = NoTimer
  <2>1. UNCHANGED <<head, thinkHead, removed, next, fault>>
    BY <1>2, <1>6 DEF Merge
  <2>2. ListsHoldTimers' /\ OneWayIn'
    BY <2>1, ListsSame DEF SafeInv
  <2>3. QED
    BY <1>1, <1>5, <2>1, <2>2 DEF SafeInv, NoFault
<1>7. CASE thinkHead # NoTimer /\ pLast = NoTimer
  <2>1. head' = thinkHead /\ UNCHANGED <<next, fault>> /\ head = NoTimer
    BY <1>2, <1>3, <1>7 DEF Merge
  <2>2. Reach(head) = {} /\ Reach(head)' = Reach(thinkHead)
    BY <1>1, <2>1, ReachNothing DEF Reach
  <2>3. ListsHoldTimers'
    BY <1>1, <1>2, <1>4, <2>2 DEF ListsHoldTimers
  <2>4. OneWayIn'
    BY <1>1, <1>2, <2>1 DEF OneWayIn
  <2>5. QED
    BY <1>1, <1>5, <2>1, <2>3, <2>4 DEF SafeInv, NoFault
<1>8. CASE thinkHead # NoTimer /\ pLast # NoTimer
  <2>1. /\ pLast \in Reach(head) /\ pLast \in Timer /\ next[pLast] = NoTimer
        /\ pLast \notin Reach(thinkHead) /\ thinkHead \in Timer
        /\ ~Free(pLast)
    BY <1>1, <1>3, <1>8, Listed, ListedNotFree
       DEF ListsHoldTimers, Pointer, SafeInv
  <2>2. /\ UNCHANGED <<head, fault>>
        /\ \A s \in Timer : next'[s] = IF s = pLast THEN thinkHead ELSE next[s]
    BY <1>1, <1>2, <1>8, <2>1 DEF Merge
  <2>3. Reach(head)' = Reach(head) \cup Reach(thinkHead)
    <3>1. /\ pLast \in ReachIn(next, head) /\ pLast \notin ReachIn(next, thinkHead)
          /\ \A s \in ReachIn(next, head) \cup ReachIn(next, thinkHead) :
               next'[s] = IF s = pLast THEN thinkHead ELSE next[s]
      BY <1>1, <2>1, <2>2 DEF Reach
    <3>2. ReachIn(next', head) = ReachIn(next, head) \cup ReachIn(next, thinkHead)
      BY <1>1, <2>1, <3>1, ReachJoin
    <3>3. QED
      BY <2>2, <3>2 DEF Reach
  <2>4. ListsHoldTimers'
    BY <1>1, <1>2, <1>4, <2>3 DEF ListsHoldTimers
  <2>5. thinkHead # head
    BY <1>1, <2>1, Listed DEF SafeInv, ListsHoldTimers
  <2>6. OneWayIn'
    BY <1>1, <1>2, <2>1, <2>2, <2>5 DEF OneWayIn
  <2>7. QED
    BY <1>1, <1>5, <2>2, <2>4, <2>6 DEF SafeInv, NoFault
<1>9. QED
  BY <1>6, <1>7, <1>8

(* The walk never arrives at a bad timer. *)
LEMMA ThinkSafe ==
  ASSUME SafeInv, TypeOK', Think
  PROVE  SafeInv'
<1>1. CASE ThinkStart
  BY <1>1, ThinkStartSafe
<1>2. CASE BadTimer
  <2>1. pc = "iterate" /\ pNext # NoTimer
    BY <1>2 DEF BadTimer, AtTimer
  <2>2. QED
    BY <1>2, <2>1, WalkPointers DEF BadTimer
<1>3. CASE RemoveExhausted
  BY <1>3, WalkRemoves DEF RemoveExhausted, AtTimer
<1>4. CASE Skip
  BY <1>4, WalkPasses DEF Skip, AtTimer, timers
<1>5. CASE Call
  BY <1>5, CallSafe
<1>6. CASE CallReturn
  BY <1>6, CallReturnSafe
<1>7. CASE ThinkEnd
  BY <1>7, ThinkEndSafe
<1>8. QED
  BY <1>1, <1>2, <1>3, <1>4, <1>5, <1>6, <1>7 DEF Think

(* An empty scheduler is safe. *)
LEMMA InitSafe == Init => SafeInv
<1> SUFFICES ASSUME Init
             PROVE  SafeInv
  OBVIOUS
<1>1. TypeOK
  BY InitTypeOK
<1>2. Reach(head) = {} /\ Reach(thinkHead) = {}
  BY <1>1, ReachNothing DEF Init, Reach, TypeOK
<1>3. ListsHoldTimers
  BY <1>2 DEF Init, ListsHoldTimers
<1>4. OneWayIn /\ RefsCover /\ NoFault /\ CallHasTimer
  BY DEF Init, OneWayIn, RefsCover, NoFault, CallHasTimer
<1>5. WalkInStep
  BY DEF Init, WalkInStep
<1>6. QED
  BY <1>1, <1>3, <1>4, <1>5 DEF SafeInv

LEMMA SafeInvStep ==
  ASSUME Disciplined, SafeInv, [Next]_vars
  PROVE  SafeInv'
<1>1. TypeOK /\ CallHasTimer
  BY DEF SafeInv
<1>2. CASE UNCHANGED vars
  <2>1. TypeOK' /\ UNCHANGED <<head, thinkHead, current, thinking, removed,
                               next, refs, held, walk, fault>>
    BY <1>1, <1>2 DEF vars, scheduler, timers, walk, ghosts, TypeOK
  <2>2. QED
    BY <2>1, TimingSafe
<1>3. CASE Script
  BY <1>1, <1>3, ScriptTypeOK, ScriptSafe
<1>4. CASE Think
  BY <1>1, <1>4, ThinkTypeOK, ThinkSafe
<1>5. CASE Host
  BY <1>1, <1>5, HostTypeOK, HostSafe
<1>6. QED
  BY <1>2, <1>3, <1>4, <1>5 DEF Next

(* As long as scripts do not remove the neighbours of the executing timer  *)
(* and do not clear the list during Think, the invariant holds.            *)
THEOREM InvariantHolds == ASSUME Disciplined PROVE Spec => []SafeInv
<1>1. Init => SafeInv
  BY InitSafe
<1>2. SafeInv /\ [Next]_vars => SafeInv'
  BY SafeInvStep
<1>3. QED
  BY <1>1, <1>2, PTL DEF Spec

(* Then no step dereferences a deleted timer or calls the function of a    *)
(* removed one, every list and handle has its reference, no timer is lost  *)
(* or in two lists, and the merge at the end of Think finds the last timer.*)
THEOREM MemorySafe ==
  ASSUME Disciplined
  PROVE  Spec => [](NoFault /\ RefsCover /\ ListsHoldTimers /\ LastIsTail)
<1>1. SafeInv => NoFault /\ RefsCover /\ ListsHoldTimers /\ LastIsTail
  BY DEF SafeInv, WalkInStep, LastIsTail
<1>2. QED
  BY <1>1, InvariantHolds, PTL

-----------------------------------------------------------------------------
(* Which timers are removed, and that those asked for are.                 *)

(* The flag is raised for the executing timer and lowered when its         *)
(* function returns.                                                       *)
LEMMA FlagStep ==
  ASSUME Disciplined, SafeInv, SafeInv', FlagIsForCurrent, [Next]_vars
  PROVE  FlagIsForCurrent'
<1> USE DEF FlagIsForCurrent, scheduler, timers, walk, ghosts
<1>1. /\ fault = "none" /\ fault' = "none" /\ requested \subseteq Timer
      /\ pc = "idle" => current = NoTimer
      /\ pc = "calling" => current = pNext /\ pNext # NoTimer
      /\ Reach(head) \subseteq Timer /\ NoTimer \notin Timer
      /\ shouldRemove \in BOOLEAN
  BY TimerAssumption, ReachTimers
     DEF SafeInv, NoFault, TypeOK, WalkInStep, CallHasTimer, Reach
<1>2. pc = "calling" => ~Free(current)
  BY <1>1, WalkPointers
<1>3. CASE UNCHANGED vars
  BY <1>3 DEF vars
<1>4. CASE Host
  BY <1>4 DEF Host, Tick, AdjustTime
<1>5. CASE Think
  <2>1. CASE CallReturn
    <3>1. pNext # NoTimer /\ pc # "idle"
      BY <1>1, <2>1 DEF CallReturn
    <3>2. ~Free(pNext) /\ ~Dangling(pLast)
      BY <3>1, WalkPointers
    <3>3. shouldRemove' = FALSE \/ (~shouldRemove /\ UNCHANGED shouldRemove)
      BY <2>1, <3>2 DEF CallReturn
    <3>4. QED
      BY <3>3
  <2>2. CASE ThinkStart \/ BadTimer \/ RemoveExhausted \/ Skip \/ Call \/ ThinkEnd
    <3>1. pc # "calling" /\ shouldRemove' = shouldRemove
      BY <2>2 DEF ThinkStart, BadTimer, AtTimer, RemoveExhausted, Skip,
           Call, ThinkEnd
    <3>2. shouldRemove' = FALSE
      BY <1>1, <3>1
    <3>3. QED
      BY <3>2
  <2>3. QED
    BY <1>5, <2>1, <2>2 DEF Think
<1>6. CASE Script
  <2>1. ASSUME NEW t \in Timer, NEW delay \in Delays, NEW count \in Counts,
               NEW keep \in BOOLEAN, Schedule(t, delay, count, keep)
        PROVE  FlagIsForCurrent'
    BY <1>1, <1>2, <2>1 DEF Schedule
  <2>2. ASSUME NEW t \in Timer, RemoveTimer(t)
        PROVE  FlagIsForCurrent'
    <3>1. CASE shouldRemove' = shouldRemove
      BY <1>1, <2>2, <3>1 DEF RemoveTimer
    <3>2. CASE t \in Reach(head) /\ t = current
      <4>1. ~removed[t]
        BY <3>2, Listed DEF SafeInv
      <4>2. t \in requested' /\ pc' = pc /\ current' = current
        BY <2>2, <4>1 DEF RemoveTimer
      <4>3. pc = "calling"
        BY <1>1, <2>2, <3>2 DEF RemoveTimer, ScriptRuns
      <4>4. QED
        BY <3>2, <4>2, <4>3
    <3>3. QED
      BY <2>2, <3>1, <3>2 DEF RemoveTimer, Executing
  <2>3. CASE \/ \E t \in Timer : UseStaleHandle(t) \/ DropHandle(t)
             \/ GetCurrentFunction \/ ClearTimerList
    <3>1. UNCHANGED <<current, shouldRemove, pc, requested>>
      BY <2>3 DEF UseStaleHandle, DropHandle, GetCurrentFunction,
           ClearTimerList
    <3>2. QED
      BY <1>1, <3>1
  <2>4. ASSUME NEW t \in Timer, NEW timingOfT, Amend(t, timingOfT)
        PROVE  FlagIsForCurrent'
    BY <1>1, <2>4 DEF Amend
  <2>5. QED
    BY <1>6, <2>1, <2>2, <2>3, <2>4 DEF Script, SetNextCallTime, SetRepeatTime,
       SetRepeatCount, MakeInfiniteRepeat
<1>7. QED
  BY <1>3, <1>4, <1>5, <1>6 DEF Next

(* The removal flag never outlives the call it was raised in: no timer is  *)
(* removed in the place of another.                                        *)
THEOREM FlagHolds == ASSUME Disciplined PROVE Spec => []FlagIsForCurrent
<1>1. Init => FlagIsForCurrent
  BY DEF Init, FlagIsForCurrent
<1>2. SafeInv /\ SafeInv' /\ FlagIsForCurrent /\ [Next]_vars
        => FlagIsForCurrent'
  BY FlagStep
<1>3. QED
  BY <1>1, <1>2, InvariantHolds, PTL DEF Spec

(* Every step that removes a timer has a cause. *)
LEMMA CauseStep ==
  ASSUME Disciplined, SafeInv, SafeInv', FlagIsForCurrent, Next,
         NEW s \in Timer, ~removed[s], removed'[s]
  PROVE  s \in requested' \/ ShouldRemove(s) \/ ClearTimerList
<1> USE DEF scheduler, timers, walk, ghosts
<1>1. /\ fault = "none" /\ removed \in [Timer -> BOOLEAN]
      /\ pc = "calling" => current = pNext /\ pNext # NoTimer
  BY DEF SafeInv, NoFault, TypeOK, WalkInStep, CallHasTimer
<1>2. CASE Host
  BY <1>2 DEF Host, Tick, AdjustTime
<1>3. CASE Think
  <2>1. CASE CallReturn
    <3>1. pNext # NoTimer /\ pc # "idle" /\ current = pNext
      BY <1>1, <2>1 DEF CallReturn
    <3>2. ~Free(pNext) /\ ~Dangling(pLast)
      BY <3>1, WalkPointers
    <3>3. /\ shouldRemove \/ ShouldRemove(pNext)
          /\ removed' = [removed EXCEPT ![pNext] = TRUE]
          /\ requested' = requested
      BY <2>1, <3>2 DEF CallReturn, RemoveFunction
    <3>4. s = pNext
      BY <1>1, <3>3
    <3>5. shouldRemove => s \in requested
      BY <1>1, <3>1, <3>4 DEF FlagIsForCurrent
    <3>6. QED
      BY <3>3, <3>4, <3>5
  <2>2. CASE RemoveExhausted
    BY <1>1, <2>2 DEF RemoveExhausted, RemoveFunction
  <2>3. CASE ThinkStart \/ BadTimer \/ Skip \/ Call \/ ThinkEnd
    BY <2>3 DEF ThinkStart, BadTimer, Skip, Call, ThinkEnd
  <2>4. QED
    BY <1>3, <2>1, <2>2, <2>3 DEF Think
<1>4. CASE Script
  <2>1. ASSUME NEW t \in Timer, NEW delay \in Delays, NEW count \in Counts,
               NEW keep \in BOOLEAN, Schedule(t, delay, count, keep)
        PROVE  FALSE
    BY <1>1, <2>1 DEF Schedule
  <2>2. ASSUME NEW t \in Timer, RemoveTimer(t)
        PROVE  s \in requested'
    <3>1. removed' = [removed EXCEPT ![t] = TRUE]
      BY <2>2 DEF RemoveTimer, RemoveFunction
    <3>2. s = t
      BY <1>1, <3>1
    <3>3. QED
      BY <2>2, <3>2 DEF RemoveTimer
  <2>3. CASE \/ \E t \in Timer : UseStaleHandle(t) \/ DropHandle(t)
             \/ GetCurrentFunction
    BY <2>3 DEF UseStaleHandle, DropHandle, GetCurrentFunction
  <2>4. ASSUME NEW t \in Timer, NEW timingOfT, Amend(t, timingOfT)
        PROVE  FALSE
    BY <2>4 DEF Amend
  <2>5. QED
    BY <1>4, <2>1, <2>2, <2>3, <2>4 DEF Script, SetNextCallTime, SetRepeatTime,
       SetRepeatCount, MakeInfiniteRepeat
<1>5. QED
  BY <1>2, <1>3, <1>4 DEF Next

(* A timer leaves the lists only when a script asked for it, when its      *)
(* calls are used up, or when the whole list is cleared.                   *)
THEOREM RemovalHasCause == ASSUME Disciplined PROVE Spec => RemovedForCause
<1>1. SafeInv /\ SafeInv' /\ FlagIsForCurrent /\ [Next]_vars =>
        [\A t \in Timer : ~removed[t] /\ removed'[t] =>
           t \in requested' \/ ShouldRemove(t) \/ ClearTimerList]_vars
  BY CauseStep
<1>2. QED
  BY <1>1, InvariantHolds, FlagHolds, PTL DEF Spec, RemovedForCause

(* What was asked for stays removed, or flagged, until the cell is reused. *)
LEMMA RequestStep ==
  ASSUME Disciplined, "fresh" \notin Misuse, SafeInv, SafeInv',
         FlagIsForCurrent, RemoveTimerRemoves, [Next]_vars
  PROVE  RemoveTimerRemoves'
<1> USE DEF scheduler, timers, walk, ghosts
<1>1. /\ fault = "none" /\ requested \subseteq Timer
      /\ removed \in [Timer -> BOOLEAN] /\ shouldRemove \in BOOLEAN
      /\ pc = "calling" => current = pNext /\ pNext # NoTimer
      /\ shouldRemove => pc = "calling" /\ current \in requested
      /\ Reach(head) \subseteq Timer
  BY ReachTimers DEF SafeInv, NoFault, TypeOK, WalkInStep, CallHasTimer, Reach,
       FlagIsForCurrent
<1>2. \A t \in requested : removed[t] \/ (t = current /\ shouldRemove)
  BY <1>1 DEF RemoveTimerRemoves
<1>3. ASSUME UNCHANGED requested, \A t \in Timer : removed[t] => removed'[t],
             UNCHANGED <<current, shouldRemove>>
      PROVE  RemoveTimerRemoves'
  BY <1>1, <1>2, <1>3 DEF RemoveTimerRemoves
<1>4. CASE UNCHANGED vars
  BY <1>3, <1>4 DEF vars
<1>5. CASE Host
  BY <1>3, <1>5 DEF Host, Tick, AdjustTime
<1>6. CASE Think
  <2>1. CASE CallReturn
    <3>1. pNext # NoTimer /\ pc # "idle" /\ current = pNext
      BY <1>1, <2>1 DEF CallReturn
    <3>2. ~Free(pNext) /\ ~Dangling(pLast) /\ pNext \in Timer
      BY <3>1, WalkPointers
    <3>3. /\ requested' = requested
          /\ \/ removed' = [removed EXCEPT ![pNext] = TRUE]
             \/ ~shouldRemove /\ UNCHANGED removed
      BY <2>1, <3>2 DEF CallReturn, RemoveFunction
    <3>4. \A t \in requested : removed'[t]
      BY <1>1, <1>2, <3>1, <3>2, <3>3
    <3>5. QED
      BY <3>3, <3>4 DEF RemoveTimerRemoves
  <2>2. CASE ThinkStart \/ BadTimer \/ RemoveExhausted \/ Skip \/ Call \/ ThinkEnd
    <3>1. /\ \A t \in requested : removed[t]
          /\ UNCHANGED requested
          /\ \A t \in Timer : removed[t] => removed'[t]
      BY <1>1, <1>2, <2>2 DEF ThinkStart, BadTimer, AtTimer, RemoveExhausted,
           RemoveFunction, Skip, Call, ThinkEnd
    <3>2. QED
      BY <1>1, <3>1 DEF RemoveTimerRemoves
  <2>3. QED
    BY <1>6, <2>1, <2>2 DEF Think
<1>7. CASE Script
  <2>1. ASSUME NEW t \in Timer, NEW delay \in Delays, NEW count \in Counts,
               NEW keep \in BOOLEAN, Schedule(t, delay, count, keep)
        PROVE  RemoveTimerRemoves'
    <3>1. /\ requested' = requested \ {t}
          /\ removed' = [removed EXCEPT ![t] = FALSE]
          /\ UNCHANGED <<current, shouldRemove>>
      BY <2>1 DEF Schedule
    <3>2. QED
      BY <1>1, <1>2, <3>1 DEF RemoveTimerRemoves
  <2>2. ASSUME NEW t \in Timer, RemoveTimer(t)
        PROVE  RemoveTimerRemoves'
    <3>1. /\ current' = current
          /\ requested' = IF removed[t] THEN requested ELSE requested \cup {t}
          /\ t \notin Reach(thinkHead)
      BY <2>2 DEF RemoveTimer, MayRemove
    <3>2. CASE t \in Reach(head) /\ t = current /\ shouldRemove' = TRUE
               /\ UNCHANGED removed
      BY <1>1, <1>2, <3>1, <3>2 DEF RemoveTimerRemoves
    <3>3. CASE removed' = [removed EXCEPT ![t] = TRUE] /\ UNCHANGED shouldRemove
      BY <1>1, <1>2, <3>1, <3>3 DEF RemoveTimerRemoves
    <3>4. CASE t \notin Reach(head) /\ UNCHANGED <<shouldRemove, removed>>
      <4>1. removed[t]
        BY <3>1, <3>4, Listed DEF SafeInv
      <4>2. QED
        BY <1>3, <3>1, <3>4, <4>1
    <3>5. QED
      BY <2>2, <3>2, <3>3, <3>4 DEF RemoveTimer, Executing, RemoveFunction
  <2>3. CASE \/ \E t \in Timer : UseStaleHandle(t) \/ DropHandle(t)
             \/ GetCurrentFunction
    BY <1>3, <2>3 DEF UseStaleHandle, DropHandle, GetCurrentFunction
  <2>4. CASE ClearTimerList
    BY <1>1, <1>3, <2>4 DEF ClearTimerList
  <2>5. ASSUME NEW t \in Timer, NEW timingOfT, Amend(t, timingOfT)
        PROVE  RemoveTimerRemoves'
    BY <1>3, <2>5 DEF Amend
  <2>6. QED
    BY <1>7, <2>1, <2>2, <2>3, <2>4, <2>5 DEF Script, SetNextCallTime,
       SetRepeatTime, SetRepeatCount, MakeInfiniteRepeat
<1>8. QED
  BY <1>4, <1>5, <1>6, <1>7 DEF Next

(* A timer a script asked to remove is removed at once, or when the call   *)
(* in progress, which is its own, returns: unless it was scheduled during  *)
(* the same activation of Think.                                           *)
THEOREM RequestedIsRemoved ==
  ASSUME Disciplined, "fresh" \notin Misuse
  PROVE  Spec => []RemoveTimerRemoves
<1>1. Init => RemoveTimerRemoves
  BY DEF Init, RemoveTimerRemoves
<1>2. SafeInv /\ SafeInv' /\ FlagIsForCurrent /\ RemoveTimerRemoves /\ [Next]_vars
        => RemoveTimerRemoves'
  BY RequestStep
<1>3. QED
  BY <1>1, <1>2, InvariantHolds, FlagHolds, PTL DEF Spec

-----------------------------------------------------------------------------
(* Each activation of Think calls a timer once.                            *)

(* A list in which at most one link leads to each timer, and none to its   *)
(* first, has no cycle: the walk behind a timer does not come back to it.  *)
LEMMA NoCycle ==
  ASSUME NEW links \in [Timer -> Pointer], NEW first \in Pointer,
         Single(links, first, ReachIn(links, first)),
         NEW t \in ReachIn(links, first)
  PROVE  t \notin ReachIn(links, links[t])
<1> DEFINE R == ReachIn(links, first)
           C == ReachIn(links, links[t])
           S == R \ C
<1>1. SUFFICES ASSUME t \in C PROVE FALSE
  OBVIOUS
<1>2. R \in SUBSET Timer /\ C \in SUBSET Timer /\ S \in SUBSET Timer
  BY ReachTimers
<1>3. links[t] \in Pointer /\ \A s \in R : links[s] = NoTimer \/ links[s] \in R
  BY <1>2, ReachNext DEF Pointer
<1>4. C \subseteq R
  <2>1. links[t] = NoTimer \/ links[t] \in R
    BY <1>3
  <2> HIDE DEF R
  <2> QED BY <1>2, <1>3, <2>1, ReachWithin
<1>5. \A c \in C : \E p \in C : links[p] = c
  <2> SUFFICES ASSUME NEW c \in C PROVE \E p \in C : links[p] = c
    OBVIOUS
  <2>1. CASE c = links[t]
    BY <1>1, <2>1
  <2>2. CASE c # links[t]
    BY <1>3, <2>2, ReachPred
  <2> QED BY <2>1, <2>2
<1>6. first = NoTimer \/ first \in S
  <2>1. first = NoTimer \/ first \in R
    BY ReachFirst DEF Pointer
  <2>2. first \in C => FALSE
    BY <1>2, <1>4, <1>5, TimerAssumption DEF Single
  <2> QED BY <2>1, <2>2
<1>7. \A s \in S : links[s] = NoTimer \/ links[s] \in S
  BY <1>2, <1>3, <1>4, <1>5, TimerAssumption DEF Single
<1> HIDE DEF S
<1>8. R \subseteq S
  BY <1>2, <1>6, <1>7, ReachWithin
<1> QED BY <1>1, <1>8 DEF S

(* No timer that the walk has not come to has been called.                 *)
AheadUncalled == pc # "idle" => Ahead \cap called = {}

(* Nothing comes to be ahead of the walk when it goes on from a timer that *)
(* was ahead, and links there are left alone, cut or moved forward.        *)
LEMMA AheadShrinks ==
  ASSUME AheadUncalled, pc # "idle", called' \subseteq called,
         NEW first, first = NoTimer \/ first \in Ahead,
         Ahead' = ReachIn(next', first),
         \A s \in Ahead : next'[s] = NoTimer \/ next'[s] \in Ahead
  PROVE  AheadUncalled'
<1>1. Ahead \in SUBSET Timer
  BY ReachTimers DEF Ahead, Reach
<1>2. ReachIn(next', first) \subseteq Ahead
  BY <1>1, ReachWithin
<1> QED BY <1>2 DEF AheadUncalled

(* What is ahead of the walk is in the main list, and stays so.            *)
LEMMA AheadListed ==
  ASSUME SafeInv, pc # "idle"
  PROVE  /\ Ahead \subseteq Reach(head) /\ Ahead \subseteq Timer
         /\ \A s \in Ahead : next[s] = NoTimer \/ next[s] \in Ahead
         /\ pc = "calling" => next[pNext] = NoTimer \/ next[pNext] \in Ahead
         /\ pc = "iterate" /\ pNext # NoTimer =>
              pNext \in Ahead /\ (next[pNext] = NoTimer \/ next[pNext] \in Ahead)
<1> DEFINE first == IF pc = "calling" THEN next[pNext] ELSE pNext
<1>1. /\ next \in [Timer -> Pointer] /\ pNext \in Pointer
      /\ pc = "calling" => pNext \in Timer
  BY DEF SafeInv, TypeOK, CallHasTimer, Pointer
<1>2. Reach(head) \in SUBSET Timer /\ Ahead \in SUBSET Timer
  BY ReachTimers DEF Reach, Ahead
<1>3. \A s \in Reach(head) : next[s] = NoTimer \/ next[s] \in Reach(head)
  BY Listed DEF SafeInv
<1>4. first = NoTimer \/ first \in Reach(head)
  BY <1>1, WalkPointers DEF SafeInv, WalkInStep, CallHasTimer
<1>5. Ahead = ReachIn(next, first)
  BY DEF Ahead, Reach
<1>6. first \in Pointer
  BY <1>1
<1> HIDE DEF first
<1>7. Ahead \subseteq Reach(head)
  BY <1>2, <1>3, <1>4, <1>5, ReachWithin
<1>8. \A s \in Ahead : next[s] = NoTimer \/ next[s] \in Ahead
  BY <1>1, <1>2, <1>5, ReachNext DEF Pointer
<1>9. first = NoTimer \/ first \in Ahead
  BY <1>5, <1>6, ReachFirst DEF Pointer
<1> QED BY <1>2, <1>7, <1>8, <1>9 DEF first

(* Removal of a timer of the main list moves links forward.                *)
LEMMA UnlinkForward ==
  ASSUME SafeInv, pc # "idle", NEW t \in Timer, NEW gained, NEW pred \in Pointer,
         pred # NoTimer => next[pred] = t, RemoveFunction(pred, t, gained),
         NEW s \in Timer, s \in Ahead \/ next[s] = NoTimer \/ next[s] \in Ahead
  PROVE  next'[s] = NoTimer \/ next'[s] \in Ahead
<1>1. next'[s] \in {NoTimer, next[s]} \/ (s = pred /\ pred # NoTimer /\ next'[s] = next[t])
  BY DEF RemoveFunction, Unlink, Scrubbed, SafeInv, TypeOK, Pointer
<1>2. \A r \in Ahead : next[r] = NoTimer \/ next[r] \in Ahead
  BY AheadListed
<1>3. t # NoTimer
  BY TimerAssumption
<1> QED BY <1>1, <1>2, <1>3

(* What scripts do while Think calls them.                                 *)
LEMMA ScriptForward ==
  ASSUME Disciplined, SafeInv, SafeInv', Script, pc = "calling",
         NEW s \in Timer, s \in Ahead \/ s = pNext
  PROVE  next'[s] = NoTimer \/ next'[s] \in Ahead
<1>1. /\ fault = "none" /\ fault' = "none" /\ next \in [Timer -> Pointer]
      /\ pNext \in Reach(head) /\ Reach(head) \subseteq Timer
      /\ NoTimer \notin Timer
  BY WalkPointers, ReachTimers, TimerAssumption
     DEF SafeInv, NoFault, TypeOK, CallHasTimer, Reach
<1>2. /\ s \in Reach(head) /\ ~Free(s)
      /\ next[s] = NoTimer \/ next[s] \in Ahead
  BY <1>1, AheadListed, Listed, ListedNotFree DEF SafeInv
<1>3. ASSUME next'[s] = NoTimer \/ next'[s] = next[s]
      PROVE  next'[s] = NoTimer \/ next'[s] \in Ahead
  BY <1>2, <1>3
<1>4. ASSUME NEW t \in Timer, NEW delay \in Delays, NEW count \in Counts,
             NEW keep \in BOOLEAN, Schedule(t, delay, count, keep)
      PROVE  next'[s] = next[s]
  BY <1>1, <1>2, <1>4 DEF Schedule
<1>5. ASSUME NEW t \in Timer, UseStaleHandle(t)
      PROVE  FALSE
  BY <1>1, <1>5 DEF UseStaleHandle
<1>6. ASSUME NEW t \in Timer, DropHandle(t)
      PROVE  next'[s] = NoTimer \/ next'[s] = next[s]
  BY <1>6 DEF DropHandle, Scrubbed
<1>7. ASSUME NEW t \in Timer, RemoveTimer(t)
      PROVE  next'[s] = NoTimer \/ next'[s] \in Ahead
  <2>1. CASE UNCHANGED next
    BY <1>3, <2>1
  <2>2. CASE \E pred \in IF t = head THEN {NoTimer} ELSE {p \in Reach(head) : next[p] = t} :
               RemoveFunction(pred, t, 1)
    <3>1. PICK pred \in IF t = head THEN {NoTimer} ELSE {p \in Reach(head) : next[p] = t} :
                 RemoveFunction(pred, t, 1)
      BY <2>2
    <3>2. pred \in Pointer /\ (pred # NoTimer => next[pred] = t)
      BY <1>1, <3>1 DEF Pointer
    <3> QED BY <1>2, <3>1, <3>2, UnlinkForward
  <2> QED BY <1>7, <2>1, <2>2 DEF RemoveTimer
<1>8. ASSUME ClearTimerList
      PROVE  FALSE
  BY <1>8 DEF ClearTimerList, Disciplined
<1>9. ASSUME GetCurrentFunction \/ \E t \in Timer : \E new : Amend(t, new)
      PROVE  next'[s] = next[s]
  BY <1>9 DEF GetCurrentFunction, Amend
<1> QED BY <1>3, <1>4, <1>5, <1>6, <1>7, <1>8, <1>9
        DEF Script, SetNextCallTime, SetRepeatTime, SetRepeatCount, MakeInfiniteRepeat

LEMMA AheadStep ==
  ASSUME Disciplined, SafeInv, SafeInv', AheadUncalled, [Next]_vars
  PROVE  AheadUncalled'
<1> USE DEF scheduler, timers, walk, ghosts
<1>1. /\ fault = "none" /\ fault' = "none" /\ next \in [Timer -> Pointer]
      /\ NoTimer \notin Timer
      /\ pc \in {"idle", "iterate", "calling"}
      /\ pNext \in Pointer /\ pLast \in Pointer
      /\ pc = "calling" => pNext # NoTimer
  BY TimerAssumption DEF SafeInv, NoFault, TypeOK, CallHasTimer
<1>2. ASSUME pc' = "idle" PROVE AheadUncalled'
  BY <1>2 DEF AheadUncalled
<1>3. CASE UNCHANGED vars
  BY <1>3 DEF vars, AheadUncalled, Ahead, Reach
<1>4. CASE Script
  <2>1. /\ pc \in {"idle", "calling"} /\ pc' = pc /\ pNext' = pNext
        /\ called' \subseteq called
    BY <1>4 DEF Script, ScriptRuns, Schedule, UseStaleHandle, DropHandle, RemoveTimer,
         GetCurrentFunction, ClearTimerList, Amend, SetNextCallTime, SetRepeatTime,
         SetRepeatCount, MakeInfiniteRepeat
  <2>2. CASE pc = "calling"
    <3> DEFINE first == next'[pNext]
    <3>1. pNext \in Timer
      BY <1>1, <2>2 DEF Pointer
    <3>2. first = NoTimer \/ first \in Ahead
      BY <1>4, <2>2, <3>1, ScriptForward
    <3>3. \A s \in Ahead : next'[s] = NoTimer \/ next'[s] \in Ahead
      BY <1>4, <2>2, ScriptForward, AheadListed
    <3>4. Ahead' = ReachIn(next', first)
      BY <2>1, <2>2 DEF Ahead, Reach
    <3> HIDE DEF first
    <3> QED BY <2>1, <2>2, <3>2, <3>3, <3>4, AheadShrinks
  <2> QED BY <1>2, <2>1, <2>2
<1>5. CASE Host
  BY <1>2, <1>5 DEF Host, Tick, AdjustTime
<1>6. CASE Think
  <2>1. ASSUME pc # "idle", pNext # NoTimer, pc' = "iterate", pNext' = next[pNext],
               called' = called,
               UNCHANGED next \/ RemoveFunction(pLast, pNext, 0)
        PROVE  AheadUncalled'
    <3> DEFINE first == next[pNext]
    <3>1. /\ pNext \in Timer /\ (pLast # NoTimer => next[pLast] = pNext)
      BY <2>1, WalkPointers
    <3>2. first = NoTimer \/ first \in Ahead
      BY <1>1, <2>1, AheadListed
    <3>3. ASSUME NEW s \in Ahead PROVE next'[s] = NoTimer \/ next'[s] \in Ahead
      <4>1. s \in Timer /\ (next[s] = NoTimer \/ next[s] \in Ahead)
        BY <2>1, AheadListed
      <4> QED BY <1>1, <2>1, <3>1, <4>1, UnlinkForward
    <3>4. Ahead' = ReachIn(next', first)
      BY <2>1 DEF Ahead, Reach
    <3> HIDE DEF first
    <3> QED BY <2>1, <3>2, <3>3, <3>4, AheadShrinks
  <2>2. CASE ThinkStart
    BY <2>2 DEF ThinkStart, AheadUncalled
  <2>3. CASE BadTimer
    BY <1>1, <2>3 DEF BadTimer
  <2>4. CASE RemoveExhausted
    BY <2>1, <2>4 DEF RemoveExhausted, AtTimer
  <2>5. CASE Skip
    BY <2>1, <2>5 DEF Skip, AtTimer
  <2>6. CASE Call
    <3>1. /\ pc = "iterate" /\ pNext # NoTimer /\ pc' = "calling" /\ pNext' = pNext
          /\ next' = next /\ called' = called \cup {pNext}
      BY <2>6 DEF Call, AtTimer
    <3>2. /\ pNext \in ReachIn(next, head) /\ head \in Pointer
          /\ Single(next, head, ReachIn(next, head))
      BY <3>1, WalkPointers, MainSingle DEF SafeInv, TypeOK, Reach
    <3>3. pNext \notin ReachIn(next, next[pNext])
      BY <1>1, <3>2, NoCycle
    <3>4. Ahead' = ReachIn(next, next[pNext])
      BY <3>1 DEF Ahead, Reach
    <3>5. Ahead' \subseteq Ahead
      <4>1. /\ Ahead \in SUBSET Timer
            /\ next[pNext] = NoTimer \/ next[pNext] \in Ahead
            /\ \A s \in Ahead : next[s] = NoTimer \/ next[s] \in Ahead
        BY <3>1, AheadListed
      <4> QED BY <3>4, <4>1, ReachWithin
    <3> QED BY <3>1, <3>3, <3>4, <3>5 DEF AheadUncalled
  <2>7. CASE CallReturn
    <3>1. pc = "calling" /\ pNext # NoTimer /\ pNextNext = next[pNext]
      BY <2>7 DEF CallReturn, SafeInv, CallHasTimer, WalkInStep
    <3>2. ~Free(pNext) /\ ~Dangling(pLast)
      BY <3>1, WalkPointers
    <3> QED BY <2>1, <2>7, <3>1, <3>2 DEF CallReturn, Following
  <2>8. CASE ThinkEnd
    BY <1>2, <2>8 DEF ThinkEnd
  <2> QED BY <1>6, <2>2, <2>3, <2>4, <2>5, <2>6, <2>7, <2>8 DEF Think
<1> QED BY <1>3, <1>4, <1>5, <1>6 DEF Next

(* One activation of Think calls no timer twice, and none that was         *)
(* scheduled meanwhile.                                                    *)
THEOREM CallsOnce == ASSUME Disciplined PROVE Spec => CalledOncePerThink
<1>1. Init => AheadUncalled
  BY DEF Init, AheadUncalled
<1>2. SafeInv /\ SafeInv' /\ AheadUncalled /\ [Next]_vars => AheadUncalled'
  BY AheadStep
<1>3. SafeInv /\ AheadUncalled /\ Call => pNext \notin called \cup Reach(thinkHead)
  <2> SUFFICES ASSUME SafeInv, AheadUncalled, Call
               PROVE  pNext \notin called \cup Reach(thinkHead)
    OBVIOUS
  <2>1. pc = "iterate" /\ pNext # NoTimer
    BY DEF Call, AtTimer
  <2>2. pNext \in Ahead /\ pNext \in Reach(head)
    BY <2>1, AheadListed
  <2> QED BY <2>1, <2>2 DEF AheadUncalled, SafeInv, ListsHoldTimers
<1>4. SafeInv /\ AheadUncalled /\ [Next]_vars =>
        [Call => pNext \notin called \cup Reach(thinkHead)]_vars
  BY <1>3
<1> QED BY <1>1, <1>2, <1>4, InvariantHolds, PTL DEF Spec, CalledOncePerThink

(* References cover lists and handles.                                     *)
THEOREM ReferencesCover == ASSUME Disciplined PROVE Spec => []RefsCover
<1>1. SafeInv => RefsCover
  BY DEF SafeInv
<1> QED BY <1>1, InvariantHolds, PTL

-----------------------------------------------------------------------------
(* The lists are a set of timers.                                          *)

(* Where the walk goes on.                                                 *)
Onward == IF pc = "calling" THEN next[pNext] ELSE pNext

(* The timer that the walk is at is not ahead of it.                       *)
LEMMA BehindWalk ==
  ASSUME SafeInv, NEW t \in Reach(head)
  PROVE  t \notin Reach(next[t])
<1>1. /\ next \in [Timer -> Pointer] /\ head \in Pointer
      /\ Single(next, head, ReachIn(next, head)) /\ t \in ReachIn(next, head)
  BY MainSingle DEF SafeInv, TypeOK, Reach
<1> QED BY <1>1, NoCycle DEF Reach

(* What is ahead is a list of its own, within the main list.               *)
LEMMA AheadSingle ==
  ASSUME SafeInv, pc # "idle"
  PROVE  /\ Onward \in Pointer /\ Ahead = ReachIn(next, Onward)
         /\ Single(next, Onward, ReachIn(next, Onward))
         /\ pc = "calling" => pNext \notin Ahead
         /\ pc = "iterate" /\ pLast # NoTimer => pLast \notin Ahead
<1>1. /\ next \in [Timer -> Pointer] /\ pNext \in Pointer /\ pc \in {"iterate", "calling"}
      /\ pc = "calling" => pNext \in Timer /\ pNext \in Reach(head)
      /\ pc = "iterate" => Onward = pNext
      /\ pc = "calling" => Onward = next[pNext]
      /\ pNext = head \/ (pLast \in Reach(head) /\ next[pLast] = pNext)
      /\ pLast # NoTimer => pLast \in Reach(head) /\ next[pLast] = pNext
  BY DEF SafeInv, TypeOK, CallHasTimer, Pointer, WalkInStep, Onward
<1>2. Onward \in Pointer /\ Ahead = ReachIn(next, Onward) /\ Ahead = Reach(Onward)
  BY <1>1 DEF Ahead, Reach, Onward
<1>3. pc = "calling" => pNext \notin Ahead
  BY <1>1, <1>2, BehindWalk
<1>4. pc = "iterate" /\ pLast # NoTimer => pLast \notin Ahead
  BY <1>1, <1>2, BehindWalk
<1>5. Ahead \subseteq Reach(head) /\ Single(next, head, Reach(head))
  BY AheadListed, MainSingle DEF SafeInv
<1>6. ASSUME NEW s \in Ahead, next[s] # NoTimer PROVE next[s] # Onward
  <2>1. \A r \in Reach(head) : next[r] = next[s] => r = s
    BY <1>5, <1>6 DEF Single
  <2>2. next[s] # head
    BY <1>5, <1>6 DEF Single
  <2>3. CASE pc = "calling"
    BY <1>1, <1>3, <2>1, <2>3
  <2>4. CASE pc = "iterate"
    BY <1>1, <1>4, <2>1, <2>2, <2>4, TimerAssumption, ReachTimers DEF Reach
  <2> QED BY <1>1, <2>3, <2>4
<1>7. Single(next, Onward, Ahead)
  BY <1>5, <1>6 DEF Single
<1> QED BY <1>2, <1>3, <1>4, <1>7

(* Links of timers that are not removed stay: so do the three lists.       *)
LEMMA ListsStay ==
  ASSUME SafeInv, TypeOK', UNCHANGED <<pc, pNext>>,
         \A t \in Timer : ~removed[t] => next'[t] = next[t]
  PROVE  /\ head' = head => Reach(head)' = Reach(head)
         /\ thinkHead' = thinkHead => Reach(thinkHead)' = Reach(thinkHead)
         /\ Pending' = Pending
<1>1. /\ next \in [Timer -> Pointer] /\ next' \in [Timer -> Pointer]
      /\ head \in Pointer /\ thinkHead \in Pointer
  BY DEF SafeInv, TypeOK
<1>2. /\ \A t \in ReachIn(next, head) : next'[t] = next[t]
      /\ \A t \in ReachIn(next, thinkHead) : next'[t] = next[t]
  BY ReachTimers, Listed DEF Reach, SafeInv
<1>3. /\ ReachIn(next', head) = ReachIn(next, head)
      /\ ReachIn(next', thinkHead) = ReachIn(next, thinkHead)
  BY <1>1, <1>2, ReachSame
<1>4. CASE pc = "idle"
  BY <1>3, <1>4 DEF Reach, Pending
<1>5. CASE pc # "idle"
  <2>1. /\ Onward \in Pointer /\ Ahead = ReachIn(next, Onward)
        /\ Ahead \subseteq Reach(head)
        /\ pc = "calling" => pNext \in Reach(head)
    BY <1>5, AheadSingle, AheadListed DEF SafeInv, WalkInStep, CallHasTimer
  <2>2. ReachIn(next', Onward) = ReachIn(next, Onward)
    BY <1>1, <1>2, <2>1, ReachSame DEF Reach
  <2>3. Ahead' = ReachIn(next', Onward)
    BY <1>2, <2>1 DEF Ahead, Reach, Onward
  <2> QED BY <1>3, <1>5, <2>1, <2>2, <2>3 DEF Pending, Reach
<1> QED BY <1>4, <1>5

(* When a timer of the main list is unlinked, it leaves what is ahead, and *)
(* nothing else does.                                                      *)
LEMMA AheadUnlinks ==
  ASSUME SafeInv, TypeOK', pc = "calling", UNCHANGED <<pc, pNext>>,
         NEW t \in Reach(head), t # pNext, t # next[pNext], NEW pred \in Pointer,
         pred = NoTimer => t = head,
         pred # NoTimer => pred \in Reach(head) /\ next[pred] = t,
         \A s \in Reach(head) \ {t} :
            next'[s] = IF s = pred THEN next[t] ELSE next[s]
  PROVE  Ahead' = Ahead \ {t}
<1>1. /\ next \in [Timer -> Pointer] /\ next' \in [Timer -> Pointer]
      /\ pNext \in Reach(head) /\ pred # pNext /\ NoTimer \notin Timer
      /\ Reach(head) \subseteq Timer
  BY ReachTimers, TimerAssumption DEF SafeInv, TypeOK, WalkInStep, CallHasTimer, Reach
<1>2. /\ Onward = next[pNext] /\ Onward \in Pointer /\ Ahead = ReachIn(next, Onward)
      /\ Single(next, Onward, ReachIn(next, Onward)) /\ Ahead \subseteq Reach(head)
      /\ \A s \in Ahead : next[s] = NoTimer \/ next[s] \in Ahead
  BY AheadSingle, AheadListed DEF Onward
<1>3. next'[pNext] = next[pNext]
  BY <1>1
<1>4. Ahead' = ReachIn(next', Onward)
  BY <1>2, <1>3 DEF Ahead, Reach
<1>5. CASE t \in Ahead
  <2>1. PICK p \in Ahead : next[p] = t
    BY <1>1, <1>2, <1>5, ReachPred
  <2>2. p = pred
    <3>1. Single(next, head, Reach(head))
      BY MainSingle DEF SafeInv
    <3>2. p \in Reach(head) /\ next[p] # NoTimer /\ next[p] # head
      BY <1>1, <1>2, <2>1, <3>1 DEF Single
    <3> QED BY <2>1, <3>1, <3>2 DEF Single
  <2>3. ReachIn(next', Onward) = ReachIn(next, Onward) \ {t}
    BY <1>1, <1>2, <1>5, <2>1, <2>2, ReachUnlink
  <2> QED BY <1>2, <1>4, <2>3
<1>6. CASE t \notin Ahead
  <2>1. pred \notin Ahead
    BY <1>1, <1>2, <1>6
  <2>2. \A s \in ReachIn(next, Onward) : next'[s] = next[s]
    BY <1>2, <1>6, <2>1
  <2>3. ReachIn(next', Onward) = ReachIn(next, Onward)
    BY <1>1, <1>2, <2>2, ReachSame
  <2> QED BY <1>2, <1>4, <1>6, <2>3
<1> QED BY <1>5, <1>6

(* The walk goes on: what is ahead is what was, but for the timer it was   *)
(* at, whether that is unlinked or not.                                    *)
LEMMA AheadGoesOn ==
  ASSUME SafeInv, TypeOK', pc # "idle", pNext # NoTimer, Onward' = next[pNext],
         \A s \in Ahead \ {pNext} : next'[s] = next[s], pc' # "idle"
  PROVE  Ahead' = Ahead \ {pNext}
<1>1. /\ next \in [Timer -> Pointer] /\ next' \in [Timer -> Pointer]
      /\ pNext \in Timer /\ next[pNext] \in Pointer
      /\ pc \in {"iterate", "calling"}
  BY DEF SafeInv, TypeOK, Pointer
<1>2. /\ Onward \in Pointer /\ Ahead = ReachIn(next, Onward)
      /\ Single(next, Onward, ReachIn(next, Onward))
      /\ pc = "calling" => pNext \notin Ahead
  BY AheadSingle
<1>3. ReachIn(next, next[pNext]) = Ahead \ {pNext}
  <2>1. CASE pc = "calling"
    BY <1>2, <2>1 DEF Onward
  <2>2. CASE pc = "iterate"
    BY <1>1, <1>2, <2>2, ReachBehead DEF Onward
  <2> QED BY <1>1, <2>1, <2>2
<1>4. ReachIn(next', next[pNext]) = ReachIn(next, next[pNext])
  BY <1>1, <1>3, ReachSame
<1>5. Ahead' = ReachIn(next', next[pNext])
  BY DEF Ahead, Reach, Onward
<1> QED BY <1>3, <1>4, <1>5

(* Timers that are not removed are in one of the lists.                    *)
LEMMA TimedFacts ==
  ASSUME SafeInv
  PROVE  /\ Reach(head) \subseteq Timer /\ Reach(thinkHead) \subseteq Timer
         /\ Pending \subseteq Reach(head)
         /\ \A t \in Timer : ~removed[t] <=> t \in Reach(head) \cup Reach(thinkHead)
         /\ Reach(head) \cap Reach(thinkHead) = {}
         /\ Planned \in [Timer -> [nextCall : Int, repeatTime : Nat, count : Int]]
         /\ \A t \in Timer : Planned[t] = IF removed[t] THEN NoTiming ELSE timing[t]
         /\ thinking = (pc # "idle") /\ pc \in {"idle", "iterate", "calling"}
         /\ pc = "idle" => Reach(thinkHead) = {} /\ Pending = {} /\ Running = NoTimer
         /\ pc = "iterate" => Running = NoTimer
         /\ pc = "calling" => /\ Running = pNext /\ current = pNext /\ pNext # NoTimer
                              /\ pNext \in Reach(head) /\ pNext \notin Pending
                              /\ pNextNext = next[pNext]
<1>1. /\ Reach(head) \subseteq Timer /\ Reach(thinkHead) \subseteq Timer
  BY ReachTimers DEF Reach
<1>2. Pending \subseteq Reach(head)
  BY AheadListed DEF Pending
<1>3. /\ \A t \in Timer : ~removed[t] <=> t \in Reach(head) \cup Reach(thinkHead)
      /\ Reach(head) \cap Reach(thinkHead) = {}
  BY DEF SafeInv, ListsHoldTimers
<1>4. /\ Planned \in [Timer -> [nextCall : Int, repeatTime : Nat, count : Int]]
      /\ \A t \in Timer : Planned[t] = IF removed[t] THEN NoTiming ELSE timing[t]
  BY DEF Planned, NoTiming, SafeInv, TypeOK
<1>5. /\ thinking = (pc # "idle") /\ pc \in {"idle", "iterate", "calling"}
      /\ pc = "idle" => Reach(thinkHead) = {} /\ Pending = {} /\ Running = NoTimer
      /\ pc = "iterate" => Running = NoTimer
  BY ReachNothing DEF SafeInv, WalkInStep, TypeOK, Pending, Running, Reach
<1>6. pc = "calling" => /\ Running = pNext /\ current = pNext /\ pNext # NoTimer
                        /\ pNext \in Reach(head) /\ pNext \notin Pending
                        /\ pNextNext = next[pNext]
  BY AheadSingle DEF SafeInv, WalkInStep, CallHasTimer, Running, Pending
<1> QED BY <1>1, <1>2, <1>3, <1>4, <1>5, <1>6

(* And so after a step.                                                    *)
LEMMA TimedAfter ==
  ASSUME SafeInv'
  PROVE  /\ \A t \in Timer : ~removed'[t] <=> t \in Reach(head)' \cup Reach(thinkHead)'
         /\ Reach(head)' \subseteq Timer /\ Reach(thinkHead)' \subseteq Timer
         /\ Reach(head)' \cap Reach(thinkHead)' = {}
         /\ pc' = "idle" => Reach(thinkHead)' = {}
<1>1. Reach(head)' \subseteq Timer /\ Reach(thinkHead)' \subseteq Timer
  BY ReachTimers DEF Reach
<1>2. pc' = "idle" => Reach(thinkHead)' = {}
  BY ReachNothing DEF SafeInv, WalkInStep, Reach
<1> QED BY <1>1, <1>2 DEF SafeInv, ListsHoldTimers

(* Nothing that Timers sees.                                               *)
LEMMA Unseen ==
  ASSUME SafeInv, SafeInv', UNCHANGED <<scheduler, removed, walk, clock>>,
         \A t \in Timer : ~removed[t] => next'[t] = next[t] /\ timing'[t] = timing[t]
  PROVE  UNCHANGED Timed!vars
<1>1. Reach(head)' = Reach(head) /\ Reach(thinkHead)' = Reach(thinkHead) /\ Pending' = Pending
  BY ListsStay DEF SafeInv, scheduler, walk
<1>2. Planned' = Planned /\ Running' = Running
  BY DEF Planned, Running, walk
<1> QED BY <1>1, <1>2 DEF Timed!vars, scheduler

LEMMA ScheduleTimed ==
  ASSUME SafeInv, SafeInv', NEW t \in Timer, NEW delay \in Delays, NEW count \in Counts,
         NEW keep \in BOOLEAN, Schedule(t, delay, count, keep)
  PROVE  Timed!Schedule(t)
<1>1. /\ pc \in {"idle", "calling"} /\ delay \in Nat /\ count \in Int
      /\ count # 0 /\ count >= RepeatInfinite /\ refs[t] = 0
      /\ removed' = [removed EXCEPT ![t] = FALSE]
      /\ timing' = [timing EXCEPT ![t] = [nextCall |-> lastTime + delay,
                                          repeatTime |-> delay, count |-> count]]
      /\ UNCHANGED <<current, thinking, shouldRemove, lastTime, pc, pLast, pNext, clock>>
      /\ IF thinking THEN thinkHead' = t /\ head' = head /\ next' = [next EXCEPT ![t] = thinkHead]
         ELSE head' = t /\ thinkHead' = thinkHead /\ next' = [next EXCEPT ![t] = head]
  BY DelaysAssumption, CountsAssumption DEF Schedule, ScriptRuns, Free, walk
<1>2. removed[t] /\ removed \in [Timer -> BOOLEAN] /\ timing \in [Timer -> [nextCall : Int, repeatTime : Nat, count : Int]]
      /\ next \in [Timer -> Pointer]
  BY <1>1 DEF SafeInv, RefsCover, TypeOK
<1>3. \A s \in Timer : ~removed[s] => next'[s] = next[s]
  BY <1>1, <1>2
<1>4. /\ head' = head => Reach(head)' = Reach(head)
      /\ thinkHead' = thinkHead => Reach(thinkHead)' = Reach(thinkHead)
      /\ Pending' = Pending
  BY <1>1, <1>3, ListsStay DEF SafeInv
<1>5. \A s \in Timer : ~removed'[s] <=> s = t \/ ~removed[s]
  BY <1>1, <1>2
<1>6. /\ Reach(head)' = IF thinking THEN Reach(head) ELSE Reach(head) \cup {t}
      /\ Reach(thinkHead)' = IF thinking THEN Reach(thinkHead) \cup {t} ELSE Reach(thinkHead)
      /\ t \notin Reach(head) \cup Reach(thinkHead)
  BY <1>1, <1>2, <1>4, <1>5, TimedFacts, TimedAfter DEF SafeInv, WalkInStep
<1>7. /\ Planned' = [Planned EXCEPT ![t] = [nextCall |-> lastTime + delay,
                                            repeatTime |-> delay, count |-> count]]
  BY <1>1, <1>2 DEF Planned
<1>8. /\ Planned'[t] = [nextCall |-> lastTime + delay, repeatTime |-> delay, count |-> count]
      /\ Planned' = [Planned EXCEPT ![t] = Planned'[t]]
  BY <1>7 DEF Planned
<1>9. Running' = Running /\ (thinking => Running # NoTimer)
  BY <1>1, TimedFacts DEF Running
<1> QED BY <1>1, <1>4, <1>6, <1>8, <1>9
        DEF Timed!Schedule, Timed!ScriptsRun, Timed!Retimed, RepeatInfinite

(* What scripts do without removing or scheduling.                         *)
LEMMA AmendTimed ==
  ASSUME SafeInv, SafeInv', NEW t \in Timer, NEW new, Amend(t, new)
  PROVE  Timed!Amend(t) \/ UNCHANGED Timed!vars
<1>1. /\ pc \in {"idle", "calling"} /\ timing' = [timing EXCEPT ![t] = new]
      /\ UNCHANGED <<scheduler, next, refs, removed, held, walk, clock, fault>>
  BY DEF Amend, ScriptRuns
<1>2. /\ Reach(head)' = Reach(head) /\ Reach(thinkHead)' = Reach(thinkHead) /\ Pending' = Pending
  BY <1>1, ListsStay DEF SafeInv, scheduler, walk
<1>3. timing' \in [Timer -> [nextCall : Int, repeatTime : Nat, count : Int]]
      /\ timing \in [Timer -> [nextCall : Int, repeatTime : Nat, count : Int]]
  BY DEF SafeInv, TypeOK
<1>4. CASE removed[t]
  <2>1. \A s \in Timer : ~removed[s] => next'[s] = next[s] /\ timing'[s] = timing[s]
    BY <1>1, <1>4
  <2> QED BY <1>1, <2>1, Unseen DEF scheduler, walk
<1>5. CASE ~removed[t]
  <2>1. /\ Planned' = [Planned EXCEPT ![t] = Planned'[t]]
        /\ Planned'[t].repeatTime >= 0
    <3>1. Planned' = [Planned EXCEPT ![t] = new] /\ timing'[t] = new
      BY <1>1, <1>3, <1>5 DEF Planned
    <3>2. Planned'[t] = new
      BY <3>1 DEF Planned
    <3>3. new.repeatTime \in Nat
      BY <1>3, <3>1
    <3>4. Planned' = [Planned EXCEPT ![t] = Planned'[t]]
      BY <3>1, <3>2
    <3>5. Planned'[t].repeatTime >= 0
      BY <3>2, <3>3
    <3> QED BY <3>4, <3>5
  <2>2. t \in Reach(head) \cup Reach(thinkHead)
    BY <1>5, TimedFacts
  <2>3. Running' = Running /\ (thinking => Running # NoTimer)
    BY <1>1, TimedFacts DEF Running, walk
  <2> QED BY <1>1, <1>2, <2>1, <2>2, <2>3
          DEF Timed!Amend, Timed!ScriptsRun, Timed!Retimed, scheduler
<1> QED BY <1>4, <1>5

LEMMA HandlesTimed ==
  ASSUME SafeInv, SafeInv', GetCurrentFunction \/ \E t \in Timer : DropHandle(t)
  PROVE  UNCHANGED Timed!vars
<1>1. /\ UNCHANGED <<scheduler, removed, walk, clock>>
      /\ \/ UNCHANGED <<next, timing>>
         \/ next' = Scrubbed(next, NoTimer) /\ timing' = Scrubbed(timing, NoTiming)
  BY DEF GetCurrentFunction, DropHandle
<1>2. \A s \in Timer : ~removed[s] => refs'[s] # 0
  BY <1>1 DEF SafeInv, RefsCover, TypeOK
<1>3. \A s \in Timer : ~removed[s] => next'[s] = next[s] /\ timing'[s] = timing[s]
  BY <1>1, <1>2 DEF Scrubbed
<1> QED BY <1>1, <1>3, Unseen

(* A timer leaves: what RemoveFunction does to the main list and to what   *)
(* is known of timers.                                                     *)
LEMMA RemovedTimed ==
  ASSUME SafeInv, SafeInv', NEW t \in Reach(head), NEW pred \in Pointer, NEW gained \in {0, 1},
         pred = NoTimer => t = head,
         pred # NoTimer => pred \in Reach(head) /\ next[pred] = t,
         RemoveFunction(pred, t, gained), UNCHANGED <<thinkHead, held>>
  PROVE  /\ Reach(head)' = Reach(head) \ {t}
         /\ Reach(thinkHead)' = Reach(thinkHead)
         /\ \A s \in Reach(head) \ {t} :
              next'[s] = IF s = pred THEN next[t] ELSE next[s]
         /\ Planned' = [s \in Timer |-> IF s \in {t} THEN NoTiming ELSE Planned[s]]
<1>1. /\ Reach(head)' = Reach(head) \ {t}
      /\ \A s \in Reach(head) \ {t} :
              next'[s] = IF s = pred THEN next[t] ELSE next[s]
  BY RemoveFunctionLists DEF SafeInv
<1>2. /\ t \in Timer /\ removed \in [Timer -> BOOLEAN]
      /\ removed' = [removed EXCEPT ![t] = TRUE]
      /\ timing' = Scrubbed(timing, NoTiming)
  BY TimedFacts DEF RemoveFunction, SafeInv, TypeOK
<1>3. Reach(thinkHead)' = Reach(thinkHead)
  <2>1. \A s \in Timer : ~removed'[s] <=> ~removed[s] /\ s # t
    BY <1>2
  <2>2. \A s \in Timer : s \in Reach(head)' \cup Reach(thinkHead)'
                            <=> s \in (Reach(head) \cup Reach(thinkHead)) \ {t}
    BY <2>1, TimedFacts, TimedAfter
  <2>3. /\ Reach(head)' \cap Reach(thinkHead)' = {} /\ Reach(head) \cap Reach(thinkHead) = {}
        /\ Reach(thinkHead)' \subseteq Timer /\ Reach(thinkHead) \subseteq Timer
    BY TimedFacts, TimedAfter
  <2> QED BY <1>1, <2>2, <2>3
<1>4. \A s \in Timer : ~removed'[s] => timing'[s] = timing[s]
  BY <1>2 DEF SafeInv, RefsCover, Scrubbed, TypeOK
<1>5. Planned' = [s \in Timer |-> IF s \in {t} THEN NoTiming ELSE Planned[s]]
  BY <1>2, <1>4 DEF Planned
<1> QED BY <1>1, <1>3, <1>5

LEMMA RemoveTimerTimed ==
  ASSUME Disciplined, SafeInv, SafeInv', NEW t \in Timer, RemoveTimer(t)
  PROVE  Timed!Remove(t) \/ Timed!RemoveRunning \/ UNCHANGED Timed!vars
<1>1. /\ pc \in {"idle", "calling"}
      /\ pc = "calling" => t \notin {pLast, pNextNext}
      /\ UNCHANGED <<thinkHead, current, thinking, lastTime, held, walk, clock>>
  BY DEF RemoveTimer, ScriptRuns, MayRemove, Disciplined
<1>2. Running' = Running /\ (thinking => Running # NoTimer)
  BY <1>1, TimedFacts DEF Running, walk
<1>3. CASE /\ t \in Reach(head) /\ Executing(t)
           /\ shouldRemove' = TRUE
           /\ UNCHANGED <<head, next, removed, timing>>
  <2>1. /\ Reach(head)' = Reach(head) /\ Reach(thinkHead)' = Reach(thinkHead) /\ Pending' = Pending
    BY <1>1, <1>3, ListsStay DEF SafeInv, walk
  <2>2. Running # NoTimer
    <3>1. t = current /\ t # NoTimer
      BY <1>3, TimerAssumption DEF Executing
    <3>2. pc # "idle"
      BY <3>1 DEF SafeInv, WalkInStep
    <3> QED BY <1>1, <3>2, TimedFacts
  <2>3. Planned' = Planned
    BY <1>3 DEF Planned
  <2> QED BY <1>1, <1>2, <1>3, <2>1, <2>2, <2>3 DEF Timed!RemoveRunning
<1>4. CASE /\ t \in Reach(head) /\ ~Executing(t) /\ UNCHANGED shouldRemove
           /\ \E pred \in IF t = head THEN {NoTimer}
                          ELSE {p \in Reach(head) : next[p] = t} :
                RemoveFunction(pred, t, 1)
  <2>1. PICK pred \in IF t = head THEN {NoTimer}
                      ELSE {p \in Reach(head) : next[p] = t} :
                RemoveFunction(pred, t, 1)
    BY <1>4
  <2>2. /\ pred \in Pointer
        /\ pred = NoTimer => t = head
        /\ pred # NoTimer => pred \in Reach(head) /\ next[pred] = t
    BY <2>1, TimedFacts, TimerAssumption DEF Pointer
  <2>3. /\ Reach(head)' = Reach(head) \ {t}
        /\ Reach(thinkHead)' = Reach(thinkHead)
        /\ \A s \in Reach(head) \ {t} :
             next'[s] = IF s = pred THEN next[t] ELSE next[s]
        /\ Planned' = [s \in Timer |-> IF s \in {t} THEN NoTiming ELSE Planned[s]]
    BY <1>1, <1>4, <2>1, <2>2, RemovedTimed
  <2>4. t # Running
    BY <1>1, <1>4, TimedFacts, TimerAssumption DEF Executing
  <2>5. Pending' = Pending \ {t}
    <3>1. CASE pc = "idle"
      BY <1>1, <3>1 DEF Pending, walk
    <3>2. CASE pc = "calling"
      <4>1. t # pNext /\ t # next[pNext]
        BY <1>1, <2>4, <3>2, TimedFacts
      <4>2. Ahead' = Ahead \ {t}
        BY <1>1, <1>4, <2>2, <2>3, <3>2, <4>1, AheadUnlinks DEF SafeInv, walk
      <4> QED BY <1>1, <3>2, <4>2 DEF Pending, walk
    <3> QED BY <1>1, <3>1, <3>2
  <2> QED BY <1>1, <1>2, <1>4, <2>3, <2>4, <2>5
          DEF Timed!Remove, Timed!ScriptsRun, Timed!Leave
<1>5. CASE UNCHANGED <<head, shouldRemove, next, refs, removed, timing>>
  BY <1>1, <1>5, Unseen DEF scheduler
<1> QED BY <1>3, <1>4, <1>5 DEF RemoveTimer

LEMMA ClearTimed ==
  ASSUME Disciplined, SafeInv, SafeInv', ClearTimerList
  PROVE  Timed!Clear
<1>1. /\ pc = "idle" /\ WalkFault = "none"
  BY WalkIsSafe DEF ClearTimerList, ScriptRuns, Disciplined, SafeInv
<1>2. /\ head' = NoTimer
      /\ removed' = [t \in Timer |-> removed[t] \/ t \in Reach(head)]
      /\ timing' = Scrubbed(timing, NoTiming)
      /\ UNCHANGED <<thinkHead, current, thinking, shouldRemove, lastTime, walk, clock>>
  BY <1>1 DEF ClearTimerList
<1>3. /\ Reach(head)' = {} /\ Reach(thinkHead)' = {} /\ Reach(thinkHead) = {}
      /\ Pending' = {} /\ Pending = {} /\ Running' = Running /\ ~thinking
  <2>1. pc' = "idle"
    BY <1>1, <1>2 DEF walk
  <2> QED BY <1>1, <1>2, <2>1, TimedFacts, TimedAfter, ReachNothing DEF Reach, Pending, Running
<1>4. Planned' = [t \in Timer |-> IF t \in Reach(head) THEN NoTiming ELSE Planned[t]]
  <2>1. \A t \in Timer : removed[t] \/ t \in Reach(head)
    BY <1>3, TimedFacts
  <2> QED BY <1>2, <2>1 DEF Planned, SafeInv, TypeOK
<1> QED BY <1>2, <1>3, <1>4 DEF Timed!Clear, Timed!Leave

LEMMA ThinkStartTimed ==
  ASSUME SafeInv, SafeInv', ThinkStart
  PROVE  Timed!ThinkStart
<1>1. /\ pc = "idle" /\ pc' = "iterate" /\ pNext' = head /\ thinking' = TRUE
      /\ UNCHANGED <<head, thinkHead, current, shouldRemove, lastTime, timers, clock>>
  BY DEF ThinkStart
<1>2. Reach(head)' = Reach(head) /\ Reach(thinkHead)' = Reach(thinkHead)
  BY <1>1 DEF Reach, timers
<1>3. Pending' = Reach(head)
  BY <1>1 DEF Pending, Ahead, Reach, timers
<1>4. Planned' = Planned /\ Running' = Running /\ ~thinking
  BY <1>1, TimedFacts DEF Planned, Running, timers
<1> QED BY <1>1, <1>2, <1>3, <1>4 DEF Timed!ThinkStart

(* Where Think takes a timer, it is one that is to be taken.               *)
LEMMA Taken ==
  ASSUME SafeInv, AtTimer
  PROVE  /\ pNext \in Timer /\ pNext \in Pending /\ pNext \in Reach(head)
         /\ Running = NoTimer /\ thinking /\ pc = "iterate" /\ pNext # NoTimer
         /\ Planned[pNext] = timing[pNext]
         /\ Timed!Exhausted(pNext) <=> ShouldRemove(pNext)
         /\ Timed!Due(pNext) <=> Due(pNext)
<1>1. /\ pc = "iterate" /\ pNext # NoTimer /\ pNext \in Ahead /\ pNext \in Reach(head)
      /\ pNext \in Timer /\ thinking /\ ~removed[pNext]
  BY WalkPointers, AheadListed DEF AtTimer
<1>2. Planned[pNext] = timing[pNext]
  BY <1>1 DEF Planned
<1> QED BY <1>1, <1>2
        DEF Pending, Running, Timed!Exhausted, Timed!Due, ShouldRemove, Due, IsInfiniteRepeat

LEMMA RemoveExhaustedTimed ==
  ASSUME SafeInv, SafeInv', RemoveExhausted
  PROVE  \E t \in Timer : Timed!Drop(t)
<1>1. /\ AtTimer /\ ShouldRemove(pNext) /\ RemoveFunction(pLast, pNext, 0)
      /\ pNext' = next[pNext]
      /\ UNCHANGED <<thinkHead, thinking, shouldRemove, lastTime, held, pc, pLast, clock>>
  BY DEF RemoveExhausted
<1>2. /\ pNext \in Reach(head) /\ pNext # NoTimer /\ pc = "iterate" /\ pLast \in Pointer
      /\ pLast = NoTimer => pNext = head
      /\ pLast # NoTimer => pLast \in Reach(head) /\ next[pLast] = pNext
      /\ pLast # NoTimer => pLast \notin Ahead
      /\ Ahead \subseteq Reach(head)
  BY <1>1, Taken, WalkPointers, AheadSingle, AheadListed DEF SafeInv, TypeOK
<1>3. /\ Reach(head)' = Reach(head) \ {pNext}
      /\ Reach(thinkHead)' = Reach(thinkHead)
      /\ \A s \in Reach(head) \ {pNext} :
           next'[s] = IF s = pLast THEN next[pNext] ELSE next[s]
      /\ Planned' = [s \in Timer |-> IF s \in {pNext} THEN NoTiming ELSE Planned[s]]
  BY <1>1, <1>2, RemovedTimed
<1>4. \A s \in Ahead \ {pNext} : next'[s] = next[s]
  BY <1>2, <1>3, TimedFacts, TimerAssumption
<1>5. Ahead' = Ahead \ {pNext}
  BY <1>1, <1>2, <1>4, AheadGoesOn DEF SafeInv, Onward
<1>6. Pending' = Pending \ {pNext} /\ Running' = Running
  BY <1>1, <1>2, <1>5 DEF Pending, Running
<1>7. Timed!Drop(pNext)
  BY <1>1, <1>3, <1>6, Taken DEF Timed!Drop, Timed!Taking, Timed!Leave
<1> QED BY <1>1, <1>7, Taken

LEMMA SkipTimed ==
  ASSUME SafeInv, SafeInv', Skip
  PROVE  \E t \in Timer : Timed!Pass(t)
<1>1. /\ AtTimer /\ ~ShouldRemove(pNext) /\ ~Due(pNext) /\ pNext' = next[pNext]
      /\ UNCHANGED <<head, thinkHead, thinking, shouldRemove, lastTime, timers, pc, clock>>
  BY DEF Skip
<1>2. pNext # NoTimer /\ pc = "iterate"
  BY <1>1, Taken
<1>3. Reach(head)' = Reach(head) /\ Reach(thinkHead)' = Reach(thinkHead)
  BY <1>1 DEF Reach, timers
<1>4. Ahead' = Ahead \ {pNext}
  BY <1>1, <1>2, AheadGoesOn DEF SafeInv, Onward, timers
<1>5. Pending' = Pending \ {pNext} /\ Running' = Running /\ Planned' = Planned
  BY <1>1, <1>2, <1>4 DEF Pending, Running, Planned, timers
<1>6. Timed!Pass(pNext)
  BY <1>1, <1>3, <1>5, Taken DEF Timed!Pass, Timed!Taking
<1> QED BY <1>1, <1>6, Taken

LEMMA CallTimed ==
  ASSUME SafeInv, SafeInv', Call
  PROVE  \E t \in Timer : Timed!Call(t)
<1>1. /\ AtTimer /\ ~ShouldRemove(pNext) /\ Due(pNext) /\ pc' = "calling"
      /\ timing' = [timing EXCEPT ![pNext] = Called(pNext)]
      /\ UNCHANGED <<head, thinkHead, thinking, shouldRemove, lastTime, next, refs,
                     removed, pNext, clock>>
  BY DEF Call
<1>2. pNext # NoTimer /\ pc = "iterate" /\ pNext \in Timer
  BY <1>1, Taken
<1>3. Reach(head)' = Reach(head) /\ Reach(thinkHead)' = Reach(thinkHead)
  BY <1>1 DEF Reach
<1>4. Ahead' = Ahead \ {pNext}
  BY <1>1, <1>2, AheadGoesOn DEF SafeInv, Onward
<1>5. Pending' = Pending \ {pNext} /\ Running' = pNext
  BY <1>1, <1>2, <1>4 DEF Pending, Running
<1>6. Planned' = [Planned EXCEPT ![pNext] =
                    [nextCall |-> clock + @.repeatTime, repeatTime |-> @.repeatTime,
                     count |-> IF @.count = RepeatInfinite THEN RepeatInfinite
                               ELSE @.count - 1]]
  <2>1. /\ Planned[pNext] = timing[pNext] /\ ~removed[pNext]
        /\ timing \in [Timer -> [nextCall : Int, repeatTime : Nat, count : Int]]
    BY <1>1, <1>2, Taken, WalkPointers DEF SafeInv, TypeOK
  <2>2. Planned' = [Planned EXCEPT ![pNext] = Called(pNext)]
    BY <1>1, <1>2, <2>1 DEF Planned
  <2> QED BY <2>1, <2>2 DEF Called, IsInfiniteRepeat
<1>7. Timed!Call(pNext)
  BY <1>1, <1>3, <1>5, <1>6, Taken DEF Timed!Call, Timed!Taking
<1> QED BY <1>1, <1>7, Taken

LEMMA CallReturnTimed ==
  ASSUME SafeInv, SafeInv', CallReturn
  PROVE  Timed!Return
<1>1. /\ pc = "calling" /\ pNext # NoTimer /\ pNextNext = next[pNext]
      /\ pNext \in Reach(head) /\ pNext \in Timer /\ ~removed[pNext] /\ ~Free(pNext)
      /\ ~Dangling(pLast) /\ pLast \in Pointer
      /\ pLast = NoTimer => pNext = head
      /\ pLast # NoTimer => pLast \in Reach(head) /\ next[pLast] = pNext
  <2>1. pc = "calling" /\ pNext # NoTimer /\ pNextNext = next[pNext] /\ pLast \in Pointer
    BY DEF CallReturn, SafeInv, CallHasTimer, WalkInStep, TypeOK
  <2> QED BY <2>1, WalkPointers
<1>2. /\ pc' = "iterate" /\ pNext' = next[pNext]
      /\ UNCHANGED <<thinkHead, current, thinking, lastTime, held, clock>>
      /\ shouldRemove' = FALSE
  BY <1>1 DEF CallReturn, Following, SafeInv, TypeOK
<1>3. IF shouldRemove \/ ShouldRemove(pNext) THEN RemoveFunction(pLast, pNext, 0)
      ELSE UNCHANGED <<head, next, refs, removed, timing>>
  BY <1>1 DEF CallReturn
<1>4. /\ Running = pNext /\ Running' = NoTimer
      /\ Timed!Exhausted(pNext) <=> ShouldRemove(pNext)
  BY <1>1, <1>2 DEF Running, Timed!Exhausted, ShouldRemove, IsInfiniteRepeat, Planned
<1>5. Ahead \subseteq Reach(head) /\ pNext \notin Ahead
      /\ \A s \in Ahead : next[s] # pNext
  <2>1. Ahead \subseteq Reach(head) /\ pNext \notin Ahead
        /\ \A s \in Ahead : next[s] = NoTimer \/ next[s] \in Ahead
    BY <1>1, AheadListed, AheadSingle
  <2> QED BY <1>1, <2>1
<1>6. CASE shouldRemove \/ ShouldRemove(pNext)
  <2>1. /\ Reach(head)' = Reach(head) \ {pNext}
        /\ Reach(thinkHead)' = Reach(thinkHead)
        /\ \A s \in Reach(head) \ {pNext} :
             next'[s] = IF s = pLast THEN next[pNext] ELSE next[s]
        /\ Planned' = [s \in Timer |-> IF s \in {pNext} THEN NoTiming ELSE Planned[s]]
    BY <1>1, <1>2, <1>3, <1>6, RemovedTimed
  <2>2. \A s \in Ahead \ {pNext} : next'[s] = next[s]
    BY <1>1, <1>5, <2>1, TimedFacts, TimerAssumption
  <2>3. Ahead' = Ahead \ {pNext}
    BY <1>1, <1>2, <2>2, AheadGoesOn DEF SafeInv, Onward
  <2>4. Pending' = Pending \ {pNext}
    BY <1>1, <1>2, <2>3 DEF Pending
  <2> QED BY <1>1, <1>2, <1>4, <1>6, <2>1, <2>4 DEF Timed!Return, Timed!Leave
<1>7. CASE ~(shouldRemove \/ ShouldRemove(pNext))
  <2>1. UNCHANGED <<head, next, refs, removed, timing>>
    BY <1>3, <1>7
  <2>2. Ahead' = Ahead \ {pNext}
    BY <1>1, <1>2, <2>1, AheadGoesOn DEF SafeInv, Onward
  <2>3. Pending' = Pending \ {} /\ Reach(head)' = Reach(head) \ {}
        /\ Reach(thinkHead)' = Reach(thinkHead)
    BY <1>1, <1>2, <1>5, <2>1, <2>2 DEF Pending, Reach
  <2>4. Planned' = [s \in Timer |-> IF s \in {} THEN NoTiming ELSE Planned[s]]
    BY <2>1 DEF Planned
  <2> QED BY <1>1, <1>2, <1>4, <1>7, <2>3, <2>4 DEF Timed!Return, Timed!Leave
<1> QED BY <1>6, <1>7

LEMMA ThinkEndTimed ==
  ASSUME SafeInv, SafeInv', ThinkEnd
  PROVE  Timed!ThinkEnd
<1>1. /\ pc = "iterate" /\ pNext = NoTimer /\ pc' = "idle" /\ thinking' = FALSE
      /\ lastTime' = clock
      /\ UNCHANGED <<shouldRemove, refs, removed, timing, held, clock>>
  BY DEF ThinkEnd
<1>2. Pending = {} /\ Pending' = {} /\ Running = NoTimer /\ Running' = NoTimer /\ thinking
  BY <1>1, ReachNothing, TimedFacts DEF Pending, Ahead, Reach, Running
<1>3. Planned' = Planned
  BY <1>1 DEF Planned
<1>4. Reach(thinkHead)' = {} /\ Reach(head)' = Reach(head) \cup Reach(thinkHead)
  <2>1. \A s \in Timer : s \in Reach(head)' \cup Reach(thinkHead)'
                            <=> s \in Reach(head) \cup Reach(thinkHead)
    BY <1>1, TimedFacts, TimedAfter
  <2>2. /\ Reach(thinkHead)' = {} /\ Reach(head)' \subseteq Timer
        /\ Reach(head) \subseteq Timer /\ Reach(thinkHead) \subseteq Timer
    BY <1>1, TimedFacts, TimedAfter
  <2> QED BY <2>1, <2>2
<1> QED BY <1>1, <1>2, <1>3, <1>4 DEF Timed!ThinkEnd, Timed!Taking

LEMMA HostTimed ==
  ASSUME SafeInv, SafeInv', Host
  PROVE  Timed!Tick \/ Timed!WindBack
<1>1. /\ pc = "idle" /\ ~thinking /\ Reach(thinkHead) = {}
      /\ UNCHANGED <<scheduler, next, refs, removed, held, walk>>
  BY TimedFacts DEF Host, Tick, AdjustTime, timers, SafeInv, WalkInStep
<1>2. /\ Reach(head)' = Reach(head) /\ Reach(thinkHead)' = Reach(thinkHead)
      /\ Pending' = Pending /\ Running' = Running
  BY <1>1 DEF Reach, Pending, Ahead, Running, scheduler, walk
<1>3. CASE Tick
  <2>1. clock' = clock + 1 /\ Planned' = Planned
    BY <1>3 DEF Tick, Planned, timers
  <2> QED BY <1>1, <1>2, <2>1 DEF Timed!Tick, scheduler
<1>4. ASSUME NEW shift \in Shifts, AdjustTime(shift)
      PROVE  Timed!WindBack
  <2>1. /\ shift \in Nat /\ clock' = clock - shift /\ clock \in Int
        /\ timing' = [t \in Timer |->
                        IF t \in Reach(head) THEN [timing[t] EXCEPT !.nextCall = @ - shift]
                        ELSE timing[t]]
    BY <1>4, ShiftsAssumption DEF AdjustTime, SafeInv, TypeOK
  <2>2. clock' <= clock /\ clock - clock' = shift
    BY <2>1
  <2>3. \A t \in Timer : removed[t] <=> t \notin Reach(head)
    BY <1>1, TimedFacts
  <2>4. Planned' = [t \in Timer |->
                      IF t \in Reach(head) THEN [Planned[t] EXCEPT !.nextCall = @ - shift]
                      ELSE Planned[t]]
    BY <1>1, <2>1, <2>3 DEF Planned
  <2> QED BY <1>1, <1>2, <2>1, <2>2, <2>4 DEF Timed!WindBack, scheduler
<1> QED BY <1>3, <1>4 DEF Host

(* Every step of the scheduler is one of Timers, or nothing that it sees.  *)
LEMMA TimedStep ==
  ASSUME Disciplined, SafeInv, SafeInv', [Next]_vars
  PROVE  [Timed!Next]_Timed!vars
<1>1. CASE UNCHANGED vars
  BY <1>1, Unseen DEF vars, timers
<1>2. CASE Host
  BY <1>2, HostTimed DEF Timed!Next
<1>3. CASE Think
  <2>1. ~BadTimer
    BY DEF BadTimer, SafeInv, NoFault
  <2> QED BY <1>3, <2>1, ThinkStartTimed, RemoveExhaustedTimed, SkipTimed, CallTimed,
             CallReturnTimed, ThinkEndTimed DEF Think, Timed!Next
<1>4. CASE Script
  <2>1. ASSUME NEW t \in Timer, NEW new, Amend(t, new)
        PROVE  [Timed!Next]_Timed!vars
    BY <2>1, AmendTimed DEF Timed!Next
  <2>2. ASSUME NEW t \in Timer, RemoveTimer(t) PROVE [Timed!Next]_Timed!vars
    BY <2>2, RemoveTimerTimed DEF Timed!Next
  <2>3. ASSUME NEW t \in Timer, NEW delay \in Delays, NEW count \in Counts, NEW keep \in BOOLEAN,
               Schedule(t, delay, count, keep)
        PROVE  [Timed!Next]_Timed!vars
    BY <2>3, ScheduleTimed DEF Timed!Next
  <2>4. \A t \in Timer : ~UseStaleHandle(t)
    BY UseStaleHandleSafe
  <2> QED BY <1>4, <2>1, <2>2, <2>3, <2>4, HandlesTimed, ClearTimed
          DEF Script, SetNextCallTime, SetRepeatTime, SetRepeatCount, MakeInfiniteRepeat, Timed!Next
<1> QED BY <1>1, <1>2, <1>3, <1>4 DEF Next

(* Two lists, a walk and reference counts implement a set of timers, if    *)
(* scripts do not remove the neighbours of the timer that executes or      *)
(* clear the list during Think.                                            *)
THEOREM Refinement == ASSUME Disciplined PROVE Spec => Implements
<1>1. Init => Timed!Init
  <2> SUFFICES ASSUME Init PROVE Timed!Init
    OBVIOUS
  <2>1. Reach(head) = {} /\ Reach(thinkHead) = {}
    BY ReachNothing DEF Init, Reach
  <2>2. Pending = {} /\ Running = NoTimer /\ Planned = [t \in Timer |-> NoTiming]
    BY DEF Init, Pending, Running, Planned
  <2> QED BY <2>1, <2>2 DEF Init, Timed!Init
<1>2. SafeInv /\ SafeInv' /\ [Next]_vars => [Timed!Next]_Timed!vars
  BY TimedStep
<1> QED BY <1>1, <1>2, InvariantHolds, PTL DEF Spec, Implements, Timed!Spec
=============================================================================
