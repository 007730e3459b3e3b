----------------------------- MODULE HostProofs -----------------------------
(***************************************************************************)
(* Proofs about Host: for any number of managers, events and argument      *)
(* lists, any events' names and masks and any depth of callbacks, nothing  *)
(* points at an engine that is gone, and engines and script objects have   *)
(* the references they should, until a host or script is careless.         *)
(***************************************************************************)
EXTENDS Host, FiniteSetTheorems, SequenceTheorems, TLAPS

-----------------------------------------------------------------------------
(* The inductive invariant.                                                *)

Initialising == {"begin", "core", "events", "api"}

Entries ==
  [of : Manager, at : Initialising \cup {"clear"}] \cup [of : Event, at : {"invoke"}]

Types ==
  /\ active \in Manager \cup {Null}
  /\ engine \in [Manager -> Engine \cup {0}]
  /\ refs \in [Engine -> Int]
  /\ held \in [Manager -> BOOLEAN]
  /\ events \in [Manager -> Seq(Event) \cup {Null}]
  /\ modules \in [Manager -> BOOLEAN]
  /\ progress \in Seq(Entries)
  /\ hooked \in [Event -> SUBSET Engine]
  /\ funcDef \in [Event -> Engine \cup {0}]
  /\ DOMAIN declared = Engine /\ declared = [n \in Engine |-> declared[n]]
  /\ argument \in [Argument -> [engine : Engine \cup {0}, home : Manager \cup {Null}]]
  /\ objects \in [Engine -> Int]

One(condition) == IF condition THEN 1 ELSE 0

(* No two managers share an engine; who has none has nothing else. *)
OneEngine ==
  /\ \A m, k \in Manager : engine[m] = engine[k] /\ engine[m] # 0 => m = k
  /\ \A m \in Manager : engine[m] = 0 => ~held[m] /\ ~modules[m] /\ events[m] = Null
  /\ \A m \in Manager : held[m] => events[m] # Null
  /\ active # Null => engine[active] # 0

(* How many references an engine has, by the state of its manager. *)
Counted ==
  /\ \A m \in Manager : engine[m] # 0 =>
       refs[engine[m]] = 1 + One(modules[m]) + One(events[m] # Null)
  /\ \A n \in Engine : (\A m \in Manager : engine[m] # n) => refs[n] \in {-1, 0}

(* The callbacks in progress. *)
Nested ==
  /\ \A i \in DOMAIN progress : progress[i].at # "invoke" => engine[progress[i].of] # 0
  /\ \A i, j \in DOMAIN progress :
       /\ progress[i].at # "invoke" /\ progress[j].at # "invoke"
       /\ progress[i].of = progress[j].of
       => i = j

(* What managers that are being initialised have so far. *)
Begun ==
  \A i \in DOMAIN progress :
    LET m == progress[i].of IN
    /\ progress[i].at = "begin" => ~modules[m] /\ events[m] = Null
    /\ progress[i].at \in {"begin", "core", "events"} => declared[engine[m]] = {}
    /\ progress[i].at = "events" => events[m] # Null

(* A manager whose modules are cleared is active and has given up its      *)
(* event manager; invocations of events are all that happens within, and   *)
(* the host has no object of its engine.                                   *)
Cleared ==
  \A i \in DOMAIN progress : progress[i].at = "clear" =>
    /\ \A j \in 1..(i - 1) : progress[j].at = "invoke"
    /\ \A j \in (i + 1)..Len(progress) : progress[j].at # "invoke"
    /\ active = progress[i].of /\ ~held[active]
    /\ \A a \in Argument : argument[a] # [engine |-> engine[active], home |-> Null]

(* Events are listed by one manager each and have different names. *)
Separate ==
  /\ \A m, k \in Manager : m # k => Listed(m) \cap Listed(k) = {}
  /\ \A m \in Manager : events[m] # Null =>
       \A i, j \in DOMAIN events[m] : Name[events[m][i]] = Name[events[m][j]] => i = j

(* Funcdefs and hooked functions are of managers that list the event. *)
Registered ==
  /\ \A n \in Engine : refs[n] = -1 => declared[n] = {}
  /\ \A m \in Manager : engine[m] # 0 /\ declared[engine[m]] # {} =>
       events[m] # Null /\ \A e \in Listed(m) : funcDef[e] = engine[m]
  /\ \A e \in Event : \A n \in hooked[e] :
       \E m \in Manager : engine[m] = n /\ e \in Listed(m)

(* Objects in argument lists are of managers that have an engine. *)
Owned ==
  /\ \A a \in Argument : argument[a].engine # 0 =>
       \E m \in Manager : engine[m] = argument[a].engine
  /\ \A a \in Argument : argument[a].home # Null =>
       argument[a].engine # 0 /\ engine[argument[a].home] = argument[a].engine
  /\ \A n \in Engine : objects[n] = Cardinality({a \in Argument : argument[a].engine = n})

Sound ==
  /\ Types /\ ~fault
  /\ OneEngine /\ Counted /\ Nested /\ Begun /\ Cleared /\ Separate
  /\ Registered /\ Owned

IInv == careless \in BOOLEAN /\ (careless \/ Sound)

-----------------------------------------------------------------------------
(* Facts about the callbacks in progress: what an entry is of, and what    *)
(* becomes of the list when one starts, goes on or returns.                *)
LEMMA EntryTypes ==
  ASSUME Types, NEW i \in DOMAIN progress
  PROVE  /\ progress[i] \in Entries
         /\ progress[i].at = "invoke" => progress[i].of \in Event
         /\ progress[i].at # "invoke" =>
              progress[i].of \in Manager /\ progress[i].at \in Initialising \cup {"clear"}
<1>1. progress[i] \in Entries
  BY DEF Types
<1>2. CASE progress[i] \in [of : Manager, at : Initialising \cup {"clear"}]
  BY <1>2, <1>1 DEF Initialising
<1>3. CASE progress[i] \in [of : Event, at : {"invoke"}]
  BY <1>3, <1>1
<1> QED BY <1>1, <1>2, <1>3 DEF Entries

(* A list is not null.                                                     *)
LEMMA NullIsNoList == Null \notin Seq(Event) /\ <<>> # Null
<1>1. Null \notin Seq(Event)
  BY HostAssumption
<1>2. <<>> \in Seq(Event)
  OBVIOUS
<1> QED BY <1>1, <1>2

LEMMA HeadEntry ==
  ASSUME Types, progress # <<>>
  PROVE  1 \in DOMAIN progress /\ Head(progress) = progress[1]
BY DEF Types

LEMMA Pushed ==
  ASSUME NEW s \in Seq(Entries), NEW x \in Entries
  PROVE  LET t == <<x>> \o s IN
         /\ t \in Seq(Entries) /\ Len(t) = Len(s) + 1
         /\ t[1] = x /\ \A i \in 2..Len(t) : i - 1 \in DOMAIN s /\ t[i] = s[i - 1]
OBVIOUS

LEMMA Popped ==
  ASSUME NEW s \in Seq(Entries), s # <<>>
  PROVE  LET t == Tail(s) IN
         /\ t \in Seq(Entries) /\ Len(t) = Len(s) - 1
         /\ \A i \in 1..Len(t) : i + 1 \in DOMAIN s /\ t[i] = s[i + 1]
OBVIOUS

LEMMA Stepped ==
  ASSUME NEW s \in Seq(Entries), s # <<>>, NEW x \in Entries
  PROVE  LET t == <<x>> \o Tail(s) IN
         /\ t \in Seq(Entries) /\ Len(t) = Len(s)
         /\ t[1] = x /\ \A i \in 2..Len(t) : i \in DOMAIN s /\ t[i] = s[i]
<1>1. Tail(s) \in Seq(Entries) /\ Len(Tail(s)) = Len(s) - 1
  OBVIOUS
<1>2. \A i \in 1..(Len(s) - 1) : Tail(s)[i] = s[i + 1]
  OBVIOUS
<1>3. \A i \in 2..Len(s) : (<<x>> \o Tail(s))[i] = Tail(s)[i - 1] /\ i - 1 \in 1..(Len(s) - 1)
  BY <1>1
<1> QED BY <1>1, <1>2, <1>3

(* What does not depend on the callbacks in progress.                      *)
Rest == OneEngine /\ Counted /\ Separate /\ Registered /\ Owned

LEMMA RestKept ==
  ASSUME Rest, UNCHANGED <<managers, scripts, arguments>>
  PROVE  Rest'
<1> USE DEF managers, scripts, arguments
<1>1. OneEngine'
  BY DEF Rest, OneEngine
<1>2. Counted'
  BY DEF Rest, Counted, One
<1>3. Separate'
  BY DEF Rest, Separate, Listed
<1>4. Registered'
  BY DEF Rest, Registered, Listed
<1>5. Owned'
  BY DEF Rest, Owned
<1> QED BY <1>1, <1>2, <1>3, <1>4, <1>5 DEF Rest

-----------------------------------------------------------------------------
(* Each action keeps the invariant, unless it is careless.                 *)
LEMMA ReturnKeeps ==
  ASSUME Sound, progress # <<>>, Returns,
         UNCHANGED <<managers, scripts, arguments, fault>>
  PROVE  Sound'
<1> USE DEF managers, scripts, arguments
<1>1. /\ progress' \in Seq(Entries) /\ Len(progress') = Len(progress) - 1
      /\ \A i \in DOMAIN progress' : i + 1 \in DOMAIN progress /\ progress'[i] = progress[i + 1]
  <2> HIDE DEF managers, scripts, arguments
  <2> QED BY Popped DEF Sound, Types, Returns
<1>2. Types'
  BY <1>1 DEF Sound, Types
<1>3. Nested'
  BY <1>1 DEF Sound, Nested, Types
<1>4. Begun'
  <2>1. SUFFICES ASSUME NEW i \in DOMAIN progress'
                 PROVE  LET m == progress'[i].of IN
                        /\ progress'[i].at = "begin" => ~modules[m] /\ events[m] = Null
                        /\ progress'[i].at \in {"begin", "core", "events"} =>
                             declared[engine[m]] = {}
                        /\ progress'[i].at = "events" => events[m] # Null
    BY DEF Begun
  <2>2. i + 1 \in DOMAIN progress /\ progress'[i] = progress[i + 1]
    BY <1>1
  <2> QED BY <2>2 DEF Sound, Begun
<1>5. Cleared'
  <2>1. SUFFICES ASSUME NEW i \in DOMAIN progress', progress'[i].at = "clear"
                 PROVE  /\ \A j \in 1..(i - 1) : progress'[j].at = "invoke"
                        /\ \A j \in (i + 1)..Len(progress') : progress'[j].at # "invoke"
                        /\ active = progress'[i].of /\ ~held[active]
                        /\ \A a \in Argument : argument[a] # [engine |-> engine[active], home |-> Null]
    BY DEF Cleared
  <2>2. i + 1 \in DOMAIN progress /\ progress[i + 1].at = "clear" /\ i \in Nat
    BY <1>1, <2>1
  <2>3. ASSUME NEW j \in 1..(i - 1) PROVE progress'[j].at = "invoke"
    <3>1. j \in DOMAIN progress' /\ j + 1 \in 1..(i + 1 - 1)
      BY <1>1, <2>1, <2>2
    <3> QED BY <1>1, <2>2, <3>1 DEF Sound, Cleared
  <2>4. ASSUME NEW j \in (i + 1)..Len(progress') PROVE progress'[j].at # "invoke"
    <3>1. j \in DOMAIN progress' /\ j + 1 \in (i + 1 + 1)..Len(progress)
      BY <1>1, <2>1, <2>2 DEF Sound, Types
    <3> QED BY <1>1, <2>2, <3>1 DEF Sound, Cleared
  <2>5. active = progress'[i].of /\ ~held[active]
    BY <1>1, <2>1, <2>2 DEF Sound, Cleared
  <2>6. \A a \in Argument : argument[a] # [engine |-> engine[active], home |-> Null]
    BY <2>2 DEF Sound, Cleared
  <2> QED BY <2>3, <2>4, <2>5, <2>6
<1> QED BY <1>2, <1>3, <1>4, <1>5, RestKept DEF Sound, Rest

LEMMA CallbackFailsKeeps == Sound /\ CallbackFails => Sound'
BY ReturnKeeps DEF CallbackFails, At

LEMMA RegisterAPIKeeps == Sound /\ RegisterAPIReturns => Sound'
BY ReturnKeeps DEF RegisterAPIReturns, At

LEMMA InvokedKeeps == Sound /\ Invoked => Sound'
BY ReturnKeeps DEF Invoked, At

LEMMA InvokeKeeps ==
  ASSUME Sound, NEW e \in Event, Invoke(e)
  PROVE  Sound'
<1> USE DEF managers, scripts, arguments
<1> DEFINE x == [of |-> e, at |-> "invoke"]
<1>1. x \in Entries
  BY DEF Entries
<1>2. /\ progress' \in Seq(Entries) /\ Len(progress') = Len(progress) + 1 /\ progress'[1] = x
      /\ \A i \in 2..Len(progress') : i - 1 \in DOMAIN progress /\ progress'[i] = progress[i - 1]
  <2> HIDE DEF managers, scripts, arguments
  <2>1. progress \in Seq(Entries)
    BY DEF Sound, Types
  <2>2. progress' = <<x>> \o progress
    BY DEF Invoke
  <2> HIDE DEF x
  <2> QED BY <1>1, <2>1, <2>2, Pushed
<1>3. \A i \in DOMAIN progress' : progress'[i].at # "invoke" =>
        i \in 2..Len(progress') /\ i - 1 \in DOMAIN progress /\ progress'[i] = progress[i - 1]
  BY <1>2
<1>4. UNCHANGED <<managers, scripts, arguments>> /\ fault' = fault
  BY DEF Invoke
<1>5. Types'
  BY <1>2, <1>4 DEF Sound, Types
<1>6. Nested'
  <2>1. \A i \in DOMAIN progress' : progress'[i].at # "invoke" => engine'[progress'[i].of] # 0
    BY <1>3, <1>4 DEF Sound, Nested
  <2>2. ASSUME NEW i \in DOMAIN progress', NEW j \in DOMAIN progress',
               progress'[i].at # "invoke", progress'[j].at # "invoke",
               progress'[i].of = progress'[j].of
        PROVE  i = j
    <3>1. i - 1 = j - 1
      BY <1>3, <2>2 DEF Sound, Nested
    <3> QED BY <1>3, <2>2, <3>1
  <2> QED BY <2>1, <2>2 DEF Nested
<1>7. Begun'
  <2>1. SUFFICES ASSUME NEW i \in DOMAIN progress', progress'[i].at \in {"begin", "core", "events"}
                 PROVE  LET m == progress'[i].of IN
                        /\ progress'[i].at = "begin" => ~modules[m] /\ events[m] = Null
                        /\ progress'[i].at \in {"begin", "core", "events"} =>
                             declared[engine[m]] = {}
                        /\ progress'[i].at = "events" => events[m] # Null
    BY <1>4 DEF Begun
  <2>2. i - 1 \in DOMAIN progress /\ progress'[i] = progress[i - 1]
    BY <1>3, <2>1
  <2> QED BY <2>2 DEF Sound, Begun
<1>8. Cleared'
  <2>1. SUFFICES ASSUME NEW i \in DOMAIN progress', progress'[i].at = "clear"
                 PROVE  /\ \A j \in 1..(i - 1) : progress'[j].at = "invoke"
                        /\ \A j \in (i + 1)..Len(progress') : progress'[j].at # "invoke"
                        /\ active = progress'[i].of /\ ~held[active]
                        /\ \A a \in Argument : argument[a] # [engine |-> engine[active], home |-> Null]
    BY <1>4 DEF Cleared
  <2>2. /\ i \in 2..Len(progress') /\ i - 1 \in DOMAIN progress /\ i - 1 \in Nat
        /\ progress'[i] = progress[i - 1] /\ progress[i - 1].at = "clear"
    BY <1>3, <2>1
  <2>3. ASSUME NEW j \in 1..(i - 1) PROVE progress'[j].at = "invoke"
    <3>1. CASE j = 1
      BY <1>2, <3>1
    <3>2. CASE j # 1
      <4>1. j - 1 \in 1..(i - 1 - 1) /\ j \in 2..Len(progress')
        BY <2>2, <3>2, <1>2
      <4> QED BY <1>2, <2>2, <4>1 DEF Sound, Cleared
    <3> QED BY <3>1, <3>2
  <2>4. ASSUME NEW j \in (i + 1)..Len(progress') PROVE progress'[j].at # "invoke"
    <3>1. j \in 2..Len(progress') /\ j - 1 \in (i - 1 + 1)..Len(progress)
      BY <1>2, <2>2 DEF Sound, Types
    <3> QED BY <1>2, <2>2, <3>1 DEF Sound, Cleared
  <2> QED BY <2>2, <2>3, <2>4 DEF Sound, Cleared
<1> QED BY <1>4, <1>5, <1>6, <1>7, <1>8, RestKept DEF Sound, Rest

(* An initialisation goes on with its next callback.                       *)
LEMMA GoesOn ==
  ASSUME Sound, progress # <<>>, Head(progress).at \in Initialising,
         NEW step \in Initialising, Goes(step), engine' = engine
  PROVE  LET m == Head(progress).of IN
         /\ m \in Manager /\ engine[m] \in Engine
         /\ 1 \in DOMAIN progress /\ Head(progress) = progress[1]
         /\ progress' \in Seq(Entries) /\ DOMAIN progress' = DOMAIN progress
         /\ progress'[1] = [of |-> m, at |-> step]
         /\ \A i \in DOMAIN progress : i # 1 =>
              /\ progress'[i] = progress[i]
              /\ progress[i].at # "clear"
              /\ progress[i].at # "invoke" => progress[i].of # m
         /\ Nested' /\ Cleared'
<1> DEFINE m == Head(progress).of
           x == [of |-> m, at |-> step]
<1>1. 1 \in DOMAIN progress /\ Head(progress) = progress[1]
  BY HeadEntry DEF Sound
<1>2. progress[1].at # "invoke" /\ progress[1].at # "clear"
  BY <1>1 DEF Initialising
<1>3. m \in Manager
  BY <1>1, <1>2, EntryTypes DEF Sound
<1>4. x \in Entries
  BY <1>3 DEF Entries
<1>5. progress' = <<x>> \o Tail(progress)
  <2>1. progress[1] \in [of : Manager, at : Initialising \cup {"clear"}]
    BY <1>1, <1>2, EntryTypes DEF Sound, Entries
  <2>2. [Head(progress) EXCEPT !.at = step] = x
    BY <1>1, <2>1
  <2> QED BY <2>2 DEF Goes
<1>6. /\ progress' \in Seq(Entries) /\ Len(progress') = Len(progress) /\ progress'[1] = x
      /\ \A i \in 2..Len(progress') : i \in DOMAIN progress /\ progress'[i] = progress[i]
  <2>1. progress \in Seq(Entries)
    BY DEF Sound, Types
  <2> HIDE DEF x
  <2> QED BY <1>4, <1>5, <2>1, Stepped
<1>7. DOMAIN progress' = DOMAIN progress
  BY <1>6 DEF Sound, Types
<1>8. \A i \in DOMAIN progress : i # 1 => i \in 2..Len(progress')
  BY <1>6, <1>7
<1>9. \A i \in DOMAIN progress : progress[i].at # "clear"
  <2>1. SUFFICES ASSUME NEW i \in DOMAIN progress, progress[i].at = "clear"
                 PROVE  FALSE
    OBVIOUS
  <2>2. i \in Nat /\ i # 1
    BY <1>2, <2>1 DEF Sound, Types
  <2>3. 1 \in 1..(i - 1)
    BY <2>1, <2>2 DEF Sound, Types
  <2> QED BY <1>2, <2>1, <2>3 DEF Sound, Cleared
<1>10. \A i \in DOMAIN progress : i # 1 /\ progress[i].at # "invoke" => progress[i].of # m
  BY <1>1, <1>2 DEF Sound, Nested
<1>11. engine[m] \in Engine
  BY <1>1, <1>2, <1>3 DEF Sound, Nested, Types
<1>12. Nested'
  <2>1. \A i \in DOMAIN progress' : progress'[i].at # "invoke" => engine'[progress'[i].of] # 0
    <3>1. 0 \notin Engine
      BY DEF Engine
    <3> QED BY <1>6, <1>7, <1>8, <1>11, <3>1 DEF Sound, Nested
  <2>2. ASSUME NEW i \in DOMAIN progress', NEW j \in DOMAIN progress',
               progress'[i].at # "invoke", progress'[j].at # "invoke",
               progress'[i].of = progress'[j].of
        PROVE  i = j
    <3>1. CASE i = 1 \/ j = 1
      BY <1>6, <1>7, <1>8, <1>10, <2>2, <3>1
    <3>2. CASE i # 1 /\ j # 1
      BY <1>6, <1>7, <1>8, <2>2, <3>2 DEF Sound, Nested
    <3> QED BY <3>1, <3>2
  <2> QED BY <2>1, <2>2 DEF Nested
<1>13. Cleared'
  <2>1. \A i \in DOMAIN progress' : progress'[i].at # "clear"
    BY <1>6, <1>7, <1>8, <1>9 DEF Initialising
  <2> QED BY <2>1 DEF Cleared
<1> QED BY <1>1, <1>3, <1>6, <1>7, <1>8, <1>9, <1>10, <1>11, <1>12, <1>13

LEMMA RegisterCoreAPIKeeps ==
  ASSUME Sound, RegisterCoreAPIReturns
  PROVE  Sound'
<1> USE DEF managers, scripts, arguments
<1> DEFINE m == Head(progress).of
           step == IF held[m] THEN "events" ELSE "api"
<1>1. /\ progress # <<>> /\ Head(progress).at = "core" /\ Goes(step) /\ step \in Initialising
      /\ UNCHANGED <<managers, scripts, arguments>> /\ fault' = fault
  BY DEF RegisterCoreAPIReturns, At, Initialising
<1>2. /\ m \in Manager
      /\ 1 \in DOMAIN progress /\ Head(progress) = progress[1]
      /\ progress' \in Seq(Entries) /\ DOMAIN progress' = DOMAIN progress
      /\ progress'[1] = [of |-> m, at |-> step]
      /\ \A i \in DOMAIN progress : i # 1 => progress'[i] = progress[i]
      /\ Nested' /\ Cleared'
  <2> HIDE DEF step
  <2> QED BY <1>1, GoesOn DEF Initialising
<1>3. Types'
  BY <1>1, <1>2 DEF Sound, Types
<1>4. Begun'
  <2>1. SUFFICES ASSUME NEW i \in DOMAIN progress
                 PROVE  LET k == progress'[i].of IN
                        /\ progress'[i].at = "begin" => ~modules[k] /\ events[k] = Null
                        /\ progress'[i].at \in {"begin", "core", "events"} =>
                             declared[engine[k]] = {}
                        /\ progress'[i].at = "events" => events[k] # Null
    BY <1>1, <1>2 DEF Begun
  <2>2. CASE i # 1
    BY <1>2, <2>2 DEF Sound, Begun
  <2>3. CASE i = 1
    <3>1. declared[engine[m]] = {}
      BY <1>1, <1>2 DEF Sound, Begun
    <3>2. held[m] => events[m] # Null
      BY <1>2 DEF Sound, OneEngine
    <3> QED BY <1>2, <2>3, <3>1, <3>2
  <2> QED BY <2>2, <2>3
<1> QED BY <1>1, <1>2, <1>3, <1>4, RestKept DEF Sound, Rest

LEMMA OnInitBeginKeeps ==
  ASSUME Sound, OnInitBeginReturns
  PROVE  Sound'
<1>1. /\ progress # <<>> /\ Head(progress).at = "begin"
      /\ UNCHANGED <<scripts, arguments, engine>>
  BY DEF OnInitBeginReturns, At
<1>2. PICK m \in Manager :
        /\ m = Head(progress).of /\ engine[m] # 0
        /\ 1 \in DOMAIN progress /\ Head(progress) = progress[1]
  <2>1. 1 \in DOMAIN progress /\ Head(progress) = progress[1]
    BY <1>1, HeadEntry DEF Sound
  <2> QED BY <1>1, <2>1, EntryTypes DEF Sound, Nested
<1>3. PICK uses \in BOOLEAN :
        /\ events' = [events EXCEPT ![m] = IF uses THEN <<>> ELSE Null]
        /\ held' = [held EXCEPT ![m] = uses]
        /\ modules' = [modules EXCEPT ![m] = TRUE]
        /\ refs' = [refs EXCEPT ![engine[m]] = @ + IF uses THEN 2 ELSE 1]
        /\ active' = m
        /\ Goes("core")
        /\ UNCHANGED fault
  BY <1>2 DEF OnInitBeginReturns
<1>4. /\ engine[m] \in Engine
      /\ progress' \in Seq(Entries) /\ DOMAIN progress' = DOMAIN progress
      /\ progress'[1] = [of |-> m, at |-> "core"]
      /\ \A i \in DOMAIN progress : i # 1 =>
           progress'[i] = progress[i] /\ (progress[i].at # "invoke" => progress[i].of # m)
      /\ Nested' /\ Cleared'
  BY <1>1, <1>2, <1>3, GoesOn DEF Initialising
<1>5. ~modules[m] /\ events[m] = Null /\ declared[engine[m]] = {}
  BY <1>1, <1>2 DEF Sound, Begun
<1>6. /\ events'[m] = (IF uses THEN <<>> ELSE Null) /\ modules'[m] /\ held'[m] = uses
      /\ \A k \in Manager : k # m =>
           events'[k] = events[k] /\ modules'[k] = modules[k] /\ held'[k] = held[k]
  BY <1>2, <1>3 DEF Sound, Types
<1>7. Types'
  BY <1>1, <1>2, <1>3, <1>4 DEF Sound, Types, scripts, arguments
<1>8. OneEngine'
  <2>1. <<>> # Null
    BY NullIsNoList
  <2> QED BY <1>1, <1>2, <1>3, <1>6, <2>1 DEF Sound, OneEngine
<1>9. Counted'
  <2>1. ASSUME NEW k \in Manager, engine[k] # 0
        PROVE  refs'[engine[k]] = 1 + One(modules'[k]) + One(events'[k] # Null)
    <3>1. CASE k = m
      <4>1. refs[engine[m]] = 1
        BY <1>2, <1>5 DEF Sound, Counted, One
      <4>2. refs'[engine[m]] = 1 + IF uses THEN 2 ELSE 1
        BY <1>3, <1>4, <4>1 DEF Sound, Types
      <4>3. <<>> # Null
        BY NullIsNoList
      <4> QED BY <1>6, <3>1, <4>2, <4>3 DEF One
    <3>2. CASE k # m
      <4>1. engine[k] # engine[m]
        BY <1>2, <2>1, <3>2 DEF Sound, OneEngine
      <4>2. engine[k] \in Engine
        BY <2>1 DEF Sound, Types
      <4>3. refs'[engine[k]] = refs[engine[k]]
        BY <1>3, <4>1, <4>2 DEF Sound, Types
      <4> QED BY <1>6, <2>1, <3>2, <4>3 DEF Sound, Counted
    <3> QED BY <3>1, <3>2
  <2>2. ASSUME NEW n \in Engine, \A k \in Manager : engine[k] # n
        PROVE  refs'[n] \in {-1, 0}
    BY <1>2, <1>3, <2>2 DEF Sound, Counted, Types
  <2> QED BY <1>1, <2>1, <2>2 DEF Counted
<1>10. Begun'
  <2>1. SUFFICES ASSUME NEW i \in DOMAIN progress
                 PROVE  LET k == progress'[i].of IN
                        /\ progress'[i].at = "begin" => ~modules'[k] /\ events'[k] = Null
                        /\ progress'[i].at \in {"begin", "core", "events"} =>
                             declared[engine[k]] = {}
                        /\ progress'[i].at = "events" => events'[k] # Null
    BY <1>1, <1>4 DEF Begun, scripts
  <2>2. CASE i = 1
    BY <1>4, <1>5, <2>2
  <2>3. CASE i # 1 /\ progress[i].at # "invoke"
    <3>1. progress'[i] = progress[i] /\ progress[i].of # m /\ progress[i].of \in Manager
      BY <1>4, <2>3, EntryTypes DEF Sound
    <3> QED BY <1>6, <3>1 DEF Sound, Begun
  <2>4. CASE i # 1 /\ progress[i].at = "invoke"
    BY <1>4, <2>4
  <2> QED BY <2>2, <2>3, <2>4
<1>11. Listed(m)' = {} /\ \A k \in Manager : k # m => Listed(k)' = Listed(k)
  <2>1. Listed(m)' = {}
    <3>1. CASE uses
      <4>1. events'[m] = <<>> /\ DOMAIN <<>> = {}
        BY <1>6, <3>1
      <4> QED BY <4>1, NullIsNoList DEF Listed
    <3>2. CASE ~uses
      BY <1>6, <3>2 DEF Listed
    <3> QED BY <3>1, <3>2
  <2>2. \A k \in Manager : k # m => Listed(k)' = Listed(k)
    BY <1>6 DEF Listed
  <2> QED BY <2>1, <2>2
<1>12. Separate'
  <2>1. ASSUME NEW k \in Manager, NEW l \in Manager, k # l
        PROVE  Listed(k)' \cap Listed(l)' = {}
    <3>1. CASE k = m \/ l = m
      BY <1>11, <3>1
    <3>2. CASE k # m /\ l # m
      <4>1. Listed(k) \cap Listed(l) = {}
        BY <2>1 DEF Sound, Separate
      <4> QED BY <1>11, <3>2, <4>1
    <3> QED BY <3>1, <3>2
  <2>2. \A k \in Manager : events'[k] # Null =>
          \A i, j \in DOMAIN events'[k] : Name[events'[k][i]] = Name[events'[k][j]] => i = j
    <3>1. SUFFICES ASSUME NEW k \in Manager, events'[k] # Null
                   PROVE  \A i, j \in DOMAIN events'[k] :
                            Name[events'[k][i]] = Name[events'[k][j]] => i = j
      OBVIOUS
    <3>2. CASE k = m
      BY <1>6, <3>1, <3>2
    <3>3. CASE k # m
      BY <1>6, <3>1, <3>3 DEF Sound, Separate
    <3> QED BY <3>2, <3>3
  <2> QED BY <2>1, <2>2 DEF Separate
<1>13. Registered'
  <2>1. \A n \in Engine : refs'[n] = -1 => declared'[n] = {}
    <3>1. refs[engine[m]] = 1
      BY <1>2, <1>5 DEF Sound, Counted, One
    <3> QED BY <1>1, <1>3, <1>4, <3>1 DEF Sound, Registered, Types, scripts
  <2>2. \A k \in Manager : engine'[k] # 0 /\ declared'[engine'[k]] # {} =>
          events'[k] # Null /\ \A e \in Listed(k)' : funcDef'[e] = engine'[k]
    BY <1>1, <1>5, <1>6, <1>11 DEF Sound, Registered, scripts
  <2>3. ASSUME NEW e \in Event, NEW n \in hooked[e]
        PROVE  \E k \in Manager : engine[k] = n /\ e \in Listed(k)'
    <3>1. PICK k \in Manager : engine[k] = n /\ e \in Listed(k)
      BY <2>3 DEF Sound, Registered
    <3>2. k # m
      BY <1>5, <3>1 DEF Listed
    <3> QED BY <1>11, <3>1, <3>2
  <2> QED BY <1>1, <2>1, <2>2, <2>3 DEF Registered, scripts
<1>14. Owned'
  BY <1>1 DEF Sound, Owned, arguments
<1> QED BY <1>3, <1>4, <1>7, <1>8, <1>9, <1>10, <1>12, <1>13, <1>14 DEF Sound

(* Events with different names have as many names as there are events.     *)
LEMMA NamesCount ==
  ASSUME NEW s \in Seq(Event), \A i, j \in DOMAIN s : Name[s[i]] = Name[s[j]] => i = j
  PROVE  Cardinality({Name[e] : e \in {s[i] : i \in DOMAIN s}}) = Len(s)
<1> DEFINE T == {Name[e] : e \in {s[i] : i \in DOMAIN s}}
           f == [i \in 1..Len(s) |-> Name[s[i]]]
<1>1. DOMAIN s = 1..Len(s) /\ Len(s) \in Nat
  OBVIOUS
<1>2. IsFiniteSet(1..Len(s)) /\ Cardinality(1..Len(s)) = Len(s)
  BY <1>1, FS_Interval
<1>3. f \in Bijection(1..Len(s), T)
  <2>1. f \in [1..Len(s) -> T]
    BY <1>1
  <2>2. \A i, j \in 1..Len(s) : f[i] = f[j] => i = j
    BY <1>1
  <2>3. \A t \in T : \E i \in 1..Len(s) : f[i] = t
    BY <1>1
  <2> QED BY <2>1, <2>2, <2>3 DEF Bijection, Injection, Surjection, IsInjective
<1>4. ExistsBijection(1..Len(s), T)
  BY <1>3 DEF ExistsBijection
<1> QED BY <1>2, <1>4, FS_Bijection

LEMMA AddEventsKeeps ==
  ASSUME Sound, AddEventsReturns
  PROVE  Sound'
<1>1. /\ progress # <<>> /\ Head(progress).at = "events"
      /\ UNCHANGED <<managers, hooked, arguments>>
  BY DEF AddEventsReturns, At
<1>2. PICK m \in Manager :
        /\ m = Head(progress).of /\ engine[m] # 0
        /\ 1 \in DOMAIN progress /\ Head(progress) = progress[1]
  <2>1. 1 \in DOMAIN progress /\ Head(progress) = progress[1]
    BY <1>1, HeadEntry DEF Sound
  <2> QED BY <1>1, <2>1, EntryTypes DEF Sound, Nested
<1>3. events[m] # Null /\ events[m] \in Seq(Event)
  BY <1>1, <1>2 DEF Sound, Begun, Types
<1>4. Cardinality({Name[e] : e \in Listed(m)}) = Len(events[m])
  BY <1>3, NamesCount DEF Sound, Separate, Listed
<1>5. /\ funcDef' = [e \in Event |-> IF e \in Listed(m) THEN engine[m] ELSE funcDef[e]]
      /\ declared' = [declared EXCEPT ![engine[m]] =
                        {Name[e] : e \in Listed(m)} \cup {<<"g_EventManager">>}]
      /\ Goes("api") /\ fault' = fault
  <2>1. ~(engine[m] = 0 \/ Cardinality({Name[e] : e \in Listed(m)}) < Len(events[m]))
    BY <1>2, <1>3, <1>4
  <2> QED BY <1>2, <2>1 DEF AddEventsReturns
<1>6. /\ engine[m] \in Engine
      /\ progress' \in Seq(Entries) /\ DOMAIN progress' = DOMAIN progress
      /\ progress'[1] = [of |-> m, at |-> "api"]
      /\ \A i \in DOMAIN progress : i # 1 =>
           progress'[i] = progress[i] /\ (progress[i].at # "invoke" => progress[i].of # m)
      /\ Nested' /\ Cleared'
  BY <1>1, <1>2, <1>5, GoesOn DEF Initialising, managers
<1>7. Types'
  BY <1>1, <1>5, <1>6 DEF Sound, Types, managers, arguments
<1>8. OneEngine' /\ Counted' /\ Separate'
  <2>1. OneEngine'
    BY <1>1 DEF Sound, OneEngine, managers
  <2>2. Counted'
    BY <1>1 DEF Sound, Counted, One, managers
  <2>3. Separate'
    <3>1. events' = events
      BY <1>1 DEF managers
    <3>2. \A k \in Manager : Listed(k)' = Listed(k)
      BY <3>1 DEF Listed
    <3> QED BY <3>1, <3>2 DEF Sound, Separate
  <2> QED BY <2>1, <2>2, <2>3
<1>9. ASSUME NEW k \in Manager, k # m, engine[k] # 0
      PROVE  declared'[engine[k]] = declared[engine[k]]
  <2>1. engine[k] # engine[m]
    BY <1>2, <1>9 DEF Sound, OneEngine
  <2>2. engine[k] \in Engine
    BY <1>9 DEF Sound, Types
  <2> QED BY <1>5, <2>1, <2>2 DEF Sound, Types
<1>10. Begun'
  <2>1. SUFFICES ASSUME NEW i \in DOMAIN progress
                 PROVE  LET k == progress'[i].of IN
                        /\ progress'[i].at = "begin" => ~modules[k] /\ events[k] = Null
                        /\ progress'[i].at \in {"begin", "core", "events"} =>
                             declared'[engine[k]] = {}
                        /\ progress'[i].at = "events" => events[k] # Null
    BY <1>1, <1>6 DEF Begun, managers
  <2>2. CASE i = 1
    BY <1>6, <2>2
  <2>3. CASE i # 1 /\ progress[i].at # "invoke"
    <3>1. /\ progress'[i] = progress[i] /\ progress[i].of # m /\ progress[i].of \in Manager
          /\ engine[progress[i].of] # 0
      BY <1>6, <2>3, EntryTypes DEF Sound, Nested
    <3> QED BY <1>9, <3>1 DEF Sound, Begun
  <2>4. CASE i # 1 /\ progress[i].at = "invoke"
    BY <1>6, <2>4
  <2> QED BY <2>2, <2>3, <2>4
<1>11. Registered'
  <2>1. ASSUME NEW n \in Engine, refs[n] = -1 PROVE declared'[n] = {}
    <3>1. n # engine[m]
      <4>1. refs[engine[m]] = 1 + One(modules[m]) + One(events[m] # Null)
        BY <1>2 DEF Sound, Counted
      <4>2. refs[engine[m]] # -1
        BY <4>1 DEF One
      <4> QED BY <2>1, <4>2
    <3> QED BY <1>5, <2>1, <3>1 DEF Sound, Registered, Types
  <2>2. ASSUME NEW k \in Manager, engine[k] # 0, declared'[engine[k]] # {}
        PROVE  events[k] # Null /\ \A e \in Listed(k) : funcDef'[e] = engine[k]
    <3>1. Listed(k) \subseteq Event
      BY DEF Sound, Types, Listed
    <3>2. CASE k = m
      BY <1>3, <1>5, <3>1, <3>2
    <3>3. CASE k # m
      <4>1. Listed(k) \cap Listed(m) = {}
        BY <3>3 DEF Sound, Separate
      <4> QED BY <1>5, <1>9, <2>2, <3>1, <3>3, <4>1 DEF Sound, Registered
    <3> QED BY <3>2, <3>3
  <2>3. \A k \in Manager : Listed(k)' = Listed(k)
    BY <1>1 DEF Listed, managers
  <2> QED BY <1>1, <2>1, <2>2, <2>3 DEF Sound, Registered, managers
<1>12. Owned'
  BY <1>1 DEF Sound, Owned, managers, arguments
<1> QED BY <1>5, <1>6, <1>7, <1>8, <1>10, <1>11, <1>12 DEF Sound

LEMMA AddEventKeeps ==
  ASSUME Sound, NEW m \in Manager, NEW e \in Event, AddEvent(m, e), ~careless'
  PROVE  Sound'
<1> USE DEF scripts, arguments
<1>1. /\ progress # <<>> /\ Head(progress).at = "events" /\ Head(progress).of = m
      /\ events[m] # Null /\ e \notin Listed(m)
      /\ events' = [events EXCEPT ![m] = Append(@, e)]
      /\ UNCHANGED <<active, engine, refs, held, modules, progress, scripts, arguments, fault>>
      /\ \A k \in Manager \ {m} : e \notin Listed(k)
      /\ \A f \in Listed(m) : Name[f] # Name[e]
  BY DEF AddEvent, At, CarelessIf
<1>2. events[m] \in Seq(Event)
  BY <1>1 DEF Sound, Types
<1>3. /\ events'[m] = Append(events[m], e) /\ events'[m] \in Seq(Event)
      /\ \A k \in Manager : k # m => events'[k] = events[k]
  BY <1>1, <1>2 DEF Sound, Types
<1>4. \A k \in Manager : events'[k] = Null <=> events[k] = Null
  BY <1>1, <1>3, NullIsNoList
<1>5. /\ DOMAIN events'[m] = 1..(Len(events[m]) + 1) /\ Len(events[m]) \in Nat
      /\ \A i \in 1..Len(events[m]) : events'[m][i] = events[m][i]
      /\ events'[m][Len(events[m]) + 1] = e
      /\ DOMAIN events[m] = 1..Len(events[m])
  BY <1>2, <1>3
<1>6. Listed(m)' = Listed(m) \cup {e} /\ \A k \in Manager : k # m => Listed(k)' = Listed(k)
  <2>1. Listed(m)' = {events'[m][i] : i \in DOMAIN events'[m]}
    BY <1>1, <1>4 DEF Listed
  <2>2. Listed(m) = {events[m][i] : i \in DOMAIN events[m]}
    BY <1>1 DEF Listed
  <2>3. ASSUME NEW i \in DOMAIN events'[m]
        PROVE  i \in 1..Len(events[m]) \/ i = Len(events[m]) + 1
    BY <1>5
  <2>4. {events'[m][i] : i \in DOMAIN events'[m]} = {events[m][i] : i \in DOMAIN events[m]} \cup {e}
    <3> DEFINE new == {events'[m][i] : i \in DOMAIN events'[m]}
               old == {events[m][i] : i \in DOMAIN events[m]}
    <3>1. ASSUME NEW f \in new PROVE f \in old \cup {e}
      <4>1. PICK i \in DOMAIN events'[m] : f = events'[m][i]
        OBVIOUS
      <4>2. CASE i \in 1..Len(events[m])
        BY <1>5, <4>1, <4>2
      <4>3. CASE i = Len(events[m]) + 1
        BY <1>5, <4>1, <4>3
      <4> QED BY <2>3, <4>2, <4>3
    <3>2. ASSUME NEW i \in DOMAIN events[m] PROVE events[m][i] \in new
      <4>1. i \in DOMAIN events'[m] /\ events'[m][i] = events[m][i]
        BY <1>5
      <4> QED BY <4>1
    <3>3. e \in new
      <4>1. Len(events[m]) + 1 \in DOMAIN events'[m]
        BY <1>5
      <4> QED BY <1>5, <4>1
    <3> QED BY <3>1, <3>2, <3>3
  <2>5. \A k \in Manager : k # m => Listed(k)' = Listed(k)
    BY <1>3 DEF Listed
  <2> QED BY <2>1, <2>2, <2>4, <2>5
<1>7. Types'
  BY <1>1, <1>2, <1>3 DEF Sound, Types
<1>8. OneEngine'
  BY <1>1, <1>4 DEF Sound, OneEngine
<1>9. Counted'
  BY <1>1, <1>4 DEF Sound, Counted, One
<1>10. Nested' /\ Cleared'
  BY <1>1 DEF Sound, Nested, Cleared
<1>11. Begun'
  <2>1. SUFFICES ASSUME NEW i \in DOMAIN progress
                 PROVE  LET k == progress[i].of IN
                        /\ progress[i].at = "begin" => ~modules[k] /\ events'[k] = Null
                        /\ progress[i].at \in {"begin", "core", "events"} =>
                             declared[engine[k]] = {}
                        /\ progress[i].at = "events" => events'[k] # Null
    BY <1>1 DEF Begun
  <2>2. CASE progress[i].at = "invoke"
    BY <2>2
  <2>3. CASE progress[i].at # "invoke"
    <3>1. progress[i].of \in Manager
      BY <2>3, EntryTypes DEF Sound
    <3> QED BY <1>4, <3>1 DEF Sound, Begun
  <2> QED BY <2>2, <2>3
<1>12. Separate'
  <2>1. ASSUME NEW k \in Manager, NEW l \in Manager, k # l
        PROVE  Listed(k)' \cap Listed(l)' = {}
    <3>1. Listed(k) \cap Listed(l) = {}
      BY <2>1 DEF Sound, Separate
    <3> QED BY <1>1, <1>6, <2>1, <3>1
  <2>2. ASSUME NEW k \in Manager, events'[k] # Null,
               NEW i \in DOMAIN events'[k], NEW j \in DOMAIN events'[k],
               Name[events'[k][i]] = Name[events'[k][j]]
        PROVE  i = j
    <3>1. CASE k # m
      BY <1>3, <2>2, <3>1 DEF Sound, Separate
    <3>2. CASE k = m
      <4>1. \A x \in 1..Len(events[m]) : events[m][x] \in Listed(m)
        BY <1>1, <1>5 DEF Listed
      <4>2. \A x \in 1..Len(events[m]) : Name[events'[m][x]] # Name[e]
        BY <1>1, <1>5, <4>1
      <4>3. CASE i \in 1..Len(events[m]) /\ j \in 1..Len(events[m])
        BY <1>1, <1>5, <2>2, <3>2, <4>3 DEF Sound, Separate
      <4>4. CASE i \notin 1..Len(events[m]) \/ j \notin 1..Len(events[m])
        <5>1. i = Len(events[m]) + 1 \/ j = Len(events[m]) + 1
          BY <1>5, <2>2, <3>2, <4>4
        <5>2. i \in 1..(Len(events[m]) + 1) /\ j \in 1..(Len(events[m]) + 1)
          BY <1>5, <2>2, <3>2
        <5> QED BY <1>5, <2>2, <3>2, <4>2, <5>1, <5>2
      <4> QED BY <4>3, <4>4
    <3> QED BY <3>1, <3>2
  <2> QED BY <2>1, <2>2 DEF Separate
<1>13. Registered'
  <2>1. declared[engine[m]] = {}
    <3>1. progress[1] = Head(progress) /\ 1 \in DOMAIN progress
      BY <1>1, HeadEntry DEF Sound
    <3> QED BY <1>1, <3>1 DEF Sound, Begun
  <2>2. ASSUME NEW k \in Manager, engine[k] # 0, declared[engine[k]] # {}
        PROVE  events'[k] # Null /\ \A f \in Listed(k)' : funcDef[f] = engine[k]
    BY <1>4, <1>6, <2>1, <2>2 DEF Sound, Registered
  <2>3. \A k \in Manager : Listed(k) \subseteq Listed(k)'
    BY <1>6
  <2>4. \A f \in Event : \A n \in hooked[f] :
          \E k \in Manager : engine[k] = n /\ f \in Listed(k)'
    BY <2>3 DEF Sound, Registered
  <2> QED BY <1>1, <2>2, <2>4 DEF Sound, Registered
<1>14. Owned'
  BY <1>1 DEF Sound, Owned
<1> QED BY <1>1, <1>7, <1>8, <1>9, <1>10, <1>11, <1>12, <1>13, <1>14 DEF Sound

LEMMA InitializeKeeps ==
  ASSUME Sound, NEW m \in Manager, Initialize(m), ~careless'
  PROVE  Sound'
<1> USE DEF scripts, arguments
<1> DEFINE x == [of |-> m, at |-> "begin"]
<1>1. PICK n \in Engine :
        /\ refs[n] = -1
        /\ engine' = [engine EXCEPT ![m] = n]
        /\ refs' = [refs EXCEPT ![n] = 1]
  BY DEF Initialize
<1>2. /\ engine[m] = 0 /\ progress' = <<x>> \o progress
      /\ UNCHANGED <<active, held, events, modules, scripts, arguments, fault>>
  BY DEF Initialize
<1>3. \A i \in DOMAIN progress : progress[i].at # "clear"
  BY DEF Initialize, CarelessIf, Clearing
<1>4. x \in Entries
  BY DEF Entries, Initialising
<1>5. /\ progress' \in Seq(Entries) /\ Len(progress') = Len(progress) + 1 /\ progress'[1] = x
      /\ \A i \in 2..Len(progress') : i - 1 \in DOMAIN progress /\ progress'[i] = progress[i - 1]
  <2>1. progress \in Seq(Entries)
    BY DEF Sound, Types
  <2> HIDE DEF x
  <2> QED BY <1>2, <1>4, <2>1, Pushed
<1>6. \A i \in DOMAIN progress' : i # 1 =>
        i \in 2..Len(progress') /\ i - 1 \in DOMAIN progress /\ progress'[i] = progress[i - 1]
  BY <1>5
<1>7. n # 0 /\ n \in Int
  BY DEF Engine
<1>8. \A k \in Manager : engine[k] # n
  <2>1. SUFFICES ASSUME NEW k \in Manager, engine[k] = n
                 PROVE  FALSE
    OBVIOUS
  <2>2. refs[n] = 1 + One(modules[k]) + One(events[k] # Null)
    BY <1>7, <2>1 DEF Sound, Counted
  <2> QED BY <1>1, <2>2 DEF One
<1>9. engine'[m] = n /\ \A k \in Manager : k # m => engine'[k] = engine[k]
  BY <1>1 DEF Sound, Types
<1>10. ~held[m] /\ ~modules[m] /\ events[m] = Null /\ declared[n] = {}
  BY <1>1, <1>2 DEF Sound, OneEngine, Registered
<1>11. Types'
  BY <1>1, <1>2, <1>5 DEF Sound, Types
<1>12. OneEngine'
  <2>1. \A k, l \in Manager : engine'[k] = engine'[l] /\ engine'[k] # 0 => k = l
    BY <1>8, <1>9 DEF Sound, OneEngine
  <2>2. active # Null => engine'[active] # 0
    BY <1>7, <1>9 DEF Sound, OneEngine, Types
  <2> QED BY <1>2, <1>7, <1>9, <2>1, <2>2 DEF Sound, OneEngine
<1>13. Counted'
  <2>1. ASSUME NEW k \in Manager, engine'[k] # 0
        PROVE  refs'[engine'[k]] = 1 + One(modules[k]) + One(events[k] # Null)
    <3>1. CASE k = m
      BY <1>1, <1>9, <1>10, <3>1 DEF Sound, Types, One
    <3>2. CASE k # m
      <4>1. engine'[k] = engine[k] /\ engine[k] # n /\ engine[k] \in Engine
        BY <1>8, <1>9, <2>1, <3>2 DEF Sound, Types
      <4>2. refs'[engine[k]] = refs[engine[k]]
        BY <1>1, <4>1 DEF Sound, Types
      <4> QED BY <2>1, <4>1, <4>2 DEF Sound, Counted
    <3> QED BY <3>1, <3>2
  <2>2. ASSUME NEW y \in Engine, \A k \in Manager : engine'[k] # y
        PROVE  refs'[y] \in {-1, 0}
    <3>1. y # n /\ y # 0
      BY <1>9, <2>2 DEF Engine
    <3>2. \A k \in Manager : engine[k] # y
      BY <1>2, <1>9, <2>2, <3>1
    <3> QED BY <1>1, <3>1, <3>2 DEF Sound, Counted, Types
  <2> QED BY <1>2, <2>1, <2>2 DEF Counted
<1>14. \A i \in DOMAIN progress : progress[i].at # "invoke" =>
         progress[i].of \in Manager /\ progress[i].of # m
  BY <1>2, EntryTypes DEF Sound, Nested
<1>15. Nested'
  <2>1. \A i \in DOMAIN progress' : progress'[i].at # "invoke" => engine'[progress'[i].of] # 0
    <3>1. SUFFICES ASSUME NEW i \in DOMAIN progress', progress'[i].at # "invoke"
                   PROVE  engine'[progress'[i].of] # 0
      OBVIOUS
    <3>2. CASE i = 1
      BY <1>5, <1>7, <1>9, <3>2
    <3>3. CASE i # 1
      <4>1. i - 1 \in DOMAIN progress /\ progress'[i] = progress[i - 1]
        BY <1>6, <3>3
      <4>2. progress'[i].of \in Manager /\ progress'[i].of # m
        BY <1>14, <3>1, <4>1
      <4> QED BY <1>9, <3>1, <4>1, <4>2 DEF Sound, Nested
    <3> QED BY <3>2, <3>3
  <2>2. ASSUME NEW i \in DOMAIN progress', NEW j \in DOMAIN progress',
               progress'[i].at # "invoke", progress'[j].at # "invoke",
               progress'[i].of = progress'[j].of
        PROVE  i = j
    <3>1. CASE i = 1 \/ j = 1
      BY <1>5, <1>6, <1>14, <2>2, <3>1
    <3>2. CASE i # 1 /\ j # 1
      <4>1. i - 1 = j - 1
        BY <1>6, <2>2, <3>2 DEF Sound, Nested
      <4> QED BY <1>6, <2>2, <3>2, <4>1
    <3> QED BY <3>1, <3>2
  <2> QED BY <2>1, <2>2 DEF Nested
<1>16. Begun'
  <2>1. SUFFICES ASSUME NEW i \in DOMAIN progress'
                 PROVE  LET k == progress'[i].of IN
                        /\ progress'[i].at = "begin" => ~modules[k] /\ events[k] = Null
                        /\ progress'[i].at \in {"begin", "core", "events"} =>
                             declared[engine'[k]] = {}
                        /\ progress'[i].at = "events" => events[k] # Null
    BY <1>2 DEF Begun
  <2>2. CASE i = 1
    BY <1>5, <1>9, <1>10, <2>2
  <2>3. CASE i # 1 /\ progress'[i].at # "invoke"
    <3>1. i - 1 \in DOMAIN progress /\ progress'[i] = progress[i - 1]
      BY <1>6, <2>3
    <3>2. progress'[i].of \in Manager /\ engine'[progress'[i].of] = engine[progress'[i].of]
      BY <1>9, <1>14, <2>3, <3>1
    <3> QED BY <3>1, <3>2 DEF Sound, Begun
  <2>4. CASE progress'[i].at = "invoke"
    BY <2>4
  <2> QED BY <2>2, <2>3, <2>4
<1>17. Cleared'
  <2>1. \A i \in DOMAIN progress' : progress'[i].at # "clear"
    BY <1>3, <1>5, <1>6
  <2> QED BY <2>1 DEF Cleared
<1>18. \A k \in Manager : Listed(k)' = Listed(k)
  BY <1>2 DEF Listed
<1>19. Separate'
  BY <1>2, <1>18 DEF Sound, Separate
<1>20. Registered'
  <2>1. \A y \in Engine : refs'[y] = -1 => declared[y] = {}
    BY <1>1 DEF Sound, Registered, Types
  <2>2. ASSUME NEW k \in Manager, engine'[k] # 0, declared[engine'[k]] # {}
        PROVE  events[k] # Null /\ \A e \in Listed(k) : funcDef[e] = engine'[k]
    BY <1>9, <1>10, <2>2 DEF Sound, Registered
  <2>3. ASSUME NEW e \in Event, NEW y \in hooked[e]
        PROVE  \E k \in Manager : engine'[k] = y /\ e \in Listed(k)
    <3>1. PICK k \in Manager : engine[k] = y /\ e \in Listed(k)
      BY <2>3 DEF Sound, Registered
    <3>2. k # m
      BY <1>10, <3>1 DEF Listed
    <3> QED BY <1>9, <3>1, <3>2
  <2> QED BY <1>2, <1>18, <2>1, <2>2, <2>3 DEF Registered
<1>21. Owned'
  <2>1. ASSUME NEW a \in Argument, argument[a].engine # 0
        PROVE  \E k \in Manager : engine'[k] = argument[a].engine
    BY <1>2, <1>9, <2>1 DEF Sound, Owned
  <2>2. ASSUME NEW a \in Argument, argument[a].home # Null
        PROVE  argument[a].engine # 0 /\ engine'[argument[a].home] = argument[a].engine
    <3>1. argument[a].home \in Manager
      BY <2>2 DEF Sound, Types
    <3>2. argument[a].engine # 0 /\ engine[argument[a].home] = argument[a].engine
      BY <2>2 DEF Sound, Owned
    <3> QED BY <1>2, <1>9, <3>1, <3>2
  <2> QED BY <1>2, <2>1, <2>2 DEF Sound, Owned
<1> QED BY <1>2, <1>11, <1>12, <1>13, <1>15, <1>16, <1>17, <1>19, <1>20, <1>21 DEF Sound

(* No event is triggered when no callback in progress is an invocation.    *)
LEMMA Untriggered ==
  ASSUME Types
  PROVE  (\A e \in Event : ~IsTriggering(e)) <=>
           \A i \in DOMAIN progress : progress[i].at # "invoke"
<1>1. ASSUME NEW i \in DOMAIN progress, progress[i].at = "invoke"
      PROVE  \E e \in Event : IsTriggering(e)
  <2>1. progress[i] \in Entries /\ progress[i].of \in Event
    BY <1>1, EntryTypes
  <2>2. progress[i] = [of |-> progress[i].of, at |-> "invoke"]
    BY <1>1, <2>1 DEF Entries, Initialising
  <2> QED BY <2>1, <2>2 DEF IsTriggering
<1>2. ASSUME NEW e \in Event, IsTriggering(e)
      PROVE  \E i \in DOMAIN progress : progress[i].at = "invoke"
  BY <1>2 DEF IsTriggering
<1> QED BY <1>1, <1>2

LEMMA ShutdownKeeps ==
  ASSUME Sound, NEW m \in Manager, Shutdown(m), ~careless'
  PROVE  Sound'
<1> DEFINE x == [of |-> m, at |-> "clear"]
<1>1. /\ engine[m] # 0 /\ active' = m
      /\ hooked' = (IF held[m] THEN UnhookAllFunctions(m) ELSE hooked)
      /\ held' = [held EXCEPT ![m] = FALSE]
      /\ progress' = <<x>> \o progress
      /\ UNCHANGED <<engine, refs, events, modules, funcDef, declared, arguments, fault>>
  BY DEF Shutdown, Activated
<1>2. /\ ~InProgress(m) /\ ~Clearing /\ \A e \in Event : ~IsTriggering(e)
      /\ \A a \in Argument : argument[a] # [engine |-> engine[m], home |-> Null]
  BY DEF Shutdown, CarelessIf
<1>3. x \in Entries
  BY DEF Entries
<1>4. /\ progress' \in Seq(Entries) /\ Len(progress') = Len(progress) + 1 /\ progress'[1] = x
      /\ \A i \in 2..Len(progress') : i - 1 \in DOMAIN progress /\ progress'[i] = progress[i - 1]
  <2>1. progress \in Seq(Entries)
    BY DEF Sound, Types
  <2> HIDE DEF x
  <2> QED BY <1>1, <1>3, <2>1, Pushed
<1>5. \A i \in DOMAIN progress' : i # 1 =>
        i \in 2..Len(progress') /\ i - 1 \in DOMAIN progress /\ progress'[i] = progress[i - 1]
  BY <1>4
<1>6. \A i \in DOMAIN progress :
        progress[i].of # m /\ progress[i].at # "clear" /\ progress[i].at # "invoke"
  BY <1>2, Untriggered DEF Sound, InProgress, Clearing
<1>7. /\ hooked' \in [Event -> SUBSET Engine]
      /\ \A e \in Event : hooked'[e] \subseteq hooked[e]
  BY <1>1 DEF Sound, Types, UnhookAllFunctions
<1>8. Types'
  BY <1>1, <1>4, <1>7 DEF Sound, Types, arguments
<1>9. OneEngine'
  <2>1. \A k \in Manager : held'[k] => held[k]
    BY <1>1 DEF Sound, Types
  <2> QED BY <1>1, <2>1 DEF Sound, OneEngine
<1>10. Counted'
  BY <1>1 DEF Sound, Counted, One
<1>11. Nested'
  <2>1. \A i \in DOMAIN progress' : progress'[i].at # "invoke" => engine'[progress'[i].of] # 0
    BY <1>1, <1>4, <1>5 DEF Sound, Nested
  <2>2. ASSUME NEW i \in DOMAIN progress', NEW j \in DOMAIN progress',
               progress'[i].at # "invoke", progress'[j].at # "invoke",
               progress'[i].of = progress'[j].of
        PROVE  i = j
    <3>1. CASE i = 1 \/ j = 1
      BY <1>4, <1>5, <1>6, <2>2, <3>1
    <3>2. CASE i # 1 /\ j # 1
      <4>1. i - 1 = j - 1
        BY <1>5, <2>2, <3>2 DEF Sound, Nested
      <4> QED BY <1>5, <2>2, <3>2, <4>1
    <3> QED BY <3>1, <3>2
  <2> QED BY <2>1, <2>2 DEF Nested
<1>12. Begun'
  <2>1. SUFFICES ASSUME NEW i \in DOMAIN progress', progress'[i].at # "clear"
                 PROVE  LET k == progress'[i].of IN
                        /\ progress'[i].at = "begin" => ~modules[k] /\ events[k] = Null
                        /\ progress'[i].at \in {"begin", "core", "events"} =>
                             declared[engine[k]] = {}
                        /\ progress'[i].at = "events" => events[k] # Null
    BY <1>1 DEF Begun
  <2>2. i - 1 \in DOMAIN progress /\ progress'[i] = progress[i - 1]
    BY <1>4, <1>5, <2>1
  <2> QED BY <2>2 DEF Sound, Begun
<1>13. Cleared'
  <2>1. \A i \in DOMAIN progress' : progress'[i].at = "clear" => i = 1
    BY <1>5, <1>6
  <2>2. \A j \in (1 + 1)..Len(progress') : progress'[j].at # "invoke"
    BY <1>4, <1>6
  <2>3. ~held'[m]
    BY <1>1 DEF Sound, Types
  <2>4. 1..(1 - 1) = {}
    OBVIOUS
  <2>5. \A a \in Argument : argument'[a] # [engine |-> engine'[m], home |-> Null]
    BY <1>1, <1>2 DEF arguments
  <2>6. progress'[1].of = active' /\ active' = m
    BY <1>1, <1>4
  <2> QED BY <2>1, <2>2, <2>3, <2>4, <2>5, <2>6 DEF Cleared
<1>14. \A k \in Manager : Listed(k)' = Listed(k)
  BY <1>1 DEF Listed
<1>15. Separate'
  BY <1>1, <1>14 DEF Sound, Separate
<1>16. Registered'
  BY <1>1, <1>7, <1>14 DEF Sound, Registered
<1>17. Owned'
  BY <1>1 DEF Sound, Owned, arguments
<1> QED BY <1>1, <1>8, <1>9, <1>10, <1>11, <1>12, <1>13, <1>15, <1>16, <1>17 DEF Sound

LEMMA ShutdownCompletesKeeps ==
  ASSUME Sound, ShutdownCompletes
  PROVE  Sound'
<1>1. /\ progress # <<>> /\ Head(progress).at = "clear"
      /\ UNCHANGED <<held, funcDef, declared>>
  BY DEF ShutdownCompletes, At
<1>2. PICK m \in Manager :
        /\ m = Head(progress).of /\ engine[m] # 0
        /\ 1 \in DOMAIN progress /\ Head(progress) = progress[1]
  <2>1. 1 \in DOMAIN progress /\ Head(progress) = progress[1]
    BY <1>1, HeadEntry DEF Sound
  <2> QED BY <1>1, <2>1, EntryTypes DEF Sound, Nested
<1>3. /\ active = m /\ m # Null /\ ~held[m]
      /\ \A a \in Argument : argument[a] # [engine |-> engine[m], home |-> Null]
  BY <1>1, <1>2, HostAssumption DEF Sound, Cleared
<1> DEFINE gone == {a \in Argument : argument[a].home = m}
           left == engine[m]
<1>4. left \in Engine /\ left \in Int /\ left # 0
  BY <1>2 DEF Sound, Types, Engine
<1>5. /\ argument' = [a \in Argument |-> IF a \in gone THEN Unset ELSE argument[a]]
      /\ Released(gone)
      /\ hooked' = UnhookAllFunctions(m)
      /\ events' = [events EXCEPT ![m] = Null]
      /\ modules' = [modules EXCEPT ![m] = FALSE]
      /\ refs' = [refs EXCEPT ![engine[m]] =
                    @ - 1 - (IF modules[m] THEN 1 ELSE 0) - (IF events[m] # Null THEN 1 ELSE 0)]
      /\ engine' = [engine EXCEPT ![m] = 0]
      /\ active' = Deactivated(m)
      /\ Returns
      /\ fault' = fault
  <2>1. ~(engine[m] = 0 \/ (gone # {} /\ active = Null))
    BY <1>2, <1>3
  <2> QED BY <1>2, <2>1 DEF ShutdownCompletes
<1>6. /\ engine'[m] = 0 /\ events'[m] = Null /\ ~modules'[m] /\ active' = Null
      /\ \A k \in Manager : k # m =>
           engine'[k] = engine[k] /\ events'[k] = events[k] /\ modules'[k] = modules[k]
  BY <1>3, <1>5 DEF Sound, Types, Deactivated
<1>7. \A i \in DOMAIN progress : i # 1 =>
        progress[i].at \in Initialising /\ progress[i].of \in Manager \ {m}
  <2>1. SUFFICES ASSUME NEW i \in DOMAIN progress, i # 1
                 PROVE  progress[i].at \in Initialising /\ progress[i].of \in Manager \ {m}
    OBVIOUS
  <2>2. i \in (1 + 1)..Len(progress) /\ 1 \in 1..(i - 1)
    BY <2>1 DEF Sound, Types
  <2>3. progress[i].at # "invoke"
    BY <1>1, <1>2, <2>2 DEF Sound, Cleared
  <2>4. progress[i].at # "clear"
    BY <1>1, <1>2, <2>2 DEF Sound, Cleared
  <2>5. progress[i].of # m
    BY <1>1, <1>2, <2>1, <2>3 DEF Sound, Nested
  <2> QED BY <2>3, <2>4, <2>5, EntryTypes DEF Sound
<1>8. /\ progress' \in Seq(Entries) /\ Len(progress') = Len(progress) - 1
      /\ \A i \in DOMAIN progress' :
           i + 1 \in DOMAIN progress /\ i + 1 # 1 /\ progress'[i] = progress[i + 1]
  <2>1. progress \in Seq(Entries) /\ progress' = Tail(progress)
    BY <1>5 DEF Sound, Types, Returns
  <2>2. /\ progress' \in Seq(Entries) /\ Len(progress') = Len(progress) - 1
        /\ \A i \in 1..Len(progress') : i + 1 \in DOMAIN progress /\ progress'[i] = progress[i + 1]
    BY <1>1, <2>1, Popped
  <2> QED BY <2>2
<1>9. \A i \in DOMAIN progress' :
        progress'[i].at \in Initialising /\ progress'[i].of \in Manager \ {m}
  BY <1>7, <1>8
<1>10. \A e \in Event : hooked'[e] = IF e \in Listed(m) THEN {} ELSE hooked[e]
  <2>1. \A e \in Event : ~IsTriggering(e)
    BY <1>1, <1>2, <1>7, Untriggered DEF Sound, Initialising
  <2> QED BY <1>5, <2>1 DEF UnhookAllFunctions
<1>11. \A n \in Engine : objects'[n] =
         IF n = left THEN objects[n] - Cardinality({a \in gone : argument[a].engine = n})
                     ELSE objects[n]
  BY <1>3, <1>5 DEF Released
<1>12. \A a \in Argument : a \in gone <=> argument[a].engine = left
  <2>1. SUFFICES ASSUME NEW a \in Argument
                 PROVE  argument[a].home = m <=> argument[a].engine = left
    OBVIOUS
  <2>2. argument[a] \in [engine : Engine \cup {0}, home : Manager \cup {Null}]
    BY DEF Sound, Types
  <2>3. CASE argument[a].home = Null
    <3>1. argument[a] = [engine |-> argument[a].engine, home |-> Null]
      BY <2>2, <2>3
    <3> QED BY <1>3, <2>3, <3>1
  <2>4. CASE argument[a].home # Null
    <3>1. argument[a].home \in Manager /\ engine[argument[a].home] = argument[a].engine
      BY <2>2, <2>4 DEF Sound, Owned
    <3> QED BY <1>2, <3>1 DEF Sound, OneEngine
  <2> QED BY <2>3, <2>4
<1>13. \A a \in Argument : argument'[a] = IF a \in gone THEN Unset ELSE argument[a]
  BY <1>5
<1>14. \A n \in Engine :
         {a \in Argument : argument'[a].engine = n} =
           IF n = left THEN {} ELSE {a \in Argument : argument[a].engine = n}
  <2>1. SUFFICES ASSUME NEW n \in Engine, NEW a \in Argument
                 PROVE  argument'[a].engine = n <=> n # left /\ argument[a].engine = n
    OBVIOUS
  <2>2. n # 0 /\ Unset.engine = 0
    BY DEF Engine, Unset
  <2> QED BY <1>12, <1>13, <2>2
<1>15. \A n \in Engine :
         objects'[n] = Cardinality({a \in Argument : argument'[a].engine = n})
  <2>1. SUFFICES ASSUME NEW n \in Engine
                 PROVE  objects'[n] = Cardinality({a \in Argument : argument'[a].engine = n})
    OBVIOUS
  <2>2. objects[n] = Cardinality({a \in Argument : argument[a].engine = n}) /\ objects[n] \in Int
    BY DEF Sound, Owned, Types
  <2>3. CASE n = left
    <3>1. {a \in gone : argument[a].engine = n} = {a \in Argument : argument[a].engine = n}
      BY <1>12, <2>3
    <3>2. objects'[n] = 0
      BY <1>11, <2>2, <2>3, <3>1
    <3>3. Cardinality({a \in Argument : argument'[a].engine = n}) = 0
      BY <1>14, <2>3, FS_EmptySet
    <3> QED BY <3>2, <3>3
  <2>4. CASE n # left
    BY <1>11, <1>14, <2>2, <2>4
  <2> QED BY <2>3, <2>4
<1>16. refs' = [refs EXCEPT ![left] = 0]
  <2>1. refs[left] = 1 + One(modules[m]) + One(events[m] # Null)
    BY <1>2 DEF Sound, Counted
  <2>2. refs[left] - 1 - (IF modules[m] THEN 1 ELSE 0) - (IF events[m] # Null THEN 1 ELSE 0) = 0
    BY <2>1 DEF One
  <2> QED BY <1>5, <2>2
<1>17. Types'
  <2>1. hooked' \in [Event -> SUBSET Engine]
    BY <1>5 DEF Sound, Types, UnhookAllFunctions
  <2>2. argument' \in [Argument -> [engine : Engine \cup {0}, home : Manager \cup {Null}]]
    <3>1. Unset \in [engine : Engine \cup {0}, home : Manager \cup {Null}]
      BY DEF Unset
    <3> QED BY <1>5, <3>1 DEF Sound, Types
  <2>3. objects' \in [Engine -> Int]
    <3>1. \A n \in Engine : IsFiniteSet({a \in gone : argument[a].engine = n})
      BY HostAssumption, FS_Subset
    <3>2. \A n \in Engine : Cardinality({a \in gone : argument[a].engine = n}) \in Nat
      BY <3>1, FS_CardinalityType
    <3>3. ASSUME NEW n \in Engine PROVE objects'[n] \in Int
      <4> DEFINE c == Cardinality({a \in gone : argument[a].engine = n})
      <4>1. c \in Nat /\ objects[n] \in Int
        BY <3>2 DEF Sound, Types
      <4>2. objects'[n] = IF n = left THEN objects[n] - c ELSE objects[n]
        BY <1>11
      <4> HIDE DEF c
      <4> QED BY <4>1, <4>2
    <3>4. objects' = [n \in Engine |-> objects'[n]]
      BY <1>5 DEF Released
    <3> QED BY <3>3, <3>4
  <2>4. /\ engine' \in [Manager -> Engine \cup {0}] /\ refs' \in [Engine -> Int]
        /\ events' \in [Manager -> Seq(Event) \cup {Null}] /\ modules' \in [Manager -> BOOLEAN]
    <3>1. engine' \in [Manager -> Engine \cup {0}]
      BY <1>5 DEF Sound, Types
    <3>2. refs' \in [Engine -> Int]
      <4>1. refs \in [Engine -> Int] /\ 0 \in Int
        BY DEF Sound, Types
      <4>2. ASSUME NEW n \in Engine PROVE refs'[n] \in Int
        BY <1>16, <4>1
      <4>3. refs' = [n \in Engine |-> refs'[n]]
        BY <1>16, <4>1
      <4> QED BY <4>2, <4>3
    <3>3. events' \in [Manager -> Seq(Event) \cup {Null}]
      BY <1>5 DEF Sound, Types
    <3>4. modules' \in [Manager -> BOOLEAN]
      BY <1>5 DEF Sound, Types
    <3> QED BY <3>1, <3>2, <3>3, <3>4
  <2>5. held' \in [Manager -> BOOLEAN] /\ funcDef' \in [Event -> Engine \cup {0}]
    BY <1>1 DEF Sound, Types
  <2>6. DOMAIN declared' = Engine /\ declared' = [n \in Engine |-> declared'[n]]
    BY <1>1 DEF Sound, Types
  <2> QED BY <1>6, <1>8, <2>1, <2>2, <2>3, <2>4, <2>5, <2>6 DEF Types
<1>18. OneEngine'
  BY <1>1, <1>3, <1>6 DEF Sound, OneEngine
<1>19. Counted'
  <2>1. ASSUME NEW k \in Manager, engine'[k] # 0
        PROVE  refs'[engine'[k]] = 1 + One(modules'[k]) + One(events'[k] # Null)
    <3>1. k # m /\ engine[k] # 0 /\ engine[k] # left
      BY <1>2, <1>6, <2>1 DEF Sound, OneEngine
    <3>2. engine[k] \in Engine /\ refs'[engine[k]] = refs[engine[k]]
      BY <1>16, <3>1 DEF Sound, Types
    <3> QED BY <1>6, <3>1, <3>2 DEF Sound, Counted
  <2>2. ASSUME NEW n \in Engine, \A k \in Manager : engine'[k] # n
        PROVE  refs'[n] \in {-1, 0}
    <3>1. CASE n = left
      BY <1>4, <1>16, <3>1 DEF Sound, Types
    <3>2. CASE n # left
      <4>1. \A k \in Manager : engine[k] # n
        BY <1>6, <2>2, <3>2
      <4> QED BY <1>16, <3>2, <4>1 DEF Sound, Counted, Types
    <3> QED BY <3>1, <3>2
  <2> QED BY <2>1, <2>2 DEF Counted
<1>20. Nested'
  <2>1. \A i \in DOMAIN progress' : engine'[progress'[i].of] # 0
    BY <1>6, <1>8, <1>9 DEF Sound, Nested, Initialising
  <2>2. ASSUME NEW i \in DOMAIN progress', NEW j \in DOMAIN progress',
               progress'[i].at # "invoke", progress'[j].at # "invoke",
               progress'[i].of = progress'[j].of
        PROVE  i = j
    <3>1. i + 1 = j + 1
      BY <1>8, <2>2 DEF Sound, Nested
    <3> QED BY <1>8, <3>1
  <2> QED BY <2>1, <2>2 DEF Nested
<1>21. Begun'
  <2>1. SUFFICES ASSUME NEW i \in DOMAIN progress'
                 PROVE  LET k == progress'[i].of IN
                        /\ progress'[i].at = "begin" => ~modules'[k] /\ events'[k] = Null
                        /\ progress'[i].at \in {"begin", "core", "events"} =>
                             declared[engine'[k]] = {}
                        /\ progress'[i].at = "events" => events'[k] # Null
    BY <1>1 DEF Begun
  <2>2. i + 1 \in DOMAIN progress /\ progress'[i] = progress[i + 1]
    BY <1>8
  <2>3. progress'[i].of \in Manager /\ progress'[i].of # m
    BY <1>9
  <2> QED BY <1>6, <2>2, <2>3 DEF Sound, Begun
<1>22. Cleared'
  BY <1>9 DEF Cleared, Initialising
<1>23. Listed(m)' = {} /\ \A k \in Manager : k # m => Listed(k)' = Listed(k)
  BY <1>6 DEF Listed
<1>24. Separate'
  <2>1. ASSUME NEW k \in Manager, NEW l \in Manager, k # l
        PROVE  Listed(k)' \cap Listed(l)' = {}
    <3>1. Listed(k) \cap Listed(l) = {}
      BY <2>1 DEF Sound, Separate
    <3> QED BY <1>23, <3>1
  <2>2. ASSUME NEW k \in Manager, events'[k] # Null
        PROVE  \A i, j \in DOMAIN events'[k] :
                 Name[events'[k][i]] = Name[events'[k][j]] => i = j
    <3>1. k # m /\ events'[k] = events[k]
      BY <1>6, <2>2
    <3> QED BY <2>2, <3>1 DEF Sound, Separate
  <2> QED BY <2>1, <2>2 DEF Separate
<1>25. Registered'
  <2>1. \A n \in Engine : refs'[n] = -1 => declared[n] = {}
    BY <1>16 DEF Sound, Registered, Types
  <2>2. ASSUME NEW k \in Manager, engine'[k] # 0, declared[engine'[k]] # {}
        PROVE  events'[k] # Null /\ \A e \in Listed(k)' : funcDef[e] = engine'[k]
    BY <1>6, <1>23, <2>2 DEF Sound, Registered
  <2>3. ASSUME NEW e \in Event, NEW n \in hooked'[e]
        PROVE  \E k \in Manager : engine'[k] = n /\ e \in Listed(k)'
    <3>1. e \notin Listed(m) /\ n \in hooked[e]
      BY <1>10, <2>3
    <3>2. PICK k \in Manager : engine[k] = n /\ e \in Listed(k)
      BY <3>1 DEF Sound, Registered
    <3> QED BY <1>6, <1>23, <3>1, <3>2
  <2> QED BY <1>1, <2>1, <2>2, <2>3 DEF Registered
<1>26. Owned'
  <2>1. ASSUME NEW a \in Argument, argument'[a].engine # 0
        PROVE  \E k \in Manager : engine'[k] = argument'[a].engine
    <3>1. a \notin gone /\ argument'[a] = argument[a]
      BY <1>13, <2>1 DEF Unset
    <3>2. argument[a].engine # left
      BY <1>12, <3>1
    <3>3. PICK k \in Manager : engine[k] = argument[a].engine
      BY <2>1, <3>1 DEF Sound, Owned
    <3> QED BY <1>6, <3>1, <3>2, <3>3
  <2>2. ASSUME NEW a \in Argument, argument'[a].home # Null
        PROVE  argument'[a].engine # 0 /\ engine'[argument'[a].home] = argument'[a].engine
    <3>1. a \notin gone /\ argument'[a] = argument[a]
      BY <1>13, <2>2 DEF Unset
    <3>2. argument[a].home \in Manager /\ argument[a].home # m
      BY <2>2, <3>1 DEF Sound, Types
    <3> QED BY <1>6, <2>2, <3>1, <3>2 DEF Sound, Owned
  <2> QED BY <1>15, <2>1, <2>2 DEF Owned
<1> QED BY <1>5, <1>17, <1>18, <1>19, <1>20, <1>21, <1>22, <1>24, <1>25, <1>26 DEF Sound

(* Another manager, or none, becomes active while no modules are cleared.  *)
LEMMA ActiveKeeps ==
  ASSUME Sound, active' \in Manager \cup {Null}, active' # Null => engine[active'] # 0, ~Clearing,
         UNCHANGED <<engine, refs, held, events, modules, progress, scripts, arguments, fault>>
  PROVE  Sound'
<1> USE DEF scripts, arguments
<1>1. Types'
  BY DEF Sound, Types
<1>2. OneEngine'
  BY DEF Sound, OneEngine
<1>3. Counted'
  BY DEF Sound, Counted, One
<1>4. Nested' /\ Begun'
  BY DEF Sound, Nested, Begun
<1>5. Cleared'
  BY DEF Cleared, Clearing
<1>6. \A k \in Manager : Listed(k)' = Listed(k)
  BY DEF Listed
<1>7. Separate'
  BY <1>6 DEF Sound, Separate
<1>8. Registered'
  BY <1>6 DEF Sound, Registered
<1>9. Owned'
  BY DEF Sound, Owned
<1> QED BY <1>1, <1>2, <1>3, <1>4, <1>5, <1>7, <1>8, <1>9 DEF Sound

LEMMA ActivateKeeps ==
  ASSUME Sound, NEW m \in Manager \cup {Null}, ActivateManager(m), ~careless'
  PROVE  Sound'
BY ActiveKeeps DEF ActivateManager, CarelessIf

LEMMA DeactivateKeeps ==
  ASSUME Sound, NEW m \in Manager, Deactivate(m), ~careless'
  PROVE  Sound'
BY ActiveKeeps DEF Deactivate, Deactivated, CarelessIf

(* Scripts see events that their manager lists only.                       *)
LEMMA VisibleListed ==
  ASSUME Sound, NEW m \in Manager, NEW mask, Scripts(m)
  PROVE  Visible(m, mask) \subseteq Listed(m)
<1>1. events[m] # Null
  BY DEF Scripts, Sound, Registered
<1>2. ASSUME NEW name PROVE FindEventByName(m, mask, name) \in Listed(m) \cup {Null}
  <2> DEFINE found == {e \in Listed(m) :
                         /\ Category[e] = Stripped(ExtractNamespace(name))
                         /\ Name[e] = ExtractName(name)}
  <2>1. FindEventByName(m, mask, name) =
          IF \E e \in found : Mask[e] \cap mask # {} THEN CHOOSE e \in found : TRUE ELSE Null
    BY DEF FindEventByName
  <2>2. found \subseteq Listed(m)
    OBVIOUS
  <2>3. (\E e \in found : Mask[e] \cap mask # {}) => (CHOOSE e \in found : TRUE) \in found
    <3> HIDE DEF found
    <3> QED OBVIOUS
  <2> HIDE DEF found
  <2> QED BY <2>1, <2>2, <2>3
<1>3. \A i \in DOMAIN events[m] : GetEventByIndex(m, mask, i) \in Listed(m) \cup {Null}
  BY <1>1 DEF GetEventByIndex, Listed
<1> QED BY <1>2, <1>3 DEF Visible

(* What is left when only the events' functions change.                    *)
LEMMA HookedKeeps ==
  ASSUME Sound, hooked' \in [Event -> SUBSET Engine],
         \A e \in Event : \A n \in hooked'[e] :
           \E m \in Manager : engine[m] = n /\ e \in Listed(m),
         UNCHANGED <<managers, progress, funcDef, declared, arguments, fault>>
  PROVE  Sound'
<1> USE DEF managers, arguments
<1>1. Types'
  BY DEF Sound, Types
<1>2. OneEngine'
  BY DEF Sound, OneEngine
<1>3. Counted'
  BY DEF Sound, Counted, One
<1>4. Nested' /\ Begun'
  BY DEF Sound, Nested, Begun
<1>5. Cleared'
  BY DEF Sound, Cleared
<1>6. \A k \in Manager : Listed(k)' = Listed(k)
  BY DEF Listed
<1>7. Separate'
  BY <1>6 DEF Sound, Separate
<1>8. Registered'
  BY <1>6 DEF Sound, Registered
<1>9. Owned'
  BY DEF Sound, Owned
<1> QED BY <1>1, <1>2, <1>3, <1>4, <1>5, <1>7, <1>8, <1>9 DEF Sound

LEMMA HookKeeps ==
  ASSUME Sound, NEW m \in Manager, NEW mask \in ScriptMask, HookEvent(m, mask), ~careless'
  PROVE  Sound'
<1>1. Scripts(m) /\ engine[m] \in Engine
  BY DEF HookEvent, Scripts, Sound, Types
<1>2. PICK e \in Visible(m, mask) :
        IF refs[funcDef[e]] = 0
        THEN Crashes /\ UNCHANGED careless
        ELSE /\ funcDef[e] = engine[m] /\ ~IsTriggering(e)
             /\ hooked' = [hooked EXCEPT ![e] = @ \cup {engine[m]}]
             /\ UNCHANGED <<managers, progress, funcDef, declared, arguments, careless, fault>>
  BY DEF HookEvent
<1>3. e \in Listed(m) /\ e \in Event
  BY <1>1, VisibleListed DEF Listed, Sound, Types
<1>4. funcDef[e] = engine[m]
  BY <1>1, <1>3 DEF Scripts, Sound, Registered
<1>5. refs[engine[m]] # 0
  <2>1. refs[engine[m]] = 1 + One(modules[m]) + One(events[m] # Null)
    BY <1>1 DEF Scripts, Sound, Counted
  <2> QED BY <2>1 DEF One
<1>6. /\ hooked' = [hooked EXCEPT ![e] = @ \cup {engine[m]}]
      /\ UNCHANGED <<managers, progress, funcDef, declared, arguments, fault>>
  BY <1>2, <1>4, <1>5
<1>7. hooked' \in [Event -> SUBSET Engine]
  <2>1. hooked \in [Event -> SUBSET Engine]
    BY DEF Sound, Types
  <2>2. hooked[e] \cup {engine[m]} \in SUBSET Engine
    BY <1>1, <1>3, <2>1
  <2> QED BY <1>6, <2>1, <2>2
<1>8. ASSUME NEW f \in Event, NEW n \in hooked'[f]
      PROVE  \E k \in Manager : engine[k] = n /\ f \in Listed(k)
  <2>1. n \in hooked[f] \/ (f = e /\ n = engine[m])
    BY <1>3, <1>6, <1>8 DEF Sound, Types
  <2> QED BY <1>3, <2>1 DEF Sound, Registered
<1> QED BY <1>6, <1>7, <1>8, HookedKeeps

LEMMA UnhookKeeps ==
  ASSUME Sound, NEW m \in Manager, NEW mask \in ScriptMask, UnhookEvent(m, mask), ~careless'
  PROVE  Sound'
<1>1. Scripts(m)
  BY DEF UnhookEvent
<1>2. PICK e \in Visible(m, mask) :
        /\ hooked' = [hooked EXCEPT ![e] = @ \ {engine[m]}]
        /\ UNCHANGED <<managers, progress, funcDef, declared, arguments, fault>>
  BY DEF UnhookEvent, CarelessIf
<1>3. e \in Event
  BY <1>1, VisibleListed DEF Listed, Sound, Types
<1>4. hooked' \in [Event -> SUBSET Engine] /\ \A f \in Event : hooked'[f] \subseteq hooked[f]
  BY <1>2, <1>3 DEF Sound, Types
<1>5. \A f \in Event : \A n \in hooked'[f] :
        \E k \in Manager : engine[k] = n /\ f \in Listed(k)
  BY <1>4 DEF Sound, Registered
<1> QED BY <1>2, <1>4, <1>5, HookedKeeps

LEMMA SetArgumentsKeeps ==
  ASSUME Sound, NEW a \in Argument, NEW m \in Manager, NEW home \in {m, Null},
         SetArguments(a, m, home), ~careless'
  PROVE  Sound'
<1> USE DEF managers, scripts
<1>1. /\ argument[a] = Unset /\ engine[m] # 0 /\ (home # Null => modules[m])
      /\ active = m /\ ~InProgress(m) /\ active # Null
  BY HostAssumption DEF SetArguments, CarelessIf
<1>2. /\ argument' = [argument EXCEPT ![a] = [engine |-> engine[m], home |-> home]]
      /\ objects' = [n \in Engine |-> IF engine[active] = n THEN objects[n] + 1 ELSE objects[n]]
      /\ UNCHANGED <<managers, progress, scripts, fault>>
  BY <1>1 DEF SetArguments
<1>3. /\ argument'[a] = [engine |-> engine[m], home |-> home]
      /\ \A b \in Argument : b # a => argument'[b] = argument[b]
  BY <1>2 DEF Sound, Types
<1>4. Types'
  <2>1. argument' \in [Argument -> [engine : Engine \cup {0}, home : Manager \cup {Null}]]
    BY <1>2 DEF Sound, Types
  <2>2. objects' \in [Engine -> Int]
    BY <1>2 DEF Sound, Types
  <2> QED BY <1>2, <2>1, <2>2 DEF Sound, Types
<1>5. OneEngine'
  BY <1>2 DEF Sound, OneEngine
<1>6. Counted'
  BY <1>2 DEF Sound, Counted, One
<1>7. Nested' /\ Begun'
  BY <1>2 DEF Sound, Nested, Begun
<1>8. Cleared'
  <2>1. \A i \in DOMAIN progress : progress[i].at # "clear"
    BY <1>1 DEF Sound, Cleared, InProgress
  <2> QED BY <1>2, <2>1 DEF Cleared
<1>9. \A k \in Manager : Listed(k)' = Listed(k)
  BY <1>2 DEF Listed
<1>10. Separate'
  BY <1>2, <1>9 DEF Sound, Separate
<1>11. Registered'
  BY <1>2, <1>9 DEF Sound, Registered
<1>12. \A n \in Engine :
         {b \in Argument : argument'[b].engine = n} =
           IF n = engine[m] THEN {b \in Argument : argument[b].engine = n} \cup {a}
                            ELSE {b \in Argument : argument[b].engine = n}
  <2>1. SUFFICES ASSUME NEW n \in Engine, NEW b \in Argument
                 PROVE  argument'[b].engine = n <=>
                          argument[b].engine = n \/ (n = engine[m] /\ b = a)
    OBVIOUS
  <2>2. argument[a].engine = 0 /\ n # 0
    BY <1>1 DEF Unset, Engine
  <2> QED BY <1>3, <2>2
<1>13. ASSUME NEW n \in Engine
       PROVE  objects'[n] = Cardinality({b \in Argument : argument'[b].engine = n})
  <2> DEFINE S == {b \in Argument : argument[b].engine = n}
  <2>1. objects[n] = Cardinality(S)
    BY DEF Sound, Owned
  <2>2. IsFiniteSet(S)
    BY HostAssumption, FS_Subset
  <2>3. a \notin S
    BY <1>1 DEF Unset, Engine
  <2>4. {b \in Argument : argument'[b].engine = n} = IF n = engine[m] THEN S \cup {a} ELSE S
    BY <1>12
  <2>5. objects'[n] = IF n = engine[m] THEN objects[n] + 1 ELSE objects[n]
    BY <1>1, <1>2
  <2> HIDE DEF S
  <2>6. Cardinality(S \cup {a}) = Cardinality(S) + 1
    BY <2>2, <2>3, FS_AddElement
  <2> QED BY <2>1, <2>4, <2>5, <2>6
<1>14. Owned'
  <2>1. ASSUME NEW b \in Argument, argument'[b].engine # 0
        PROVE  \E k \in Manager : engine[k] = argument'[b].engine
    BY <1>3, <2>1 DEF Sound, Owned
  <2>2. ASSUME NEW b \in Argument, argument'[b].home # Null
        PROVE  argument'[b].engine # 0 /\ engine[argument'[b].home] = argument'[b].engine
    <3>1. CASE b = a
      BY <1>1, <1>3, <2>2, <3>1
    <3>2. CASE b # a
      BY <1>3, <2>2, <3>2 DEF Sound, Owned
    <3> QED BY <3>1, <3>2
  <2> QED BY <1>2, <1>13, <2>1, <2>2 DEF Owned
<1> QED BY <1>2, <1>4, <1>5, <1>6, <1>7, <1>8, <1>10, <1>11, <1>14 DEF Sound

LEMMA ClearKeeps ==
  ASSUME Sound, NEW a \in Argument, Clear(a), ~careless'
  PROVE  Sound'
<1> USE DEF managers, scripts
<1>1. argument[a] # Unset /\ active # Null /\ engine[active] = argument[a].engine
  BY DEF Clear, CarelessIf, Serves
<1>2. /\ argument' = [argument EXCEPT ![a] = Unset]
      /\ Released({a})
      /\ UNCHANGED <<managers, progress, scripts, fault>>
  BY <1>1 DEF Clear
<1>3. argument'[a] = Unset /\ \A b \in Argument : b # a => argument'[b] = argument[b]
  BY <1>2 DEF Sound, Types
<1> DEFINE left == argument[a].engine
<1>4. \A n \in Engine : objects'[n] = IF n = left THEN objects[n] - 1 ELSE objects[n]
  <2>1. SUFFICES ASSUME NEW n \in Engine
                 PROVE  objects'[n] = IF n = left THEN objects[n] - 1 ELSE objects[n]
    OBVIOUS
  <2>2. objects'[n] = IF n = left
                      THEN objects[n] - Cardinality({b \in {a} : argument[b].engine = n})
                      ELSE objects[n]
    BY <1>1, <1>2 DEF Released
  <2>3. CASE n = left
    <3>1. {b \in {a} : argument[b].engine = n} = {a}
      BY <2>3
    <3>2. Cardinality({a}) = 1
      BY FS_Singleton
    <3> QED BY <2>2, <2>3, <3>1, <3>2
  <2>4. CASE n # left
    BY <2>2, <2>4
  <2> QED BY <2>3, <2>4
<1>5. Types'
  <2>1. argument' \in [Argument -> [engine : Engine \cup {0}, home : Manager \cup {Null}]]
    <3>1. Unset \in [engine : Engine \cup {0}, home : Manager \cup {Null}]
      BY DEF Unset
    <3> QED BY <1>2, <3>1 DEF Sound, Types
  <2>2. objects' \in [Engine -> Int]
    <3>1. objects' = [n \in Engine |-> objects'[n]]
      BY <1>2 DEF Released
    <3>2. \A n \in Engine : objects'[n] \in Int
      BY <1>4 DEF Sound, Types
    <3> QED BY <3>1, <3>2
  <2> QED BY <1>2, <2>1, <2>2 DEF Sound, Types
<1>6. OneEngine'
  BY <1>2 DEF Sound, OneEngine
<1>7. Counted'
  BY <1>2 DEF Sound, Counted, One
<1>8. Nested' /\ Begun'
  BY <1>2 DEF Sound, Nested, Begun
<1>9. Cleared'
  <2>1. SUFFICES ASSUME NEW i \in DOMAIN progress, progress[i].at = "clear"
                 PROVE  /\ \A j \in 1..(i - 1) : progress[j].at = "invoke"
                        /\ \A j \in (i + 1)..Len(progress) : progress[j].at # "invoke"
                        /\ active = progress[i].of /\ ~held[active]
                        /\ \A b \in Argument : argument'[b] # [engine |-> engine[active], home |-> Null]
    BY <1>2 DEF Cleared
  <2>2. engine[active] # 0
    BY <1>1 DEF Sound, OneEngine
  <2>3. Unset # [engine |-> engine[active], home |-> Null]
    BY <2>2 DEF Unset
  <2> QED BY <1>3, <2>1, <2>3 DEF Sound, Cleared
<1>10. \A k \in Manager : Listed(k)' = Listed(k)
  BY <1>2 DEF Listed
<1>11. Separate'
  BY <1>2, <1>10 DEF Sound, Separate
<1>12. Registered'
  BY <1>2, <1>10 DEF Sound, Registered
<1>13. ASSUME NEW n \in Engine
       PROVE  objects'[n] = Cardinality({b \in Argument : argument'[b].engine = n})
  <2> DEFINE S == {b \in Argument : argument[b].engine = n}
  <2>1. objects[n] = Cardinality(S)
    BY DEF Sound, Owned
  <2>2. IsFiniteSet(S)
    BY HostAssumption, FS_Subset
  <2>3. {b \in Argument : argument'[b].engine = n} = S \ {a}
    <3>1. Unset.engine # n
      BY DEF Unset, Engine
    <3> QED BY <1>3, <3>1
  <2>4. a \in S <=> n = left
    OBVIOUS
  <2> HIDE DEF S, left
  <2>5. Cardinality(S \ {a}) = IF a \in S THEN Cardinality(S) - 1 ELSE Cardinality(S)
    BY <2>2, FS_RemoveElement
  <2> QED BY <1>4, <2>1, <2>3, <2>4, <2>5
<1>14. Owned'
  <2>1. ASSUME NEW b \in Argument, argument'[b].engine # 0
        PROVE  b # a /\ \E k \in Manager : engine[k] = argument'[b].engine
    BY <1>3, <2>1 DEF Sound, Owned, Unset
  <2>2. ASSUME NEW b \in Argument, argument'[b].home # Null
        PROVE  argument'[b].engine # 0 /\ engine[argument'[b].home] = argument'[b].engine
    BY <1>3, <2>2 DEF Sound, Owned, Unset
  <2> QED BY <1>2, <1>13, <2>1, <2>2 DEF Owned
<1> QED BY <1>2, <1>5, <1>6, <1>7, <1>8, <1>9, <1>11, <1>12, <1>14 DEF Sound

-----------------------------------------------------------------------------
(* The invariant holds initially, and every step keeps it.                 *)
LEMMA InitSound == Init => IInv
<1>1. SUFFICES ASSUME Init PROVE Sound /\ careless \in BOOLEAN
  BY DEF IInv
<1> USE <1>1 DEF Init
<1>2. Types
  BY DEF Types, Unset
<1>3. OneEngine
  BY DEF OneEngine
<1>4. Counted
  BY DEF Counted
<1>5. DOMAIN progress = {}
  OBVIOUS
<1>6. Nested /\ Begun /\ Cleared
  BY <1>5 DEF Nested, Begun, Cleared
<1>7. \A m \in Manager : Listed(m) = {}
  BY DEF Listed
<1>8. Separate
  BY <1>7 DEF Separate
<1>9. Registered
  BY DEF Registered
<1>10. Owned
  <2>1. \A n \in Engine : {a \in Argument : argument[a].engine = n} = {}
    BY DEF Unset, Engine
  <2> QED BY <2>1, FS_EmptySet DEF Owned, Unset
<1> QED BY <1>2, <1>3, <1>4, <1>6, <1>8, <1>9, <1>10 DEF Sound

(* Who was careless stays so: every action that decides about it needs     *)
(* that nobody was.                                                        *)
LEMMA CarelessStays ==
  ASSUME careless \in BOOLEAN, Next
  PROVE  careless' \in BOOLEAN /\ (careless => careless')
<1> USE DEF Acts, CarelessIf
<1>1. ASSUME NEW m \in Manager, Initialize(m) \/ Shutdown(m) \/ Deactivate(m)
      PROVE  careless' \in BOOLEAN /\ (careless => careless')
  BY <1>1 DEF Initialize, Shutdown, Deactivate, Clearing, InProgress
<1>2. ASSUME NEW m \in Manager \cup {Null}, ActivateManager(m)
      PROVE  careless' \in BOOLEAN /\ (careless => careless')
  BY <1>2 DEF ActivateManager, Clearing
<1>3. ASSUME NEW m \in Manager, NEW e \in Event, AddEvent(m, e)
      PROVE  careless' \in BOOLEAN /\ (careless => careless')
  BY <1>3 DEF AddEvent
<1>4. ASSUME NEW m \in Manager, NEW mask \in ScriptMask,
             HookEvent(m, mask) \/ UnhookEvent(m, mask)
      PROVE  careless' \in BOOLEAN /\ (careless => careless')
  BY <1>4 DEF HookEvent, UnhookEvent, Scripts
<1>5. ASSUME NEW a \in Argument, NEW m \in Manager, NEW home \in {m, Null},
             SetArguments(a, m, home)
      PROVE  careless' \in BOOLEAN /\ (careless => careless')
  BY <1>5 DEF SetArguments, InProgress
<1>6. ASSUME NEW a \in Argument, Clear(a)
      PROVE  careless' \in BOOLEAN /\ (careless => careless')
  BY <1>6 DEF Clear, Serves
<1>7. ASSUME NEW e \in Event, Invoke(e)
      PROVE  careless' \in BOOLEAN /\ (careless => careless')
  BY <1>7 DEF Invoke
<1>8. ASSUME \/ OnInitBeginReturns \/ CallbackFails
             \/ RegisterCoreAPIReturns \/ AddEventsReturns \/ RegisterAPIReturns
             \/ ShutdownCompletes \/ Invoked
      PROVE  careless' = careless
  BY <1>8 DEF OnInitBeginReturns, CallbackFails, RegisterCoreAPIReturns, AddEventsReturns,
       RegisterAPIReturns, ShutdownCompletes, Invoked
<1> QED BY <1>1, <1>2, <1>3, <1>4, <1>5, <1>6, <1>7, <1>8 DEF Next

LEMMA NextSound == IInv /\ [Next]_vars => IInv'
<1>1. SUFFICES ASSUME IInv, [Next]_vars PROVE IInv'
  OBVIOUS
<1>2. CASE UNCHANGED vars
  <2>1. UNCHANGED <<managers, progress, scripts, arguments, careless, fault>>
    BY <1>2 DEF vars
  <2>2. careless \in BOOLEAN /\ careless' \in BOOLEAN
    BY <1>1, <2>1 DEF IInv
  <2>3. careless \/ Sound'
    <3> SUFFICES ASSUME ~careless PROVE Sound'
      OBVIOUS
    <3>1. Sound
      BY <1>1 DEF IInv
    <3>2. Types'
      BY <2>1, <3>1 DEF Sound, Types, managers, scripts, arguments
    <3>3. Nested' /\ Begun'
      BY <2>1, <3>1 DEF Sound, Nested, Begun, managers, scripts
    <3>4. Cleared'
      BY <2>1, <3>1 DEF Sound, Cleared, managers, arguments
    <3>5. Rest'
      BY <2>1, <3>1, RestKept DEF Sound, Rest
    <3> QED BY <2>1, <3>1, <3>2, <3>3, <3>4, <3>5 DEF Sound, Rest
  <2>4. careless => careless'
    BY <2>1
  <2> QED BY <2>2, <2>3, <2>4 DEF IInv
<1>3. CASE Next /\ careless'
  BY <1>3 DEF IInv
<1>4. CASE Next /\ ~careless'
  <2>1. Sound
    BY <1>1, <1>4, CarelessStays DEF IInv
  <2>2. careless' \in BOOLEAN
    BY <1>1, <1>4, CarelessStays DEF IInv
  <2>3. ASSUME NEW m \in Manager, Initialize(m) \/ Shutdown(m) \/ Deactivate(m)
        PROVE  Sound'
    BY <1>4, <2>1, <2>3, InitializeKeeps, ShutdownKeeps, DeactivateKeeps
  <2>4. ASSUME NEW m \in Manager \cup {Null}, ActivateManager(m)
        PROVE  Sound'
    BY <1>4, <2>1, <2>4, ActivateKeeps
  <2>5. ASSUME NEW m \in Manager, NEW e \in Event, AddEvent(m, e)
        PROVE  Sound'
    BY <1>4, <2>1, <2>5, AddEventKeeps
  <2>6. ASSUME NEW m \in Manager, NEW mask \in ScriptMask,
               HookEvent(m, mask) \/ UnhookEvent(m, mask)
        PROVE  Sound'
    BY <1>4, <2>1, <2>6, HookKeeps, UnhookKeeps
  <2>7. ASSUME NEW a \in Argument, NEW m \in Manager, NEW home \in {m, Null},
               SetArguments(a, m, home)
        PROVE  Sound'
    BY <1>4, <2>1, <2>7, SetArgumentsKeeps
  <2>8. ASSUME NEW a \in Argument, Clear(a)
        PROVE  Sound'
    BY <1>4, <2>1, <2>8, ClearKeeps
  <2>9. ASSUME NEW e \in Event, Invoke(e)
        PROVE  Sound'
    BY <2>1, <2>9, InvokeKeeps
  <2>10. ASSUME \/ OnInitBeginReturns \/ CallbackFails
                \/ RegisterCoreAPIReturns \/ AddEventsReturns \/ RegisterAPIReturns
                \/ ShutdownCompletes \/ Invoked
         PROVE  Sound'
    BY <2>1, <2>10, OnInitBeginKeeps, CallbackFailsKeeps, RegisterCoreAPIKeeps, AddEventsKeeps,
       RegisterAPIKeeps, ShutdownCompletesKeeps, InvokedKeeps
  <2>11. Sound'
    BY <1>4, <2>3, <2>4, <2>5, <2>6, <2>7, <2>8, <2>9, <2>10 DEF Next
  <2> QED BY <2>2, <2>11 DEF IInv
<1> QED BY <1>1, <1>2, <1>3, <1>4

LEMMA Invariance == Spec => []IInv
BY InitSound, NextSound, PTL DEF Spec

-----------------------------------------------------------------------------
(* Nothing points at an engine that is gone, however many managers start   *)
(* and stop, whatever their callbacks and the destructors of their scripts *)
(* do meanwhile.                                                           *)
THEOREM NothingEverDangles == Spec => []NothingDangles
<1>1. IInv => NothingDangles
  <2>1. SUFFICES ASSUME Sound PROVE NothingDangles
    BY DEF IInv, NothingDangles
  <2>2. ASSUME NEW e \in Event, NEW n \in hooked[e]
        PROVE  refs[n] > 0
    <3>1. PICK m \in Manager : engine[m] = n
      BY <2>1, <2>2 DEF Sound, Registered
    <3>2. n # 0
      BY <2>1, <2>2 DEF Sound, Types, Engine
    <3>3. refs[n] = 1 + One(modules[m]) + One(events[m] # Null)
      BY <2>1, <3>1, <3>2 DEF Sound, Counted
    <3> QED BY <3>3 DEF One
  <2> QED BY <2>1, <2>2 DEF Sound, OneEngine, Registered, NothingDangles
<1> QED BY <1>1, Invariance, PTL

(* A set of managers that have the engine, under some condition.           *)
LEMMA OneManager ==
  ASSUME Sound, NEW m \in Manager, engine[m] # 0, NEW p \in BOOLEAN,
         NEW S, S \subseteq Manager, \A k \in Manager : k \in S <=> k = m /\ p
  PROVE  Cardinality(S) = One(p)
<1>1. CASE p
  <2>1. S = {m}
    BY <1>1
  <2> QED BY <1>1, <2>1, FS_Singleton DEF One
<1>2. CASE ~p
  <2>1. S = {}
    BY <1>2
  <2> QED BY <1>2, <2>1, FS_EmptySet DEF One
<1> QED BY <1>1, <1>2

(* An engine has the references of its manager and the managers on it, and *)
(* of the script objects in argument lists; there are none when it goes.   *)
THEOREM EnginesBalance == Spec => []RefsBalanced
<1>1. IInv => RefsBalanced
  <2>1. SUFFICES ASSUME Sound, NEW n \in Engine
                 PROVE
      /\ objects[n] = Cardinality({a \in Argument : argument[a].engine = n})
      /\ refs[n] # -1 =>
           refs[n] = Cardinality({m \in Manager : engine[m] = n})
                   + Cardinality({m \in Manager : engine[m] = n /\ modules[m]})
                   + Cardinality({m \in Manager : engine[m] = n /\ events[m] # Null})
      /\ refs[n] \in {-1, 0} => objects[n] = 0
    BY DEF IInv, RefsBalanced
  <2>2. n # 0
    BY DEF Engine
  <2>3. objects[n] = Cardinality({a \in Argument : argument[a].engine = n})
    BY <2>1 DEF Sound, Owned
  <2> DEFINE A == {m \in Manager : engine[m] = n}
             B == {m \in Manager : engine[m] = n /\ modules[m]}
             C == {m \in Manager : engine[m] = n /\ events[m] # Null}
  <2>4. CASE \E m \in Manager : engine[m] = n
    <3>1. PICK m \in Manager : engine[m] = n
      BY <2>4
    <3>2. \A k \in Manager : engine[k] = n <=> k = m
      BY <2>1, <2>2, <3>1 DEF Sound, OneEngine
    <3>3. refs[n] = 1 + One(modules[m]) + One(events[m] # Null)
      BY <2>1, <2>2, <3>1 DEF Sound, Counted
    <3>4. modules[m] \in BOOLEAN /\ (events[m] # Null) \in BOOLEAN
      BY <2>1 DEF Sound, Types
    <3>5. A = {m}
      BY <3>1, <3>2
    <3>6. Cardinality(B) = One(modules[m])
      <4>1. B \subseteq Manager /\ \A k \in Manager : k \in B <=> k = m /\ modules[m]
        BY <3>2
      <4> HIDE DEF B
      <4> QED BY <2>1, <2>2, <3>1, <3>4, <4>1, OneManager
    <3>7. Cardinality(C) = One(events[m] # Null)
      <4>1. C \subseteq Manager /\ \A k \in Manager : k \in C <=> k = m /\ events[m] # Null
        BY <3>2
      <4> HIDE DEF C
      <4> QED BY <2>1, <2>2, <3>1, <3>4, <4>1, OneManager
    <3>8. Cardinality(A) = 1
      BY <3>5, FS_Singleton
    <3>9. refs[n] \notin {-1, 0}
      BY <3>3 DEF One
    <3> HIDE DEF A, B, C
    <3>10. refs[n] = Cardinality(A) + Cardinality(B) + Cardinality(C)
      BY <3>3, <3>6, <3>7, <3>8
    <3> QED BY <2>3, <3>9, <3>10 DEF A, B, C
  <2>5. CASE ~\E m \in Manager : engine[m] = n
    <3>1. refs[n] \in {-1, 0}
      BY <2>1, <2>5 DEF Sound, Counted
    <3>2. A = {} /\ B = {} /\ C = {}
      BY <2>5
    <3>3. {a \in Argument : argument[a].engine = n} = {}
      BY <2>1, <2>2, <2>5 DEF Sound, Owned
    <3>4. objects[n] = 0
      BY <2>3, <3>3, FS_EmptySet
    <3> HIDE DEF A, B, C
    <3>5. Cardinality(A) = 0 /\ Cardinality(B) = 0 /\ Cardinality(C) = 0
      BY <3>2, FS_EmptySet
    <3>6. refs[n] # -1 => refs[n] = Cardinality(A) + Cardinality(B) + Cardinality(C)
      BY <3>1, <3>5
    <3> QED BY <2>3, <3>4, <3>6 DEF A, B, C
  <2> QED BY <2>4, <2>5
<1> QED BY <1>1, Invariance, PTL

-----------------------------------------------------------------------------
(* Names: what is extracted from a name is what it was put together from.  *)
LEMMA Separator == <<"::">> \in Seq(Symbol) /\ Len(<<"::">>) = 1 /\ <<"::">>[1] = "::"
BY NamesAssumption

LEMMA ExtractPlain ==
  ASSUME NEW n \in Seq(Symbol), \A i \in DOMAIN n : n[i] # "::"
  PROVE  ExtractNamespace(n) = <<>> /\ ExtractName(n) = n
<1>1. Splits(n) = {}
  BY DEF Splits
<1> QED BY <1>1 DEF ExtractNamespace, ExtractName

LEMMA ExtractQualified ==
  ASSUME NEW s \in Seq(Symbol), NEW n \in Seq(Symbol), \A i \in DOMAIN n : n[i] # "::"
  PROVE  LET name == (s \o <<"::">>) \o n IN
         ExtractNamespace(name) = s /\ ExtractName(name) = n
<1> DEFINE name == (s \o <<"::">>) \o n
           last == Len(s) + 1
<1>1. /\ name \in Seq(Symbol) /\ Len(name) = last + Len(n)
      /\ \A i \in 1..Len(s) : name[i] = s[i]
      /\ name[last] = "::"
      /\ \A i \in 1..Len(n) : name[last + i] = n[i]
  <2> DEFINE r == s \o <<"::">>
  <2>1. /\ r \in Seq(Symbol) /\ Len(r) = last
        /\ \A i \in 1..Len(s) + 1 : r[i] = IF i <= Len(s) THEN s[i] ELSE <<"::">>[i - Len(s)]
    BY Separator, ConcatProperties
  <2>2. Len(s) \in Nat /\ Len(n) \in Nat
    BY LenProperties
  <2>3. (\A i \in 1..Len(s) : r[i] = s[i]) /\ r[last] = "::"
    BY <2>1, <2>2, Separator
  <2> HIDE DEF r
  <2>4. /\ r \o n \in Seq(Symbol) /\ Len(r \o n) = Len(r) + Len(n)
        /\ \A i \in 1..Len(r) + Len(n) : (r \o n)[i] = IF i <= Len(r) THEN r[i] ELSE n[i - Len(r)]
    <3>1. r \in Seq(Symbol)
      BY <2>1
    <3> QED BY <3>1, ConcatProperties
  <2>5. r \o n = name
    BY DEF r
  <2> HIDE DEF name
  <2>6. \A i \in 1..Len(s) : name[i] = s[i]
    BY <2>1, <2>2, <2>3, <2>4, <2>5
  <2>7. name[last] = "::"
    BY <2>1, <2>2, <2>3, <2>4, <2>5
  <2>8. \A i \in 1..Len(n) : name[last + i] = n[i]
    BY <2>1, <2>2, <2>4, <2>5
  <2> QED BY <2>1, <2>4, <2>5, <2>6, <2>7, <2>8
<1>2. last \in Nat \ {0} /\ Len(s) \in Nat /\ Len(n) \in Nat /\ DOMAIN name = 1..Len(name)
  BY <1>1
<1> HIDE DEF name
<1>3. last \in Splits(name)
  BY <1>1, <1>2 DEF Splits
<1>4. ASSUME NEW i \in Splits(name) PROVE i \in Nat /\ last >= i
  <2>1. i \in 1..Len(name) /\ name[i] = "::"
    BY <1>2, <1>4 DEF Splits
  <2>2. SUFFICES ASSUME i > last PROVE FALSE
    BY <1>2, <2>1
  <2>3. i - last \in 1..Len(n) /\ last + (i - last) = i
    BY <1>1, <1>2, <2>1, <2>2
  <2>4. name[i] = n[i - last] /\ i - last \in DOMAIN n
    BY <1>1, <2>3
  <2> QED BY <2>1, <2>4
<1>5. Max(Splits(name)) = last
  <2>1. \A x \in Splits(name) : (\A y \in Splits(name) : x >= y) <=> x = last
    BY <1>2, <1>3, <1>4
  <2> QED BY <1>3, <2>1 DEF Max
<1>6. Splits(name) # {}
  BY <1>3
<1>7. ExtractNamespace(name) = s
  <2>1. ExtractNamespace(name) = SubSeq(name, 1, Len(s))
    BY <1>2, <1>5, <1>6 DEF ExtractNamespace
  <2>2. SubSeq(name, 1, Len(s)) = s
    BY <1>1, <1>2
  <2> QED BY <2>1, <2>2
<1>8. ExtractName(name) = n
  <2>1. ExtractName(name) = SubSeq(name, last + 1, Len(name))
    BY <1>5, <1>6 DEF ExtractName
  <2> DEFINE t == SubSeq(name, last + 1, Len(name))
  <2>2. t \in Seq(Symbol) /\ Len(t) = Len(n)
    BY <1>1, <1>2
  <2>3. \A i \in 1..Len(n) : t[i] = name[last + i]
    BY <1>1, <1>2
  <2> HIDE DEF t
  <2>4. t = n
    BY <1>1, <2>2, <2>3, SeqEqual
  <2> QED BY <2>1, <2>4 DEF t
<1> QED BY <1>7, <1>8 DEF name

(* The namespace is taken off when it is in front, and only then.          *)
LEMMA StrippedQualified ==
  ASSUME NEW s \in Seq(Symbol), Namespace # <<>>
  PROVE  Stripped((Namespace \o <<"::">>) \o s) = s
<1> DEFINE front == Namespace \o <<"::">>
           t == front \o s
<1>1. Namespace \in Seq(Symbol)
  BY NamesAssumption
<1>2. front \in Seq(Symbol) /\ Len(front) = Len(Namespace) + 1
  BY <1>1, Separator, ConcatProperties
<1>3. Len(front) \in Nat /\ Len(s) \in Nat /\ Len(Namespace) \in Nat
  BY <1>1, <1>2
<1> HIDE DEF front
<1>4. t \in Seq(Symbol) /\ Len(t) = Len(front) + Len(s)
  BY <1>2
<1>5. \A i \in 1..Len(front) : t[i] = front[i]
  BY <1>2
<1>6. \A i \in 1..Len(s) : t[Len(front) + i] = s[i]
  BY <1>2
<1> HIDE DEF t
<1>7. Occurs(front, t)
  <2>1. 1 \in 1..(Len(t) - Len(front) + 1)
    BY <1>3, <1>4
  <2>2. SubSeq(t, 1, 1 + Len(front) - 1) = front
    BY <1>2, <1>3, <1>4, <1>5
  <2> QED BY <2>1, <2>2 DEF Occurs
<1>8. SubSeq(t, Len(Namespace) + 2, Len(t)) = s
  <2> DEFINE u == SubSeq(t, Len(front) + 1, Len(t))
  <2>1. u \in Seq(Symbol) /\ Len(u) = Len(s)
    BY <1>3, <1>4
  <2>2. \A i \in 1..Len(s) : u[i] = t[Len(front) + i]
    BY <1>3, <1>4
  <2>3. Len(front) + 1 = Len(Namespace) + 2
    BY <1>2, <1>3
  <2>4. u = SubSeq(t, Len(Namespace) + 2, Len(t))
    BY <2>3
  <2> HIDE DEF u
  <2>5. u = s
    BY <1>6, <2>1, <2>2
  <2> QED BY <2>4, <2>5
<1> QED BY <1>7, <1>8 DEF Stripped, front, t

LEMMA StrippedPlain ==
  ASSUME NEW e \in Event
  PROVE  Stripped(Category[e]) = Category[e]
BY NamesAssumption DEF Stripped

(* The lists have events in them, whoever is careless.                     *)
EventsTyped == events \in [Manager -> Seq(Event) \cup {Null}]

LEMMA EventsStayTyped == Spec => []EventsTyped
<1>1. Init => EventsTyped
  BY DEF Init, EventsTyped
<1>2. EventsTyped /\ [Next]_vars => EventsTyped'
  <2>1. SUFFICES ASSUME EventsTyped, [Next]_vars PROVE EventsTyped'
    OBVIOUS
  <2>2. ASSUME NEW m \in Manager, NEW e \in Event, AddEvent(m, e)
        PROVE  EventsTyped'
    <3>1. events[m] # Null /\ events' = [events EXCEPT ![m] = Append(@, e)]
      BY <2>2 DEF AddEvent
    <3>2. events[m] \in Seq(Event)
      BY <2>1, <3>1 DEF EventsTyped
    <3>3. Append(events[m], e) \in Seq(Event)
      BY <3>2
    <3> QED BY <2>1, <3>1, <3>3 DEF EventsTyped
  <2>3. CASE OnInitBeginReturns
    <3>1. \/ events' = events
          \/ \E uses \in BOOLEAN :
               events' = [events EXCEPT ![Head(progress).of] = IF uses THEN <<>> ELSE Null]
      BY <2>3 DEF OnInitBeginReturns, managers
    <3>2. <<>> \in Seq(Event)
      OBVIOUS
    <3> QED BY <2>1, <3>1, <3>2 DEF EventsTyped
  <2>4. CASE ShutdownCompletes
    <3>1. events' = events \/ events' = [events EXCEPT ![Head(progress).of] = Null]
      BY <2>4 DEF ShutdownCompletes
    <3> QED BY <2>1, <3>1 DEF EventsTyped
  <2>5. ASSUME NEW m \in Manager, Initialize(m) \/ Shutdown(m) \/ Deactivate(m)
        PROVE  events' = events
    BY <2>5 DEF Initialize, Shutdown, Deactivate
  <2>6. ASSUME NEW m \in Manager \cup {Null}, ActivateManager(m)
        PROVE  events' = events
    BY <2>6 DEF ActivateManager
  <2>7. ASSUME NEW m \in Manager, NEW mask \in ScriptMask,
               HookEvent(m, mask) \/ UnhookEvent(m, mask)
        PROVE  events' = events
    BY <2>7 DEF HookEvent, UnhookEvent, Crashes, managers
  <2>8. ASSUME NEW a \in Argument, NEW m \in Manager, NEW home \in {m, Null},
               SetArguments(a, m, home)
        PROVE  events' = events
    BY <2>8 DEF SetArguments, Crashes, managers
  <2>9. ASSUME NEW a \in Argument, Clear(a)
        PROVE  events' = events
    BY <2>9 DEF Clear, Crashes, managers
  <2>10. ASSUME NEW e \in Event, Invoke(e)
         PROVE  events' = events
    BY <2>10 DEF Invoke, managers
  <2>11. ASSUME \/ CallbackFails \/ RegisterCoreAPIReturns \/ AddEventsReturns
                \/ RegisterAPIReturns \/ Invoked \/ UNCHANGED vars
         PROVE  events' = events
    BY <2>11 DEF CallbackFails, RegisterCoreAPIReturns, AddEventsReturns,
         RegisterAPIReturns, Invoked, managers, vars
  <2>12. events' = events => EventsTyped'
    BY <2>1 DEF EventsTyped
  <2> QED BY <2>1, <2>2, <2>3, <2>4, <2>5, <2>6, <2>7, <2>8, <2>9, <2>10, <2>11, <2>12 DEF Next
<1> QED BY <1>1, <1>2, PTL DEF Spec

(* Every event is found by its names by whoever has access and by nobody   *)
(* else, whatever the names are: the names of the event decide, since no   *)
(* two have the same.                                                      *)
THEOREM EventsFoundByName == Spec => []FoundByName
<1>1. EventsTyped => FoundByName
  <2>1. SUFFICES ASSUME EventsTyped, NEW m \in Manager, NEW mask \in ScriptMask,
                        NEW e \in Listed(m),
                        NEW space \in {<<>>} \cup (IF Category[e] = <<>> \/ Namespace = <<>>
                                                  THEN {} ELSE {Namespace \o <<"::">>})
                 PROVE  FindEventByName(m, mask, Spelled(e, space))
                          = IF Mask[e] \cap mask # {} THEN e ELSE Null
    BY DEF FoundByName
  <2>2. Listed(m) \subseteq Event
    BY <2>1 DEF EventsTyped, Listed
  <2>3. /\ Category[e] \in Seq(Symbol) /\ Name[e] \in Seq(Symbol) /\ Namespace \in Seq(Symbol)
        /\ \A i \in DOMAIN Name[e] : Name[e][i] # "::"
    BY <2>2, NamesAssumption
  <2>4. /\ ExtractName(Spelled(e, space)) = Name[e]
        /\ Stripped(ExtractNamespace(Spelled(e, space))) = Category[e]
    <3>1. CASE space = <<>> /\ Category[e] = <<>>
      <4>1. Spelled(e, space) = Name[e]
        BY <2>3, <3>1 DEF Spelled
      <4> QED BY <2>2, <2>3, <3>1, <4>1, ExtractPlain, StrippedPlain
    <3>2. CASE space = <<>> /\ Category[e] # <<>>
      <4>1. Spelled(e, space) = (Category[e] \o <<"::">>) \o Name[e]
        <5> DEFINE q == Category[e] \o <<"::">>
        <5>1. Spelled(e, space) = (<<>> \o q) \o Name[e]
          BY <3>2 DEF Spelled
        <5>2. <<>> \o q = q
          BY <2>3, Separator, ConcatProperties, ConcatEmptySeq
        <5> QED BY <5>1, <5>2
      <4> QED BY <2>2, <2>3, <4>1, ExtractQualified, StrippedPlain
    <3>3. CASE space # <<>>
      <4>1. space = Namespace \o <<"::">> /\ Category[e] # <<>> /\ Namespace # <<>>
        BY <2>1, <3>3
      <4> DEFINE s == (Namespace \o <<"::">>) \o Category[e]
      <4>2. Namespace \o <<"::">> \in Seq(Symbol)
        BY <2>3, Separator, ConcatProperties
      <4>3. s \in Seq(Symbol)
        BY <2>3, <4>2, ConcatProperties
      <4>4. Spelled(e, space) = (s \o <<"::">>) \o Name[e]
        <5>1. Spelled(e, space)
                = ((Namespace \o <<"::">>) \o (Category[e] \o <<"::">>)) \o Name[e]
          BY <4>1 DEF Spelled
        <5>2. ASSUME NEW p \in Seq(Symbol), NEW q \in Seq(Symbol), NEW r \in Seq(Symbol)
              PROVE  p \o (q \o r) = (p \o q) \o r
          BY ConcatAssociative, SMTT(30)
        <5>3. (Namespace \o <<"::">>) \o (Category[e] \o <<"::">>) = s \o <<"::">>
          BY <2>3, <4>2, <5>2, Separator
        <5> QED BY <5>1, <5>3
      <4>5. Stripped(s) = Category[e]
        BY <2>3, <4>1, StrippedQualified
      <4> HIDE DEF s
      <4> QED BY <2>3, <4>3, <4>4, <4>5, ExtractQualified
    <3> QED BY <3>1, <3>2, <3>3
  <2> DEFINE found == {f \in Listed(m) : Category[f] = Category[e] /\ Name[f] = Name[e]}
  <2>5. found = {e}
    BY <2>2, HostAssumption
  <2>6. FindEventByName(m, mask, Spelled(e, space)) =
          IF \E f \in found : Mask[f] \cap mask # {} THEN CHOOSE f \in found : TRUE ELSE Null
    BY <2>4 DEF FindEventByName
  <2> HIDE DEF found
  <2>7. (CHOOSE f \in found : TRUE) = e
    BY <2>5
  <2> QED BY <2>5, <2>6, <2>7
<1> QED BY <1>1, EventsStayTyped, PTL
=============================================================================
