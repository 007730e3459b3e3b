--------------------------------- MODULE Host -------------------------------
(***************************************************************************)
(* The managers of a program: CASManager, its initialisation by callbacks  *)
(* of the host and its shutdown, the active manager that everything else   *)
(* asks for the engine, and CASEventManager, which finds events for        *)
(* scripts by name.                                                        *)
(*                                                                         *)
(* The host's callbacks, and the destructors of script objects that run    *)
(* when modules are cleared, may do anything that is possible outside of   *)
(* them.  The code has no guard against some of it: a host or script that  *)
(* does so is careless, and nothing is promised after it.                  *)
(*                                                                         *)
(* Namespaces and names are sequences of symbols, one of which is "::";    *)
(* access masks are sets of bits.  A script has one function to hook.      *)
(***************************************************************************)
EXTENDS Integers, Sequences, FiniteSets, FiniteSetsExt

CONSTANTS
  Manager,    \* objects of class CASManager
  Event,      \* objects of class CASEvent; hosts make them static
  Symbol,     \* what namespaces and names are made of
  Category,   \* of each event: a sequence of symbols, may be empty
  Name,       \* of each event: a sequence of symbols without "::"
  Mask,       \* of each event: its access mask
  Namespace,  \* the events' namespace, a sequence of symbols
  ScriptMask, \* access masks of modules
  Argument,   \* objects of class CASArguments that hold one object each
  Null,       \* no manager, event or list
  MaxEngines, \* bound: engines created
  MaxNested   \* bound: callbacks within one another

Engine == 1..MaxEngines

ASSUME HostAssumption ==
  /\ \A e, f \in Event : Category[e] = Category[f] /\ Name[e] = Name[f] => e = f
  /\ Null \notin Manager \cup Event \cup Seq(Event)
  /\ IsFiniteSet(Manager) /\ IsFiniteSet(Argument)

VARIABLES
  active,     \* m_pActiveManager
  engine,     \* of each manager; 0 for null
  refs,       \* references to each engine by managers; -1 before it exists
  held,       \* whether the manager has its m_EventManager
  events,     \* list of the event manager that the module manager shares
  modules,    \* whether the manager has its m_ModuleManager
  progress,   \* callbacks, shutdowns and invocations of events, innermost first
  hooked,     \* engines whose function each event has
  funcDef,    \* engine that the funcdef of each event belongs to
  declared,   \* names of the funcdefs of each engine
  argument,   \* engine of the object in each argument list, and its holder
  objects,    \* references to script objects of each engine
  careless,   \* ghost: a host or script was
  fault       \* an assertion failed, or a dead object was used

managers == <<active, engine, refs, held, events, modules>>
scripts == <<hooked, funcDef, declared>>
arguments == <<argument, objects>>
vars == <<managers, progress, scripts, arguments, careless, fault>>

Unset == [engine |-> 0, home |-> Null]

Init ==
  /\ active = Null
  /\ engine = [m \in Manager |-> 0]
  /\ refs = [n \in Engine |-> -1]
  /\ held = [m \in Manager |-> FALSE]
  /\ events = [m \in Manager |-> Null]
  /\ modules = [m \in Manager |-> FALSE]
  /\ progress = <<>>
  /\ hooked = [e \in Event |-> {}]
  /\ funcDef = [e \in Event |-> 0]
  /\ declared = [n \in Engine |-> {}]
  /\ argument = [a \in Argument |-> Unset]
  /\ objects = [n \in Engine |-> 0]
  /\ careless = FALSE /\ fault = FALSE

-----------------------------------------------------------------------------
Acts == ~careless /\ ~fault

CarelessIf(cond) == careless' = cond

Crashes == fault' = TRUE /\ UNCHANGED <<managers, progress, scripts, arguments>>

Listed(m) == IF events[m] = Null THEN {} ELSE {events[m][i] : i \in DOMAIN events[m]}

InProgress(m) == \E i \in DOMAIN progress : progress[i].of = m

IsTriggering(e) == [of |-> e, at |-> "invoke"] \in {progress[i] : i \in DOMAIN progress}

Clearing == \E i \in DOMAIN progress : progress[i].at = "clear"

At(step) == ~fault /\ progress # <<>> /\ Head(progress).at = step

Goes(step) == progress' = <<[Head(progress) EXCEPT !.at = step]>> \o Tail(progress)

Returns == progress' = Tail(progress)

-----------------------------------------------------------------------------
(* Names.  as::ExtractNamespaceFromName and ExtractNameFromName split at   *)
(* the last "::".                                                          *)
Splits(name) == {i \in DOMAIN name : name[i] = "::"}

ExtractNamespace(name) ==
  IF Splits(name) = {} THEN <<>> ELSE SubSeq(name, 1, Max(Splits(name)) - 1)

ExtractName(name) ==
  IF Splits(name) = {} THEN name ELSE SubSeq(name, Max(Splits(name)) + 1, Len(name))

Occurs(part, s) ==
  \E i \in 1..(Len(s) - Len(part) + 1) : SubSeq(s, i, i + Len(part) - 1) = part

(* Names are one identifier; the events' namespace is no part of a         *)
(* category, which would be taken for it.                                  *)
ASSUME NamesAssumption ==
  /\ "::" \in Symbol /\ Namespace \in Seq(Symbol)
  /\ \A e \in Event :
       /\ Category[e] \in Seq(Symbol) /\ Name[e] \in Seq(Symbol)
       /\ \A i \in DOMAIN Name[e] : Name[e][i] # "::"
       /\ Namespace # <<>> => ~Occurs(Namespace \o <<"::">>, Category[e])

(* The events' namespace is looked for anywhere, with the "::" after it,   *)
(* but its length is taken from the front.  Mutant: only the namespace is  *)
(* taken off, its "::" stays.                                              *)
StrippedShort(space) ==
  IF Namespace # <<>> /\ Occurs(Namespace \o <<"::">>, space)
  THEN SubSeq(space, Len(Namespace) + 1, Len(space)) ELSE space

Stripped(space) ==
  IF Namespace # <<>> /\ Occurs(Namespace \o <<"::">>, space)
  THEN SubSeq(space, Len(Namespace) + 2, Len(space)) ELSE space

(* The event that a caller with that mask gets, or Null: the first of that *)
(* name decides.                                                           *)
FindEventByName(m, mask, name) ==
  LET space == Stripped(ExtractNamespace(name))
      found == {e \in Listed(m) : Category[e] = space /\ Name[e] = ExtractName(name)}
  IN IF \E e \in found : Mask[e] \cap mask # {} THEN CHOOSE e \in found : TRUE ELSE Null

GetEventByIndex(m, mask, i) ==
  IF i \in DOMAIN events[m] /\ Mask[events[m][i]] \cap mask # {}
  THEN events[m][i] ELSE Null

Spelled(e, space) ==
  space \o (IF Category[e] = <<>> THEN <<>> ELSE Category[e] \o <<"::">>) \o Name[e]

Visible(m, mask) ==
  ({FindEventByName(m, mask, Spelled(e, <<>>)) : e \in Event}
     \cup {GetEventByIndex(m, mask, i) : i \in DOMAIN events[m]}) \ {Null}

-----------------------------------------------------------------------------
(* CASManager::Initialize.  An engine is created, unless there is one:     *)
(* then the call returns true without a callback, even if an initialisation*)
(* failed half way before.  Careless: to do it while modules are cleared,  *)
(* since another manager becomes active.                                   *)
Initialize(m) ==
  /\ Acts /\ engine[m] = 0 /\ Len(progress) < MaxNested
  /\ \E n \in Engine :
       /\ refs[n] = -1 /\ \A k \in 1..(n - 1) : refs[k] # -1
       /\ engine' = [engine EXCEPT ![m] = n]
       /\ refs' = [refs EXCEPT ![n] = 1]
  /\ progress' = <<[of |-> m, at |-> "begin"]>> \o progress
  /\ CarelessIf(Clearing)
  /\ UNCHANGED <<active, held, events, modules, scripts, arguments, fault>>

(* OnInitBegin is done: the event manager is made, if the host wants one,  *)
(* then the module manager, which shares it; both hold the engine.  The    *)
(* manager is active from here, whether initialisation succeeds or not.    *)
OnInitBeginReturns ==
  /\ At("begin")
  /\ UNCHANGED <<careless, scripts, arguments, engine>>
  /\ LET m == Head(progress).of IN
     IF engine[m] = 0
     THEN fault' = TRUE /\ UNCHANGED <<managers, progress>>
     ELSE \E uses \in BOOLEAN :
            /\ events' = [events EXCEPT ![m] = IF uses THEN <<>> ELSE Null]
            /\ held' = [held EXCEPT ![m] = uses]
            /\ modules' = [modules EXCEPT ![m] = TRUE]
            /\ refs' = [refs EXCEPT ![engine[m]] = @ + IF uses THEN 2 ELSE 1]
            /\ active' = m
            /\ Goes("core")
            /\ UNCHANGED fault

(* RegisterCoreAPI, AddEvents or RegisterAPI failed: everything stays as   *)
(* it is, and OnInitEnd is told.                                           *)
CallbackFails ==
  /\ At("core") \/ At("events") \/ At("api")
  /\ Returns
  /\ UNCHANGED <<managers, scripts, arguments, careless, fault>>

RegisterCoreAPIReturns ==
  /\ At("core")
  /\ Goes(IF held[Head(progress).of] THEN "events" ELSE "api")
  /\ UNCHANGED <<managers, scripts, arguments, careless, fault>>

RegisterAPIReturns ==
  /\ At("api")
  /\ Returns
  /\ UNCHANGED <<managers, scripts, arguments, careless, fault>>

(* AddEvents is done.  RegisterEvents declares the funcdefs in the global  *)
(* namespace: a name that two events share, in whatever category, cannot   *)
(* be declared again, and the funcdef that is looked for is not there.     *)
AddEventsReturns ==
  /\ At("events")
  /\ UNCHANGED <<managers, hooked, arguments, careless>>
  /\ LET m == Head(progress).of
         names == {Name[e] : e \in Listed(m)} IN
     IF engine[m] = 0 \/ Cardinality(names) < Len(events[m])
     THEN fault' = TRUE /\ UNCHANGED <<funcDef, declared, progress>>
     ELSE /\ funcDef' = [e \in Event |-> IF e \in Listed(m) THEN engine[m] ELSE funcDef[e]]
          /\ declared' = [declared EXCEPT ![engine[m]] = names \cup {<<"g_EventManager">>}]
          /\ Goes("api")
          /\ UNCHANGED fault

(* CASEventManager::AddEvent, in the AddEvents callback; an event that is  *)
(* there already is not added again.  It is careless to share an event     *)
(* with another manager, or to add two of one name.                        *)
AddEvent(m, e) ==
  /\ Acts /\ At("events") /\ Head(progress).of = m /\ events[m] # Null
  /\ e \notin Listed(m)
  /\ events' = [events EXCEPT ![m] = Append(@, e)]
  /\ CarelessIf(\/ \E k \in Manager \ {m} : e \in Listed(k)
                \/ \E f \in Listed(m) : Name[f] = Name[e])
  /\ UNCHANGED <<active, engine, refs, held, modules, progress, scripts, arguments, fault>>

-----------------------------------------------------------------------------
(* CASBaseEvent::RemoveAllFunctions for every event of the manager; the    *)
(* event that is being invoked keeps its functions.                        *)
UnhookAllFunctions(m) ==
  [e \in Event |-> IF e \in Listed(m) /\ ~IsTriggering(e) THEN {} ELSE hooked[e]]

(* Who is active when a manager starts to shut down.  Mutant: who was.     *)
ActivatedBefore(m) == active

Activated(m) == m

(* CASManager::Shutdown, up to the destructors that clearing the modules   *)
(* runs.  The event manager lives on, since the module manager shares it.  *)
(* Careless: to shut down in a callback of the same manager, while modules *)
(* are cleared or an event is invoked, and to keep an object of the engine *)
(* in the host.                                                            *)
Shutdown(m) ==
  /\ Acts /\ engine[m] # 0 /\ Len(progress) < MaxNested
  /\ active' = Activated(m)
  /\ hooked' = IF held[m] THEN UnhookAllFunctions(m) ELSE hooked
  /\ held' = [held EXCEPT ![m] = FALSE]
  /\ progress' = <<[of |-> m, at |-> "clear"]>> \o progress
  /\ CarelessIf(\/ InProgress(m) \/ Clearing \/ \E e \in Event : IsTriggering(e)
                \/ \E a \in Argument : argument[a] = [engine |-> engine[m], home |-> Null])
  /\ UNCHANGED <<engine, refs, events, modules, funcDef, declared, arguments, fault>>

(* CASArgument::Reset asks the active manager's engine to release the      *)
(* object; another engine does not know its type.                          *)
Released(gone) ==
  objects' = [n \in Engine |->
    IF active # Null /\ engine[active] = n
    THEN objects[n] - Cardinality({a \in gone : argument[a].engine = n}) ELSE objects[n]]

(* Whether the active manager is the one to ask.                           *)
Serves(gone) == \A a \in gone : active # Null /\ engine[active] = argument[a].engine

(* Who is active after a shutdown.  Mutant: whoever was before.            *)
DeactivatedNot(m) == active

Deactivated(m) == IF active = m THEN Null ELSE active

(* The modules are cleared and their schedulers' argument lists with them. *)
(* The event manager is destroyed with the module manager, and unhooks     *)
(* once more what destructors hooked; the engine goes last.                *)
ShutdownCompletes ==
  /\ At("clear")
  /\ UNCHANGED <<held, funcDef, declared, careless>>
  /\ LET m == Head(progress).of
         gone == {a \in Argument : argument[a].home = m} IN
     IF engine[m] = 0 \/ (gone # {} /\ active = Null)
     THEN fault' = TRUE /\ UNCHANGED <<active, engine, refs, events, modules, progress, hooked, arguments>>
     ELSE /\ argument' = [a \in Argument |-> IF a \in gone THEN Unset ELSE argument[a]]
          /\ Released(gone)
          /\ hooked' = UnhookAllFunctions(m)
          /\ events' = [events EXCEPT ![m] = Null]
          /\ modules' = [modules EXCEPT ![m] = FALSE]
          /\ refs' = [refs EXCEPT ![engine[m]] =
                        @ - 1 - (IF modules[m] THEN 1 ELSE 0)
                          - (IF events[m] # Null THEN 1 ELSE 0)]
          /\ engine' = [engine EXCEPT ![m] = 0]
          /\ active' = Deactivated(m)
          /\ Returns
          /\ UNCHANGED fault

(* CASManager::ActivateManager; null is allowed.  It is careless to choose *)
(* one that has no engine, or another one while modules are cleared.       *)
ActivateManager(m) ==
  /\ Acts /\ active # m
  /\ active' = m
  /\ CarelessIf(\/ m # Null /\ engine[m] = 0
                \/ Clearing)
  /\ UNCHANGED <<engine, refs, held, events, modules, progress, scripts, arguments, fault>>

Deactivate(m) ==
  /\ Acts /\ active = m
  /\ active' = Deactivated(m)
  /\ CarelessIf(Clearing)
  /\ UNCHANGED <<engine, refs, held, events, modules, progress, scripts, arguments, fault>>

-----------------------------------------------------------------------------
(* A script of the manager, which the global g_EventManager serves.        *)
Scripts(m) == Acts /\ modules[m] /\ engine[m] # 0 /\ declared[engine[m]] # {}

(* CASEventManager::HookEvent.  The funcdef tells whether the function is  *)
(* compatible, so that one of another engine is refused.                   *)
HookEvent(m, mask) ==
  /\ Scripts(m)
  /\ \E e \in Visible(m, mask) :
       IF refs[funcDef[e]] = 0
       THEN Crashes /\ UNCHANGED careless
       ELSE /\ funcDef[e] = engine[m] /\ ~IsTriggering(e)
            /\ hooked' = [hooked EXCEPT ![e] = @ \cup {engine[m]}]
            /\ UNCHANGED <<managers, progress, funcDef, declared, arguments, careless, fault>>

(* CASEventManager::UnhookEvent goes on when there is no event: a script   *)
(* that gives a name it does not see is careless.                          *)
UnhookEvent(m, mask) ==
  /\ Scripts(m)
  /\ \E e \in Visible(m, mask) \cup {Null} :
       /\ CarelessIf(e = Null)
       /\ IF e = Null
          THEN Crashes
          ELSE /\ hooked' = [hooked EXCEPT ![e] = @ \ {engine[m]}]
               /\ UNCHANGED <<managers, progress, funcDef, declared, arguments, fault>>

(* The host invokes an event, and the invocation returns.                  *)
Invoke(e) ==
  /\ Acts /\ hooked[e] # {} /\ Len(progress) < MaxNested
  /\ progress' = <<[of |-> e, at |-> "invoke"]>> \o progress
  /\ UNCHANGED <<managers, scripts, arguments, careless, fault>>

Invoked ==
  /\ At("invoke")
  /\ Returns
  /\ UNCHANGED <<managers, scripts, arguments, careless, fault>>

(* An argument list gets an object of the engine of m, which the active    *)
(* manager's engine is asked to copy: for a timer of a module of m, or for *)
(* the host.  Careless: another manager is active.                         *)
SetArguments(a, m, home) ==
  /\ Acts /\ argument[a] = Unset /\ engine[m] # 0
  /\ home # Null => modules[m]
  /\ CarelessIf(active # m \/ InProgress(m))
  /\ IF active = Null
     THEN Crashes
     ELSE /\ argument' = [argument EXCEPT ![a] = [engine |-> engine[m], home |-> home]]
          /\ objects' = [n \in Engine |-> IF engine[active] = n THEN objects[n] + 1 ELSE objects[n]]
          /\ UNCHANGED <<managers, progress, scripts, fault>>

Clear(a) ==
  /\ Acts /\ argument[a] # Unset
  /\ CarelessIf(~Serves({a}))
  /\ IF active = Null
     THEN Crashes
     ELSE /\ argument' = [argument EXCEPT ![a] = Unset]
          /\ Released({a})
          /\ UNCHANGED <<managers, progress, scripts, fault>>

Next ==
  \/ \E m \in Manager : Initialize(m) \/ Shutdown(m) \/ Deactivate(m)
  \/ \E m \in Manager \cup {Null} : ActivateManager(m)
  \/ \E m \in Manager, e \in Event : AddEvent(m, e)
  \/ \E m \in Manager, mask \in ScriptMask : HookEvent(m, mask) \/ UnhookEvent(m, mask)
  \/ \E a \in Argument, m \in Manager :
       \E home \in {m, Null} : SetArguments(a, m, home)
  \/ \E a \in Argument : Clear(a)
  \/ \E e \in Event : Invoke(e)
  \/ OnInitBeginReturns \/ CallbackFails
  \/ RegisterCoreAPIReturns \/ AddEventsReturns \/ RegisterAPIReturns
  \/ ShutdownCompletes \/ Invoked

Spec == Init /\ [][Next]_vars

-----------------------------------------------------------------------------
(* Nothing points at an engine that is gone, and nothing is used that is:  *)
(* not the active manager, not the functions that events have hooked, even *)
(* by destructors that run during a shutdown (the event manager that the   *)
(* modules share takes them out), not the funcdefs that the events of a    *)
(* running manager compare functions with.                                 *)
NothingDangles ==
  careless \/
  /\ ~fault
  /\ active # Null => engine[active] # 0
  /\ \A e \in Event : \A n \in hooked[e] : refs[n] > 0
  /\ \A m \in Manager : engine[m] # 0 /\ declared[engine[m]] # {}
       => \A e \in Listed(m) : funcDef[e] = engine[m]

(* An engine has a reference for its manager and for the event and module  *)
(* managers on it, so that it goes when they do, and a reference to a      *)
(* script object for each argument list: those of modules are released     *)
(* during the shutdown, by the engine they belong to.                      *)
RefsBalanced ==
  careless \/
  \A n \in Engine :
    /\ objects[n] = Cardinality({a \in Argument : argument[a].engine = n})
    /\ refs[n] # -1 =>
         refs[n] = Cardinality({m \in Manager : engine[m] = n})
                 + Cardinality({m \in Manager : engine[m] = n /\ modules[m]})
                 + Cardinality({m \in Manager : engine[m] = n /\ events[m] # Null})
    /\ refs[n] \in {-1, 0} => objects[n] = 0

(* CASEventManager.h promises of FindEventByName: an event is found by     *)
(* category and name, with the namespace before the category or without,   *)
(* by whoever has access to it and by nobody else.  The promise is not     *)
(* kept for events without a category, which cannot be found with the      *)
(* namespace.                                                              *)
FoundByName ==
  \A m \in Manager, mask \in ScriptMask : \A e \in Listed(m) :
    \A space \in {<<>>} \cup (IF Category[e] = <<>> \/ Namespace = <<>>
                             THEN {} ELSE {Namespace \o <<"::">>}) :
      FindEventByName(m, mask, Spelled(e, space))
        = IF Mask[e] \cap mask # {} THEN e ELSE Null
=============================================================================
