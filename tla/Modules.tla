------------------------------ MODULE Modules ------------------------------
(***************************************************************************)
(* CASModuleManager and CASModule: modules of script code, from their      *)
(* build to their removal, and what refers to them meanwhile.              *)
(*                                                                         *)
(* A CASModule is a reference counted object around a script module of the *)
(* engine (asIScriptModule), which is not: it lives under its name until   *)
(* it is discarded or another module is created under that name.  The two  *)
(* point at each other, the module points at its descriptor and owns user  *)
(* data, and events hold script functions from which they find the module  *)
(* by way of the script module.  Nothing but the order of calls keeps      *)
(* these pointers good.                                                    *)
(*                                                                         *)
(* The code leaves several calls to the host's care.  The model lets the   *)
(* host make them and remembers which it made, so that each property says  *)
(* which of them it survives.  A dereference of null or of freed memory is *)
(* a fault that ends the behaviour; a script module must not be used once  *)
(* it is discarded, whatever keeps its memory.  Builds are not nested, and *)
(* no event is being triggered: Events.tla is about that.                  *)
(*                                                                         *)
(* Script code runs where a module is compiled, for the initial values of  *)
(* its globals, and where it is discarded, for their destructors.  Of what *)
(* is here scripts can only hook functions and unhook them.                *)
(***************************************************************************)
EXTENDS Integers, Sequences, FiniteSets, Functions

CONSTANTS
  Name,          \* names of modules
  Descriptor,    \* descriptors, by name
  Priority,      \* the priority of each descriptor
  Module,        \* the memory cells CASModules are allocated in
  Script,        \* the memory cells the engine's script modules are in
  UserData,
  NoDescriptor, NoModule, NoScript, NoUserData,
  LastId,        \* LAST_DESCRIPTOR_ID
  Careless,      \* the calls the host makes without care
  MaxKinds       \* how many different ones in one behaviour, a bound

(* "rebuild": builds a module under the name of one that is listed.        *)
(* "refuse": a PostBuild that refuses a module that was built, which the   *)
(* interface of builders allows.                                           *)
(* "byName": RemoveModule with the name of a module that is hooked.        *)
(* "clear": Clear before functions are unhooked and modules let go of.     *)
(* "discard": CASModule::Discard, which is public.                         *)
(* "early": a script hooks before there is a CASModule for it.             *)
(* "late": a script hooks for a module that is being removed.              *)
CarelessCalls ==
  {"rebuild", "refuse", "byName", "clear", "discard", "early", "late"}

ASSUME SetsAssumption ==
  /\ IsFiniteSet(Name) /\ IsFiniteSet(Module) /\ IsFiniteSet(Script)
  /\ IsFiniteSet(Descriptor) /\ IsFiniteSet(UserData)
ASSUME NullAssumption ==
  /\ NoDescriptor \notin Descriptor /\ NoModule \notin Module
  /\ NoScript \notin Script /\ NoUserData \notin UserData
ASSUME DescriptorAssumption ==
  Priority \in [Descriptor -> Int] /\ LastId \in Nat \ {0}
ASSUME CarelessAssumption == Careless \subseteq CarelessCalls /\ MaxKinds \in Nat

VARIABLES
  \* The engine.
  named,      \* the script module that has a name
  owner,      \* user data of a script module: its CASModule
  \* The manager.
  ids,        \* m_Descriptors: their identifiers; 0 is that of none
  nextId,     \* m_NextDescriptorID
  modules,    \* m_Modules
  removal,    \* the locals of RemoveModule or Clear
  \* The modules.
  refs,       \* reference count; 0 when the cell is free
  script,     \* m_pModule
  descriptor, \* m_pDescriptor; NoDescriptor when that was destroyed
  userData,   \* m_pUserData
  \* The rest of the program.
  live,       \* the user data that was created and not released
  held,       \* the modules the host has a reference to
  hooked,     \* the script modules with a function hooked to an event
  build,      \* the locals of BuildModuleInternal
  fault,      \* what undefined behaviour occurred
  made        \* ghost: the careless calls that were made

engine  == <<named, owner>>
manager == <<ids, nextId, modules, removal>>
objects == <<refs, script, descriptor, userData>>
host    == <<live, held, hooked, build>>
vars    == <<engine, manager, objects, host, fault, made>>

(* The locals of BuildModuleInternal. *)
NoBuild == [phase |-> "none", descriptor |-> NoDescriptor, script |-> NoScript,
            userData |-> NoUserData, module |-> NoModule]

(* RemoveModule has one module to remove; Clear removes them all, and has  *)
(* none between two of them.                                               *)
NoRemoval == [module |-> NoModule, clear |-> FALSE]

Listed == Range(modules)

Init ==
  /\ named = [n \in Name |-> NoScript]
  /\ owner = [s \in Script |-> NoModule]
  /\ ids = [d \in Descriptor |-> 0] /\ nextId = 1
  /\ modules = <<>> /\ removal = NoRemoval
  /\ refs = [m \in Module |-> 0]
  /\ script = [m \in Module |-> NoScript]
  /\ descriptor = [m \in Module |-> NoDescriptor]
  /\ userData = [m \in Module |-> NoUserData]
  /\ live = {} /\ held = {} /\ hooked = {}
  /\ build = NoBuild
  /\ fault = "none" /\ made = {}

-----------------------------------------------------------------------------
(* Pointers.                                                               *)

(* The script module does not exist any more: it was discarded, or the     *)
(* pointer is null.                                                        *)
Gone(s) == s \notin Range(named) \ {NoScript}

Registered(d) == ids[d] # 0

(* The modules the host can reach. *)
Reachable == (Listed \cup held \cup {build.module}) \ {NoModule}

(* A careless call is one the host of this instance makes. *)
Making(calls) ==
  /\ calls \subseteq Careless
  /\ Cardinality(made \cup calls) <= MaxKinds
  /\ made' = made \cup calls

When(condition, call) == IF condition THEN {call} ELSE {}

(* References are released; a module without references is deleted and     *)
(* releases its user data.                                                 *)
LeftWith(counts) ==
  /\ refs' = counts
  /\ LET deleted == {m \in Module : refs[m] # 0 /\ counts[m] = 0} IN
     /\ live' = live \ {userData[m] : m \in deleted}
     /\ userData' = [m \in Module |->
                       IF m \in deleted THEN NoUserData ELSE userData[m]]

(* Mutant: a list gives up its modules without releasing them. *)
KeepAll(M) == LeftWith(refs)

(* One reference to each of M is released. *)
ReleaseAll(M) ==
  LeftWith([m \in Module |-> IF m \in M THEN refs[m] - 1 ELSE refs[m]])

(* delete, whoever has references. *)
Delete(m) == LeftWith([refs EXCEPT ![m] = 0])

(* CASModule::Discard of each of M: ClearTimerList goes through the script *)
(* module, null or not.                                                    *)
DiscardFault(M) ==
  IF \E m \in M : Gone(script[m]) THEN "badScript" ELSE "none"

DiscardAll(M) ==
  LET gone == {script[m] : m \in M} IN
  /\ named' = [n \in Name |-> IF named[n] \in gone THEN NoScript ELSE named[n]]
  /\ script' = [m \in Module |-> IF m \in M THEN NoScript ELSE script[m]]

(* FindModuleByName and its like ask each module for its name until one    *)
(* has it.                                                                 *)
SearchFault(n) ==
  \E i \in DOMAIN modules :
    /\ Gone(script[modules[i]])
    /\ \A j \in 1..i - 1 : script[modules[j]] # named[n]

(* Code that can hook runs: that of the host, or destructors of what is    *)
(* being discarded.                                                        *)
ScriptRuns == fault = "none" /\ (removal = NoRemoval \/ removal.module # NoModule)

(* The host runs: between calls of the manager, or in a builder's callback. *)
HostRuns == fault = "none" /\ removal = NoRemoval

-----------------------------------------------------------------------------
(* Descriptors.                                                            *)

(* Mutant: the last identifier is given away, and the next one wraps. *)
LastIsGiven == nextId <= LastId

HasFreeId == nextId < LastId

(* AddDescriptor of a new name, while there are identifiers. *)
AddDescriptor(d) ==
  /\ HostRuns
  /\ HasFreeId
  /\ ~Registered(d)
  /\ ids' = [ids EXCEPT ![d] = nextId]
  /\ nextId' = nextId + 1
  /\ UNCHANGED <<engine, modules, removal, objects, host, fault, made>>

(* Operator < of descriptors that have an identifier. *)
DescriptorLess(d, e) ==
  \/ Priority[d] > Priority[e]
  \/ Priority[d] = Priority[e] /\ ids[d] < ids[e]

-----------------------------------------------------------------------------
(* Building a module.                                                      *)

(* BuildModule up to the builder's callbacks: the script builder creates   *)
(* the script module, in place of one that has the name.                   *)
StartBuild(d, n, u) ==
  /\ HostRuns
  /\ build.phase = "none"
  /\ Registered(d)
  /\ u \notin live
  /\ Making(When(\E m \in Listed : ~Gone(script[m]) /\ script[m] = named[n],
                 "rebuild"))
  /\ \E s \in Script :
       /\ Gone(s) /\ s \notin hooked
       /\ named' = [named EXCEPT ![n] = s]
       /\ owner' = [owner EXCEPT ![s] = NoModule]
       /\ build' = [phase |-> "compile", descriptor |-> d, script |-> s,
                    userData |-> u, module |-> NoModule]
  /\ live' = live \cup ({u} \ {NoUserData})
  /\ UNCHANGED <<manager, objects, held, hooked, fault>>

(* Mutant: the script module is not discarded. *)
KeepScript(s) == named

(* asIScriptModule::Discard *)
WithoutScript(s) ==
  [n \in Name |-> IF named[n] = s THEN NoScript ELSE named[n]]

(* A callback refuses or the script does not compile: the script module is *)
(* discarded and the user data released on the way out.                    *)
BuildFails ==
  /\ HostRuns
  /\ build.phase = "compile"
  /\ named' = WithoutScript(build.script)
  /\ live' = live \ {build.userData}
  /\ build' = NoBuild
  /\ UNCHANGED <<owner, manager, objects, held, hooked, fault, made>>

(* Mutant: cleanupUserData is not released. *)
StillCleaned == build.userData

(* What cleanupUserData has left once the CASModule has the user data. *)
KeptUserData == NoUserData

(* The script compiled: the CASModule takes over script module and user    *)
(* data.  It is not where the host believes that it has a module.          *)
Compiled ==
  /\ HostRuns
  /\ build.phase = "compile"
  /\ \E m \in Module :
       /\ refs[m] = 0 /\ m \notin held
       /\ refs' = [refs EXCEPT ![m] = 1]
       /\ script' = [script EXCEPT ![m] = build.script]
       /\ descriptor' = [descriptor EXCEPT ![m] = build.descriptor]
       /\ userData' = [userData EXCEPT ![m] = build.userData]
       /\ owner' = [owner EXCEPT ![build.script] = m]
       /\ build' = [build EXCEPT !.phase = "postBuild", !.module = m,
                                 !.userData = KeptUserData]
  /\ UNCHANGED <<named, manager, live, held, hooked, fault, made>>

(* PostBuild refuses the module: it is deleted, not discarded. *)
PostBuildRefuses ==
  /\ HostRuns
  /\ build.phase = "postBuild"
  /\ Making({"refuse"})
  /\ Delete(build.module)
  /\ build' = NoBuild
  /\ UNCHANGED <<engine, manager, script, descriptor, held, hooked, fault>>

(* Mutant: the list is not sorted. *)
ListedLast(m) == {Append(modules, m)}

(* push_back and stable_sort.  Modules of one descriptor are in the order  *)
(* of their addresses, which can be any.                                   *)
ListedWith(m) ==
  {list \in {SubSeq(modules, 1, i) \o <<m>>
               \o SubSeq(modules, i + 1, Len(modules)) : i \in 0..Len(modules)} :
     \A i, j \in DOMAIN list :
       i < j => ~DescriptorLess(descriptor[list[j]], descriptor[list[i]])}

(* AddModule asks the modules for their names and compares their           *)
(* descriptors.                                                            *)
AddModuleFault(m) ==
  IF Gone(script[m]) \/ \E n \in Name : named[n] = script[m] /\ SearchFault(n)
  THEN "badScript"
  ELSE IF /\ modules # <<>>
          /\ \A x \in Listed : script[x] # script[m]
          /\ \E x \in Listed \cup {m} : descriptor[x] = NoDescriptor
  THEN "badDescriptor" ELSE "none"

(* PostBuild accepts: AddModule, which refuses a name that is in the list, *)
(* adds a reference; that of the builder is released.                      *)
PostBuildAccepts ==
  LET m == build.module IN
  /\ HostRuns
  /\ build.phase = "postBuild"
  /\ \/ /\ AddModuleFault(m) # "none"
        /\ fault' = AddModuleFault(m)
        /\ UNCHANGED <<modules, refs, userData, live, build>>
     \/ /\ AddModuleFault(m) = "none"
        /\ \E x \in Listed : script[x] = script[m]
        /\ Delete(m)
        /\ build' = NoBuild
        /\ UNCHANGED <<modules, fault>>
     \/ /\ AddModuleFault(m) = "none"
        /\ \A x \in Listed : script[x] # script[m]
        /\ modules' \in ListedWith(m)
        /\ build' = NoBuild
        /\ UNCHANGED <<refs, userData, live, fault>>
  /\ UNCHANGED <<engine, ids, nextId, removal, script, descriptor, held,
                 hooked, made>>

-----------------------------------------------------------------------------
(* Removing modules.                                                       *)

(* Discard of m, which is to be released, up to the destructors.           *)
RemovalStarts(m) ==
  \/ /\ DiscardFault({m}) # "none"
     /\ fault' = DiscardFault({m})
     /\ UNCHANGED removal
  \/ /\ DiscardFault({m}) = "none"
     /\ removal' = [removal EXCEPT !.module = m]
     /\ UNCHANGED fault

(* The list without the module find has found in it. *)
Without(m) ==
  LET found == CHOOSE i \in DOMAIN modules : modules[i] = m
  IN SubSeq(modules, 1, found - 1) \o SubSeq(modules, found + 1, Len(modules))

(* Mutant: the functions stay hooked. *)
StillHooked(m) == hooked

(* UnhookModuleFunctions *)
Unhooked(m) == {s \in hooked : owner[s] # m}

(* RemoveModule of a module: its functions are unhooked first.             *)
RemoveModule(m) ==
  /\ HostRuns
  /\ m \in Listed
  /\ hooked' = Unhooked(m)
  /\ RemovalStarts(m)
  /\ UNCHANGED <<engine, ids, nextId, modules, objects, live, held, build, made>>

(* RemoveModule of a name: they are not.                                   *)
RemoveModuleByName(n) ==
  /\ HostRuns
  /\ \/ /\ SearchFault(n)
        /\ fault' = "badScript"
        /\ UNCHANGED <<removal, made>>
     \/ /\ ~SearchFault(n)
        /\ \E m \in Listed :
             /\ script[m] = named[n]
             /\ Making(When(m \in {owner[s] : s \in hooked}, "byName"))
             /\ RemovalStarts(m)
  /\ UNCHANGED <<engine, ids, nextId, modules, objects, host>>

(* Discard returns and the module is released.  Clear has its modules in   *)
(* the list to the end, where nothing looks for them; here each leaves.    *)
DiscardReturns ==
  LET m == removal.module IN
  /\ fault = "none"
  /\ m # NoModule
  /\ DiscardAll({m})
  /\ ReleaseAll({m})
  /\ modules' = Without(m)
  /\ removal' = [removal EXCEPT !.module = NoModule]
  /\ UNCHANGED <<owner, ids, nextId, descriptor, held, hooked, build, fault, made>>

(* Clear *)
Clear ==
  /\ HostRuns
  /\ Making(When(hooked # {} \/ held # {} \/ build # NoBuild, "clear"))
  /\ removal' = [NoRemoval EXCEPT !.clear = TRUE]
  /\ UNCHANGED <<engine, ids, nextId, modules, objects, host, fault>>

(* Clear takes the next module.                                            *)
ClearNext ==
  /\ fault = "none"
  /\ removal.clear /\ removal.module = NoModule
  /\ modules # <<>>
  /\ RemovalStarts(Head(modules))
  /\ UNCHANGED <<engine, ids, nextId, modules, objects, host, made>>

(* Clear has removed all modules: the descriptors go.                      *)
ClearEnds ==
  /\ fault = "none"
  /\ removal.clear /\ removal.module = NoModule
  /\ modules = <<>>
  /\ ids' = [d \in Descriptor |-> 0]
  /\ nextId' = 1
  /\ descriptor' = [m \in Module |-> NoDescriptor]
  /\ build' = [build EXCEPT !.descriptor = NoDescriptor]
  /\ removal' = NoRemoval
  /\ UNCHANGED <<engine, modules, refs, script, userData, live, held, hooked,
                 fault, made>>

-----------------------------------------------------------------------------
(* What else the program does with modules.                                *)

(* The modules that RemoveModule or Clear has still to release.            *)
Leaving == IF removal.clear THEN Listed ELSE {removal.module} \ {NoModule}

(* A function of the script module is added to an event, where the list is *)
(* sorted by the descriptors of the functions' modules.                    *)
AddFunction(s) ==
  LET owners == {owner[t] : t \in hooked \cup {s}}
      early == build.phase = "compile" /\ build.script = s
  IN
  /\ ScriptRuns
  /\ ~Gone(s)
  /\ early \/ (owner[s] \in Reachable /\ script[owner[s]] = s)
  /\ Making(When(early, "early") \cup When(owner[s] \in Leaving, "late"))
  /\ fault' = IF hooked = {} THEN "none"
              ELSE IF \E m \in owners : m = NoModule \/ refs[m] = 0 THEN "badModule"
              ELSE IF \E m \in owners : descriptor[m] = NoDescriptor
              THEN "badDescriptor" ELSE "none"
  /\ hooked' = hooked \cup {s}
  /\ UNCHANGED <<engine, manager, objects, live, held, build>>

(* The last function of the script module is taken from the events.        *)
RemoveFunction(s) ==
  /\ ScriptRuns
  /\ s \in hooked
  /\ hooked' = hooked \ {s}
  /\ UNCHANGED <<engine, manager, objects, live, held, build, fault, made>>

(* UnhookAllFunctions *)
UnhookAllFunctions ==
  /\ HostRuns
  /\ hooked # {}
  /\ hooked' = {}
  /\ UNCHANGED <<engine, manager, objects, live, held, build, fault, made>>

(* The host takes a reference to a module it can reach. *)
AddRef(m) ==
  /\ HostRuns
  /\ m \in Reachable \ held
  /\ refs' = [refs EXCEPT ![m] = @ + 1]
  /\ held' = held \cup {m}
  /\ UNCHANGED <<engine, manager, script, descriptor, userData, live, hooked,
                 build, fault, made>>

(* CASModule::Release of the host's reference. *)
Release(m) ==
  /\ HostRuns
  /\ m \in held
  /\ IF refs[m] = 0
     THEN fault' = "badModule" /\ UNCHANGED <<refs, userData, live, held>>
     ELSE ReleaseAll({m}) /\ held' = held \ {m} /\ UNCHANGED fault
  /\ UNCHANGED <<engine, manager, script, descriptor, hooked, build, made>>

(* CASModule::Discard by the host. *)
Discard(m) ==
  /\ HostRuns
  /\ m \in Reachable
  /\ Making({"discard"})
  /\ IF refs[m] = 0
     THEN fault' = "badModule" /\ UNCHANGED <<named, script>>
     ELSE IF DiscardFault({m}) # "none"
     THEN fault' = DiscardFault({m}) /\ UNCHANGED <<named, script>>
     ELSE DiscardAll({m}) /\ UNCHANGED fault
  /\ UNCHANGED <<owner, manager, refs, descriptor, userData, host>>

(* SetUserData, of user data that is new to the module. *)
SetUserData(m, u) ==
  /\ HostRuns
  /\ m \in Reachable
  /\ u \notin live
  /\ IF refs[m] = 0
     THEN fault' = "badModule" /\ UNCHANGED <<userData, live>>
     ELSE /\ userData' = [userData EXCEPT ![m] = u]
          /\ live' = (live \ {userData[m]}) \cup ({u} \ {NoUserData})
          /\ UNCHANGED fault
  /\ UNCHANGED <<engine, manager, refs, script, descriptor, held, hooked, build,
                 made>>

-----------------------------------------------------------------------------
Next ==
  \/ \E d \in Descriptor : AddDescriptor(d)
  \/ \E d \in Descriptor, n \in Name, u \in UserData \cup {NoUserData} :
       StartBuild(d, n, u)
  \/ BuildFails \/ Compiled \/ PostBuildRefuses \/ PostBuildAccepts
  \/ \E m \in Module :
       \/ RemoveModule(m) \/ AddRef(m) \/ Release(m) \/ Discard(m)
       \/ \E u \in UserData \cup {NoUserData} : SetUserData(m, u)
  \/ \E n \in Name : RemoveModuleByName(n)
  \/ \E s \in Script : AddFunction(s) \/ RemoveFunction(s)
  \/ DiscardReturns \/ Clear \/ ClearNext \/ ClearEnds \/ UnhookAllFunctions

Spec == Init /\ [][Next]_vars

-----------------------------------------------------------------------------
(* Properties.                                                             *)

Careful(calls) == made \cap calls = {}

(* Every variable has its type. *)
TypeOK ==
  /\ named \in [Name -> Script \cup {NoScript}]
  /\ owner \in [Script -> Module \cup {NoModule}]
  /\ ids \in [Descriptor -> 0..LastId] /\ nextId \in 1..LastId
  /\ modules \in Seq(Module)
  /\ removal \in [module: Module \cup {NoModule}, clear: BOOLEAN]
  /\ refs \in [Module -> 0..3]
  /\ script \in [Module -> Script \cup {NoScript}]
  /\ descriptor \in [Module -> Descriptor \cup {NoDescriptor}]
  /\ userData \in [Module -> UserData \cup {NoUserData}]
  /\ live \subseteq UserData /\ held \subseteq Module
  /\ hooked \subseteq Script
  /\ build \in [phase: {"none", "compile", "postBuild"},
                descriptor: Descriptor \cup {NoDescriptor},
                script: Script \cup {NoScript},
                userData: UserData \cup {NoUserData},
                module: Module \cup {NoModule}]
  /\ fault \in {"none", "badScript", "badModule", "badDescriptor"}
  /\ made \subseteq Careless

(* A module has as many references as the list, the host and the builder   *)
(* have to it: none is leaked and none is deleted too early.  A refusing   *)
(* PostBuild, and AddModule after a rebuild, delete whatever the count.    *)
RefsBalanced ==
  Careful({"refuse", "rebuild"}) =>
    \A m \in Module :
      refs[m] = Cardinality(When(m \in Listed, "list")
                              \cup When(m \in held, "host")
                              \cup When(m = build.module, "builder"))

(* User data belongs to one module, or to the build in progress, until it  *)
(* is released: every way out of BuildModule and every end of a module     *)
(* releases it, and none twice.  No call of the host breaks this.          *)
UserDataOwned ==
  \A u \in UserData :
    LET owners == {m \in Module : refs[m] # 0 /\ userData[m] = u}
                    \cup When(build.userData = u, NoModule)
    IN Cardinality(owners) = IF u \in live THEN 1 ELSE 0

(* The list is in the order of the descriptors and has no module twice;    *)
(* two descriptors never share an identifier, so the order is total.       *)
ListInOrder ==
  /\ \A d, e \in Descriptor : Registered(d) /\ ids[d] = ids[e] => d = e
  /\ \A i, j \in DOMAIN modules :
       i < j => /\ modules[i] # modules[j]
                /\ ~DescriptorLess(descriptor[modules[j]],
                                   descriptor[modules[i]])

(* Each script module in the engine is that of one module, listed or being *)
(* built, and each listed module has one that finds its way back: no build *)
(* that fails and no removal leaves a script module behind, whose user     *)
(* data would be a dangling pointer.                                       *)
ScriptsOwned ==
  Careful({"refuse", "rebuild", "discard"}) =>
    /\ \A m \in Listed : ~Gone(script[m]) /\ owner[script[m]] = m
    /\ \A n \in Name : named[n] # NoScript =>
         named[n] \in {script[m] : m \in Listed} \cup {build.script}

(* The functions that are hooked are of modules that exist, so an event    *)
(* can order them: modules are removed by pointer for this.  What scripts  *)
(* hook while their module is made or removed is not.                      *)
HooksOwned ==
  Careful({"refuse", "rebuild", "byName", "clear", "early", "late"}) =>
    \A s \in hooked : owner[s] # NoModule /\ refs[owner[s]] # 0

(* A host that takes care causes no fault, and each kind of fault has its  *)
(* causes.                                                                 *)
FaultHasCause ==
  /\ fault = "badScript" => ~Careful({"rebuild", "discard"})
  /\ fault = "badModule" =>
       ~Careful({"refuse", "rebuild", "byName", "clear", "early", "late"})
  /\ fault = "badDescriptor" => ~Careful({"clear"})
=============================================================================
