------------------------------- MODULE Events -------------------------------
(***************************************************************************)
(* CASEvent, CASEventCaller and the bulk operations of CASEventManager.    *)
(*                                                                         *)
(* An event keeps the script functions hooked to it in a vector, sorted by *)
(* module.  Triggering it walks the vector by index and calls each         *)
(* function.  A function that is called may hook and unhook functions and, *)
(* through the host, trigger events, the same one too: the activations of  *)
(* CallEvent form a stack.  While an event is triggered nothing is added   *)
(* to its vector and what is removed leaves a null slot behind, erased     *)
(* when the outermost activation ends.                                     *)
(*                                                                         *)
(* Functions are global functions, owned by their module, or delegates,    *)
(* owned by the scripts that hold a handle.  Both are reference counted.   *)
(* The assertions that bulk operations are not used during a trigger are   *)
(* compiled out, as in a release build: the operations are refused.        *)
(***************************************************************************)
EXTENDS Integers, Sequences, FiniteSets, Functions

CONSTANTS
  Event,
  Function,
  Delegate,    \* the functions that are delegates
  Module,
  ModuleOf,    \* the module of a function, or of the method of a delegate
  Rank,        \* the place of a module in the order of ModuleLess
  NoModule,    \* null asIScriptModule
  NoFunction,  \* null asIScriptFunction: an empty slot, no function running
  Bulk,        \* the bulk operations the host uses: "module", "all"
  MaxDepth,    \* bound: activations of CallEvent at a time
  MaxCalls     \* bound: events a function triggers in one call

ASSUME FunctionAssumption ==
  /\ IsFiniteSet(Event) /\ IsFiniteSet(Function)
  /\ NoFunction \notin Function
  /\ Delegate \subseteq Function
ASSUME ModuleAssumption ==
  /\ NoModule \notin Module
  /\ ModuleOf \in [Function -> Module]
  /\ Rank \in [Module -> Nat]
  /\ \A m, n \in Module : Rank[m] = Rank[n] => m = n
ASSUME HostAssumption ==
  /\ Bulk \subseteq {"module", "all"}
  /\ MaxDepth \in Nat /\ MaxCalls \in Nat

VARIABLES
  stopMode,   \* m_StopMode of each event; set by its constructor
  hooks,      \* m_Functions of each event
  callCount,  \* m_iInCallCount of each event
  stack,      \* the activations of CallEvent, the innermost first
  refs,       \* reference count of each function; 0 when it does not exist
  owned,      \* its module, or a script's handle, keeps the function
  result      \* what the last activation returned

vars == <<stopMode, hooks, callCount, stack, refs, owned, result>>

StopModes == {"callAll", "moduleHandled", "onHandled"}

(* The functions hooked to an event. *)
Hooked(e) == Range(hooks[e]) \ {NoFunction}

IsTriggering(e) == callCount[e] # 0

(* An activation of CallEvent.  called and handler are ghosts: the         *)
(* functions it called, and the module of the first that returned HANDLED. *)
Activation ==
  [event : Event, index : Nat \ {0}, running : Function \cup {NoFunction},
   code : {"continue", "handled"}, ok : BOOLEAN,
   lastModule : Module \cup {NoModule}, calls : 0..MaxCalls,
   called : SUBSET Function, handler : Module \cup {NoModule}]

Init ==
  /\ stopMode \in [Event -> StopModes]
  /\ hooks = [e \in Event |-> <<>>]
  /\ callCount = [e \in Event |-> 0]
  /\ stack = <<>>
  /\ owned = [f \in Function |-> f \notin Delegate]
  /\ refs = [f \in Function |-> IF f \in Delegate THEN 0 ELSE 1]
  /\ result = "none"

-----------------------------------------------------------------------------
(* The list of an event.                                                   *)

(* GetModule of a delegate is null. *)
ScriptModule(f) == IF f \in Delegate THEN NoModule ELSE ModuleOf[f]

ModuleLess(m, n) == Rank[m] < Rank[n]

(* Mutant: the list is not sorted. *)
InsertLast(list, f) == Append(list, f)

(* The elements of K, numbers, in ascending order.                         *)
Ascending(K) ==
  CHOOSE p \in [1..Cardinality(K) -> K] : \A i, j \in DOMAIN p : i < j => p[i] < p[j]

(* The part of a list at the places K, in the order of the list.           *)
Selected(list, K) == [i \in 1..Cardinality(K) |-> list[Ascending(K)[i]]]

(* push_back and stable_sort: as the list was sorted before, the new       *)
(* function ends up behind those of its module.                            *)
Insert(list, f) ==
  LET after == {i \in DOMAIN list : ModuleLess(ModuleOf[f], ModuleOf[list[i]])}
  IN Selected(list, DOMAIN list \ after) \o <<f>> \o Selected(list, after)

Without(list, F) == Selected(list, {i \in DOMAIN list : list[i] \notin F})

(* Mutant: the slot is erased at once. *)
EraseSlot(e, f) == Without(hooks[e], {f})

(* RemoveFunction: a slot that an activation may be at is not erased.      *)
VacateSlot(e, f) ==
  IF IsTriggering(e)
  THEN [i \in DOMAIN hooks[e] |->
          IF hooks[e][i] = f THEN NoFunction ELSE hooks[e][i]]
  ELSE Without(hooks[e], {f})

-----------------------------------------------------------------------------
(* What scripts and the host do, between triggers and in the functions     *)
(* that triggers call.                                                     *)

Top == Head(stack)

(* The innermost activation is at the top of its loop. *)
Iterating == stack # <<>> /\ Top.running = NoFunction

ScriptRuns == ~Iterating

(* A script creates a delegate. *)
MakeDelegate(f) ==
  /\ ScriptRuns
  /\ f \in Delegate /\ refs[f] = 0
  /\ refs' = [refs EXCEPT ![f] = 1]
  /\ owned' = [owned EXCEPT ![f] = TRUE]
  /\ UNCHANGED <<stopMode, hooks, callCount, stack, result>>

(* A script lets go of its handle to a delegate. *)
DropDelegate(f) ==
  /\ ScriptRuns
  /\ f \in Delegate /\ owned[f]
  /\ refs' = [refs EXCEPT ![f] = @ - 1]
  /\ owned' = [owned EXCEPT ![f] = FALSE]
  /\ UNCHANGED <<stopMode, hooks, callCount, stack, result>>

(* Mutant: functions can be hooked during a trigger. *)
MayHookAny(e) == TRUE

MayHook(e) == ~IsTriggering(e)

(* Hook and AddFunction: no effect when the function is hooked already,    *)
(* refused while the event is triggered.                                   *)
Hook(e, f) ==
  /\ ScriptRuns
  /\ owned[f]
  /\ MayHook(e)
  /\ f \notin Hooked(e)
  /\ hooks' = [hooks EXCEPT ![e] = Insert(@, f)]
  /\ refs' = [refs EXCEPT ![f] = @ + 1]
  /\ UNCHANGED <<stopMode, callCount, stack, owned, result>>

(* Unhook and RemoveFunction. *)
Unhook(e, f) ==
  /\ ScriptRuns
  /\ owned[f]
  /\ f \in Hooked(e)
  /\ hooks' = [hooks EXCEPT ![e] = VacateSlot(e, f)]
  /\ refs' = [refs EXCEPT ![f] = @ - 1]
  /\ UNCHANGED <<stopMode, callCount, stack, owned, result>>

(* The events of a bulk operation: those that are triggered refuse it. *)
Clearable == {e \in Event : ~IsTriggering(e)}

Hooking(f) == {e \in Event : f \in Hooked(e)}

(* UnhookModuleFunctions: RemoveFunctionsOfModule of every event. *)
UnhookModuleFunctions(m) ==
  LET ofModule == {f \in Function : ModuleOf[f] = m} IN
  /\ ScriptRuns
  /\ "module" \in Bulk
  /\ hooks' = [e \in Event |->
                 IF e \in Clearable THEN Without(hooks[e], ofModule)
                 ELSE hooks[e]]
  /\ refs' = [f \in Function |->
                IF f \in ofModule
                THEN refs[f] - Cardinality(Hooking(f) \cap Clearable)
                ELSE refs[f]]
  /\ UNCHANGED <<stopMode, callCount, stack, owned, result>>

(* References released with a slot by RemoveAllFunctions: a delegate is    *)
(* released twice.                                                         *)
ReleasedWith(f) == IF f \in Delegate THEN 2 ELSE 1

(* UnhookAllFunctions: RemoveAllFunctions of every event. *)
UnhookAllFunctions ==
  /\ ScriptRuns
  /\ "all" \in Bulk
  /\ hooks' = [e \in Event |-> IF e \in Clearable THEN <<>> ELSE hooks[e]]
  /\ refs' = [f \in Function |->
                refs[f] - ReleasedWith(f) * Cardinality(Hooking(f) \cap Clearable)]
  /\ UNCHANGED <<stopMode, callCount, stack, owned, result>>

(* Entering CASEventCaller::VCall. *)
Trigger(e) ==
  LET new == [event |-> e, index |-> 1, running |-> NoFunction,
              code |-> "continue", ok |-> TRUE, lastModule |-> NoModule,
              calls |-> 0, called |-> {}, handler |-> NoModule]
      caller == IF stack = <<>> THEN <<>>
                ELSE <<[Top EXCEPT !.calls = @ + 1]>> \o Tail(stack)
  IN
  /\ ScriptRuns
  /\ Len(stack) < MaxDepth
  /\ stack # <<>> => Top.calls < MaxCalls
  /\ callCount' = [callCount EXCEPT ![e] = @ + 1]
  /\ stack' = <<new>> \o caller
  /\ UNCHANGED <<stopMode, hooks, refs, owned, result>>

-----------------------------------------------------------------------------
(* CallEvent: the loop over the slots.                                     *)

AtSlot == Iterating /\ Top.index <= Len(hooks[Top.event])

Slot == hooks[Top.event][Top.index]

(* Mutant: the event stops at once, the module is not looked at. *)
HandledAlready(f) ==
  stopMode[Top.event] = "moduleHandled" /\ Top.code = "handled"

(* The functions of the module that handled the event have been called. *)
ModuleDone(f) ==
  /\ stopMode[Top.event] = "moduleHandled"
  /\ Top.code = "handled"
  /\ Top.lastModule # NoModule
  /\ Top.lastModule # ScriptModule(f)

(* Mutant: null slots stay. *)
ClearNever(e) == hooks[e]

(* Mutant: null slots are erased as soon as an activation ends. *)
ClearAlways(e) == Without(hooks[e], {NoFunction})

(* ClearRemovedHooks: only the outermost activation erases null slots. *)
ClearRemovedHooks(e) ==
  IF callCount'[e] # 0 THEN hooks[e] ELSE Without(hooks[e], {NoFunction})

(* CallEvent returns the result of activation a. *)
End(a) ==
  /\ callCount' = [callCount EXCEPT ![a.event] = @ - 1]
  /\ hooks' = [hooks EXCEPT ![a.event] = ClearRemovedHooks(a.event)]
  /\ stack' = Tail(stack)
  /\ result' = IF ~a.ok THEN "failed"
               ELSE IF a.code = "handled" THEN "handled" ELSE "noneHandled"

(* Mutant: the loop stays where it is. *)
SameIndex == Top.index

NextIndex == Top.index + 1

(* Removed in a hook call, skip. *)
SkipSlot ==
  /\ AtSlot /\ Slot = NoFunction
  /\ stack' = <<[Top EXCEPT !.index = NextIndex]>> \o Tail(stack)
  /\ UNCHANGED <<stopMode, hooks, callCount, refs, owned, result>>

(* Mutant: the function is not kept alive while it runs. *)
NotKept(f) == refs

(* The activation's own reference to the function it calls. *)
Kept(f) == [refs EXCEPT ![f] = @ + 1]

CallSlot ==
  /\ AtSlot /\ Slot # NoFunction
  /\ ~ModuleDone(Slot)
  /\ refs' = Kept(Slot)
  /\ stack' = <<[Top EXCEPT !.running = Slot, !.calls = 0,
                            !.lastModule = ScriptModule(Slot),
                            !.called = @ \cup {Slot}]>> \o Tail(stack)
  /\ UNCHANGED <<stopMode, hooks, callCount, owned, result>>

(* The loop ran off the list, or stops at a function of another module.    *)
(* The vector is measured on every iteration.                              *)
EndLoop ==
  /\ Iterating
  /\ \/ Top.index > Len(hooks[Top.event])
     \/ AtSlot /\ Slot # NoFunction /\ ModuleDone(Slot)
  /\ End(Top)
  /\ UNCHANGED <<stopMode, refs, owned>>

(* Mutant: the return code is that of the last function. *)
LastCode(success, code) == IF success THEN code ELSE Top.code

(* Once HANDLED was returned, return codes are not read any more. *)
NewCode(success, code) ==
  IF success /\ Top.code = "continue" THEN code ELSE Top.code

(* The running function returned code, or its execution failed. *)
Return(success, code) ==
  LET returned == [Top EXCEPT !.running = NoFunction, !.calls = 0,
                              !.ok = success /\ @,
                              !.code = NewCode(success, code),
                              !.handler = IF Top.code = "continue" /\ success
                                             /\ code = "handled"
                                          THEN ModuleOf[Top.running] ELSE @]
  IN
  /\ stack # <<>> /\ Top.running # NoFunction
  /\ refs' = [refs EXCEPT ![Top.running] = @ - 1]
  /\ \/ /\ returned.code = "handled" /\ stopMode[Top.event] = "onHandled"
        /\ End(returned)
     \/ /\ returned.code # "handled" \/ stopMode[Top.event] # "onHandled"
        /\ stack' = <<[returned EXCEPT !.index = NextIndex]>> \o Tail(stack)
        /\ UNCHANGED <<hooks, callCount, result>>
  /\ UNCHANGED <<stopMode, owned>>

-----------------------------------------------------------------------------

(* The slots an activation has passed, in a list the functions it has not. *)
Past(a) == IF a.running = NoFunction THEN a.index - 1 ELSE a.index

Left(a, list) == {list[i] : i \in {j \in DOMAIN list : j > Past(a)}} \ {NoFunction}

Script ==
  \/ \E f \in Function : MakeDelegate(f) \/ DropDelegate(f)
  \/ \E e \in Event, f \in Function : Hook(e, f) \/ Unhook(e, f)
  \/ \E m \in Module : UnhookModuleFunctions(m)
  \/ UnhookAllFunctions
  \/ \E e \in Event : Trigger(e)

CallEvent ==
  \/ SkipSlot \/ CallSlot \/ EndLoop
  \/ \E success \in BOOLEAN, code \in {"continue", "handled"} :
       Return(success, code)

Next == Script \/ CallEvent

Spec == Init /\ [][Next]_vars

(* CallEvent runs on the host's thread until it returns, and so do the     *)
(* functions it calls.                                                     *)
FairSpec == Spec /\ WF_vars(CallEvent)

-----------------------------------------------------------------------------
(* Properties.                                                             *)

(* Type invariant: the ranges of the variables. *)
TypeOK ==
  /\ stopMode \in [Event -> StopModes]
  /\ hooks \in [Event -> Seq(Function \cup {NoFunction})]
  /\ callCount \in [Event -> Nat]
  /\ stack \in Seq(Activation)
  /\ refs \in [Function -> Nat]
  /\ owned \in [Function -> BOOLEAN]
  /\ result \in {"none", "failed", "handled", "noneHandled"}

(* The functions hooked to an event are sorted by module, each is there    *)
(* once, and outside triggers no slot is empty: what the comparison in     *)
(* AddFunction and the loop in RemoveAllFunctions rely on.                 *)
ListsInOrder ==
  \A e \in Event :
    /\ ~IsTriggering(e) => NoFunction \notin Range(hooks[e])
    /\ \A i, j \in DOMAIN hooks[e] :
         LET f == hooks[e][i]  g == hooks[e][j] IN
         i < j /\ f # NoFunction /\ g # NoFunction =>
           f # g /\ ~ModuleLess(ModuleOf[g], ModuleOf[f])

(* Every activation calls each hooked function once: behind its index are  *)
(* only functions it called and empty slots, and it called none of those   *)
(* to come.  Whatever is hooked, unhooked or triggered meanwhile, no slot  *)
(* moves under an activation.                                              *)
EachHookOnce ==
  \A k \in DOMAIN stack :
    LET a == stack[k]
        list == hooks[a.event]
    IN
    /\ Past(a) <= Len(list)
    /\ \A i \in DOMAIN list :
         list[i] # NoFunction => (list[i] \in a.called <=> i <= Past(a))

(* Activations, seen without slots. *)
Seen(a, lists) ==
  [event |-> a.event, left |-> Left(a, lists[a.event]), running |-> a.running,
   ok |-> a.ok, handler |-> a.handler]

View(activations, lists) ==
  [k \in DOMAIN activations |-> Seen(activations[k], lists)]

Abstract ==
  INSTANCE Triggers WITH
    hooked <- [e \in Event |-> Hooked(e)],
    triggers <- View(stack, hooks)

(* Without delegates: every trigger calls, module by module, the functions *)
(* hooked when it started and not unhooked before their turn, once, and    *)
(* stops where its mode says and nowhere else.                             *)
Implements == Abstract!Spec

(* The references to a function are those of its owner, of the events it   *)
(* is hooked to and of the activations that run it: no function is deleted *)
(* while one of them has it, none is kept after the last let go.           *)
RefsBalanced ==
  \A f \in Function :
    refs[f] = (IF owned[f] THEN 1 ELSE 0)
              + Cardinality(Hooking(f))
              + Cardinality({k \in DOMAIN stack : stack[k].running = f})

(* "If any function in a module has handled the event, stop after          *)
(* executing the last function in that module": no function of another     *)
(* module is called after that.                                            *)
StopsWithModule ==
  \A k \in DOMAIN stack :
    LET a == stack[k] IN
    stopMode[a.event] = "moduleHandled" /\ a.handler # NoModule
      /\ a.running # NoFunction
    => ModuleOf[a.running] = a.handler

(* And it stops no sooner: it leaves out no function of that module.       *)
ModuleCompletes ==
  [][EndLoop /\ Top.handler # NoModule =>
       \A f \in Hooked(Top.event) :
         ModuleOf[f] = Top.handler => f \in Top.called]_vars

(* Every trigger ends: empty slots, nested triggers and functions that     *)
(* unhook themselves do not keep the loop from its end.                    *)
TriggerEnds == stack # <<>> ~> stack = <<>>
=============================================================================
