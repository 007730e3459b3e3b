------------------------------ MODULE Triggers ------------------------------
(***************************************************************************)
(* What events promise, without lists and slots: a set of functions is     *)
(* hooked to each event.  A trigger calls each function that was hooked    *)
(* when it started, module by module and once, unless it is unhooked       *)
(* before its turn; the stop mode says when it may end sooner.  While a    *)
(* function runs, it hooks and unhooks functions and triggers events.      *)
(***************************************************************************)
EXTENDS Sequences, Integers

CONSTANTS Event, Function, Module, ModuleOf, Rank, NoModule, NoFunction

VARIABLES
  stopMode,
  hooked,      \* the functions hooked to each event
  triggers,    \* the triggers that have not ended, the innermost first
  result       \* what the last trigger that ended returned

vars == <<stopMode, hooked, triggers, result>>

Init ==
  /\ stopMode \in [Event -> {"callAll", "moduleHandled", "onHandled"}]
  /\ hooked = [e \in Event |-> {}]
  /\ triggers = <<>>
  /\ result = "none"

Top == Head(triggers)

ScriptRuns == triggers # <<>> => Top.running # NoFunction

Triggered(e) == \E k \in DOMAIN triggers : triggers[k].event = e

-----------------------------------------------------------------------------
(* What scripts and the host do.  An event that is triggered takes no new  *)
(* function and loses none to a bulk operation.                            *)

Hook(e, f) ==
  /\ ScriptRuns
  /\ ~Triggered(e)
  /\ hooked' = [hooked EXCEPT ![e] = @ \cup {f}]
  /\ UNCHANGED <<stopMode, triggers, result>>

(* No trigger calls a function any more that was unhooked.                 *)
Unhook(e, f) ==
  /\ ScriptRuns
  /\ hooked' = [hooked EXCEPT ![e] = @ \ {f}]
  /\ triggers' = [k \in DOMAIN triggers |->
                    IF triggers[k].event = e
                    THEN [triggers[k] EXCEPT !.left = @ \ {f}]
                    ELSE triggers[k]]
  /\ UNCHANGED <<stopMode, result>>

UnhookAll(F) ==
  /\ ScriptRuns
  /\ hooked' = [e \in Event |-> IF Triggered(e) THEN hooked[e] ELSE hooked[e] \ F]
  /\ UNCHANGED <<stopMode, triggers, result>>

Trigger(e) ==
  /\ ScriptRuns
  /\ triggers' = <<[event |-> e, left |-> hooked[e], running |-> NoFunction,
                    ok |-> TRUE, handler |-> NoModule]>> \o triggers
  /\ UNCHANGED <<stopMode, hooked, result>>

-----------------------------------------------------------------------------
(* A trigger.                                                              *)

Choosing == triggers # <<>> /\ Top.running = NoFunction

(* All functions of the module that handled the event have been called.    *)
Enough(a) ==
  /\ stopMode[a.event] = "moduleHandled" /\ a.handler # NoModule
  /\ \A f \in a.left : ModuleOf[f] # a.handler

(* Modules take their turns by rank.                                       *)
Call(f) ==
  /\ Choosing
  /\ f \in Top.left /\ ~Enough(Top)
  /\ \A g \in Top.left : Rank[ModuleOf[f]] <= Rank[ModuleOf[g]]
  /\ triggers' = <<[event |-> Top.event, left |-> Top.left \ {f}, running |-> f,
                    ok |-> Top.ok, handler |-> Top.handler]>> \o Tail(triggers)
  /\ UNCHANGED <<stopMode, hooked, result>>

Ends(a) ==
  /\ triggers' = Tail(triggers)
  /\ result' = IF ~a.ok THEN "failed"
               ELSE IF a.handler # NoModule THEN "handled" ELSE "noneHandled"

(* The running function succeeds or fails, and handles the event or not;   *)
(* the first that does counts.                                             *)
Return(success, handles) ==
  LET first == Top.handler = NoModule /\ success /\ handles
      a == [event |-> Top.event, left |-> Top.left, running |-> NoFunction,
            ok |-> success /\ Top.ok,
            handler |-> IF first THEN ModuleOf[Top.running] ELSE Top.handler]
      stops == stopMode[a.event] = "onHandled" /\ a.handler # NoModule
  IN
  /\ triggers # <<>> /\ Top.running # NoFunction
  /\ \/ stops /\ Ends(a)
     \/ ~stops /\ triggers' = <<a>> \o Tail(triggers) /\ UNCHANGED result
  /\ UNCHANGED <<stopMode, hooked>>

End ==
  /\ Choosing
  /\ Top.left = {} \/ Enough(Top)
  /\ Ends(Top)
  /\ UNCHANGED <<stopMode, hooked>>

-----------------------------------------------------------------------------
Next ==
  \/ \E e \in Event, f \in Function : Hook(e, f) \/ Unhook(e, f)
  \/ \E m \in Module : UnhookAll({f \in Function : ModuleOf[f] = m})
  \/ UnhookAll(Function)
  \/ \E e \in Event : Trigger(e)
  \/ \E f \in Function : Call(f)
  \/ \E success \in BOOLEAN, handles \in BOOLEAN : Return(success, handles)
  \/ End

Spec == Init /\ [][Next]_vars
=============================================================================
