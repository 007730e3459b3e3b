-------------------------------- MODULE Calls -------------------------------
(***************************************************************************)
(* Calls of script functions from C++: argument lists (CASArguments),      *)
(* contexts (CASContext, CASOwningContext), the call itself                *)
(* (as::CallFunction) and its return value (ctx::GetReturnValue).          *)
(*                                                                         *)
(* A call is a frame of `stack`.  Arguments are set one at a time; then    *)
(* script code runs, which may call the library again, in another context  *)
(* or in one that is busy, and change argument lists.  Objects are counted *)
(* by whoever refers to them: scripts and the host (held), lists, the      *)
(* stored return value, and contexts.                                      *)
(*                                                                         *)
(* A host that does what the code has no defence against makes a slip;     *)
(* memory that is read where nothing is, or through a pointer to what was  *)
(* released, is a fault that ends the behaviour.                           *)
(***************************************************************************)
EXTENDS Values, Sequences, FiniteSets

CONSTANTS
  Object,     \* cells for script objects, with Class
  Class,      \* what lives in each: "object", "value", "function" or "delegate"
  Made,       \* the objects that the host has at first
  Function,   \* script functions, in the order that FindFunction sees them
  Params,     \* of each function: a sequence of [type, byRef]
  Returns,    \* of each function: the type it returns
  Passed,     \* the sequences of types that scripts pass to generic functions
  Numbers,    \* of each type: numbers of that type, as integers
  Context,    \* cells for contexts
  OwnContext, \* the one the host keeps and uses as a CASContext
  List,       \* argument lists
  MaxDepth,   \* bound: calls in progress
  MaxCalls    \* bound: operations of a behaviour

Functions == {Function[k] : k \in DOMAIN Function}

ASSUME CellsAssumption ==
  /\ IsFiniteSet(Object) /\ Null \notin Object /\ Garbage \notin Object
  /\ Class \in [Object -> {"object", "value", "function", "delegate"}]
  /\ Made \subseteq Object
  /\ IsFiniteSet(Context) /\ OwnContext \in Context
  /\ IsFiniteSet(List) /\ Null \notin List
(* Functions are passed by handle; handles by reference are left out.      *)
ParamTypes ==
  {p \in [type : TypeIds \ {"function"}, byRef : BOOLEAN] : IsHandle(p.type) => ~p.byRef}

ASSUME SignatureAssumption ==
  /\ Function \in Seq(Functions) /\ Null \notin Functions
  /\ \A f \in Functions :
       /\ Params[f] \in Seq(ParamTypes)
       /\ Returns[f] \in Scalars \cup {"void", "value", "object@"}
  /\ \A types \in Passed : types \in Seq(TypeIds \cup {"opaque"})
ASSUME NumbersAssumption ==
  /\ Numbers \in [Scalars -> SUBSET Int]
  /\ \A t \in Scalars :
       Member(t) \in IntMembers => Numbers[t] \subseteq 0..(Span[Member(t)] - 1)

VARIABLES
  refs,     \* references to each object; 0 when the cell is free
  held,     \* objects that scripts or the host have a handle to
  list,     \* the arguments of each CASArguments
  ctx,      \* the contexts
  stack,    \* calls in progress, innermost first
  got,      \* a CASArgument that GetReturnValue fills
  want,     \* ghost: what the function had returned
  fault,    \* what undefined behaviour occurred
  slip,     \* ghost: what the host did that has no defence
  calls     \* operations so far

vars == <<refs, held, list, ctx, stack, got, want, fault, slip, calls>>

Pointer(o) == [member |-> "pValue", data |-> o]

NoArgument == [type |-> "none", kind |-> "NONE", val |-> Pointer(Null)]

Argument(t, v) == [type |-> t, kind |-> ArgumentTypeFromTypeId(t), val |-> v]

Unset == [data |-> Garbage, own |-> Null, from |-> Null]

NoContext == [state |-> "none", slots |-> <<>>, ret |-> Null, own |-> Null, fn |-> Null]

Init ==
  /\ refs = [o \in Object |-> IF o \in Made THEN 1 ELSE 0]
  /\ held = Made
  /\ list = [l \in List |-> <<>>]
  /\ ctx = [c \in Context |->
              IF c = OwnContext THEN [NoContext EXCEPT !.state = "idle"] ELSE NoContext]
  /\ stack = <<>>
  /\ got = NoArgument /\ want = NoArgument
  /\ fault = "none" /\ slip = "none" /\ calls = 0

-----------------------------------------------------------------------------
(* References.                                                             *)

(* What an argument refers to.                                             *)
Holds(arg) == IF arg.kind \in {"REF", "VALUE"} THEN arg.val.data ELSE Null

Held(args) == [k \in DOMAIN args |-> Holds(args[k])]

(* Mutant: a context releases what its caller passed, not the copy it made. *)
OwnedSource(slots) ==
  [k \in DOMAIN slots |->
     IF slots[k].data \in Object THEN slots[k].data ELSE Null]

Owned(slots) == [k \in DOMAIN slots |-> slots[k].own]

Times(s, o) == Cardinality({k \in DOMAIN s : s[k] = o})

(* References are added to the objects of one sequence and released of     *)
(* those of another; null is none.  Freed objects must not be touched.     *)
Counted(added, released) ==
  IF \E o \in Object : \/ Times(added, o) > 0 /\ refs[o] = 0 /\ Class[o] # "value"
                       \/ Times(released, o) > refs[o] + Times(added, o)
  THEN fault' = "dead" /\ refs' = refs
  ELSE /\ refs' = [o \in Object |-> refs[o] + Times(added, o) - Times(released, o)]
       /\ UNCHANGED fault

(* Set with bCopy: what the copy of an argument holds, a reference of its  *)
(* own or a copy of a value, and Set without: what it is given.            *)
Copied(arg) ==
  IF arg.kind = "VALUE" /\ arg.val.data # Null
  THEN {o \in Object : Class[o] = "value" /\ refs[o] = 0}
  ELSE {Holds(arg)}

(* Copies of all arguments, each value in a cell of its own.               *)
Copies(args) ==
  {s \in [DOMAIN args -> Object \cup {Null}] :
     /\ \A k \in DOMAIN args : s[k] \in Copied(args[k])
     /\ \A k, l \in DOMAIN args :
          k # l /\ s[k] # Null /\ Class[s[k]] = "value" => s[k] # s[l]}

Holding(args, s) ==
  [k \in DOMAIN args |->
     IF args[k].kind \in {"REF", "VALUE"} THEN [args[k] EXCEPT !.val = Pointer(s[k])]
     ELSE args[k]]

-----------------------------------------------------------------------------
(* Control.                                                                *)

(* The host or a script acts, in all actions with Acting: no C++ of the    *)
(* library is in progress.                                                 *)
Acts ==
  /\ fault = "none" /\ calls < MaxCalls
  /\ stack # <<>> => Head(stack).pc = "running"

Top == Head(stack)

Acting == calls' = calls + 1

(* The first slip of a behaviour is the only kind it makes: a bound.       *)
Slips(what) == slip \in {"none", what} /\ slip' = what

SlipsIf(what, cond) == IF cond THEN Slips(what) ELSE UNCHANGED slip

(* A call in progress has the address of an argument of the list.          *)
InUse(l) ==
  \E k \in DOMAIN stack : \E i \in DOMAIN ctx[stack[k].ctx].slots :
    ctx[stack[k].ctx].slots[i].from = l

(* An object that is passed by reference: of a list, or of the caller.     *)
Lend(o, l) == [data |-> o, own |-> Null, from |-> l]

Lent(o) ==
  \E k \in DOMAIN stack : \E i \in DOMAIN ctx[stack[k].ctx].slots :
    ctx[stack[k].ctx].slots[i] = Lend(o, Null)

-----------------------------------------------------------------------------
(* Argument lists.                                                         *)

(* What may be passed as an argument of a type: numbers, live objects that *)
(* the caller has, null.                                                   *)
Values(t) ==
  CASE t \in {"object", "object@"} -> {o \in held : Class[o] = "object"} \cup {Null}
    [] t \in {"function", "function@"} ->
         {o \in held : Class[o] \in {"function", "delegate"}} \cup {Null}
    [] t = "value" -> {o \in held : Class[o] = "value"}
    [] t = "opaque" -> {Null}
    [] OTHER -> Numbers[t]

Choices(types) ==
  {s \in [DOMAIN types -> UNION {Values(types[k]) : k \in DOMAIN types}] :
     \A k \in DOMAIN types : s[k] \in Values(types[k])}

(* SetObjectArgument: a null function is asked for its kind, and what a    *)
(* delegate points at is taken for another pointer.                        *)
ArgumentFault(t, x) ==
  IF Pointee(t) # "function" THEN "none"
  ELSE IF x = Null THEN "null" ELSE IF Class[x] = "delegate" THEN "wild" ELSE "none"

(* SetArgument takes a reference, without the handle flag, or a copy.  An  *)
(* unknown type is refused and the list that was there stays.              *)
SetArguments(l, types, xs) ==
  LET n    == Len(types)
      args == [k \in 1..n |->
                 IF IsObject(types[k])
                 THEN Argument(Pointee(types[k]), Pointer(xs[k]))
                 ELSE Argument(types[k], Loaded(types[k], xs[k]))]
      bad  == {k \in 1..n : ArgumentFault(types[k], xs[k]) # "none"}
      none == \E k \in 1..n : types[k] = "opaque"
  IN
  /\ Acting
  /\ types \in Passed
  /\ xs \in Choices(types)
  /\ IF bad # {}
     THEN /\ Slips("function")
          /\ fault' = ArgumentFault(types[CHOOSE k \in bad : TRUE],
                                    xs[CHOOSE k \in bad : TRUE])
          /\ UNCHANGED <<refs, list>>
     ELSE IF none THEN UNCHANGED <<refs, list, fault, slip>>
     ELSE /\ SlipsIf("busy list", InUse(l))
          /\ \E s \in Copies(args) :
               /\ list' = [list EXCEPT ![l] = Holding(args, s)]
               /\ Counted(s, Held(list[l]))
  /\ UNCHANGED <<held, ctx, stack, got, want>>

(* SetArguments from varargs, for the parameters of a function: the type   *)
(* keeps its handle flag.  GetTypeInfoById of a primitive type or enum is  *)
(* null, and its flags are read all the same.                              *)
SetArgumentsFor(l, f, xs) ==
  LET types == [k \in DOMAIN Params[f] |-> Params[f][k].type]
      args  == [k \in DOMAIN types |-> Argument(types[k], Pointer(xs[k]))]
  IN
  /\ Acting
  /\ xs \in Choices(types)
  /\ IF \E k \in DOMAIN types : ~IsObject(types[k])
     THEN Slips("primitive") /\ fault' = "null" /\ UNCHANGED <<refs, list>>
     ELSE /\ SlipsIf("busy list", InUse(l))
          /\ \E s \in Copies(args) :
               /\ list' = [list EXCEPT ![l] = Holding(args, s)]
               /\ Counted(s, Held(list[l]))
  /\ UNCHANGED <<held, ctx, stack, got, want>>

(* Assign, the copy constructor and operator=; Clear.                      *)
Assign(l, m) ==
  /\ Acting
  /\ l # m
  /\ SlipsIf("busy list", InUse(l))
  /\ \E s \in Copies(list[m]) :
       /\ list' = [list EXCEPT ![l] = Holding(list[m], s)]
       /\ Counted(s, Held(list[l]))
  /\ UNCHANGED <<held, ctx, stack, got, want>>

Clear(l) ==
  /\ Acting
  /\ list[l] # <<>>
  /\ SlipsIf("busy list", InUse(l))
  /\ list' = [list EXCEPT ![l] = <<>>]
  /\ Counted(<<>>, Held(list[l]))
  /\ UNCHANGED <<held, ctx, stack, got, want>>

-----------------------------------------------------------------------------
(* Contexts.                                                               *)

(* What a context has references to.                                       *)
Keeps(c) == Append(Owned(ctx[c].slots), ctx[c].own)

(* Mutant: a context that runs can be prepared for another call.           *)
BusySuspended(c) == ctx[c].state = "suspended"

Busy(c) == ctx[c].state \in {"active", "suspended"}

Cleaned(c) == [ctx EXCEPT ![c] = [NoContext EXCEPT !.state = "idle"]]

(* Mutant: the context is returned with what it holds.                     *)
FreedHolding(c) == [ctx EXCEPT ![c].state = "none"]

(* The destructor of CASOwningContext: Unprepare is refused while the      *)
(* context is suspended; ReturnContext lets go of it all the same.         *)
Freed(c) == [ctx EXCEPT ![c] = NoContext]

(* CASOwningContext of an engine, for a caller that wants what the call    *)
(* returns.                                                                *)
RequestContext(c) ==
  /\ Acting
  /\ ctx[c].state = "none"
  /\ ctx' = Cleaned(c)
  /\ UNCHANGED <<refs, held, list, stack, got, want, fault, slip>>

ReleaseContext(c) ==
  /\ Acting
  /\ c # OwnContext /\ ctx[c].state # "none"
  /\ \A k \in DOMAIN stack : stack[k].ctx # c
  /\ ctx' = Freed(c)
  /\ Counted(<<>>, Keeps(c))
  /\ UNCHANGED <<held, list, stack, got, want, slip>>

-----------------------------------------------------------------------------
(* A call.                                                                 *)

Frame(c, f, args, src, temp, found) ==
  [ctx |-> c, fn |-> f, args |-> args, src |-> src, temp |-> temp,
   found |-> found, i |-> 0, pc |-> "args"]

(* CallFunction: Prepare lets go of what the last call left; it fails for  *)
(* a context that runs or is suspended.  A list must have as many          *)
(* arguments as the function has parameters.                               *)
Prepare(fr) ==
  LET c == fr.ctx
      start == IF Len(fr.args) = Len(Params[fr.fn]) THEN "args" ELSE "failed"
  IN
  /\ Len(stack) < MaxDepth
  /\ IF Busy(c)
     THEN /\ stack' = <<[fr EXCEPT !.pc = "failed"]>> \o stack
          /\ UNCHANGED <<refs, ctx, fault>>
     ELSE /\ stack' = <<[fr EXCEPT !.pc = start]>> \o stack
          /\ ctx' = [ctx EXCEPT ![c] =
                       [state |-> "prepared", ret |-> Null, own |-> Null, fn |-> fr.fn,
                        slots |-> [k \in DOMAIN Params[fr.fn] |-> Unset]]]
          /\ Counted(<<>>, Keeps(c))

(* In a context of the caller, or in one requested for the call.           *)
Chosen(c, temp) == IF temp THEN ctx[c].state = "none" ELSE ctx[c].state # "none"

(* as::CallArgs; stored handles are dereferenced again.                    *)
CallArgs(c, f, l, temp) ==
  /\ Acting
  /\ Chosen(c, temp)
  /\ SlipsIf("stored handle", \E k \in DOMAIN list[l] : IsHandle(list[l][k].type))
  /\ Prepare(Frame(c, f, list[l], l, temp, FALSE))
  /\ UNCHANGED <<held, list, got, want>>

(* as::Call: the caller passes what the function takes, by value, or the   *)
(* address of a variable.                                                  *)
Call(c, f, xs, temp) ==
  LET types == [k \in DOMAIN Params[f] |-> Params[f][k].type] IN
  /\ Acting
  /\ Chosen(c, temp)
  /\ xs \in Choices(types)
  /\ SlipsIf("enum address", \E k \in DOMAIN types : IsEnum(types[k]) /\ Params[f][k].byRef)
  /\ Prepare(Frame(c, f,
       [k \in DOMAIN types |->
          Argument(Pointee(types[k]),
                   IF IsObject(types[k]) THEN Pointer(xs[k]) ELSE Loaded(types[k], xs[k]))],
       Null, temp, FALSE))
  /\ UNCHANGED <<held, list, got, want>>

(* Mutant: FindFunction compares kinds of types only.                      *)
TakesKind(param, arg) == arg.kind = ArgumentTypeFromTypeId(param.type)

(* FindFunction: the parameter takes the argument, as it is or, for an     *)
(* enum, converted.  The flag of handles is not compared.                  *)
Takes(param, arg) ==
  LET kind == ArgumentTypeFromTypeId(param.type) IN
  /\ arg.kind = kind \/ (arg.kind = "ENUM" /\ kind = "PRIMITIVE")
  /\ \/ Pointee(arg.type) = Pointee(param.type)
     \/ EnumConverts(arg.type, param.type)

Matches(f, args) ==
  Len(Params[f]) = Len(args) /\ \A k \in DOMAIN args : Takes(Params[f][k], args[k])

(* as::CallArgs of the first function that FindFunction accepts.           *)
CallFound(c, l, temp) ==
  LET fits == {k \in DOMAIN Function : Matches(Function[k], list[l])} IN
  /\ Acting
  /\ Chosen(c, temp)
  /\ fits # {}
  /\ SlipsIf("stored handle", \E k \in DOMAIN list[l] : IsHandle(list[l][k].type))
  /\ Prepare(Frame(c, Function[CHOOSE k \in fits : \A m \in fits : k <= m],
                   list[l], l, temp, TRUE))
  /\ UNCHANGED <<held, list, got, want>>

-----------------------------------------------------------------------------
(* SetContextArgument.                                                     *)

(* The next parameter and its argument.                                    *)
Param == Params[Top.fn][Top.i + 1]

Arg == Top.args[Top.i + 1]

Source == Arg.val.data

(* The argument is set, or is not, and the next one follows.               *)
Sets(slot) ==
  /\ ctx' = [ctx EXCEPT ![Top.ctx].slots[Top.i + 1] = slot]
  /\ stack' = <<[Top EXCEPT !.i = @ + 1]>> \o Tail(stack)

Goes == UNCHANGED ctx /\ stack' = <<[Top EXCEPT !.i = @ + 1]>> \o Tail(stack)

Refused == UNCHANGED ctx /\ stack' = <<[Top EXCEPT !.pc = "failed"]>> \o Tail(stack)

Setting ==
  /\ fault = "none" /\ stack # <<>>
  /\ Top.pc = "args" /\ Top.i < Len(Params[Top.fn])
  /\ UNCHANGED <<held, list, got, want, calls>>

Crashes(what) == fault' = what /\ UNCHANGED <<refs, ctx, stack>>

(* There is no cast to the type of the parameter.                          *)
Incompatible == Source # Null /\ Pointee(Arg.type) # Pointee(Param.type)

(* A parameter that is a handle: the context adds a reference.  A cast of  *)
(* an object that gives null succeeds, so an object of another type is     *)
(* passed; its AddRef is asked as that of the type of the parameter.       *)
SetHandle ==
  /\ Setting
  /\ IsHandle(Param.type)
  /\ IF IsHandle(Arg.type)
     THEN Crashes(IF Source = Null THEN "null" ELSE "wild") /\ UNCHANGED slip
     ELSE IF ~IsObject(Arg.type) THEN Refused /\ UNCHANGED <<refs, fault, slip>>
     ELSE IF Param.type = "function@"
     THEN IF Source = Null \/ Class[Source] # "function"
          THEN /\ Slips("function")
               /\ \/ Crashes(IF Source = Null THEN "null" ELSE "wild")
                  \/ /\ Source # Null /\ Class[Source] = "delegate"
                     /\ Sets([data |-> Source, own |-> Source, from |-> Null])
                     /\ Counted(<<Source>>, <<>>)
          ELSE /\ UNCHANGED slip
               /\ \/ Refused /\ UNCHANGED <<refs, fault>>
                  \/ /\ Sets([data |-> Source, own |-> Source, from |-> Null])
                     /\ Counted(<<Source>>, <<>>)
     ELSE /\ SlipsIf("wrong type", Incompatible)
          /\ \/ Incompatible /\ Crashes("wild")
             \/ /\ Sets([data |-> Source, own |-> Source, from |-> Null])
                /\ Counted(<<Source>>, <<>>)

(* A parameter that is an object: one of the same type is set, as it is    *)
(* for a reference, as a copy by value; any other is left out, without     *)
(* failure.                                                                *)
SetObject ==
  /\ Setting
  /\ IsObject(Param.type) /\ ~IsHandle(Param.type)
  /\ IF Arg.type # Param.type THEN Goes /\ UNCHANGED refs
     ELSE IF Param.byRef THEN Sets(Lend(Source, Top.src)) /\ UNCHANGED refs
     ELSE IF Source = Null THEN Sets(Lend(Null, Null)) /\ UNCHANGED refs
     ELSE \E o \in Object :
            /\ refs[o] = 0 /\ Class[o] = Class[Source]
            /\ refs' = [refs EXCEPT ![o] = 1]
            /\ Sets([data |-> Source, own |-> o, from |-> Null])
  /\ UNCHANGED <<fault, slip>>

(* A primitive parameter or an enum taken by reference gets the address of *)
(* the argument, whatever its type, in the list or of the caller.  For an  *)
(* enum the caller's address has been read as a dword.                     *)
SetReference ==
  /\ Setting
  /\ ~IsObject(Param.type) /\ Param.byRef
  /\ IF IsEnum(Param.type) /\ ~(IsPrimitive(Arg.type) \/ IsEnum(Arg.type))
     THEN Refused /\ UNCHANGED fault
     ELSE IF IsEnum(Param.type) /\ Top.src = Null
     THEN Crashes("wild")
     ELSE /\ Sets([data |-> Read(Arg.val, Member(Param.type)), own |-> Null,
                   from |-> Top.src])
          /\ UNCHANGED fault
  /\ UNCHANGED <<refs, slip>>

(* By value: the argument must be of the same type, except for an enum,    *)
(* but is set before that is found.                                        *)
SetNumber ==
  /\ Setting
  /\ ~IsObject(Param.type) /\ ~Param.byRef
  /\ IF ~(IsPrimitive(Arg.type) \/ IsEnum(Arg.type)) THEN Refused
     ELSE LET slot == [data |-> Cast(Param.type, Arg.type, Arg.val), own |-> Null,
                       from |-> Null] IN
          IF IsEnum(Param.type) \/ Param.type = Arg.type THEN Sets(slot)
          ELSE /\ ctx' = [ctx EXCEPT ![Top.ctx].slots[Top.i + 1] = slot]
               /\ stack' = <<[Top EXCEPT !.pc = "failed"]>> \o Tail(stack)
  /\ UNCHANGED <<refs, fault, slip>>

-----------------------------------------------------------------------------
(* Execute, and what comes after.                                          *)

Execute ==
  /\ fault = "none" /\ stack # <<>>
  /\ Top.pc = "args" /\ Top.i = Len(Params[Top.fn])
  /\ stack' = <<[Top EXCEPT !.pc = "running"]>> \o Tail(stack)
  /\ ctx' = [ctx EXCEPT ![Top.ctx].state = "active"]
  /\ UNCHANGED <<refs, held, list, got, want, fault, slip, calls>>

(* The function reads a parameter by an address that leads to nothing: an  *)
(* argument that is gone, or an object.                                    *)
Dangles(p, slot) ==
  IF IsObject(p.type) THEN p.byRef /\ slot.data \in Object /\ refs[slot.data] = 0
  ELSE slot.from # Null /\ Top.args # list[slot.from]

ReadArgument ==
  /\ fault = "none" /\ stack # <<>> /\ Top.pc = "running"
  /\ \E k \in DOMAIN Params[Top.fn] :
       Dangles(Params[Top.fn][k], ctx[Top.ctx].slots[k])
  /\ fault' = "dangling"
  /\ UNCHANGED <<refs, held, list, ctx, stack, got, want, slip, calls>>

(* What the function got: a copy, or what was passed.                      *)
Given(slot) == IF slot.own = Null THEN slot.data ELSE slot.own

(* What a function may return: an object the script has or got, or null.   *)
Results(f) ==
  CASE Returns[f] = "void" -> {Null}
    [] Returns[f] = "object@" ->
         {o \in held : Class[o] = "object"} \cup {Null}
           \cup {o \in Object : refs[o] > 0 /\ Class[o] = "object"
                                /\ \E k \in DOMAIN ctx[Top.ctx].slots :
                                     Given(ctx[Top.ctx].slots[k]) = o}
    [] Returns[f] = "value" -> {o \in Object : Class[o] = "value" /\ refs[o] = 0}
    [] OTHER -> Numbers[Returns[f]]

(* The function returns: what it took is released, what it returns kept.   *)
Finishes(x) ==
  LET c == Top.ctx  own == IF IsObject(Returns[Top.fn]) THEN x ELSE Null IN
  /\ fault = "none" /\ stack # <<>> /\ Top.pc = "running"
  /\ x \in Results(Top.fn)
  /\ ctx' = [ctx EXCEPT ![c] = [state |-> "finished", slots |-> <<>>, ret |-> x,
                                own |-> own, fn |-> Top.fn]]
  /\ Counted(<<own>>, Owned(ctx[c].slots))
  /\ stack' = <<[Top EXCEPT !.pc = "done"]>> \o Tail(stack)
  /\ UNCHANGED <<held, list, got, want, slip, calls>>

(* It raises an exception, is aborted, or suspends itself.                 *)
Stops(how) ==
  /\ fault = "none" /\ stack # <<>> /\ Top.pc = "running"
  /\ ctx' = [ctx EXCEPT ![Top.ctx].state = how]
  /\ stack' = <<[Top EXCEPT !.pc = "done"]>> \o Tail(stack)
  /\ UNCHANGED <<refs, held, list, got, want, fault, slip, calls>>

(* CallFunction returns; a context requested for the call is let go of.    *)
CallReturns ==
  /\ fault = "none" /\ stack # <<>> /\ Top.pc \in {"done", "failed"}
  /\ stack' = Tail(stack)
  /\ IF Top.temp /\ ctx[Top.ctx].state # "none"
     THEN ctx' = Freed(Top.ctx) /\ Counted(<<>>, Keeps(Top.ctx))
     ELSE UNCHANGED <<ctx, refs, fault>>
  /\ UNCHANGED <<held, list, got, want, slip, calls>>

-----------------------------------------------------------------------------
(* Return values.  A context that has not finished returns null and zero.  *)

Returned(c) ==
  LET t == Returns[ctx[c].fn]
      x == IF ctx[c].state = "finished" THEN ctx[c].ret
           ELSE IF t = "void" \/ IsObject(t) THEN Null ELSE 0
  IN Argument(t, IF t = "void" \/ IsObject(t) THEN Pointer(x) ELSE Loaded(t, x))

(* GetReturnValue to a CASArgument, which takes a copy or a reference.     *)
GetReturnValue(c) ==
  /\ Acting
  /\ ctx[c].fn # Null /\ ctx[c].state \in {"finished", "exception", "suspended"}
  /\ \E o \in Copied(Returned(c)) :
       /\ got' = IF IsObject(Returned(c).type)
                 THEN [Returned(c) EXCEPT !.val = Pointer(o)] ELSE Returned(c)
       /\ Counted(<<o>>, <<Holds(got)>>)
  /\ want' = [Returned(c) EXCEPT !.val.data = IF ctx[c].state = "finished"
                                              THEN ctx[c].ret ELSE @]
  /\ UNCHANGED <<held, list, ctx, stack, slip>>

(* GetReturnValue to a variable, of which a careful caller makes a handle  *)
(* at once; an object is assigned by a call in the same context, whose     *)
(* Prepare destroys it unless PushState has saved the state.               *)
GetReturnObject(c) ==
  /\ Acting
  /\ ctx[c].state = "finished"
  /\ \/ /\ Returns[ctx[c].fn] = "object@"
        /\ ctx[c].ret \notin held \cup {Null}
        /\ held' = held \cup {ctx[c].ret}
        /\ Counted(<<ctx[c].ret>>, <<>>)
        /\ UNCHANGED <<ctx, slip>>
     \/ /\ Returns[ctx[c].fn] = "value"
        /\ Slips("value to a variable")
        /\ \/ UNCHANGED <<refs, ctx, fault>>
           \/ fault' = "dead" /\ UNCHANGED <<refs, ctx>>
        /\ UNCHANGED held
  /\ UNCHANGED <<list, stack, got, want>>

-----------------------------------------------------------------------------
(* Handles of scripts and the host.                                        *)

NewObject(o) ==
  /\ Acting
  /\ Class[o] \in {"object", "value"} /\ refs[o] = 0
  /\ refs' = [refs EXCEPT ![o] = 1] /\ held' = held \cup {o}
  /\ UNCHANGED <<list, ctx, stack, got, want, fault, slip>>

(* A careful caller keeps what it has lent to a call.                      *)
DropHandle(o) ==
  /\ Acting
  /\ o \in held
  /\ SlipsIf("lent object", Lent(o))
  /\ held' = held \ {o}
  /\ Counted(<<>>, <<o>>)
  /\ UNCHANGED <<list, ctx, stack, got, want>>

-----------------------------------------------------------------------------
TypesOf(f) == [k \in DOMAIN Params[f] |-> Params[f][k].type]

Lists ==
  \E l \in List :
    \/ Clear(l)
    \/ \E m \in List : Assign(l, m)
    \/ \E types \in Passed : \E xs \in Choices(types) : SetArguments(l, types, xs)
    \/ \E f \in Functions : \E xs \in Choices(TypesOf(f)) : SetArgumentsFor(l, f, xs)

Calling ==
  \E c \in Context, temp \in BOOLEAN :
    \/ \E f \in Functions, l \in List : CallArgs(c, f, l, temp)
    \/ \E f \in Functions : \E xs \in Choices(TypesOf(f)) : Call(c, f, xs, temp)
    \/ \E l \in List : CallFound(c, l, temp)

Host ==
  \/ Lists \/ Calling
  \/ \E c \in Context :
       RequestContext(c) \/ ReleaseContext(c) \/ GetReturnValue(c) \/ GetReturnObject(c)
  \/ \E o \in Object : NewObject(o) \/ DropHandle(o)

InCall ==
  \/ SetHandle \/ SetObject \/ SetReference \/ SetNumber
  \/ Execute \/ ReadArgument \/ CallReturns
  \/ \E x \in Results(Top.fn) : Finishes(x)
  \/ \E how \in {"exception", "suspended"} : Stops(how)

Next == (Acts /\ Host) \/ (stack # <<>> /\ InCall)

Spec == Init /\ [][Next]_vars

-----------------------------------------------------------------------------
(* Properties.                                                             *)

(* Where the sequences of a family have an object.                         *)
Places(all, o) == UNION {{i} \X {k \in DOMAIN all[i] : all[i][k] = o} : i \in DOMAIN all}

(* Every object has as many references as handles, arguments, the stored   *)
(* return value and contexts have to it, when a call is refused half way,  *)
(* raises an exception or is suspended, too.                               *)
RefsBalanced ==
  \A o \in Object :
    refs[o] = (IF o \in held THEN 1 ELSE 0) + (IF Holds(got) = o THEN 1 ELSE 0)
                + Cardinality(Places([l \in List |-> Held(list[l])], o))
                + Cardinality(Places([c \in Context |-> Keeps(c)], o))

(* What a parameter is set to of its argument, after a slip or none.       *)
Gets(p, a, s, cause) ==
  \/ Pointee(a.type) = Pointee(p.type) /\ s.data = a.val.data
  \/ IsHandle(p.type) /\ s.data = a.val.data /\ (s.data = Null \/ cause = "wrong type")
  \/ a.type # p.type /\ (p.byRef \/ IsEnum(p.type))
  \/ a.type # p.type /\ IsObject(p.type) /\ ~IsHandle(p.type) /\ s = Unset

(* A function runs with what its caller passed, through a list and its     *)
(* copies or not, and what it returns is what the caller gets.  Arguments  *)
(* of another type get through for references, which are not checked, and  *)
(* enums, and leave the parameter unset when it is an object; null is null *)
(* to any handle, and an object of another type gets to one after the slip *)
(* "wrong type" only.  A context is active exactly while a call runs in it. *)
Delivered ==
  /\ \A c \in Context :
       ctx[c].state = "active" <=> \E k \in DOMAIN stack :
                                    stack[k].ctx = c /\ stack[k].pc = "running"
  /\ \A k \in DOMAIN stack : stack[k].pc = "running" =>
       \A i \in DOMAIN Params[stack[k].fn] :
         Gets(Params[stack[k].fn][i], stack[k].args[i], ctx[stack[k].ctx].slots[i],
              slip)
  /\ got.type = want.type
  /\ got.kind # "VALUE" => got.val.data = want.val.data

(* Without a slip of the host, no call reads memory where nothing is.      *)
FaultHasCause == fault # "none" => slip # "none"

(* A function that FindFunction finds for some arguments takes them, but   *)
(* for enums and their like, which the call does not convert.              *)
FoundIsCallable ==
  \A k \in DOMAIN stack : stack[k].found /\ stack[k].pc = "failed" =>
    \/ Busy(stack[k].ctx)
    \/ \E i \in DOMAIN stack[k].args :
         LET t == stack[k].args[i].type IN
         IsEnum(t) \/ t = "int32" \/ t = "function"
=============================================================================
