# AngelscriptUtils: verification

TLA+ models of AngelscriptUtils, a C++ library that wraps the AngelScript engine
for games: modules of script code, timers, events that scripts hook, the glue
between C++ values and script values, and the add-ons it is used with. Paths are
relative to `src/src/AngelscriptUtils/` unless they start with another directory;
`add-on` stands for `src/src/AngelscriptUtilsTest/add_on/`.

The library is single threaded; reference counts of modules are atomic because
the engine may be used across threads, but nothing else is. What makes it hard is
**re-entrancy**: C++ walks a list, compares elements or assigns a pointer, script
code runs in the middle of it (a timer's function, a hooked function, a comparison,
the destructor of an object whose last reference went), and the script calls back
into the very object that is being worked on. Every model here has one action per
stretch of C++ between two entries into script code, and while script code runs
every operation that scripts have is possible.

## Inventory

| Component | State | Operations | Interacts with | Module |
|---|---|---|---|---|
| Scheduler (`ScriptAPI/CASScheduler`) | two intrusive lists of timers, current timer, two flags, time of the last Think; per timer: references, removed flag, call time, repeat time and count | SetTimeout, SetInterval, RemoveTimer, GetCurrentFunction, Think, ClearTimerList, AdjustTime; setters of a timer | owned by a module; calls script functions, which call all of its operations | `Scheduler` |
| Event, event caller (`event/CASBaseEvent`, `CASEvent`, `CASEventCaller`) | vector of hooked functions, call count | Hook, Unhook, AddFunction, RemoveFunction, RemoveFunctionsOfModule, RemoveAllFunctions, VCall, CallEvent | calls script functions, which hook, unhook and trigger | `Events` |
| Event manager (`event/CASEventManager`) | list of events, namespace | lookup by name or index under an access mask, hook and unhook by name, bulk unhook, registration | events; module manager and manager | `Host`, bulk unhook in `Events` and `Modules` |
| Module, module manager (`CASModule`, `CASModuleManager`) | descriptors by name, identifier counter, sorted list of modules; per module: references, script module, user data, scheduler | AddDescriptor, BuildModule, RemoveModule, Clear, Discard | unhooks from the event manager, clears the scheduler; the script builder | `Modules` |
| Manager (`CASManager`) | engine, event manager, module manager; the active manager (global) | Initialize, Shutdown, Activate, Deactivate | owns the above; callbacks of the host | `Host` |
| Arguments (`wrapper/CASArguments`) | typed values, some of which own an object | Set, Reset, Assign, Clear, SetArguments | the engine of the active manager | `Values`, `Calls`; ownership across managers in `Host` |
| Contexts and callables (`wrapper/CASContext`, `ASCallable.h`, `util/ContextUtils`) | a context, its arguments and the object it keeps | prepare, set arguments, execute, read the result, FindFunction | the engine; scripts that call again | `Calls` |
| Smart pointers, result handler (`util/CASRefPtr.h`, `CASObjPtr.h`, `ASUtil.h`, `IASContextResultHandler.h`) | a pointer | construct, assign, copy, move, reset, release; casts | reference counts; destructors of script objects | `Pointers`, abstractly `Ownership` |
| Script builder (`add_on/scriptbuilder`) | included files, defined words, declarations found, metadata | StartNewModule, AddSection, Include, Build, the lookups | the file system, the host's include callback | `Builder` |
| Script array (`add-on/scriptarray`) | a buffer, its length and capacity | resize, insert, remove, assign, sort, find, compare | constructors, destructors and comparisons of its elements | `Arrays` |
| Script dictionary, any (`add-on/scriptdictionary`, `scriptany`) | values of any type by key; one value | Set, Get, Delete, DeleteAll, assign, Store, Retrieve | the garbage collector, destructors of what they hold | `Dictionary` |
| Reflection, extend adapter, utilities, string add-on, test program | none that other parts read | queries, forwarding, formatting, logging | the engine | none |

What makes each of them correct:

- *Scheduler*: no pointer to a deleted timer is followed and no removed timer is
  called, whatever scripts do in callbacks; no timer is removed without cause; a
  removal that was asked for happens; each Think calls a timer at most once, returns,
  and passes over no due timer.
- *Events*: during a trigger no slot moves; each hooked function is called once per
  activation; the list stays sorted by module, which the stop mode MODULE_HANDLED
  relies on; that mode stops after the module that handled the event and no sooner;
  references balance; triggers end.
- *Event manager*: lookup finds the event the name means and honours the access mask.
- *Modules*: the list is sorted, user data is released once, no event and no lookup
  reaches a discarded or deleted module, no failed build leaves a script module behind.
- *Manager*: an engine lives as long as its managers, and nothing points at one that is
  gone, destructors that run during the shutdown included.
- *Arguments, calls*: a function gets what was passed and the caller what was returned;
  whatever was set is released once, when a call is refused half way too.
- *Pointers*: an object lives until its last owner lets go of it, and no longer.
- *Builder*: a file is added once and no included file is left out; exactly what is
  excluded is excluded; metadata is found with what it stood before.
- *Arrays, dictionaries*: one release per reference, a sort that loses no element,
  insertion that moves each element once, no access to memory that is gone.

## Careless calls

The code has no guard against some of what hosts and scripts can do: remove the timer
next to the executing one, remove a module by name while its functions are hooked, hook
a function from the destructor of a global of a module that is being removed, change an
array in the comparison function of its own sort, insert into a dictionary from the
destructor of what it is being emptied of, pass a handle an object of another type,
let go of an object that was lent to a call. The models have these
calls, do with them what the code does (a fault ends the behaviour where that is
undefined), and remember in a ghost variable that one was made: `made` (Modules),
`reentered` (Arrays), `slip` (Calls), `careless` (Pointers, Host, Dictionary), and
`Misuse` is a constant of Scheduler. Properties promise nothing after such a call, and
`FaultHasCause` says that there is no other way to a fault. To keep the state space
small a behaviour makes one kind of careless call; in Pointers, Host and Dictionary it
ends with the first one. Where the code or its documentation promises the guard that is missing, the call is
listed in the last section but one.

## Modules

### Scheduler.tla

Pointers are modelled as pointers. `Timer` is the set of memory cells; `next`,
`refs`, `removed`, `timing` are the fields of `CScheduledFunction`; a cell with no
references is free and the allocator hands out any free cell, so a dangling pointer
may come to point at a new timer. Following a pointer into free memory, or calling
the null function of a removed timer, sets `fault` and ends the behaviour.

`head`, `thinkHead`, `current`, `thinking`, `shouldRemove`, `lastTime` are the
scheduler's fields; `pc`, `pLast`, `pNext`, `pNextNext` the locals of `Think`.
`Think` (`CASScheduler.cpp:291-388`) is the actions `ThinkStart`, then per timer
`RemoveExhausted`, `Skip` or `Call` and `CallReturn`, then `ThinkEnd` with the merge
of the two lists. While `pc` is `"idle"` or `"calling"` scripts run: `Schedule`,
`RemoveTimer`, `GetCurrentFunction`, `ClearTimerList`, the setters, `DropHandle`. A
script's handle is `held`; `UseStaleHandle` is the fault of using one that outlived
its timer. `Misuse` is the set of calls that the walk does not survive or that have no
effect: `"neighbour"`, `"clear"` (ClearTimerList inside Think), `"fresh"` (remove a
timer of the think list). `called` and `requested` are ghosts.

### Timers.tla

What a scheduler promises, without lists and pointers: the set of timers scheduled
(`listed`), those scheduled since Think started (`fresh`), those Think has still to take
(`pending`), the one that runs. A timer is taken once per Think, in any order, called if
it is due, dropped if its calls are used up; it leaves for no other reason than that, a
removal that was asked for, or a clear; and Think does not end before all are taken.
`Scheduler` implements it (`Timed`, `Implements`): `listed` and `fresh` are what is
reached from `head` and `thinkHead`, `pending` what is ahead of the walk (`Ahead`).

### Events.tla

`hooks` is the vector of each event, `callCount` its in-call counter, `stack` the
activations of `CallEvent`, innermost first, each with the locals of the loop
(index, return code, last module, success) and the function it runs. `refs` counts
references of functions; global functions are owned by their module, delegates by
scripts that may drop them at any time (`owned`). `CallEvent` is the actions
`SkipSlot`, `CallSlot`, `Return`, `EndLoop`; in between, the running function may
hook, unhook, use the bulk operations and trigger events (`Trigger`), the same one
too. `std::stable_sort` and the erasure of slots are `Selected`, the elements at a set
of places in the order of the list. The assertions against bulk operations during a
trigger are compiled out, as in a release build; the operations are refused, as the
code does then. `Return(FALSE, _)` stands for every failure to prepare or execute a
hook.

### Triggers.tla

What events promise, without vectors and slots: a set of functions for each event, and
for each trigger that has not ended the set of those it has `left` to call. A function
that is unhooked is left to no trigger; modules take their turns by rank; a trigger ends
when nothing is left or, by its stop mode, when a function, or all of a module, handled
it, and not sooner. `Events` implements it (`Abstract`, `Implements`): what is left to
an activation are the functions in the slots it has not passed (`Left`); skipping an
empty slot, erasing slots and counting references are no steps of Triggers.

### Modules.tla

The manager is `ids` and `nextId` (its descriptors by name) and `modules` (its sorted
list); `refs`, `script`, `descriptor` and `userData` are the fields of the
`CASModule` in each memory cell; `named` and `owner` are the engine's side, the script
module each name has and the `CASModule` each script module points back at. `hooked`
is all that this module needs of events: which script modules have a function there.
`BuildModuleInternal` is the actions `StartBuild` (up to the builder's callbacks),
then `BuildFails`, or `Compiled` and `PostBuildRefuses` or `PostBuildAccepts` (with
AddModule); in between, where the builder's callbacks run, every other operation can
happen. A removal is several actions, too: `RemoveModule` unhooks the functions and
enters Discard, where the destructors of the script module's globals run and may hook
and unhook functions (`AddFunction`, `RemoveFunction`; scripts also run them while a
module is compiled, before there is a CASModule for it); `DiscardReturns` releases the
module. `Clear` does the same for one listed module after another (`ClearNext`,
`DiscardReturns`, `ClearEnds`). `Leaving` are the modules that a removal has still to
release. CASModule::Discard by the host is one step, since what its destructors hook is
what could as well be hooked just before it. Host functions that scripts call and that
call the manager in the middle of a removal are left out.
FindModuleByName changes nothing: its search is `SearchFault`. BuildModule with
a descriptor that is not registered creates nothing and releases the user data it was
given: a step that changes nothing. Careless calls: a build under the name of a listed
module, a PostBuild that refuses, removal by name of a module that is hooked, Clear
while something refers to modules or descriptors, Discard, and of scripts the hooking of
a function before its module was made (`"early"`) or while it is removed (`"late"`).
Each property names the
calls that break it, and each name in those lists is needed.

### Pointers.tla and Ownership.tla

`Pointers` is `CASRefPtr` over `as::SetRefPointer`, `CASObjPtr` over
`as::SetObjPointer` and the result handler of a context. `ptr` is what each pointer
points at, `refs` the counts; `loose` counts the references that somebody has outside
of pointers, `leaked` those that nobody has (a failed cast keeps one). An assignment
releases the old object before it stores the new one; if that was the last reference a
destructor runs, which the model shows as `at[p]`, the assignment in progress, and
`stack`. `DestructorReturns` is the rest of the assignment.

`Ownership` has no counts: an object is in `live` from its creation to the step in
which its last owner lets go of it. `Pointers` implements it with `live` as the
objects with references, `own` as what pointers own (nothing while the destructor of
what they owned runs) and `loose` as the references outside of pointers, leaked ones
included (`Owning`, `Implements`).

### Values.tla and Calls.tla

`Values` has type ids, `ArgumentValue`, a union whose members are read whatever was
written, and the conversions between them. Integer members have a width (`Span`); a
wider member reads the same number since the constructor clears the union, and what is
read of another member is `Garbage`.

`Calls` has `list` (the arguments of each `CASArguments`), `ctx` (contexts: state,
the arguments set so far, the object and function they keep), `stack` (calls in
progress, each with its place in the arguments), and `got` (the argument that
GetReturnValue fills). `Call`, `CallArgs` and `CallFound` prepare; then arguments are set
one at a time (`SetHandle`, `SetObject`, `SetReference`, `SetNumber`), each set or refused, `Execute` runs the function, which may call again, in this context
or another, change lists and drop handles, read its arguments (`ReadArgument`) and
`Finishes` with a value or `Stops` with an exception or suspended. A frame found by
`FindFunction` is marked `found`.

An object that is passed by value is copied (`SetObject`: the context owns the copy);
by reference the function gets the object itself, the list's own or the caller's
(`Lend`), and `ReadArgument` is the fault of reading it after it was released. A list
has copies of its own of the values set in it. The objects in `Made` are those the host
has at first, so that few operations lead to a call that has set an object and then
refuses the next argument. Slips: a null function or a delegate where a function is
expected, a list changed while a call has addresses of its arguments, a handle stored
in a list with its handle flag, the address of an enum, varargs for a primitive type,
an object of another type for a handle (`"wrong type"`), a return value read into a
variable in the same context, an object let go of while it is lent. Handles by reference
are left out.

### Arrays.tla

`buf` and `cap` are the buffer of each array; sizes and indices are words that wrap at
`Word` (2^32 in the program), as do the sums and products that RemoveRange and
CheckMaxSize make of them. A walk over a buffer is a frame of `stack` with its locals:
Sort, Find, operator==, CopyBuffer, Destruct. It stops at each call of script code
(comparison, opEquals, opAssign, destructor), where scripts use the same arrays. Memory
read or written outside of the elements is a fault. A constructor of an element may
fail, which leaves null in the rest of the new slots (`Constructed`).

### Dictionary.tla

A slot is what holds a value: a node of a dictionary's map, or an any. `val` is the
value of each, `refs` and `held` count references to objects and containers,
`typeRefs` those that anys have to types. What C++ has still to do is `stack`, frames
such as `free`, `store`, `erase`, `walk`, `clear`: an operation pushes its frames and
a destructor runs as a frame of its own. The map is a hash map: a walk goes through its
nodes in any order, and a node that is made during a walk may be ahead of it or behind
it and may have the others placed anew (`Placed`); making one there, or setting a value
behind the loop, is careless (`Past`). The collector has a reference to each
container, and `Collect` and `Sweep` are what it does to garbage.

### Host.tla

`Initialize` is an action up to its first callback; `OnInitBeginReturns`,
`RegisterCoreAPIReturns`, `AddEventsReturns`, `RegisterAPIReturns` and `CallbackFails`
go on from there, `Shutdown` and `ShutdownCompletes` are the shutdown with the
destructors of script objects between them. `progress` is what is going on, innermost
first. `FindEventByName` takes a name apart by position as the code does; names are
sequences of symbols, one of which is `"::"`. `argument` and `objects` are argument
lists, which release their values by the manager that is active.

### Builder.tla

A script is a sequence of tokens; comments and white space are left out, and what the
builder overwrites with spaces is a token of its own. `Conditioned` is the first pass
(`#if`, `#endif`), `Parsed` the second one (metadata, includes, classes, namespaces,
statements, declarations), both recursions over the tokens that carry the locals of the
loops. A declaration starts at any first keyword, the bracket of a second metadata
string included (`ExtractDeclaration`); a bracket inside a function body stays and is an
index expression. `Compiles` says what of the result the compiler refuses that `Build`
depends on: metadata left where no expression is, and two declarations of one name in
one scope; names that are used need not be declared. What interleaves is modelled by actions: a section's includes are added in the
order they stand in it (`NextInclude`), each adds a section with includes of its own, and the host's
callback adds sections, ignores the include or refuses (`Include`, `CallbackAdds`,
`CallbackIgnores`, `CallbackRefuses`, `SectionReturns`, `ErrorReturns`). `Build`
attaches metadata. The properties compare with definitions that read a script
differently: what a token's position says of the braces and directives around it.

### MC modules

`XMC` gives the constants of `X` values. Configurations use symmetry where no temporal
property with fairness is checked.

## Runs

| Run | Instance | Shows |
|---|---|---|
| SchedulerSafe | 3 timers, no misuse, delays -1..0, counts -2..1, call times 0 and 1, 3 references | `NoFault`, `RefsCover`, `FlagIsForCurrent`, `RemoveTimerRemoves`: no walk follows a dangling pointer, removals asked for happen and hit nobody else; `Implements`: the refinement of `Timers` |
| SchedulerMisuse | 2 timers, every misuse, 4 references | `RemovedForCause`: nothing is removed without cause, even then |
| SchedulerLive | 2 timers, 3 references, delays -1..1, clock 0..1 and wound back by 1 | `ThinkReturns`, `DueIsCalled` |
| EventsSafe | 1 event of any stop mode, 3 functions of 2 modules, both bulk operations, triggers 3 deep | `ListsInOrder`, `EachHookOnce`, `StopsWithModule`, `TriggerEnds`, and `Implements`: the refinement of `Triggers` |
| EventsShared | 2 events, a function and a delegate, triggers 2 deep | `RefsBalanced` across events, with delegates dropped while hooked or running |
| ModulesSafe | 2 names, 3 descriptors (2 of one priority, identifiers wrap at 3), 2 modules, 3 script modules, 1 user data, any one kind of careless call, removals with destructors that hook | `RefsBalanced`, `UserDataOwned`, `ListInOrder`, `ScriptsOwned`, `HooksOwned`, `FaultHasCause` |
| PointersSafe | 3 objects, 2 CASRefPtr, 2 CASObjPtr, a result handler, destructors 2 deep | `RefsBalanced`, `NoFault`, and `Implements`: the refinement of `Ownership` |
| CallsSafe | 7 objects, 4 of which exist at first, 11 signatures, 2 contexts, 2 lists, integers of 2, 4, 8 and 16 values, calls 2 deep, 3 operations | `RefsBalanced`, `Delivered`, `FaultHasCause`, `FoundIsCallable` |
| HostSafe | 2 managers, 3 events with and without category, 2 argument lists, 2 engines, callbacks 2 deep | `NothingDangles`, `RefsBalanced`, `FoundByName` |
| BuilderSafe | 4 files in 2 directories with 10 contents besides that of a missing file, a section from memory, cyclic includes, 2 words, 2 modules | `Parses`, `Complete`, `AttachedToOwn` |
| ArraysSafe | arrays of up to 4 and 1 elements in words of 8 values, 2 objects, walks 2 deep | `RefsBalanced`, `SortsElements`, `FaultHasCause`, `InsertsWhole` |
| DictionarySafe | 2 dictionaries of 2 and 1 keys, an any, 2 objects, destructors 1 deep, 2 handles | `RefsBalanced`, `FaultHasCause` |

**Bounds.** Three timers are a predecessor, the timer that executes and a
successor, or two in the main list and one in the think list: every relation the
walk distinguishes. Counts reach below the refused -1 and include 0, 1 and
infinite; delays include the refused -1, due at once and due later. `MaxRefs` stops
a script from collecting references (each RemoveTimer leaks one); it leaves room for
the executing timer to remove itself while a script holds it, which takes three. The clock stands
still in the safety runs: whether a timer is due is decided by `Times` and delays.
Three activations give an outermost, a middle and an innermost one, so that slots
are vacated under two outer indices. `MaxCalls` bounds what one function triggers in a
call, and in Calls and Arrays what happens in all. Two modules can be listed, or one
listed and one being built or kept by the host; the third script module is the one
built in place of a live one, and cells of both kinds are used again. Three objects
are the old one, the new one and one that a destructor brings in, and two nested
destructors are one that interrupts an assignment made by another. The eleven signatures have a parameter of every kind
(numbers of each width, handle, object by value and by reference, enum, function), and
two of them a second parameter that refuses what it is given after an object was set.
Words of eight values with a header of two make every sum and product of sizes that
wraps in the program wrap, with arrays that are longer than one step of a sort and
shorter than a word. Two engines are one and its successor, or those of two managers
at a time. Two dictionaries make cycles of length one and two, with and without the
any in them.

**Deadlock** is checked in SchedulerSafe, SchedulerLive and the runs of Events. In the
others a fault, a careless call or a bound ends the behaviour.

**Fairness.** `WF_vars(Think)`: Think is a loop on the host's thread, each script
function returns (AngelScript aborts on exceptions and the host may set a line
callback), and the host calls Think every frame. `WF_vars(CallEvent)`: the same for
the loop over hooks. Nothing is assumed of the other actions of scripts. The events
a trigger nests are bounded by `MaxDepth` and `MaxCalls`: a hook that triggers its
own event without end is a script's infinite recursion, which the engine stops, not
the library. The other modules have no liveness property: their walks are bounded
loops, and what could keep one from ending (`GetAbsolutePath`) is a finding.

## Proofs

**`SchedulerProofs.tla`**, for any number of timers:

- `TypeCorrect`: the type invariant, whatever the misuse.
- `MemorySafe`: under `Disciplined` (no neighbour removal, no clear during Think)
  `NoFault`, `RefsCover`, `ListsHoldTimers` and `LastIsTail` always hold. The last two,
  that the lists hold the scheduled timers and that pLast is the tail when Think
  merges, are parts of the argument that no run checks by name.
- `FlagHolds`, `RemovalHasCause`: `FlagIsForCurrent` and `RemovedForCause` under the
  same discipline.
- `RequestedIsRemoved`: `RemoveTimerRemoves` if moreover no fresh timer is removed.
- `CallsOnce`: under the same discipline one Think calls no timer twice, nor one that
  was scheduled meanwhile (`CalledOncePerThink`, which no run checks by name, as the
  refinement implies it); `ReferencesCover`: `RefsCover` by itself.
- `Refinement`: under the same discipline `Scheduler` implements `Timers`.

The argument is the inductive invariant `SafeInv`. `NoFault` needs that the walk's
locals point into the main list (`WalkInStep`) and that every timer there is alive
(`RefsCover` with `ListsHoldTimers`); that unlinking a timer takes exactly it out of
its list needs that one pointer leads to each timer (`OneWayIn`). What a list
contains is the least set closed under links (`ReachIn`), so each change of links
is a lemma about least sets (`ReachUnlink`, `ReachBehead`, `ReachPush`, `ReachJoin`,
`ReachSame`), and that a list ends (`ListEnds`) is by counting: following links
within a finite set without repetition. There is one lemma per action.
`CallsOnce` rests on what is ahead of the walk (`Ahead`): no step adds a timer to it
(`AheadShrinks`), and a list with one way in to each timer does not come back to the one
that is called (`NoCycle`).
`Refinement` needs more of the same: besides the timer the walk is at, what is ahead of it is what is
ahead of its successor (`BehindWalk`, `AheadSingle`, `AheadGoesOn`), so that `pending`
loses one timer at a time, and unlinking a timer takes that one, and no other, out of
what is ahead (`AheadUnlinks`). There is one lemma for each action, which says which
action of `Timers` it is, or that it is none: a handle that is dropped, or the two steps
in which Think moves on.

**`EventsProofs.tla`**, for any number of events, functions, modules and nested
triggers:

- `InOrder`, `OnceEach`: `ListsInOrder` and `EachHookOnce`, with delegates too.
- `ModuleStops`, `ModuleIsCompleted`: `StopsWithModule` and `ModuleCompletes` if there
  are no delegates, for which MODULE_HANDLED does not work. `ModuleCompletes` is what a
  step that ends the loop may not do; the run checks it as part of the refinement.
- `Refinement`: if there are no delegates, `Events` implements `Triggers`.
- `ReferencesBalance` and, from it, `TypeCorrect` (counts are natural numbers): under
  `ReleasedOnce`, that RemoveAllFunctions is not used where there are delegates, which
  it releases twice.

The inductive invariant `Inv` says that `callCount` is the number of activations on the
stack (`Counted`), that lists are sorted, and full while nobody walks them (`Lists`),
and of each activation (`Good`) that it has called what is before its index (`Walk`),
that nothing behind it is of a module that goes before the last one called (`Ahead`), and that
its locals say what the functions answered (`Answers`). `Counted` is needed since the
lists keep their length exactly while the counter is not zero, and an inner
activation must leave the outer ones' walks as they are: a slot that is vacated and a
function that is hooked are lemmas about one activation (`VacatedGood`), cited for all.
`Refinement` rests on `Inv` before and after each step: by `Walk`, what is left of a list
is what was not called (`LeftIsNotCalled`), which depends on the functions of the list and
not on their places, so erasing slots changes no activation's view (`LeftSame`); that
the next function is of the least module that has one left is the order of the list;
and that a loop which stops early has completed its module is `Ahead` with `Answers`.
`Balanced` adds that references are one for the owner, one for each list and one for
each activation that runs the function. What `Selected` returns needs no induction: the
ascending arrangement of a finite set of numbers exists (`CanAscend`, by a least
counterexample) and is unique.

**`ModulesProofs.tla`**, for any number of names, descriptors, modules and script
modules and any careless calls in one behaviour (`ModulesSafe` makes one kind):

- `TypesCorrect`, with at most three references and identifiers that do not wrap;
  `UserDataHasOwner` and `ListStaysInOrder`: `UserDataOwned` and `ListInOrder`. These
  hold whatever the host does.
- `ReferencesBalance`, `ScriptsHaveModules`, `HooksHaveModules`, `FaultsHaveCauses`:
  `RefsBalanced`, `ScriptsOwned`, `HooksOwned` and `FaultHasCause`, each under the care
  that the property names.

A careless call breaks one property and must not break the others, so the invariant
`IInv` says what is left after each: a module deleted under a reference of the host is
`Lost` for good (`Counted`); without a rebuild the script module of a `Current` module,
listed or about to be, leads back to it unless it was discarded (`Linked`), which
needs neither that PostBuild accepts nor that nobody discards; `Covered` and
`Undiscarded` add the rest with those. Between the two halves of a removal `Removing`
says that the module that leaves is still listed and has a script module, and `Hooks`
that, with all the care that `HooksOwned` asks for, hooked functions are of current
modules that are not leaving: they were unhooked, and what a destructor hooks is not of
the module that is removed. So the release finds no function of the module. Steps are
first sorted by what they do to the objects (`StepKinds`): the start of a removal does
nothing to them (`RemovalStartsQuietly`), its end removes one module (`ReturnsRemoves`),
for RemoveModule in both forms and for Clear. Insertion and removal keep the order by the two
lemmas about the list (`ListedWithGrows`, `WithoutShrinks`).

The same module proves, for any files, contents, paths and words:

- `IncludesComplete`: `Complete` of `Builder`.

`Complete` speaks of the moment when the host's call is over. `IncludesInv` says what
holds on the way there: each include that a section has was asked for, or is one that a
frame of that section on the stack has still to come to (`AddedOrAwaited`), and unless
there was a failure or a callback the names taken down are those of sections. It needs
no assumption on what the parser does with the tokens: what `Conditioned`, `Parsed` and
`GetAbsolutePath` return is left open, so the argument is the same for every text. It
does not need `NextInclude` to be the first one either; any order would do.

**`PointersProofs.tla`**, for any number of objects, pointers and nested destructors:

- `TypeCorrect`; `Balanced` and `Safe`: `RefsBalanced` and `NoFault`.
- `Refinement`: `Spec => Implements`.

The invariant counts the pointers that own an object (`Balance`); what an assignment in
progress is about to store is alive, and the reference it takes over is still there
(`Frames`, `Sound`); no two assignments use the same pointer or reference (`Apart`);
and `Stacked`, the interrupted pointers are those on the stack, once each. An assignment has two halves with a
destructor between them, which may be empty; `EndingGood` and `EndingStep` prove the
second half once for both cases. Each step of `Pointers` is then a step of `Ownership`
(`PointStep`, `TakeStep`, `MoveStep`, and one lemma per operation), where `Survival`
gives that the objects that are gone are those without an owner.

**`HostProofs.tla`**, for any number of managers, events, argument lists and engines
and callbacks nested to any depth:

- `NothingEverDangles` and `EnginesBalance`: `NothingDangles` and `RefsBalanced`.
- `EventsFoundByName`: `FoundByName`, from `NamesAssumption`: a name is one identifier
  and no category contains the events' namespace. The code checks neither; an event
  with such a category is not found. It holds whoever is careless.

The invariant `Sound` is what careful hosts keep. That the shutdown leaves nothing
behind is the hard step (`ShutdownCompletesKeeps`): the manager whose modules are
cleared is still active, nothing but invocations of events runs within and none around
it, and the host has no object of its engine (`Cleared`), so that every event it lists
is emptied; functions of an engine are hooked to events its manager lists only
(`Registered`), and the objects released by the active manager are all of its own
(`Owned`). That each manager has an engine of its own (`OneEngine`) turns the sums of
references into a count (`Counted`). `Begun` says what each step of an initialisation
may rely on.

**`ArraysProofs.tla`**, for any number of arrays and elements, words of any size and
walks one within another to any depth:

- `SortingIsSound`: `SortsElements`, with every order, comparison function and nested use
  of other arrays, until a callback uses an array that is being walked.
- `InsertingIsWhole`: `InsertsWhole`, also of an array into itself, whatever the sizes
  that wrap around.
- `ReferencesBalance`: `RefsBalanced`, and `FaultsHaveCauses`: `FaultHasCause`: until a
  callback uses an array that is being walked, references are exact at every point of
  every walk, and no walk meets a freed buffer, a missing slot or a released element.

What is sorted and inserted follows from `IInv`, which needs no balance of references.
`Sorted` relates a sort's locals
to its array: with `tmp` put back at `j + 2` the part to be sorted has its elements
(`Bag`), and if the comparisons are those of an order, what has been sorted is in
order but for that slot, and `tmp` may go before all that is behind it. Shifting an
element and taking the next one are lemmas about sequences (`Shifted`, `ShiftedOrder`).
`Sorts` adds that a sort is the outermost walk and that no other walk is over its
array, without which a nested operation could store into it (`Buffers`, `WalksKeep`).
Every operation is then one of a few kinds of step: it starts walks, shrinks, replaces or resizes a
buffer (`CallStarts`, `CallShrinks`, `CallReplaces`, `CallResizes`), or a walk goes on
or ends (`WalkGoesOn`, `WalkEnds`).

References and faults need each other: an element is alive because its slot has a
reference, and the slot is there because no walk lost it. `RInv` has both, as `Careful`.
`Steady` is what a walk relies on: its buffer is where it was and as long, and the slot
that a sort has emptied still holds a copy of an element, which is why storing into it
releases nothing. `Apart` is what walks within one another may share: the inner one
stores to no array of the outer one and is over none that loses elements, but for the
destruction that `Assign` puts before its own copy. `Content` is what an array is seen
to have in the middle of a walk. A step changes it for at most one array, and then
references follow (`Changing`, `KeepsCareful`); `Rebalances` and the lemmas about
`Occurrences` and `Places` say what a count gains when one array is spliced, reversed,
shifted or replaced. That the code adds references before it releases any, and to
elements of arrays that are not `Dying`, is where `Replaced` and `CopyStep` find every
element alive (`ElementsAlive`).

**`CallsProofs.tla`**, for any functions and signatures, numbers of any width, argument
lists and contexts, and calls nested to any depth:

- `TypesCorrect`: arguments, in lists and in calls, have the kind and the union member
  of their type, a number in its range or an object that it may point to.
- `ReferencesBalance`: `RefsBalanced`, whatever the host does: a call that is refused
  half way through its arguments, stops, returns a value that nobody reads or runs
  again in its own context keeps every reference accounted for. Up to the step before a
  fault, counts are exact, so a release below zero or of a free cell is a fault of the
  model and not an assumption.
- `CallsDeliver`: `Delivered`; `FaultsHaveCauses`: `FaultHasCause`; `FoundCanBeCalled`:
  `FoundIsCallable`.

`IInv` adds four parts to these properties. `Stacked`: calls that run are in contexts of their own,
all but the innermost run, and a context is active only for one of them; without it
an inner call might be thought to overwrite the arguments of an outer one. `Passing`: a
call has set its first `i` arguments as `Gets` says and no other (`Passes`), the
addresses among them are of its list, which has not changed unless the host made a slip
(`Follows`), an object that was passed by reference is one that the list or the host
still has (`Lends`), what is still to be set is alive (`Sourced`), and a call of what
FindFunction found fails only for the reasons that `FoundIsCallable` lists (`Excused`).
`Returning`: a context that has finished keeps a value of the type its function returns,
and the object it owns is that value (`Kept`); one in any other state owns none.
References are added and released by sequences with repetitions. What an object's count
gains is what one list or one context gains: `ListBalances` and `ContextBalances`
serve every action that counts, the latter with `Exchanges`, which says that a context
before and after a step differs by what was added and released.

**`DictionaryProofs.tla`**, for any dictionaries, anys, keys and objects, and destructors
that use them to any depth:

- `ReferencesBalance`: `RefsBalanced`: the counts of objects, containers and types agree
  with the handles, the collector and the values, at every point of every operation.
- `FaultsHaveCauses`: `FaultHasCause`: no node is used after it was erased, no object
  after it was deleted, and the assertion of the destructor of a value holds, but for a
  careless destructor or a value assigned to itself. A destructor that inserts a node into
a dictionary that is being emptied is careless, wherever the node comes to be.

Neither can be seen from one frame of `stack`: that a `store` finds its slot empty and
in its place holds because the frames before it free that slot and nothing else that
the `store` needs, and because every destructor that runs in between was kept from it.
`DictionaryInvariant` says this of the whole stack. Each frame is `Sound` (what it
relies on wherever it is: its node is there, its source has not changed), the first one
is `Ready` (its slot is empty, its dictionary has no more values than it knows of), each
one `Precedes` the next (it is what makes the next one ready), and any two are `Apart`
(the earlier does not touch what the later relies on). `Vacant` adds that a container
that is gone has no nodes, so that its cell may be used again. All of it, and the
balance, is promised until `careless`. A step takes the first frame away or puts frames
before it, and so does a call, which happens only below a destructor, a frame that
touches nothing (`Moves`, `Comes`); `Sums` and the lemmas about `Count` and `Shifts` say
what a count gains when one slot changes, `Counted` when all the slots of a dictionary
do, as in `operator=`. That balance needs the rest of `IInv`: a value is counted until its
destructor has run, unless it is `Freed`, which is a matter of the stack.

Assumptions: only those of the modules on their constants. For calls these are that
cells and lists are finitely many, that signatures are made of the types of `TypeIds`
(returns of numbers, `void`, a value and a handle), and that `Numbers` gives unsigned types
numbers in their range (`NumbersAssumption`), as a compiler does. For dictionaries they are that
cells and keys are finitely many and that an any has one slot (`KeysAssumption`). For arrays these are that
elements are primitives, handles or objects (`KindsAssumption`), that the mark of a missing buffer is no element and that no object ranks below the null
handle, which a sort puts first (`scriptarray.cpp:996`, Less); among primitives
`Null` is the least of the values.

**Only model-checked.** Liveness (`ThinkReturns`, `DueIsCalled`, `TriggerEnds`) is
beyond the proof system. `Parses` and `AttachedToOwn` of `Builder` have no proof: they
are about what the recursion over tokens and the fold over declarations compute, and
would need induction over data, which the provers cannot instantiate.

## What disagrees with the code's own words

Each of these is described with its lines in `PROJECT.json` under `findings`. The
models have the behaviour; a property that it would break names it as a precondition.

- *Scheduler*: RemoveTimer leaks the reference it is handed when it finds the timer
  (`CASScheduler.cpp:268`, comment at 278), and does not remove timers scheduled in the
  same Think (`CASScheduler.h:265`); after a callback removed the timer before its own,
  pLast is not the last of the list (380); ClearTimerList leaves the think list
  (`CASScheduler.h:282`).
- *Events*: MODULE_HANDLED does not stop after the module of a delegate
  (`CASEvent.h:24-26`); `CASBaseEvent.h:91` forbids RemoveFunction during a trigger,
  which the code supports; RemoveAllFunctions releases delegates twice
  (`CASBaseEvent.cpp:189`).
- *Event manager*: UnhookEvent goes on with a null event (`CASEventManager.cpp:171`); an
  event without a category is not found with the namespace (114); two events of one
  name in different categories cannot both be registered (231).
- *Modules*: a module that PostBuild refuses is deleted without Discard
  (`CASModuleManager.cpp:210`); RemoveModule of a name does not unhook (318), and that of
  a module unhooks before the destructors run that may hook again (300); a function hooked
  by the initial value of a global has no CASModule yet (`CASBaseEvent.cpp:63`).
- *Manager*: Initialize after a failed Initialize returns true (`CASManager.cpp:84`).
- *Calls*: SetContextArgument skips an object of another type and returns true
  (`ContextUtils.cpp:184`); CallFunction returns true for a call that raised an
  exception (`ASCallable.h:80`); SetArguments from a va_list dereferences the null type
  of a primitive (`CASArguments.cpp:290`); an object of another type is passed to a
  handle, since a cast that gives null succeeds (`ContextUtils.cpp:156`); a handle that
  was stored with its flag is dereferenced again (130), and so is a delegate (672);
  GetReturnValue calls a method in the context
  it reads (`ContextUtils.cpp:865`).
- *Pointers*: a failed downcast leaks a reference (`ASUtil.h:741`), and RegisterCasts
  registers it the wrong way round (758).
- *Builder*: GetAbsolutePath above the root never ends (`scriptbuilder.cpp:1034`); a
  file that could not be loaded counts as included (87); a name in the parentheses after
  a variable is taken for the variable's (938); shared classes are skipped (304); of two
  metadata strings before a function the first is lost (889).
- *Array*: RemoveRange wraps around (`scriptarray.cpp:662`), InsertAt goes on after a
  refused Resize (797), 64 bit integers are neither sorted nor found (1010).
- *Dictionary, any*: a handle that does not fit is reported as retrieved
  (`scriptdictionary.cpp:691`); assignment to itself empties a dictionary (242) and an
  any, and frees a value before it is read (648); a node that a destructor inserts while
  DeleteAll walks the hash map may hold its object for good (386).

## Not modelled, and why

- *Timers of script objects*: releasing one may run a destructor that uses the
  scheduler; only functions are modelled (`CASScheduler.cpp:399` is listed as a hazard
  of the walk by its misuse `"clear"`).
- *Host functions that scripts call in the middle of a removal* and that build or remove
  modules themselves.
- *Handles by reference* as parameters of calls.
- *Names and types in the Builder's scripts*: whether what is used was declared is not
  asked of a module that compiles; overloads are not told apart.
- *What constructors of array elements do to arrays*: they may fail, and touch none.
- *Reflection*: read-only queries on the engine.
- *Extend adapter*: templates that forward virtual calls; their only state is an object
  pointer.
- *Utilities, logging, formatting, dump operations*: no state that others read.
- *String add-on*: operators of std::string and number formatting.
- *Test program*: an example host, read for how the library is used.
- *Registration, generic wrappers, list constructors* of the add-ons, and the iterators
  and number conversions of the dictionary: data and glue.
- *Access masks of modules and type checks of hooked functions*: data that no other
  state depends on; masks are in `Host` where events are looked up.
- *The garbage collector of arrays*: elements that refer back to arrays. The collector
  is modelled where containers form cycles, in `Dictionary`.

## What is left

Timers of script objects with their destructors.
