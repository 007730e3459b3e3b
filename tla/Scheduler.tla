----------------------------- MODULE Scheduler -----------------------------
(***************************************************************************)
(* CASScheduler: the timers of one script module.                          *)
(*                                                                         *)
(* A timer (CScheduledFunction) is a reference counted heap object.  The   *)
(* scheduler keeps timers in an intrusive singly linked list that starts   *)
(* at m_pFunctionListHead.  Think walks that list once and calls the       *)
(* script function of each timer that is due.  The script function runs in *)
(* the middle of the walk and may schedule timers (they go to a second     *)
(* list, m_pThinkListHead, merged when the walk ends), remove timers,      *)
(* clear the list and change the timers it has handles to.                 *)
(*                                                                         *)
(* Pointers are modelled as pointers: a timer is a cell of memory, next is *)
(* its m_pNext, a cell whose reference count is zero is free, the          *)
(* allocator hands out any free cell, and following a pointer to a free    *)
(* cell, or calling the null function of a removed timer, is a fault that  *)
(* ends the behaviour.  Time is integer instead of float.  Timers are      *)
(* those of global functions: the destructor of a timer's script object,   *)
(* which can call back into the scheduler, is not modelled here.           *)
(***************************************************************************)
EXTENDS Integers, FiniteSets

CONSTANTS
  Timer,      \* the memory cells timers are allocated in
  NoTimer,    \* the null pointer
  Delays,     \* delays and repeat times scripts pass
  Counts,     \* repeat counts scripts pass
  Times,      \* next call times scripts set
  Shifts,     \* amounts the host passes to AdjustTime
  MinTime,    \* bound: no next call time is adjusted below it
  MaxTime,    \* bound: the host's clock stops there
  MaxRefs,    \* bound: references a timer can collect
  Misuse      \* what scripts do beyond the safe use of the interface

Misuses == {"neighbour", "clear", "fresh"}

ASSUME TimerAssumption == IsFiniteSet(Timer) /\ NoTimer \notin Timer
ASSUME DelaysAssumption == Delays \subseteq Int
ASSUME CountsAssumption == Counts \subseteq Int
ASSUME TimesAssumption == Times \subseteq Int
ASSUME ShiftsAssumption == Shifts \subseteq Nat
ASSUME BoundsAssumption == /\ MinTime \in Int
                           /\ MaxTime \in Nat
                           /\ MaxRefs \in Nat
ASSUME MisuseAssumption == Misuse \subseteq Misuses

(* REPEAT_INF_TIMES. *)
RepeatInfinite == -1

VARIABLES
  \* The scheduler.
  head,         \* m_pFunctionListHead
  thinkHead,    \* m_pThinkListHead
  current,      \* m_pCurrentFunction
  thinking,     \* m_bThinking
  shouldRemove, \* m_bShouldRemove
  lastTime,     \* m_flLastTime
  \* The timers.
  next,         \* m_pNext
  refs,         \* reference count; 0 when the cell is free
  removed,      \* m_bRemoved; removed timers have a null m_pFunction
  timing,       \* m_flNextCallTime, m_flRepeatTime, m_iRepeatCount
  held,         \* the script has a handle to the timer
  \* The activation of Think.
  pc,           \* "idle", "iterate" (top of the loop), "calling" (in script)
  pLast, pNext, pNextNext,
  \* The host and the observers.
  clock,        \* the time the host passes to Think
  fault,        \* what undefined behaviour occurred
  called,       \* ghost: timers called by this activation of Think
  requested     \* ghost: timers passed to RemoveTimer while listed

scheduler == <<head, thinkHead, current, thinking, shouldRemove, lastTime>>
timers    == <<next, refs, removed, timing, held>>
walk      == <<pc, pLast, pNext, pNextNext>>
ghosts    == <<called, requested>>
vars      == <<scheduler, timers, walk, clock, fault, ghosts>>

Pointer == Timer \cup {NoTimer}

NoTiming == [nextCall |-> 0, repeatTime |-> 0, count |-> 0]

Init ==
  /\ head = NoTimer /\ thinkHead = NoTimer /\ current = NoTimer
  /\ thinking = FALSE /\ shouldRemove = FALSE /\ lastTime = 0
  /\ next = [t \in Timer |-> NoTimer]
  /\ refs = [t \in Timer |-> 0]
  /\ removed = [t \in Timer |-> TRUE]
  /\ timing = [t \in Timer |-> NoTiming]
  /\ held = [t \in Timer |-> FALSE]
  /\ pc = "idle" /\ pLast = NoTimer /\ pNext = NoTimer /\ pNextNext = NoTimer
  /\ clock = 0 /\ fault = "none"
  /\ called = {} /\ requested = {}

-----------------------------------------------------------------------------
(* Timers and lists.                                                       *)

Free(t) == refs[t] = 0

(* A pointer that leads nowhere. *)
Dangling(p) == p # NoTimer /\ Free(p)

IsInfiniteRepeat(t) == timing[t].count = RepeatInfinite

ShouldRemove(t) == ~IsInfiniteRepeat(t) /\ timing[t].count <= 0

Due(t) == timing[t].nextCall <= clock

(* The cells met by walking from first along links: the least set that     *)
(* contains first and is closed under links.                               *)
ReachIn(links, first) ==
  {t \in Timer : \A S \in SUBSET Timer :
      /\ first = NoTimer \/ first \in S
      /\ \A s \in S : links[s] = NoTimer \/ links[s] \in S
      => t \in S}

(* The timers in the list that starts at first. *)
Reach(first) == ReachIn(next, first)

(* What becomes of a walk of the main list to its end: a list that scripts *)
(* corrupted may lead into freed memory or have no end.                    *)
WalkFault ==
  IF \E t \in Reach(head) : Free(t) THEN "useAfterFree"
  ELSE IF head # NoTimer /\ \A t \in Reach(head) : next[t] # NoTimer
  THEN "endlessWalk" ELSE "none"

(* The contents of freed memory mean nothing: they are not remembered.     *)
Scrubbed(field, blank) ==
  [t \in Timer |-> IF refs'[t] = 0 THEN blank ELSE field[t]]

(* Mutant: the timer before t is not linked to the one after it. *)
UnlinkHeadOnly(pred, t) ==
  /\ head' = IF pred = NoTimer THEN next[t] ELSE head
  /\ next' = Scrubbed(next, NoTimer)

(* The pointer to t, in pred or, if t is the first, in the scheduler, skips t. *)
Unlink(pred, t) ==
  /\ head' = IF pred = NoTimer THEN next[t] ELSE head
  /\ next' = Scrubbed(IF pred = NoTimer THEN next
                      ELSE [next EXCEPT ![pred] = next[t]], NoTimer)

(* RemoveFunction: unlink, Remove, Release the list's reference.  gained   *)
(* counts the references the caller was given and does not give back.      *)
RemoveFunction(pred, t, gained) ==
  /\ refs' = [refs EXCEPT ![t] = @ - 1 + gained]
  /\ removed' = [removed EXCEPT ![t] = TRUE]
  /\ timing' = Scrubbed(timing, NoTiming)
  /\ Unlink(pred, t)

-----------------------------------------------------------------------------
(* What scripts do, between calls of Think and in the functions it calls.  *)

ScriptRuns == fault = "none" /\ pc \in {"idle", "calling"}

HasHandle(t) == held[t] /\ ~Free(t)

(* The script's handle outlived the timer: whatever the script does with   *)
(* it reads freed memory.                                                  *)
UseStaleHandle(t) ==
  /\ ScriptRuns
  /\ held[t] /\ Free(t)
  /\ fault' = "useAfterFree"
  /\ UNCHANGED <<scheduler, timers, walk, clock, ghosts>>

(* SetTimeout and SetInterval, all overloads: a negative delay and a count *)
(* that is zero or less than REPEAT_INF_TIMES are refused.  The script may *)
(* keep the handle that is returned or drop it.  The allocator is not made *)
(* to reuse a cell that a stale handle points to: using that handle is a   *)
(* fault as it is.                                                         *)
Schedule(t, delay, count, keep) ==
  /\ ScriptRuns
  /\ Free(t) /\ ~held[t]
  /\ delay >= 0
  /\ count # 0 /\ count >= RepeatInfinite
  /\ refs' = [refs EXCEPT ![t] = IF keep THEN 2 ELSE 1]
  /\ removed' = [removed EXCEPT ![t] = FALSE]
  /\ held' = [held EXCEPT ![t] = keep]
  /\ timing' = [timing EXCEPT ![t] = [nextCall   |-> lastTime + delay,
                                      repeatTime |-> delay,
                                      count      |-> count]]
  /\ IF thinking
     THEN /\ next' = [next EXCEPT ![t] = thinkHead]
          /\ thinkHead' = t
          /\ UNCHANGED head
     ELSE /\ next' = [next EXCEPT ![t] = head]
          /\ head' = t
          /\ UNCHANGED thinkHead
  /\ called' = called \ {t}
  /\ requested' = requested \ {t}
  /\ UNCHANGED <<current, thinking, shouldRemove, lastTime, walk, clock, fault>>

(* The script lets go of a handle. *)
DropHandle(t) ==
  /\ ScriptRuns
  /\ HasHandle(t)
  /\ held' = [held EXCEPT ![t] = FALSE]
  /\ refs' = [refs EXCEPT ![t] = @ - 1]
  /\ next' = Scrubbed(next, NoTimer)
  /\ timing' = Scrubbed(timing, NoTiming)
  /\ UNCHANGED <<scheduler, removed, walk, clock, fault, ghosts>>

(* The calls of RemoveTimer that the walk in progress does not survive,    *)
(* and those that have no effect, are made only by scripts that misuse it. *)
MayRemove(t) ==
  /\ pc = "calling" /\ t \in {pLast, pNextNext} => "neighbour" \in Misuse
  /\ t \in Reach(thinkHead) => "fresh" \in Misuse

(* Mutant: every removal that is asked for during Think is put off. *)
ExecutingAny(t) == thinking

(* The timer whose function made the call. *)
Executing(t) == t = current

(* RemoveTimer is handed a reference of its own.  A timer found in the     *)
(* main list is removed, or flagged when it is the one executing, and the  *)
(* reference is kept; otherwise the reference is released.                 *)
RemoveTimer(t) ==
  /\ ScriptRuns
  /\ HasHandle(t)
  /\ MayRemove(t)
  /\ requested' = IF removed[t] THEN requested ELSE requested \cup {t}
  /\ \/ /\ t \in Reach(head)
        /\ Executing(t)
        /\ refs[t] < MaxRefs
        /\ shouldRemove' = TRUE
        /\ refs' = [refs EXCEPT ![t] = @ + 1]
        /\ UNCHANGED <<head, next, removed, timing, fault>>
     \/ /\ t \in Reach(head)
        /\ ~Executing(t)
        /\ \E pred \in IF t = head THEN {NoTimer}
                       ELSE {p \in Reach(head) : next[p] = t} :
             RemoveFunction(pred, t, 1)
        /\ UNCHANGED <<shouldRemove, fault>>
     \/ /\ t \notin Reach(head)
        /\ fault' = WalkFault
        /\ UNCHANGED <<head, shouldRemove, next, refs, removed, timing>>
  /\ UNCHANGED <<thinkHead, current, thinking, lastTime, held, walk, clock,
                 called>>

(* Mutant: the handle is returned without a reference of its own. *)
NoRefForReturn(t) == refs

(* The reference that goes with a returned handle. *)
RefForReturn(t) == [refs EXCEPT ![t] = @ + 1]

(* GetCurrentFunction: the script keeps the handle it returns. *)
GetCurrentFunction ==
  /\ ScriptRuns
  /\ current # NoTimer
  /\ IF Free(current)
     THEN /\ fault' = "useAfterFree"
          /\ UNCHANGED <<refs, held>>
     ELSE /\ ~held[current] /\ refs[current] < MaxRefs
          /\ refs' = RefForReturn(current)
          /\ held' = [held EXCEPT ![current] = TRUE]
          /\ UNCHANGED fault
  /\ UNCHANGED <<scheduler, next, removed, timing, walk, clock, ghosts>>

(* ClearTimerList: Remove and Release every timer of the main list.  On a  *)
(* list without end it goes on until it has deleted a timer and meets it   *)
(* again.                                                                  *)
ClearTimerList ==
  /\ ScriptRuns
  /\ pc = "calling" => "clear" \in Misuse
  /\ head # NoTimer
  /\ IF WalkFault # "none"
     THEN /\ fault' = "useAfterFree"
          /\ UNCHANGED <<head, next, refs, removed, timing>>
     ELSE /\ head' = NoTimer
          /\ refs' = [t \in Timer |->
                        IF t \in Reach(head) THEN refs[t] - 1 ELSE refs[t]]
          /\ removed' = [t \in Timer |-> removed[t] \/ t \in Reach(head)]
          /\ next' = Scrubbed(next, NoTimer)
          /\ timing' = Scrubbed(timing, NoTiming)
          /\ UNCHANGED fault
  /\ UNCHANGED <<thinkHead, current, thinking, shouldRemove, lastTime, held,
                 walk, clock, ghosts>>

(* SetNextCallTime, SetRepeatTime, SetRepeatCount, MakeInfiniteRepeat on a *)
(* timer the script has a handle to.                                       *)
Amend(t, newTiming) ==
  /\ ScriptRuns
  /\ HasHandle(t)
  /\ timing' = [timing EXCEPT ![t] = newTiming]
  /\ UNCHANGED <<scheduler, next, refs, removed, held, walk, clock, fault,
                 ghosts>>

SetNextCallTime(t, time) == Amend(t, [timing[t] EXCEPT !.nextCall = time])

(* Mutant: negative repeat times are accepted. *)
SetAnyRepeatTime(t, delay) == Amend(t, [timing[t] EXCEPT !.repeatTime = delay])

SetRepeatTime(t, delay) ==
  /\ delay >= 0
  /\ Amend(t, [timing[t] EXCEPT !.repeatTime = delay])

SetRepeatCount(t, count) ==
  /\ count >= RepeatInfinite
  /\ Amend(t, [timing[t] EXCEPT !.count = count])

MakeInfiniteRepeat(t) == Amend(t, [timing[t] EXCEPT !.count = RepeatInfinite])

-----------------------------------------------------------------------------
(* Think, one action per stretch between two entries into script code.     *)

ThinkStart ==
  /\ fault = "none"
  /\ pc = "idle"
  /\ thinking' = TRUE
  /\ pc' = "iterate" /\ pNext' = head /\ pLast' = NoTimer
  /\ pNextNext' = NoTimer
  /\ called' = {}
  /\ UNCHANGED <<head, thinkHead, current, shouldRemove, lastTime, timers,
                 clock, fault, requested>>

AtTimer == fault = "none" /\ pc = "iterate" /\ pNext # NoTimer

(* The walk arrived at a timer that was freed or that lost its function,   *)
(* or cannot unlink it because the timer before it was freed.              *)
BadTimer ==
  /\ AtTimer
  /\ \/ /\ Free(pNext) \/ (ShouldRemove(pNext) /\ Dangling(pLast))
        /\ fault' = "useAfterFree"
     \/ /\ ~Free(pNext)
        /\ ~ShouldRemove(pNext) /\ Due(pNext) /\ removed[pNext]
        /\ fault' = "nullFunction"
  /\ UNCHANGED <<scheduler, timers, walk, clock, ghosts>>

(* A script set its repeat count to zero: it is removed uncalled. *)
RemoveExhausted ==
  /\ AtTimer /\ ~Free(pNext)
  /\ ShouldRemove(pNext)
  /\ ~Dangling(pLast)
  /\ current' = pNext
  /\ RemoveFunction(pLast, pNext, 0)
  /\ pNext' = next[pNext] /\ pNextNext' = next[pNext]
  /\ UNCHANGED <<thinkHead, thinking, shouldRemove, lastTime, held, pc, pLast,
                 clock, fault, ghosts>>

(* Not due yet. *)
Skip ==
  /\ AtTimer /\ ~Free(pNext)
  /\ ~ShouldRemove(pNext) /\ ~Due(pNext)
  /\ current' = pNext
  /\ pLast' = pNext /\ pNext' = next[pNext] /\ pNextNext' = next[pNext]
  /\ UNCHANGED <<head, thinkHead, thinking, shouldRemove, lastTime, timers, pc,
                 clock, fault, ghosts>>

(* One call less to make, and the time of the next: set before the call so *)
(* that the function can change both.                                      *)
Called(t) ==
  LET old == timing[t] IN
  [nextCall   |-> clock + old.repeatTime,
   repeatTime |-> old.repeatTime,
   count      |-> IF IsInfiniteRepeat(t) THEN old.count ELSE old.count - 1]

(* Due: the script function starts. *)
Call ==
  /\ AtTimer /\ ~Free(pNext)
  /\ ~ShouldRemove(pNext) /\ Due(pNext) /\ ~removed[pNext]
  /\ current' = pNext
  /\ pNextNext' = next[pNext]
  /\ timing' = [timing EXCEPT ![pNext] = Called(pNext)]
  /\ pc' = "calling"
  /\ called' = called \cup {pNext}
  /\ UNCHANGED <<head, thinkHead, thinking, shouldRemove, lastTime, next, refs,
                 removed, held, pLast, pNext, clock, fault, requested>>

(* Mutant: a timer that is due again at once is called again. *)
FollowingCatchUp == IF Due(pNext) THEN pNext ELSE pNextNext

(* Where the walk goes on after a call: read before the call was made. *)
Following == pNextNext

(* The script function returned, or failed: the timer is removed when it   *)
(* was flagged or its calls are used up, and the walk goes on with the     *)
(* pointer it read before the call.                                        *)
CallReturn ==
  /\ fault = "none"
  /\ pc = "calling"
  /\ pc' = "iterate"
  /\ LET remove == shouldRemove \/ ShouldRemove(pNext) IN
     IF Free(pNext) \/ (remove /\ Dangling(pLast))
     THEN /\ fault' = "useAfterFree"
          /\ UNCHANGED <<head, shouldRemove, next, refs, removed, timing, pLast,
                         pNext>>
     ELSE /\ IF remove
             THEN /\ RemoveFunction(pLast, pNext, 0)
                  /\ shouldRemove' = FALSE
                  /\ UNCHANGED pLast
             ELSE /\ pLast' = pNext
                  /\ UNCHANGED <<head, shouldRemove, next, refs, removed,
                                 timing>>
          /\ pNext' = Following
          /\ UNCHANGED fault
  /\ UNCHANGED <<thinkHead, current, thinking, lastTime, held, pNextNext, clock,
                 ghosts>>

(* Mutant: the timers scheduled meanwhile replace the main list. *)
MergeOver ==
  /\ head' = IF thinkHead # NoTimer THEN thinkHead ELSE head
  /\ UNCHANGED <<next, fault>>

(* The timers scheduled during Think go behind the last timer of the main  *)
(* list, if any.                                                           *)
Merge ==
  IF thinkHead # NoTimer /\ pLast # NoTimer
  THEN /\ fault' = IF Free(pLast) THEN "useAfterFree" ELSE fault
       /\ next' = [next EXCEPT ![pLast] = thinkHead]
       /\ UNCHANGED head
  ELSE /\ head' = IF thinkHead # NoTimer THEN thinkHead ELSE head
       /\ UNCHANGED <<next, fault>>

ThinkEnd ==
  /\ fault = "none"
  /\ pc = "iterate" /\ pNext = NoTimer
  /\ lastTime' = clock
  /\ current' = NoTimer
  /\ thinking' = FALSE
  /\ thinkHead' = NoTimer
  /\ Merge
  /\ pc' = "idle" /\ pLast' = NoTimer /\ pNextNext' = NoTimer
  /\ called' = {}
  /\ UNCHANGED <<shouldRemove, refs, removed, timing, held, pNext, clock,
                 requested>>

-----------------------------------------------------------------------------
(* The host: its clock advances between frames; when it winds the clock    *)
(* back (a new level) it tells the scheduler by how much.                  *)

Tick ==
  /\ fault = "none" /\ pc = "idle"
  /\ clock < MaxTime
  /\ clock' = clock + 1
  /\ UNCHANGED <<scheduler, timers, walk, fault, ghosts>>

AdjustTime(shift) ==
  /\ fault = "none" /\ pc = "idle"
  /\ shift <= clock
  /\ \A t \in Reach(head) : timing[t].nextCall - shift >= MinTime
  /\ clock' = clock - shift
  /\ timing' = [t \in Timer |->
                  IF t \in Reach(head)
                  THEN [timing[t] EXCEPT !.nextCall = @ - shift]
                  ELSE timing[t]]
  /\ fault' = WalkFault
  /\ UNCHANGED <<scheduler, next, refs, removed, held, walk, ghosts>>

-----------------------------------------------------------------------------

Script ==
  \/ \E t \in Timer, delay \in Delays, count \in Counts, keep \in BOOLEAN :
       Schedule(t, delay, count, keep)
  \/ \E t \in Timer : UseStaleHandle(t)
  \/ \E t \in Timer : DropHandle(t)
  \/ \E t \in Timer : RemoveTimer(t)
  \/ GetCurrentFunction
  \/ ClearTimerList
  \/ \E t \in Timer, time \in Times : SetNextCallTime(t, time)
  \/ \E t \in Timer, delay \in Delays : SetRepeatTime(t, delay)
  \/ \E t \in Timer, count \in Counts : SetRepeatCount(t, count)
  \/ \E t \in Timer : MakeInfiniteRepeat(t)

Think == ThinkStart \/ BadTimer \/ RemoveExhausted \/ Skip \/ Call \/ CallReturn
         \/ ThinkEnd

Host == Tick \/ \E shift \in Shifts : AdjustTime(shift)

Next == Script \/ Think \/ Host

Spec == Init /\ [][Next]_vars

(* Think is a loop of the host's thread: it goes on until it returns, each *)
(* script function returns, and the host calls Think every frame.          *)
Fairness == WF_vars(Think)

FairSpec == Spec /\ Fairness

-----------------------------------------------------------------------------
(* Properties.                                                             *)

(* Type invariant: the ranges of the variables. *)
TypeOK ==
  /\ {head, thinkHead, current, pLast, pNext, pNextNext} \subseteq Pointer
  /\ thinking \in BOOLEAN /\ shouldRemove \in BOOLEAN
  /\ lastTime \in 0..MaxTime /\ clock \in 0..MaxTime
  /\ next \in [Timer -> Pointer]
  /\ refs \in [Timer -> Nat]
  /\ removed \in [Timer -> BOOLEAN] /\ held \in [Timer -> BOOLEAN]
  /\ timing \in [Timer -> [nextCall : Int, repeatTime : Nat, count : Int]]
  /\ pc \in {"idle", "iterate", "calling"}
  /\ fault \in {"none", "useAfterFree", "nullFunction", "endlessWalk"}
  /\ called \subseteq Timer /\ requested \subseteq Timer

(* Nothing the scheduler does dereferences a timer that was deleted or     *)
(* calls the function of a timer that was removed.                         *)
NoFault == fault = "none"

(* A timer is referenced at least once by the list it is in and once by    *)
(* the script that has a handle to it, so neither pointer can dangle, and  *)
(* ~CScheduledFunction's assert(m_bRemoved) never fires.                   *)
RefsCover ==
  \A t \in Timer : /\ ~removed[t] => refs[t] >= 1
                   /\ held[t] => refs[t] >= (IF removed[t] THEN 1 ELSE 2)

(* Every timer that was scheduled and not removed is in exactly one of the *)
(* two lists, and the lists hold no other: no timer is lost when one       *)
(* before it is unlinked, or when the lists are merged at the end of Think.*)
ListsHoldTimers ==
  /\ {t \in Timer : ~removed[t]} = Reach(head) \cup Reach(thinkHead)
  /\ Reach(head) \cap Reach(thinkHead) = {}

(* "pLast points to the last function in the main list; if any": what the  *)
(* merge at the end of Think relies on.                                    *)
LastIsTail ==
  fault = "none" /\ pc = "iterate" /\ pNext = NoTimer =>
    IF pLast = NoTimer THEN head = NoTimer
    ELSE pLast \in Reach(head) /\ next[pLast] = NoTimer

(* The removal flag, one bit for the whole scheduler, is about the timer   *)
(* that executes and that a script asked to remove: it never outlives the  *)
(* call, so no later timer is removed in its place.                        *)
FlagIsForCurrent ==
  fault = "none" /\ shouldRemove => pc = "calling" /\ current \in requested

(* A timer leaves the lists only when a script asked for it, when its      *)
(* calls are used up, or when the whole list is cleared.                   *)
RemovedForCause ==
  [][\A t \in Timer : ~removed[t] /\ removed'[t] =>
       t \in requested' \/ ShouldRemove(t) \/ ClearTimerList]_vars

(* One activation of Think calls a timer at most once, whatever its        *)
(* function schedules, removes or amends, and calls no timer that was      *)
(* scheduled during the activation.                                        *)
CalledOncePerThink ==
  [][Call => pNext \notin called \cup Reach(thinkHead)]_vars

(* The timers that the walk has not come to. *)
Ahead == Reach(IF pc = "calling" THEN next[pNext] ELSE pNext)

Pending == IF pc = "idle" THEN {} ELSE Ahead

Running == IF pc = "calling" THEN pNext ELSE NoTimer

Planned == [t \in Timer |-> IF removed[t] THEN NoTiming ELSE timing[t]]

Timed == INSTANCE Timers WITH
  listed <- Reach(head), fresh <- Reach(thinkHead), pending <- Pending,
  running <- Running, asked <- shouldRemove, timing <- Planned,
  Infinite <- RepeatInfinite

(* The lists are a set of timers to whoever uses them: each Think takes    *)
(* every timer that was scheduled before it exactly once, due timers are   *)
(* called and no other, and whatever is scheduled, removed, amended or     *)
(* cleared meanwhile changes that for the timer it is about and no other.  *)
Implements == Timed!Spec

(* A timer a script asked to remove is removed at once, or when the call   *)
(* in progress, which is its own, returns.                                 *)
RemoveTimerRemoves ==
  \A t \in requested :
    removed[t] \/ (t = current /\ shouldRemove) \/ fault # "none"

(* Every activation of Think returns. *)
ThinkReturns == thinking ~> ~thinking

(* A timer in the main list whose time has come is called, or removed, or  *)
(* put off by a script.                                                    *)
DueIsCalled ==
  \A t \in Timer :
    t \in Reach(head) /\ Due(t) ~> t \in called \/ removed[t] \/ ~Due(t)

-----------------------------------------------------------------------------
(* The inductive invariant behind NoFault.                                 *)

(* No script calls RemoveTimer on a neighbour of the executing timer or    *)
(* ClearTimerList during Think.                                            *)
Disciplined == "neighbour" \notin Misuse /\ "clear" \notin Misuse

(* At most one pointer leads to a timer, so one assignment unlinks it. *)
OneWayIn ==
  \A s \in Timer : ~removed[s] /\ next[s] # NoTimer =>
    /\ next[s] # head
    /\ next[s] # thinkHead
    /\ \A t \in Timer : ~removed[t] /\ next[t] = next[s] => t = s

(* The walk is inside the main list, and pLast leads to pNext. *)
WalkInStep ==
  /\ thinking = (pc # "idle")
  /\ pc = "idle" => thinkHead = NoTimer /\ current = NoTimer
  /\ pc # "idle" =>
       /\ pNext # NoTimer => pNext \in Reach(head)
       /\ pLast = NoTimer => pNext = head
       /\ pLast # NoTimer => pLast \in Reach(head) /\ next[pLast] = pNext
  /\ pc = "calling" => current = pNext /\ pNextNext = next[pNext]

(* While a script function runs it is that of a timer. *)
CallHasTimer == pc = "calling" => pNext # NoTimer

SafeInv ==
  /\ TypeOK /\ CallHasTimer
  /\ NoFault /\ RefsCover
  /\ ListsHoldTimers /\ OneWayIn /\ WalkInStep
=============================================================================
