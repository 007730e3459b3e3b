------------------------------- MODULE Timers -------------------------------
(***************************************************************************)
(* What a scheduler promises, without lists and pointers: a set of timers. *)
(* Think takes each timer that was scheduled when it started, in any       *)
(* order, and calls it if it is due, once; a timer scheduled meanwhile     *)
(* waits for the next Think.  A timer stays scheduled until its calls are  *)
(* used up or a script removes it, which for the one whose function runs   *)
(* means when the function returns.                                        *)
(***************************************************************************)
EXTENDS Integers

CONSTANTS
  Timer,
  NoTimer,
  Infinite,    \* the repeat count that is not used up
  NoTiming     \* the timing of what is not scheduled

VARIABLES
  listed,      \* the timers scheduled, but for
  fresh,       \* those scheduled since Think started
  pending,     \* what Think has still to take
  running,     \* the timer whose function runs, or NoTimer
  asked,       \* that function asked for the removal of its own timer
  thinking,
  timing,      \* time of the next call, repeat time and count of each timer
  clock,
  lastTime     \* the time of the last Think

vars == <<listed, fresh, pending, running, asked, thinking, timing, clock, lastTime>>

Init ==
  /\ listed = {} /\ fresh = {} /\ pending = {}
  /\ running = NoTimer /\ asked = FALSE /\ thinking = FALSE
  /\ timing = [t \in Timer |-> NoTiming]
  /\ clock = 0 /\ lastTime = 0

Exhausted(t) == timing[t].count # Infinite /\ timing[t].count <= 0

Due(t) == timing[t].nextCall <= clock

(* Scripts run between Thinks and while a function is called.              *)
ScriptsRun == thinking => running # NoTimer

Retimed(t) == timing' = [timing EXCEPT ![t] = timing'[t]]

Leave(T) ==
  /\ listed' = listed \ T
  /\ pending' = pending \ T
  /\ timing' = [t \in Timer |-> IF t \in T THEN NoTiming ELSE timing[t]]

Schedule(t) ==
  /\ ScriptsRun
  /\ t \notin listed \cup fresh
  /\ Retimed(t)
  /\ timing'[t].repeatTime >= 0
  /\ timing'[t].nextCall = lastTime + timing'[t].repeatTime
  /\ timing'[t].count > 0 \/ timing'[t].count = Infinite
  /\ listed' = IF thinking THEN listed ELSE listed \cup {t}
  /\ fresh' = IF thinking THEN fresh \cup {t} ELSE fresh
  /\ UNCHANGED <<pending, running, asked, thinking, clock, lastTime>>

(* A script changes when and how often a timer is called.                  *)
Amend(t) ==
  /\ ScriptsRun
  /\ t \in listed \cup fresh
  /\ Retimed(t)
  /\ timing'[t].repeatTime >= 0
  /\ UNCHANGED <<listed, fresh, pending, running, asked, thinking, clock, lastTime>>

Remove(t) ==
  /\ ScriptsRun
  /\ t \in listed \ {running}
  /\ Leave({t})
  /\ UNCHANGED <<fresh, running, asked, thinking, clock, lastTime>>

RemoveRunning ==
  /\ running # NoTimer
  /\ asked' = TRUE
  /\ UNCHANGED <<listed, fresh, pending, running, thinking, timing, clock, lastTime>>

Clear ==
  /\ ~thinking
  /\ Leave(listed)
  /\ UNCHANGED <<fresh, running, asked, thinking, clock, lastTime>>

-----------------------------------------------------------------------------
ThinkStart ==
  /\ ~thinking
  /\ thinking' = TRUE /\ pending' = listed
  /\ UNCHANGED <<listed, fresh, running, asked, timing, clock, lastTime>>

Taking == thinking /\ running = NoTimer

(* Its calls were used up before: it goes without being called.            *)
Drop(t) ==
  /\ Taking /\ t \in pending /\ Exhausted(t)
  /\ Leave({t})
  /\ UNCHANGED <<fresh, running, asked, thinking, clock, lastTime>>

Pass(t) ==
  /\ Taking /\ t \in pending /\ ~Exhausted(t) /\ ~Due(t)
  /\ pending' = pending \ {t}
  /\ UNCHANGED <<listed, fresh, running, asked, thinking, timing, clock, lastTime>>

Call(t) ==
  /\ Taking /\ t \in pending /\ ~Exhausted(t) /\ Due(t)
  /\ pending' = pending \ {t}
  /\ running' = t
  /\ timing' = [timing EXCEPT ![t] =
                  [nextCall |-> clock + @.repeatTime, repeatTime |-> @.repeatTime,
                   count |-> IF @.count = Infinite THEN Infinite ELSE @.count - 1]]
  /\ UNCHANGED <<listed, fresh, asked, thinking, clock, lastTime>>

(* The function returned.                                                  *)
Return ==
  /\ running # NoTimer
  /\ running' = NoTimer /\ asked' = FALSE
  /\ Leave(IF asked \/ Exhausted(running) THEN {running} ELSE {})
  /\ UNCHANGED <<fresh, thinking, clock, lastTime>>

(* No timer is passed over: Think ends when it has taken them all.         *)
ThinkEnd ==
  /\ Taking /\ pending = {}
  /\ thinking' = FALSE
  /\ listed' = listed \cup fresh /\ fresh' = {}
  /\ lastTime' = clock
  /\ UNCHANGED <<pending, running, asked, timing, clock>>

-----------------------------------------------------------------------------
Tick ==
  /\ ~thinking
  /\ clock' = clock + 1
  /\ UNCHANGED <<listed, fresh, pending, running, asked, thinking, timing, lastTime>>

(* The clock is wound back, and with it the time of each call.             *)
WindBack ==
  /\ ~thinking
  /\ clock' <= clock
  /\ timing' = [t \in Timer |->
                  IF t \in listed
                  THEN [timing[t] EXCEPT !.nextCall = @ - (clock - clock')]
                  ELSE timing[t]]
  /\ UNCHANGED <<listed, fresh, pending, running, asked, thinking, lastTime>>

Next ==
  \/ \E t \in Timer : Schedule(t) \/ Amend(t) \/ Remove(t)
  \/ RemoveRunning \/ Clear
  \/ ThinkStart
  \/ \E t \in Timer : Drop(t) \/ Pass(t) \/ Call(t)
  \/ Return \/ ThinkEnd
  \/ Tick \/ WindBack

Spec == Init /\ [][Next]_vars
=============================================================================
