------------------------------ MODULE TimerQueue ------------------------------
(***************************************************************************)
(* The timer queue behind setTimeout, setInterval, setImmediate and their  *)
(* clear functions (timers.cpp forwards to the bootstrap JS in             *)
(* globals.cpp).  A record is pushed by __timer_enqueue__, marked by       *)
(* __timer_clear__, taken out and run by __fire_due_timers__, which pushes *)
(* an interval back once its callback has returned.                        *)
(*                                                                         *)
(* JavaScript is single-threaded: scripts create and clear timers either   *)
(* outside a firing pass or from inside the callback that the pass is      *)
(* running.  Time is a wall clock in milliseconds (Date.now).              *)
(***************************************************************************)
EXTENDS Integers, Sequences, SequencesExt

CONSTANTS
  Delays,     \* delays scripts pass; a number below 1 stands for every value
              \* that is not a positive finite number (NaN, Infinity, "5")
  BackSteps,  \* by how many ms the wall clock may be set back
  MaxSetBacks,\* bound: how often; 0 = monotone
  MaxTimers,  \* bound: timers ever created
  MaxTime     \* bound: last value of the clock

ASSUME TimerAssumption ==
  /\ Delays \subseteq Int
  /\ BackSteps \subseteq Nat
  /\ MaxSetBacks \in Nat
  /\ MaxTimers \in Nat
  /\ MaxTime \in Nat

VARIABLES
  timerQueue,   \* __timer_queue__, in push order
  nextTimerId,  \* _timer_next_id
  now,          \* Date.now() and NowMs()
  setBacks,     \* history: how often the clock was set back
  passNow,      \* the argument of the running __fire_due_timers__, or NoPass
  firing,       \* the record whose callback is running, or NoTimer
  cancelled,    \* history: ids cleared while their record was queued
  selfCleared   \* history: ids cleared from inside their own callback

timerVars ==
  <<timerQueue, nextTimerId, now, setBacks, passNow, firing, cancelled, selfCleared>>

-----------------------------------------------------------------------------
TimerIds == 1 .. MaxTimers

Timer == [id : Nat, isInterval : BOOLEAN, delay : Nat, fireAt : Nat,
          cleared : BOOLEAN]

NoTimer ==
  [id |-> 0, isInterval |-> FALSE, delay |-> 0, fireAt |-> 0, cleared |-> FALSE]

NoPass == -1

\* typeof delay === 'number' && isFinite(delay) && delay > 0 ? delay : 0
EffectiveDelay(delay) == IF delay > 0 THEN delay ELSE 0

Queued(id) == \E k \in DOMAIN timerQueue : timerQueue[k].id = id

\* __active_timer_count__() > 0: what keeps the event loop alive.
AnyTimer == \E k \in DOMAIN timerQueue : ~timerQueue[k].cleared

NextFireAt_Last == timerQueue[Len(timerQueue)].fireAt \* Mutant: not the earliest

\* __get_next_timer_fireat__(), asked for only when AnyTimer.
NextFireAt ==
  CHOOSE m \in {timerQueue[k].fireAt : k \in DOMAIN timerQueue} :
    /\ \E k \in DOMAIN timerQueue :
         ~timerQueue[k].cleared /\ timerQueue[k].fireAt = m
    /\ \A k \in DOMAIN timerQueue :
         ~timerQueue[k].cleared => m <= timerQueue[k].fireAt

Due_EvenCleared(t) == t.fireAt <= passNow \* Mutant: cleared is not looked at
Due(t) == ~t.cleared /\ t.fireAt <= passNow

EarliestDue_LastOnTies(k) == \* Mutant: <= in the comparison
  /\ Due(timerQueue[k])
  /\ \A i \in DOMAIN timerQueue :
       Due(timerQueue[i]) =>
         \/ timerQueue[k].fireAt < timerQueue[i].fireAt
         \/ timerQueue[k].fireAt = timerQueue[i].fireAt /\ i <= k

\* The scan of __fire_due_timers__: smallest fireAt, first in the queue on ties.
EarliestDue(k) ==
  /\ Due(timerQueue[k])
  /\ \A i \in DOMAIN timerQueue :
       Due(timerQueue[i]) =>
         \/ timerQueue[k].fireAt < timerQueue[i].fireAt
         \/ timerQueue[k].fireAt = timerQueue[i].fireAt /\ k <= i

-----------------------------------------------------------------------------
InitTimers ==
  /\ timerQueue = << >>
  /\ nextTimerId = 1
  /\ now = 0 /\ setBacks = 0
  /\ passNow = NoPass
  /\ firing = NoTimer
  /\ cancelled = {}
  /\ selfCleared = {}

TimerEnqueue(delay, isInterval) ==
  /\ nextTimerId <= MaxTimers
  /\ timerQueue' = Append(timerQueue,
       [id |-> nextTimerId, isInterval |-> isInterval,
        delay |-> EffectiveDelay(delay), fireAt |-> now + EffectiveDelay(delay),
        cleared |-> FALSE])
  /\ nextTimerId' = nextTimerId + 1
  /\ UNCHANGED <<now, setBacks, passNow, firing, cancelled, selfCleared>>

\* The callback that is running is not in the queue, so a clear of its own id
\* finds no record to mark.
TimerClear(id) ==
  /\ id < nextTimerId
  /\ timerQueue' = [k \in DOMAIN timerQueue |->
       IF timerQueue[k].id = id THEN [timerQueue[k] EXCEPT !.cleared = TRUE]
                                ELSE timerQueue[k]]
  /\ cancelled' = IF Queued(id) THEN cancelled \cup {id} ELSE cancelled
  /\ selfCleared' = IF firing.id = id THEN selfCleared \cup {id} ELSE selfCleared
  /\ UNCHANGED <<nextTimerId, now, setBacks, passNow, firing>>

BeginPass ==
  /\ passNow = NoPass
  /\ passNow' = now
  /\ UNCHANGED <<timerQueue, nextTimerId, now, setBacks, firing, cancelled,
                 selfCleared>>

TakenOut(k) == RemoveAt(timerQueue, k)

FireTimer ==
  /\ passNow # NoPass
  /\ firing = NoTimer
  /\ \E k \in DOMAIN timerQueue :
       /\ EarliestDue(k)
       /\ firing' = timerQueue[k]
       /\ timerQueue' = TakenOut(k)
  /\ UNCHANGED <<nextTimerId, now, setBacks, passNow, cancelled, selfCleared>>

NextRound_SameTime(t) == t \* Mutant: fireAt is left as it was
NextRound(t) == [t EXCEPT !.fireAt = now + t.delay]

\* A callback that throws is caught by the pass: it returns all the same.
TimerReturn ==
  /\ firing # NoTimer
  /\ timerQueue' = IF firing.isInterval /\ ~firing.cleared
                   THEN Append(timerQueue, NextRound(firing))
                   ELSE timerQueue
  /\ firing' = NoTimer
  /\ UNCHANGED <<nextTimerId, now, setBacks, passNow, cancelled, selfCleared>>

EndPass ==
  /\ passNow # NoPass
  /\ firing = NoTimer
  /\ \A k \in DOMAIN timerQueue : ~Due(timerQueue[k])
  /\ passNow' = NoPass
  /\ UNCHANGED <<timerQueue, nextTimerId, now, setBacks, firing, cancelled,
                 selfCleared>>

Tick ==
  /\ now < MaxTime
  /\ now' = now + 1
  /\ UNCHANGED <<timerQueue, nextTimerId, setBacks, passNow, firing, cancelled,
                 selfCleared>>

\* gettimeofday() is the wall clock: setting the date moves it backwards.
ClockSetBack ==
  /\ setBacks < MaxSetBacks
  /\ \E s \in BackSteps : s <= now /\ now' = now - s
  /\ setBacks' = setBacks + 1
  /\ UNCHANGED <<timerQueue, nextTimerId, passNow, firing, cancelled, selfCleared>>

-----------------------------------------------------------------------------
\* JavaScript runs outside a pass, or as the callback the pass has called.
JsRuns == passNow = NoPass \/ firing # NoTimer

ScriptStep ==
  /\ JsRuns
  /\ \/ \E d \in Delays, i \in BOOLEAN : TimerEnqueue(d, i)
     \/ \E id \in TimerIds : TimerClear(id)

TimerNext ==
  \/ ScriptStep
  \/ BeginPass
  \/ FireTimer
  \/ TimerReturn
  \/ EndPass
  \/ Tick
  \/ ClockSetBack

\* The event loop keeps running passes, callbacks return, and time goes on.
TimerFairness ==
  /\ WF_timerVars(BeginPass)
  /\ WF_timerVars(FireTimer)
  /\ WF_timerVars(TimerReturn)
  /\ WF_timerVars(EndPass)
  /\ WF_timerVars(Tick)

TimerSpec == InitTimers /\ [][TimerNext]_timerVars /\ TimerFairness

-----------------------------------------------------------------------------
TimerTypeOK ==
  /\ timerQueue \in Seq(Timer)
  /\ nextTimerId \in Nat \ {0}
  /\ now \in Nat
  /\ setBacks \in Nat
  /\ passNow \in Nat \cup {NoPass}
  /\ firing \in Timer
  /\ cancelled \subseteq Nat
  /\ selfCleared \subseteq Nat

\* A timer has one record at most, queued or running.  An interval pushed back
\* while its record is still queued would fire twice per period
\* (__fire_due_timers__ takes the record out before it calls back).
OneRecordPerTimer ==
  /\ \A i, j \in DOMAIN timerQueue : timerQueue[i].id = timerQueue[j].id => i = j
  /\ firing # NoTimer => ~Queued(firing.id)

\* A timer cleared while it was queued never runs again: neither later in the
\* pass that is under way, nor through the push-back of an interval.
CancelledStaysSilent == firing.id \notin cancelled

\* Timeouts run in the order they were set unless a later one has a shorter
\* delay: while a timeout runs, no live timeout that was set before it with a
\* delay no longer than its own is still waiting.  (Unless the clock was set back.)
FifoPerDelay ==
  setBacks = 0 /\ firing # NoTimer /\ ~firing.isInterval =>
    \A k \in DOMAIN timerQueue :
      LET u == timerQueue[k]
      IN ~u.isInterval /\ ~u.cleared /\ u.delay <= firing.delay
           => u.id >= firing.id

-----------------------------------------------------------------------------
(* What makes the three invariants above inductive. *)

\* Ids are handed out once, in ascending order.
IdsBelowNext ==
  /\ \A k \in DOMAIN timerQueue : timerQueue[k].id \in 1 .. nextTimerId - 1
  /\ firing.id < nextTimerId
  /\ firing # NoTimer => firing.id > 0
  /\ cancelled \subseteq 1 .. nextTimerId - 1

\* A cancelled timer's record carries the mark the scan looks at.
CancelledAreMarked ==
  \A k \in DOMAIN timerQueue : timerQueue[k].id \in cancelled => timerQueue[k].cleared

TimerInv ==
  /\ TimerTypeOK
  /\ IdsBelowNext
  /\ OneRecordPerTimer
  /\ CancelledAreMarked
  /\ CancelledStaysSilent

SetAt(t) == t.fireAt - t.delay

\* Timeouts wait in the order they were set, and that is the order of the times
\* they were set at, none of them in the future.
TimeoutsInOrder == setBacks = 0 =>
  /\ \A i, j \in DOMAIN timerQueue :
       i < j /\ ~timerQueue[i].isInterval /\ ~timerQueue[j].isInterval =>
         /\ timerQueue[i].id < timerQueue[j].id
         /\ SetAt(timerQueue[i]) <= SetAt(timerQueue[j])
  /\ \A k \in DOMAIN timerQueue :
       ~timerQueue[k].isInterval => SetAt(timerQueue[k]) <= now

FifoInv == TimeoutsInOrder /\ FifoPerDelay

-----------------------------------------------------------------------------
\* Every live timer that has come due runs, or is cleared first, whatever other
\* timers (an interval of delay 0 among them) keep coming due as well.
DueTimerRuns ==
  \A id \in TimerIds :
    (\E k \in DOMAIN timerQueue : /\ timerQueue[k].id = id
                                  /\ ~timerQueue[k].cleared
                                  /\ timerQueue[k].fireAt <= now)
      ~> (firing.id = id \/ id \in cancelled)

\* A pass ends: what its callbacks schedule comes due in a later pass once the
\* clock has moved on, so timers cannot keep the loop away from its descriptors.
\* (A pass that starts at the last value of the clock is outside the bound.)
PassEnds ==
  \A t \in 0 .. MaxTime - 1 : (passNow = t) ~> (passNow # t)
=============================================================================
